----------------------- MODULE MatrixAgentProperties -----------------------
(***************************************************************************)
(* What the operator must keep true between MatrixAgents, agents, token    *)
(* Secrets and the pods that use them.                                     *)
(***************************************************************************)
EXTENDS MatrixAgentOperator

\* The resource holds its agent: its last word is Ready, and it is not going away.
Holds(r) ==
    /\ res[r].state = "here" /\ res[r].status.phase = "Ready"
    /\ res[r].status.uid = res[r].spec.agent

\* README.md:114-116, "An agent name can be claimed by one resource only; later claims
\* end in phase Conflict": between passes no two resources are Ready with one agent.
ClaimedOnce ==
    at = "sleep" =>
        \A r, q \in Resources :
            Holds(r) /\ Holds(q) /\ res[r].spec.agent = res[q].spec.agent => r = q

\* operator.go:7-8, "an agent name can be claimed by exactly one MatrixAgent (the
\* oldest)": a pass lists the namespaces one after the other and writes from old
\* copies, so a younger claim may be Ready for a while; once users and failures come
\* to rest it is not, while an older claim exists.
OldestClaims ==
    \A r, q \in Resources :
        r < q => <>[](res[r].state = "here" /\ Holds(q) => res[r].spec.agent # res[q].spec.agent)

\* operator.go:7-9: a token goes into a resource's Secret only when the resource
\* created the account, or adopted it with adoptExisting, at some time; however
\* often users edit it and the agent is removed and made again on the dashboard.
NoTakeover ==
    \A r \in Resources : target[r].state = "owned" => Took(r, target[r].agent)

\* operator.go:285-286, "or when a previous pass wrote the Secret but did not get to
\* restart them": once the status names the generation in the Secret, the pods have
\* been started with its token.
RestartFollows(r) ==
    res[r].state = "here" /\ target[r].state = "owned" /\ target[r].token # 0
      /\ res[r].status.restarted = target[r].gen => running[r] = target[r].token

RestartsFollow == \A r \in Resources : RestartFollows(r)

\* crds/matrixagents.yaml, rotationToken, "Change this value to rotate the token
\* once": a status that has taken note of the value means a token was issued since.
RotationHonoured ==
    \A r \in Resources :
        res[r].state = "here" /\ res[r].status.rotation = res[r].spec.rotation => ~asked[r]

\* crds/matrixagents.yaml:61-63: a resource with deletionPolicy Deactivate goes away only
\* after MAS has closed the account that its status names, also when the policy is edited
\* or the pass is cut off between the two calls.
DeactivatedFirst ==
    [][\A r \in Resources :
          res[r].state = "deleting" /\ res'[r] = Gone /\ res[r].spec.policy = "Deactivate"
          => res[r].status.uid \notin accounts]_vars

\* crds/matrixagents.yaml:61-63, "Retain keeps the account when the resource is
\* deleted; Deactivate revokes its sessions and deactivates it": the account that goes
\* with a resource is one that it created or adopted.
ClosesOwnAccount ==
    [][\A a \in Names :
          DeactivateAgent /\ (agents'[a] # agents[a] \/ a \in accounts \ accounts')
          => Took(cur, a)]_vars

\* When users, failures and the dashboard come to rest, a resource whose claim is the
\* oldest, and that has the agent it names or names one that nobody has, ends up Ready,
\* its Secret and its pods with the token; unless the agent was deactivated, or a failed
\* operation left a Secret without an account or an account without a Secret.
Settles(r) ==
    LET a == res[r].spec.agent
        first == \A q \in Resources : res[q].state = "here" /\ res[q].spec.agent = a => r <= q
        its == IF agents[a] = NoAgent THEN a \notin accounts
                                      ELSE res[r].status.uid = a /\ a \in accounts
    IN  res[r].state = "here" /\ res[r].spec.valid /\ first /\ its =>
            /\ res[r].status.phase = "Ready"
            /\ agents[a].status = "active"
            /\ target[r].token = agents[a].token /\ running[r] = agents[a].token

Converges == \A r \in Resources : <>[]Settles(r)

-----------------------------------------------------------------------------
(* Why NoTakeover holds: what is true of the pass at every label. *)

\* An object that the API has, or had when the pass listed it.
Real(o) == o.state \in {"here", "deleting"}

\* Where the pass has an object in hand, and where it has also taken its agent.
Working == Labels \ {"sleep", "list", "next"}
Holding == {"rotate", "reread", "write", "restart"}

PassOK ==
    /\ \A r \in todo : Real(view[r])
    /\ at \in Working =>
          cur \in Resources /\ Real(Obj) /\ (st.uid # None => Took(cur, st.uid))
    /\ at \in Holding => Took(cur, Agent)

\* An account that a status names was the resource's at some time.
StatusOK ==
    \A r \in Resources :
        /\ Real(res[r]) /\ res[r].status.uid # None => Took(r, res[r].status.uid)
        /\ Real(view[r]) /\ view[r].status.uid # None => Took(r, view[r].status.uid)

IInv == TypeOK /\ PassOK /\ StatusOK /\ NoTakeover

-----------------------------------------------------------------------------
(* What the copies of a pass are worth. *)

\* The copies that the pass will still use are what the API has, or known to be old.
InPlay == todo \cup (IF at \in Working THEN {cur} ELSE {})
Synced == \A r \in InPlay : r \notin stale => res[r] = view[r]

\* An object is in hand once in a pass.
TakenOnce == at \in Working => cur \notin todo

FinalInv == IInv /\ Synced /\ TakenOnce

-----------------------------------------------------------------------------
(* Why RotationHonoured holds when nobody sets adoptExisting.  A resource that adopts  *)
(* an agent takes the rotationToken it finds then for one that is served.              *)

\* A status is never ahead of the spec, and nothing is asked of a resource to come.
Counted ==
    \A r \in Resources :
        /\ Real(res[r]) => res[r].status.rotation <= res[r].spec.rotation /\ ~res[r].spec.adopt
        /\ res[r] = Missing => ~asked[r]

\* Nobody else writes the status, and users only raise the value.
Behind ==
    \A r \in InPlay :
        /\ res[r] # Missing
        /\ Real(res[r]) => /\ res[r].status.rotation <= view[r].spec.rotation
                           /\ view[r].spec.rotation <= res[r].spec.rotation

\* The status in hand takes note of the value that was listed only when that is served.
HandServed ==
    at \in Working /\ cur \notin stale =>
        /\ st.rotation <= Obj.spec.rotation
        /\ Obj.state = "here" /\ st.rotation = Obj.spec.rotation => ~asked[cur]

RotationInv == FinalInv /\ Counted /\ Behind /\ HandServed /\ RotationHonoured

-----------------------------------------------------------------------------
(* Why RestartsFollow holds for resources that an earlier pass brought to Ready, while *)
(* nobody renames a claim or makes an agent anew.  The first restart is not repeated,  *)
(* and an agent that is made anew counts its generations from 1 again.                 *)

\* A record that the agent may have had before: a generation has one token, and loses it.
Follows(later, earlier) ==
    \/ earlier.gen < later.gen
    \/ earlier.gen = later.gen /\ later.token \in {earlier.token, 0}

\* The Secret is behind the agent, the status behind the Secret; and the pods are behind
\* the Secret only while the status says so.
Followed(r) ==
    /\ res[r] # Missing
    /\ Real(res[r]) =>
          /\ target[r].state = "owned"
          /\ agents[res[r].spec.agent] # NoAgent /\ Follows(agents[res[r].spec.agent], target[r])
          /\ res[r].status.restarted # 0 /\ res[r].status.restarted <= target[r].gen
          /\ target[r].token # 0 /\ res[r].status.restarted = target[r].gen
                => running[r] = target[r].token

\* The pass has the agent right, and knows of an earlier restart.
SameAgent(r) ==
    Real(res[r]) => view[r].spec.agent = res[r].spec.agent /\ view[r].status.restarted # 0

\* The record in hand is between the agent and the Secret, and the status in hand names
\* the generation of the Secret when the pods have its token.
HandFollows ==
    /\ at \in Working \ {"status"} => st.restarted = Obj.status.restarted
    /\ cur \in Established /\ Real(res[cur]) =>
          /\ at = "write" => Follows(agents[Agent], rec) /\ Follows(rec, target[cur])
          /\ at = "restart" => rec.gen = target[cur].gen
    /\ at = "status" /\ cur \in Established \ stale =>
          \/ st.restarted = Obj.status.restarted
          \/ /\ st.restarted = target[cur].gen
             /\ target[cur].token # 0 => running[cur] = target[cur].token

FollowInv ==
    /\ FinalInv /\ HandFollows
    /\ \A r \in Established : Followed(r) /\ (r \in InPlay => SameAgent(r))

-----------------------------------------------------------------------------
(* Why ClosesOwnAccount holds while nobody renames a claim. *)

\* A status names the agent of the spec, or none.
OwnName ==
    /\ \A r \in Resources : Real(res[r]) => res[r].status.uid \in {None, res[r].spec.agent}
    /\ \A r \in InPlay : view[r].status.uid \in {None, view[r].spec.agent}
    /\ at \in Working => st.uid \in {None, Agent}
    /\ at = "deactivate" => Obj.status.uid # None

NameInv == FinalInv /\ OwnName

-----------------------------------------------------------------------------
(* Why DeactivatedFirst holds while nobody renames a claim, and an account that is     *)
(* active keeps its Secret.  Where there is no Secret, finalize closes nothing: a      *)
(* failed Rotate may have deleted it, or, once the dashboard has removed an agent, a   *)
(* failed Create may have made the account only.                                       *)

AccountsKept ==
    /\ "rename" \notin Edits /\ "purge" \notin Faults
    /\ "remove" \notin Dashboard \/ ("create" \notin Dashboard /\ "lost" \notin Faults)

\* A Secret says deactivated of a closed account only.
Withdrawn == \A a \in Names : agents[a].status = "deactivated" => a \notin accounts

\* An agent that a resource took has its Secret, or was removed with its account.
Accounted(a) == agents[a] # NoAgent \/ ("remove" \in Dashboard /\ a \notin accounts)
TakenAccounted == \A r \in Resources, a \in Names : Took(r, a) => Accounted(a)

\* The account is closed when the finalizer is about to go.
ClosedFirst ==
    at = "unfinalize" /\ Obj.spec.policy = "Deactivate" => Obj.status.uid \notin accounts

CloseInv == NameInv /\ Withdrawn /\ TakenAccounted /\ ClosedFirst
=============================================================================
