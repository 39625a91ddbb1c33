------------------------ MODULE MatrixAgentOperator ------------------------
(***************************************************************************)
(* operator.Operator: one loop that lists the MatrixAgent resources of the *)
(* watched namespaces and reconciles each with agents.Service.  A pass     *)
(* works on copies taken when it listed; users edit and delete resources,  *)
(* and the dashboard works on agents, while it runs.  One action below is  *)
(* one call of the pass together with the code up to the next one.  An     *)
(* operation of agents.Service is one step here: it holds the agent's      *)
(* mutex, and AgentService has its inside.                                 *)
(*                                                                         *)
(* Definitions called X_... are wrong variants of X that the properties    *)
(* must tell apart from it; nothing else uses them.                        *)
(***************************************************************************)
EXTENDS Integers, FiniteSets

CONSTANTS
    Resources,      \* MatrixAgents; numbers, in the order of their creation
    Namespaces,     \* the watched namespaces
    NamespaceOf,    \* the namespace of each resource
    Names,          \* agent names
    None,           \* no name: an empty status field
    Established,    \* resources that an earlier pass brought to Ready
    Policies,       \* deletion policies in play
    Dashboard,      \* operations of the dashboard in play
    Edits,          \* what users do to resources
    Aging,          \* RotateAfter is set
    Faults,         \* the kinds of failure in play
    MaxFaults,      \* bound: failures in one behaviour
    MaxOutside,     \* bound: dashboard operations and user edits
    MaxTokens       \* bound: tokens, past which no token is too old

EditKinds == {"apply", "rotation", "adopt", "invalid", "rename", "policy", "delete"}
FaultKinds == {"list", "fail", "lost", "restart", "crash", "purge"}
DashboardOps == {"create", "rotate", "revoke", "deactivate", "remove"}

ASSUME ResourceAssumption ==
    /\ Resources \subseteq Nat /\ IsFiniteSet(Resources)
    /\ NamespaceOf \in [Resources -> Namespaces]
    /\ Established \subseteq Resources
ASSUME NameAssumption == None \notin Names
ASSUME KindAssumption ==
    /\ Policies \subseteq {"Retain", "Deactivate"} /\ Aging \in BOOLEAN
    /\ Dashboard \subseteq DashboardOps /\ Edits \subseteq EditKinds /\ Faults \subseteq FaultKinds
ASSUME LimitAssumption == MaxFaults \in Nat /\ MaxOutside \in Nat /\ MaxTokens \in Nat

VARIABLES
    res,        \* Kubernetes: the MatrixAgents
    target,     \* Kubernetes: the token Secret of each
    running,    \* the token the pods of each one's restartDeployments started with
    agents,     \* agents.Service: the record of each name
    accounts,   \* MAS: the names with an active account, managed or not
    issued,     \* tokens issued so far
    at,         \* where the pass is
    unlisted,   \* namespaces the pass has not listed yet
    view,       \* its copies of the resources it listed
    stale,      \* those that were written since
    todo,       \* those it has still to reconcile
    cur,        \* the resource in hand
    st, rec,    \* the status being built, and the record last read
    asked,      \* history: a rotation was requested and none has happened since
    granted,    \* history: agents each resource created or, told to, adopted
    faults, outside

cluster == <<res, target, running>>
service == <<agents, accounts, issued>>
pass == <<at, unlisted, view, stale, todo, cur, st, rec>>
vars == <<res, target, running, agents, accounts, issued, at, unlisted, view, stale, todo, cur, st, rec,
          asked, granted, faults, outside>>

Phases == {"", "Ready", "Conflict", "Failed"}
SpecRecord == [agent : Names, adopt : BOOLEAN, policy : Policies, rotation : Nat, valid : BOOLEAN]
StatusRecord == [phase : Phases, uid : Names \cup {None}, rotation : Nat, restarted : Nat]
NoStatus == [phase |-> "", uid |-> None, rotation |-> 0, restarted |-> 0]
Missing == [state |-> "none"]
Gone == [state |-> "gone"]
ResourceRecord ==
    [state : {"here", "deleting"}, finalizer : BOOLEAN, spec : SpecRecord, status : StatusRecord]
      \cup {Missing, Gone}

\* SecretRecord; MAS keeps the user ID of a name, so the name stands for MASUserID.
AgentRecord == [status : {"absent", "active", "revoked", "deactivated"}, token : Nat, gen : Nat]
NoAgent == [status |-> "absent", token |-> 0, gen |-> 0]

TargetRecord == [state : {"absent", "foreign", "owned"}, agent : Names \cup {None},
                 token : Nat, gen : Nat]
NoTarget == [state |-> "absent", agent |-> None, token |-> 0, gen |-> 0]

Labels == {"sleep", "list", "next", "finalizer", "read", "create", "rotate", "reread", "write",
           "restart", "status", "deactivate", "unfinalize"}

TypeOK ==
    /\ res \in [Resources -> ResourceRecord]
    /\ target \in [Resources -> TargetRecord]
    /\ running \in [Resources -> Nat]
    /\ agents \in [Names -> AgentRecord] /\ accounts \subseteq Names
    /\ issued \in Nat
    /\ at \in Labels
    /\ unlisted \subseteq Namespaces
    /\ view \in [Resources -> ResourceRecord]
    /\ stale \subseteq Resources /\ todo \subseteq Resources
    /\ cur \in Resources \cup {0}
    /\ st \in StatusRecord /\ rec \in AgentRecord
    /\ asked \in [Resources -> BOOLEAN]
    /\ granted \subseteq Resources \X Names \X {"created", "adopted"}
    /\ faults \in Nat /\ outside \in Nat

-----------------------------------------------------------------------------
(* Failures, and how the pass goes on. *)

NoFault == UNCHANGED faults
Fault(kind) == kind \in Faults /\ faults < MaxFaults /\ faults' = faults + 1

\* A call: refused when its precondition is false, failed, done, or done with its
\* answer lost.
Call(Pre, Effect, Same, Ok, Err) ==
    \/ /\ Pre /\ Effect
       /\ \/ NoFault /\ Ok
          \/ Fault("lost") /\ Err
    \/ Same /\ ~Pre /\ NoFault /\ Err
    \/ Same /\ Fault("fail") /\ Err

Proceed(label) == at' = label /\ UNCHANGED <<unlisted, view, stale, todo, cur, st, rec>>

\* The object is done with, without a word in its status.
Abandon == Proceed("next")

\* reconcile ends in setStatus(phase).
Report(phase) ==
    /\ at' = "status" /\ st' = [st EXCEPT !.phase = phase]
    /\ UNCHANGED <<unlisted, view, stale, todo, cur, rec>>

Failed == Report("Failed")

History == UNCHANGED <<asked, granted>>
Inside == UNCHANGED outside

Obj == view[cur]
Agent == Obj.spec.agent

-----------------------------------------------------------------------------
(* ReconcileAll *)

\* What Ready leaves behind: the token in the Secret, and the pods started with it.
ReadyResource(a, policy) ==
    [state |-> "here", finalizer |-> TRUE,
     spec |-> [agent |-> a, adopt |-> FALSE, policy |-> policy, rotation |-> 0, valid |-> TRUE],
     status |-> [phase |-> "Ready", uid |-> a, rotation |-> 0, restarted |-> 1]]
FirstAgent == [status |-> "active", token |-> 1, gen |-> 1]

Init ==
    /\ \E a \in Names, policy \in Policies :
          /\ res = [r \in Resources |->
                      IF r \in Established THEN ReadyResource(a, policy) ELSE Missing]
          /\ target \in [Resources ->
                {NoTarget, [state |-> "owned", agent |-> a, token |-> 1, gen |-> 1]}
                  \cup {[NoTarget EXCEPT !.state = "foreign", !.token = t] : t \in 0..1}]
          /\ \A r \in Resources : target[r].state = "owned" <=> r \in Established
          /\ agents \in [Names -> {NoAgent, FirstAgent}] /\ accounts \in SUBSET Names
          /\ \A n \in Names : agents[n] # NoAgent => n \in accounts
          /\ Established # {} => agents[a] = FirstAgent
          /\ granted = Established \X {a} \X {"created"}
    /\ running = [r \in Resources |-> target[r].token]
    /\ issued = 1
    /\ view = [r \in Resources |-> Missing]
    /\ at = "sleep" /\ unlisted = {} /\ stale = {} /\ todo = {} /\ cur = 0
    /\ st = NoStatus /\ rec = NoAgent
    /\ asked = [r \in Resources |-> FALSE]
    /\ faults = 0 /\ outside = 0

BeginPass ==
    /\ at = "sleep"
    /\ at' = "list" /\ unlisted' = Namespaces
    /\ UNCHANGED <<view, stale, todo, cur, st, rec>>
    /\ UNCHANGED <<cluster, service>> /\ NoFault /\ History /\ Inside

\* A namespace that cannot be listed is left out of this pass.
ListNamespace ==
    /\ at = "list"
    /\ \E ns \in unlisted :
          LET found == {r \in Resources : NamespaceOf[r] = ns /\ res[r].state \in {"here", "deleting"}}
          IN  /\ unlisted' = unlisted \ {ns}
              /\ \/ /\ view' = [r \in Resources |-> IF r \in found THEN res[r] ELSE view[r]]
                    /\ todo' = todo \cup found /\ NoFault
                 \/ UNCHANGED <<view, todo>> /\ Fault("list")
    /\ at' = IF unlisted' = {} THEN "next" ELSE "list"
    /\ UNCHANGED <<stale, cur, st, rec>>
    /\ UNCHANGED <<cluster, service>> /\ History /\ Inside

\* claimOwners over what was listed: the oldest claim that is not being deleted.
Listed == {r \in Resources : view[r].state \in {"here", "deleting"}}

Owner_Youngest(a) ==
    LET claims == {r \in Listed : view[r].state = "here" /\ view[r].spec.agent = a}
    IN  CHOOSE r \in claims : \A q \in claims : q <= r

Owner(a) ==
    LET claims == {r \in Listed : view[r].state = "here" /\ view[r].spec.agent = a}
    IN  CHOOSE r \in claims : \A q \in claims : r <= q

\* The order of the list is by namespace and name, which says nothing of age.
Reconcile ==
    /\ at = "next"
    /\ \E r \in todo :
          LET o == view[r]
              Then(label, status) == at' = label /\ st' = status
              Reported(phase) == Then("status", [o.status EXCEPT !.phase = phase])
          IN  /\ cur' = r /\ todo' = todo \ {r}
              /\ \/ /\ o.state = "deleting"
                    /\ Then(IF ~o.finalizer THEN "next"
                            ELSE IF o.spec.policy = "Deactivate" /\ o.status.uid # None
                                 THEN "deactivate" ELSE "unfinalize", o.status)
                 \/ /\ o.state = "here" /\ Owner(o.spec.agent) # r /\ Reported("Conflict")
                 \/ /\ o.state = "here" /\ Owner(o.spec.agent) = r /\ ~o.spec.valid
                    /\ Reported("Failed")
                 \/ /\ o.state = "here" /\ Owner(o.spec.agent) = r /\ o.spec.valid
                    /\ Then(IF o.finalizer THEN "read" ELSE "finalizer", o.status)
    /\ rec' = NoAgent
    /\ UNCHANGED <<unlisted, view, stale>>
    /\ UNCHANGED <<cluster, service>> /\ NoFault /\ History /\ Inside

EndPass ==
    /\ at = "next" /\ todo = {}
    /\ at' = "sleep" /\ cur' = 0 /\ st' = NoStatus /\ rec' = NoAgent /\ stale' = {}
    /\ view' = [r \in Resources |-> Missing]
    /\ UNCHANGED <<unlisted, todo>>
    /\ UNCHANGED <<cluster, service>> /\ NoFault /\ History /\ Inside

-----------------------------------------------------------------------------
(* reconcile *)

\* An update is refused when the object was written since it was listed.
Fresh == cur \notin stale /\ res[cur].state \in {"here", "deleting"}

AddFinalizer ==
    /\ at = "finalizer"
    /\ LET Added == res' = [res EXCEPT ![cur].finalizer = TRUE]
       IN  Call(Fresh, Added, UNCHANGED res,
                /\ at' = "read" /\ view' = [view EXCEPT ![cur].finalizer = TRUE]
                /\ UNCHANGED <<unlisted, stale, todo, cur, st, rec>>,
                Abandon)
    /\ UNCHANGED <<target, running, service>> /\ History /\ Inside

\* The claim does not cover an account that exists: it is not this resource's, or
\* no longer.
Foreign_Unless(a) == st.uid # None /\ st.uid # a

Foreign_AnyName(a) == st.uid = None /\ ~Obj.spec.adopt

Foreign(a) == (st.uid = None /\ ~Obj.spec.adopt) \/ (st.uid # None /\ st.uid # a)

Requested_Never(a) == FALSE

Requested(a) == st.uid # None /\ Obj.spec.rotation # st.rotation

ReadAgent ==
    /\ at = "read"
    /\ LET r == agents[Agent]
           Seen(label) ==
              /\ at' = label
              /\ st' = IF label = "reread" THEN [st EXCEPT !.rotation = Obj.spec.rotation] ELSE st
              /\ granted' = IF st.uid = None /\ Obj.spec.adopt
                            THEN granted \cup {<<cur, Agent, "adopted">>} ELSE granted
              /\ UNCHANGED <<unlisted, view, stale, todo, cur, rec>>
       IN  \/ Fault("fail") /\ Failed /\ UNCHANGED granted
           \/ /\ NoFault /\ r = NoAgent /\ Proceed("create") /\ UNCHANGED granted
           \/ /\ NoFault /\ r # NoAgent
              /\ \/ Foreign(Agent) /\ Report("Conflict") /\ UNCHANGED granted
                 \/ ~Foreign(Agent) /\ r.status = "deactivated" /\ Failed /\ UNCHANGED granted
                 \/ /\ ~Foreign(Agent) /\ r.status = "revoked" /\ Seen("rotate")
                 \/ /\ ~Foreign(Agent) /\ r.status = "active"
                    /\ \E old \in {FALSE, Aging /\ issued < MaxTokens} :
                          Seen(IF Requested(Agent) \/ old THEN "rotate" ELSE "reread")
    /\ UNCHANGED <<cluster, service, asked>> /\ Inside

Renew_Statusless(a, gen) ==
    /\ agents' = [agents EXCEPT ![a] = [status |-> "", token |-> issued + 1, gen |-> gen]]
    /\ issued' = issued + 1

\* A fresh token in the Secret of the agent.
Renew(a, gen) ==
    /\ agents' = [agents EXCEPT ![a] = [status |-> "active", token |-> issued + 1, gen |-> gen]]
    /\ issued' = issued + 1

\* Create refuses a name that has a Secret, or an active account without one.
Free(a) == agents[a] = NoAgent /\ a \notin accounts

Rotatable(a) == agents[a].status \in {"active", "revoked"} /\ a \in accounts

Served ==
    /\ at' = "reread" /\ st' = [st EXCEPT !.rotation = Obj.spec.rotation]
    /\ UNCHANGED <<unlisted, view, stale, todo, cur, rec>>
    /\ asked' = [asked EXCEPT ![cur] = (res[cur].state = "here"
                                         /\ res[cur].spec.rotation # Obj.spec.rotation)]

\* A Create whose inner call lost its answer leaves an account without a Secret, or a
\* Secret whose account and session were closed again.
HalfCreated(a) ==
    \/ accounts' = accounts \cup {a} /\ UNCHANGED <<agents, issued>>
    \/ Renew(a, 1) /\ UNCHANGED accounts

\* Create and Rotate answer an error for an agent the dashboard has changed since.
CreateAgent ==
    /\ at = "create"
    /\ \/ /\ Free(Agent) /\ NoFault
          /\ Renew(Agent, 1) /\ accounts' = accounts \cup {Agent} /\ Served
          /\ granted' = granted \cup {<<cur, Agent, "created">>}
       \/ /\ Failed /\ History
          /\ \/ ~Free(Agent) /\ NoFault /\ UNCHANGED service
             \/ Fault("fail") /\ UNCHANGED service
             \/ Free(Agent) /\ Fault("lost") /\ HalfCreated(Agent)
    /\ UNCHANGED cluster /\ Inside

\* A Rotate that fails may leave the Secret without its token, also in the generation
\* that it had stored already, or no Secret.
RotateAgent ==
    /\ at = "rotate"
    /\ LET r == agents[Agent]
           Become(record) == agents' = [agents EXCEPT ![Agent] = record]
       IN  \/ Rotatable(Agent) /\ NoFault /\ Renew(Agent, r.gen + 1) /\ Served
           \/ /\ Failed /\ UNCHANGED <<issued, asked>>
              /\ \/ ~Rotatable(Agent) /\ NoFault /\ UNCHANGED agents
                 \/ Fault("fail") /\ UNCHANGED agents
                 \/ /\ Rotatable(Agent) /\ Fault("lost")
                    /\ \E gen \in {r.gen, r.gen + 1} :
                          Become([status |-> "revoked", token |-> 0, gen |-> gen])
                 \/ Rotatable(Agent) /\ Fault("purge") /\ Become(NoAgent)
    /\ UNCHANGED <<cluster, accounts, granted>> /\ Inside

RereadAgent ==
    /\ at = "reread"
    /\ LET r == agents[Agent]
       IN  \/ /\ r # NoAgent /\ NoFault
              /\ at' = "write" /\ rec' = r
              /\ UNCHANGED <<unlisted, view, stale, todo, cur, st>>
           \/ Failed /\ ((r = NoAgent /\ NoFault) \/ Fault("fail"))
    /\ UNCHANGED <<cluster, service>> /\ History /\ Inside

-----------------------------------------------------------------------------
(* The token Secret, and the pods that use it *)

Desired == [state |-> "owned", agent |-> Agent, token |-> rec.token, gen |-> rec.gen]

RestartDue_OnChange(changed) == changed

\* The token changed, or a previous pass wrote the Secret and got no further.
RestartDue(changed) == changed \/ (st.restarted # 0 /\ st.restarted # rec.gen)

\* Ready, with everything the status says of the token.
ReadyStatus == [phase |-> "Ready", uid |-> Agent, rotation |-> st.rotation, restarted |-> rec.gen]
FinishReady == at' = "status" /\ st' = ReadyStatus /\ UNCHANGED <<unlisted, view, stale, todo, cur, rec>>

AfterWrite_Unrestarted(changed) == FinishReady

AfterWrite(changed) == IF RestartDue(changed) THEN Proceed("restart") ELSE FinishReady

\* writeSecret reads the Secret, decides, and creates or updates it.  Pods that wait
\* for a Secret that does not exist start when it does.
WriteSecret ==
    /\ at = "write"
    /\ LET old == target[cur]
           Write ==
              /\ target' = [target EXCEPT ![cur] = Desired]
              /\ running' = IF old.state = "absent" THEN [running EXCEPT ![cur] = rec.token] ELSE running
           Keep == UNCHANGED <<target, running>>
       IN  \/ old.state = "foreign" /\ ~Obj.spec.adopt /\ Keep /\ NoFault /\ Failed
           \/ old = Desired /\ Keep /\ NoFault /\ AfterWrite(FALSE)
           \/ /\ old # Desired /\ (old.state = "foreign" => Obj.spec.adopt)
              /\ Write
              /\ \/ NoFault /\ AfterWrite(old.state = "absent" \/ old.token # rec.token)
                 \/ Fault("lost") /\ Failed
           \/ Keep /\ Fault("fail") /\ Failed
    /\ UNCHANGED <<res, service>> /\ History /\ Inside

\* The pods of the restart targets are deleted, and start with what the Secret holds.
RestartConsumers ==
    /\ at = "restart"
    /\ \/ running' = [running EXCEPT ![cur] = target[cur].token] /\ NoFault /\ FinishReady
       \/ UNCHANGED running /\ Fault("restart") /\ Failed
    /\ UNCHANGED <<res, target, service>> /\ History /\ Inside

\* setStatus writes nothing when the status is what was listed; an error is logged.
WriteStatus ==
    /\ at = "status"
    /\ LET Stored == res' = [res EXCEPT ![cur].status = st]
       IN  \/ st = Obj.status /\ UNCHANGED res /\ NoFault /\ Abandon
           \/ st # Obj.status /\ Call(Fresh, Stored, UNCHANGED res, Abandon, Abandon)
    /\ UNCHANGED <<target, running, service>> /\ History /\ Inside

-----------------------------------------------------------------------------
(* finalize *)

Withdraw(a) ==
    agents' = [agents EXCEPT ![a].status = "deactivated", ![a].token = 0]

\* Deactivate closes the account, then writes the Secret; it does nothing where it finds
\* no Secret, or one that says deactivated.
DeactivateAgent ==
    /\ at = "deactivate"
    /\ LET idle == agents[Agent] = NoAgent \/ agents[Agent].status = "deactivated"
           Close == ~idle /\ accounts' = accounts \ {Agent}
       IN  \/ idle /\ UNCHANGED service /\ NoFault /\ Proceed("unfinalize")
           \/ Close /\ Withdraw(Agent) /\ NoFault /\ Proceed("unfinalize")
           \/ Close /\ (Withdraw(Agent) \/ UNCHANGED agents) /\ Fault("lost") /\ Failed
           \/ UNCHANGED service /\ Fault("fail") /\ Failed
    /\ UNCHANGED <<cluster, issued>> /\ History /\ Inside

\* Kubernetes deletes an object without finalizers, and the Secret it owns.
Vanish(r) ==
    /\ res' = [res EXCEPT ![r] = Gone]
    /\ target' = [target EXCEPT ![r] = IF @.state = "owned" THEN NoTarget ELSE @]

RemoveFinalizer_Unchecked ==
    /\ at = "unfinalize"
    /\ Call(res[cur].state = "deleting", Vanish(cur), UNCHANGED <<res, target>>, Abandon, Abandon)
    /\ UNCHANGED <<running, service>> /\ History /\ Inside

RemoveFinalizer ==
    /\ at = "unfinalize"
    /\ Call(Fresh, Vanish(cur), UNCHANGED <<res, target>>, Abandon, Abandon)
    /\ UNCHANGED <<running, service>> /\ History /\ Inside

-----------------------------------------------------------------------------
(* Users, the dashboard, and a crash *)

Quietly == UNCHANGED pass /\ NoFault
Outside == outside < MaxOutside /\ outside' = outside + 1

\* A written object is newer than the copy the pass has of it.
Touch(r) ==
    /\ stale' = IF view[r].state \in {"here", "deleting"} THEN stale \cup {r} ELSE stale
    /\ UNCHANGED <<at, unlisted, view, todo, cur, st, rec>> /\ NoFault

Apply(r) ==
    /\ "apply" \in Edits /\ res[r] = Missing
    /\ \A q \in Resources : q < r => res[q] # Missing
    /\ \E a \in Names, policy \in Policies, adopt \in {b \in BOOLEAN : b => "adopt" \in Edits} :
          res' = [res EXCEPT ![r] =
                   [state |-> "here", finalizer |-> FALSE, status |-> NoStatus,
                    spec |-> [agent |-> a, adopt |-> adopt, policy |-> policy, rotation |-> 0,
                              valid |-> TRUE]]]
    /\ UNCHANGED <<target, running, service>> /\ History /\ Quietly /\ Outside

\* A new rotationToken; a request, when the resource has its agent already.
Took(r, a) == \E how \in {"created", "adopted"} : <<r, a, how>> \in granted

RequestRotation(r) ==
    /\ "rotation" \in Edits /\ res[r].state = "here"
    /\ res' = [res EXCEPT ![r].spec.rotation = @ + 1]
    /\ asked' = [asked EXCEPT ![r] = @ \/ Took(r, res[r].spec.agent)]
    /\ Touch(r)
    /\ UNCHANGED <<target, running, service, granted>> /\ Outside

\* The spec of an object that is being deleted can be edited too.
EditSpec(r) ==
    /\ res[r].state \in {"here", "deleting"}
    /\ \/ "adopt" \in Edits /\ res' = [res EXCEPT ![r].spec.adopt = ~@]
       \/ "invalid" \in Edits /\ res' = [res EXCEPT ![r].spec.valid = ~@]
       \/ /\ "rename" \in Edits
          /\ \E a \in Names \ {res[r].spec.agent} : res' = [res EXCEPT ![r].spec.agent = a]
       \/ /\ "policy" \in Edits
          /\ \E p \in Policies \ {res[r].spec.policy} : res' = [res EXCEPT ![r].spec.policy = p]
    /\ Touch(r)
    /\ UNCHANGED <<target, running, service>> /\ History /\ Outside

Delete(r) ==
    /\ "delete" \in Edits /\ res[r].state = "here"
    /\ \/ /\ res[r].finalizer /\ UNCHANGED target
          /\ res' = [res EXCEPT ![r].state = "deleting"]
       \/ ~res[r].finalizer /\ Vanish(r)
    /\ Touch(r)
    /\ UNCHANGED <<running, service>> /\ History /\ Outside

\* An operation of the dashboard that succeeds.
Operate(a) ==
    /\ \E op \in Dashboard :
          LET r == agents[a]
              Close == accounts' = IF r.status = "deactivated" THEN accounts ELSE accounts \ {a}
          IN  \/ op = "create" /\ Free(a) /\ Renew(a, 1) /\ accounts' = accounts \cup {a}
              \/ op = "rotate" /\ Rotatable(a) /\ Renew(a, r.gen + 1) /\ UNCHANGED accounts
              \/ /\ op = "revoke" /\ r.status = "active" /\ UNCHANGED <<accounts, issued>>
                 /\ agents' = [agents EXCEPT ![a].status = "revoked", ![a].token = 0]
              \/ /\ op = "deactivate" /\ r.status \in {"active", "revoked"}
                 /\ Withdraw(a) /\ Close /\ UNCHANGED issued
              \/ /\ op = "remove" /\ r # NoAgent /\ Close /\ UNCHANGED issued
                 /\ agents' = [agents EXCEPT ![a] = NoAgent]
    /\ UNCHANGED cluster /\ History /\ Quietly /\ Outside

\* The process stops in the middle of a pass; the next one begins with a list.
Crash ==
    /\ at # "sleep" /\ Fault("crash")
    /\ at' = "sleep" /\ unlisted' = {} /\ todo' = {} /\ stale' = {} /\ cur' = 0
    /\ st' = NoStatus /\ rec' = NoAgent
    /\ view' = [r \in Resources |-> Missing]
    /\ UNCHANGED <<cluster, service>> /\ History /\ Inside

PassStep ==
    \/ BeginPass \/ ListNamespace \/ Reconcile \/ EndPass
    \/ AddFinalizer \/ ReadAgent \/ CreateAgent \/ RotateAgent \/ RereadAgent
    \/ WriteSecret \/ RestartConsumers \/ WriteStatus
    \/ DeactivateAgent \/ RemoveFinalizer

Environment ==
    \/ \E r \in Resources : Apply(r) \/ RequestRotation(r) \/ EditSpec(r) \/ Delete(r)
    \/ \E a \in Names : Operate(a)
    \/ Crash

Next == PassStep \/ Environment

Spec == Init /\ [][Next]_vars

\* Run: every pass is followed by another, and every call of a pass returns.
FairSpec == Spec /\ WF_vars(PassStep)
=============================================================================
