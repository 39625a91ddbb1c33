------------------------- MODULE AgentServiceProofs -------------------------
(***************************************************************************)
(* Proofs about AgentService, for any agents, actors, operations, kinds    *)
(* and numbers of failures.  A step belongs to one actor and to the agent  *)
(* whose mutex it holds, so the argument has two halves: what the step     *)
(* does to its own agent, action by action, and that it leaves every other *)
(* actor and agent as they were (Isolated), once for all actions.          *)
(***************************************************************************)
EXTENDS AgentServiceInvariant, TLAPS

-----------------------------------------------------------------------------
(* Types. *)

WorldTypes ==
    /\ users \in [Names -> Accounts]
    /\ live \subseteq Sessions
    /\ issued \in Nat
    /\ profile \in [Names -> Images]
    /\ secrets \in [Names -> Records]
    /\ stale \subseteq Actors

ProcessTypes ==
    /\ pc \in [Actors -> Labels]
    /\ req \in [Actors -> Requests]
    /\ late \subseteq Actors
    /\ lock \in [Names -> Actors \cup {Nobody}]
    /\ settled \in [Names -> BOOLEAN]
    /\ confirmed \subseteq Nat

LEMMA TypeParts == TypeOK <=> WorldTypes /\ ProcessTypes /\ faults \in Nat
  BY DEF TypeOK, WorldTypes, ProcessTypes

LEMMA NullTypes == NoSecret \in Records /\ NoRequest \in Requests /\ NoAvatar \in Images
  BY DEF NoSecret, Records, Statuses, Images, NoRequest, Requests, NoSession

LEMMA MoveTypes ==
  ASSUME ProcessTypes, NEW a \in Actors, NEW l \in Labels, NEW r \in Requests, Move(a, l, r)
  PROVE  ProcessTypes' /\ pc'[a] = l /\ req'[a] = r
  BY DEF ProcessTypes, Move

LEMMA LeaveTypes ==
  ASSUME ProcessTypes, NEW a \in Actors, NEW l \in Labels, Leave(a, l),
         settled' \in [Names -> BOOLEAN], confirmed' \subseteq Nat
  PROVE  ProcessTypes' /\ pc'[a] = l /\ req'[a] = NoRequest
  BY NullTypes DEF ProcessTypes, Leave

LEMMA FaultTypes ==
  ASSUME faults \in Nat, NEW kind, NoFault \/ Fault(kind)
  PROVE  faults' \in Nat
  BY DEF NoFault, Fault

LEMMA SameWorldTypes ==
  ASSUME WorldTypes, UNCHANGED world
  PROVE  WorldTypes'
  BY DEF WorldTypes, world

LEMMA PutTypes ==
  ASSUME WorldTypes, NEW a \in Actors, NEW n, NEW r \in Records, Put(a, n, r)
  PROVE  WorldTypes'
  BY DEF WorldTypes, Put, Readers

LEMMA IssueTypes ==
  ASSUME WorldTypes, NEW s \in Sessions, NEW kept \in SUBSET live, Issue(s, kept)
  PROVE  WorldTypes'
  BY DEF WorldTypes, Issue, SameSecrets

LEMMA SetUserTypes ==
  ASSUME WorldTypes, NEW n, NEW account \in Accounts, SetUser(n, account)
  PROVE  WorldTypes'
  BY DEF WorldTypes, SetUser, SameSecrets

-----------------------------------------------------------------------------
(* What a step of one actor leaves alone. *)

\* The invariants of one agent.
AgentOK(n) ==
    /\ \A s \in live : s.owner = n /\ s.token \in confirmed =>
          /\ secrets[n].status = "active"
          /\ secrets[n].sid = s.id
          /\ secrets[n].token = s.token
    /\ secrets[n].status = "deactivated" => users[n] = "deactivated" /\ Emptied(n)
    /\ secrets[n].status = "absent" => secrets[n] = NoSecret

LEMMA AgentParts ==
  ASSUME TypeOK
  PROVE  NoStrayCredential /\ DeactivatedIsDead /\ AbsentIsEmpty
           <=> \A n \in Names : AgentOK(n)
  BY DEF TypeOK, Sessions, NoStrayCredential, DeactivatedIsDead, AbsentIsEmpty, AgentOK, Emptied

\* Nobody else is at work on the actor's agent.
Sole(a) == \A b \in Actors \ {a} : Inside(b) => req[b].name # req[a].name

\* A step of the actor touches its own agent only, and hands out no token but
\* the one in its hands.
Isolated(a) ==
    LET n == req[a].name IN
    /\ \A b \in Actors \ {a} : pc'[b] = pc[b] /\ req'[b] = req[b]
    /\ \A m \in Names \ {n} :
          lock'[m] = lock[m] /\ secrets'[m] = secrets[m] /\ users'[m] = users[m]
    /\ issued' \in {issued, issued + 1}
    /\ \A s \in live' :
          s \in live \/ (s.owner = n /\ s.id # 0
               /\ s.token = issued + 1 /\ issued' = issued + 1)
    /\ \A t \in confirmed' : t \in confirmed \/ (Holding(a) /\ t = req[a].ses.token)

\* The token in the actor's hands is the one it held, or the one just issued.
HandKept(a) ==
    Holding(a)' =>
        \/ Holding(a) /\ req'[a].ses.token = req[a].ses.token
        \/ req'[a].ses.token = issued + 1

\* The mutex makes its holder the only one at work on the agent.
LEMMA InsideIsSole ==
  ASSUME IInv, NEW a \in Actors, Inside(a)
  PROVE  Sole(a) /\ req[a].name \in Names
  BY DEF IInv, ActorOK, Guarded, Sole, Inside

\* Another actor's assertions survive a step of this one.
LEMMA OthersKept ==
  ASSUME IInv, NEW a \in Actors, Sole(a), Isolated(a), NEW b \in Actors \ {a}
  PROVE  ActorOK(b)' /\ Holding(b)' = Holding(b)
PROOF
<1> DEFINE n == req[a].name
           m == req[b].name
<1>1. pc'[b] = pc[b] /\ req'[b] = req[b]
  BY DEF Isolated
<1>2. ActorOK(b) /\ ActorOK(a) /\ TokensOK
  BY DEF IInv
<1>3. Holding(b)' = Holding(b) /\ Inside(b)' = Inside(b)
  BY <1>1 DEF Holding, Inside
<1>4. CASE ~Inside(b)
  <2>1. ~Holding(b)
    BY <1>4 DEF Inside, Holding
  <2> QED
    BY <1>1, <1>2, <1>3, <1>4, <2>1
    DEF ActorOK, Guarded, InItsOp, Current, HandOK, Revoked, Inside
<1>5. CASE Inside(b)
  <2>1. m \in Names /\ m # n /\ lock[m] = b
    BY <1>2, <1>5 DEF ActorOK, Guarded, Sole, Inside
  <2>2. lock'[m] = lock[m] /\ secrets'[m] = secrets[m] /\ users'[m] = users[m]
    BY <2>1 DEF Isolated
  <2>3. Guarded(b)' /\ InItsOp(b)' /\ Current(b)'
    BY <1>1, <1>2, <1>3, <2>1, <2>2 DEF ActorOK, Guarded, InItsOp, Current
  <2>4. SessionsOf(m)' \subseteq SessionsOf(m)
    BY <2>1 DEF Isolated, SessionsOf
  <2>5. \A s \in SessionsOf(m) : s.token \in confirmed' => s.token \in confirmed
    BY <1>2, <2>1 DEF Isolated, SessionsOf, ActorOK, HandOK
  <2>6. Quiet(m) => Quiet(m)'
    BY <2>4, <2>5 DEF Quiet
  <2>7. Revoked(b)'
    BY <1>1, <1>2, <2>2, <2>4, <2>6 DEF ActorOK, Revoked, Emptied
  <2>8. HandOK(b)'
    <3> SUFFICES ASSUME Holding(b)
                 PROVE  /\ req[b].ses.token \in 1..issued'
                        /\ req[b].ses.token \notin confirmed'
                        /\ \A s \in live' : s.token = req[b].ses.token =>
                              s.owner = m /\ s.id = req[b].ses.id
      BY <1>1, <1>3 DEF HandOK
    <3>1. /\ req[b].ses.token \in 1..issued
          /\ req[b].ses.token \notin confirmed
          /\ \A s \in live : s.token = req[b].ses.token =>
                s.owner = m /\ s.id = req[b].ses.id
      BY <1>2 DEF ActorOK, HandOK
    <3>2. issued \in Nat /\ issued' \in {issued, issued + 1}
      BY DEF IInv, TypeOK, Isolated
    <3>3. req[b].ses.token \in 1..issued' /\ req[b].ses.token # issued + 1
      BY <3>1, <3>2
    <3>4. req[b].ses.token \notin confirmed'
      BY <3>1 DEF Isolated, IInv, HandsDiffer
    <3> QED
      BY <3>1, <3>3, <3>4 DEF Isolated
  <2> QED
    BY <1>3, <2>3, <2>7, <2>8 DEF ActorOK
<1> QED
  BY <1>4, <1>5

\* So a step preserves the invariant when it does so for its own agent and actor.
LEMMA StepPreserves ==
  ASSUME IInv, TypeOK', NEW a \in Actors, Sole(a), Isolated(a), HandKept(a), ActorOK(a)',
         NEW n, n = req[a].name, n \in Names => AgentOK(n)'
  PROVE  IInv'
PROOF
<1>1. \A b \in Actors \ {a} : ActorOK(b)' /\ Holding(b)' = Holding(b) /\ req'[b] = req[b]
  BY OthersKept DEF Isolated
<1>2. issued \in Nat /\ issued' \in Nat
  BY DEF IInv, TypeOK
<1>3. ActorOK(a) /\ TokensOK /\ HandsDiffer
  BY DEF IInv
<1>4. TokensOK'
  <2>1. \A s \in live' : s.token \in 1..issued' /\ s.id # 0
    BY <1>2, <1>3 DEF TokensOK, Isolated
  <2>2. confirmed' \subseteq 1..issued'
    <3>1. \A t \in confirmed' : t \in 1..issued
      BY <1>3 DEF TokensOK, Isolated, ActorOK, HandOK
    <3>2. issued' \in {issued, issued + 1}
      BY DEF Isolated
    <3> QED
      BY <1>2, <3>1, <3>2
  <2> QED
    BY <2>1, <2>2 DEF TokensOK
<1>5. \A m \in Names \ {n} : AgentOK(m)'
  <2> SUFFICES ASSUME NEW m \in Names \ {n}
               PROVE  AgentOK(m)'
    OBVIOUS
  <2>1. AgentOK(m)
    BY AgentParts DEF IInv
  <2>2. secrets'[m] = secrets[m] /\ users'[m] = users[m]
    BY DEF Isolated
  <2>3. SessionsOf(m)' \subseteq SessionsOf(m)
    BY DEF Isolated, SessionsOf
  <2>4. \A s \in SessionsOf(m) : s.token \in confirmed' => s.token \in confirmed
    BY <1>3 DEF Isolated, SessionsOf, ActorOK, HandOK
  <2> QED
    BY <2>1, <2>2, <2>3, <2>4 DEF AgentOK, Emptied, SessionsOf
<1>6. NoStrayCredential' /\ DeactivatedIsDead' /\ AbsentIsEmpty'
  <2>1. \A m \in Names : AgentOK(m)'
    BY <1>5
  <2>2. live' \subseteq Sessions
    BY DEF TypeOK
  <2> QED
    BY <2>1, <2>2
    DEF Sessions, NoStrayCredential, DeactivatedIsDead, AbsentIsEmpty, AgentOK, Emptied
<1>7. HandsDiffer'
  <2> SUFFICES ASSUME NEW b \in Actors, NEW c \in Actors, Holding(b)', Holding(c)',
                      (req[b].ses.token = req[c].ses.token)', b # c
               PROVE  FALSE
    BY DEF HandsDiffer
  <2>1. CASE b # a /\ c # a
    BY <1>1, <1>3, <2>1 DEF HandsDiffer
  <2>2. CASE b = a
    BY <1>1, <1>2, <1>3, <2>2 DEF HandsDiffer, HandKept, IInv, ActorOK, HandOK
  <2>3. CASE c = a
    BY <1>1, <1>2, <1>3, <2>3 DEF HandsDiffer, HandKept, IInv, ActorOK, HandOK
  <2> QED
    BY <2>1, <2>2, <2>3
<1> QED
  BY <1>1, <1>4, <1>6, <1>7 DEF IInv

-----------------------------------------------------------------------------
(* The two ways a step ends, Move and Return, and the effects it may have. *)

\* The stores of the other agents stay as they are.
OnlyAgent(n) ==
    /\ \A m \in Names \ {n} : secrets'[m] = secrets[m] /\ users'[m] = users[m]
    /\ issued' \in {issued, issued + 1}
    /\ \A s \in live' :
          s \in live \/ (s.owner = n /\ s.id # 0
               /\ s.token = issued + 1 /\ issued' = issued + 1)

At(a, l, r) == pc'[a] = l /\ req'[a] = r /\ lock' = lock /\ confirmed' = confirmed

Returns(a) == ReturnUnchanged(a) \/ \E ok \in BOOLEAN : Return(a, ok)

LEMMA ReturnPreserves ==
  ASSUME IInv, NEW a \in Actors, Inside(a), Returns(a), NEW n, n = req[a].name,
         OnlyAgent(n), WorldTypes', AgentOK(n)', faults' \in Nat
  PROVE  IInv'
PROOF
<1>1. ProcessTypes /\ WorldTypes
  BY TypeParts DEF IInv
<1>2. Sole(a) /\ n \in Names
  BY InsideIsSole
<1>3. Leave(a, "idle") /\ confirmed' = confirmed /\ settled' \in [Names -> BOOLEAN]
  BY <1>1 DEF Returns, ReturnUnchanged, Return, ProcessTypes
<1>4. ProcessTypes' /\ pc'[a] = "idle" /\ req'[a] = NoRequest
  BY <1>1, <1>3, LeaveTypes DEF Labels, ProcessTypes
<1>5. TypeOK'
  BY <1>4 DEF TypeOK, ProcessTypes, WorldTypes
<1>6. Isolated(a)
  BY <1>1, <1>3 DEF Isolated, OnlyAgent, Leave, ProcessTypes
<1>7. ActorOK(a)' /\ HandKept(a)
  BY <1>4 DEF ActorOK, Guarded, InItsOp, Current, HandOK, Revoked, HandKept, Holding, Inside
<1> QED
  BY <1>2, <1>5, <1>6, <1>7, StepPreserves

LEMMA MovePreserves ==
  ASSUME IInv, NEW a \in Actors, Inside(a), NEW l \in Labels, NEW r \in Requests,
         Move(a, l, r), NEW n, n = req[a].name,
         OnlyAgent(n), WorldTypes', AgentOK(n)', faults' \in Nat,
         At(a, l, r) => ActorOK(a)' /\ HandKept(a)
  PROVE  IInv'
PROOF
<1>1. ProcessTypes /\ WorldTypes
  BY TypeParts DEF IInv
<1>2. Sole(a) /\ n \in Names
  BY InsideIsSole
<1>3. ProcessTypes' /\ pc'[a] = l /\ req'[a] = r
  BY <1>1, MoveTypes
<1>4. lock' = lock /\ confirmed' = confirmed
  BY DEF Move
<1>5. TypeOK'
  BY <1>3 DEF TypeOK, ProcessTypes, WorldTypes
<1>6. Isolated(a)
  BY <1>1, <1>4 DEF Isolated, OnlyAgent, Move, ProcessTypes
<1> QED
  BY <1>2, <1>3, <1>4, <1>5, <1>6, StepPreserves DEF At

\* Effects that at most revoke sessions: most calls, and every call that fails.
Shrinks ==
    /\ UNCHANGED <<users, issued, secrets>>
    /\ live' \subseteq live
    /\ WorldTypes'

Kept(n) ==
    /\ UNCHANGED <<users, issued, secrets>>
    /\ live' \subseteq live
    /\ SessionsOf(n)' \subseteq SessionsOf(n)
    /\ Quiet(n) => Quiet(n)'
    /\ Emptied(n) => Emptied(n)'

LEMMA ShrinkEffect ==
  ASSUME IInv, Shrinks, confirmed' = confirmed, NEW n \in Names
  PROVE  OnlyAgent(n) /\ AgentOK(n)' /\ Kept(n)
PROOF
<1>1. AgentOK(n) /\ issued \in Nat
  BY AgentParts DEF IInv, TypeOK
<1> QED
  BY <1>1 DEF Shrinks, Kept, OnlyAgent, AgentOK, Emptied, SessionsOf, Quiet

LEMMA SameWorldShrinks ==
  ASSUME IInv, UNCHANGED <<users, live, issued, profile, secrets>>,
         stale' = stale \/ \E a \in Actors : stale' = stale \ {a}
  PROVE  Shrinks
  BY TypeParts DEF IInv, Shrinks, WorldTypes

LEMMA ReturnShrinking ==
  ASSUME IInv, NEW a \in Actors, Inside(a), Returns(a), Shrinks, faults' \in Nat
  PROVE  IInv'
PROOF
<1>1. req[a].name \in Names
  BY InsideIsSole
<1>2. confirmed' = confirmed
  BY DEF Returns, ReturnUnchanged, Return
<1>3. OnlyAgent(req[a].name) /\ WorldTypes'
  BY <1>1, <1>2, ShrinkEffect DEF Shrinks
<1> QED
  BY <1>1, <1>2, <1>3, ShrinkEffect, ReturnPreserves

\* After a call with such an effect the actor is still alone and its own agent
\* is as good as before: what remains is what it asserts at the next label.
LEMMA MoveShrinking ==
  ASSUME IInv, NEW a \in Actors, Inside(a), NEW l \in Labels, NEW r \in Requests,
         Move(a, l, r), Shrinks, faults' \in Nat, NEW n, n = req[a].name,
         At(a, l, r) /\ Kept(n) => ActorOK(a)' /\ HandKept(a)
  PROVE  IInv'
PROOF
<1>1. n \in Names
  BY InsideIsSole
<1>2. confirmed' = confirmed
  BY DEF Move
<1>3. OnlyAgent(n) /\ AgentOK(n)' /\ WorldTypes' /\ Kept(n)
  BY <1>1, <1>2, ShrinkEffect DEF Shrinks
<1> QED
  BY <1>3, MovePreserves

LEMMA GotoShrinking ==
  ASSUME IInv, NEW a \in Actors, Inside(a), NEW l \in Labels, Goto(a, l),
         Shrinks, faults' \in Nat, NEW n, n = req[a].name,
         At(a, l, req[a]) /\ Kept(n) => ActorOK(a)' /\ HandKept(a)
  PROVE  IInv'
PROOF
<1>1. req[a] \in Requests
  BY DEF IInv, TypeOK
<1> QED
  BY <1>1, MoveShrinking DEF Goto

\* What an actor at work may rely on.
LEMMA AtWork ==
  ASSUME IInv, NEW a \in Actors, Inside(a), NEW n, n = req[a].name
  PROVE  /\ n \in Names /\ req[a] \in Requests /\ secrets[n] \in Records
         /\ WorldTypes /\ faults \in Nat /\ issued \in Nat
         /\ ActorOK(a) /\ AgentOK(n) /\ TokensOK
PROOF
<1>1. n \in Names
  BY InsideIsSole
<1>2. TypeOK /\ WorldTypes /\ ActorOK(a) /\ TokensOK /\ AgentOK(n)
  BY <1>1, AgentParts, TypeParts DEF IInv
<1> QED
  BY <1>1, <1>2 DEF TypeOK

-----------------------------------------------------------------------------
(* Steps that change nothing, or only revoke sessions. *)

LEMMA ReadSecretStep ==
  ASSUME IInv, NEW a \in Actors, ReadSecret(a), NEW n, n = req[a].name
  PROVE  IInv'
PROOF
<1> DEFINE next == Entry(req[a].op, secrets[n].status)
           r == [req[a] EXCEPT !.rec = secrets[n]]
<1>1. Inside(a) /\ pc[a] = "get"
  BY DEF ReadSecret, Inside
<1>2. /\ n \in Names /\ req[a] \in Requests /\ secrets[n] \in Records
      /\ ActorOK(a) /\ AgentOK(n) /\ faults \in Nat
  BY <1>1, AtWork
<1>3. Shrinks /\ faults' \in Nat
  BY <1>2, SameWorldShrinks, FaultTypes DEF ReadSecret, GetAgent, Ask
<1>4. CASE ReturnUnchanged(a)
  BY <1>1, <1>3, <1>4, ReturnShrinking DEF Returns
<1>5. CASE next # "return" /\ Move(a, next, r)
  <2>1. next \in Labels /\ r \in Requests
    BY <1>2, <1>5 DEF Entry, Labels, Requests
  <2>2. r.op = req[a].op /\ r.name = n /\ r.rec = secrets[n]
    BY <1>2 DEF Requests
  <2>3. r.op = "create" => secrets[n] = NoSecret
    BY <1>2, <1>5, <2>2 DEF AgentOK, Entry
  <2>4. next = "delete" => Emptied(n) /\ Quiet(n) /\ users[n] = "deactivated"
    BY <1>2, <1>5, <2>2 DEF AgentOK, Entry, Quiet, Emptied
  <2>5. ASSUME At(a, next, r), Kept(n)
        PROVE  ActorOK(a)' /\ HandKept(a)
    <3>1. Guarded(a)' /\ Current(a)'
      BY <1>1, <1>2, <1>5, <2>2, <2>3, <2>5
      DEF Entry, ActorOK, Guarded, Current, Inside, At, Kept
    <3>2. InItsOp(a)'
      BY <1>5, <2>2, <2>5 DEF Entry, InItsOp, Issuing, At
    <3>3. ~Holding(a)'
      BY <1>5, <2>2, <2>5 DEF Entry, Holding, Issuing, At
    <3>4. Revoked(a)'
      BY <1>5, <2>2, <2>4, <2>5 DEF Entry, Revoked, At, Kept
    <3> QED
      BY <3>1, <3>2, <3>3, <3>4 DEF ActorOK, HandOK, HandKept
  <2> QED
    BY <1>1, <1>3, <1>5, <2>1, <2>5, MoveShrinking
<1> QED
  BY <1>4, <1>5 DEF ReadSecret, GetAgent, Ask

LEMMA LookupUserStep ==
  ASSUME IInv, NEW a \in Actors, LookupUser(a), NEW n, n = req[a].name
  PROVE  IInv'
PROOF
<1>1. Inside(a) /\ pc[a] = "lookup"
  BY DEF LookupUser, Inside
<1>2. n \in Names /\ req[a] \in Requests /\ ActorOK(a) /\ faults \in Nat
  BY <1>1, AtWork
<1>3. Shrinks /\ faults' \in Nat
  BY <1>2, SameWorldShrinks, FaultTypes DEF LookupUser, Ask
<1>4. CASE ReturnUnchanged(a)
  BY <1>1, <1>3, <1>4, ReturnShrinking DEF Returns
<1>5. CASE Goto(a, "admit")
  <2>1. ASSUME At(a, "admit", req[a]), Kept(n)
        PROVE  ActorOK(a)' /\ HandKept(a)
    BY <1>1, <1>2, <2>1
    DEF At, Kept, ActorOK, Guarded, InItsOp, Current, HandOK, Revoked, Inside, Holding, HandKept
  <2> QED
    BY <1>1, <1>3, <1>5, <2>1, GotoShrinking DEF Labels
<1> QED
  BY <1>4, <1>5 DEF LookupUser, Ask

LEMMA SyncProfileStep ==
  ASSUME IInv, NEW a \in Actors, SyncProfile(a), NEW n, n = req[a].name
  PROVE  IInv'
PROOF
<1>1. Inside(a) /\ pc[a] = "sync"
  BY DEF SyncProfile, Inside
<1>2. n \in Names /\ req[a] \in Requests /\ ActorOK(a) /\ faults \in Nat
  BY <1>1, AtWork
<1>3. Shrinks /\ faults' \in Nat
  BY <1>2, SameWorldShrinks, FaultTypes DEF SyncProfile, Call, world
<1>4. CASE Goto(a, "persist")
  <2>1. ASSUME At(a, "persist", req[a]), Kept(n)
        PROVE  ActorOK(a)' /\ HandKept(a)
    BY <1>1, <1>2, <2>1
    DEF At, Kept, ActorOK, Guarded, InItsOp, Current, HandOK, Revoked, Inside, Holding, HandKept,
        Issuing
  <2> QED
    BY <1>1, <1>3, <1>4, <2>1, GotoShrinking DEF Labels
<1>5. CASE Goto(a, "undoCreate")
  <2>1. ASSUME At(a, "undoCreate", req[a]), Kept(n)
        PROVE  ActorOK(a)' /\ HandKept(a)
    BY <1>1, <1>2, <2>1
    DEF At, Kept, ActorOK, Guarded, InItsOp, Current, HandOK, Revoked, Inside, Holding, HandKept
  <2> QED
    BY <1>1, <1>3, <1>5, <2>1, GotoShrinking DEF Labels
<1> QED
  BY <1>4, <1>5 DEF SyncProfile, Call

\* The effect of a call, when it is to revoke a session.
RevokeEffect(id) ==
    \/ live' = {s \in live : s.id # id} /\ UNCHANGED <<users, issued, profile>> /\ SameSecrets
    \/ UNCHANGED world

LEMMA RevokeShrinks ==
  ASSUME IInv, NEW id, RevokeEffect(id)
  PROVE  Shrinks
PROOF
<1>1. WorldTypes
  BY TypeParts DEF IInv
<1> QED
  BY <1>1 DEF RevokeEffect, world, SameSecrets, Shrinks, WorldTypes

LEMMA RevokeOldStep ==
  ASSUME IInv, NEW a \in Actors, RevokeOld(a), NEW n, n = req[a].name
  PROVE  IInv'
PROOF
<1>1. Inside(a) /\ pc[a] = "revokeOld"
  BY DEF RevokeOld, Inside
<1>2. /\ n \in Names /\ req[a] \in Requests /\ secrets[n] \in Records
      /\ ActorOK(a) /\ AgentOK(n) /\ TokensOK /\ faults \in Nat
  BY <1>1, AtWork
<1>3. Shrinks /\ faults' \in Nat
  <2>1. RevokeEffect(req[a].rec.sid) /\ faults' \in Nat
    BY <1>1, <1>2, FaultTypes DEF RevokeOld, RevokePersonalSession, Call, RevokeEffect
  <2> QED
    BY <2>1, RevokeShrinks
<1>4. CASE Goto(a, "persist") /\ live' = {s \in live : s.id # secrets[n].sid}
  <2>1. Quiet(n)' \/ confirmed' # confirmed
    BY <1>2, <1>4 DEF AgentOK, Quiet, SessionsOf
  <2>2. ASSUME At(a, "persist", req[a]), Kept(n)
        PROVE  ActorOK(a)' /\ HandKept(a)
    BY <1>1, <1>2, <2>1, <2>2
    DEF At, Kept, ActorOK, Guarded, InItsOp, Current, HandOK, Revoked, Inside, Holding, HandKept, Issuing
  <2> QED
    BY <1>1, <1>3, <1>4, <2>2, GotoShrinking DEF Labels
<1>5. CASE Goto(a, "undoNew")
  <2>1. ASSUME At(a, "undoNew", req[a]), Kept(n)
        PROVE  ActorOK(a)' /\ HandKept(a)
    BY <1>1, <1>2, <2>1
    DEF At, Kept, ActorOK, Guarded, InItsOp, Current, HandOK, Revoked, Inside, Holding, HandKept
  <2> QED
    BY <1>1, <1>3, <1>5, <2>1, GotoShrinking DEF Labels
<1>6. req[a].rec = secrets[n]
  BY <1>1, <1>2 DEF ActorOK, InItsOp, Current
<1> QED
  BY <1>4, <1>5, <1>6 DEF RevokeOld, RevokePersonalSession, Call

LEMMA UndoRotateStep ==
  ASSUME IInv, NEW a \in Actors, UndoRotate(a), NEW n, n = req[a].name
  PROVE  IInv'
PROOF
<1>1. Inside(a) /\ pc[a] \in {"undoNew", "undoRotate"}
  BY DEF UndoRotate, Inside
<1>2. /\ n \in Names /\ req[a] \in Requests /\ secrets[n] \in Records
      /\ ActorOK(a) /\ AgentOK(n) /\ TokensOK /\ faults \in Nat
  BY <1>1, AtWork
<1>3. Shrinks /\ faults' \in Nat
  <2>1. RevokeEffect(req[a].ses.id) /\ faults' \in Nat
    BY <1>1, <1>2, FaultTypes DEF UndoRotate, RevokePersonalSession, Call, RevokeEffect
  <2> QED
    BY <2>1, RevokeShrinks
<1>4. CASE Return(a, FALSE)
  BY <1>1, <1>3, <1>4, ReturnShrinking DEF Returns
<1>5. CASE pc[a] = "undoRotate" /\ Goto(a, "clearGet")
  <2>1. ASSUME At(a, "clearGet", req[a]), Kept(n)
        PROVE  ActorOK(a)' /\ HandKept(a)
    BY <1>2, <1>5, <2>1
    DEF At, Kept, ActorOK, Guarded, InItsOp, Current, HandOK, Revoked, Inside, Holding, HandKept
  <2> QED
    BY <1>1, <1>3, <1>5, <2>1, GotoShrinking DEF Labels
<1> QED
  BY <1>4, <1>5 DEF UndoRotate, RevokePersonalSession, Call

LEMMA ListSessionsStep ==
  ASSUME IInv, NEW a \in Actors, ListSessions(a), NEW n, n = req[a].name
  PROVE  IInv'
PROOF
<1>1. Inside(a) /\ pc[a] = "list"
  BY DEF ListSessions, Inside
<1>2. /\ n \in Names /\ req[a] \in Requests /\ secrets[n] \in Records
      /\ ActorOK(a) /\ AgentOK(n) /\ TokensOK /\ faults \in Nat
  BY <1>1, AtWork
<1> DEFINE ids == {s.id : s \in SessionsOf(n)}
           r == [req[a] EXCEPT !.todo = ids]
<1>3. Shrinks /\ faults' \in Nat
  BY <1>2, SameWorldShrinks, FaultTypes DEF ListSessions, Ask
<1>4. r \in Requests /\ r.op = req[a].op /\ r.name = n /\ r.todo = ids /\ r.rec = req[a].rec
  <2>1. ids \subseteq Nat
    BY <1>1, AtWork DEF WorldTypes, Sessions, SessionsOf
  <2> QED
    BY <1>2, <2>1 DEF Requests
<1>5. ids = {} => Emptied(n) /\ Quiet(n)
  BY DEF Emptied, Quiet
<1>6. CASE ReturnUnchanged(a)
  BY <1>1, <1>3, <1>6, ReturnShrinking DEF Returns
<1>7. CASE ids # {} /\ Move(a, "revokeEach", r)
  <2>1. ASSUME At(a, "revokeEach", r), Kept(n)
        PROVE  ActorOK(a)' /\ HandKept(a)
    BY <1>1, <1>2, <1>4, <2>1
    DEF At, Kept, ActorOK, Guarded, InItsOp, Current, HandOK, Revoked, Inside, Holding, HandKept
  <2> QED
    BY <1>1, <1>3, <1>4, <1>7, <2>1, MoveShrinking DEF Labels
<1>8. CASE ids = {} /\ req[a].op = "revoke" /\ Move(a, "persist", r)
  <2>1. ASSUME At(a, "persist", r), Kept(n)
        PROVE  ActorOK(a)' /\ HandKept(a)
    BY <1>1, <1>2, <1>4, <1>5, <1>8, <2>1
    DEF At, Kept, ActorOK, Guarded, InItsOp, Current, HandOK, Revoked, Inside, Holding, HandKept, Issuing
  <2> QED
    BY <1>1, <1>3, <1>4, <1>8, <2>1, MoveShrinking DEF Labels
<1>9. CASE ids = {} /\ req[a].op # "revoke" /\ Move(a, "deactivate", r)
  <2>1. ASSUME At(a, "deactivate", r), Kept(n)
        PROVE  ActorOK(a)' /\ HandKept(a)
    BY <1>1, <1>2, <1>4, <1>5, <1>9, <2>1
    DEF At, Kept, ActorOK, Guarded, InItsOp, Current, HandOK, Revoked, Inside, Holding, HandKept, Issuing
  <2> QED
    BY <1>1, <1>3, <1>4, <1>9, <2>1, MoveShrinking DEF Labels
<1> QED
  BY <1>6, <1>7, <1>8, <1>9 DEF ListSessions, Ask, AfterRevoke

LEMMA RevokeEachStep ==
  ASSUME IInv, NEW a \in Actors, RevokeEach(a), NEW n, n = req[a].name
  PROVE  IInv'
PROOF
<1>1. Inside(a) /\ pc[a] = "revokeEach"
  BY DEF RevokeEach, Inside
<1>2. /\ n \in Names /\ req[a] \in Requests /\ secrets[n] \in Records
      /\ ActorOK(a) /\ AgentOK(n) /\ TokensOK /\ faults \in Nat
  BY <1>1, AtWork
<1>3. PICK id \in req[a].todo :
        LET rest == req[a].todo \ {id}
        IN  RevokePersonalSession(a, id,
                Move(a, IF rest = {} THEN AfterRevoke(req[a].op) ELSE "revokeEach",
                     [req[a] EXCEPT !.todo = rest]),
                Return(a, FALSE))
  BY DEF RevokeEach
<1> DEFINE rest == req[a].todo \ {id}
           r == [req[a] EXCEPT !.todo = rest]
<1>4. Shrinks /\ faults' \in Nat
  <2>1. RevokeEffect(id) /\ faults' \in Nat
    BY <1>1, <1>2, <1>3, FaultTypes DEF RevokePersonalSession, Call, RevokeEffect
  <2> QED
    BY <2>1, RevokeShrinks
<1>5. r \in Requests /\ r.op = req[a].op /\ r.name = n /\ r.todo = rest /\ r.rec = req[a].rec
  BY <1>2 DEF Requests
<1>6. CASE Return(a, FALSE)
  BY <1>1, <1>4, <1>6, ReturnShrinking DEF Returns
<1>7. ASSUME live' = {s \in live : s.id # id}
      PROVE  (\A s \in SessionsOf(n)' : s.id \in rest)
             /\ (rest = {} => Emptied(n)' /\ Quiet(n)')
  <2>1. \A s \in SessionsOf(n) : s.id \in req[a].todo
    BY <1>1, <1>2 DEF ActorOK, Revoked
  <2>2. \A s \in SessionsOf(n)' : s.id \in rest
    BY <1>7, <2>1 DEF SessionsOf
  <2> QED
    BY <2>2 DEF Emptied, Quiet
<1>8. CASE live' = {s \in live : s.id # id} /\ rest # {} /\ Move(a, "revokeEach", r)
  <2>1. ASSUME At(a, "revokeEach", r), Kept(n)
        PROVE  ActorOK(a)' /\ HandKept(a)
    BY <1>1, <1>2, <1>5, <1>7, <1>8, <2>1
    DEF At, Kept, ActorOK, Guarded, InItsOp, Current, HandOK, Revoked, Inside, Holding, HandKept
  <2> QED
    BY <1>1, <1>4, <1>5, <1>8, <2>1, MoveShrinking DEF Labels
<1>9. CASE /\ live' = {s \in live : s.id # id} /\ rest = {}
           /\ req[a].op = "revoke" /\ Move(a, "persist", r)
  <2>1. ASSUME At(a, "persist", r), Kept(n)
        PROVE  ActorOK(a)' /\ HandKept(a)
    BY <1>1, <1>2, <1>5, <1>7, <1>9, <2>1
    DEF At, Kept, ActorOK, Guarded, InItsOp, Current, HandOK, Revoked, Inside, Holding, HandKept, Issuing
  <2> QED
    BY <1>1, <1>4, <1>5, <1>9, <2>1, MoveShrinking DEF Labels
<1>10. CASE /\ live' = {s \in live : s.id # id} /\ rest = {}
            /\ req[a].op # "revoke" /\ Move(a, "deactivate", r)
  <2>1. ASSUME At(a, "deactivate", r), Kept(n)
        PROVE  ActorOK(a)' /\ HandKept(a)
    BY <1>1, <1>2, <1>5, <1>7, <1>10, <2>1
    DEF At, Kept, ActorOK, Guarded, InItsOp, Current, HandOK, Revoked, Inside, Holding, HandKept, Issuing
  <2> QED
    BY <1>1, <1>4, <1>5, <1>10, <2>1, MoveShrinking DEF Labels
<1> QED
  BY <1>3, <1>6, <1>8, <1>9, <1>10 DEF RevokePersonalSession, Call, AfterRevoke

LEMMA ClearReadStep ==
  ASSUME IInv, NEW a \in Actors, ClearRead(a), NEW n, n = req[a].name
  PROVE  IInv'
PROOF
<1>1. Inside(a) /\ pc[a] = "clearGet"
  BY DEF ClearRead, Inside
<1>2. /\ n \in Names /\ req[a] \in Requests /\ secrets[n] \in Records
      /\ ActorOK(a) /\ AgentOK(n) /\ TokensOK /\ faults \in Nat
  BY <1>1, AtWork
<1> DEFINE r == [req[a] EXCEPT !.rec = secrets[n]]
<1>3. Shrinks /\ faults' \in Nat
  BY <1>2, SameWorldShrinks, FaultTypes DEF ClearRead, GetAgent, Ask
<1>4. CASE Return(a, FALSE)
  BY <1>1, <1>3, <1>4, ReturnShrinking DEF Returns
<1>5. CASE Move(a, "clearPut", r)
  <2>1. r \in Requests /\ r.op = req[a].op /\ r.name = n /\ r.rec = secrets[n]
    BY <1>2 DEF Requests
  <2>2. ASSUME At(a, "clearPut", r), Kept(n)
        PROVE  ActorOK(a)' /\ HandKept(a)
    BY <1>1, <1>2, <2>1, <2>2
    DEF At, Kept, ActorOK, Guarded, InItsOp, Current, HandOK, Revoked, Inside, Holding, HandKept
  <2> QED
    BY <1>1, <1>3, <1>5, <2>1, <2>2, MoveShrinking DEF Labels
<1>6. CASE req[a].op \in Issuing /\ Goto(a, "purge")
  <2>1. ASSUME At(a, "purge", req[a]), Kept(n)
        PROVE  ActorOK(a)' /\ HandKept(a)
    BY <1>1, <1>2, <1>6, <2>1
    DEF At, Kept, ActorOK, Guarded, InItsOp, Current, HandOK, Revoked, Inside, Holding, HandKept, Issuing
  <2> QED
    BY <1>1, <1>3, <1>6, <2>1, GotoShrinking DEF Labels
<1> QED
  BY <1>4, <1>5, <1>6 DEF ClearRead, GetAgent, Ask, ClearFailed

LEMMA UploadAvatarStep ==
  ASSUME IInv, NEW a \in Actors, UploadAvatar(a), NEW n, n = req[a].name
  PROVE  IInv'
PROOF
<1>1. Inside(a) /\ pc[a] = "upload"
  BY DEF UploadAvatar, Inside
<1>2. /\ n \in Names /\ req[a] \in Requests /\ secrets[n] \in Records
      /\ ActorOK(a) /\ AgentOK(n) /\ TokensOK /\ faults \in Nat
  BY <1>1, AtWork
<1>3. Shrinks /\ faults' \in Nat
  BY <1>2, SameWorldShrinks, FaultTypes DEF UploadAvatar, Call, world
<1>4. CASE ReturnUnchanged(a)
  BY <1>1, <1>3, <1>4, ReturnShrinking DEF Returns
<1>5. ASSUME NEW uri \in Avatars, Move(a, "setAvatar", [req[a] EXCEPT !.uri = uri])
      PROVE  IInv'
  <2> DEFINE r == [req[a] EXCEPT !.uri = uri]
  <2>1. r \in Requests /\ r.op = req[a].op /\ r.name = n /\ r.rec = req[a].rec
    BY <1>2 DEF Requests, Images
  <2>2. ASSUME At(a, "setAvatar", r), Kept(n)
        PROVE  ActorOK(a)' /\ HandKept(a)
    BY <1>1, <1>2, <2>1, <2>2
    DEF At, Kept, ActorOK, Guarded, InItsOp, Current, HandOK, Revoked, Inside, Holding, HandKept
  <2> QED
    BY <1>1, <1>3, <1>5, <2>1, <2>2, MoveShrinking DEF Labels
<1>6. \/ ReturnUnchanged(a)
      \/ \E uri \in Avatars : Move(a, "setAvatar", [req[a] EXCEPT !.uri = uri])
  BY Zenon DEF UploadAvatar, Call
<1> QED
  BY <1>4, <1>5, <1>6

LEMMA SetAvatarURLStep ==
  ASSUME IInv, NEW a \in Actors, SetAvatarURL(a), NEW n, n = req[a].name
  PROVE  IInv'
PROOF
<1>1. Inside(a) /\ pc[a] = "setAvatar"
  BY DEF SetAvatarURL, Inside
<1>2. /\ n \in Names /\ req[a] \in Requests /\ secrets[n] \in Records
      /\ ActorOK(a) /\ AgentOK(n) /\ TokensOK /\ faults \in Nat
  BY <1>1, AtWork
<1>3. Shrinks /\ faults' \in Nat
  BY <1>1, <1>2, AtWork, FaultTypes
  DEF SetAvatarURL, SetProfile, Call, world, SameMAS, SameSecrets, Shrinks, WorldTypes, Requests
<1>4. CASE Return(a, FALSE)
  BY <1>1, <1>3, <1>4, ReturnShrinking DEF Returns
<1>5. CASE Goto(a, "persist")
  <2>1. ASSUME At(a, "persist", req[a]), Kept(n)
        PROVE  ActorOK(a)' /\ HandKept(a)
    BY <1>1, <1>2, <2>1
    DEF At, Kept, ActorOK, Guarded, InItsOp, Current, HandOK, Revoked, Inside, Holding, HandKept, Issuing
  <2> QED
    BY <1>1, <1>3, <1>5, <2>1, GotoShrinking DEF Labels
<1> QED
  BY <1>4, <1>5 DEF SetAvatarURL, SetProfile, Call

LEMMA UndoAvatarStep ==
  ASSUME IInv, NEW a \in Actors, UndoAvatar(a), NEW n, n = req[a].name
  PROVE  IInv'
PROOF
<1>1. Inside(a) /\ pc[a] = "undoAvatar"
  BY DEF UndoAvatar, Inside
<1>2. /\ n \in Names /\ req[a] \in Requests /\ secrets[n] \in Records
      /\ ActorOK(a) /\ AgentOK(n) /\ TokensOK /\ faults \in Nat
  BY <1>1, AtWork
<1>3. Shrinks /\ faults' \in Nat
  BY <1>1, <1>2, AtWork, FaultTypes
  DEF UndoAvatar, SetProfile, Call, world, SameMAS, SameSecrets, Shrinks, WorldTypes, Requests, Records
<1> QED
  BY <1>1, <1>3, ReturnShrinking DEF Returns, UndoAvatar, SetProfile, Call

-----------------------------------------------------------------------------
(* Steps that change an account or add a session. *)

\* Admitting or closing an account touches no session and no Secret.
LEMMA SetUserEffect ==
  ASSUME IInv, NEW n \in Names, NEW account \in Accounts, SetUser(n, account),
         secrets[n].status = "deactivated" => account = "deactivated",
         confirmed' = confirmed
  PROVE  /\ OnlyAgent(n) /\ AgentOK(n)' /\ WorldTypes'
         /\ users'[n] = account /\ secrets' = secrets
         /\ SessionsOf(n)' = SessionsOf(n) /\ Quiet(n)' = Quiet(n)
PROOF
<1>1. WorldTypes /\ AgentOK(n)
  BY AgentParts, TypeParts DEF IInv
<1>2. WorldTypes'
  BY <1>1, SetUserTypes
<1> QED
  BY <1>1, <1>2
  DEF SetUser, SameSecrets, OnlyAgent, AgentOK, Emptied, SessionsOf, Quiet, WorldTypes

LEMMA SetUserReturns ==
  ASSUME IInv, NEW a \in Actors, Inside(a), NEW n, n = req[a].name,
         SetUser(n, "deactivated") \/ UNCHANGED world, faults' \in Nat, Return(a, FALSE)
  PROVE  IInv'
PROOF
<1>1. n \in Names /\ WorldTypes /\ confirmed' = confirmed
  BY AtWork DEF Return
<1>2. CASE UNCHANGED world
  <2>1. Shrinks
    BY <1>1, <1>2, SameWorldTypes DEF Shrinks, world
  <2> QED
    BY <2>1, ReturnShrinking DEF Returns
<1>3. CASE SetUser(n, "deactivated")
  <2>1. OnlyAgent(n) /\ AgentOK(n)' /\ WorldTypes'
    BY <1>1, <1>3, SetUserEffect DEF Accounts
  <2> QED
    BY <2>1, ReturnPreserves DEF Returns
<1> QED
  BY <1>2, <1>3

LEMMA AdmitUserStep ==
  ASSUME IInv, NEW a \in Actors, AdmitUser(a), NEW n, n = req[a].name
  PROVE  IInv'
PROOF
<1>1. Inside(a) /\ pc[a] = "admit"
  BY DEF AdmitUser, Inside
<1>2. /\ n \in Names /\ req[a] \in Requests /\ secrets[n] \in Records
      /\ ActorOK(a) /\ AgentOK(n) /\ TokensOK /\ faults \in Nat
  BY <1>1, AtWork
<1>3. faults' \in Nat
  BY <1>2, FaultTypes DEF AdmitUser, Call
<1>4. secrets[n] = NoSecret /\ req[a].op = "create"
  BY <1>1, <1>2 DEF ActorOK, InItsOp, Current
<1>5. CASE UNCHANGED world /\ Return(a, FALSE)
  BY <1>1, <1>2, <1>3, <1>5, SetUserReturns
<1>6. ASSUME SetUser(n, "active"), confirmed' = confirmed
      PROVE  OnlyAgent(n) /\ AgentOK(n)' /\ WorldTypes' /\ secrets' = secrets
  BY <1>2, <1>4, <1>6, SetUserEffect DEF Accounts, NoSecret
<1>7. CASE SetUser(n, "active") /\ Return(a, FALSE)
  BY <1>1, <1>2, <1>3, <1>6, <1>7, ReturnPreserves DEF Returns, Return
<1>8. CASE SetUser(n, "active") /\ Goto(a, "issue")
  <2>1. OnlyAgent(n) /\ AgentOK(n)' /\ WorldTypes' /\ secrets' = secrets
    BY <1>6, <1>8 DEF Goto, Move
  <2>2. ASSUME At(a, "issue", req[a])
        PROVE  ActorOK(a)' /\ HandKept(a)
    BY <1>1, <1>2, <1>4, <2>1, <2>2
    DEF At, Kept, ActorOK, Guarded, InItsOp, Current, HandOK, Revoked, Inside, Holding, HandKept, Issuing
  <2> QED
    BY <1>1, <1>2, <1>3, <1>8, <2>1, <2>2, MovePreserves DEF Goto, Labels
<1> QED
  BY <1>5, <1>7, <1>8 DEF AdmitUser, Call

LEMMA UndoCreateStep ==
  ASSUME IInv, NEW a \in Actors, UndoCreate(a), NEW n, n = req[a].name
  PROVE  IInv'
PROOF
<1>1. Inside(a) /\ pc[a] \in {"undoCreate", "undoUser"}
  BY DEF UndoCreate, Inside
<1>2. n \in Names /\ req[a] \in Requests /\ ActorOK(a) /\ faults \in Nat
  BY <1>1, AtWork
<1>3. faults' \in Nat
  BY <1>2, FaultTypes DEF UndoCreate, RevokePersonalSession, DeactivateMASUser, Call
<1>4. CASE pc[a] = "undoCreate"
  <2>1. RevokeEffect(req[a].ses.id) /\ Goto(a, "undoUser")
    BY <1>4 DEF UndoCreate, RevokePersonalSession, Call, RevokeEffect
  <2>2. Shrinks
    BY <2>1, RevokeShrinks
  <2>3. ASSUME At(a, "undoUser", req[a]), Kept(n)
        PROVE  ActorOK(a)' /\ HandKept(a)
    BY <1>2, <1>4, <2>3
    DEF At, Kept, ActorOK, Guarded, InItsOp, Current, HandOK, Revoked, Inside, Holding, HandKept
  <2> QED
    BY <1>1, <1>3, <2>1, <2>2, <2>3, GotoShrinking DEF Labels
<1>5. CASE pc[a] = "undoUser"
  <2>1. (SetUser(n, "deactivated") \/ UNCHANGED world) /\ Return(a, FALSE)
    BY <1>5 DEF UndoCreate, DeactivateMASUser, Call
  <2> QED
    BY <1>1, <1>2, <1>3, <2>1, SetUserReturns
<1> QED
  BY <1>1, <1>4, <1>5

LEMMA DeactivateUserStep ==
  ASSUME IInv, NEW a \in Actors, DeactivateUser(a), NEW n, n = req[a].name
  PROVE  IInv'
PROOF
<1>1. Inside(a) /\ pc[a] = "deactivate"
  BY DEF DeactivateUser, Inside
<1>2. /\ n \in Names /\ req[a] \in Requests /\ secrets[n] \in Records
      /\ ActorOK(a) /\ AgentOK(n) /\ TokensOK /\ faults \in Nat
  BY <1>1, AtWork
<1>3. faults' \in Nat
  BY <1>2, FaultTypes DEF DeactivateUser, DeactivateMASUser, Call
<1>4. CASE (SetUser(n, "deactivated") \/ UNCHANGED world) /\ Return(a, FALSE)
  BY <1>1, <1>2, <1>3, <1>4, SetUserReturns
<1>5. ASSUME NEW l \in {"delete", "persist"}, SetUser(n, "deactivated"), Goto(a, l),
             l = "delete" <=> req[a].op = "remove"
      PROVE  IInv'
  <2>1. OnlyAgent(n) /\ AgentOK(n)' /\ WorldTypes' /\ secrets' = secrets
        /\ users'[n] = "deactivated" /\ SessionsOf(n)' = SessionsOf(n) /\ Quiet(n)' = Quiet(n)
    BY <1>2, <1>5, SetUserEffect DEF Accounts, Goto, Move
  <2>2. Emptied(n)' /\ Quiet(n)'
    BY <1>1, <1>2, <2>1 DEF ActorOK, Revoked, InItsOp, Emptied, Quiet
  <2>3. ASSUME At(a, l, req[a])
        PROVE  ActorOK(a)' /\ HandKept(a)
    <3>1. Guarded(a)' /\ InItsOp(a)' /\ Current(a)'
      BY <1>1, <1>2, <1>5, <2>1, <2>3 DEF At, ActorOK, Guarded, InItsOp, Current, Inside
    <3>2. ~Holding(a)'
      BY <1>1, <1>2, <1>5, <2>3 DEF At, ActorOK, InItsOp, Holding, Issuing
    <3>3. Revoked(a)'
      BY <1>1, <1>2, <1>5, <2>1, <2>2, <2>3 DEF At, ActorOK, InItsOp, Revoked
    <3> QED
      BY <3>1, <3>2, <3>3 DEF ActorOK, HandOK, HandKept
  <2> QED
    BY <1>1, <1>2, <1>3, <1>5, <2>1, <2>3, MovePreserves DEF Goto, Labels
<1> QED
  BY <1>4, <1>5 DEF DeactivateUser, DeactivateMASUser, Call

\* A session with a new token, for an agent whose account is not closed for good.
LEMMA IssueEffect ==
  ASSUME IInv, NEW n \in Names, NEW s \in Sessions, NEW kept \in SUBSET live, Issue(s, kept),
         s.owner = n, s.token = issued + 1, s.id # 0,
         secrets[n].status # "deactivated", confirmed' = confirmed
  PROVE  /\ OnlyAgent(n) /\ AgentOK(n)' /\ WorldTypes' /\ secrets' = secrets
         /\ issued' = issued + 1 /\ issued + 1 \notin confirmed
         /\ \A x \in live' : x.token = issued + 1 => x = s
         /\ issued + 1 \in 1..issued'
PROOF
<1>1. WorldTypes /\ AgentOK(n) /\ TokensOK /\ issued \in Nat
  BY AgentParts, TypeParts DEF IInv, TypeOK
<1>2. WorldTypes'
  BY <1>1, IssueTypes
<1>3. live' = kept \cup {s} /\ issued' = issued + 1 /\ secrets' = secrets /\ users' = users
  BY DEF Issue, SameSecrets
<1>4. issued + 1 \notin confirmed /\ \A x \in live : x.token # issued + 1
  BY <1>1 DEF TokensOK
<1>5. AgentOK(n)'
  BY <1>1, <1>3, <1>4 DEF AgentOK, TokensOK
<1> QED
  BY <1>1, <1>2, <1>3, <1>4, <1>5 DEF OnlyAgent

\* After a call to issue a token that changed nothing, or whose new token the
\* actor does not keep.
LEMMA IssueReturns ==
  ASSUME IInv, NEW a \in Actors, Inside(a), NEW n, n = req[a].name, Returns(a),
         (OnlyAgent(n) /\ AgentOK(n)' /\ WorldTypes') \/ UNCHANGED world, faults' \in Nat
  PROVE  IInv'
PROOF
<1>1. CASE UNCHANGED world
  <2>1. Shrinks
    BY <1>1, AtWork, SameWorldTypes DEF Shrinks, world
  <2> QED
    BY <2>1, ReturnShrinking
<1> QED
  BY <1>1, ReturnPreserves

LEMMA IssueForCreateStep ==
  ASSUME IInv, NEW a \in Actors, IssueForCreate(a), NEW n, n = req[a].name
  PROVE  IInv'
PROOF
<1>1. Inside(a) /\ pc[a] = "issue"
  BY DEF IssueForCreate, Inside
<1>2. /\ n \in Names /\ req[a] \in Requests /\ secrets[n] \in Records
      /\ ActorOK(a) /\ AgentOK(n) /\ TokensOK /\ faults \in Nat /\ issued \in Nat
  BY <1>1, AtWork
<1> DEFINE i == issued + 1
           s == [owner |-> n, id |-> i, token |-> i]
           r == [req[a] EXCEPT !.ses = [id |-> i, token |-> i]]
           r0 == [req[a] EXCEPT !.ses = [id |-> i, token |-> 0]]
<1>3. /\ r \in Requests /\ r.op = req[a].op /\ r.name = n /\ r.rec = req[a].rec
      /\ r.ses = [id |-> i, token |-> i]
  BY <1>2 DEF Requests
<1>4. r0 \in Requests /\ r0.op = req[a].op /\ r0.name = n /\ r0.rec = req[a].rec
  BY <1>2 DEF Requests
<1>5. req[a].op = "create" /\ secrets[n] = NoSecret /\ faults' \in Nat
  BY <1>1, <1>2, FaultTypes DEF IssueForCreate, Call, ActorOK, Current
<1>6. s \in Sessions /\ s.owner = n /\ s.token = issued + 1 /\ s.id = i /\ s.id # 0
  BY <1>2 DEF Sessions
<1>7. ASSUME Issue(s, live), confirmed' = confirmed
      PROVE  /\ OnlyAgent(n) /\ AgentOK(n)' /\ WorldTypes' /\ secrets' = secrets
             /\ issued' = issued + 1 /\ issued + 1 \notin confirmed
             /\ \A x \in live' : x.token = issued + 1 => x = s
             /\ issued + 1 \in 1..issued'
  BY <1>2, <1>5, <1>6, <1>7, IssueEffect DEF NoSecret
<1>8. CASE Issue(s, live) /\ Move(a, "sync", r)
  <2>1. confirmed' = confirmed
    BY <1>8 DEF Move
  <2>2. ASSUME At(a, "sync", r)
        PROVE  ActorOK(a)' /\ HandKept(a)
    <3>1. HandOK(a)' /\ HandKept(a)
      BY <1>3, <1>6, <1>7, <1>8, <2>1, <2>2 DEF At, HandOK, HandKept
    <3> QED
      BY <1>1, <1>2, <1>3, <1>5, <1>7, <1>8, <2>1, <2>2, <3>1
      DEF At, ActorOK, Guarded, InItsOp, Current, Revoked, Inside
  <2> QED
    BY <1>1, <1>2, <1>3, <1>5, <1>7, <1>8, <2>1, <2>2, MovePreserves DEF Labels
<1>9. CASE Issue(s, live) /\ Move(a, "undoCreate", r0)
  <2>1. confirmed' = confirmed
    BY <1>9 DEF Move
  <2>2. ASSUME At(a, "undoCreate", r0)
        PROVE  ActorOK(a)' /\ HandKept(a)
    BY <1>1, <1>2, <1>4, <1>5, <2>2
    DEF At, Kept, ActorOK, Guarded, InItsOp, Current, HandOK, Revoked, Inside, Holding, HandKept
  <2> QED
    BY <1>1, <1>2, <1>4, <1>5, <1>7, <1>9, <2>1, <2>2, MovePreserves DEF Labels
<1>10. CASE Goto(a, "undoUser")
  <2>1. ASSUME At(a, "undoUser", req[a])
        PROVE  ActorOK(a)' /\ HandKept(a)
    BY <1>1, <1>2, <1>5, <2>1
    DEF At, Kept, ActorOK, Guarded, InItsOp, Current, HandOK, Revoked, Inside, Holding, HandKept
  <2>2. CASE UNCHANGED world
    <3>1. Shrinks
      BY <2>2, <1>1, AtWork, SameWorldTypes DEF Shrinks, world
    <3> QED
      BY <1>1, <1>5, <1>10, <2>1, <3>1, GotoShrinking DEF Labels
  <2>3. CASE Issue(s, live)
    BY <1>1, <1>2, <1>5, <1>7, <1>10, <2>1, <2>3, MovePreserves DEF Goto, Move, Labels
  <2> QED
    BY <1>10, <2>2, <2>3 DEF IssueForCreate, Call
<1> QED
  BY <1>8, <1>9, <1>10 DEF IssueForCreate, Call

LEMMA IssueForRotateStep ==
  ASSUME IInv, NEW a \in Actors, IssueForRotate(a), NEW n, n = req[a].name
  PROVE  IInv'
PROOF
<1>1. Inside(a) /\ pc[a] = "issue"
  BY DEF IssueForRotate, Inside
<1>2. /\ n \in Names /\ req[a] \in Requests /\ secrets[n] \in Records
      /\ ActorOK(a) /\ AgentOK(n) /\ TokensOK /\ faults \in Nat /\ issued \in Nat
  BY <1>1, AtWork
<1> DEFINE old == secrets[n].sid
           t == issued + 1
           id == IF Regenerated(a) THEN old ELSE t
           kept == {x \in live : x.id # id}
           s == [owner |-> n, id |-> id, token |-> t]
           swapped == [s EXCEPT !.id = t]
           r == [req[a] EXCEPT !.ses = [id |-> id, token |-> t]]
           r0 == [req[a] EXCEPT !.ses = [id |-> id, token |-> 0]]
           next == IF Regenerated(a) \/ old = 0 THEN "persist" ELSE "revokeOld"
           undo == IF Regenerated(a) THEN "undoRotate" ELSE "undoNew"
           New(x) ==
             /\ OnlyAgent(n) /\ AgentOK(n)' /\ WorldTypes' /\ secrets' = secrets
             /\ issued' = issued + 1 /\ issued + 1 \notin confirmed
             /\ \A y \in live' : y.token = issued + 1 => y = x
             /\ issued + 1 \in 1..issued'
<1>3. /\ req[a].op \in {"rotate", "recover"} /\ req[a].rec = secrets[n]
      /\ secrets[n].status \in {"active", "revoked"} /\ faults' \in Nat
  BY <1>1, <1>2, FaultTypes DEF IssueForRotate, Call, ActorOK, Current
<1>4. old \in Nat /\ id \in Nat /\ id # 0 /\ kept \in SUBSET live
  BY <1>2, <1>3 DEF Regenerated, Records
<1>5. /\ s \in Sessions /\ s.owner = n /\ s.token = t /\ s.id = id
      /\ swapped \in Sessions /\ swapped.owner = n /\ swapped.token = t /\ swapped.id = t
      /\ t # 0
  BY <1>2, <1>4 DEF Sessions
<1>6. /\ r \in Requests /\ r.op = req[a].op /\ r.name = n /\ r.rec = req[a].rec
      /\ r.ses.id = id /\ r.ses.token = t
  BY <1>2, <1>4 DEF Requests
<1>7. r0 \in Requests /\ r0.op = req[a].op /\ r0.name = n /\ r0.rec = req[a].rec
  BY <1>2, <1>4 DEF Requests
<1>8. ASSUME Issue(s, kept), confirmed' = confirmed
      PROVE  New(s) /\ (Regenerated(a) => Quiet(n)') /\ (old = 0 => Quiet(n)')
  <2>1. New(s)
    BY <1>2, <1>3, <1>4, <1>5, <1>8, IssueEffect
  <2>2. \A x \in live : x.owner = n /\ x.token \in confirmed => x.id = old /\ x.id # 0
    BY <1>2 DEF AgentOK, TokensOK
  <2>3. live' = kept \cup {s}
    BY <1>8 DEF Issue
  <2>4. \A x \in SessionsOf(n)' : x.token \in confirmed => x \in kept
    BY <1>5, <2>1, <2>3 DEF SessionsOf
  <2>5. Regenerated(a) \/ old = 0 => Quiet(n)'
    BY <1>8, <2>2, <2>4 DEF Quiet, SessionsOf
  <2> QED
    BY <2>1, <2>5
<1>9. CASE Issue(s, kept) /\ Move(a, next, r)
  <2>1. confirmed' = confirmed
    BY <1>9 DEF Move
  <2>2. New(s) /\ (Regenerated(a) => Quiet(n)') /\ (old = 0 => Quiet(n)')
    BY <1>8, <1>9, <2>1
  <2>3. ASSUME At(a, next, r)
        PROVE  ActorOK(a)' /\ HandKept(a)
    <3>1. HandOK(a)' /\ HandKept(a)
      BY <1>5, <1>6, <2>1, <2>2, <2>3 DEF At, HandOK, HandKept
    <3>2. Guarded(a)' /\ InItsOp(a)'
      BY <1>1, <1>2, <1>3, <1>6, <2>3 DEF At, ActorOK, Guarded, InItsOp, Inside, Issuing
    <3>3. Current(a)'
      BY <1>1, <1>2, <1>3, <1>6, <2>2, <2>3 DEF At, ActorOK, Current, Issuing
    <3>4. Revoked(a)'
      BY <1>3, <1>6, <2>2, <2>3 DEF At, Revoked
    <3> QED
      BY <3>1, <3>2, <3>3, <3>4 DEF ActorOK
  <2> QED
    BY <1>1, <1>3, <1>6, <1>9, <2>2, <2>3, MovePreserves DEF Labels
<1>10. CASE Issue(s, kept) /\ Move(a, undo, r0)
  <2>1. New(s) /\ (Regenerated(a) => Quiet(n)')
    BY <1>8, <1>10 DEF Move
  <2>2. ASSUME At(a, undo, r0)
        PROVE  ActorOK(a)' /\ HandKept(a)
    BY <1>1, <1>2, <1>3, <1>7, <2>1, <2>2
    DEF At, Kept, ActorOK, Guarded, InItsOp, Current, HandOK, Revoked, Inside, Holding, HandKept
  <2> QED
    BY <1>1, <1>3, <1>7, <1>10, <2>1, <2>2, MovePreserves DEF Labels
<1>11. CASE Issue(s, kept) /\ Regenerated(a) /\ Goto(a, "clearGet")
  <2>1. New(s) /\ Quiet(n)'
    BY <1>8, <1>11 DEF Goto, Move
  <2>2. ASSUME At(a, "clearGet", req[a])
        PROVE  ActorOK(a)' /\ HandKept(a)
    BY <1>1, <1>2, <1>3, <2>1, <2>2
    DEF At, Kept, ActorOK, Guarded, InItsOp, Current, HandOK, Revoked, Inside, Holding, HandKept
  <2> QED
    BY <1>1, <1>2, <1>3, <1>11, <2>1, <2>2, MovePreserves DEF Goto, Labels
<1>12. CASE Return(a, FALSE)
  <2>1. confirmed' = confirmed
    BY <1>12 DEF Return
  <2>2. ASSUME Issue(swapped, kept)
        PROVE  New(swapped)
    BY <1>2, <1>3, <1>4, <1>5, <2>1, <2>2, IssueEffect
  <2>3. UNCHANGED world \/ Issue(s, kept) \/ Issue(swapped, kept)
    BY <1>3, <1>12 DEF IssueForRotate, Call
  <2>4. UNCHANGED world \/ (OnlyAgent(n) /\ AgentOK(n)' /\ WorldTypes')
    BY <1>8, <2>1, <2>2, <2>3
  <2> QED
    BY <1>1, <1>3, <1>12, <2>4, IssueReturns DEF Returns
<1> QED
  BY <1>3, <1>9, <1>10, <1>11, <1>12 DEF IssueForRotate, Call

-----------------------------------------------------------------------------
(* Steps that write the Secret. *)

\* What a Secret may be made to say once no handed-out token of the agent works.
Allowed(n, r) ==
    /\ r \in Records
    /\ r.status = "deactivated" => users[n] = "deactivated" /\ Emptied(n)
    /\ r.status = "absent" => r = NoSecret

LEMMA PutEffect ==
  ASSUME IInv, NEW a \in Actors, NEW n \in Names, NEW r, Put(a, n, r),
         Quiet(n), Allowed(n, r), confirmed' = confirmed
  PROVE  /\ OnlyAgent(n) /\ AgentOK(n)' /\ WorldTypes' /\ secrets'[n] = r
         /\ users' = users /\ Quiet(n)' /\ (Emptied(n) => Emptied(n)')
PROOF
<1>1. WorldTypes /\ AgentOK(n)
  BY AgentParts, TypeParts DEF IInv
<1>2. WorldTypes'
  BY <1>1, PutTypes DEF Allowed
<1>3. secrets'[n] = r /\ live' = live /\ users' = users /\ issued' = issued
  BY <1>1 DEF Put, WorldTypes
<1>4. OnlyAgent(n) /\ Quiet(n)' /\ (Emptied(n) => Emptied(n)')
  BY <1>1, <1>3 DEF Put, OnlyAgent, WorldTypes, Quiet, Emptied, SessionsOf
<1>5. AgentOK(n)'
  BY <1>3, <1>4 DEF AgentOK, Allowed, Quiet, SessionsOf
<1> QED
  BY <1>2, <1>3, <1>4, <1>5

\* A write of an allowed record, or none, and then the end or another label.
Written(a, n, r) == Put(a, n, r) \/ UNCHANGED world

LEMMA WrittenReturns ==
  ASSUME IInv, NEW a \in Actors, Inside(a), NEW n, n = req[a].name, NEW r, Written(a, n, r),
         Quiet(n), Allowed(n, r), Returns(a), faults' \in Nat
  PROVE  IInv'
PROOF
<1>1. n \in Names /\ WorldTypes /\ confirmed' = confirmed
  BY AtWork DEF Returns, Return, ReturnUnchanged
<1>2. CASE UNCHANGED world
  <2>1. Shrinks
    BY <1>1, <1>2, SameWorldTypes DEF Shrinks, world
  <2> QED
    BY <2>1, ReturnShrinking
<1>3. CASE Put(a, n, r)
  <2>1. OnlyAgent(n) /\ AgentOK(n)' /\ WorldTypes'
    BY <1>1, <1>3, PutEffect
  <2> QED
    BY <2>1, ReturnPreserves
<1> QED
  BY <1>2, <1>3 DEF Written

LEMMA WrittenMoves ==
  ASSUME IInv, NEW a \in Actors, Inside(a), NEW n, n = req[a].name, NEW r, Written(a, n, r),
         Quiet(n), Allowed(n, r), NEW l \in Labels, NEW q \in Requests, Move(a, l, q),
         faults' \in Nat,
         At(a, l, q) /\ users' = users /\ Quiet(n)' /\ (Emptied(n) => Emptied(n)')
           => ActorOK(a)' /\ HandKept(a)
  PROVE  IInv'
PROOF
<1>1. n \in Names /\ WorldTypes /\ confirmed' = confirmed
  BY AtWork DEF Move
<1>2. CASE UNCHANGED world
  <2>1. Shrinks
    BY <1>1, <1>2, SameWorldTypes DEF Shrinks, world
  <2>2. Kept(n) /\ Quiet(n)'
    BY <1>1, <2>1, ShrinkEffect DEF Kept
  <2> QED
    BY <2>1, <2>2, MoveShrinking DEF Kept
<1>3. CASE Put(a, n, r)
  <2>1. /\ OnlyAgent(n) /\ AgentOK(n)' /\ WorldTypes'
        /\ users' = users /\ Quiet(n)' /\ (Emptied(n) => Emptied(n)')
    BY <1>1, <1>3, PutEffect
  <2> QED
    BY <2>1, MovePreserves
<1> QED
  BY <1>2, <1>3 DEF Written

\* The write that hands out the token in the actor's hands.
LEMMA ReturnTokenPreserves ==
  ASSUME IInv, NEW a \in Actors, Inside(a), Holding(a), NEW n, n = req[a].name,
         NEW r \in Records, Put(a, n, r), r.status = "active",
         r.sid = req[a].ses.id, r.token = req[a].ses.token, Quiet(n),
         ReturnToken(a), faults' \in Nat
  PROVE  IInv'
PROOF
<1>1. /\ n \in Names /\ req[a] \in Requests /\ WorldTypes /\ ActorOK(a)
      /\ Sole(a) /\ ProcessTypes /\ issued \in Nat
  BY AtWork, InsideIsSole, TypeParts DEF IInv
<1>2. WorldTypes'
  BY <1>1, PutTypes
<1>3. secrets'[n] = r /\ live' = live /\ users' = users /\ issued' = issued
  BY <1>1 DEF Put, WorldTypes
<1>4. /\ confirmed' = confirmed \cup {req[a].ses.token} /\ req[a].ses.token \in Nat
      /\ \E l \in {"idle", "check"} : Leave(a, l)
      /\ settled' \in [Names -> BOOLEAN]
  BY <1>1 DEF ReturnToken, Requests, ProcessTypes
<1>5. PICK l \in {"idle", "check"} : Leave(a, l)
  BY <1>4
<1>6. ProcessTypes' /\ pc'[a] = l /\ req'[a] = NoRequest
  BY <1>1, <1>4, <1>5, LeaveTypes DEF Labels, ProcessTypes
<1>7. TypeOK'
  BY <1>2, <1>6 DEF TypeOK, ProcessTypes, WorldTypes
<1>8. Isolated(a)
  BY <1>1, <1>3, <1>4, <1>5 DEF Isolated, Put, Leave, ProcessTypes, WorldTypes
<1>9. ActorOK(a)' /\ HandKept(a)
  BY <1>6 DEF ActorOK, Guarded, InItsOp, Current, HandOK, Revoked, HandKept, Holding, Inside
<1>10. AgentOK(n)'
  <2>1. \A s \in live : s.token = req[a].ses.token => s.id = req[a].ses.id
    BY <1>1 DEF ActorOK, HandOK
  <2>2. \A s \in live : s.owner = n /\ s.token \in confirmed' => s.token = req[a].ses.token
    BY <1>4 DEF Quiet, SessionsOf
  <2> QED
    BY <1>3, <2>1, <2>2 DEF AgentOK
<1> QED
  BY <1>1, <1>7, <1>8, <1>9, <1>10, StepPreserves

LEMMA PersistCreatedStep ==
  ASSUME IInv, NEW a \in Actors, PersistCreated(a), NEW n, n = req[a].name
  PROVE  IInv'
PROOF
<1>1. Inside(a) /\ pc[a] = "persist"
  BY DEF PersistCreated, Inside
<1>2. /\ n \in Names /\ req[a] \in Requests /\ secrets[n] \in Records
      /\ ActorOK(a) /\ AgentOK(n) /\ TokensOK /\ faults \in Nat
  BY <1>1, AtWork
<1> DEFINE r == [status |-> "active", sid |-> req[a].ses.id, token |-> req[a].ses.token,
                 gen |-> 1, avatar |-> NoAvatar]
<1>3. req[a].op = "create" /\ Holding(a) /\ secrets[n] = NoSecret /\ faults' \in Nat
  BY <1>1, <1>2, FaultTypes
  DEF PersistCreated, CreateAgent, Call, Holding, Issuing, ActorOK, Current
<1>4. Quiet(n) /\ Allowed(n, r) /\ r \in Records
  BY <1>2, <1>3, NullTypes
  DEF AgentOK, NoSecret, Quiet, SessionsOf, Allowed, Records, Requests, Statuses
<1>5. CASE Put(a, n, r) /\ ReturnToken(a)
  BY <1>1, <1>3, <1>4, <1>5, ReturnTokenPreserves
<1>6. CASE Written(a, n, r) /\ Goto(a, "undoCreate")
  <2>1. ASSUME At(a, "undoCreate", req[a])
        PROVE  ActorOK(a)' /\ HandKept(a)
    BY <1>1, <1>2, <1>3, <2>1
    DEF At, Kept, ActorOK, Guarded, InItsOp, Current, HandOK, Revoked, Inside, Holding, HandKept
  <2> QED
    BY <1>1, <1>2, <1>3, <1>4, <1>6, <2>1, WrittenMoves DEF Goto, Labels
<1> QED
  BY <1>5, <1>6 DEF PersistCreated, CreateAgent, Call, Written

LEMMA PersistRotatedStep ==
  ASSUME IInv, NEW a \in Actors, PersistRotated(a), NEW n, n = req[a].name
  PROVE  IInv'
PROOF
<1>1. Inside(a) /\ pc[a] = "persist"
  BY DEF PersistRotated, Inside
<1>2. /\ n \in Names /\ req[a] \in Requests /\ secrets[n] \in Records
      /\ ActorOK(a) /\ AgentOK(n) /\ TokensOK /\ faults \in Nat
  BY <1>1, AtWork
<1>3. /\ req[a].op \in {"rotate", "recover"} /\ Holding(a) /\ Quiet(n) /\ faults' \in Nat
      /\ req[a].rec = secrets[n]
  BY <1>1, <1>2, FaultTypes
  DEF PersistRotated, UpdateAgent, Call, Holding, Issuing, ActorOK, Current, Revoked
<1>4. /\ Rotated(a) \in Records /\ Rotated(a).status = "active"
      /\ Rotated(a).sid = req[a].ses.id /\ Rotated(a).token = req[a].ses.token
  <2>1. req[a].rec \in Records /\ req[a].ses.id \in Nat /\ req[a].ses.token \in Nat
    BY <1>2 DEF Requests
  <2>2. req[a].rec.gen + 1 \in Nat
    BY <2>1 DEF Records
  <2> QED
    BY <2>1, <2>2, Zenon DEF Rotated, Records, Statuses
<1>5. Allowed(n, Rotated(a))
  BY <1>4 DEF Allowed
<1>6. CASE Put(a, n, Rotated(a)) /\ ReturnToken(a)
  BY <1>1, <1>3, <1>4, <1>6, ReturnTokenPreserves
<1>7. CASE UNCHANGED world /\ Return(a, FALSE)
  BY <1>1, <1>3, <1>5, <1>7, WrittenReturns DEF Written, Returns
<1>8. CASE Written(a, n, Rotated(a)) /\ Goto(a, "undoRotate")
  <2>1. ASSUME At(a, "undoRotate", req[a]), Quiet(n)'
        PROVE  ActorOK(a)' /\ HandKept(a)
    BY <1>1, <1>2, <1>3, <2>1
    DEF At, Kept, ActorOK, Guarded, InItsOp, Current, HandOK, Revoked, Inside, Holding, HandKept
  <2> QED
    BY <1>1, <1>2, <1>3, <1>5, <1>8, <2>1, WrittenMoves DEF Goto, Labels
<1> QED
  BY <1>6, <1>7, <1>8 DEF PersistRotated, UpdateAgent, Call, Written

\* A cleared record is allowed where the operation writes it.
LEMMA ClearedAllowed ==
  ASSUME IInv, NEW a \in Actors, Inside(a), NEW n, n = req[a].name,
         req[a].op \in {"deactivate", "remove"} => users[n] = "deactivated" /\ Emptied(n)
  PROVE  Allowed(n, Cleared(req[a].rec, FinalStatus(req[a].op)))
PROOF
<1>1. req[a].rec \in Records
  BY AtWork DEF Requests
<1> QED
  BY <1>1 DEF Allowed, Cleared, FinalStatus, Records, Statuses

LEMMA PersistClearedStep ==
  ASSUME IInv, NEW a \in Actors, PersistCleared(a), NEW n, n = req[a].name
  PROVE  IInv'
PROOF
<1>1. Inside(a) /\ pc[a] = "persist"
  BY DEF PersistCleared, Inside
<1>2. /\ n \in Names /\ req[a] \in Requests /\ secrets[n] \in Records
      /\ ActorOK(a) /\ AgentOK(n) /\ TokensOK /\ faults \in Nat
  BY <1>1, AtWork
<1> DEFINE r == Cleared(req[a].rec, FinalStatus(req[a].op))
<1>3. req[a].op \in {"revoke", "deactivate"} /\ faults' \in Nat
  BY <1>1, <1>2, FaultTypes DEF PersistCleared, UpdateAgent, Call
<1>4. Emptied(n) /\ Quiet(n) /\ (req[a].op = "deactivate" => users[n] = "deactivated")
  BY <1>1, <1>2, <1>3 DEF ActorOK, Revoked, Emptied, Quiet
<1>5. Allowed(n, r)
  BY <1>1, <1>3, <1>4, ClearedAllowed
<1>6. CASE Written(a, n, r) /\ Return(a, TRUE)
  BY <1>1, <1>3, <1>4, <1>5, <1>6, WrittenReturns DEF Returns
<1>7. CASE Written(a, n, r) /\ Goto(a, "clearGet")
  <2>1. ASSUME At(a, "clearGet", req[a]), Quiet(n)', Emptied(n)', users' = users
        PROVE  ActorOK(a)' /\ HandKept(a)
    BY <1>1, <1>2, <1>3, <1>4, <2>1
    DEF At, Kept, ActorOK, Guarded, InItsOp, Current, HandOK, Revoked, Inside, Holding, HandKept
  <2> QED
    BY <1>1, <1>2, <1>3, <1>4, <1>5, <1>7, <2>1, WrittenMoves DEF Goto, Labels
<1> QED
  BY <1>6, <1>7 DEF PersistCleared, UpdateAgent, Call, Written

LEMMA DeleteSecretStep ==
  ASSUME IInv, NEW a \in Actors, DeleteSecret(a), NEW n, n = req[a].name
  PROVE  IInv'
PROOF
<1>1. Inside(a) /\ pc[a] = "delete"
  BY DEF DeleteSecret, Inside
<1>2. /\ n \in Names /\ req[a] \in Requests /\ secrets[n] \in Records
      /\ ActorOK(a) /\ AgentOK(n) /\ TokensOK /\ faults \in Nat
  BY <1>1, AtWork
<1>3. /\ req[a].op = "remove" /\ Emptied(n) /\ Quiet(n) /\ users[n] = "deactivated"
      /\ faults' \in Nat /\ Allowed(n, NoSecret)
  BY <1>1, <1>2, FaultTypes, NullTypes
  DEF DeleteSecret, DeleteAgent, Call, ActorOK, InItsOp, Revoked, Emptied, Quiet, Allowed, NoSecret
<1>4. CASE Written(a, n, NoSecret) /\ \E ok \in BOOLEAN : Return(a, ok)
  BY <1>1, <1>3, <1>4, WrittenReturns DEF Returns
<1>5. CASE Written(a, n, NoSecret) /\ Goto(a, "clearGet")
  <2>1. ASSUME At(a, "clearGet", req[a]), Quiet(n)', Emptied(n)', users' = users
        PROVE  ActorOK(a)' /\ HandKept(a)
    BY <1>1, <1>2, <1>3, <2>1
    DEF At, Kept, ActorOK, Guarded, InItsOp, Current, HandOK, Revoked, Inside, Holding, HandKept
  <2> QED
    BY <1>1, <1>2, <1>3, <1>5, <2>1, WrittenMoves DEF Goto, Labels
<1> QED
  BY <1>4, <1>5 DEF DeleteSecret, DeleteAgent, Call, Written

LEMMA ClearWriteStep ==
  ASSUME IInv, NEW a \in Actors, ClearWrite(a), NEW n, n = req[a].name
  PROVE  IInv'
PROOF
<1>1. Inside(a) /\ pc[a] = "clearPut"
  BY DEF ClearWrite, Inside
<1>2. /\ n \in Names /\ req[a] \in Requests /\ secrets[n] \in Records
      /\ ActorOK(a) /\ AgentOK(n) /\ TokensOK /\ faults \in Nat
  BY <1>1, AtWork
<1> DEFINE r == Cleared(req[a].rec, FinalStatus(req[a].op))
           again == [req[a] EXCEPT !.tries = @ + 1]
<1>3. faults' \in Nat
  BY <1>2, FaultTypes DEF ClearWrite, UpdateAgent, Call
<1>4. /\ Quiet(n)
      /\ req[a].op \in {"revoke", "deactivate", "remove"} => Emptied(n)
      /\ req[a].op \in {"deactivate", "remove"} => users[n] = "deactivated"
  BY <1>1, <1>2 DEF ActorOK, Revoked
<1>5. Allowed(n, r)
  BY <1>1, <1>4, ClearedAllowed
<1>6. CASE Written(a, n, r) /\ Return(a, FALSE)
  BY <1>1, <1>3, <1>4, <1>5, <1>6, WrittenReturns DEF Returns
<1>7. CASE Written(a, n, r) /\ req[a].op \in Issuing /\ Goto(a, "purge")
  <2>1. ASSUME At(a, "purge", req[a]), Quiet(n)'
        PROVE  ActorOK(a)' /\ HandKept(a)
    BY <1>1, <1>2, <1>7, <2>1
    DEF At, Kept, ActorOK, Guarded, InItsOp, Current, HandOK, Revoked, Inside, Holding, HandKept, Issuing
  <2> QED
    BY <1>1, <1>2, <1>3, <1>4, <1>5, <1>7, <2>1, WrittenMoves DEF Goto, Labels
<1>8. CASE UNCHANGED world /\ req[a].tries < 2 /\ Move(a, "clearGet", again)
  <2>1. again \in Requests /\ again.op = req[a].op /\ again.name = n
    BY <1>2, <1>8 DEF Requests
  <2>2. ASSUME At(a, "clearGet", again), Quiet(n)', Emptied(n) => Emptied(n)', users' = users
        PROVE  ActorOK(a)' /\ HandKept(a)
    BY <1>1, <1>2, <1>4, <2>1, <2>2
    DEF At, Kept, ActorOK, Guarded, InItsOp, Current, HandOK, Revoked, Inside, Holding, HandKept
  <2> QED
    BY <1>1, <1>2, <1>3, <1>4, <1>5, <1>8, <2>1, <2>2, WrittenMoves DEF Labels, Written
<1> QED
  BY <1>6, <1>7, <1>8 DEF ClearWrite, UpdateAgent, Call, Written, ClearFailed

LEMMA PurgeStep ==
  ASSUME IInv, NEW a \in Actors, Purge(a), NEW n, n = req[a].name
  PROVE  IInv'
PROOF
<1>1. Inside(a) /\ pc[a] = "purge"
  BY DEF Purge, Inside
<1>2. /\ n \in Names /\ req[a] \in Requests /\ secrets[n] \in Records
      /\ ActorOK(a) /\ AgentOK(n) /\ TokensOK /\ faults \in Nat
  BY <1>1, AtWork
<1>3. Quiet(n) /\ Allowed(n, NoSecret) /\ faults' \in Nat
  BY <1>1, <1>2, FaultTypes, NullTypes
  DEF Purge, DeleteAgent, Call, ActorOK, Revoked, Allowed, NoSecret
<1>4. Written(a, n, NoSecret) /\ Return(a, FALSE)
  BY DEF Purge, DeleteAgent, Call, Written
<1> QED
  BY <1>1, <1>3, <1>4, WrittenReturns DEF Returns

\* The avatar of an active Secret may change while its token works.
LEMMA PersistAvatarStep ==
  ASSUME IInv, NEW a \in Actors, PersistAvatar(a), NEW n, n = req[a].name
  PROVE  IInv'
PROOF
<1>1. Inside(a) /\ pc[a] = "persist"
  BY DEF PersistAvatar, Inside
<1>2. /\ n \in Names /\ req[a] \in Requests /\ secrets[n] \in Records
      /\ ActorOK(a) /\ AgentOK(n) /\ TokensOK /\ faults \in Nat
  BY <1>1, AtWork
<1> DEFINE r == [req[a].rec EXCEPT !.avatar = req[a].uri]
<1>3. /\ req[a].op = "avatar" /\ req[a].rec = secrets[n] /\ secrets[n].status = "active"
      /\ faults' \in Nat /\ WorldTypes
  BY <1>1, <1>2, AtWork, FaultTypes DEF PersistAvatar, UpdateAgent, Call, ActorOK, Current
<1>4. /\ r \in Records /\ r.status = "active" /\ r.sid = secrets[n].sid
      /\ r.token = secrets[n].token
  BY <1>2, <1>3 DEF Records, Requests
<1>5. ASSUME Put(a, n, r), confirmed' = confirmed
      PROVE  OnlyAgent(n) /\ AgentOK(n)' /\ WorldTypes'
  <2>1. secrets'[n] = r /\ live' = live /\ users' = users /\ issued' = issued
    BY <1>2, <1>3, <1>5 DEF Put, WorldTypes
  <2>2. OnlyAgent(n) /\ AgentOK(n)'
    BY <1>2, <1>3, <1>4, <1>5, <2>1 DEF Put, OnlyAgent, AgentOK, WorldTypes
  <2> QED
    BY <1>3, <1>4, <1>5, <2>2, PutTypes
<1>6. CASE Put(a, n, r) /\ Return(a, TRUE)
  BY <1>1, <1>3, <1>5, <1>6, ReturnPreserves DEF Returns, Return
<1>7. CASE Goto(a, "undoAvatar")
  <2>1. ASSUME At(a, "undoAvatar", req[a])
        PROVE  ActorOK(a)' /\ HandKept(a)
    BY <1>1, <1>2, <1>3, <2>1
    DEF At, Kept, ActorOK, Guarded, InItsOp, Current, HandOK, Revoked, Inside, Holding, HandKept
  <2>2. CASE Put(a, n, r)
    BY <1>1, <1>2, <1>3, <1>5, <1>7, <2>1, <2>2, MovePreserves DEF Goto, Move, Labels
  <2>3. CASE UNCHANGED world
    <3>1. Shrinks
      BY <1>3, <2>3, SameWorldTypes DEF Shrinks, world
    <3> QED
      BY <1>1, <1>3, <1>7, <2>1, <3>1, GotoShrinking DEF Labels
  <2> QED
    BY <1>7, <2>2, <2>3 DEF PersistAvatar, UpdateAgent, Call
<1> QED
  BY <1>6, <1>7 DEF PersistAvatar, UpdateAgent, Call

-----------------------------------------------------------------------------
(* Steps outside the mutex, and steps of the environment. *)

\* An actor between requests is at work on no agent.
LEMMA IdleIsSole ==
  ASSUME IInv, NEW a \in Actors, pc[a] \in {"idle", "check"}
  PROVE  Sole(a) /\ req[a] = NoRequest /\ req[a].name \notin Names
PROOF
<1>1. req[a] = NoRequest
  BY DEF IInv, ActorOK, Guarded
<1>2. req[a].name = Nobody /\ Nobody \notin Names
  BY <1>1, NullAssumption DEF NoRequest
<1>3. \A b \in Actors : Inside(b) => req[b].name \in Names
  BY DEF IInv, ActorOK, Guarded, Inside
<1> QED
  BY <1>1, <1>2, <1>3 DEF Sole

\* Outside the mutex an actor moves without touching anything.
LEMMA IdleMoves ==
  ASSUME IInv, NEW a \in Actors, pc[a] \in {"idle", "check"}, NEW l \in {"idle", "lock"},
         NEW r \in Requests, Move(a, l, r), UNCHANGED world, UNCHANGED faults,
         l = "idle" => r = NoRequest, l = "lock" => r.name \in Names
  PROVE  IInv'
PROOF
<1>1. /\ WorldTypes /\ ProcessTypes /\ faults \in Nat /\ issued \in Nat
      /\ Sole(a) /\ req[a].name \notin Names
  BY TypeParts, IdleIsSole DEF IInv, TypeOK
<1>2. ProcessTypes' /\ pc'[a] = l /\ req'[a] = r
  BY <1>1, MoveTypes DEF Labels
<1>3. TypeOK'
  BY <1>1, <1>2, SameWorldTypes DEF TypeOK, ProcessTypes, WorldTypes
<1>4. Isolated(a)
  BY <1>1 DEF Isolated, Move, world, ProcessTypes
<1>5. ActorOK(a)' /\ HandKept(a)
  BY <1>2 DEF ActorOK, Guarded, InItsOp, Current, HandOK, Revoked, Inside, Holding, HandKept
<1> QED
  BY <1>1, <1>3, <1>4, <1>5, StepPreserves

LEMMA StartStep ==
  ASSUME IInv, NEW a \in Actors, Start(a)
  PROVE  IInv'
PROOF
<1>1. PICK op \in Ops, n \in Names : Move(a, "lock", [NoRequest EXCEPT !.op = op, !.name = n])
  BY DEF Start
<1> DEFINE r == [NoRequest EXCEPT !.op = op, !.name = n]
<1>2. r \in Requests /\ r.name \in Names
  BY OpsAssumption, NullTypes DEF Requests
<1> QED
  BY <1>1, <1>2, IdleMoves DEF Start, NoFault

LEMMA CheckDeviceStep ==
  ASSUME IInv, NEW a \in Actors, CheckDevice(a)
  PROVE  IInv'
PROOF
<1>1. pc[a] = "check" /\ Move(a, "idle", NoRequest)
  BY IdleIsSole DEF CheckDevice, Goto
<1> QED
  BY <1>1, NullTypes, IdleMoves DEF CheckDevice, NoFault

\* The mutex was free, so nobody is at work on the agent.
LEMMA AcquireStep ==
  ASSUME IInv, NEW a \in Actors, Acquire(a), NEW n, n = req[a].name
  PROVE  IInv'
PROOF
<1>1. TypeOK /\ ActorOK(a) /\ pc[a] = "lock" /\ lock[n] = Nobody
  BY DEF IInv, Acquire
<1>2. n \in Names /\ AgentOK(n)
  BY <1>1, AgentParts DEF IInv, ActorOK, Guarded
<1>3. Sole(a)
  <2>1. \A b \in Actors : Inside(b) => lock[req[b].name] = b
    BY DEF IInv, ActorOK, Guarded
  <2> QED
    BY <1>1, <2>1, NullAssumption DEF Sole
<1>4. TypeOK'
  BY <1>1, <1>2 DEF Acquire, world, NoFault, TypeOK, Labels
<1>5. /\ pc'[a] = "get" /\ req' = req /\ lock'[n] = a /\ secrets' = secrets /\ users' = users
      /\ live' = live /\ confirmed' = confirmed
  BY <1>1, <1>2 DEF Acquire, world, TypeOK
<1>6. Isolated(a)
  BY <1>1 DEF Isolated, Acquire, world, TypeOK
<1>7. ActorOK(a)' /\ HandKept(a)
  BY <1>1, <1>2, <1>5 DEF ActorOK, Guarded, InItsOp, Current, HandOK, Revoked, Inside, Holding, HandKept
<1>8. AgentOK(n)'
  BY <1>2, <1>5 DEF AgentOK, Emptied, SessionsOf
<1> QED
  BY <1>3, <1>4, <1>6, <1>7, <1>8, StepPreserves

\* What the invariant does not look at may change.
Unseen == UNCHANGED <<users, live, issued, secrets, pc, req, lock, confirmed>>

LEMMA UnseenStep ==
  ASSUME IInv, Unseen, TypeOK'
  PROVE  IInv'
PROOF
<1>1. \A a \in Actors : ActorOK(a)'
  BY DEF IInv, Unseen, ActorOK, Guarded, InItsOp, Current, HandOK, Revoked, Inside, Holding,
         Quiet, Emptied, SessionsOf
<1>2. NoStrayCredential' /\ DeactivatedIsDead' /\ AbsentIsEmpty' /\ TokensOK'
  BY DEF IInv, Unseen, NoStrayCredential, DeactivatedIsDead, AbsentIsEmpty, TokensOK, SessionsOf
<1>3. HandsDiffer'
  BY DEF IInv, Unseen, HandsDiffer, Holding
<1> QED
  BY <1>1, <1>2, <1>3 DEF IInv

LEMMA CrashStep ==
  ASSUME IInv, Crash
  PROVE  IInv'
PROOF
<1>1. TypeOK'
  BY NullTypes DEF IInv, Crash, Fault, TypeOK, Labels
<1>2. \A a \in Actors : ActorOK(a)' /\ ~Holding(a)'
  BY DEF Crash, ActorOK, Guarded, InItsOp, Current, HandOK, Revoked, Inside, Holding
<1>3. NoStrayCredential' /\ DeactivatedIsDead' /\ AbsentIsEmpty' /\ TokensOK'
  BY DEF IInv, Crash, NoStrayCredential, DeactivatedIsDead, AbsentIsEmpty, TokensOK, SessionsOf
<1> QED
  BY <1>1, <1>2, <1>3 DEF IInv, HandsDiffer

-----------------------------------------------------------------------------
(* The theorems. *)

LEMMA InitInv == Init => IInv
PROOF
<1> SUFFICES ASSUME Init PROVE IInv
  OBVIOUS
<1>1. TypeOK
  BY NullTypes DEF Init, TypeOK, Accounts, Labels, Statuses, Images
<1>2. \A a \in Actors : ActorOK(a) /\ ~Holding(a)
  BY DEF Init, ActorOK, Guarded, InItsOp, Current, HandOK, Revoked, Inside, Holding
<1>3. NoStrayCredential /\ DeactivatedIsDead /\ AbsentIsEmpty /\ TokensOK
  BY DEF Init, NoStrayCredential, DeactivatedIsDead, AbsentIsEmpty, TokensOK, NoSecret
<1> QED
  BY <1>1, <1>2, <1>3 DEF IInv, HandsDiffer

LEMMA RunStep ==
  ASSUME IInv, NEW a \in Actors, Run(a)
  PROVE  IInv'
PROOF
<1>1. CASE ReadSecret(a)
  BY <1>1, ReadSecretStep
<1>2. CASE CreateStep(a)
  <2>1. CASE LookupUser(a)     BY <2>1, LookupUserStep
  <2>2. CASE AdmitUser(a)      BY <2>2, AdmitUserStep
  <2>3. CASE IssueForCreate(a) BY <2>3, IssueForCreateStep
  <2>4. CASE SyncProfile(a)    BY <2>4, SyncProfileStep
  <2>5. CASE PersistCreated(a) BY <2>5, PersistCreatedStep
  <2>6. CASE UndoCreate(a)     BY <2>6, UndoCreateStep
  <2> QED
    BY <1>2, <2>1, <2>2, <2>3, <2>4, <2>5, <2>6 DEF CreateStep
<1>3. CASE RotateStep(a)
  <2>1. CASE IssueForRotate(a) BY <2>1, IssueForRotateStep
  <2>2. CASE RevokeOld(a)      BY <2>2, RevokeOldStep
  <2>3. CASE PersistRotated(a) BY <2>3, PersistRotatedStep
  <2>4. CASE UndoRotate(a)     BY <2>4, UndoRotateStep
  <2>5. CASE CheckDevice(a)    BY <2>5, CheckDeviceStep
  <2> QED
    BY <1>3, <2>1, <2>2, <2>3, <2>4, <2>5 DEF RotateStep
<1>4. CASE WithdrawStep(a)
  <2>1. CASE ListSessions(a)   BY <2>1, ListSessionsStep
  <2>2. CASE RevokeEach(a)     BY <2>2, RevokeEachStep
  <2>3. CASE DeactivateUser(a) BY <2>3, DeactivateUserStep
  <2>4. CASE PersistCleared(a) BY <2>4, PersistClearedStep
  <2>5. CASE DeleteSecret(a)   BY <2>5, DeleteSecretStep
  <2>6. CASE ClearRead(a)      BY <2>6, ClearReadStep
  <2>7. CASE ClearWrite(a)     BY <2>7, ClearWriteStep
  <2>8. CASE Purge(a)          BY <2>8, PurgeStep
  <2> QED
    BY <1>4, <2>1, <2>2, <2>3, <2>4, <2>5, <2>6, <2>7, <2>8 DEF WithdrawStep
<1>5. CASE AvatarStep(a)
  <2>1. CASE UploadAvatar(a)   BY <2>1, UploadAvatarStep
  <2>2. CASE SetAvatarURL(a)   BY <2>2, SetAvatarURLStep
  <2>3. CASE PersistAvatar(a)  BY <2>3, PersistAvatarStep
  <2>4. CASE UndoAvatar(a)     BY <2>4, UndoAvatarStep
  <2> QED
    BY <1>5, <2>1, <2>2, <2>3, <2>4 DEF AvatarStep
<1> QED
  BY <1>1, <1>2, <1>3, <1>4, <1>5 DEF Run

LEMMA NextInv == IInv /\ [Next]_vars => IInv'
PROOF
<1> SUFFICES ASSUME IInv, [Next]_vars PROVE IInv'
  OBVIOUS
<1>1. ASSUME NEW a \in Actors, Start(a) \/ Acquire(a) \/ Run(a) PROVE IInv'
  BY <1>1, StartStep, AcquireStep, RunStep
<1>2. ASSUME NEW a \in Actors, Expire(a) PROVE IInv'
  <2>1. TypeOK' /\ Unseen
    BY <1>2 DEF IInv, Expire, Fault, world, TypeOK, Unseen
  <2> QED
    BY <2>1, UnseenStep
<1>3. CASE Crash
  BY <1>3, CrashStep
<1>4. ASSUME NEW n \in Names, EditSecret(n) PROVE IInv'
  <2>1. TypeOK' /\ Unseen
    BY <1>4 DEF IInv, EditSecret, Fault, process, TypeOK, Unseen, Readers
  <2> QED
    BY <2>1, UnseenStep
<1>5. CASE UNCHANGED vars
  <2>1. TypeOK' /\ Unseen
    BY <1>5 DEF IInv, vars, TypeOK, Unseen
  <2> QED
    BY <2>1, UnseenStep
<1> QED
  BY <1>1, <1>2, <1>3, <1>4, <1>5 DEF Next, Environment

\* The invariant holds in every reachable state, whatever the agents, the actors,
\* the operations in play, the failures and their number.
THEOREM Invariance == Spec => []IInv
  BY InitInv, NextInv, PTL DEF Spec

\* Every variable has its type.
THEOREM TypeCorrect == Spec => []TypeOK
PROOF
<1>1. IInv => TypeOK
  BY DEF IInv
<1> QED
  BY Invariance, <1>1, PTL

\* A token that Create or Rotate handed out works only while the active Secret
\* of its agent records it: no operation of agents.Service, completed, failed,
\* timed out or cut off by a crash, lets go of a credential that still works.
THEOREM NoStray == Spec => []NoStrayCredential
PROOF
<1>1. IInv => NoStrayCredential
  BY DEF IInv
<1> QED
  BY Invariance, <1>1, PTL

\* A Secret marked deactivated means a closed account without sessions.
THEOREM DeactivatedStaysDead == Spec => []DeactivatedIsDead
PROOF
<1>1. IInv => DeactivatedIsDead
  BY DEF IInv
<1> QED
  BY Invariance, <1>1, PTL
=============================================================================
