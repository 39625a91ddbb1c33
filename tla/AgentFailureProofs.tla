------------------------- MODULE AgentFailureProofs -------------------------
(***************************************************************************)
(* What one failed call may leave behind, for any agents, actors and       *)
(* numbers of failures: while there has been at most one, and it was one   *)
(* that the clean-ups are written for, no account is orphaned, no active   *)
(* Secret holds a dead token, and the avatar of a Secret is the one shown. *)
(***************************************************************************)
EXTENDS AgentSettledProofs

-----------------------------------------------------------------------------
(* What one step of an operation does, whichever it is. *)

\* It changes one of the stores, for its own agent.
Effect(a) ==
    LET n == req[a].name IN
    \/ UNCHANGED world
    \/ UNCHANGED <<users, live, issued, profile, secrets>> /\ stale' = stale \ {a}
    \/ \E account : SetUser(n, account)
    \/ \E id : Own(n, id) /\ RevokeEffect(id)
    \/ \E s, kept : /\ Issue(s, kept) /\ s.owner = n /\ kept \subseteq live
                    /\ \A x \in live : x \in kept \/ x.owner = n
    \/ \E r : Put(a, n, r)
    \/ \E uri : /\ profile' = [profile EXCEPT ![n] = uri]
                /\ SameMAS /\ SameSecrets

\* It goes on, or leaves.
Same(q, r) == q.name = r.name /\ q.op = r.op

Flow(a) ==
    \/ \E l \in Labels : \E q : /\ Move(a, l, q) /\ Same(q, req[a])
                                /\ l = "clearPut" => pc[a] = "clearGet"
    \/ \E l \in {"idle", "check"} : Leave(a, l)

LEMMA GoesOn ==
  ASSUME SInv, NEW a \in Actors, NEW l \in Labels \ {"clearPut"}, Goto(a, l)
  PROVE  Flow(a)
  BY DEF Goto, Flow, Same

LEMMA ReturnsLeave ==
  ASSUME NEW a, ReturnUnchanged(a) \/ (\E ok : Return(a, ok)) \/ ReturnToken(a)
  PROVE  Flow(a)
  BY DEF ReturnUnchanged, Return, ReturnToken, Flow

\* A step of an operation at work.
Works(a) == Inside(a) /\ Effect(a) /\ Flow(a)

LEMMA ReadWorks ==
  ASSUME SInv, NEW a \in Actors, ReadSecret(a) \/ ClearRead(a)
  PROVE  Works(a) /\ a \notin stale'
<1>1. Inside(a) /\ Effect(a) /\ a \notin stale'
  BY DEF ReadSecret, ClearRead, GetAgent, Ask, Inside, Effect
<1>2. req[a] \in Requests
  BY <1>1, AtWork DEF SInv, RInv
<1> DEFINE q == [req[a] EXCEPT !.rec = secrets[req[a].name]]
<1>3. Same(q, req[a])
  BY <1>2 DEF Requests, Same
<1>4. CASE ReadSecret(a)
  <2>1. \/ ReturnUnchanged(a)
        \/ \E l \in Labels \ {"clearPut"} : Move(a, l, q)
    BY <1>4, Zenon DEF ReadSecret, GetAgent, Ask, Entry, Labels
  <2> HIDE DEF q
  <2> QED
    BY <1>1, <1>3, <2>1, ReturnsLeave DEF Flow, Works
<1>5. CASE ClearRead(a)
  <2>1. pc[a] = "clearGet" /\ (Return(a, FALSE) \/ Goto(a, "purge") \/ Move(a, "clearPut", q))
    BY <1>5 DEF ClearRead, GetAgent, Ask, ClearFailed
  <2> HIDE DEF q
  <2> QED
    BY <1>1, <1>3, <2>1, ReturnsLeave, GoesOn DEF Flow, Works, Labels
<1> QED
  BY <1>4, <1>5

\* Calls after which the operation returns, or goes on with what it knows.
LEMMA PlainWorks ==
  ASSUME SInv, NEW a \in Actors,
         \/ LookupUser(a) \/ AdmitUser(a) \/ SyncProfile(a) \/ PersistCreated(a)
         \/ UndoCreate(a) \/ RevokeOld(a) \/ PersistRotated(a) \/ UndoRotate(a)
         \/ DeactivateUser(a) \/ PersistCleared(a) \/ DeleteSecret(a) \/ Purge(a)
         \/ SetAvatarURL(a) \/ PersistAvatar(a) \/ UndoAvatar(a)
  PROVE  Works(a)
<1> DEFINE Over == ReturnUnchanged(a) \/ (\E ok : Return(a, ok)) \/ ReturnToken(a)
           Onward == \E l \in Labels \ {"clearPut"} : Goto(a, l)
<1>1. KnowsOwn(a)
  BY DEF SInv, RInv
<1>2. ASSUME LookupUser(a) \/ AdmitUser(a) \/ SyncProfile(a) \/ PersistCreated(a)
             \/ UndoCreate(a)
      PROVE  Inside(a) /\ Effect(a) /\ (Over \/ Onward)
  <2>1. CASE LookupUser(a)
    BY <2>1 DEF LookupUser, Ask, Inside, Effect, world, Labels
  <2>2. CASE AdmitUser(a)
    BY <2>2 DEF AdmitUser, Call, Inside, Effect, Labels
  <2>3. CASE SyncProfile(a)
    BY <2>3 DEF SyncProfile, Call, Inside, Effect, Labels
  <2>4. CASE PersistCreated(a)
    BY <2>4 DEF PersistCreated, CreateAgent, Call, Inside, Effect, Labels
  <2>5. CASE UndoCreate(a)
    BY <1>1, <2>5 DEF UndoCreate, RevokePersonalSession, DeactivateMASUser, Call, Inside,
       Effect, RevokeEffect, KnowsOwn, Labels
  <2> QED
    BY <1>2, <2>1, <2>2, <2>3, <2>4, <2>5
<1>3. ASSUME RevokeOld(a) \/ PersistRotated(a) \/ UndoRotate(a)
             \/ DeactivateUser(a) \/ PersistCleared(a)
      PROVE  Inside(a) /\ Effect(a) /\ (Over \/ Onward)
  <2>1. CASE RevokeOld(a)
    BY <1>1, <2>1 DEF RevokeOld, RevokePersonalSession, Call, Inside,
       Effect, RevokeEffect, KnowsOwn, Labels
  <2>2. CASE PersistRotated(a)
    BY <2>2 DEF PersistRotated, UpdateAgent, Call, Inside, Effect, Labels
  <2>3. CASE UndoRotate(a)
    BY <1>1, <2>3 DEF UndoRotate, RevokePersonalSession, Call, Inside,
       Effect, RevokeEffect, KnowsOwn, Labels
  <2>4. CASE DeactivateUser(a)
    BY <2>4 DEF DeactivateUser, DeactivateMASUser, Call, Inside, Effect, Labels
  <2>5. CASE PersistCleared(a)
    BY <2>5 DEF PersistCleared, UpdateAgent, Call, Inside, Effect, Labels
  <2> QED
    BY <1>3, <2>1, <2>2, <2>3, <2>4, <2>5
<1>4. ASSUME DeleteSecret(a) \/ Purge(a)
             \/ SetAvatarURL(a) \/ PersistAvatar(a) \/ UndoAvatar(a)
      PROVE  Inside(a) /\ Effect(a) /\ (Over \/ Onward)
  <2>1. CASE DeleteSecret(a)
    BY <2>1 DEF DeleteSecret, DeleteAgent, Call, Inside, Effect, Labels
  <2>2. CASE Purge(a)
    BY <2>2 DEF Purge, DeleteAgent, Call, Inside, Effect, Labels
  <2>3. CASE SetAvatarURL(a)
    BY <2>3 DEF SetAvatarURL, SetProfile, Call, Inside, Effect, Labels
  <2>4. CASE PersistAvatar(a)
    BY <2>4 DEF PersistAvatar, UpdateAgent, Call, Inside, Effect, Labels
  <2>5. CASE UndoAvatar(a)
    BY <2>5 DEF UndoAvatar, SetProfile, Call, Inside, Effect, Labels
  <2> QED
    BY <1>4, <2>1, <2>2, <2>3, <2>4, <2>5
<1>5. Over \/ Onward => Flow(a)
  BY ReturnsLeave, GoesOn
<1> QED
  BY <1>2, <1>3, <1>4, <1>5 DEF Works

\* Calls after which the operation knows more.
LEMMA LearningWorks ==
  ASSUME SInv, NEW a \in Actors,
         ListSessions(a) \/ RevokeEach(a) \/ UploadAvatar(a) \/ ClearWrite(a)
  PROVE  Works(a)
<1> DEFINE n == req[a].name
<1>1. Inside(a)
  BY DEF ListSessions, RevokeEach, UploadAvatar, ClearWrite, Inside
<1>2. req[a] \in Requests /\ KnowsOwn(a)
  BY <1>1, AtWork DEF SInv, RInv
<1>3. ASSUME NEW ids, NEW l \in Labels \ {"clearPut"}, Move(a, l, [req[a] EXCEPT !.todo = ids])
      PROVE  Flow(a)
  <2>1. Same([req[a] EXCEPT !.todo = ids], req[a])
    BY <1>2 DEF Requests, Same
  <2> QED
    BY <1>3, <2>1 DEF Flow
<1>4. ASSUME ListSessions(a) PROVE Effect(a) /\ Flow(a)
  <2>1. Effect(a)
    BY <1>4 DEF ListSessions, Ask, Effect, world
  <2>2. \/ ReturnUnchanged(a)
        \/ \E l \in {"persist", "deactivate", "revokeEach"} :
              Move(a, l, [req[a] EXCEPT !.todo = {s.id : s \in SessionsOf(n)}])
    BY <1>4 DEF ListSessions, Ask, AfterRevoke
  <2> QED
    BY <1>3, <2>1, <2>2, ReturnsLeave DEF Labels
<1>5. ASSUME RevokeEach(a) PROVE Effect(a) /\ Flow(a)
  <2>1. PICK id \in req[a].todo :
          LET rest == req[a].todo \ {id}
          IN  RevokePersonalSession(a, id,
                  Move(a, IF rest = {} THEN AfterRevoke(req[a].op) ELSE "revokeEach",
                       [req[a] EXCEPT !.todo = rest]),
                  Return(a, FALSE))
    BY <1>5 DEF RevokeEach
  <2>2. Own(n, id) /\ RevokeEffect(id)
    BY <1>2, <2>1 DEF KnowsOwn, RevokePersonalSession, Call, RevokeEffect
  <2>3. \/ Return(a, FALSE)
        \/ \E l \in {"persist", "deactivate", "revokeEach"} :
              Move(a, l, [req[a] EXCEPT !.todo = req[a].todo \ {id}])
    BY <2>1 DEF RevokePersonalSession, Call, AfterRevoke
  <2> QED
    BY <1>3, <2>2, <2>3, ReturnsLeave DEF Effect, Labels
<1>6. ASSUME UploadAvatar(a) PROVE Effect(a) /\ Flow(a)
  <2>1. Effect(a)
    BY <1>6 DEF UploadAvatar, Call, Effect
  <2>2. \/ ReturnUnchanged(a)
        \/ \E uri \in Avatars : Move(a, "setAvatar", [req[a] EXCEPT !.uri = uri])
    BY <1>6, Zenon DEF UploadAvatar, Call
  <2>3. \A uri : Same([req[a] EXCEPT !.uri = uri], req[a])
    BY <1>2 DEF Requests, Same
  <2> QED
    BY <2>1, <2>2, <2>3, ReturnsLeave DEF Flow, Labels
<1>7. ASSUME ClearWrite(a) PROVE Effect(a) /\ Flow(a)
  <2>1. Effect(a)
    BY <1>7 DEF ClearWrite, UpdateAgent, Call, Effect
  <2>2. \/ Return(a, FALSE) \/ Goto(a, "purge")
        \/ Move(a, "clearGet", [req[a] EXCEPT !.tries = @ + 1])
    BY <1>7 DEF ClearWrite, UpdateAgent, Call, ClearFailed
  <2>3. Same([req[a] EXCEPT !.tries = @ + 1], req[a])
    BY <1>2 DEF Requests, Same
  <2> QED
    BY <2>1, <2>2, <2>3, ReturnsLeave, GoesOn DEF Flow, Labels
<1> QED
  BY <1>1, <1>4, <1>5, <1>6, <1>7 DEF Works

\* Calls that issue a token.
LEMMA IssueWorks ==
  ASSUME SInv, NEW a \in Actors, IssueForCreate(a) \/ IssueForRotate(a)
  PROVE  Works(a)
<1> DEFINE n == req[a].name
           t == issued + 1
           q(id, token) == [req[a] EXCEPT !.ses = [id |-> id, token |-> token]]
<1>1. Inside(a)
  BY DEF IssueForCreate, IssueForRotate, Inside
<1>2. req[a] \in Requests /\ issued \in Nat /\ Own(n, req[a].rec.sid)
  BY <1>1, AtWork DEF SInv, RInv, KnowsOwn
<1>3. \A id, token : Same(q(id, token), req[a])
  BY <1>2 DEF Requests, Same
<1>4. ASSUME IssueForCreate(a) PROVE Effect(a) /\ Flow(a)
  <2>1. Effect(a)
    <3> DEFINE s == [owner |-> n, id |-> t, token |-> t]
    <3>1. (Issue(s, live) /\ s.owner = n) \/ UNCHANGED world
      BY <1>4 DEF IssueForCreate, Call
    <3> HIDE DEF s
    <3> QED
      BY <3>1 DEF Effect
  <2>2. \/ Move(a, "sync", q(t, t)) \/ Goto(a, "undoUser") \/ Move(a, "undoCreate", q(t, 0))
    BY <1>4 DEF IssueForCreate, Call
  <2> HIDE DEF q
  <2> QED
    BY <1>3, <2>1, <2>2, GoesOn DEF Flow, Labels
<1>5. ASSUME IssueForRotate(a) PROVE Effect(a) /\ Flow(a)
  <2> DEFINE id == IF Regenerated(a) THEN req[a].rec.sid ELSE t
             kept == {x \in live : x.id # id}
             s == [owner |-> n, id |-> id, token |-> t]
             swapped == [s EXCEPT !.id = t]
  <2>1. \A x \in live : x \in kept \/ x.owner = n
    <3>1. \A x \in live : x.id \in Nat /\ x.id <= issued
      BY DEF SInv, RInv, IInv, TypeOK, SessionsOwned, Own, Sessions
    <3>2. \A x \in live : x.id # t
      BY <1>2, <3>1
    <3> QED
      BY <1>2, <3>2 DEF Own
  <2>2. Issue(s, kept) \/ Issue(swapped, kept) \/ UNCHANGED world
    BY <1>5 DEF IssueForRotate, Call
  <2>3. s.owner = n /\ swapped.owner = n /\ kept \subseteq live
    OBVIOUS
  <2>4. \/ Return(a, FALSE) \/ Goto(a, "clearGet")
        \/ \E l \in {"persist", "revokeOld", "undoRotate", "undoNew"}, token \in {0, t} :
              Move(a, l, q(id, token))
    BY <1>5 DEF IssueForRotate, Call
  <2> HIDE DEF q, id, s, swapped, kept
  <2>5. Effect(a)
    BY <2>1, <2>2, <2>3 DEF Effect
  <2> QED
    BY <1>3, <2>4, <2>5, GoesOn, ReturnsLeave DEF Flow, Labels
<1> QED
  BY <1>1, <1>4, <1>5 DEF Works

LEMMA RunWorks ==
  ASSUME SInv, NEW a \in Actors, Run(a)
  PROVE  Works(a) \/ CheckDevice(a)
<1>1. ListSessions(a) \/ RevokeEach(a) \/ UploadAvatar(a) \/ ClearWrite(a) => Works(a)
  BY LearningWorks
<1>2. ReadSecret(a) \/ ClearRead(a) => Works(a)
  BY ReadWorks
<1>3. IssueForCreate(a) \/ IssueForRotate(a) => Works(a)
  BY IssueWorks
<1> QED
  BY <1>1, <1>2, <1>3, PlainWorks DEF Run, CreateStep, RotateStep, WithdrawStep, AvatarStep

-----------------------------------------------------------------------------
(* What it leaves alone. *)

StoresAway(a) ==
    LET n == req[a].name IN
    /\ \A m \in Names \ {n} :
          /\ secrets'[m] = secrets[m] /\ users'[m] = users[m] /\ profile'[m] = profile[m]
          /\ \A s : s \in SessionsOf(m)' <=> s \in SessionsOf(m)
    /\ \A b \in Actors : b \in stale' => b \in stale \/ (b # a /\ req[b].name = n)

ControlAway(a) ==
    /\ OthersStay(a)
    /\ Same(req'[a], req[a]) \/ req'[a] = NoRequest
    /\ pc'[a] = "clearPut" => pc[a] = "clearGet"
    /\ late' \subseteq late

LEMMA StoresStayAway ==
  ASSUME SInv, NEW a \in Actors, Works(a)
  PROVE  StoresAway(a)
<1> DEFINE n == req[a].name
<1>1. /\ n \in Names /\ WorldTypes
  BY AtWork DEF Works, SInv, RInv
<1>2. CASE UNCHANGED world
  BY <1>2 DEF world, SessionsOf, StoresAway
<1>3. CASE UNCHANGED <<users, live, issued, profile, secrets>> /\ stale' = stale \ {a}
  BY <1>3 DEF SessionsOf, StoresAway
<1>4. CASE \E account : SetUser(n, account)
  BY <1>1, <1>4 DEF SetUser, SameSecrets, SessionsOf, WorldTypes, StoresAway
<1>5. CASE \E id : Own(n, id) /\ RevokeEffect(id)
  BY <1>1, <1>5 DEF RevokeEffect, SameSecrets, world, SessionsOf, Own, StoresAway
<1>6. ASSUME NEW s, NEW kept, Issue(s, kept), s.owner = n, kept \subseteq live,
             \A x \in live : x \in kept \/ x.owner = n
      PROVE  StoresAway(a)
  BY <1>6 DEF Issue, SameSecrets, SessionsOf, StoresAway
<1>7. CASE \E r : Put(a, n, r)
  BY <1>1, <1>7 DEF Put, Readers, SessionsOf, WorldTypes, StoresAway
<1>8. CASE \E uri : /\ profile' = [profile EXCEPT ![n] = uri]
                    /\ SameMAS /\ SameSecrets
  BY <1>1, <1>8 DEF SameMAS, SameSecrets, SessionsOf, WorldTypes, StoresAway
<1> QED
  BY <1>2, <1>3, <1>4, <1>5, <1>6, <1>7, <1>8 DEF Works, Effect

LEMMA ControlStaysAway ==
  ASSUME SInv, NEW a \in Actors, Works(a)
  PROVE  ControlAway(a)
<1>1. TypeOK
  BY DEF SInv, RInv, IInv
<1>2. ASSUME NEW l \in Labels, NEW q, Move(a, l, q), Same(q, req[a]),
             l = "clearPut" => pc[a] = "clearGet"
      PROVE  ControlAway(a)
  BY <1>1, <1>2 DEF Move, OthersStay, TypeOK, ControlAway
<1>3. ASSUME NEW l \in {"idle", "check"}, Leave(a, l)
      PROVE  ControlAway(a)
  BY <1>1, <1>3 DEF Leave, OthersStay, TypeOK, ControlAway
<1> QED
  BY <1>2, <1>3 DEF Works, Flow

\* A step counts at most one failure.
LEMMA RunCounts ==
  ASSUME SInv, NEW a \in Actors, Run(a)
  PROVE  faults \in Nat /\ faults' \in {faults, faults + 1}
<1>1. ASSUME CreateStep(a) PROVE NoFault \/ \E kind : Fault(kind)
  BY <1>1 DEF CreateStep, LookupUser, AdmitUser, IssueForCreate, SyncProfile, PersistCreated,
     UndoCreate, Ask, Call, CreateAgent, RevokePersonalSession, DeactivateMASUser
<1>2. ASSUME RotateStep(a) PROVE NoFault \/ \E kind : Fault(kind)
  BY <1>2 DEF RotateStep, IssueForRotate, RevokeOld, PersistRotated, UndoRotate, CheckDevice,
     Call, UpdateAgent, RevokePersonalSession
<1>3. ASSUME WithdrawStep(a) PROVE NoFault \/ \E kind : Fault(kind)
  BY <1>3 DEF WithdrawStep, ListSessions, RevokeEach, DeactivateUser, PersistCleared,
     DeleteSecret, ClearRead, ClearWrite, Purge, Ask, GetAgent, Call, UpdateAgent,
     DeleteAgent, RevokePersonalSession, DeactivateMASUser
<1>4. ASSUME AvatarStep(a) PROVE NoFault \/ \E kind : Fault(kind)
  BY <1>4 DEF AvatarStep, UploadAvatar, SetAvatarURL, PersistAvatar, UndoAvatar,
     Call, UpdateAgent, SetProfile
<1>5. ASSUME ReadSecret(a) PROVE NoFault \/ \E kind : Fault(kind)
  BY <1>5 DEF ReadSecret, Ask, GetAgent
<1> QED
  BY <1>1, <1>2, <1>3, <1>4, <1>5 DEF Run, NoFault, Fault, SInv, RInv, IInv, TypeOK

-----------------------------------------------------------------------------
(* Accounts and avatars: the halves of the argument. *)

\* The kinds of failure that the clean-ups are written for: the answer of a call says
\* whether it took effect, and the operation goes on to its end.
Answered == Faults \subseteq {"fail", "blank", "swap", "edit"}

\* The invariant, for the agent whose mutex the actor holds.
KOwn(a, n) ==
    faults <= 1 =>
        /\ users[n] = "active" /\ ~Admits(a) => secrets[n] # NoSecret
        /\ secrets[n].avatar # NoAvatar /\ ~Shows(a) => profile[n] = secrets[n].avatar
        /\ Admitted(a) /\ CanUndo(a)

LEMMA KOwnBefore ==
  ASSUME KInv, NEW a \in Actors, Inside(a), NEW n, n = req[a].name
  PROVE  KOwn(a, n) /\ Traced(a)
<1>1. Sole(a) /\ n \in Names
  BY InsideIsSole DEF KInv, SInv, RInv
<1>2. \A b \in Actors \ {a} : (Admits(b) \/ Shows(b)) => req[b].name # n
  BY <1>1 DEF Sole, Admits, Shows, Inside
<1> QED
  BY <1>1, <1>2 DEF KInv, KOwn, Managed, Pictured

\* Another agent's half survives a step.
LEMMA OthersManaged ==
  ASSUME KInv, NEW a \in Actors, Inside(a), StoresAway(a), ControlAway(a),
         faults' \in {faults, faults + 1}, faults \in Nat, faults' <= 1,
         NEW m \in Names \ {req[a].name}
  PROVE  Managed(m)' /\ Pictured(m)'
<1>1. Managed(m) /\ Pictured(m)
  BY DEF KInv
<1>2. secrets'[m] = secrets[m] /\ users'[m] = users[m] /\ profile'[m] = profile[m]
  BY DEF StoresAway
<1>3. \A b \in Actors \ {a} : /\ req'[b].name = req[b].name
                              /\ Admits(b)' = Admits(b) /\ Shows(b)' = Shows(b)
  BY DEF ControlAway, OthersStay, Admits, Shows
<1> QED
  BY <1>1, <1>2, <1>3 DEF Managed, Pictured

LEMMA OthersUndo ==
  ASSUME KInv, NEW a \in Actors, Inside(a), StoresAway(a), ControlAway(a),
         faults' \in {faults, faults + 1}, faults \in Nat, NEW b \in Actors \ {a}
  PROVE  Traced(b)' /\ (faults' <= 1 => Admitted(b)' /\ CanUndo(b)')
<1>1. pc'[b] = pc[b] /\ req'[b] = req[b]
  BY DEF ControlAway, OthersStay
<1>2. Traced(b) /\ (faults <= 1 => Admitted(b) /\ CanUndo(b))
  BY DEF KInv
<1>3. CASE Inside(b)
  <2>1. PICK m \in Names : m = req[b].name /\ m # req[a].name
    BY <1>3, InsideIsSole DEF KInv, SInv, RInv, Sole
  <2>2. /\ secrets'[m] = secrets[m] /\ users'[m] = users[m] /\ profile'[m] = profile[m]
        /\ \A s : s \in SessionsOf(m)' <=> s \in SessionsOf(m)
        /\ b \in stale' => b \in stale
    BY <2>1 DEF StoresAway
  <2>3. Traced(b)'
    BY <1>1, <1>2, <2>1, <2>2 DEF Traced, Inside
  <2>4. \A t : Accepted(m, t)' <=> Accepted(m, t)
    BY <2>2 DEF Accepted
  <2>5. Admitted(b) => Admitted(b)'
    BY <1>1, <2>1, <2>2 DEF Admitted, Admits
  <2>6. CanUndo(b) => CanUndo(b)'
    BY <1>1, <2>1, <2>2, <2>4 DEF CanUndo, Shows
  <2> QED
    BY <1>2, <2>3, <2>5, <2>6
<1>4. CASE ~Inside(b)
  BY <1>1, <1>4 DEF Inside, Traced, Undoing, Admitted, Admits, CanUndo, Shows
<1> QED
  BY <1>3, <1>4

\* So a step has only its own half to show.
LEMMA OwnKeeps ==
  ASSUME KInv, SInv', NEW a \in Actors, Works(a), faults' \in {faults, faults + 1},
         NEW n, n = req[a].name, KOwn(a, n)', Traced(a)'
  PROVE  KInv'
<1>1. Inside(a) /\ StoresAway(a) /\ ControlAway(a) /\ faults \in Nat
  BY StoresStayAway, ControlStaysAway DEF KInv, SInv, RInv, IInv, TypeOK, Works
<1>2. n \in Names
  BY <1>1, InsideIsSole DEF KInv, SInv, RInv
<1>3. late' = {}
  BY <1>1 DEF KInv, ControlAway
<1>4. ASSUME faults' <= 1 PROVE Managed(n)' /\ Pictured(n)'
  <2>1. Admits(a)' \/ Shows(a)' => req'[a].name = n
    BY <1>1 DEF NoRequest, ControlAway, Same, Admits, Shows
  <2> QED
    BY <1>4, <2>1 DEF KOwn, Managed, Pictured
<1>5. ASSUME faults' <= 1, NEW m \in Names PROVE Managed(m)' /\ Pictured(m)'
  BY <1>1, <1>4, <1>5, OthersManaged
<1>6. \A b \in Actors : Traced(b)' /\ (faults' <= 1 => Admitted(b)' /\ CanUndo(b)')
  BY <1>1, OthersUndo DEF KOwn
<1> QED
  BY <1>3, <1>5, <1>6 DEF KInv

-----------------------------------------------------------------------------
(* The ways a step ends. *)

Over(a) == ReturnUnchanged(a) \/ (\E ok : Return(a, ok)) \/ ReturnToken(a)

LEMMA OverOutside ==
  ASSUME SInv, NEW a \in Actors, Over(a)
  PROVE  pc'[a] \in {"idle", "check"} /\ req'[a] = NoRequest /\ ~Inside(a)'
  BY DEF SInv, RInv, IInv, TypeOK, Over, ReturnUnchanged, Return, ReturnToken, Leave, Inside

\* An operation that is over has nothing left to undo.
LEMMA OverKeeps ==
  ASSUME KInv, NEW a \in Actors, Over(a), NEW n,
         faults' <= 1 =>
            /\ users'[n] = "active" => secrets'[n] # NoSecret
            /\ secrets'[n].avatar # NoAvatar => profile'[n] = secrets'[n].avatar
  PROVE  KOwn(a, n)' /\ Traced(a)'
<1>1. pc'[a] \in {"idle", "check"} /\ req'[a] = NoRequest /\ ~Inside(a)'
  BY OverOutside DEF KInv
<1> QED
  BY <1>1 DEF KOwn, Traced, Undoing, Admits, Shows, Admitted, CanUndo, NoRequest

SameOwn(n) == secrets'[n] = secrets[n] /\ users'[n] = users[n] /\ profile'[n] = profile[n]

\* A step of an operation that has nothing to undo, before or after it.
LEMMA PlainKeeps ==
  ASSUME KInv, NEW a \in Actors, Inside(a), NEW n, n = req[a].name, SameOwn(n),
         faults' \in {faults, faults + 1},
         ~Admits(a), ~Shows(a), ~Admits(a)', ~Shows(a)'
  PROVE  KOwn(a, n)'
<1>1. KOwn(a, n) /\ faults \in Nat
  BY KOwnBefore DEF KInv, SInv, RInv, IInv, TypeOK
<1> QED
  BY <1>1 DEF KOwn, SameOwn, Admitted, CanUndo

LEMMA PlainOver ==
  ASSUME KInv, NEW a \in Actors, Inside(a), NEW n, n = req[a].name, SameOwn(n),
         faults' \in {faults, faults + 1}, ~Admits(a), ~Shows(a), Over(a)
  PROVE  KOwn(a, n)' /\ Traced(a)'
<1>1. KOwn(a, n) /\ faults \in Nat
  BY KOwnBefore DEF KInv, SInv, RInv, IInv, TypeOK
<1> QED
  BY <1>1, OverKeeps DEF KOwn, SameOwn

\* Where it is traced.
LEMMA TracedAfter ==
  ASSUME KInv, NEW a \in Actors, Works(a), faults' \in {faults, faults + 1},
         NEW n, n = req[a].name, req'[a].name = n,
         a \in stale' => pc[a] \notin {"get", "clearGet"},
         pc'[a] \in Undoing => faults' >= 1, pc'[a] = "purge" => faults' >= 2,
         \/ pc'[a] \in {"clearGet", "purge"} \/ secrets'[n] # NoSecret
         \/ /\ secrets'[n] = secrets[n] /\ req'[a].op = req[a].op
            /\ pc[a] \notin {"get", "clearGet", "purge"}
         \/ req'[a].op = "create"
  PROVE  Traced(a)'
<1>1. /\ StoresAway(a) /\ ControlAway(a) /\ Inside(a) /\ Traced(a) /\ faults \in Nat
  BY StoresStayAway, ControlStaysAway DEF KInv, SInv, RInv, IInv, TypeOK, Works
<1>2. a \in stale' => a \in stale
  BY <1>1 DEF StoresAway
<1>3. a \in stale' => "edit" \in Faults /\ faults' >= 1
  BY <1>1, <1>2 DEF Traced
<1>4. pc'[a] = "clearPut" => a \notin stale'
  BY <1>1 DEF ControlAway
<1> QED
  BY <1>1, <1>3, <1>4 DEF Traced

\* A step to another label, with the Secret it has found.
LEMMA GoesTraced ==
  ASSUME KInv, NEW a \in Actors, Works(a), faults' \in {faults, faults + 1},
         pc[a] \notin {"get", "clearGet", "purge"}, NEW l, Goto(a, l),
         NEW n, n = req[a].name, secrets'[n] = secrets[n] \/ l \in {"clearGet", "purge"}
                                 \/ req[a].op = "create",
         l \in Undoing => faults' >= 1, l = "purge" => faults' >= 2
  PROVE  Traced(a)' /\ pc'[a] = l /\ req'[a] = req[a]
<1>1. pc'[a] = l /\ req'[a] = req[a]
  BY Arrives DEF KInv, SInv
<1> QED
  BY <1>1, TracedAfter

-----------------------------------------------------------------------------
(* The actions: Create. *)

LEMMA ReadKept ==
  ASSUME KInv, NEW a \in Actors, Works(a), faults' \in {faults, faults + 1}, ReadSecret(a),
         NEW n, n = req[a].name
  PROVE  KOwn(a, n)' /\ Traced(a)'
<1> DEFINE r == secrets[n]
           q == [req[a] EXCEPT !.rec = r]
           next == Entry(req[a].op, r.status)
<1>1. /\ pc[a] = "get" /\ Inside(a) /\ ~Admits(a) /\ ~Shows(a) /\ SameOwn(n)
      /\ a \notin stale'
  BY ReadWorks DEF ReadSecret, GetAgent, Ask, Inside, Admits, Shows, SameOwn, KInv
<1>2. req[a] \in Requests /\ r \in Records
  BY <1>1, AtWork DEF KInv, SInv, RInv
<1>3. CASE ReturnUnchanged(a)
  BY <1>1, <1>3, PlainOver DEF Over
<1>4. CASE next # "return" /\ Move(a, next, q)
  <2>1. pc'[a] = next /\ req'[a] = q
    BY <1>4 DEF Move, KInv, SInv, RInv, IInv, TypeOK
  <2>2. q.name = n /\ q.op = req[a].op
    BY <1>2 DEF Requests
  <2>3. /\ next \in {"lookup", "issue", "list", "delete", "upload"}
        /\ next = "issue" => req[a].op # "create"
        /\ req[a].op # "create" => r.status # "absent"
    BY <1>4 DEF Entry
  <2>4. ~Admits(a)' /\ ~Shows(a)' /\ secrets' = secrets
    BY <1>4, <2>1, <2>2, <2>3 DEF Admits, Shows, ReadSecret, GetAgent, Ask
  <2>5. KOwn(a, n)'
    BY <1>1, <2>4, PlainKeeps
  <2>6. req[a].op # "create" => secrets'[n] # NoSecret
    BY <2>3, <2>4 DEF NoSecret
  <2>7. Traced(a)'
    <3> HIDE DEF next, q
    <3> QED
      BY <1>1, <2>1, <2>2, <2>3, <2>6, TracedAfter DEF Undoing
  <2> QED
    BY <2>5, <2>7
<1> QED
  BY <1>3, <1>4 DEF ReadSecret, GetAgent, Ask

LEMMA LookupKept ==
  ASSUME KInv, NEW a \in Actors, Works(a), faults' \in {faults, faults + 1}, LookupUser(a),
         NEW n, n = req[a].name
  PROVE  KOwn(a, n)' /\ Traced(a)'
<1>1. /\ pc[a] = "lookup" /\ Inside(a) /\ ~Admits(a) /\ ~Shows(a) /\ SameOwn(n)
      /\ secrets' = secrets
  BY DEF LookupUser, Ask, Inside, Admits, Shows, SameOwn
<1>2. CASE ReturnUnchanged(a)
  BY <1>1, <1>2, PlainOver DEF Over
<1>3. CASE Goto(a, "admit")
  <2>1. Traced(a)' /\ pc'[a] = "admit"
    BY <1>1, <1>3, GoesTraced DEF Undoing
  <2> QED
    BY <1>1, <2>1, PlainKeeps DEF Admits, Shows
<1> QED
  BY <1>2, <1>3 DEF LookupUser, Ask

\* What is left of a call when its answer is not lost.
LEMMA AdmitKept ==
  ASSUME KInv, Answered, NEW a \in Actors, Works(a), faults' \in {faults, faults + 1},
         AdmitUser(a), NEW n, n = req[a].name
  PROVE  KOwn(a, n)' /\ Traced(a)'
<1>1. /\ pc[a] = "admit" /\ Inside(a) /\ ~Admits(a) /\ ~Shows(a) /\ req[a].op = "create"
      /\ KOwn(a, n) /\ faults \in Nat /\ n \in Names
  BY KOwnBefore, InsideIsSole DEF AdmitUser, Inside, Admits, Shows, KInv, SInv, RInv, IInv,
     TypeOK, ActorOK, InItsOp
<1>2. \/ SetUser(n, "active") /\ Goto(a, "issue")
      \/ UNCHANGED world /\ Return(a, FALSE)
  BY DEF AdmitUser, Call, KInv, Answered, Fault
<1>3. CASE SetUser(n, "active") /\ Goto(a, "issue")
  <2>1. users'[n] = "active" /\ secrets' = secrets /\ profile' = profile
    BY <1>1, <1>3 DEF SetUser, SameSecrets, KInv, SInv, RInv, IInv, TypeOK
  <2>2. Traced(a)' /\ pc'[a] = "issue" /\ req'[a] = req[a]
    BY <1>1, <1>3, <2>1, GoesTraced DEF Undoing
  <2> QED
    BY <1>1, <2>1, <2>2 DEF KOwn, Admits, Shows, Admitted, CanUndo
<1>4. CASE UNCHANGED world /\ Return(a, FALSE)
  BY <1>1, <1>4, PlainOver DEF world, SameOwn, Over
<1> QED
  BY <1>2, <1>3, <1>4

\* Create still has its account to close.
LEMMA CreateGoes ==
  ASSUME KInv, NEW a \in Actors, Works(a), faults' \in {faults, faults + 1}, Admits(a),
         NEW n, n = req[a].name, SameOwn(n),
         NEW l \in {"sync", "persist", "undoCreate", "undoUser"}, pc'[a] = l,
         req'[a].op = "create", req'[a].name = n,
         l \in {"sync", "persist"} => pc[a] \in {"issue", "sync", "persist"},
         l \in Undoing => faults' >= 1
  PROVE  KOwn(a, n)' /\ Traced(a)'
<1>1. Inside(a) /\ ~Shows(a) /\ KOwn(a, n) /\ faults \in Nat
  BY KOwnBefore DEF Admits, Inside, Shows, KInv, SInv, RInv, IInv, TypeOK
<1>2. Traced(a)'
  BY <1>1, TracedAfter DEF Admits
<1>3. KOwn(a, n)'
  BY <1>1 DEF KOwn, SameOwn, Admits, Shows, Admitted, CanUndo
<1> QED
  BY <1>2, <1>3

LEMMA IssueCreateKept ==
  ASSUME KInv, Answered, NEW a \in Actors, Works(a), faults' \in {faults, faults + 1},
         IssueForCreate(a), NEW n, n = req[a].name
  PROVE  KOwn(a, n)' /\ Traced(a)'
<1> DEFINE i == issued + 1
           q(token) == [req[a] EXCEPT !.ses = [id |-> i, token |-> token]]
<1>1. /\ pc[a] = "issue" /\ req[a].op = "create" /\ Admits(a) /\ Inside(a) /\ SameOwn(n)
  BY DEF IssueForCreate, Admits, Inside, SameOwn, Call, Issue, SameSecrets, world
<1>2. KOwn(a, n) /\ faults \in Nat /\ req[a] \in Requests
  BY <1>1, KOwnBefore, AtWork DEF KInv, SInv, RInv, IInv
<1>3. \A token : q(token).name = n /\ q(token).op = "create"
  BY <1>1, <1>2 DEF Requests
<1>4. \/ Move(a, "sync", q(i))
      \/ faults' = faults + 1 /\ (Goto(a, "undoUser") \/ Move(a, "undoCreate", q(0)))
      \/ users[n] # "active" /\ Goto(a, "undoUser")
  BY DEF IssueForCreate, Call, Fault, KInv, Answered
<1>5. users[n] # "active" => faults >= 2
  BY <1>1, <1>2 DEF KOwn, Admitted
<1> HIDE DEF q
<1>6. \/ pc'[a] = "sync" /\ req'[a] = q(i)
      \/ faults' >= 1 /\ pc'[a] = "undoUser" /\ req'[a] = req[a]
      \/ faults' >= 1 /\ pc'[a] = "undoCreate" /\ req'[a] = q(0)
  BY <1>2, <1>4, <1>5 DEF Goto, Move, KInv, SInv, RInv, IInv, TypeOK
<1> QED
  BY <1>1, <1>3, <1>6, CreateGoes DEF Undoing

\* The homeserver accepts the token of an account that is open.
LEMMA SyncKept ==
  ASSUME KInv, Answered, NEW a \in Actors, Works(a), faults' \in {faults, faults + 1},
         SyncProfile(a), NEW n, n = req[a].name
  PROVE  KOwn(a, n)' /\ Traced(a)'
<1>1. pc[a] = "sync" /\ Inside(a) /\ Holding(a) /\ SameOwn(n)
  BY DEF SyncProfile, Inside, SameOwn, Call, world, Holding
<1>2. req[a].op = "create" /\ Admits(a) /\ KOwn(a, n) /\ faults \in Nat
  BY <1>1, KOwnBefore DEF KInv, SInv, RInv, IInv, TypeOK, ActorOK, InItsOp, Admits
<1>3. [owner |-> n, id |-> req[a].ses.id, token |-> req[a].ses.token] \in live
  BY <1>1 DEF KInv, SInv, RInv, HandLive
<1>4. ~Accepted(n, req[a].ses.token) => faults >= 2
  BY <1>1, <1>2, <1>3 DEF KOwn, Admitted, Accepted, SessionsOf
<1>5. \/ Goto(a, "persist")
      \/ faults' = faults + 1 /\ Goto(a, "undoCreate")
      \/ ~Accepted(n, req[a].ses.token) /\ Goto(a, "undoCreate")
  BY DEF SyncProfile, Call, Fault, KInv, Answered
<1>6. /\ pc'[a] \in {"persist", "undoCreate"} /\ req'[a] = req[a]
      /\ pc'[a] = "undoCreate" => faults' >= 1
  BY <1>2, <1>4, <1>5, Arrives DEF KInv, SInv
<1> QED
  BY <1>1, <1>2, <1>6, CreateGoes DEF Undoing

LEMMA PersistCreatedKept ==
  ASSUME KInv, Answered, NEW a \in Actors, Works(a), faults' \in {faults, faults + 1},
         PersistCreated(a), NEW n, n = req[a].name
  PROVE  KOwn(a, n)' /\ Traced(a)'
<1> DEFINE r == [status |-> "active", sid |-> req[a].ses.id, token |-> req[a].ses.token,
                 gen |-> 1, avatar |-> NoAvatar]
<1>1. pc[a] = "persist" /\ req[a].op = "create" /\ Inside(a) /\ Admits(a)
  BY DEF PersistCreated, Inside, Admits
<1>2. secrets[n] = NoSecret /\ n \in Names /\ secrets \in [Names -> Records] /\ faults \in Nat
  BY <1>1, AtWork DEF KInv, SInv, RInv, IInv, TypeOK, ActorOK, Current
<1>3. \/ Put(a, n, r) /\ ReturnToken(a)
      \/ UNCHANGED world /\ faults' = faults + 1 /\ Goto(a, "undoCreate")
  BY <1>2 DEF PersistCreated, CreateAgent, Call, Fault, KInv, Answered
<1>4. CASE Put(a, n, r) /\ ReturnToken(a)
  <2>1. r # NoSecret /\ r.avatar = NoAvatar
    BY DEF NoSecret
  <2>2. secrets'[n] = r
    BY <1>2, <1>4 DEF Put
  <2> QED
    BY <1>4, <2>1, <2>2, OverKeeps DEF Over
<1>5. CASE UNCHANGED world /\ faults' = faults + 1 /\ Goto(a, "undoCreate")
  <2>1. SameOwn(n) /\ pc'[a] = "undoCreate" /\ req'[a] = req[a] /\ faults' >= 1
    BY <1>2, <1>5, Arrives DEF world, SameOwn, KInv, SInv
  <2> QED
    BY <1>1, <2>1, CreateGoes
<1> QED
  BY <1>3, <1>4, <1>5

LEMMA UndoCreateKept ==
  ASSUME KInv, Answered, NEW a \in Actors, Works(a), faults' \in {faults, faults + 1},
         UndoCreate(a), NEW n, n = req[a].name
  PROVE  KOwn(a, n)' /\ Traced(a)'
<1>1. /\ pc[a] \in {"undoCreate", "undoUser"} /\ Inside(a)
  BY DEF UndoCreate, Inside
<1>2. /\ n \in Names /\ faults \in Nat /\ faults >= 1 /\ Admits(a) /\ KOwn(a, n)
  BY <1>1, KOwnBefore, AtWork DEF KInv, SInv, RInv, IInv, TypeOK, ActorOK, InItsOp, Traced,
     Undoing, Admits
<1>3. CASE pc[a] = "undoCreate"
  <2>1. SameOwn(n) /\ Goto(a, "undoUser")
    BY <1>3 DEF UndoCreate, RevokePersonalSession, Call, SameOwn, SameSecrets, world
  <2>2. pc'[a] = "undoUser" /\ req'[a] = req[a] /\ faults' >= 1
    BY <1>2, <2>1, Arrives DEF KInv, SInv
  <2> QED
    BY <1>2, <2>1, <2>2, CreateGoes DEF Admits
<1>4. CASE pc[a] = "undoUser"
  <2>1. /\ Return(a, FALSE)
        /\ SetUser(n, "deactivated") \/ faults' = faults + 1
    BY <1>4 DEF UndoCreate, DeactivateMASUser, Call, Fault, KInv, Answered
  <2>2. SetUser(n, "deactivated") => /\ users'[n] # "active" /\ secrets' = secrets
                                     /\ profile' = profile
    BY <1>2 DEF SetUser, SameSecrets, KInv, SInv, RInv, IInv, TypeOK
  <2>3. faults' <= 1 => SetUser(n, "deactivated")
    BY <1>2, <2>1
  <2> QED
    <3>1. faults' <= 1 =>
            (secrets'[n].avatar # NoAvatar => profile'[n] = secrets'[n].avatar)
      BY <1>2, <1>4, <2>2, <2>3 DEF KOwn, Shows
    <3>2. faults' <= 1 => users'[n] # "active"
      BY <2>2, <2>3
    <3>3. Over(a)
      BY <2>1 DEF Over
    <3> QED
      BY <3>1, <3>2, <3>3, OverKeeps
<1> QED
  BY <1>1, <1>3, <1>4

-----------------------------------------------------------------------------
(* Rotate and Recover. *)

\* An operation other than Create and SetAvatar goes on.
LEMMA OtherGoes ==
  ASSUME KInv, NEW a \in Actors, Works(a), faults' \in {faults, faults + 1},
         NEW n, n = req[a].name, SameOwn(n), req[a].op \notin {"create", "avatar"},
         pc[a] \notin {"get", "clearGet", "purge"},
         NEW l, pc'[a] = l, req'[a].op = req[a].op, req'[a].name = n,
         l \in Undoing => faults' >= 1, l = "purge" => faults' >= 2
  PROVE  KOwn(a, n)' /\ Traced(a)'
<1>1. Inside(a) /\ ~Admits(a) /\ ~Shows(a) /\ ~Admits(a)' /\ ~Shows(a)'
  BY DEF Works, Admits, Shows
<1>2. Traced(a)'
  BY TracedAfter DEF SameOwn
<1> QED
  BY <1>1, <1>2, PlainKeeps

LEMMA OtherOver ==
  ASSUME KInv, NEW a \in Actors, Works(a), faults' \in {faults, faults + 1},
         NEW n, n = req[a].name, SameOwn(n), req[a].op \notin {"create", "avatar"}, Over(a)
  PROVE  KOwn(a, n)' /\ Traced(a)'
  BY PlainOver DEF Works, Admits, Shows

LEMMA IssueRotateKept ==
  ASSUME KInv, Answered, NEW a \in Actors, Works(a), faults' \in {faults, faults + 1},
         IssueForRotate(a), NEW n, n = req[a].name
  PROVE  KOwn(a, n)' /\ Traced(a)'
<1> DEFINE id == IF Regenerated(a) THEN req[a].rec.sid ELSE issued + 1
           q(token) == [req[a] EXCEPT !.ses = [id |-> id, token |-> token]]
<1>1. /\ pc[a] = "issue" /\ req[a].op \in {"rotate", "recover"} /\ Inside(a) /\ SameOwn(n)
  BY DEF IssueForRotate, Inside, SameOwn, Call, Issue, SameSecrets, world
<1>2. req[a] \in Requests /\ faults \in Nat
  BY <1>1, AtWork DEF KInv, SInv, RInv
<1>3. \A token : q(token).name = n /\ q(token).op = req[a].op
  BY <1>2 DEF Requests
<1>4. \/ Return(a, FALSE)
      \/ \E l \in {"persist", "revokeOld"} : Move(a, l, q(issued + 1))
      \/ /\ faults' = faults + 1
         /\ Goto(a, "clearGet") \/ \E l \in {"undoRotate", "undoNew"} : Move(a, l, q(0))
  BY DEF IssueForRotate, Call, Fault, KInv, Answered
<1> HIDE DEF q, id
<1>5. CASE Return(a, FALSE)
  BY <1>1, <1>5, OtherOver DEF Over
<1>6. CASE ~Return(a, FALSE)
  <2>1. \/ pc'[a] \in {"persist", "revokeOld"} /\ req'[a] = q(issued + 1)
        \/ faults' = faults + 1 /\ pc'[a] = "clearGet" /\ req'[a] = req[a]
        \/ faults' = faults + 1 /\ pc'[a] \in {"undoRotate", "undoNew"} /\ req'[a] = q(0)
    <3>1. pc \in [Actors -> Labels] /\ req \in [Actors -> Requests]
      BY DEF KInv, SInv, RInv, IInv, TypeOK
    <3> QED
      BY <1>4, <1>6, <3>1 DEF Goto, Move
  <2>2. req'[a].name = n /\ req'[a].op = req[a].op
    BY <1>3, <2>1
  <2>3. (pc'[a] \in Undoing => faults' >= 1) /\ pc'[a] # "purge"
    BY <1>2, <2>1 DEF Undoing
  <2> QED
    BY <1>1, <2>2, <2>3, OtherGoes
<1> QED
  BY <1>5, <1>6

LEMMA RevokeOldKept ==
  ASSUME KInv, Answered, NEW a \in Actors, Works(a), faults' \in {faults, faults + 1},
         RevokeOld(a), NEW n, n = req[a].name
  PROVE  KOwn(a, n)' /\ Traced(a)'
<1>1. /\ pc[a] = "revokeOld" /\ Inside(a) /\ SameOwn(n)
      /\ Goto(a, "persist") \/ Goto(a, "undoNew")
  BY DEF RevokeOld, RevokePersonalSession, Inside, SameOwn, Call, SameSecrets, world
<1>2. req[a].op \notin {"create", "avatar"}
  BY <1>1 DEF KInv, SInv, RInv, IInv, ActorOK, InItsOp
<1>3. pc'[a] \in {"persist", "undoNew"} /\ req'[a] = req[a]
  BY <1>1, Arrives DEF KInv, SInv
<1> QED
  BY <1>1, <1>2, <1>3, OtherGoes DEF Undoing

LEMMA UndoRotateKept ==
  ASSUME KInv, Answered, NEW a \in Actors, Works(a), faults' \in {faults, faults + 1},
         UndoRotate(a), NEW n, n = req[a].name
  PROVE  KOwn(a, n)' /\ Traced(a)'
<1>1. /\ pc[a] \in {"undoNew", "undoRotate"} /\ Inside(a) /\ SameOwn(n)
      /\ Return(a, FALSE) \/ (pc[a] = "undoRotate" /\ Goto(a, "clearGet"))
  BY DEF UndoRotate, RevokePersonalSession, Inside, SameOwn, Call, SameSecrets, world
<1>2. req[a].op \notin {"create", "avatar"} /\ faults \in Nat /\ Traced(a)
  BY <1>1 DEF KInv, SInv, RInv, IInv, TypeOK, ActorOK, InItsOp
<1>3. CASE Return(a, FALSE)
  BY <1>1, <1>2, <1>3, OtherOver DEF Over
<1>4. CASE pc[a] = "undoRotate" /\ Goto(a, "clearGet")
  <2>1. pc'[a] = "clearGet" /\ req'[a] = req[a] /\ faults' >= 1
    BY <1>2, <1>4, Arrives DEF KInv, SInv, Traced, Undoing
  <2> QED
    BY <1>1, <1>2, <2>1, OtherGoes
<1> QED
  BY <1>1, <1>3, <1>4

\* The Secret that Rotate writes keeps the avatar it read.
LEMMA PersistRotatedKept ==
  ASSUME KInv, Answered, NEW a \in Actors, Works(a), faults' \in {faults, faults + 1},
         PersistRotated(a), NEW n, n = req[a].name
  PROVE  KOwn(a, n)' /\ Traced(a)'
<1> DEFINE r == Rotated(a)
<1>1. pc[a] = "persist" /\ req[a].op \in {"rotate", "recover"} /\ Inside(a)
  BY DEF PersistRotated, Inside
<1>2. /\ n \in Names /\ secrets \in [Names -> Records] /\ faults \in Nat
      /\ req[a].rec = secrets[n] /\ req[a].rec \in Records /\ secrets[n] # NoSecret
      /\ a \in stale => faults >= 1
  BY <1>1, AtWork DEF KInv, SInv, RInv, IInv, TypeOK, ActorOK, Current, Traced
<1>3. KOwn(a, n) /\ ~Admits(a) /\ ~Shows(a)
  BY <1>1, KOwnBefore DEF Admits, Shows
<1>4. \/ Put(a, n, r) /\ ReturnToken(a)
      \/ UNCHANGED world /\ Return(a, FALSE)
      \/ /\ UNCHANGED world /\ (a \in stale \/ faults' = faults + 1)
         /\ Goto(a, "undoRotate")
  BY <1>2 DEF PersistRotated, UpdateAgent, Call, Fault, KInv, Answered
<1>5. CASE Put(a, n, r) /\ ReturnToken(a)
  <2>1. r.status = "active" /\ r.avatar = secrets[n].avatar
    BY <1>2, Zenon DEF Rotated, Records
  <2>2. secrets'[n] = r /\ profile' = profile
    BY <1>2, <1>5 DEF Put
  <2>3. r # NoSecret
    BY <2>1 DEF NoSecret
  <2> HIDE DEF r
  <2> QED
    BY <1>2, <1>3, <1>5, <2>1, <2>2, <2>3, OverKeeps DEF Over, KOwn
<1>6. CASE UNCHANGED world /\ Return(a, FALSE)
  BY <1>1, <1>6, OtherOver DEF world, SameOwn, Over
<1>7. CASE UNCHANGED world /\ (a \in stale \/ faults' = faults + 1) /\ Goto(a, "undoRotate")
  <2>1. pc'[a] = "undoRotate" /\ req'[a] = req[a] /\ faults' >= 1 /\ SameOwn(n)
    BY <1>2, <1>7, Arrives DEF KInv, SInv, world, SameOwn
  <2> QED
    BY <1>1, <2>1, OtherGoes
<1> QED
  BY <1>4, <1>5, <1>6, <1>7

-----------------------------------------------------------------------------
(* Revoke, Deactivate, Remove. *)

LEMMA ListKept ==
  ASSUME KInv, NEW a \in Actors, Works(a), faults' \in {faults, faults + 1},
         ListSessions(a), NEW n, n = req[a].name
  PROVE  KOwn(a, n)' /\ Traced(a)'
<1> DEFINE q == [req[a] EXCEPT !.todo = {s.id : s \in SessionsOf(n)}]
<1>1. pc[a] = "list" /\ Inside(a) /\ SameOwn(n)
  BY DEF ListSessions, Ask, Inside, SameOwn
<1>2. req[a] \in Requests /\ req[a].op \notin {"create", "avatar"}
  BY <1>1, AtWork DEF KInv, SInv, RInv, ActorOK, InItsOp
<1>3. q.name = n /\ q.op = req[a].op
  BY <1>2 DEF Requests
<1>4. \/ ReturnUnchanged(a)
      \/ \E l \in {"persist", "deactivate", "revokeEach"} : Move(a, l, q)
  BY DEF ListSessions, Ask, AfterRevoke
<1> HIDE DEF q
<1>5. CASE ReturnUnchanged(a)
  BY <1>1, <1>2, <1>5, OtherOver DEF Over
<1>6. CASE \E l \in {"persist", "deactivate", "revokeEach"} : Move(a, l, q)
  <2>1. pc'[a] \in {"persist", "deactivate", "revokeEach"} /\ req'[a] = q
    BY <1>6 DEF Move, KInv, SInv, RInv, IInv, TypeOK
  <2> QED
    BY <1>1, <1>2, <1>3, <2>1, OtherGoes DEF Undoing
<1> QED
  BY <1>4, <1>5, <1>6

LEMMA RevokeEachKept ==
  ASSUME KInv, NEW a \in Actors, Works(a), faults' \in {faults, faults + 1},
         RevokeEach(a), NEW n, n = req[a].name
  PROVE  KOwn(a, n)' /\ Traced(a)'
<1>1. PICK id \in req[a].todo :
        LET rest == req[a].todo \ {id}
        IN  RevokePersonalSession(a, id,
                Move(a, IF rest = {} THEN AfterRevoke(req[a].op) ELSE "revokeEach",
                     [req[a] EXCEPT !.todo = rest]),
                Return(a, FALSE))
  BY DEF RevokeEach
<1> DEFINE q == [req[a] EXCEPT !.todo = req[a].todo \ {id}]
<1>2. pc[a] = "revokeEach" /\ Inside(a) /\ SameOwn(n)
  BY <1>1 DEF RevokeEach, RevokePersonalSession, Call, Inside, SameOwn, SameSecrets, world
<1>3. req[a] \in Requests /\ req[a].op \notin {"create", "avatar"}
  BY <1>2, AtWork DEF KInv, SInv, RInv, ActorOK, InItsOp
<1>4. q.name = n /\ q.op = req[a].op
  BY <1>3 DEF Requests
<1>5. \/ Return(a, FALSE)
      \/ \E l \in {"persist", "deactivate", "revokeEach"} : Move(a, l, q)
  BY <1>1 DEF RevokePersonalSession, Call, AfterRevoke
<1> HIDE DEF q
<1>6. CASE Return(a, FALSE)
  BY <1>2, <1>3, <1>6, OtherOver DEF Over
<1>7. CASE \E l \in {"persist", "deactivate", "revokeEach"} : Move(a, l, q)
  <2>1. pc'[a] \in {"persist", "deactivate", "revokeEach"} /\ req'[a] = q
    BY <1>7 DEF Move, KInv, SInv, RInv, IInv, TypeOK
  <2> QED
    BY <1>2, <1>3, <1>4, <2>1, OtherGoes DEF Undoing
<1> QED
  BY <1>5, <1>6, <1>7

LEMMA DeactivateKept ==
  ASSUME KInv, Answered, NEW a \in Actors, Works(a), faults' \in {faults, faults + 1},
         DeactivateUser(a), NEW n, n = req[a].name
  PROVE  KOwn(a, n)' /\ Traced(a)'
<1>1. pc[a] = "deactivate" /\ Inside(a)
  BY DEF DeactivateUser, Inside
<1>2. /\ req[a].op \in {"deactivate", "remove"} /\ n \in Names /\ faults \in Nat
      /\ users \in [Names -> Accounts]
  BY <1>1, AtWork DEF KInv, SInv, RInv, IInv, TypeOK, ActorOK, InItsOp
<1>3. KOwn(a, n) /\ ~Admits(a) /\ ~Shows(a)
  BY <1>1, KOwnBefore DEF Admits, Shows
<1>4. \/ SetUser(n, "deactivated") /\ (Goto(a, "delete") \/ Goto(a, "persist"))
      \/ UNCHANGED world /\ Return(a, FALSE)
  BY DEF DeactivateUser, DeactivateMASUser, Call, Fault, KInv, Answered
<1>5. CASE SetUser(n, "deactivated") /\ (Goto(a, "delete") \/ Goto(a, "persist"))
  <2>1. users'[n] = "deactivated" /\ secrets' = secrets /\ profile' = profile
    BY <1>2, <1>5 DEF SetUser, SameSecrets
  <2>2. pc'[a] \in {"delete", "persist"} /\ req'[a] = req[a]
    BY <1>5, Arrives DEF KInv, SInv
  <2>3. Traced(a)'
    BY <1>1, <1>2, <2>1, <2>2, TracedAfter DEF Undoing
  <2>4. KOwn(a, n)'
    BY <1>2, <1>3, <2>1, <2>2 DEF KOwn, Admits, Shows, Admitted, CanUndo
  <2> QED
    BY <2>3, <2>4
<1>6. CASE UNCHANGED world /\ Return(a, FALSE)
  BY <1>1, <1>3, <1>6, PlainOver DEF world, SameOwn, Over
<1> QED
  BY <1>4, <1>5, <1>6

\* A Secret that is written without its token keeps its avatar.
LEMMA ClearedKeeps ==
  ASSUME KInv, NEW a \in Actors, Inside(a), NEW n, n = req[a].name, ~Admits(a), ~Shows(a),
         faults' \in {faults, faults + 1}, req[a].rec = secrets[n],
         Put(a, n, Cleared(req[a].rec, FinalStatus(req[a].op))), Over(a)
  PROVE  KOwn(a, n)' /\ Traced(a)'
<1> DEFINE r == Cleared(req[a].rec, FinalStatus(req[a].op))
<1>1. n \in Names /\ secrets \in [Names -> Records] /\ secrets[n] \in Records /\ faults \in Nat
  BY AtWork DEF KInv, SInv, RInv, IInv, TypeOK
<1>2. r.status \in {"deactivated", "revoked"} /\ r.avatar = secrets[n].avatar
  BY <1>1, Zenon DEF Cleared, FinalStatus, Records
<1>3. secrets'[n] = r /\ profile' = profile
  BY <1>1 DEF Put
<1>4. r # NoSecret
  BY <1>2 DEF NoSecret
<1>5. KOwn(a, n)
  BY KOwnBefore
<1> HIDE DEF r
<1> QED
  BY <1>1, <1>2, <1>3, <1>4, <1>5, OverKeeps DEF KOwn

LEMMA PersistClearedKept ==
  ASSUME KInv, Answered, NEW a \in Actors, Works(a), faults' \in {faults, faults + 1},
         PersistCleared(a), NEW n, n = req[a].name
  PROVE  KOwn(a, n)' /\ Traced(a)'
<1>1. /\ pc[a] = "persist" /\ req[a].op \in {"revoke", "deactivate"} /\ Inside(a)
      /\ ~Admits(a) /\ ~Shows(a)
  BY DEF PersistCleared, Inside, Admits, Shows
<1>2. /\ faults \in Nat /\ req[a].rec = secrets[n] /\ secrets[n] # NoSecret
      /\ a \in stale => faults >= 1
  BY <1>1 DEF KInv, SInv, RInv, IInv, TypeOK, ActorOK, Current, Traced
<1>3. \/ /\ Put(a, n, Cleared(req[a].rec, FinalStatus(req[a].op)))
         /\ Return(a, TRUE)
      \/ /\ UNCHANGED world /\ (a \in stale \/ faults' = faults + 1)
         /\ Goto(a, "clearGet")
  BY <1>2 DEF PersistCleared, UpdateAgent, Call, Fault, KInv, Answered
<1>4. CASE /\ UNCHANGED world /\ (a \in stale \/ faults' = faults + 1)
           /\ Goto(a, "clearGet")
  <2>1. pc'[a] = "clearGet" /\ req'[a] = req[a] /\ faults' >= 1 /\ SameOwn(n)
    BY <1>2, <1>4, Arrives DEF KInv, SInv, world, SameOwn
  <2> QED
    BY <1>1, <2>1, OtherGoes
<1> QED
  BY <1>1, <1>2, <1>3, <1>4, ClearedKeeps DEF Over

\* Remove deletes the Secret of an account that is closed.
LEMMA DeleteKept ==
  ASSUME KInv, Answered, NEW a \in Actors, Works(a), faults' \in {faults, faults + 1},
         DeleteSecret(a), NEW n, n = req[a].name
  PROVE  KOwn(a, n)' /\ Traced(a)'
<1>1. pc[a] = "delete" /\ Inside(a)
  BY DEF DeleteSecret, Inside
<1>2. /\ req[a].op = "remove" /\ n \in Names /\ faults \in Nat /\ secrets[n] # NoSecret
      /\ secrets \in [Names -> Records] /\ users[n] = "deactivated"
  BY <1>1, AtWork DEF KInv, SInv, RInv, IInv, TypeOK, ActorOK, InItsOp, Revoked, Traced
<1>3. \/ Put(a, n, NoSecret) /\ Return(a, TRUE)
      \/ UNCHANGED world /\ Return(a, FALSE)
      \/ UNCHANGED world /\ faults' = faults + 1 /\ Goto(a, "clearGet")
  BY <1>2 DEF DeleteSecret, DeleteAgent, Call, Fault, KInv, Answered
<1>4. CASE Put(a, n, NoSecret) /\ Return(a, TRUE)
  <2>1. users'[n] = "deactivated" /\ secrets'[n] = NoSecret /\ NoSecret.avatar = NoAvatar
    BY <1>2, <1>4 DEF Put, NoSecret
  <2> QED
    BY <1>4, <2>1, OverKeeps DEF Over
<1>5. CASE UNCHANGED world /\ Return(a, FALSE)
  BY <1>2, <1>5, OtherOver DEF world, SameOwn, Over
<1>6. CASE UNCHANGED world /\ faults' = faults + 1 /\ Goto(a, "clearGet")
  <2>1. pc'[a] = "clearGet" /\ req'[a] = req[a] /\ faults' >= 1 /\ SameOwn(n)
    BY <1>2, <1>6, Arrives DEF KInv, SInv, world, SameOwn
  <2> QED
    BY <1>1, <1>2, <2>1, OtherGoes
<1> QED
  BY <1>3, <1>4, <1>5, <1>6

LEMMA ClearReadKept ==
  ASSUME KInv, Answered, NEW a \in Actors, Works(a), faults' \in {faults, faults + 1},
         ClearRead(a), NEW n, n = req[a].name
  PROVE  KOwn(a, n)' /\ Traced(a)'
<1> DEFINE q == [req[a] EXCEPT !.rec = secrets[n]]
<1>1. /\ pc[a] = "clearGet" /\ Inside(a) /\ a \notin stale' /\ SameOwn(n)
      /\ secrets' = secrets /\ ~Admits(a) /\ ~Shows(a)
  BY ReadWorks DEF KInv, ClearRead, GetAgent, Ask, Inside, SameOwn, Admits, Shows
<1>2. req[a] \in Requests /\ faults \in Nat /\ faults >= 1
  BY <1>1, AtWork DEF KInv, SInv, RInv, Traced, Undoing
<1>3. q.name = n /\ q.op = req[a].op
  BY <1>2 DEF Requests
<1>4. \/ Return(a, FALSE)
      \/ faults' = faults + 1 /\ Goto(a, "purge")
      \/ secrets[n] # NoSecret /\ Move(a, "clearPut", q)
  BY DEF ClearRead, GetAgent, Ask, ClearFailed, Fault, KInv
<1> HIDE DEF q
<1>5. CASE Return(a, FALSE)
  BY <1>1, <1>5, PlainOver DEF Over
<1>6. CASE faults' = faults + 1 /\ Goto(a, "purge")
  <2>1. pc'[a] = "purge" /\ req'[a] = req[a] /\ faults' >= 2
    BY <1>2, <1>6, Arrives DEF KInv, SInv
  <2>2. Traced(a)'
    BY <1>1, <2>1, TracedAfter DEF Undoing
  <2> QED
    BY <1>1, <2>1, <2>2, PlainKeeps DEF Admits, Shows
<1>7. CASE secrets[n] # NoSecret /\ Move(a, "clearPut", q)
  <2>1. pc'[a] = "clearPut" /\ req'[a] = q /\ faults' >= 1
    BY <1>2, <1>7 DEF Move, KInv, SInv, RInv, IInv, TypeOK
  <2>2. Traced(a)'
    BY <1>1, <1>3, <1>7, <2>1, TracedAfter
  <2> QED
    BY <1>1, <2>1, <2>2, PlainKeeps DEF Admits, Shows
<1> QED
  BY <1>4, <1>5, <1>6, <1>7

\* A token that cannot be cleared has met with a second failure.
LEMMA ClearWriteKept ==
  ASSUME KInv, Answered, NEW a \in Actors, Works(a), faults' \in {faults, faults + 1},
         ClearWrite(a), NEW n, n = req[a].name
  PROVE  KOwn(a, n)' /\ Traced(a)'
<1> DEFINE q == [req[a] EXCEPT !.tries = @ + 1]
<1>1. pc[a] = "clearPut" /\ Inside(a) /\ ~Admits(a) /\ ~Shows(a)
  BY DEF ClearWrite, Inside, Admits, Shows
<1>2. /\ req[a] \in Requests /\ faults \in Nat /\ req[a].op \notin {"create", "avatar"}
      /\ faults >= 1 /\ (a \in stale => faults >= 2)
      /\ req[a].rec = secrets[n] /\ secrets[n] # NoSecret
  BY <1>1, AtWork DEF KInv, SInv, RInv, ActorOK, InItsOp, Current, Traced, Undoing
<1>3. q.name = n /\ q.op = req[a].op
  BY <1>2 DEF Requests
<1>4. \/ /\ Put(a, n, Cleared(req[a].rec, FinalStatus(req[a].op)))
         /\ Return(a, FALSE)
      \/ UNCHANGED world /\ Return(a, FALSE)
      \/ /\ UNCHANGED world /\ faults' >= 2
         /\ Goto(a, "purge") \/ Move(a, "clearGet", q)
  <2>1. \/ /\ Put(a, n, Cleared(req[a].rec, FinalStatus(req[a].op)))
           /\ Return(a, FALSE)
        \/ /\ UNCHANGED world /\ (a \in stale \/ faults' = faults + 1)
           /\ ClearFailed(a) \/ Move(a, "clearGet", q)
    BY <1>2 DEF ClearWrite, UpdateAgent, Call, Fault, KInv, Answered
  <2>2. a \in stale \/ faults' = faults + 1 => faults' >= 2
    BY <1>2
  <2>3. ClearFailed(a) => Goto(a, "purge") \/ Return(a, FALSE)
    BY DEF ClearFailed
  <2> HIDE DEF q
  <2> QED
    BY <2>1, <2>2, <2>3, Zenon
<1> HIDE DEF q
<1>5. CASE UNCHANGED world /\ Return(a, FALSE)
  BY <1>2, <1>5, OtherOver DEF world, SameOwn, Over
<1>6. CASE /\ UNCHANGED world /\ faults' >= 2
           /\ Goto(a, "purge") \/ Move(a, "clearGet", q)
  <2>1. pc'[a] \in {"purge", "clearGet"} /\ (req'[a] = req[a] \/ req'[a] = q) /\ SameOwn(n)
    BY <1>6 DEF Goto, Move, KInv, SInv, RInv, IInv, TypeOK, world, SameOwn
  <2>2. req'[a].name = n /\ req'[a].op = req[a].op /\ faults' >= 1
    BY <1>2, <1>3, <1>6, <2>1
  <2> QED
    BY <1>1, <1>2, <1>6, <2>1, <2>2, OtherGoes
<1> QED
  BY <1>1, <1>2, <1>4, <1>5, <1>6, ClearedKeeps DEF Over

LEMMA PurgeKept ==
  ASSUME KInv, NEW a \in Actors, faults' \in {faults, faults + 1},
         Purge(a), NEW n, n = req[a].name
  PROVE  KOwn(a, n)' /\ Traced(a)'
<1>1. Return(a, FALSE) /\ pc[a] = "purge"
  BY DEF Purge, DeleteAgent, Call
<1>2. faults \in Nat /\ faults >= 2
  BY <1>1 DEF KInv, SInv, RInv, IInv, TypeOK, Traced
<1>3. ~(faults' <= 1)
  BY <1>2
<1>4. Over(a)
  BY <1>1 DEF Over
<1> QED
  BY <1>3, <1>4, OverKeeps

-----------------------------------------------------------------------------
(* SetAvatar. *)

LEMMA UploadKept ==
  ASSUME KInv, NEW a \in Actors, Works(a), faults' \in {faults, faults + 1},
         UploadAvatar(a), NEW n, n = req[a].name
  PROVE  KOwn(a, n)' /\ Traced(a)'
<1> DEFINE q(uri) == [req[a] EXCEPT !.uri = uri]
<1>1. /\ pc[a] = "upload" /\ Inside(a) /\ SameOwn(n) /\ ~Admits(a) /\ ~Shows(a)
  BY DEF UploadAvatar, Call, Inside, SameOwn, world, Admits, Shows
<1>2. req[a] \in Requests
  BY <1>1, AtWork DEF KInv, SInv, RInv
<1>3. \A uri : q(uri).name = n /\ q(uri).op = req[a].op
  BY <1>2 DEF Requests
<1>4. ReturnUnchanged(a) \/ \E uri \in Avatars : Move(a, "setAvatar", q(uri))
  BY Zenon DEF UploadAvatar, Call
<1> HIDE DEF q
<1>5. CASE ReturnUnchanged(a)
  BY <1>1, <1>5, PlainOver DEF Over
<1>6. ASSUME NEW uri \in Avatars, Move(a, "setAvatar", q(uri))
      PROVE  KOwn(a, n)' /\ Traced(a)'
  <2>1. pc'[a] = "setAvatar" /\ req'[a] = q(uri)
    BY <1>6 DEF Move, KInv, SInv, RInv, IInv, TypeOK
  <2>2. Traced(a)'
    BY <1>1, <1>3, <2>1, TracedAfter DEF SameOwn, Undoing
  <2> QED
    BY <1>1, <2>1, <2>2, PlainKeeps DEF Admits, Shows
<1> QED
  BY <1>4, <1>5, <1>6

\* The homeserver that took the new picture will take the old one again.
LEMMA SetAvatarKept ==
  ASSUME KInv, Answered, NEW a \in Actors, Works(a), faults' \in {faults, faults + 1},
         SetAvatarURL(a), NEW n, n = req[a].name
  PROVE  KOwn(a, n)' /\ Traced(a)'
<1>1. pc[a] = "setAvatar" /\ Inside(a) /\ ~Admits(a) /\ ~Shows(a)
  BY DEF SetAvatarURL, Inside, Admits, Shows
<1>2. /\ n \in Names /\ faults \in Nat /\ req[a].op = "avatar" /\ req[a].rec = secrets[n]
      /\ profile \in [Names -> Images] /\ KOwn(a, n)
  BY <1>1, AtWork, KOwnBefore DEF KInv, SInv, RInv, IInv, TypeOK, ActorOK, InItsOp, Current
<1>3. \/ /\ Accepted(n, req[a].rec.token) /\ profile' = [profile EXCEPT ![n] = req[a].uri]
         /\ SameMAS /\ SameSecrets /\ Goto(a, "persist")
      \/ UNCHANGED world /\ Return(a, FALSE)
  BY DEF SetAvatarURL, SetProfile, Call, Fault, KInv, Answered
<1>4. CASE /\ Accepted(n, req[a].rec.token) /\ profile' = [profile EXCEPT ![n] = req[a].uri]
           /\ SameMAS /\ SameSecrets /\ Goto(a, "persist")
  <2>1. pc'[a] = "persist" /\ req'[a] = req[a] /\ profile'[n] = req[a].uri
    BY <1>2, <1>4, Arrives DEF KInv, SInv
  <2>2. secrets' = secrets /\ users' = users /\ live' = live
    BY <1>4 DEF SameMAS, SameSecrets
  <2>3. Traced(a)'
    BY <1>1, <2>1, <2>2, TracedAfter DEF Undoing
  <2>4. Accepted(n, req[a].rec.token)'
    BY <1>4, <2>1, <2>2 DEF Accepted, SessionsOf
  <2>5. Shows(a)' /\ ~Admits(a)' /\ CanUndo(a)' /\ Admitted(a)'
    BY <1>2, <2>1, <2>2, <2>4 DEF Shows, Admits, CanUndo, Admitted
  <2> QED
    BY <1>1, <1>2, <2>2, <2>3, <2>5 DEF KOwn
<1>5. CASE UNCHANGED world /\ Return(a, FALSE)
  BY <1>1, <1>5, PlainOver DEF world, SameOwn, Over
<1> QED
  BY <1>3, <1>4, <1>5

LEMMA PersistAvatarKept ==
  ASSUME KInv, Answered, NEW a \in Actors, Works(a), faults' \in {faults, faults + 1},
         PersistAvatar(a), NEW n, n = req[a].name
  PROVE  KOwn(a, n)' /\ Traced(a)'
<1> DEFINE r == [req[a].rec EXCEPT !.avatar = req[a].uri]
<1>1. pc[a] = "persist" /\ req[a].op = "avatar" /\ Inside(a) /\ Shows(a) /\ ~Admits(a)
  BY DEF PersistAvatar, Inside, Shows, Admits
<1>2. /\ n \in Names /\ faults \in Nat /\ secrets \in [Names -> Records]
      /\ req[a].rec = secrets[n] /\ req[a].rec \in Records /\ req[a].rec.status = "active"
      /\ secrets[n] # NoSecret /\ (a \in stale => faults >= 1) /\ KOwn(a, n)
  BY <1>1, AtWork, KOwnBefore DEF KInv, SInv, RInv, IInv, TypeOK, ActorOK, Current, Traced
<1>3. \/ Put(a, n, r) /\ Return(a, TRUE)
      \/ /\ UNCHANGED world /\ (a \in stale \/ faults' = faults + 1)
         /\ Goto(a, "undoAvatar")
  BY <1>2 DEF PersistAvatar, UpdateAgent, Call, Fault, KInv, Answered
<1>4. CASE Put(a, n, r) /\ Return(a, TRUE)
  <2>1. r.status = "active" /\ r.avatar = req[a].uri
    BY <1>2, Zenon DEF Records
  <2>2. secrets'[n] = r /\ profile' = profile
    BY <1>2, <1>4 DEF Put
  <2>3. r # NoSecret
    BY <2>1 DEF NoSecret
  <2> HIDE DEF r
  <2>4. faults' <= 1 => profile'[n] = secrets'[n].avatar
    BY <1>1, <1>2, <2>1, <2>2 DEF KOwn, CanUndo
  <2> QED
    BY <1>4, <2>2, <2>3, <2>4, OverKeeps DEF Over
<1>5. CASE /\ UNCHANGED world /\ (a \in stale \/ faults' = faults + 1)
           /\ Goto(a, "undoAvatar")
  <2>1. pc'[a] = "undoAvatar" /\ req'[a] = req[a] /\ faults' >= 1
    BY <1>2, <1>5, Arrives DEF KInv, SInv
  <2>2. secrets' = secrets /\ users' = users /\ live' = live /\ profile' = profile
    BY <1>5 DEF world
  <2>3. Traced(a)'
    BY <1>1, <1>2, <2>1, <2>2, TracedAfter DEF Undoing
  <2>4. Accepted(n, req[a].rec.token) => Accepted(n, req[a].rec.token)'
    BY <2>1, <2>2 DEF Accepted, SessionsOf
  <2>5. faults' <= 1 => CanUndo(a)'
    BY <1>1, <1>2, <2>1, <2>2, <2>4 DEF KOwn, Shows, CanUndo
  <2>6. Shows(a)' /\ ~Admits(a)' /\ Admitted(a)'
    BY <1>1, <2>1 DEF Shows, Admits, Admitted
  <2> QED
    BY <1>1, <1>2, <2>2, <2>3, <2>5, <2>6 DEF KOwn
<1> QED
  BY <1>3, <1>4, <1>5

LEMMA UndoAvatarKept ==
  ASSUME KInv, Answered, NEW a \in Actors, Works(a), faults' \in {faults, faults + 1},
         UndoAvatar(a), NEW n, n = req[a].name
  PROVE  KOwn(a, n)' /\ Traced(a)'
<1>1. pc[a] = "undoAvatar" /\ Inside(a) /\ Over(a)
  BY DEF UndoAvatar, SetProfile, Call, Inside, Over
<1>2. /\ n \in Names /\ faults \in Nat /\ faults >= 1 /\ profile \in [Names -> Images]
      /\ Shows(a) /\ ~Admits(a) /\ KOwn(a, n)
  BY <1>1, AtWork, KOwnBefore DEF KInv, SInv, RInv, IInv, TypeOK, ActorOK, InItsOp, Traced,
     Undoing, Shows, Admits
<1>3. faults' <= 1 => /\ profile' = [profile EXCEPT ![n] = req[a].rec.avatar]
                      /\ SameMAS /\ SameSecrets
  <2>1. \/ /\ profile' = [profile EXCEPT ![n] = req[a].rec.avatar]
           /\ SameMAS /\ SameSecrets
        \/ faults' = faults + 1
        \/ ~Accepted(n, req[a].rec.token) /\ faults' = faults
    BY DEF UndoAvatar, SetProfile, Call, NoFault, Fault, KInv, Answered
  <2>2. faults <= 1 => Accepted(n, req[a].rec.token)
    BY <1>2 DEF KOwn, CanUndo
  <2> QED
    BY <1>2, <2>1, <2>2
<1>4. faults' <= 1 => /\ users'[n] = "active" => secrets'[n] # NoSecret
                      /\ profile'[n] = secrets'[n].avatar
  BY <1>2, <1>3 DEF SameMAS, SameSecrets, KOwn, CanUndo
<1> QED
  BY <1>1, <1>4, OverKeeps

-----------------------------------------------------------------------------
(* Steps outside the mutex, and edits of a Secret. *)

Early == {"idle", "lock", "check", "get"}

\* The operations at work are where they were, and a copy that turned stale is a failure.
Around ==
    /\ UNCHANGED <<users, live, profile, secrets>> /\ late' = {}
    /\ faults' \in {faults, faults + 1}
    /\ \A b \in Actors : \/ pc'[b] = pc[b] /\ req'[b] = req[b]
                         \/ {pc[b], pc'[b]} \subseteq Early
    /\ \A b \in Actors : b \in stale' => \/ b \in stale
                                         \/ "edit" \in Faults /\ faults' = faults + 1

LEMMA AroundKeeps ==
  ASSUME KInv, SInv', Around
  PROVE  KInv'
<1>1. faults \in Nat
  BY DEF KInv, SInv, RInv, IInv, TypeOK
<1>2. \A b \in Actors : /\ Admits(b)' = Admits(b) /\ Shows(b)' = Shows(b)
                        /\ Admits(b) \/ Shows(b) => pc'[b] = pc[b] /\ req'[b] = req[b]
  BY DEF Around, Admits, Shows, Early
<1>3. ASSUME NEW b \in Actors PROVE Traced(b)'
  <2>1. CASE pc'[b] \in Early
    BY <2>1 DEF Traced, Inside, Early, Undoing
  <2>2. CASE pc'[b] \notin Early
    <3>1. pc'[b] = pc[b] /\ req'[b] = req[b] /\ secrets' = secrets /\ Traced(b)
      BY <2>2 DEF Around, KInv
    <3>2. \/ b \in stale' => b \in stale
          \/ "edit" \in Faults /\ faults' = faults + 1
      BY DEF Around
    <3> QED
      BY <1>1, <3>1, <3>2 DEF Around, Traced, Inside, Undoing
  <2> QED
    BY <2>1, <2>2
<1>4. ASSUME faults' <= 1, NEW n \in Names PROVE Managed(n)' /\ Pictured(n)'
  <2>1. Managed(n) /\ Pictured(n)
    BY <1>1, <1>4 DEF Around, KInv
  <2> QED
    BY <1>2, <2>1 DEF Around, Managed, Pictured, Admits, Shows
<1>5. ASSUME faults' <= 1, NEW b \in Actors PROVE Admitted(b)' /\ CanUndo(b)'
  <2>1. Admitted(b) /\ CanUndo(b)
    BY <1>1, <1>5 DEF Around, KInv
  <2>2. \A n, t : Accepted(n, t)' <=> Accepted(n, t)
    BY DEF Around, Accepted, SessionsOf
  <2> QED
    BY <1>2, <2>1, <2>2 DEF Around, Admitted, CanUndo
<1> QED
  BY <1>3, <1>4, <1>5 DEF KInv, Around

LEMMA EnvironmentAround ==
  ASSUME KInv, Answered,
         \/ \E a \in Actors : Start(a) \/ Acquire(a) \/ CheckDevice(a)
         \/ Environment \/ UNCHANGED vars
  PROVE  Around
<1>1. TypeOK /\ late = {}
  BY DEF KInv, SInv, RInv, IInv
<1>2. ASSUME NEW a \in Actors, Start(a) PROVE Around
  <2>1. PICK r : Move(a, "lock", r)
    BY <1>2 DEF Start
  <2> QED
    BY <1>1, <1>2, <2>1 DEF Start, Move, NoFault, world, Around, Early, TypeOK
<1>3. ASSUME NEW a \in Actors, Acquire(a) PROVE Around
  BY <1>1, <1>3 DEF Acquire, NoFault, world, Around, Early, TypeOK
<1>4. ASSUME NEW a \in Actors, CheckDevice(a) PROVE Around
  BY <1>1, <1>4 DEF CheckDevice, Goto, Move, NoFault, world, Around, Early, TypeOK
<1>5. ~(\E a \in Actors : Expire(a)) /\ ~Crash
  BY DEF Expire, Crash, Fault, Answered
<1>6. ASSUME NEW n \in Names, EditSecret(n) PROVE Around
  BY <1>1, <1>6 DEF EditSecret, Fault, process, Around
<1>7. CASE UNCHANGED vars
  BY <1>1, <1>7 DEF vars, Around
<1> QED
  BY <1>2, <1>3, <1>4, <1>5, <1>6, <1>7 DEF Environment

-----------------------------------------------------------------------------
(* The theorems about accounts and avatars. *)

LEMMA RunKept ==
  ASSUME KInv, Answered, NEW a \in Actors, Works(a), faults' \in {faults, faults + 1}, Run(a),
         ~CheckDevice(a), NEW n, n = req[a].name
  PROVE  KOwn(a, n)' /\ Traced(a)'
<1>1. CASE CreateStep(a)
  BY <1>1, LookupKept, AdmitKept, IssueCreateKept, SyncKept, PersistCreatedKept,
     UndoCreateKept DEF CreateStep
<1>2. CASE RotateStep(a)
  BY <1>2, IssueRotateKept, RevokeOldKept, PersistRotatedKept, UndoRotateKept DEF RotateStep
<1>3. CASE WithdrawStep(a)
  BY <1>3, ListKept, RevokeEachKept, DeactivateKept, PersistClearedKept, DeleteKept,
     ClearReadKept, ClearWriteKept, PurgeKept DEF WithdrawStep
<1>4. CASE AvatarStep(a)
  BY <1>4, UploadKept, SetAvatarKept, PersistAvatarKept, UndoAvatarKept DEF AvatarStep
<1> QED
  BY <1>1, <1>2, <1>3, <1>4, ReadKept DEF Run

LEMMA InitKept == Init => KInv
<1> SUFFICES ASSUME Init PROVE KInv
  OBVIOUS
<1>1. SInv
  BY InitSettles
<1>2. \A a \in Actors : Traced(a) /\ Admitted(a) /\ CanUndo(a)
  BY DEF Init, Traced, Inside, Undoing, Admitted, Admits, CanUndo, Shows
<1>3. \A n \in Names : Managed(n) /\ Pictured(n)
  BY DEF Init, Managed, Pictured, NoSecret
<1> QED
  BY <1>1, <1>2, <1>3 DEF Init, KInv

LEMMA NextKept ==
  ASSUME Answered
  PROVE  KInv /\ [Next]_vars => KInv'
<1> SUFFICES ASSUME KInv, [Next]_vars PROVE KInv'
  OBVIOUS
<1>1. SInv'
  BY NextSettles DEF KInv
<1>2. ASSUME NEW a \in Actors, Run(a), ~CheckDevice(a) PROVE KInv'
  <2>1. Works(a) /\ faults' \in {faults, faults + 1}
    BY <1>2, RunWorks, RunCounts DEF KInv
  <2> QED
    BY <1>1, <1>2, <2>1, RunKept, OwnKeeps
<1>3. CASE \/ \E a \in Actors : Start(a) \/ Acquire(a) \/ CheckDevice(a)
           \/ Environment \/ UNCHANGED vars
  BY <1>1, <1>3, EnvironmentAround, AroundKeeps
<1> QED
  BY <1>2, <1>3 DEF Next

LEMMA AnsweredKept ==
  ASSUME Answered
  PROVE  Spec => []KInv
<1>1. KInv /\ [Next]_vars => KInv'
  BY NextKept
<1> QED
  BY <1>1, InitKept, PTL DEF Spec

\* With every operation over, nobody has anything left to undo.
LEMMA KeptMeans ==
  ASSUME KInv, faults <= 1
  PROVE  NoOrphan /\ AvatarAgrees
<1> SUFFICES ASSUME NEW n \in Names, lock[n] = Nobody
             PROVE  /\ users[n] = "active" => secrets[n] # NoSecret
                    /\ secrets[n].avatar # NoAvatar => profile[n] = secrets[n].avatar
  BY DEF NoOrphan, AvatarAgrees
<1>1. \A a \in Actors : Inside(a) => lock[req[a].name] # Nobody
  BY NullAssumption DEF KInv, SInv, RInv, IInv, ActorOK, Guarded
<1>2. \A a \in Actors : Admits(a) \/ Shows(a) => req[a].name # n
  BY <1>1 DEF Admits, Shows, Inside
<1> QED
  BY <1>2 DEF KInv, Managed, Pictured

\* One failed call, edit of a Secret or strange answer of MAS orphans no account: when
\* every operation is over, an active MAS account has a Secret to manage it.  For any
\* agents, actors, operations and kinds of token; a lost answer, an expired request or
\* a crash may orphan one.
THEOREM OneFailureOrphansNone ==
  ASSUME Faults \subseteq {"fail", "blank", "swap", "edit"}
  PROVE  Spec => [](faults <= 1 => NoOrphan)
<1>1. Spec => []KInv
  BY AnsweredKept DEF Answered
<1>2. KInv => (faults <= 1 => NoOrphan)
  BY KeptMeans
<1> QED
  BY <1>1, <1>2, PTL

\* Nor does it part the avatar of a Secret from the one that the homeserver shows.
THEOREM OneFailureAvatarAgrees ==
  ASSUME Faults \subseteq {"fail", "blank", "swap", "edit"}
  PROVE  Spec => [](faults <= 1 => AvatarAgrees)
<1>1. Spec => []KInv
  BY AnsweredKept DEF Answered
<1>2. KInv => (faults <= 1 => AvatarAgrees)
  BY KeptMeans
<1> QED
  BY <1>1, <1>2, PTL

-----------------------------------------------------------------------------
(* Active Secrets that work: the halves of the argument. *)

\* Without edits, foreign session IDs and the operations that close the account before
\* they write the Secret, every failure is one that the operation itself makes good.
MadeGood == Faults \subseteq {"fail", "blank"} /\ Ops \cap {"deactivate", "remove"} = {}

Recording(n) ==
    [owner |-> n, id |-> secrets[n].sid, token |-> secrets[n].token] \in live

\* The invariant, for the agent whose mutex the actor holds.
UOwn(a, n) ==
    faults <= 1 =>
        /\ secrets[n].status = "active" /\ ~Kills(a) => Recording(n)
        /\ secrets[n].status # "active" => secrets[n].sid = 0
        /\ faults = 0 =>
             \A s \in SessionsOf(n) : \/ s.id = secrets[n].sid /\ ~Replaces(a)
                                      \/ Holding(a) /\ s.id = req[a].ses.id
        /\ Targets(a)

LEMMA UOwnBefore ==
  ASSUME UInv, NEW a \in Actors, Inside(a), NEW n, n = req[a].name
  PROVE  UOwn(a, n)
<1>1. Sole(a) /\ n \in Names
  BY InsideIsSole DEF UInv, KInv, SInv, RInv
<1>2. \A b \in Actors \ {a} : (Kills(b) \/ Replaces(b) \/ Holding(b)) => req[b].name # n
  BY <1>1 DEF Sole, Kills, Replaces, Holding, Inside
<1> QED
  BY <1>1, <1>2 DEF UInv, UOwn, Usable, Single, Recording

LEMMA OthersUsable ==
  ASSUME UInv, NEW a \in Actors, Inside(a), StoresAway(a), ControlAway(a),
         faults' \in {faults, faults + 1}, faults \in Nat, faults' <= 1,
         NEW m \in Names \ {req[a].name}
  PROVE  Usable(m)' /\ Single(m)'
<1>1. Usable(m) /\ Single(m)
  BY DEF UInv
<1>2. secrets'[m] = secrets[m] /\ \A s : s \in SessionsOf(m)' <=> s \in SessionsOf(m)
  BY DEF StoresAway
<1>3. \A b \in Actors \ {a} :
         /\ req'[b] = req[b]
         /\ Kills(b) => Kills(b)'
         /\ Replaces(b)' = Replaces(b) /\ Holding(b)' = Holding(b)
  BY DEF ControlAway, OthersStay, Kills, Replaces, Holding
<1>4. Usable(m)'
  <2>1. (\A b \in Actors : Kills(b)' => req'[b].name # m)
          => (\A b \in Actors : Kills(b) => req[b].name # m)
    BY <1>3
  <2> QED
    BY <1>1, <1>2, <2>1 DEF Usable, SessionsOf
<1>5. Single(m)'
  <2>1. faults' = 0 => faults = 0
    OBVIOUS
  <2>2. ASSUME faults = 0, NEW s \in SessionsOf(m)'
        PROVE  \/ s.id = secrets'[m].sid /\ (\A b \in Actors : Replaces(b)' => req'[b].name # m)
               \/ \E b \in Actors : Holding(b)' /\ req'[b].name = m /\ s.id = req'[b].ses.id
    <3>1. CASE s.id = secrets[m].sid /\ (\A b \in Actors : Replaces(b) => req[b].name # m)
      <4>1. req'[a].name # m
        BY NullAssumption DEF ControlAway, Same, NoRequest
      <4> QED
        BY <1>2, <1>3, <3>1, <4>1
    <3>2. ASSUME NEW b \in Actors, Holding(b), req[b].name = m, s.id = req[b].ses.id
          PROVE  Holding(b)' /\ req'[b].name = m /\ s.id = req'[b].ses.id
      BY <1>3, <3>2
    <3> QED
      BY <1>1, <1>2, <2>2, <3>1, <3>2 DEF Single
  <2> QED
    BY <2>1, <2>2 DEF Single
<1> QED
  BY <1>4, <1>5

LEMMA OthersTarget ==
  ASSUME UInv, NEW a \in Actors, Inside(a), StoresAway(a), ControlAway(a),
         faults' \in {faults, faults + 1}, faults \in Nat, faults' <= 1, NEW b \in Actors \ {a}
  PROVE  Targets(b)'
<1>1. pc'[b] = pc[b] /\ req'[b] = req[b] /\ Targets(b) /\ KnowsOwn(b)
  BY DEF ControlAway, OthersStay, UInv, KInv, SInv, RInv
<1>2. CASE Inside(b)
  <2>1. PICK m \in Names : m = req[b].name /\ m # req[a].name
    BY <1>2, InsideIsSole DEF UInv, KInv, SInv, RInv, Sole
  <2>2. secrets'[m] = secrets[m] /\ \A s : s \in SessionsOf(m)' <=> s \in SessionsOf(m)
    BY <2>1 DEF StoresAway
  <2>3. ASSUME NEW id \in req[b].todo, NEW s \in live, s.id = id
        PROVE  s \in live'
    <3>1. s \in SessionsOf(m)
      BY <1>1, <2>1, <2>3 DEF KnowsOwn, Own, SessionsOf
    <3> QED
      BY <2>2, <3>1 DEF SessionsOf
  <2> QED
    BY <1>1, <2>1, <2>2, <2>3 DEF Targets, Admits
<1>3. CASE ~Inside(b)
  BY <1>1, <1>3 DEF Inside, Targets, Admits
<1> QED
  BY <1>2, <1>3

LEMMA OwnUsable ==
  ASSUME UInv, KInv', NEW a \in Actors, Works(a), faults' \in {faults, faults + 1},
         NEW n, n = req[a].name, UOwn(a, n)'
  PROVE  UInv'
<1>1. Inside(a) /\ StoresAway(a) /\ ControlAway(a) /\ faults \in Nat
  BY StoresStayAway, ControlStaysAway DEF UInv, KInv, SInv, RInv, IInv, TypeOK, Works
<1>2. n \in Names
  BY <1>1, InsideIsSole DEF UInv, KInv, SInv, RInv
<1>3. \A b \in Actors : req'[b].op \in Ops \cup {"none"}
  BY <1>1 DEF UInv, ControlAway, OthersStay, Same, NoRequest
<1>4. ASSUME faults' <= 1 PROVE Usable(n)' /\ Single(n)'
  <2>1. Kills(a)' \/ Replaces(a)' \/ Holding(a)' => req'[a].name = n
    <3>1. req'[a] = NoRequest => ~Inside(a)'
      BY NullAssumption DEF KInv, SInv, RInv, IInv, ActorOK, Guarded, Inside, NoRequest
    <3> QED
      BY <1>1, <3>1 DEF ControlAway, Same, Kills, Replaces, Holding, Inside
  <2>2. Usable(n)'
    BY <1>4, <2>1 DEF UOwn, Usable, Recording
  <2>3. \A b \in Actors \ {a} : Replaces(b)' => req'[b].name # n
    <3>1. Sole(a)
      BY <1>1, InsideIsSole DEF UInv, KInv, SInv, RInv
    <3> QED
      BY <1>1, <3>1 DEF Sole, ControlAway, OthersStay, Replaces, Holding, Inside
  <2>4. Single(n)'
    BY <1>4, <2>1, <2>3 DEF UOwn, Single
  <2> QED
    BY <2>2, <2>4
<1>5. ASSUME faults' <= 1, NEW m \in Names PROVE Usable(m)' /\ Single(m)'
  BY <1>1, <1>4, <1>5, OthersUsable
<1>6. ASSUME faults' <= 1, NEW b \in Actors PROVE Targets(b)'
  BY <1>1, <1>6, OthersTarget DEF UOwn
<1> QED
  BY <1>3, <1>5, <1>6 DEF UInv

-----------------------------------------------------------------------------
(* The actions, for active Secrets. *)

LEMMA OverUsable ==
  ASSUME UInv, NEW a \in Actors, Over(a), NEW n,
         faults' <= 1 =>
            /\ secrets'[n].status = "active" => Recording(n)'
            /\ secrets'[n].status # "active" => secrets'[n].sid = 0
            /\ faults' = 0 => \A s \in SessionsOf(n)' : s.id = secrets'[n].sid
  PROVE  UOwn(a, n)'
<1>1. pc'[a] \in {"idle", "check"} /\ req'[a] = NoRequest /\ ~Inside(a)'
  BY OverOutside DEF UInv, KInv
<1>2. ~Replaces(a)' /\ Targets(a)'
  BY <1>1 DEF Replaces, Holding, Targets, Admits, Inside
<1> QED
  BY <1>2 DEF UOwn

\* A step that touches no session and no Secret, without a token in hand.
LEMMA QuietUsable ==
  ASSUME UInv, NEW a \in Actors, Inside(a), NEW n, n = req[a].name,
         faults' \in {faults, faults + 1}, secrets'[n] = secrets[n], live' = live,
         ~Kills(a), ~Holding(a), ~Holding(a)', Targets(a)'
  PROVE  UOwn(a, n)'
<1>1. UOwn(a, n) /\ faults \in Nat
  BY UOwnBefore DEF UInv, KInv, SInv, RInv, IInv, TypeOK
<1>2. faults' <= 1 => faults <= 1
  BY <1>1
<1>3. faults' = 0 => faults = 0
  BY <1>1
<1>4. ~Replaces(a) /\ ~Replaces(a)'
  BY DEF Replaces
<1>5. Recording(n) => Recording(n)'
  BY DEF Recording
<1>6. \A s : s \in SessionsOf(n)' <=> s \in SessionsOf(n)
  BY DEF SessionsOf
<1> QED
  BY <1>1, <1>2, <1>3, <1>4, <1>5, <1>6 DEF UOwn

LEMMA QuietOver ==
  ASSUME UInv, NEW a \in Actors, Inside(a), NEW n, n = req[a].name,
         faults' \in {faults, faults + 1}, secrets'[n] = secrets[n], live' = live,
         ~Kills(a), ~Holding(a), Over(a)
  PROVE  UOwn(a, n)'
<1>1. pc'[a] \in {"idle", "check"} /\ req'[a] = NoRequest
  BY OverOutside DEF UInv, KInv
<1>2. ~Holding(a)' /\ Targets(a)'
  BY <1>1 DEF Holding, Targets, Admits
<1> QED
  BY <1>2, QuietUsable

LEMMA NotStale ==
  ASSUME UInv, MadeGood, NEW a \in Actors, Inside(a), pc[a] # "get"
  PROVE  a \notin stale
  BY DEF UInv, KInv, Traced, MadeGood

\* Steps before an operation changes a session or the Secret, and all of SetAvatar.
LEMMA EarlyUsable ==
  ASSUME UInv, KInv', MadeGood, NEW a \in Actors, Works(a), faults' \in {faults, faults + 1},
         \/ ReadSecret(a) \/ LookupUser(a) \/ AdmitUser(a) \/ UploadAvatar(a)
         \/ SetAvatarURL(a) \/ UndoAvatar(a),
         NEW n, n = req[a].name
  PROVE  UOwn(a, n)'
<1>1. Inside(a) /\ ControlAway(a)
  BY ControlStaysAway DEF UInv, KInv, Works
<1>2. live' = live /\ secrets' = secrets
  BY DEF ReadSecret, GetAgent, Ask, LookupUser, AdmitUser, UploadAvatar, SetAvatarURL,
     UndoAvatar, SetProfile, SetUser, SameMAS, SameSecrets, Call, world
<1>3. pc[a] \in {"get", "lookup", "admit", "upload", "setAvatar", "undoAvatar"}
  BY DEF ReadSecret, LookupUser, AdmitUser, UploadAvatar, SetAvatarURL, UndoAvatar
<1>4. ~Kills(a) /\ ~Holding(a)
  BY <1>3 DEF Kills, Holding
<1>5. \/ Over(a) \/ Goto(a, "admit") \/ Goto(a, "issue")
      \/ (req[a].op = "avatar" /\ Goto(a, "persist"))
      \/ \E l \in {"lookup", "issue", "list", "delete", "upload", "setAvatar"} : \E q : Move(a, l, q)
  <2>1. CASE ReadSecret(a)
    <3> DEFINE q == [req[a] EXCEPT !.rec = secrets[n]]
    <3>1. ReturnUnchanged(a) \/ \E l \in {"lookup", "issue", "list", "delete", "upload"} : Move(a, l, q)
      BY <2>1 DEF ReadSecret, GetAgent, Ask, Entry
    <3> HIDE DEF q
    <3> QED
      BY <3>1 DEF Over
  <2>2. CASE LookupUser(a)
    BY <2>2 DEF LookupUser, Ask, Over
  <2>3. CASE AdmitUser(a)
    BY <2>3 DEF AdmitUser, Call, Over
  <2>4. CASE UploadAvatar(a)
    <3>1. ReturnUnchanged(a) \/ \E q : Move(a, "setAvatar", q)
      BY <2>4, Zenon DEF UploadAvatar, Call
    <3> QED
      BY <3>1 DEF Over
  <2>5. CASE SetAvatarURL(a)
    <3>1. req[a].op = "avatar"
      BY <2>5 DEF SetAvatarURL, UInv, KInv, SInv, RInv, IInv, ActorOK, InItsOp
    <3> QED
      BY <2>5, <3>1 DEF SetAvatarURL, SetProfile, Call, Over
  <2>6. CASE UndoAvatar(a)
    BY <2>6 DEF UndoAvatar, SetProfile, Call, Over
  <2> QED
    BY <2>1, <2>2, <2>3, <2>4, <2>5, <2>6
<1>6. CASE Over(a)
  BY <1>1, <1>2, <1>4, <1>6, QuietOver
<1>7. CASE ~Over(a)
  <2>1. pc'[a] \in {"admit", "issue", "lookup", "list", "delete", "upload", "setAvatar"}
        \/ (pc'[a] = "persist" /\ req'[a].op = "avatar")
    BY <1>5, <1>7 DEF Goto, Move, UInv, KInv, SInv, RInv, IInv, TypeOK
  <2>2. ~Holding(a)'
    BY <2>1 DEF Holding, Issuing
  <2>3. Targets(a)'
    BY <2>1 DEF Targets, KInv, SInv, RInv, IInv, ActorOK, Current, Admits
  <2> QED
    BY <1>1, <1>2, <1>4, <2>2, <2>3, QuietUsable
<1> QED
  BY <1>6, <1>7

\* Create has no Secret before its last step.
LEMMA CreateUsable ==
  ASSUME UInv, KInv', NEW a \in Actors, Works(a), faults' \in {faults, faults + 1},
         Admits(a), NEW n, n = req[a].name, secrets' = secrets, secrets[n] = NoSecret,
         Over(a) \/ (Admits(a)' /\ req'[a].name = n),
         faults' >= 1 \/ (~Holding(a) /\ live' = live /\ Over(a))
           \/ (Replaces(a)' /\ \A s \in SessionsOf(n)' : s.id = req'[a].ses.id)
  PROVE  UOwn(a, n)'
<1>1. faults' \in Nat /\ ~Holding(a) => UOwn(a, n)
  BY UOwnBefore DEF Works
<1>2. secrets'[n].status # "active" /\ secrets'[n].sid = 0
  BY DEF NoSecret
<1>3. CASE Over(a) /\ faults' >= 1
  BY <1>2, <1>3, OverUsable
<1>4. CASE Over(a) /\ ~Holding(a) /\ live' = live
  <2>1. ~Kills(a) /\ Inside(a)
    BY DEF Kills, Admits, Works
  <2> QED
    BY <1>4, <2>1, QuietOver
<1>5. CASE ~Over(a)
  <2>1. Targets(a)'
    BY <1>5 DEF Targets, Admits
  <2> QED
    BY <1>2, <1>5, <2>1 DEF UOwn, Replaces
<1>6. CASE Over(a) /\ Replaces(a)'
  <2>1. ~Inside(a)'
    BY <1>6, OverOutside DEF UInv, KInv
  <2> QED
    BY <1>6, <2>1 DEF Replaces, Holding, Inside
<1> QED
  BY <1>3, <1>4, <1>5, <1>6

LEMMA IssueCreateUsable ==
  ASSUME UInv, KInv', MadeGood, NEW a \in Actors, Works(a), faults' \in {faults, faults + 1},
         IssueForCreate(a), NEW n, n = req[a].name
  PROVE  UOwn(a, n)'
<1> DEFINE i == issued + 1
           s == [owner |-> n, id |-> i, token |-> i]
           q == [req[a] EXCEPT !.ses = [id |-> i, token |-> i]]
<1>1. pc[a] = "issue" /\ req[a].op = "create" /\ Admits(a) /\ Inside(a) /\ ~Holding(a) /\ ~Replaces(a)
  BY DEF IssueForCreate, Admits, Inside, Holding, Replaces
<1>2. /\ secrets[n] = NoSecret /\ req[a] \in Requests /\ faults \in Nat /\ UOwn(a, n)
      /\ \A x \in live : x.id # 0
  BY <1>1, AtWork, UOwnBefore DEF UInv, KInv, SInv, RInv, IInv, ActorOK, Current, TokensOK
<1>3. secrets' = secrets
  BY DEF IssueForCreate, Call, Issue, SameSecrets, world
<1>4. \/ Move(a, "sync", q) /\ Issue(s, live)
      \/ pc'[a] \in {"undoUser", "undoCreate"} /\ req'[a].name = n /\ req'[a].op = "create"
  <2>1. \/ Move(a, "sync", q) /\ Issue(s, live)
        \/ Goto(a, "undoUser")
        \/ Move(a, "undoCreate", [req[a] EXCEPT !.ses = [id |-> i, token |-> 0]])
    BY DEF IssueForCreate, Call, Fault, UInv, KInv, MadeGood
  <2>2. /\ [req[a] EXCEPT !.ses = [id |-> i, token |-> 0]].name = n
        /\ [req[a] EXCEPT !.ses = [id |-> i, token |-> 0]].op = "create"
    BY <1>1, <1>2 DEF Requests
  <2> QED
    BY <1>1, <2>1, <2>2 DEF Goto, Move, UInv, KInv, SInv, RInv, IInv, TypeOK
<1>5. CASE Move(a, "sync", q) /\ Issue(s, live)
  <2>1. q.name = n /\ q.op = "create" /\ q.ses.id = i
    BY <1>1, <1>2 DEF Requests
  <2>2. pc'[a] = "sync" /\ req'[a] = q
    BY <1>5 DEF Move, UInv, KInv, SInv, RInv, IInv, TypeOK
  <2>3. s.id = i /\ live' = live \cup {s}
    BY <1>5 DEF Issue
  <2> HIDE DEF q, s
  <2>4. Admits(a)' /\ req'[a].name = n /\ Replaces(a)'
    BY <2>1, <2>2 DEF Admits, Replaces, Holding
  <2>5. faults = 0 => SessionsOf(n) = {}
    BY <1>1, <1>2 DEF UOwn, SessionsOf, NoSecret
  <2>6. faults' >= 1 \/ \A x \in SessionsOf(n)' : x.id = req'[a].ses.id
    BY <1>2, <2>1, <2>2, <2>3, <2>5 DEF SessionsOf
  <2> QED
    BY <1>1, <1>2, <1>3, <2>4, <2>6, CreateUsable
<1>6. CASE pc'[a] \in {"undoUser", "undoCreate"} /\ req'[a].name = n /\ req'[a].op = "create"
  <2>1. Admits(a)' /\ faults' >= 1
    BY <1>6 DEF Admits, KInv, Traced, Undoing
  <2> QED
    BY <1>1, <1>2, <1>3, <1>6, <2>1, CreateUsable
<1> QED
  BY <1>4, <1>5, <1>6

LEMMA SyncUsable ==
  ASSUME UInv, KInv', NEW a \in Actors, Works(a), faults' \in {faults, faults + 1},
         SyncProfile(a), NEW n, n = req[a].name
  PROVE  UOwn(a, n)'
<1>1. /\ pc[a] = "sync" /\ Inside(a) /\ Holding(a) /\ live' = live /\ secrets' = secrets
      /\ Goto(a, "persist") \/ Goto(a, "undoCreate")
  BY DEF SyncProfile, Inside, Call, world, Holding
<1>2. /\ req[a].op = "create" /\ secrets[n] = NoSecret /\ faults \in Nat /\ UOwn(a, n)
  BY <1>1, UOwnBefore DEF UInv, KInv, SInv, RInv, IInv, TypeOK, ActorOK, InItsOp, Current
<1>3. Admits(a) /\ Replaces(a)
  BY <1>1, <1>2 DEF Admits, Replaces
<1>4. pc'[a] \in {"persist", "undoCreate"} /\ req'[a] = req[a]
  BY <1>1, Arrives DEF UInv, KInv, SInv
<1>5. Admits(a)'
  BY <1>2, <1>4 DEF Admits
<1>6. pc'[a] = "undoCreate" => faults' >= 1
  BY DEF KInv, Traced, Undoing
<1>7. CASE pc'[a] = "persist"
  <2>1. Replaces(a)'
    BY <1>2, <1>4, <1>7 DEF Replaces, Holding, Issuing
  <2>2. faults' >= 1 \/ \A s \in SessionsOf(n)' : s.id = req'[a].ses.id
    BY <1>1, <1>2, <1>3, <1>4 DEF UOwn, SessionsOf
  <2> QED
    BY <1>1, <1>2, <1>3, <1>4, <1>5, <2>1, <2>2, CreateUsable
<1> QED
  BY <1>1, <1>2, <1>3, <1>4, <1>5, <1>6, <1>7, CreateUsable

LEMMA UndoCreateUsable ==
  ASSUME UInv, KInv', NEW a \in Actors, Works(a), faults' \in {faults, faults + 1},
         UndoCreate(a), NEW n, n = req[a].name
  PROVE  UOwn(a, n)'
<1>1. /\ pc[a] \in {"undoCreate", "undoUser"} /\ Inside(a) /\ secrets' = secrets
      /\ Over(a) \/ (pc[a] = "undoCreate" /\ Goto(a, "undoUser"))
  BY DEF UndoCreate, Inside, RevokePersonalSession, DeactivateMASUser, SetUser, Call,
     SameSecrets, world, Over
<1>2. req[a].op = "create" /\ faults \in Nat /\ faults >= 1 /\ UOwn(a, n)
  BY <1>1, UOwnBefore DEF UInv, KInv, SInv, RInv, IInv, TypeOK, ActorOK, InItsOp, Traced, Undoing
<1>3. Admits(a) /\ faults' >= 1
  BY <1>1, <1>2 DEF Admits
<1>4. CASE secrets[n] = NoSecret
  <2>1. Over(a) \/ (Admits(a)' /\ req'[a].name = n)
    BY <1>1, <1>2, Arrives DEF UInv, KInv, SInv, Admits
  <2> QED
    BY <1>1, <1>3, <1>4, <2>1, CreateUsable
<1>5. CASE faults' > 1
  BY <1>2, <1>5 DEF UOwn
<1> QED
  BY <1>2, <1>3, <1>4, <1>5 DEF UOwn, Targets

\* The Secret takes the token in hand, and the agent is left with its session.
LEMMA HandUsable ==
  ASSUME UInv, NEW a \in Actors, Inside(a), pc[a] = "persist", Holding(a),
         faults' \in {faults, faults + 1}, NEW n, n = req[a].name,
         NEW r, r.status = "active", r.sid = req[a].ses.id, r.token = req[a].ses.token,
         Put(a, n, r), Over(a)
  PROVE  UOwn(a, n)'
<1>1. /\ SInv /\ UOwn(a, n) /\ faults \in Nat /\ n \in Names /\ Replaces(a)
      /\ secrets \in [Names -> Records]
  BY UOwnBefore, AtWork DEF UInv, KInv, SInv, RInv, IInv, TypeOK, Replaces
<1>2. secrets'[n] = r /\ live' = live
  BY <1>1 DEF Put
<1>3. Agrees(n)'
  BY <1>1, HandApart
<1>4. Recording(n)'
  BY <1>2, <1>3 DEF Agrees, Recording
<1>5. faults' = 0 => faults = 0
  BY <1>1
<1>6. faults' = 0 => \A s \in SessionsOf(n)' : s.id = secrets'[n].sid
  BY <1>1, <1>2, <1>5 DEF UOwn, SessionsOf
<1> QED
  BY <1>2, <1>4, <1>6, OverUsable

LEMMA PersistCreatedUsable ==
  ASSUME UInv, KInv', MadeGood, NEW a \in Actors, Works(a), faults' \in {faults, faults + 1},
         PersistCreated(a), NEW n, n = req[a].name
  PROVE  UOwn(a, n)'
<1> DEFINE r == [status |-> "active", sid |-> req[a].ses.id, token |-> req[a].ses.token,
                 gen |-> 1, avatar |-> NoAvatar]
<1>1. /\ pc[a] = "persist" /\ req[a].op = "create" /\ Inside(a) /\ Holding(a)
      /\ Admits(a)
  BY DEF PersistCreated, Inside, Holding, Issuing, Admits
<1>2. secrets[n] = NoSecret /\ faults \in Nat
  BY <1>1 DEF UInv, KInv, SInv, RInv, IInv, TypeOK, ActorOK, Current
<1>3. \/ Put(a, n, r) /\ ReturnToken(a)
      \/ UNCHANGED world /\ Goto(a, "undoCreate")
  BY DEF PersistCreated, CreateAgent, Call, Fault, MadeGood
<1>4. CASE Put(a, n, r) /\ ReturnToken(a)
  <2>1. r.status = "active" /\ r.sid = req[a].ses.id /\ r.token = req[a].ses.token /\ Over(a)
    BY <1>4 DEF Over
  <2> HIDE DEF r
  <2> QED
    BY <1>1, <1>4, <2>1, HandUsable
<1>5. CASE UNCHANGED world /\ Goto(a, "undoCreate")
  <2>1. pc'[a] = "undoCreate" /\ req'[a] = req[a] /\ secrets' = secrets
    BY <1>5, Arrives DEF UInv, KInv, SInv, world
  <2>2. Admits(a)' /\ faults' >= 1
    BY <1>1, <2>1 DEF Admits, KInv, Traced, Undoing
  <2> QED
    BY <1>1, <1>2, <2>1, <2>2, CreateUsable
<1> QED
  BY <1>3, <1>4, <1>5

-----------------------------------------------------------------------------
(* Rotate and Recover. *)

\* Before Rotate issues a session, the recorded one is all that an agent has.
LEMMA RotateReady ==
  ASSUME UInv, NEW a \in Actors, pc[a] = "issue", req[a].op \in {"rotate", "recover"},
         faults <= 1, NEW n, n = req[a].name
  PROVE  /\ Inside(a) /\ ~Kills(a) /\ ~Holding(a) /\ req[a].rec = secrets[n]
         /\ secrets[n].status = "active" => Recording(n)
         /\ secrets[n].status # "active" => secrets[n].sid = 0
         /\ secrets[n].sid # 0 => Recording(n)
         /\ secrets[n].status = "active" => secrets[n].sid # 0
         /\ faults = 0 => \A s \in SessionsOf(n) : s.id = secrets[n].sid
         /\ secrets[n].sid <= issued
<1>1. Inside(a) /\ ~Kills(a) /\ ~Holding(a)
  BY DEF Inside, Kills, Holding, Issuing
<1>2. /\ UOwn(a, n) /\ req[a].rec = secrets[n] /\ n \in Names /\ Own(n, secrets[n].sid)
      /\ \A s \in live : s.id # 0
  BY <1>1, UOwnBefore, AtWork DEF UInv, KInv, SInv, RInv, ActorOK, Current, SessionsOwned,
     TokensOK
<1>3. secrets[n].status = "active" => Recording(n)
  BY <1>1, <1>2 DEF UOwn
<1>4. secrets[n].status = "active" => secrets[n].sid # 0
  BY <1>2, <1>3 DEF Recording
<1> QED
  BY <1>1, <1>2, <1>3, <1>4 DEF UOwn, Own

\* A new session beside the recorded one, or in its place.
LEMMA IssuedBeside ==
  ASSUME NEW n, NEW s, NEW kept, NEW id, Issue(s, kept), kept = {x \in live : x.id # id},
         s.owner = n, s.id = id
  PROVE  /\ secrets' = secrets
         /\ secrets[n].sid # id /\ Recording(n) => Recording(n)'
         /\ \A x \in SessionsOf(n)' : x.id = id \/ (x \in SessionsOf(n) /\ x.id # id)
  BY DEF Issue, SameSecrets, Recording, SessionsOf

LEMMA IssueRotateUsable ==
  ASSUME UInv, KInv', MadeGood, NEW a \in Actors, Works(a), faults' \in {faults, faults + 1},
         IssueForRotate(a), NEW n, n = req[a].name
  PROVE  UOwn(a, n)'
<1> SUFFICES ASSUME faults' <= 1 PROVE UOwn(a, n)'
  BY DEF UOwn
<1> DEFINE old == req[a].rec.sid
           id == IF Regenerated(a) THEN old ELSE issued + 1
           kept == {x \in live : x.id # id}
           s == [owner |-> n, id |-> id, token |-> issued + 1]
           q(token) == [req[a] EXCEPT !.ses = [id |-> id, token |-> token]]
<1>1. /\ pc[a] = "issue" /\ req[a].op \in {"rotate", "recover"} /\ faults \in Nat
      /\ faults <= 1 /\ issued \in Nat /\ req[a] \in Requests /\ \A x \in live : x.id # 0
      /\ secrets[n].sid \in Nat
  <2>1. pc[a] = "issue" /\ req[a].op \in {"rotate", "recover"} /\ Inside(a)
    BY DEF IssueForRotate, Inside
  <2> QED
    BY <2>1, AtWork DEF UInv, KInv, SInv, RInv, TokensOK, Records
<1>2. /\ Inside(a) /\ ~Kills(a) /\ ~Holding(a) /\ req[a].rec = secrets[n]
      /\ secrets[n].sid = old
      /\ secrets[n].status = "active" => Recording(n) /\ old # 0
      /\ secrets[n].status # "active" => old = 0
      /\ old # 0 => Recording(n)
      /\ faults = 0 => \A x \in SessionsOf(n) : x.id = old
      /\ old <= issued
  BY <1>1, RotateReady
<1>3. /\ \A token : /\ q(token).name = n /\ q(token).op = req[a].op
                    /\ q(token).ses.id = id
      /\ s.owner = n /\ s.id = id
      /\ Regenerated(a) => old # 0 /\ id = old
      /\ ~Regenerated(a) => id = issued + 1
  BY <1>1, <1>2 DEF Requests, Regenerated
<1>4. \/ UNCHANGED world /\ Return(a, FALSE)
      \/ /\ Issue(s, kept) /\ faults' = faults
         /\ Move(a, IF Regenerated(a) \/ old = 0 THEN "persist" ELSE "revokeOld", q(issued + 1))
      \/ /\ Issue(s, kept) /\ faults' = faults + 1
         /\ \/ Move(a, IF Regenerated(a) THEN "undoRotate" ELSE "undoNew", q(0))
            \/ Regenerated(a) /\ Goto(a, "clearGet")
            \/ ~Regenerated(a) /\ Return(a, FALSE)
  BY DEF IssueForRotate, Call, Fault, NoFault, MadeGood
<1>5. CASE UNCHANGED world /\ Return(a, FALSE)
  BY <1>2, <1>5, QuietOver DEF Over, world
<1>6. ASSUME Issue(s, kept)
      PROVE  /\ secrets' = secrets
             /\ old # id /\ Recording(n) => Recording(n)'
             /\ \A x \in SessionsOf(n)' : x.id = id \/ (x \in SessionsOf(n) /\ x.id # id)
  BY <1>2, <1>3, <1>6, IssuedBeside
<1> HIDE DEF q, s, id, kept, old
<1>7. ASSUME NEW l \in Labels, NEW token, Move(a, l, q(token))
      PROVE  pc'[a] = l /\ req'[a].op = req[a].op /\ req'[a].ses.id = id /\ req'[a].name = n
  BY <1>3, <1>7 DEF Move, UInv, KInv, SInv, RInv, IInv, TypeOK
<1>8. CASE /\ Issue(s, kept) /\ faults' = faults /\ (Regenerated(a) \/ old = 0)
           /\ Move(a, "persist", q(issued + 1))
  <2>1. pc'[a] = "persist" /\ req'[a].op = req[a].op /\ req'[a].ses.id = id
    BY <1>7, <1>8 DEF Labels
  <2>2. Kills(a)' /\ Holding(a)' /\ ~Admits(a)' /\ Targets(a)'
    BY <1>1, <2>1 DEF Kills, Holding, Issuing, Admits, Targets
  <2>3. faults = 0 => \A x \in SessionsOf(n) : x.id = id \/ x.id = 0
    BY <1>2, <1>3, <1>8
  <2>4. faults = 0 => \A x \in SessionsOf(n)' : x.id = id
    BY <1>1, <1>6, <1>8, <2>3 DEF SessionsOf
  <2> QED
    BY <1>2, <1>6, <1>8, <2>1, <2>2, <2>4 DEF UOwn
<1>9. CASE /\ Issue(s, kept) /\ faults' = faults /\ ~Regenerated(a) /\ old # 0
           /\ Move(a, "revokeOld", q(issued + 1))
  <2>1. pc'[a] = "revokeOld" /\ req'[a].op = req[a].op /\ req'[a].ses.id = id
        /\ req'[a].name = n
    BY <1>7, <1>9 DEF Labels
  <2>2. Holding(a)' /\ ~Replaces(a)' /\ ~Admits(a)'
    BY <2>1 DEF Holding, Replaces, Admits
  <2>3. secrets'[n] = secrets[n] /\ Recording(n)'
    BY <1>1, <1>2, <1>3, <1>6, <1>9
  <2>4. Targets(a)'
    BY <1>2, <1>9, <2>1, <2>2, <2>3 DEF Targets
  <2> QED
    BY <1>2, <1>6, <1>9, <2>1, <2>2, <2>3, <2>4 DEF UOwn
<1>10. CASE /\ Issue(s, kept) /\ faults' = faults + 1 /\ Regenerated(a)
            /\ Move(a, "undoRotate", q(0)) \/ Goto(a, "clearGet")
  <2>1. pc'[a] \in {"undoRotate", "clearGet"}
    BY <1>7, <1>10, Arrives DEF Labels, UInv, KInv, SInv
  <2>2. Kills(a)' /\ Targets(a)'
    BY <2>1 DEF Kills, Targets, Admits
  <2> QED
    BY <1>1, <1>2, <1>6, <1>10, <2>2 DEF UOwn
<1>11. CASE Issue(s, kept) /\ faults' = faults + 1 /\ ~Regenerated(a) /\ Move(a, "undoNew", q(0))
  <2>1. pc'[a] = "undoNew" /\ req'[a].ses.id = id /\ req'[a].name = n
    BY <1>7, <1>11 DEF Labels
  <2>2. old # id
    BY <1>1, <1>2, <1>3, <1>11
  <2>3. Targets(a)'
    BY <1>2, <1>6, <1>11, <2>1, <2>2 DEF Targets, Admits
  <2> QED
    BY <1>1, <1>2, <1>6, <1>11, <2>2, <2>3 DEF UOwn
<1>12. CASE Issue(s, kept) /\ faults' = faults + 1 /\ ~Regenerated(a) /\ Return(a, FALSE)
  <2>1. old # id
    BY <1>1, <1>2, <1>3, <1>12
  <2>2. /\ secrets'[n].status = "active" => Recording(n)'
        /\ secrets'[n].status # "active" => secrets'[n].sid = 0
        /\ faults' # 0
    BY <1>1, <1>2, <1>6, <1>12, <2>1
  <2>3. Over(a)
    BY <1>12 DEF Over
  <2> QED
    BY <2>2, <2>3, OverUsable
<1> QED
  BY <1>4, <1>5, <1>8, <1>9, <1>10, <1>11, <1>12

LEMMA RevokeOldUsable ==
  ASSUME UInv, KInv', MadeGood, NEW a \in Actors, Works(a), faults' \in {faults, faults + 1},
         RevokeOld(a), NEW n, n = req[a].name
  PROVE  UOwn(a, n)'
<1> SUFFICES ASSUME faults' <= 1 PROVE UOwn(a, n)'
  BY DEF UOwn
<1>1. /\ pc[a] = "revokeOld" /\ Inside(a) /\ Holding(a) /\ ~Kills(a) /\ ~Replaces(a)
      /\ ~Admits(a)
  BY DEF RevokeOld, Inside, Holding, Kills, Replaces, Admits
<1>2. /\ UOwn(a, n) /\ faults \in Nat /\ faults <= 1 /\ req[a].rec = secrets[n] /\ HandLive(a)
      /\ req[a].op \in {"rotate", "recover"}
  BY <1>1, UOwnBefore DEF UInv, KInv, SInv, RInv, IInv, TypeOK, ActorOK, Current, InItsOp
<1>3. /\ secrets[n].sid # 0 /\ Recording(n) /\ \E s \in live : s.id = req[a].rec.sid
      /\ req[a].ses.id # secrets[n].sid
  BY <1>1, <1>2 DEF UOwn, Targets, Recording, HandLive
<1>4. \/ live' = {s \in live : s.id # req[a].rec.sid} /\ SameSecrets /\ Goto(a, "persist")
      \/ UNCHANGED world /\ Goto(a, "undoNew") /\ faults' = faults + 1
  BY <1>3 DEF RevokeOld, RevokePersonalSession, Call, Fault, MadeGood, UInv, KInv
<1>5. CASE live' = {s \in live : s.id # req[a].rec.sid} /\ SameSecrets /\ Goto(a, "persist")
  <2>1. pc'[a] = "persist" /\ req'[a] = req[a] /\ secrets' = secrets
    BY <1>5, Arrives DEF UInv, KInv, SInv, SameSecrets
  <2>2. Kills(a)' /\ Holding(a)' /\ Targets(a)'
    BY <1>2, <2>1 DEF Kills, Holding, Issuing, Targets, Admits
  <2>3. faults = 0 => \A s \in SessionsOf(n)' : s.id = req[a].ses.id
    BY <1>2, <1>5 DEF UOwn, SessionsOf
  <2> QED
    BY <1>2, <2>1, <2>2, <2>3 DEF UOwn
<1>6. CASE UNCHANGED world /\ Goto(a, "undoNew") /\ faults' = faults + 1
  <2>1. /\ pc'[a] = "undoNew" /\ req'[a] = req[a] /\ secrets' = secrets /\ live' = live
        /\ faults' # 0
    BY <1>2, <1>6, Arrives DEF UInv, KInv, SInv, world
  <2>2. Targets(a)' /\ Recording(n)'
    BY <1>2, <1>3, <2>1 DEF Targets, Admits, Recording
  <2> QED
    BY <1>2, <2>1, <2>2 DEF UOwn
<1> QED
  BY <1>4, <1>5, <1>6

LEMMA PersistRotatedUsable ==
  ASSUME UInv, KInv', MadeGood, NEW a \in Actors, Works(a), faults' \in {faults, faults + 1},
         PersistRotated(a), NEW n, n = req[a].name
  PROVE  UOwn(a, n)'
<1> DEFINE r == Rotated(a)
<1>1. /\ pc[a] = "persist" /\ req[a].op \in {"rotate", "recover"} /\ Inside(a) /\ Holding(a)
      /\ Kills(a)
  BY DEF PersistRotated, Inside, Holding, Issuing, Kills
<1>2. /\ req[a].rec \in Records /\ secrets[n] # NoSecret /\ a \notin stale /\ UOwn(a, n)
      /\ faults \in Nat
  BY <1>1, AtWork, NotStale, UOwnBefore DEF UInv, KInv, SInv, RInv, ActorOK, Current, Traced
<1>3. \/ Put(a, n, r) /\ ReturnToken(a)
      \/ UNCHANGED world /\ faults' = faults + 1 /\ Goto(a, "undoRotate")
  BY <1>2 DEF PersistRotated, UpdateAgent, Call, Fault, MadeGood, UInv, KInv
<1>4. CASE Put(a, n, r) /\ ReturnToken(a)
  <2>1. r.status = "active" /\ r.sid = req[a].ses.id /\ r.token = req[a].ses.token
    BY <1>2, Zenon DEF Rotated, Records
  <2>2. Over(a)
    BY <1>4 DEF Over
  <2> HIDE DEF r
  <2> QED
    BY <1>1, <1>4, <2>1, <2>2, HandUsable
<1>5. CASE UNCHANGED world /\ faults' = faults + 1 /\ Goto(a, "undoRotate")
  <2>1. pc'[a] = "undoRotate" /\ secrets' = secrets /\ faults' # 0
    BY <1>2, <1>5, Arrives DEF UInv, KInv, SInv, world
  <2>2. Kills(a)' /\ Targets(a)'
    BY <2>1 DEF Kills, Targets, Admits
  <2>3. faults' <= 1 => faults <= 1
    BY <1>2
  <2> QED
    BY <1>2, <2>1, <2>2, <2>3 DEF UOwn
<1> QED
  BY <1>3, <1>4, <1>5

\* What is given up is not what the Secret records, unless the Secret is next.
LEMMA UndoRotateUsable ==
  ASSUME UInv, KInv', MadeGood, NEW a \in Actors, Works(a), faults' \in {faults, faults + 1},
         UndoRotate(a), NEW n, n = req[a].name
  PROVE  UOwn(a, n)'
<1> SUFFICES ASSUME faults' <= 1 PROVE UOwn(a, n)'
  BY DEF UOwn
<1>1. pc[a] \in {"undoNew", "undoRotate"} /\ Inside(a) /\ ~Holding(a) /\ ~Replaces(a)
  BY DEF UndoRotate, Inside, Holding, Replaces
<1>2. UOwn(a, n) /\ faults \in Nat /\ faults <= 1 /\ (faults' = 0 => faults = 0)
  BY <1>1, UOwnBefore DEF UInv, KInv, SInv, RInv, IInv, TypeOK
<1>3. /\ secrets' = secrets
      /\ live' = live \/ live' = {s \in live : s.id # req[a].ses.id}
      /\ \/ pc[a] = "undoNew" /\ Return(a, FALSE)
         \/ pc[a] = "undoRotate" /\ Goto(a, "clearGet")
  BY DEF UndoRotate, RevokePersonalSession, Call, SameSecrets, world
<1>4. CASE pc[a] = "undoNew" /\ Return(a, FALSE)
  <2>1. ~Kills(a) /\ req[a].ses.id # secrets[n].sid
    BY <1>2, <1>4 DEF Kills, UOwn, Targets
  <2>2. /\ Recording(n) => Recording(n)'
        /\ \A s \in SessionsOf(n)' : s \in SessionsOf(n)
    BY <1>3, <2>1 DEF Recording, SessionsOf
  <2>3. /\ secrets'[n].status = "active" => Recording(n)'
        /\ secrets'[n].status # "active" => secrets'[n].sid = 0
        /\ faults' = 0 => \A s \in SessionsOf(n)' : s.id = secrets'[n].sid
    BY <1>1, <1>2, <1>3, <2>1, <2>2 DEF UOwn
  <2>4. Over(a)
    BY <1>4 DEF Over
  <2> QED
    BY <2>3, <2>4, OverUsable
<1>5. CASE pc[a] = "undoRotate" /\ Goto(a, "clearGet")
  <2>1. pc'[a] = "clearGet" /\ faults' # 0
    BY <1>2, <1>5, Arrives DEF UInv, KInv, SInv, Traced, Undoing
  <2>2. Kills(a)' /\ Targets(a)'
    BY <2>1 DEF Kills, Targets, Admits
  <2> QED
    BY <1>2, <1>3, <2>1, <2>2 DEF UOwn
<1> QED
  BY <1>3, <1>4, <1>5

-----------------------------------------------------------------------------
(* Revoke, and the clearing of a token. *)

LEMMA OnlyRevoke ==
  ASSUME UInv, MadeGood, NEW a \in Actors, req[a].op \in {"revoke", "deactivate", "remove"}
  PROVE  req[a].op = "revoke"
  BY DEF UInv, MadeGood

LEMMA ListUsable ==
  ASSUME UInv, KInv', MadeGood, NEW a \in Actors, Works(a), faults' \in {faults, faults + 1},
         ListSessions(a), NEW n, n = req[a].name
  PROVE  UOwn(a, n)'
<1> DEFINE ids == {s.id : s \in SessionsOf(n)}
           q == [req[a] EXCEPT !.todo = ids]
<1>1. pc[a] = "list" /\ Inside(a) /\ ~Kills(a) /\ ~Holding(a) /\ ~Replaces(a)
  BY DEF ListSessions, Inside, Kills, Holding, Replaces
<1>2. req[a].op = "revoke" /\ UOwn(a, n) /\ faults \in Nat /\ req[a] \in Requests
  BY <1>1, OnlyRevoke, UOwnBefore, AtWork DEF UInv, KInv, SInv, RInv, ActorOK, InItsOp
<1>3. q.name = n /\ q.op = "revoke" /\ q.todo = ids
  BY <1>2 DEF Requests
<1>4. /\ secrets' = secrets /\ live' = live
      /\ \/ ReturnUnchanged(a)
         \/ faults' = faults /\ Move(a, IF ids = {} THEN "persist" ELSE "revokeEach", q)
  BY <1>2 DEF ListSessions, Ask, AfterRevoke, NoFault
<1>5. CASE ReturnUnchanged(a)
  BY <1>1, <1>4, <1>5, QuietOver DEF Over
<1>6. CASE faults' = faults /\ Move(a, IF ids = {} THEN "persist" ELSE "revokeEach", q)
  <2>1. /\ req'[a].name = n /\ req'[a].op = "revoke" /\ req'[a].todo = ids
        /\ pc'[a] = IF ids = {} THEN "persist" ELSE "revokeEach"
    <3> HIDE DEF q, ids
    <3> QED
      BY <1>3, <1>6 DEF Move, UInv, KInv, SInv, RInv, IInv, TypeOK
  <2>2. ~Holding(a)' /\ ~Replaces(a)' /\ ~Admits(a)'
    BY <2>1 DEF Holding, Replaces, Issuing, Admits
  <2>3. \A id \in ids : \E s \in live : s.id = id
    BY DEF SessionsOf
  <2>4. faults <= 1 /\ faults = 0 => ids \subseteq {secrets[n].sid}
    BY <1>1, <1>2 DEF UOwn
  <2> HIDE DEF q, ids
  <2>5. faults <= 1 => Targets(a)'
    BY <1>4, <1>6, <2>1, <2>2, <2>3, <2>4 DEF Targets
  <2>6. Recording(n) => Recording(n)'
    BY <1>4 DEF Recording
  <2> QED
    BY <1>1, <1>2, <1>4, <1>6, <2>2, <2>5, <2>6 DEF UOwn, SessionsOf
<1> QED
  BY <1>4, <1>5, <1>6

\* Before the first failure there is one session to revoke; a call that fails leaves it.
LEMMA RevokeEachUsable ==
  ASSUME UInv, KInv', MadeGood, NEW a \in Actors, Works(a), faults' \in {faults, faults + 1},
         RevokeEach(a), NEW n, n = req[a].name
  PROVE  UOwn(a, n)'
<1> SUFFICES ASSUME faults' <= 1 PROVE UOwn(a, n)'
  BY DEF UOwn
<1>1. PICK id \in req[a].todo :
        LET rest == req[a].todo \ {id}
        IN  RevokePersonalSession(a, id,
                Move(a, IF rest = {} THEN AfterRevoke(req[a].op) ELSE "revokeEach",
                     [req[a] EXCEPT !.todo = rest]),
                Return(a, FALSE))
  BY DEF RevokeEach
<1> DEFINE rest == req[a].todo \ {id}
           q == [req[a] EXCEPT !.todo = rest]
<1>2. pc[a] = "revokeEach" /\ Inside(a) /\ ~Holding(a) /\ ~Replaces(a)
  BY DEF RevokeEach, Inside, Holding, Replaces
<1>3. /\ req[a].op = "revoke" /\ UOwn(a, n) /\ faults \in Nat /\ req[a] \in Requests
      /\ faults <= 1
  BY <1>2, OnlyRevoke, UOwnBefore, AtWork DEF UInv, KInv, SInv, RInv, ActorOK, InItsOp
<1>4. /\ \A i \in req[a].todo : \E s \in live : s.id = i
      /\ faults = 0 => req[a].todo \subseteq {secrets[n].sid}
  BY <1>2, <1>3 DEF UOwn, Targets
<1>5. q.name = n /\ q.op = "revoke" /\ q.todo = rest
  BY <1>3 DEF Requests
<1>6. \/ /\ live' = {s \in live : s.id # id} /\ secrets' = secrets /\ faults' = faults
         /\ Move(a, IF rest = {} THEN "persist" ELSE "revokeEach", q)
      \/ UNCHANGED world /\ faults' = faults + 1 /\ Return(a, FALSE)
  BY <1>1, <1>3, <1>4 DEF RevokePersonalSession, Call, AfterRevoke, NoFault, Fault, MadeGood,
     UInv, KInv, SameSecrets
<1>7. CASE /\ live' = {s \in live : s.id # id} /\ secrets' = secrets /\ faults' = faults
           /\ Move(a, IF rest = {} THEN "persist" ELSE "revokeEach", q)
  <2>1. /\ req'[a].name = n /\ req'[a].op = "revoke" /\ req'[a].todo = rest
        /\ pc'[a] = IF rest = {} THEN "persist" ELSE "revokeEach"
    <3> HIDE DEF q, rest
    <3> QED
      BY <1>5, <1>7 DEF Move, UInv, KInv, SInv, RInv, IInv, TypeOK
  <2>2. ~Holding(a)' /\ ~Replaces(a)' /\ ~Admits(a)'
    BY <2>1 DEF Holding, Replaces, Issuing, Admits
  <2>3. \A i \in rest : \E s \in live' : s.id = i
    BY <1>4, <1>7
  <2>4. faults = 0 => rest = {}
    BY <1>4
  <2> HIDE DEF q, rest
  <2>5. Targets(a)'
    BY <1>7, <2>1, <2>2, <2>3, <2>4 DEF Targets
  <2>6. Kills(a)'
    BY <1>3, <1>7, <2>1, <2>4 DEF Kills
  <2>7. faults = 0 => \A s \in SessionsOf(n)' : s.id = secrets[n].sid
    BY <1>2, <1>3, <1>7 DEF UOwn, SessionsOf
  <2> QED
    BY <1>3, <1>7, <2>2, <2>5, <2>6, <2>7 DEF UOwn
<1>8. CASE UNCHANGED world /\ faults' = faults + 1 /\ Return(a, FALSE)
  <2>1. faults = 0 /\ faults' # 0
    BY <1>3, <1>8
  <2>2. ~Kills(a)
    BY <1>2, <2>1 DEF Kills
  <2>3. Over(a) /\ live' = live /\ secrets'[n] = secrets[n]
    BY <1>8 DEF Over, world
  <2> QED
    BY <1>2, <2>2, <2>3, QuietOver
<1> QED
  BY <1>6, <1>7, <1>8

\* The Secret that is cleared records no session.
LEMMA ClearedUsable ==
  ASSUME UInv, NEW a \in Actors, Inside(a), NEW n, n = req[a].name, req[a].rec \in Records,
         Put(a, n, Cleared(req[a].rec, FinalStatus(req[a].op))), Over(a),
         faults' >= 1 \/ Emptied(n)
  PROVE  UOwn(a, n)'
<1> DEFINE r == Cleared(req[a].rec, FinalStatus(req[a].op))
<1>1. r.status # "active" /\ r.sid = 0
  BY DEF Cleared, FinalStatus, Records
<1>2. secrets'[n] = r /\ live' = live
  BY AtWork DEF Put, UInv, KInv, SInv, RInv, IInv, TypeOK
<1> HIDE DEF r
<1>3. faults' = 0 => SessionsOf(n)' = {}
  BY <1>2 DEF Emptied, SessionsOf
<1> QED
  BY <1>1, <1>2, <1>3, OverUsable

LEMMA PersistClearedUsable ==
  ASSUME UInv, KInv', MadeGood, NEW a \in Actors, Works(a), faults' \in {faults, faults + 1},
         PersistCleared(a), NEW n, n = req[a].name
  PROVE  UOwn(a, n)'
<1>1. pc[a] = "persist" /\ Inside(a) /\ req[a].op = "revoke" /\ Kills(a)
  BY OnlyRevoke DEF PersistCleared, Inside, Kills
<1>2. /\ req[a].rec \in Records /\ secrets[n] # NoSecret /\ a \notin stale /\ UOwn(a, n)
      /\ faults \in Nat /\ Emptied(n)
  BY <1>1, AtWork, NotStale, UOwnBefore DEF UInv, KInv, SInv, RInv, ActorOK, Current, Traced,
     Revoked
<1>3. \/ Put(a, n, Cleared(req[a].rec, FinalStatus(req[a].op))) /\ Return(a, TRUE)
      \/ UNCHANGED world /\ faults' = faults + 1 /\ Goto(a, "clearGet")
  BY <1>2 DEF PersistCleared, UpdateAgent, Call, Fault, MadeGood, UInv, KInv
<1>4. CASE Put(a, n, Cleared(req[a].rec, FinalStatus(req[a].op))) /\ Return(a, TRUE)
  BY <1>1, <1>2, <1>4, ClearedUsable DEF Over
<1>5. CASE UNCHANGED world /\ faults' = faults + 1 /\ Goto(a, "clearGet")
  <2>1. pc'[a] = "clearGet" /\ secrets' = secrets /\ faults' # 0
    BY <1>2, <1>5, Arrives DEF UInv, KInv, SInv, world
  <2>2. Kills(a)' /\ Targets(a)'
    BY <2>1 DEF Kills, Targets, Admits
  <2>3. faults' <= 1 => faults <= 1
    BY <1>2
  <2> QED
    BY <1>2, <2>1, <2>2, <2>3 DEF UOwn
<1> QED
  BY <1>3, <1>4, <1>5

\* A second failure on the way is one too many.
LEMMA ClearingUsable ==
  ASSUME UInv, KInv', MadeGood, NEW a \in Actors, Works(a), faults' \in {faults, faults + 1},
         ClearRead(a) \/ ClearWrite(a) \/ Purge(a), NEW n, n = req[a].name
  PROVE  UOwn(a, n)'
<1> SUFFICES ASSUME faults' <= 1 PROVE UOwn(a, n)'
  BY DEF UOwn
<1>1. pc[a] \in {"clearGet", "clearPut", "purge"} /\ Inside(a)
  BY DEF ClearRead, ClearWrite, Purge, Inside
<1>2. faults \in Nat /\ UOwn(a, n) /\ faults = 1 /\ faults' = 1 /\ pc[a] # "purge"
  BY <1>1, UOwnBefore DEF UInv, KInv, SInv, RInv, IInv, TypeOK, Traced, Undoing
<1>3. CASE ClearRead(a)
  <2> DEFINE q == [req[a] EXCEPT !.rec = secrets[n]]
  <2>1. /\ secrets' = secrets
        /\ \/ secrets[n] = NoSecret /\ Return(a, FALSE)
           \/ Move(a, "clearPut", q)
           \/ faults' = faults + 1
    BY <1>3 DEF ClearRead, GetAgent, Ask, Fault, UInv, KInv
  <2>2. CASE secrets[n] = NoSecret /\ Return(a, FALSE)
    <3>1. secrets'[n].status # "active" /\ secrets'[n].sid = 0 /\ faults' # 0
      BY <1>2, <2>1, <2>2 DEF NoSecret
    <3>2. Over(a)
      BY <2>2 DEF Over
    <3> QED
      BY <3>1, <3>2, OverUsable
  <2>3. CASE Move(a, "clearPut", q)
    <3> HIDE DEF q
    <3>1. pc'[a] = "clearPut"
      BY <2>3 DEF Move, UInv, KInv, SInv, RInv, IInv, TypeOK
    <3>2. Kills(a)' /\ Targets(a)'
      BY <3>1 DEF Kills, Targets, Admits
    <3> QED
      BY <1>2, <2>1, <3>2 DEF UOwn
  <2>4. ~(faults' = faults + 1)
    BY <1>2
  <2> QED
    BY <2>1, <2>2, <2>3, <2>4
<1>4. CASE ClearWrite(a)
  <2>1. pc[a] = "clearPut" /\ req[a].op # "create"
    BY <1>4 DEF ClearWrite, UInv, KInv, SInv, RInv, IInv, ActorOK, InItsOp
  <2>2. req[a].rec \in Records /\ secrets[n] # NoSecret /\ a \notin stale
    BY <1>1, <1>2, <2>1, AtWork, NotStale DEF UInv, KInv, SInv, RInv, Requests, Traced
  <2>3. \/ Put(a, n, Cleared(req[a].rec, FinalStatus(req[a].op))) /\ Return(a, FALSE)
        \/ faults' = faults + 1
    BY <1>4, <2>2 DEF ClearWrite, UpdateAgent, Call, Fault, MadeGood, UInv, KInv
  <2>4. ~(faults' = faults + 1) /\ faults' >= 1
    BY <1>2
  <2> QED
    BY <1>1, <2>2, <2>3, <2>4, ClearedUsable DEF Over
<1> QED
  BY <1>1, <1>2, <1>3, <1>4 DEF Purge

\* SetAvatar keeps the session and the token that it read.
LEMMA PersistAvatarUsable ==
  ASSUME UInv, KInv', MadeGood, NEW a \in Actors, Works(a), faults' \in {faults, faults + 1},
         PersistAvatar(a), NEW n, n = req[a].name
  PROVE  UOwn(a, n)'
<1> DEFINE r == [req[a].rec EXCEPT !.avatar = req[a].uri]
<1>1. /\ pc[a] = "persist" /\ req[a].op = "avatar" /\ Inside(a) /\ ~Kills(a) /\ ~Holding(a)
      /\ ~Replaces(a)
  BY DEF PersistAvatar, Inside, Kills, Holding, Replaces, Issuing
<1>2. /\ n \in Names /\ secrets \in [Names -> Records] /\ req[a].rec = secrets[n]
      /\ secrets[n] \in Records /\ a \notin stale /\ UOwn(a, n) /\ faults \in Nat
  BY <1>1, AtWork, NotStale, UOwnBefore DEF UInv, KInv, SInv, RInv, IInv, TypeOK, ActorOK, Current
<1>3. \/ Put(a, n, r) /\ Return(a, TRUE)
      \/ UNCHANGED world /\ Goto(a, "undoAvatar")
  BY <1>2 DEF PersistAvatar, UpdateAgent, Call, Fault, MadeGood, UInv, KInv
<1>4. CASE Put(a, n, r) /\ Return(a, TRUE)
  <2>1. r.status = secrets[n].status /\ r.sid = secrets[n].sid /\ r.token = secrets[n].token
    BY <1>2 DEF Records
  <2>2. secrets'[n] = r /\ live' = live
    BY <1>2, <1>4 DEF Put
  <2> HIDE DEF r
  <2>3. /\ Recording(n) => Recording(n)'
        /\ \A s : s \in SessionsOf(n)' <=> s \in SessionsOf(n)
    BY <2>1, <2>2 DEF Recording, SessionsOf
  <2>4. (faults' <= 1 => faults <= 1) /\ (faults' = 0 => faults = 0)
    BY <1>2
  <2>5. faults' <= 1 =>
          /\ secrets'[n].status = "active" => Recording(n)'
          /\ secrets'[n].status # "active" => secrets'[n].sid = 0
          /\ faults' = 0 => \A s \in SessionsOf(n)' : s.id = secrets'[n].sid
    BY <1>1, <1>2, <2>1, <2>2, <2>3, <2>4 DEF UOwn
  <2>6. Over(a)
    BY <1>4 DEF Over
  <2> QED
    BY <2>5, <2>6, OverUsable
<1>5. CASE UNCHANGED world /\ Goto(a, "undoAvatar")
  <2>1. pc'[a] = "undoAvatar" /\ secrets' = secrets /\ live' = live
    BY <1>5, Arrives DEF UInv, KInv, SInv, world
  <2>2. ~Holding(a)' /\ Targets(a)'
    BY <2>1 DEF Holding, Targets, KInv, SInv, RInv, IInv, ActorOK, InItsOp, Admits
  <2> QED
    BY <1>1, <2>1, <2>2, QuietUsable
<1> QED
  BY <1>3, <1>4, <1>5

-----------------------------------------------------------------------------
(* The theorem about active Secrets. *)

LEMMA AroundUsable ==
  ASSUME UInv, KInv', Around, faults' = faults,
         \A b \in Actors : req'[b].op \in Ops \cup {"none"}
  PROVE  UInv'
<1>1. \A b \in Actors : /\ Kills(b)' = Kills(b) /\ Replaces(b)' = Replaces(b)
                        /\ Holding(b)' = Holding(b)
                        /\ Kills(b) \/ Holding(b) => req'[b] = req[b]
  BY DEF Around, Early, Kills, Replaces, Holding
<1>2. \A b \in Actors : Targets(b) => Targets(b)'
  BY DEF Around, Early, Targets, Admits
<1>3. \A n : \A s : s \in SessionsOf(n)' <=> s \in SessionsOf(n)
  BY DEF Around, SessionsOf
<1>4. \A b \in Actors : Replaces(b) => Holding(b)
  BY DEF Replaces
<1>5. ASSUME NEW n \in Names, Usable(n) PROVE Usable(n)'
  BY <1>1, <1>5 DEF Around, Usable
<1>6. ASSUME NEW n \in Names, Single(n) PROVE Single(n)'
  BY <1>1, <1>3, <1>4, <1>6 DEF Around, Single
<1> QED
  BY <1>2, <1>5, <1>6 DEF UInv

LEMMA EnvironmentCounts ==
  ASSUME UInv, MadeGood,
         \/ \E a \in Actors : Start(a) \/ Acquire(a) \/ CheckDevice(a)
         \/ Environment \/ UNCHANGED vars
  PROVE  faults' = faults /\ \A b \in Actors : req'[b].op \in Ops \cup {"none"}
<1>1. /\ req \in [Actors -> Requests]
      /\ \A b \in Actors : req[b].op \in Ops \cup {"none"}
  BY DEF UInv, KInv, SInv, RInv, IInv, TypeOK
<1>2. ASSUME NEW a \in Actors, Start(a)
      PROVE  faults' = faults /\ \A b \in Actors : req'[b].op \in Ops \cup {"none"}
  <2>1. PICK op \in Ops, n \in Names : Move(a, "lock", [NoRequest EXCEPT !.op = op, !.name = n])
    BY <1>2 DEF Start
  <2>2. [NoRequest EXCEPT !.op = op, !.name = n].op = op
    BY DEF NoRequest
  <2> QED
    BY <1>1, <1>2, <2>1, <2>2 DEF Start, Move, NoFault
<1>3. ASSUME NEW a \in Actors, Acquire(a) \/ CheckDevice(a)
      PROVE  faults' = faults /\ \A b \in Actors : req'[b].op \in Ops \cup {"none"}
  <2>1. req' = req \/ req' = [req EXCEPT ![a] = req[a]]
    BY <1>3 DEF Acquire, CheckDevice, Goto, Move
  <2>2. faults' = faults
    BY <1>3 DEF Acquire, CheckDevice, NoFault
  <2> QED
    BY <1>1, <2>1, <2>2
<1>4. ~Environment
  BY DEF Environment, Expire, Crash, EditSecret, Fault, MadeGood
<1>5. CASE UNCHANGED vars
  BY <1>1, <1>5 DEF vars
<1> QED
  BY <1>2, <1>3, <1>4, <1>5

LEMMA RunUsable ==
  ASSUME UInv, KInv', MadeGood, NEW a \in Actors, Works(a), faults' \in {faults, faults + 1},
         Run(a), ~CheckDevice(a), NEW n, n = req[a].name
  PROVE  UOwn(a, n)'
<1>1. CASE CreateStep(a)
  BY <1>1, EarlyUsable, IssueCreateUsable, SyncUsable, PersistCreatedUsable, UndoCreateUsable
  DEF CreateStep
<1>2. CASE RotateStep(a)
  BY <1>2, IssueRotateUsable, RevokeOldUsable, PersistRotatedUsable, UndoRotateUsable
  DEF RotateStep
<1>3. CASE WithdrawStep(a)
  <2>1. ~DeactivateUser(a) /\ ~DeleteSecret(a)
    BY OnlyRevoke DEF DeactivateUser, DeleteSecret, UInv, KInv, SInv, RInv, IInv, ActorOK, InItsOp
  <2> QED
    BY <1>3, <2>1, ListUsable, RevokeEachUsable, PersistClearedUsable, ClearingUsable
    DEF WithdrawStep
<1>4. CASE AvatarStep(a)
  BY <1>4, EarlyUsable, PersistAvatarUsable DEF AvatarStep
<1> QED
  BY <1>1, <1>2, <1>3, <1>4, EarlyUsable DEF Run

LEMMA InitUsable == Init => UInv
<1> SUFFICES ASSUME Init PROVE UInv
  OBVIOUS
<1>1. \A a \in Actors : Targets(a) /\ req[a].op \in Ops \cup {"none"}
  BY DEF Init, Targets, Admits, NoRequest
<1>2. \A n \in Names : Usable(n) /\ Single(n)
  BY DEF Init, Usable, Single, SessionsOf, NoSecret
<1> QED
  BY <1>1, <1>2, InitKept DEF UInv

LEMMA NextUsable ==
  ASSUME MadeGood
  PROVE  UInv /\ KInv' /\ [Next]_vars => UInv'
<1> SUFFICES ASSUME UInv, KInv', [Next]_vars PROVE UInv'
  OBVIOUS
<1>1. ASSUME NEW a \in Actors, Run(a), ~CheckDevice(a) PROVE UInv'
  <2>1. Works(a) /\ faults' \in {faults, faults + 1}
    BY <1>1, RunWorks, RunCounts DEF UInv, KInv
  <2> QED
    BY <1>1, <2>1, RunUsable, OwnUsable
<1>2. CASE \/ \E a \in Actors : Start(a) \/ Acquire(a) \/ CheckDevice(a)
           \/ Environment \/ UNCHANGED vars
  <2>1. Around
    BY <1>2, EnvironmentAround DEF MadeGood, Answered, UInv
  <2> QED
    BY <1>2, <2>1, EnvironmentCounts, AroundUsable
<1> QED
  BY <1>1, <1>2 DEF Next

\* With every operation over, nobody stands between a Secret and its session.
LEMMA UsableMeans ==
  ASSUME UInv, faults <= 1
  PROVE  ActiveIsUsable
<1> SUFFICES ASSUME NEW n \in Names, lock[n] = Nobody, secrets[n].status = "active"
             PROVE  Recording(n)
  BY DEF ActiveIsUsable, Recording
<1>1. \A a \in Actors : Inside(a) => lock[req[a].name] # Nobody
  BY NullAssumption DEF UInv, KInv, SInv, RInv, IInv, ActorOK, Guarded
<1>2. \A a \in Actors : Kills(a) => req[a].name # n
  BY <1>1 DEF Kills, Inside
<1> QED
  BY <1>2 DEF UInv, Usable, Recording

\* One failed call, or one answer of MAS without a token, leaves no active Secret with a
\* dead token, whichever of Create, Rotate, Recover, Revoke and SetAvatar it meets, for
\* any agents, actors and kinds of token: what the operation began is undone, or the
\* token taken out.  Deactivate and Remove are outside: they end the sessions first, and
\* an error between the two steps leaves the Secret as it was.
THEOREM OneFailureUsable ==
  ASSUME Faults \subseteq {"fail", "blank"}, Ops \cap {"deactivate", "remove"} = {}
  PROVE  Spec => [](faults <= 1 => ActiveIsUsable)
<1>1. UInv /\ KInv' /\ [Next]_vars => UInv'
  BY NextUsable DEF MadeGood
<1>2. Spec => []KInv
  BY AnsweredKept DEF Answered
<1>3. UInv => (faults <= 1 => ActiveIsUsable)
  BY UsableMeans
<1> QED
  BY <1>1, <1>2, <1>3, InitUsable, PTL DEF Spec
=============================================================================
