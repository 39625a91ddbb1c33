------------------------- MODULE AgentSettledProofs -------------------------
(***************************************************************************)
(* What an operation that succeeded says of the three stores stays true    *)
(* until another operation begins to change the agent, for any agents,     *)
(* actors, operations and failures.                                        *)
(***************************************************************************)
EXTENDS AgentLifecycleProofs

-----------------------------------------------------------------------------
(* What a step leaves alone, and what is then left to show. *)

\* The stores of the other agents are as before, and a new token is the next one.
StoresApart(n) ==
    /\ \A m \in Names \ {n} :
          /\ secrets'[m] = secrets[m] /\ users'[m] = users[m]
          /\ \A s : s \in SessionsOf(m)' <=> s \in SessionsOf(m)
    /\ issued' \in {issued, issued + 1}
    /\ \A s \in live' : s \in live \/ s.token = issued + 1

Apart(a) ==
    LET n == req[a].name IN
    /\ OthersStay(a) /\ StoresApart(n)
    /\ req'[a].name \in {n, Nobody}
    /\ \A m \in Names \ {n} : settled'[m] = settled[m]

LEMMA RecordedKept ==
  ASSUME SInv, NEW n \in Names, secrets'[n] = secrets[n], issued' \in {issued, issued + 1},
         \A s \in live' : s \in live \/ s.token = issued + 1
  PROVE  Recorded(n)'
<1>1. /\ issued \in Nat /\ secrets[n].token \in Nat /\ secrets[n].token <= issued
      /\ \A s \in live : s.token = secrets[n].token => s.owner = n /\ s.id = secrets[n].sid
  BY DEF SInv, RInv, IInv, TypeOK, Records, Recorded
<1>2. secrets[n].token # issued + 1 /\ secrets[n].token <= issued'
  BY <1>1
<1> QED
  BY <1>1, <1>2 DEF Recorded

LEMMA OthersSettled ==
  ASSUME SInv, NEW a \in Actors, Inside(a), Apart(a), NEW m \in Names \ {req[a].name}
  PROVE  Settled(m)'
<1>1. Settled(m) /\ secrets'[m] = secrets[m] /\ users'[m] = users[m] /\ settled'[m] = settled[m]
  BY DEF SInv, Apart, StoresApart
<1>2. \A b \in Actors : Inside(b) /\ req[b].name = m => Inside(b)' /\ req'[b].name = m
                                                       /\ pc'[b] = pc[b]
  BY DEF Apart, OthersStay, Inside
<1>3. \A s : s \in SessionsOf(m)' <=> s \in SessionsOf(m)
  BY DEF Apart, StoresApart
<1>4. Agrees(m) => Agrees(m)'
  BY <1>1, <1>3 DEF Agrees, Emptied, SessionsOf
<1> QED
  BY <1>1, <1>2, <1>4 DEF Settled

LEMMA OthersShown ==
  ASSUME SInv, NEW a \in Actors, Inside(a), Apart(a), NEW b \in Actors \ {a}
  PROVE  Shown(b)'
<1>1. pc'[b] = pc[b] /\ req'[b] = req[b] /\ Shown(b)
  BY DEF Apart, OthersStay, SInv
<1>2. CASE Inside(b)
  <2>1. req[b].name \in Names /\ req[b].name # req[a].name
    BY <1>2, InsideIsSole DEF SInv, RInv, Sole
  <2>2. \A s : s \in live /\ s.owner = req[b].name => s \in live'
    BY <2>1 DEF Apart, StoresApart, SessionsOf
  <2> QED
    BY <1>1, <2>2 DEF Shown
<1> QED
  BY <1>1, <1>2 DEF Shown, Inside

LEMMA ApartKeeps ==
  ASSUME SInv, RInv', NEW a \in Actors, Inside(a), Apart(a), NEW n, n = req[a].name,
         Recorded(n)', Settled(n)', Shown(a)'
  PROVE  SInv'
<1>1. ASSUME NEW m \in Names PROVE Recorded(m)' /\ Settled(m)'
  <2>1. CASE m = n
    BY <2>1
  <2>2. CASE m # n
    <3>1. Recorded(m)'
      BY <2>2, RecordedKept DEF Apart, StoresApart
    <3> QED
      BY <2>2, <3>1, OthersSettled
  <2> QED
    BY <2>1, <2>2
<1>2. \A b \in Actors : Shown(b)'
  BY OthersShown
<1> QED
  BY <1>1, <1>2 DEF SInv

-----------------------------------------------------------------------------
(* The ways a step ends. *)

LEMMA LeaveApart ==
  ASSUME SInv, NEW a \in Actors, Inside(a), NEW l \in {"idle", "check"}, Leave(a, l),
         StoresApart(req[a].name),
         NEW v, settled' = settled \/ settled' = [settled EXCEPT ![req[a].name] = v]
  PROVE  Apart(a) /\ Shown(a)' /\ pc'[a] = l
<1>1. req'[a] = NoRequest /\ pc'[a] = l /\ OthersStay(a)
  BY DEF SInv, RInv, IInv, TypeOK, Leave, OthersStay
<1>2. settled \in [Names -> BOOLEAN]
  BY DEF SInv, RInv, IInv, TypeOK
<1> QED
  BY <1>1, <1>2 DEF Apart, Shown, NoRequest

\* An operation that ends with an error unsettles its agent.
LEMMA FailsKeeps ==
  ASSUME SInv, RInv', NEW a \in Actors, Inside(a), Return(a, FALSE),
         NEW n, n = req[a].name, StoresApart(n), Recorded(n)'
  PROVE  SInv'
<1>1. n \in Names /\ settled \in [Names -> BOOLEAN]
  BY AtWork DEF SInv, RInv, IInv, TypeOK
<1>2. Apart(a) /\ Shown(a)'
  BY LeaveApart DEF Return
<1>3. ~settled'[n]
  BY <1>1 DEF Return
<1>4. Settled(n)'
  BY <1>3 DEF Settled
<1> QED
  BY <1>2, <1>4, ApartKeeps

\* One that succeeds leaves the three stores in agreement.
LEMMA SucceedsKeeps ==
  ASSUME SInv, RInv', NEW a \in Actors, Inside(a), Return(a, TRUE) \/ ReturnToken(a),
         NEW n, n = req[a].name, StoresApart(n), Recorded(n)', Agrees(n)'
  PROVE  SInv'
<1>1. Apart(a) /\ Shown(a)'
  BY LeaveApart DEF Return, ReturnToken
<1>2. Settled(n)'
  BY DEF Settled
<1> QED
  BY <1>1, <1>2, ApartKeeps

\* One that changed nothing leaves things as they were.
LEMMA UnchangedKeeps ==
  ASSUME SInv, RInv', NEW a \in Actors, Inside(a), pc[a] \in Untouched, ReturnUnchanged(a),
         SameStores, users' = users, NEW n, n = req[a].name
  PROVE  SInv'
<1>1. n \in Names /\ Sole(a)
  BY InsideIsSole DEF SInv, RInv
<1>2. StoresApart(n) /\ Recorded(n)'
  BY <1>1, RecordedKept DEF StoresApart, SameStores, SessionsOf
<1>3. Apart(a) /\ Shown(a)' /\ settled' = settled
  BY <1>2, LeaveApart DEF ReturnUnchanged
<1>4. Settled(n)'
  <2>1. \A b \in Actors : Inside(b) /\ req[b].name = n => pc[b] \in Untouched
    BY <1>1 DEF Sole
  <2>2. settled[n] => Agrees(n)
    BY <1>1, <2>1 DEF SInv, Settled
  <2>3. Agrees(n) => Agrees(n)'
    BY DEF Agrees, SameStores, Emptied, SessionsOf
  <2> QED
    BY <1>3, <2>2, <2>3 DEF Settled
<1> QED
  BY <1>2, <1>3, <1>4, ApartKeeps

\* One that goes on says nothing until it ends.
LEMMA MovesKeeps ==
  ASSUME SInv, RInv', NEW a \in Actors, Inside(a), NEW l \in Labels, NEW q, Move(a, l, q),
         NEW n, n = req[a].name, q.name = n, StoresApart(n), Recorded(n)',
         l \notin Untouched \cup {"idle", "lock", "check"} \/ Settled(n)',
         l = "persist" /\ q.op = "avatar" => Shown(a)'
  PROVE  SInv'
<1>1. pc'[a] = l /\ req'[a] = q /\ OthersStay(a) /\ settled' = settled
  BY DEF SInv, RInv, IInv, TypeOK, Move, OthersStay
<1>2. Apart(a)
  BY <1>1 DEF Apart
<1>3. Settled(n)'
  <2>1. CASE l \notin Untouched \cup {"idle", "lock", "check"}
    <3>1. Inside(a)' /\ req'[a].name = n /\ pc'[a] \notin Untouched
      BY <1>1, <2>1 DEF Inside
    <3> QED
      BY <3>1 DEF Settled
  <2> QED
    BY <2>1
<1>4. Shown(a)'
  BY <1>1 DEF Shown
<1> QED
  BY <1>2, <1>3, <1>4, ApartKeeps

LEMMA GoesKeeps ==
  ASSUME SInv, RInv', NEW a \in Actors, Inside(a), NEW l \in Labels, Goto(a, l),
         NEW n, n = req[a].name, StoresApart(n), Recorded(n)',
         l \notin Untouched \cup {"idle", "lock", "check"},
         l = "persist" /\ req[a].op = "avatar" => Shown(a)'
  PROVE  SInv'
  BY MovesKeeps DEF Goto

\* While an operation has changed nothing, its agent is as settled as before.
LEMMA StillSettled ==
  ASSUME SInv, NEW a \in Actors, Inside(a), pc[a] \in Untouched, SameStores, users' = users,
         NEW l, NEW q, Move(a, l, q), NEW n, n = req[a].name
  PROVE  Settled(n)'
<1>1. n \in Names /\ Sole(a)
  BY InsideIsSole DEF SInv, RInv
<1>2. \A b \in Actors : Inside(b) /\ req[b].name = n => pc[b] \in Untouched
  BY <1>1 DEF Sole
<1>3. settled[n] => Agrees(n)
  BY <1>1, <1>2 DEF SInv, Settled
<1>4. Agrees(n) => Agrees(n)'
  BY DEF Agrees, SameStores, Emptied, SessionsOf
<1> QED
  BY <1>3, <1>4 DEF Settled, Move

-----------------------------------------------------------------------------
(* The effects a call may have. *)

LEMMA SameApart ==
  ASSUME SInv, NEW n \in Names, SameStores,
         users' = users \/ \E account : SetUser(n, account)
  PROVE  StoresApart(n) /\ Recorded(n)'
<1>1. StoresApart(n)
  BY DEF StoresApart, SameStores, SessionsOf, SetUser, SInv, RInv, IInv, TypeOK
<1> QED
  BY <1>1, RecordedKept DEF SameStores

LEMMA RevokeApart ==
  ASSUME SInv, NEW n \in Names, NEW id, Own(n, id), RevokeEffect(id)
  PROVE  StoresApart(n) /\ Recorded(n)'
<1>1. StoresApart(n) /\ secrets' = secrets
  BY DEF StoresApart, RevokeEffect, SameSecrets, world, SessionsOf, Own
<1> QED
  BY <1>1, RecordedKept DEF StoresApart

LEMMA IssueApart ==
  ASSUME SInv, NEW n \in Names, NEW s, NEW kept, Issue(s, kept),
         s.owner = n, s.token = issued + 1, kept \subseteq live,
         \A x \in live : x \in kept \/ x.owner = n
  PROVE  StoresApart(n) /\ Recorded(n)'
<1>1. StoresApart(n) /\ secrets' = secrets
  BY DEF StoresApart, Issue, SameSecrets, SessionsOf
<1> QED
  BY <1>1, RecordedKept DEF StoresApart

LEMMA PutApart ==
  ASSUME SInv, NEW a \in Actors, NEW n \in Names, NEW r, Put(a, n, r),
         r.token <= issued,
         \A s \in live : s.token = r.token => s.owner = n /\ s.id = r.sid
  PROVE  StoresApart(n) /\ Recorded(n)' /\ secrets'[n] = r /\ live' = live /\ users' = users
<1>1. secrets'[n] = r /\ live' = live /\ users' = users /\ issued' = issued
  BY DEF Put, SInv, RInv, IInv, TypeOK
<1>2. StoresApart(n)
  BY <1>1 DEF Put, StoresApart, SessionsOf
<1> QED
  BY <1>1, <1>2 DEF Recorded

-----------------------------------------------------------------------------
(* The actions. *)

LEMMA EntrySettles ==
  ASSUME SInv, RInv', NEW a \in Actors, ReadSecret(a), NEW n, n = req[a].name
  PROVE  SInv'
<1> DEFINE next == Entry(req[a].op, secrets[n].status)
           q == [req[a] EXCEPT !.rec = secrets[n]]
<1>1. Inside(a) /\ pc[a] \in Untouched /\ SameStores /\ users' = users
  BY DEF ReadSecret, GetAgent, Ask, Inside, SameStores, Untouched
<1>2. n \in Names /\ req[a] \in Requests
  BY <1>1, AtWork DEF SInv, RInv
<1>3. CASE ReturnUnchanged(a)
  BY <1>1, <1>3, UnchangedKeeps
<1>4. CASE next # "return" /\ Move(a, next, q)
  <2>1. q.name = n
    BY <1>2 DEF Requests
  <2>2. next \in Labels /\ next # "persist"
    BY <1>4 DEF Entry, Labels
  <2>3. StoresApart(n) /\ Recorded(n)' /\ Settled(n)'
    BY <1>1, <1>2, <1>4, SameApart, StillSettled
  <2> HIDE DEF q
  <2> QED
    BY <1>1, <1>4, <2>1, <2>2, <2>3, MovesKeeps
<1> QED
  BY <1>3, <1>4 DEF ReadSecret, GetAgent, Ask

LEMMA ListSettles ==
  ASSUME SInv, RInv', NEW a \in Actors, ListSessions(a), NEW n, n = req[a].name
  PROVE  SInv'
<1> DEFINE q == [req[a] EXCEPT !.todo = {s.id : s \in SessionsOf(n)}]
<1>1. /\ Inside(a) /\ pc[a] = "list" /\ pc[a] \in Untouched
      /\ SameStores /\ users' = users
  BY DEF ListSessions, Ask, Inside, SameStores, Untouched
<1>2. n \in Names /\ req[a] \in Requests /\ ActorOK(a)
  BY <1>1, AtWork DEF SInv, RInv
<1>3. CASE ReturnUnchanged(a)
  BY <1>1, <1>3, UnchangedKeeps
<1>4. ASSUME NEW l \in {"revokeEach", "persist", "deactivate"}, Move(a, l, q)
      PROVE  SInv'
  <2>1. q.name = n /\ q.op = req[a].op
    BY <1>2 DEF Requests
  <2>2. q.op # "avatar" /\ l \in Labels
    BY <1>1, <1>2, <2>1 DEF ActorOK, InItsOp, Labels
  <2>3. StoresApart(n) /\ Recorded(n)' /\ Settled(n)'
    BY <1>1, <1>2, <1>4, SameApart, StillSettled
  <2> HIDE DEF q
  <2> QED
    BY <1>1, <1>4, <2>1, <2>2, <2>3, MovesKeeps
<1> QED
  BY <1>3, <1>4 DEF ListSessions, Ask, AfterRevoke

LEMMA UploadSettles ==
  ASSUME SInv, RInv', NEW a \in Actors, UploadAvatar(a), NEW n, n = req[a].name
  PROVE  SInv'
<1>1. Inside(a) /\ pc[a] \in Untouched /\ SameStores /\ users' = users
  BY DEF UploadAvatar, Call, Inside, SameStores, Untouched, world
<1>2. n \in Names /\ req[a] \in Requests
  BY <1>1, AtWork DEF SInv, RInv
<1>3. CASE ReturnUnchanged(a)
  BY <1>1, <1>3, UnchangedKeeps
<1>4. ASSUME NEW uri \in Avatars, Move(a, "setAvatar", [req[a] EXCEPT !.uri = uri])
      PROVE  SInv'
  <2> DEFINE q == [req[a] EXCEPT !.uri = uri]
  <2>1. q.name = n /\ Move(a, "setAvatar", q)
    BY <1>2, <1>4 DEF Requests
  <2>2. StoresApart(n) /\ Recorded(n)' /\ Settled(n)' /\ "setAvatar" \in Labels
    BY <1>1, <1>2, <1>4, SameApart, StillSettled DEF Labels
  <2> HIDE DEF q
  <2> QED
    BY <1>1, <2>1, <2>2, MovesKeeps
<1>5. \/ ReturnUnchanged(a)
      \/ \E uri \in Avatars : Move(a, "setAvatar", [req[a] EXCEPT !.uri = uri])
  BY Zenon DEF UploadAvatar, Call
<1> QED
  BY <1>3, <1>4, <1>5

\* Where an operation is once it may have changed something.
Busy == Labels \ (Untouched \cup {"idle", "lock", "check"})

\* Calls that change no session and no Secret of an operation at work.
LEMMA CallSettles ==
  ASSUME SInv, RInv', NEW a \in Actors, Inside(a), SameStores, NEW n, n = req[a].name,
         users' = users \/ \E account : SetUser(n, account),
         \/ Return(a, FALSE)
         \/ \E l \in Busy : Goto(a, l) /\ (l = "persist" => req[a].op # "avatar")
  PROVE  SInv'
<1>1. n \in Names
  BY AtWork DEF SInv, RInv
<1>2. StoresApart(n) /\ Recorded(n)'
  BY <1>1, SameApart
<1> QED
  BY <1>2, FailsKeeps, GoesKeeps DEF Busy

LEMMA LookupUserSettles ==
  ASSUME SInv, RInv', NEW a \in Actors, LookupUser(a)
  PROVE  SInv'
<1>1. Inside(a) /\ pc[a] \in Untouched /\ SameStores /\ users' = users
  BY DEF LookupUser, Ask, Inside, SameStores, Untouched
<1>2. ReturnUnchanged(a) \/ Goto(a, "admit")
  BY DEF LookupUser, Ask
<1>3. "admit" \in Busy
  BY DEF Busy, Labels, Untouched
<1> QED
  BY <1>1, <1>2, <1>3, UnchangedKeeps, CallSettles

LEMMA AdmitUserSettles ==
  ASSUME SInv, RInv', NEW a \in Actors, AdmitUser(a)
  PROVE  SInv'
<1>1. Inside(a) /\ SameStores /\ (users' = users \/ SetUser(req[a].name, "active"))
  BY DEF AdmitUser, Call, Inside, SameStores, SetUser, SameSecrets, world
<1>2. Return(a, FALSE) \/ Goto(a, "issue")
  BY DEF AdmitUser, Call
<1>3. "issue" \in Busy
  BY DEF Busy, Labels, Untouched
<1> QED
  BY <1>1, <1>2, <1>3, CallSettles

LEMMA SyncProfileSettles ==
  ASSUME SInv, RInv', NEW a \in Actors, SyncProfile(a)
  PROVE  SInv'
<1>1. Inside(a) /\ SameStores /\ users' = users /\ pc[a] = "sync"
  BY DEF SyncProfile, Call, Inside, SameStores, world
<1>2. Goto(a, "persist") \/ Goto(a, "undoCreate")
  BY DEF SyncProfile, Call
<1>3. req[a].op = "create"
  BY <1>1 DEF SInv, RInv, IInv, ActorOK, InItsOp
<1>4. {"persist", "undoCreate"} \subseteq Busy
  BY DEF Busy, Labels, Untouched
<1> QED
  BY <1>1, <1>2, <1>3, <1>4, CallSettles

LEMMA DeactivateUserSettles ==
  ASSUME SInv, RInv', NEW a \in Actors, DeactivateUser(a)
  PROVE  SInv'
<1>1. /\ Inside(a) /\ SameStores /\ pc[a] = "deactivate"
      /\ users' = users \/ SetUser(req[a].name, "deactivated")
  BY DEF DeactivateUser, DeactivateMASUser, Call, Inside, SameStores, SetUser, SameSecrets, world
<1>2. Return(a, FALSE) \/ Goto(a, "delete") \/ Goto(a, "persist")
  BY DEF DeactivateUser, DeactivateMASUser, Call
<1>3. req[a].op # "avatar"
  BY <1>1 DEF SInv, RInv, IInv, ActorOK, InItsOp
<1>4. {"persist", "delete"} \subseteq Busy
  BY DEF Busy, Labels, Untouched
<1> QED
  BY <1>1, <1>2, <1>3, <1>4, CallSettles

LEMMA UndoAvatarSettles ==
  ASSUME SInv, RInv', NEW a \in Actors, UndoAvatar(a)
  PROVE  SInv'
<1>1. Inside(a) /\ SameStores /\ users' = users /\ Return(a, FALSE)
  BY DEF UndoAvatar, SetProfile, Call, Inside, SameStores, SameMAS, SameSecrets, world
<1> QED
  BY <1>1, CallSettles

LEMMA ClearReadSettles ==
  ASSUME SInv, RInv', NEW a \in Actors, ClearRead(a), NEW n, n = req[a].name
  PROVE  SInv'
<1> DEFINE q == [req[a] EXCEPT !.rec = secrets[n]]
<1>1. Inside(a) /\ SameStores /\ users' = users
  BY DEF ClearRead, GetAgent, Ask, Inside, SameStores
<1>2. n \in Names /\ req[a] \in Requests
  BY <1>1, AtWork DEF SInv, RInv
<1>3. {"purge", "clearPut"} \subseteq Busy
  BY DEF Busy, Labels, Untouched
<1>4. CASE Return(a, FALSE) \/ Goto(a, "purge")
  BY <1>1, <1>3, <1>4, CallSettles
<1>5. CASE Move(a, "clearPut", q)
  <2>1. q.name = n
    BY <1>2 DEF Requests
  <2>2. StoresApart(n) /\ Recorded(n)'
    BY <1>1, <1>2, SameApart
  <2> HIDE DEF q
  <2> QED
    BY <1>1, <1>3, <1>5, <2>1, <2>2, MovesKeeps DEF Busy
<1> QED
  BY <1>4, <1>5 DEF ClearRead, GetAgent, Ask, ClearFailed

\* The homeserver that takes the avatar accepts the recorded token.
LEMMA SetAvatarURLSettles ==
  ASSUME SInv, RInv', NEW a \in Actors, SetAvatarURL(a), NEW n, n = req[a].name
  PROVE  SInv'
<1>1. Inside(a) /\ SameStores /\ users' = users /\ pc[a] = "setAvatar"
  BY DEF SetAvatarURL, SetProfile, Call, Inside, SameStores, SameMAS, SameSecrets, world
<1>2. /\ n \in Names /\ req[a] \in Requests /\ ActorOK(a) /\ live \subseteq Sessions
  BY <1>1, AtWork DEF SInv, RInv, WorldTypes
<1>3. CASE Return(a, FALSE)
  BY <1>1, <1>3, CallSettles
<1>4. CASE Goto(a, "persist") /\ Accepted(n, req[a].rec.token)
  <2>1. req[a].rec = secrets[n]
    BY <1>1, <1>2 DEF ActorOK, InItsOp, Current
  <2>2. PICK s \in live : s.owner = n /\ s.token = secrets[n].token
    BY <1>4, <2>1 DEF Accepted, SessionsOf
  <2>3. s.id = secrets[n].sid
    BY <1>2, <2>2 DEF SInv, Recorded
  <2>4. [owner |-> n, id |-> secrets[n].sid, token |-> secrets[n].token] \in live
    BY <1>2, <2>2, <2>3 DEF Sessions
  <2>5. Shown(a)'
    BY <1>1, <1>4, <2>1, <2>4, Arrives DEF SInv, Shown, SameStores
  <2>6. "persist" \in Busy /\ StoresApart(n) /\ Recorded(n)'
    BY <1>1, <1>2, SameApart DEF Busy, Labels, Untouched
  <2> QED
    BY <1>1, <1>4, <2>5, <2>6, GoesKeeps DEF Busy
<1> QED
  BY <1>3, <1>4 DEF SetAvatarURL, SetProfile, Call


-----------------------------------------------------------------------------
(* Calls that revoke sessions. *)

\* An operation that goes on, or ends with an error, after it changed its own agent.
LEMMA WorkSettles ==
  ASSUME SInv, RInv', NEW a \in Actors, Inside(a), NEW n, n = req[a].name,
         StoresApart(n), Recorded(n)',
         \/ Return(a, FALSE)
         \/ \E l \in Busy : Goto(a, l) /\ (l = "persist" => req[a].op # "avatar")
         \/ \E l \in Busy, q \in Requests :
               Move(a, l, q) /\ q.name = n /\ (l = "persist" => q.op # "avatar")
  PROVE  SInv'
<1>1. ASSUME NEW l \in Busy, NEW q \in Requests, Move(a, l, q), q.name = n,
             l = "persist" => q.op # "avatar"
      PROVE  SInv'
  BY <1>1, MovesKeeps DEF Busy
<1>2. ASSUME NEW l \in Busy, Goto(a, l), l = "persist" => req[a].op # "avatar"
      PROVE  SInv'
  BY <1>2, GoesKeeps DEF Busy
<1> QED
  BY <1>1, <1>2, FailsKeeps

LEMMA RevokeOldSettles ==
  ASSUME SInv, RInv', NEW a \in Actors, RevokeOld(a), NEW n, n = req[a].name
  PROVE  SInv'
<1>1. /\ Inside(a) /\ pc[a] = "revokeOld" /\ RevokeEffect(req[a].rec.sid)
      /\ Goto(a, "persist") \/ Goto(a, "undoNew")
  BY DEF RevokeOld, RevokePersonalSession, Call, Inside, RevokeEffect
<1>2. n \in Names /\ Own(n, req[a].rec.sid) /\ req[a].op # "avatar"
  BY <1>1, AtWork DEF SInv, RInv, KnowsOwn, ActorOK, InItsOp
<1>3. StoresApart(n) /\ Recorded(n)'
  BY <1>1, <1>2, RevokeApart
<1>4. {"persist", "undoNew"} \subseteq Busy
  BY DEF Busy, Labels, Untouched
<1> QED
  BY <1>1, <1>2, <1>3, <1>4, WorkSettles

LEMMA UndoRotateSettles ==
  ASSUME SInv, RInv', NEW a \in Actors, UndoRotate(a), NEW n, n = req[a].name
  PROVE  SInv'
<1>1. /\ Inside(a) /\ RevokeEffect(req[a].ses.id)
      /\ Return(a, FALSE) \/ Goto(a, "clearGet")
  BY DEF UndoRotate, RevokePersonalSession, Call, Inside, RevokeEffect
<1>2. n \in Names /\ Own(n, req[a].ses.id)
  BY <1>1, AtWork DEF SInv, RInv, KnowsOwn
<1>3. StoresApart(n) /\ Recorded(n)'
  BY <1>1, <1>2, RevokeApart
<1>4. "clearGet" \in Busy
  BY DEF Busy, Labels, Untouched
<1> QED
  BY <1>1, <1>3, <1>4, WorkSettles

LEMMA UndoCreateSettles ==
  ASSUME SInv, RInv', NEW a \in Actors, UndoCreate(a), NEW n, n = req[a].name
  PROVE  SInv'
<1>1. CASE pc[a] = "undoCreate"
  <2>1. Inside(a) /\ RevokeEffect(req[a].ses.id) /\ Goto(a, "undoUser")
    BY <1>1 DEF UndoCreate, RevokePersonalSession, Call, Inside, RevokeEffect
  <2>2. n \in Names /\ Own(n, req[a].ses.id)
    BY <2>1, AtWork DEF SInv, RInv, KnowsOwn
  <2>3. StoresApart(n) /\ Recorded(n)'
    BY <2>1, <2>2, RevokeApart
  <2>4. "undoUser" \in Busy
    BY DEF Busy, Labels, Untouched
  <2> QED
    BY <2>1, <2>3, <2>4, WorkSettles
<1>2. CASE pc[a] = "undoUser"
  <2>1. /\ Inside(a) /\ SameStores /\ Return(a, FALSE)
        /\ users' = users \/ SetUser(n, "deactivated")
    BY <1>2 DEF UndoCreate, DeactivateMASUser, SetUser, SameSecrets, Call, Inside, SameStores, world
  <2> QED
    BY <2>1, CallSettles
<1> QED
  BY <1>1, <1>2 DEF UndoCreate

LEMMA RevokeEachSettles ==
  ASSUME SInv, RInv', NEW a \in Actors, RevokeEach(a), NEW n, n = req[a].name
  PROVE  SInv'
<1>1. PICK id \in req[a].todo :
        LET rest == req[a].todo \ {id}
        IN  RevokePersonalSession(a, id,
                Move(a, IF rest = {} THEN AfterRevoke(req[a].op) ELSE "revokeEach",
                     [req[a] EXCEPT !.todo = rest]),
                Return(a, FALSE))
  BY DEF RevokeEach
<1> DEFINE q == [req[a] EXCEPT !.todo = @ \ {id}]
<1>2. Inside(a) /\ pc[a] = "revokeEach" /\ Own(n, id) /\ RevokeEffect(id)
  BY <1>1 DEF RevokeEach, RevokePersonalSession, Call, Inside, RevokeEffect, SInv, RInv, KnowsOwn
<1>3. n \in Names /\ req[a] \in Requests /\ req[a].op # "avatar"
  BY <1>2, AtWork DEF SInv, RInv, ActorOK, InItsOp
<1>4. q \in Requests /\ q.name = n /\ q.op = req[a].op
  BY <1>3 DEF Requests
<1>5. StoresApart(n) /\ Recorded(n)'
  BY <1>2, <1>3, RevokeApart
<1>6. \/ Return(a, FALSE)
      \/ \E l \in {"revokeEach", "persist", "deactivate"} : Move(a, l, q)
  BY <1>1 DEF RevokePersonalSession, Call, AfterRevoke
<1>7. {"revokeEach", "persist", "deactivate"} \subseteq Busy
  BY DEF Busy, Labels, Untouched
<1> HIDE DEF q
<1> QED
  BY <1>2, <1>3, <1>4, <1>5, <1>6, <1>7, WorkSettles


-----------------------------------------------------------------------------
(* Calls that issue a token. *)

LEMMA IssueForCreateSettles ==
  ASSUME SInv, RInv', NEW a \in Actors, IssueForCreate(a), NEW n, n = req[a].name
  PROVE  SInv'
<1> DEFINE i == issued + 1
           s == [owner |-> n, id |-> i, token |-> i]
           q(token) == [req[a] EXCEPT !.ses = [id |-> i, token |-> token]]
<1>1. Inside(a) /\ pc[a] = "issue" /\ req[a].op = "create"
  BY DEF IssueForCreate, Inside
<1>2. n \in Names /\ req[a] \in Requests /\ i \in Nat
  BY <1>1, AtWork DEF SInv, RInv
<1>3. ASSUME NEW token \in {0, i}
      PROVE  q(token) \in Requests /\ q(token).name = n /\ q(token).op # "avatar"
  BY <1>1, <1>2, <1>3 DEF Requests
<1>4. s.owner = n /\ s.token = issued + 1
  OBVIOUS
<1>5. Issue(s, live) \/ UNCHANGED world
  BY DEF IssueForCreate, Call
<1>6. StoresApart(n) /\ Recorded(n)'
  <2>1. CASE Issue(s, live)
    <3> HIDE DEF s
    <3> QED
      BY <1>2, <1>4, <2>1, IssueApart
  <2>2. CASE UNCHANGED world
    BY <1>2, <2>2, SameApart DEF world, SameStores
  <2> QED
    BY <1>5, <2>1, <2>2
<1>7. \/ Move(a, "sync", q(i))
      \/ Goto(a, "undoUser")
      \/ Move(a, "undoCreate", q(0))
  BY DEF IssueForCreate, Call
<1>8. {"sync", "undoUser", "undoCreate"} \subseteq Busy
  BY DEF Busy, Labels, Untouched
<1> HIDE DEF q, i
<1>9. CASE Goto(a, "undoUser")
  BY <1>1, <1>6, <1>8, <1>9, WorkSettles
<1>10. ASSUME NEW l \in {"sync", "undoCreate"}, NEW token \in {0, i}, Move(a, l, q(token))
       PROVE  SInv'
  <2>1. l \in Labels /\ l \notin Untouched \cup {"idle", "lock", "check"}
    BY <1>8, <1>10 DEF Busy
  <2>2. q(token).name = n /\ q(token).op # "avatar"
    BY <1>3, <1>10
  <2> QED
    BY <1>1, <1>6, <1>10, <2>1, <2>2, MovesKeeps
<1> QED
  BY <1>7, <1>9, <1>10

LEMMA IssueForRotateSettles ==
  ASSUME SInv, RInv', NEW a \in Actors, IssueForRotate(a), NEW n, n = req[a].name
  PROVE  SInv'
<1> DEFINE t == issued + 1
           id == IF Regenerated(a) THEN req[a].rec.sid ELSE t
           kept == {x \in live : x.id # id}
           s == [owner |-> n, id |-> id, token |-> t]
           swapped == [s EXCEPT !.id = t]
           q(token) == [req[a] EXCEPT !.ses = [id |-> id, token |-> token]]
<1>1. Inside(a) /\ pc[a] = "issue" /\ req[a].op \in {"rotate", "recover"}
  BY DEF IssueForRotate, Inside
<1>2. n \in Names /\ req[a] \in Requests /\ t \in Nat /\ issued \in Nat
  BY <1>1, AtWork DEF SInv, RInv
<1>3. id \in Nat /\ \A x \in live : x.id = id => x.owner = n
  <2>1. Own(n, req[a].rec.sid) /\ req[a].rec.sid \in Nat
    BY <1>2 DEF SInv, RInv, KnowsOwn, Requests, Records
  <2>2. \A x \in live : x.id \in Nat /\ x.id <= issued
    BY DEF SInv, RInv, IInv, TypeOK, SessionsOwned, Own, Sessions
  <2>3. \A x \in live : x.id # t
    BY <1>2, <2>2
  <2> QED
    BY <1>2, <2>1, <2>3 DEF Own
<1>4. ASSUME NEW token \in {0, t}
      PROVE  q(token) \in Requests /\ q(token).name = n /\ q(token).op # "avatar"
  BY <1>1, <1>2, <1>3, <1>4 DEF Requests
<1>5. s.owner = n /\ s.token = t /\ swapped.owner = n /\ swapped.token = t
  OBVIOUS
<1>6. Issue(s, kept) \/ Issue(swapped, kept) \/ UNCHANGED world
  BY DEF IssueForRotate, Call
<1>7. StoresApart(n) /\ Recorded(n)'
  <2>1. kept \subseteq live /\ \A x \in live : x \in kept \/ x.owner = n
    BY <1>3
  <2>2. ASSUME NEW x \in {s, swapped}, Issue(x, kept) PROVE StoresApart(n) /\ Recorded(n)'
    <3>1. x.owner = n /\ x.token = issued + 1
      BY <1>5, <2>2
    <3> HIDE DEF s, swapped, kept
    <3> QED
      BY <1>2, <2>1, <2>2, <3>1, IssueApart
  <2>3. CASE UNCHANGED world
    BY <1>2, <2>3, SameApart DEF world, SameStores
  <2> QED
    BY <1>6, <2>2, <2>3
<1>8. \/ Return(a, FALSE) \/ Goto(a, "clearGet")
      \/ \E l \in {"persist", "revokeOld", "undoRotate", "undoNew"}, token \in {0, t} :
            Move(a, l, q(token))
  BY DEF IssueForRotate, Call
<1>9. {"persist", "revokeOld", "undoRotate", "undoNew", "clearGet"} \subseteq Busy
  BY DEF Busy, Labels, Untouched
<1> HIDE DEF q, id, t
<1>10. CASE Return(a, FALSE) \/ Goto(a, "clearGet")
  BY <1>1, <1>7, <1>9, <1>10, WorkSettles
<1>11. ASSUME NEW l \in {"persist", "revokeOld", "undoRotate", "undoNew"},
              NEW token \in {0, t}, Move(a, l, q(token))
       PROVE  SInv'
  <2>1. l \in Labels /\ l \notin Untouched \cup {"idle", "lock", "check"}
    BY <1>9, <1>11 DEF Busy
  <2>2. q(token).name = n /\ q(token).op # "avatar"
    BY <1>4, <1>11
  <2> QED
    BY <1>1, <1>7, <1>11, <2>1, <2>2, MovesKeeps
<1> QED
  BY <1>8, <1>10, <1>11


-----------------------------------------------------------------------------
(* Calls that write the Secret. *)

\* The token in hand works, and with the session in hand only.
LEMMA HandApart ==
  ASSUME SInv, NEW a \in Actors, Inside(a), Holding(a), NEW n, n = req[a].name,
         NEW r, r.status = "active", r.sid = req[a].ses.id, r.token = req[a].ses.token,
         Put(a, n, r)
  PROVE  StoresApart(n) /\ Recorded(n)' /\ Agrees(n)'
<1>1. n \in Names /\ issued \in Nat /\ HandOK(a) /\ HandLive(a)
  BY AtWork DEF SInv, RInv, ActorOK
<1>2. r.token <= issued /\ \A s \in live : s.token = r.token => s.owner = n /\ s.id = r.sid
  BY <1>1 DEF HandOK
<1>3. StoresApart(n) /\ Recorded(n)' /\ secrets'[n] = r /\ live' = live
  BY <1>1, <1>2, PutApart
<1>4. [owner |-> n, id |-> r.sid, token |-> r.token] \in live
  BY <1>1 DEF HandLive
<1> QED
  BY <1>3, <1>4 DEF Agrees

\* Without a token in it the Secret records nothing that could work.
LEMMA BlankApart ==
  ASSUME SInv, NEW a \in Actors, NEW n \in Names, NEW r, r.token = 0,
         Put(a, n, r) \/ UNCHANGED world
  PROVE  StoresApart(n) /\ Recorded(n)'
<1>1. issued \in Nat /\ \A s \in live : s.token # 0
  BY DEF SInv, RInv, IInv, TypeOK, TokensOK
<1>2. CASE Put(a, n, r)
  BY <1>1, <1>2, PutApart
<1>3. CASE UNCHANGED world
  BY <1>3, SameApart DEF world, SameStores
<1> QED
  BY <1>2, <1>3

\* What is written when every session is revoked agrees with MAS.
LEMMA BlankAgrees ==
  ASSUME SInv, NEW a \in Actors, NEW n \in Names, NEW r, r.token = 0, Put(a, n, r),
         r.status # "active", Emptied(n),
         r.status # "revoked" => users[n] = "deactivated"
  PROVE  Agrees(n)'
<1>1. secrets'[n] = r /\ live' = live /\ users' = users
  BY DEF Put, SInv, RInv, IInv, TypeOK
<1> QED
  BY <1>1 DEF Agrees, Emptied, SessionsOf

LEMMA PersistCreatedSettles ==
  ASSUME SInv, RInv', NEW a \in Actors, PersistCreated(a), NEW n, n = req[a].name
  PROVE  SInv'
<1> DEFINE r == [status |-> "active", sid |-> req[a].ses.id, token |-> req[a].ses.token,
                 gen |-> 1, avatar |-> NoAvatar]
<1>1. Inside(a) /\ pc[a] = "persist" /\ req[a].op = "create" /\ Holding(a)
  BY DEF PersistCreated, Inside, Holding, Issuing
<1>2. r.status = "active" /\ r.sid = req[a].ses.id /\ r.token = req[a].ses.token
  OBVIOUS
<1>3. \/ Put(a, n, r) /\ (ReturnToken(a) \/ Goto(a, "undoCreate"))
      \/ UNCHANGED world /\ Goto(a, "undoCreate")
  BY DEF PersistCreated, CreateAgent, Call
<1>4. n \in Names /\ "undoCreate" \in Busy
  BY <1>1, AtWork DEF SInv, RInv, Busy, Labels, Untouched
<1> HIDE DEF r
<1>5. CASE Put(a, n, r)
  <2>1. StoresApart(n) /\ Recorded(n)' /\ Agrees(n)'
    BY <1>1, <1>2, <1>5, HandApart
  <2>2. CASE ReturnToken(a)
    BY <1>1, <2>1, <2>2, SucceedsKeeps
  <2>3. CASE Goto(a, "undoCreate")
    BY <1>1, <1>4, <2>1, <2>3, WorkSettles
  <2> QED
    BY <1>3, <1>5, <2>2, <2>3
<1>6. CASE UNCHANGED world /\ Goto(a, "undoCreate")
  <2>1. SameStores /\ users' = users
    BY <1>6 DEF world, SameStores
  <2> QED
    BY <1>1, <1>4, <1>6, <2>1, CallSettles
<1> QED
  BY <1>3, <1>5, <1>6

LEMMA PersistRotatedSettles ==
  ASSUME SInv, RInv', NEW a \in Actors, PersistRotated(a), NEW n, n = req[a].name
  PROVE  SInv'
<1> DEFINE r == Rotated(a)
<1>1. /\ Inside(a) /\ pc[a] = "persist" /\ req[a].op \in {"rotate", "recover"}
      /\ Holding(a)
  BY DEF PersistRotated, Inside, Holding, Issuing
<1>2. n \in Names /\ req[a].rec \in Records /\ "undoRotate" \in Busy
  BY <1>1, AtWork DEF SInv, RInv, Requests, Busy, Labels, Untouched
<1>3. r.status = "active" /\ r.sid = req[a].ses.id /\ r.token = req[a].ses.token
  BY <1>2, Zenon DEF Rotated, Records
<1>4. \/ Put(a, n, r) /\ (ReturnToken(a) \/ Goto(a, "undoRotate"))
      \/ UNCHANGED world /\ (Goto(a, "undoRotate") \/ Return(a, FALSE))
  BY DEF PersistRotated, UpdateAgent, Call
<1> HIDE DEF r
<1>5. CASE Put(a, n, r)
  <2>1. StoresApart(n) /\ Recorded(n)' /\ Agrees(n)'
    BY <1>1, <1>3, <1>5, HandApart
  <2>2. CASE ReturnToken(a)
    BY <1>1, <2>1, <2>2, SucceedsKeeps
  <2>3. CASE Goto(a, "undoRotate")
    BY <1>1, <1>2, <2>1, <2>3, WorkSettles
  <2>4. CASE UNCHANGED world /\ Return(a, FALSE)
    BY <1>1, <2>1, <2>4, FailsKeeps
  <2> QED
    BY <1>4, <1>5, <2>2, <2>3, <2>4
<1>6. CASE UNCHANGED world /\ (Goto(a, "undoRotate") \/ Return(a, FALSE))
  <2>1. SameStores /\ users' = users
    BY <1>6 DEF world, SameStores
  <2> QED
    BY <1>1, <1>2, <1>6, <2>1, CallSettles
<1> QED
  BY <1>4, <1>5, <1>6


LEMMA PersistClearedSettles ==
  ASSUME SInv, RInv', NEW a \in Actors, PersistCleared(a), NEW n, n = req[a].name
  PROVE  SInv'
<1> DEFINE r == Cleared(req[a].rec, FinalStatus(req[a].op))
<1>1. Inside(a) /\ pc[a] = "persist" /\ req[a].op \in {"revoke", "deactivate"}
  BY DEF PersistCleared, Inside
<1>2. /\ n \in Names /\ req[a].rec \in Records /\ ActorOK(a) /\ "clearGet" \in Busy
  BY <1>1, AtWork DEF SInv, RInv, Requests, Busy, Labels, Untouched
<1>3. r.token = 0 /\ r.status = FinalStatus(req[a].op)
  BY <1>2, Zenon DEF Cleared, Records
<1>4. /\ Emptied(n) /\ r.status # "active"
      /\ r.status # "revoked" => users[n] = "deactivated"
  BY <1>1, <1>2, <1>3 DEF ActorOK, Revoked, FinalStatus
<1>5. /\ Put(a, n, r) \/ UNCHANGED world
      /\ (Put(a, n, r) /\ Return(a, TRUE)) \/ Goto(a, "clearGet")
  BY DEF PersistCleared, UpdateAgent, Call
<1> HIDE DEF r
<1>6. StoresApart(n) /\ Recorded(n)'
  BY <1>2, <1>3, <1>5, BlankApart
<1>7. CASE Put(a, n, r) /\ Return(a, TRUE)
  <2>1. Agrees(n)'
    BY <1>2, <1>3, <1>4, <1>7, BlankAgrees
  <2> QED
    BY <1>1, <1>6, <1>7, <2>1, SucceedsKeeps
<1>8. CASE Goto(a, "clearGet")
  BY <1>1, <1>2, <1>6, <1>8, WorkSettles
<1> QED
  BY <1>5, <1>7, <1>8

LEMMA DeleteSecretSettles ==
  ASSUME SInv, RInv', NEW a \in Actors, DeleteSecret(a), NEW n, n = req[a].name
  PROVE  SInv'
<1>1. Inside(a) /\ pc[a] = "delete"
  BY DEF DeleteSecret, Inside
<1>2. n \in Names /\ ActorOK(a) /\ AgentOK(n) /\ "clearGet" \in Busy
  BY <1>1, AtWork DEF SInv, RInv, Busy, Labels, Untouched
<1>3. req[a].op = "remove" /\ req[a].rec = secrets[n]
  BY <1>1, <1>2 DEF ActorOK, InItsOp, Current
<1>4. Emptied(n) /\ users[n] = "deactivated"
  BY <1>1, <1>2, <1>3 DEF ActorOK, Revoked
<1>5. NoSecret.token = 0 /\ NoSecret.status = "absent"
  BY DEF NoSecret
<1>6. /\ Put(a, n, NoSecret) \/ UNCHANGED world
      /\ \/ Put(a, n, NoSecret) /\ Return(a, TRUE)
         \/ Return(a, FALSE) \/ Goto(a, "clearGet")
  BY DEF DeleteSecret, DeleteAgent, Call
<1>7. StoresApart(n) /\ Recorded(n)'
  BY <1>2, <1>5, <1>6, BlankApart
<1>8. CASE Put(a, n, NoSecret) /\ Return(a, TRUE)
  <2>1. Agrees(n)'
    BY <1>2, <1>4, <1>5, <1>8, BlankAgrees
  <2> QED
    BY <1>1, <1>7, <1>8, <2>1, SucceedsKeeps
<1>9. CASE Return(a, FALSE) \/ Goto(a, "clearGet")
  BY <1>1, <1>2, <1>7, <1>9, WorkSettles
<1> QED
  BY <1>6, <1>8, <1>9

LEMMA ClearWriteSettles ==
  ASSUME SInv, RInv', NEW a \in Actors, ClearWrite(a), NEW n, n = req[a].name
  PROVE  SInv'
<1> DEFINE r == Cleared(req[a].rec, FinalStatus(req[a].op))
           again == [req[a] EXCEPT !.tries = @ + 1]
<1>1. Inside(a) /\ pc[a] = "clearPut"
  BY DEF ClearWrite, Inside
<1>2. /\ n \in Names /\ req[a] \in Requests /\ req[a].rec \in Records
      /\ {"clearGet", "purge"} \subseteq Busy
  BY <1>1, AtWork DEF SInv, RInv, Requests, Busy, Labels, Untouched
<1>3. r.token = 0
  BY <1>2, Zenon DEF Cleared, Records
<1>4. /\ Put(a, n, r) \/ UNCHANGED world
      /\ \/ Return(a, FALSE) \/ Goto(a, "purge")
         \/ req[a].tries < 2 /\ Move(a, "clearGet", again)
  BY DEF ClearWrite, UpdateAgent, Call, ClearFailed
<1>5. req[a].tries < 2 => again \in Requests /\ again.name = n
  BY <1>2 DEF Requests
<1> HIDE DEF r, again
<1>6. StoresApart(n) /\ Recorded(n)'
  BY <1>2, <1>3, <1>4, BlankApart
<1> QED
  BY <1>1, <1>2, <1>4, <1>5, <1>6, WorkSettles

LEMMA PurgeSettles ==
  ASSUME SInv, RInv', NEW a \in Actors, Purge(a), NEW n, n = req[a].name
  PROVE  SInv'
<1>1. Inside(a) /\ Return(a, FALSE) /\ (Put(a, n, NoSecret) \/ UNCHANGED world)
  BY DEF Purge, DeleteAgent, Call, Inside
<1>2. n \in Names /\ NoSecret.token = 0
  BY <1>1, AtWork DEF SInv, RInv, NoSecret
<1>3. StoresApart(n) /\ Recorded(n)'
  BY <1>1, <1>2, BlankApart
<1> QED
  BY <1>1, <1>3, WorkSettles

\* The Secret keeps the token that the homeserver accepted.
LEMMA PersistAvatarSettles ==
  ASSUME SInv, RInv', NEW a \in Actors, PersistAvatar(a), NEW n, n = req[a].name
  PROVE  SInv'
<1> DEFINE r == [req[a].rec EXCEPT !.avatar = req[a].uri]
<1>1. Inside(a) /\ pc[a] = "persist" /\ req[a].op = "avatar"
  BY DEF PersistAvatar, Inside
<1>2. /\ n \in Names /\ req[a].rec \in Records /\ ActorOK(a) /\ Shown(a) /\ Recorded(n)
      /\ "undoAvatar" \in Busy
  BY <1>1, AtWork DEF SInv, RInv, Requests, Busy, Labels, Untouched
<1>3. req[a].rec = secrets[n] /\ req[a].rec.status = "active"
  BY <1>1, <1>2 DEF ActorOK, Current
<1>4. r.sid = secrets[n].sid /\ r.token = secrets[n].token /\ r.status = "active"
  BY <1>2, <1>3, Zenon DEF Records
<1>5. /\ Put(a, n, r) \/ UNCHANGED world
      /\ (Put(a, n, r) /\ Return(a, TRUE)) \/ Goto(a, "undoAvatar")
  BY DEF PersistAvatar, UpdateAgent, Call
<1> HIDE DEF r
<1>6. Put(a, n, r) => /\ StoresApart(n) /\ Recorded(n)'
                      /\ secrets'[n] = r /\ live' = live
  BY <1>2, <1>4, PutApart DEF Recorded
<1>7. UNCHANGED world => StoresApart(n) /\ Recorded(n)'
  BY <1>2, SameApart DEF world, SameStores
<1>8. CASE Put(a, n, r) /\ Return(a, TRUE)
  <2>1. [owner |-> n, id |-> r.sid, token |-> r.token] \in live
    BY <1>1, <1>2, <1>3, <1>4 DEF Shown
  <2>2. Agrees(n)'
    BY <1>4, <1>6, <1>8, <2>1 DEF Agrees
  <2> QED
    BY <1>1, <1>6, <1>8, <2>2, SucceedsKeeps
<1>9. CASE Goto(a, "undoAvatar")
  BY <1>1, <1>2, <1>5, <1>6, <1>7, <1>9, WorkSettles
<1> QED
  BY <1>5, <1>8, <1>9


-----------------------------------------------------------------------------
(* Steps outside the mutex, and steps of the environment. *)

\* The stores stay as they are, and so does an operation at work on an agent that is
\* still settled.
LEMMA OutsideSettles ==
  ASSUME SInv, RInv', SameStores, users' = users,
         \A n \in Names : settled'[n] => settled[n],
         \A b \in Actors : Inside(b) /\ settled'[req[b].name] =>
            pc'[b] = pc[b] /\ req'[b] = req[b],
         \A b \in Actors : pc'[b] # "persist" \/ (pc'[b] = pc[b] /\ req'[b] = req[b])
  PROVE  SInv'
<1>1. ASSUME NEW n \in Names PROVE Recorded(n)' /\ Settled(n)'
  <2>1. Recorded(n)'
    BY SameApart
  <2>2. Agrees(n) => Agrees(n)'
    BY DEF Agrees, SameStores, Emptied, SessionsOf
  <2>3. ASSUME settled'[n], \A b \in Actors : Inside(b)' /\ req'[b].name = n => pc'[b] \in Untouched
        PROVE  Agrees(n)
    <3>1. \A b \in Actors : Inside(b) /\ req[b].name = n => pc[b] \in Untouched
      BY <2>3 DEF Inside
    <3> QED
      BY <2>3, <3>1 DEF SInv, Settled
  <2> QED
    BY <2>1, <2>2, <2>3 DEF Settled
<1>2. ASSUME NEW b \in Actors PROVE Shown(b)'
  BY DEF SInv, Shown, SameStores
<1> QED
  BY <1>1, <1>2 DEF SInv

LEMMA StartSettles ==
  ASSUME SInv, RInv', NEW a \in Actors, Start(a)
  PROVE  SInv'
<1>1. PICK op \in Ops, n \in Names : Move(a, "lock", [NoRequest EXCEPT !.op = op, !.name = n])
  BY DEF Start
<1>2. SameStores /\ users' = users /\ settled' = settled /\ ~Inside(a)
  BY <1>1 DEF Start, world, SameStores, Move, Inside
<1>3. \A b \in Actors : b = a \/ (pc'[b] = pc[b] /\ req'[b] = req[b])
  BY <1>1 DEF Move, SInv, RInv, IInv, TypeOK
<1>4. pc'[a] = "lock"
  BY <1>1 DEF Move, SInv, RInv, IInv, TypeOK
<1> QED
  BY <1>2, <1>3, <1>4, OutsideSettles

LEMMA AcquireSettles ==
  ASSUME SInv, RInv', NEW a \in Actors, Acquire(a)
  PROVE  SInv'
<1>1. SameStores /\ users' = users /\ settled' = settled /\ ~Inside(a)
  BY DEF Acquire, world, SameStores, Inside
<1>2. /\ pc'[a] = "get"
      /\ \A b \in Actors : b = a \/ (pc'[b] = pc[b] /\ req'[b] = req[b])
  BY DEF Acquire, SInv, RInv, IInv, TypeOK
<1> QED
  BY <1>1, <1>2, OutsideSettles

LEMMA CheckDeviceSettles ==
  ASSUME SInv, RInv', NEW a \in Actors, CheckDevice(a)
  PROVE  SInv'
<1>1. SameStores /\ users' = users /\ settled' = settled /\ ~Inside(a)
  BY DEF CheckDevice, Goto, Move, world, SameStores, Inside
<1>2. /\ pc'[a] = "idle"
      /\ \A b \in Actors : b = a \/ (pc'[b] = pc[b] /\ req'[b] = req[b])
  BY DEF CheckDevice, Goto, Move, SInv, RInv, IInv, TypeOK
<1> QED
  BY <1>1, <1>2, OutsideSettles

\* A crash unsettles every agent whose mutex is held.
LEMMA CrashSettles ==
  ASSUME SInv, RInv', Crash
  PROVE  SInv'
<1>1. SameStores /\ users' = users
  BY DEF Crash, SameStores
<1>2. \A n \in Names : settled'[n] => settled[n] /\ lock[n] = Nobody
  BY DEF Crash
<1>3. \A b \in Actors : Inside(b) => req[b].name \in Names /\ lock[req[b].name] # Nobody
  BY NullAssumption DEF SInv, RInv, IInv, ActorOK, Guarded, Inside
<1>4. \A b \in Actors : pc'[b] = "idle"
  BY DEF Crash
<1> QED
  BY <1>1, <1>2, <1>3, <1>4, OutsideSettles

LEMMA EnvironmentSettles ==
  ASSUME SInv, RInv', Environment \/ UNCHANGED vars
  PROVE  SInv'
<1>1. ASSUME SameStores, UNCHANGED <<users, settled, pc, req>> PROVE SInv'
  BY <1>1, OutsideSettles
<1>2. ASSUME NEW a \in Actors, Expire(a) PROVE SInv'
  BY <1>1, <1>2 DEF Expire, world, SameStores
<1>3. ASSUME NEW n \in Names, EditSecret(n) PROVE SInv'
  BY <1>1, <1>3 DEF EditSecret, process, SameStores
<1>4. CASE UNCHANGED vars
  BY <1>1, <1>4 DEF vars, SameStores
<1> QED
  BY <1>2, <1>3, <1>4, CrashSettles DEF Environment

-----------------------------------------------------------------------------
(* The theorem. *)

LEMMA RunSettles ==
  ASSUME SInv, RInv', NEW a \in Actors, Run(a)
  PROVE  SInv'
<1>1. CASE CreateStep(a)
  BY <1>1, LookupUserSettles, AdmitUserSettles, IssueForCreateSettles,
     SyncProfileSettles, PersistCreatedSettles, UndoCreateSettles DEF CreateStep
<1>2. CASE RotateStep(a)
  BY <1>2, IssueForRotateSettles, RevokeOldSettles, PersistRotatedSettles,
     UndoRotateSettles, CheckDeviceSettles DEF RotateStep
<1>3. CASE WithdrawStep(a)
  BY <1>3, ListSettles, RevokeEachSettles, DeactivateUserSettles,
     PersistClearedSettles, DeleteSecretSettles, ClearReadSettles,
     ClearWriteSettles, PurgeSettles DEF WithdrawStep
<1>4. CASE AvatarStep(a)
  BY <1>4, UploadSettles, SetAvatarURLSettles, PersistAvatarSettles,
     UndoAvatarSettles DEF AvatarStep
<1> QED
  BY <1>1, <1>2, <1>3, <1>4, EntrySettles DEF Run

LEMMA InitSettles == Init => SInv
<1> SUFFICES ASSUME Init PROVE SInv
  OBVIOUS
<1>1. RInv
  BY InitImplements
<1>2. \A n \in Names : Recorded(n) /\ Settled(n)
  BY DEF Init, Recorded, Settled, Agrees, Emptied, SessionsOf, NoSecret
<1>3. \A a \in Actors : Shown(a)
  BY DEF Init, Shown
<1> QED
  BY <1>1, <1>2, <1>3 DEF SInv

LEMMA NextSettles == SInv /\ [Next]_vars => SInv'
<1> SUFFICES ASSUME SInv, [Next]_vars PROVE SInv'
  OBVIOUS
<1>1. RInv'
  BY NextImplements DEF SInv
<1>2. ASSUME NEW a \in Actors, Start(a) \/ Acquire(a) \/ Run(a)
      PROVE  SInv'
  BY <1>1, <1>2, StartSettles, AcquireSettles, RunSettles
<1> QED
  BY <1>1, <1>2, EnvironmentSettles DEF Next

\* What the last operation that succeeded on an agent answered still describes MAS
\* and the Secret when nobody is at work on it, for any interleaving, failures and
\* crashes of other operations.
THEOREM SettledAgreement == Spec => []SettledAgrees
<1>1. Spec => []SInv
  BY InitSettles, NextSettles, PTL DEF Spec
<1>2. SInv => SettledAgrees
  <2> SUFFICES ASSUME SInv, NEW n \in Names, settled[n], lock[n] = Nobody PROVE Agrees(n)
    BY DEF SettledAgrees, Agrees, Emptied
  <2>1. \A a \in Actors : Inside(a) => lock[req[a].name] # Nobody
    BY NullAssumption DEF SInv, RInv, IInv, ActorOK, Guarded
  <2> QED
    BY <2>1 DEF SInv, Settled
<1> QED
  BY <1>1, <1>2, PTL
=============================================================================
