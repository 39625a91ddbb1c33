------------------------ MODULE AgentLifecycleProofs ------------------------
(***************************************************************************)
(* AgentService implements AgentLifecycle, for any agents, actors,         *)
(* operations and failures: every step of the service is a step of the     *)
(* lifecycle of one agent, or none.                                        *)
(***************************************************************************)
EXTENDS AgentServiceProofs

-----------------------------------------------------------------------------
(* What a step of one actor does to the sessions and Secrets of the others. *)

\* Own in the next state.
OwnAfter(n, id) == id <= issued' /\ \A s \in live' : s.id = id => s.owner = n

\* A step touches the sessions and the Secret of its own agent, and whatever that
\* Secret records then is the agent's own.
Local(a) ==
    LET n == req[a].name IN
    /\ \A b \in Actors \ {a} : pc'[b] = pc[b] /\ req'[b] = req[b]
    /\ \A m \in Names \ {n} : secrets'[m] = secrets[m]
    /\ issued' \in {issued, issued + 1}
    /\ \A s \in live : s \in live' \/ s.owner = n
    /\ \A s \in live' :
          \/ s \in live
          \/ /\ s.owner = n
             /\ \/ s.id = issued + 1 /\ issued' = issued + 1
                \/ Own(n, s.id) /\ \E x \in live : x.id = s.id
    /\ OwnAfter(n, secrets'[n].sid)

LEMMA OwnKept ==
  ASSUME RInv, NEW a \in Actors, Local(a), NEW m, NEW id \in Nat, Own(m, id)
  PROVE  OwnAfter(m, id)
<1>1. issued \in Nat /\ id <= issued /\ id <= issued'
  BY DEF RInv, IInv, TypeOK, Local, Own
<1>2. ASSUME NEW s \in live', s.id = id PROVE s.owner = m
  <2>1. CASE s \in live
    BY <1>2, <2>1 DEF Own
  <2>2. CASE s.id = issued + 1
    BY <1>1, <1>2, <2>2
  <2>3. CASE s.owner = req[a].name /\ Own(req[a].name, s.id) /\ \E x \in live : x.id = s.id
    BY <1>2, <2>3 DEF Own
  <2> QED
    BY <2>1, <2>2, <2>3 DEF Local
<1> QED
  BY <1>1, <1>2 DEF OwnAfter

LEMMA SessionsKept ==
  ASSUME RInv, IInv', NEW a \in Actors, Local(a)
  PROVE  SessionsOwned'
<1> DEFINE n == req[a].name
<1>1. /\ issued \in Nat /\ issued' \in Nat /\ live \subseteq Sessions /\ live' \subseteq Sessions
      /\ secrets \in [Names -> Records]
  BY DEF RInv, IInv, TypeOK
<1>2. ASSUME NEW s \in live' PROVE OwnAfter(s.owner, s.id)
  <2>1. s.id \in Nat
    BY <1>1 DEF Sessions
  <2>2. CASE s \in live
    <3>1. Own(s.owner, s.id)
      BY <2>2 DEF RInv, SessionsOwned
    <3> QED
      BY <2>1, <3>1, OwnKept
  <2>3. CASE s.owner = n /\ s.id = issued + 1 /\ issued' = issued + 1
    <3>1. ASSUME NEW t \in live', t.id = s.id PROVE t.owner = n
      <4>1. CASE t \in live
        <5>1. t.id <= issued
          BY <4>1 DEF RInv, SessionsOwned, Own
        <5> QED
          BY <1>1, <2>3, <3>1, <5>1
      <4> QED
        BY <4>1 DEF Local
    <3> QED
      BY <1>1, <2>1, <2>3, <3>1 DEF OwnAfter
  <2>4. CASE s.owner = n /\ Own(n, s.id)
    BY <2>1, <2>4, OwnKept
  <2> QED
    BY <2>2, <2>3, <2>4 DEF Local
<1>3. ASSUME NEW m \in Names PROVE OwnAfter(m, secrets'[m].sid)
  <2>1. CASE m = n
    BY <2>1 DEF Local
  <2>2. CASE m # n
    <3>1. secrets'[m] = secrets[m] /\ secrets[m].sid \in Nat /\ Own(m, secrets[m].sid)
      BY <1>1, <2>2 DEF Local, Records, RInv, SessionsOwned
    <3> QED
      BY <3>1, OwnKept
  <2> QED
    BY <2>1, <2>2
<1> QED
  BY <1>2, <1>3 DEF SessionsOwned, Own, OwnAfter

\* The assertions of the other actors.
LEMMA OthersKnow ==
  ASSUME RInv, NEW a \in Actors, Inside(a), Local(a), NEW b \in Actors \ {a}
  PROVE  KnowsOwn(b)' /\ HandLive(b)' /\ NotRetired(b)'
<1>1. pc'[b] = pc[b] /\ req'[b] = req[b] /\ req[b] \in Requests
  BY DEF Local, RInv, IInv, TypeOK
<1>2. Sole(a)
  BY InsideIsSole DEF RInv
<1>3. KnowsOwn(b)'
  <2>1. ASSUME NEW id \in {req[b].ses.id, req[b].rec.sid} \cup req[b].todo
        PROVE  OwnAfter(req[b].name, id)
    <3>1. Own(req[b].name, id)
      BY DEF RInv, KnowsOwn
    <3>2. /\ req[b].ses.id \in Nat /\ req[b].rec \in Records
          /\ req[b].todo \subseteq Nat
      BY <1>1 DEF Requests
    <3>3. id \in Nat
      BY <3>2 DEF Records
    <3> QED
      BY <3>1, <3>3, OwnKept
  <2> QED
    BY <1>1, <2>1 DEF KnowsOwn, Own, OwnAfter
<1>4. Inside(b) => req[b].name # req[a].name /\ req[b].name \in Names
  BY <1>2 DEF Sole, RInv, IInv, ActorOK, Guarded, Inside
<1>5. HandLive(b)'
  <2>1. Holding(b)' = Holding(b) /\ (Holding(b) => Inside(b))
    BY <1>1 DEF Holding, Inside
  <2>2. ASSUME Holding(b)
        PROVE  [owner |-> req[b].name, id |-> req[b].ses.id, token |-> req[b].ses.token] \in live'
    BY <1>4, <2>1, <2>2 DEF Local, RInv, HandLive
  <2> QED
    BY <1>1, <2>1, <2>2 DEF HandLive, RInv
<1>6. NotRetired(b)'
  BY <1>1, <1>4 DEF NotRetired, RInv, Inside, Local
<1> QED
  BY <1>3, <1>5, <1>6

LEMMA StepKeeps ==
  ASSUME RInv, IInv', NEW a \in Actors, Inside(a), Local(a),
         KnowsOwn(a)', HandLive(a)', NotRetired(a)'
  PROVE  RInv'
<1>1. SessionsOwned'
  BY SessionsKept
<1>2. \A b \in Actors : KnowsOwn(b)' /\ HandLive(b)' /\ NotRetired(b)'
  BY OthersKnow
<1> QED
  BY <1>1, <1>2 DEF RInv

-----------------------------------------------------------------------------
(* The two ways a step ends. *)

LEMMA ReturnKeeps ==
  ASSUME RInv, IInv', NEW a \in Actors, Inside(a), Local(a),
         pc'[a] \in {"idle", "check"}
  PROVE  RInv'
<1>1. req'[a] = NoRequest /\ issued' \in Nat /\ \A s \in live' : s.id # 0
  BY DEF IInv, ActorOK, Guarded, TypeOK, TokensOK
<1>2. KnowsOwn(a)'
  BY <1>1 DEF KnowsOwn, Own, NoRequest, NoSession, NoSecret
<1>3. HandLive(a)' /\ NotRetired(a)'
  BY <1>1 DEF HandLive, Holding, NotRetired, Inside
<1> QED
  BY <1>2, <1>3, StepKeeps

\* Where an actor may go while its agent stays as it is.
Remains(a) ==
    secrets'[req[a].name].status \in {"active", "revoked"}
      \/ req[a].op \in {"create", "deactivate", "remove", "avatar"}

LEMMA MoveKeeps ==
  ASSUME RInv, IInv', NEW a \in Actors, Inside(a), Local(a),
         NEW l \in Labels, NEW q \in Requests, Move(a, l, q), NEW n, n = req[a].name,
         q.name = n, q.op = req[a].op, Remains(a),
         q.ses = req[a].ses \/ OwnAfter(n, q.ses.id),
         q.rec = req[a].rec \/ q.rec = secrets[n],
         \A id \in q.todo : id \in req[a].todo \/ Own(n, id),
         l \in {"sync", "revokeOld", "persist"} => HandLive(a)'
  PROVE  RInv'
<1>1. pc'[a] = l /\ req'[a] = q /\ req[a] \in Requests /\ n \in Names
      /\ secrets[n] \in Records
  BY AtWork DEF Move, RInv, IInv, TypeOK
<1>2. KnowsOwn(a) /\ Own(n, secrets[n].sid)
  BY <1>1 DEF RInv, SessionsOwned
<1>3. OwnAfter(n, q.ses.id)
  <2>1. Own(n, req[a].ses.id) /\ req[a].ses.id \in Nat
    BY <1>1, <1>2 DEF KnowsOwn, Requests
  <2> QED
    BY <2>1, OwnKept
<1>4. OwnAfter(n, q.rec.sid)
  <2>1. Own(n, q.rec.sid)
    BY <1>1, <1>2 DEF KnowsOwn
  <2>2. q.rec.sid \in Nat
    BY DEF Requests, Records
  <2> QED
    BY <2>1, <2>2, OwnKept
<1>5. ASSUME NEW id \in q.todo PROVE OwnAfter(n, id)
  <2>1. Own(n, id) /\ id \in Nat
    BY <1>2 DEF KnowsOwn, Requests
  <2> QED
    BY <2>1, OwnKept
<1>6. KnowsOwn(a)'
  BY <1>1, <1>3, <1>4, <1>5 DEF KnowsOwn, Own, OwnAfter
<1>7. HandLive(a)'
  BY <1>1 DEF HandLive, Holding
<1>8. NotRetired(a)'
  BY <1>1 DEF NotRetired, Remains
<1> QED
  BY <1>6, <1>7, <1>8, StepKeeps

LEMMA GotoKeeps ==
  ASSUME RInv, IInv', NEW a \in Actors, Inside(a), Local(a),
         NEW l \in Labels, Goto(a, l), Remains(a),
         l \in {"sync", "revokeOld", "persist"} => HandLive(a)'
  PROVE  RInv'
<1>1. req[a] \in Requests
  BY DEF RInv, IInv, TypeOK
<1> QED
  BY <1>1, MoveKeeps DEF Goto

-----------------------------------------------------------------------------
(* What the lifecycle sees of a step. *)

Refines == [Lifecycle!Next]_(Lifecycle!vars)

\* A handed-out token that works belongs to the session its agent's Secret records.
LEMMA CredentialsRecorded ==
  ASSUME IInv, NEW n \in Names, NEW s \in SessionsOf(n), s.token \in confirmed
  PROVE  s.id = secrets[n].sid /\ s.token = secrets[n].token /\ secrets[n].status = "active"
  BY DEF IInv, NoStrayCredential, SessionsOf

LEMMA QuietMeansNone ==
  ASSUME NEW n
  PROVE  Quiet(n) <=> Credentials(n) = {}
  BY DEF Quiet, Credentials

\* No lifecycle step, when the Secrets and the working credentials stay.
LEMMA Stutters ==
  ASSUME UNCHANGED <<secrets, confirmed>>,
         \A n \in Names : Credentials(n)' = Credentials(n)
  PROVE  Refines
<1>1. UNCHANGED Lifecycle!vars
  BY DEF Lifecycle!vars
<1> QED
  BY <1>1 DEF Refines

\* A session ends: the agent's credential lapses, unless it was another session.
LEMMA Lapses ==
  ASSUME RInv, NEW n \in Names, NEW id, Own(n, id), UNCHANGED <<secrets, confirmed>>,
         \A s \in live : s.id # id => s \in live',
         \A s \in live' : (s \in live /\ s.id # id) \/ s.token = issued + 1
  PROVE  Refines
<1>1. issued \in Nat /\ confirmed \subseteq 1..issued
  BY DEF RInv, IInv, TypeOK, TokensOK
<1>2. \A s \in live' : s.token \in confirmed => s \in live /\ s.id # id
  BY <1>1
<1>3. \A m \in Names \ {n} : Credentials(m)' = Credentials(m)
  <2> SUFFICES ASSUME NEW m \in Names \ {n}
               PROVE  Credentials(m)' = Credentials(m)
    OBVIOUS
  <2>1. \A s \in SessionsOf(m) : s.id # id
    BY DEF SessionsOf, Own
  <2>2. \A s : s \in SessionsOf(m)' /\ s.token \in confirmed
                 <=> s \in SessionsOf(m) /\ s.token \in confirmed
    BY <1>2, <2>1 DEF SessionsOf
  <2> QED
    BY <2>2 DEF Credentials
<1>4. CASE id = secrets[n].sid
  <2>1. Credentials(n)' = {}
    <3>1. \A s \in SessionsOf(n)' : s.token \notin confirmed'
      BY <1>2, <1>4, CredentialsRecorded DEF RInv, SessionsOf
    <3> QED
      BY <3>1 DEF Credentials
  <2>2. Lifecycle!Lapse(n)
    BY <1>3, <2>1 DEF Lifecycle!Lapse
  <2> QED
    BY <2>2 DEF Refines, Lifecycle!Next
<1>5. CASE id # secrets[n].sid
  <2>1. \A s : s \in SessionsOf(n)' /\ s.token \in confirmed
                 <=> s \in SessionsOf(n) /\ s.token \in confirmed
    BY <1>2, <1>5, CredentialsRecorded DEF RInv, SessionsOf
  <2>2. Credentials(n)' = Credentials(n)
    BY <2>1 DEF Credentials
  <2> QED
    BY <1>3, <2>2, Stutters
<1> QED
  BY <1>4, <1>5

\* A Secret is written.
LEMMA Becomes ==
  ASSUME RInv, NEW a \in Actors, NEW n \in Names, NEW r \in Records, Put(a, n, r)
  PROVE  Lifecycle!Become(n, r.status, r.gen)
  BY DEF RInv, IInv, TypeOK, Put, Lifecycle!Become

\* The Secret loses its token, or goes away.
LEMMA Withdraws ==
  ASSUME RInv, NEW a \in Actors, NEW n \in Names, NEW r \in Records, Put(a, n, r),
         confirmed' = confirmed, Quiet(n), secrets[n].status # "absent",
         \/ r = NoSecret
         \/ r.status = "deactivated" /\ r.gen = secrets[n].gen
         \/ /\ r.status = "revoked" /\ r.gen = secrets[n].gen
            /\ secrets[n].status \in {"active", "revoked"}
  PROVE  Refines
<1>1. Lifecycle!Become(n, r.status, r.gen) /\ Credentials(n) = {}
  BY Becomes, QuietMeansNone
<1>2. \A m \in Names : Credentials(m)' = Credentials(m)
  BY DEF Put, Credentials, SessionsOf
<1>3. CASE r = NoSecret
  <2>1. Lifecycle!Become(n, "absent", 0)
    BY <1>1, <1>3 DEF NoSecret
  <2> QED
    BY <1>1, <1>2, <2>1 DEF Lifecycle!Forget, Refines, Lifecycle!Next
<1>4. CASE r.status = "deactivated" /\ r.gen = secrets[n].gen
  <2>1. Lifecycle!Become(n, "deactivated", secrets[n].gen)
    BY <1>1, <1>4 DEF Lifecycle!Become
  <2>2. Lifecycle!Retire(n)
    BY <1>1, <1>2, <2>1 DEF Lifecycle!Retire, Lifecycle!Become
  <2> QED
    BY <2>2 DEF Refines, Lifecycle!Next
<1>5. CASE /\ r.status = "revoked" /\ r.gen = secrets[n].gen
           /\ secrets[n].status \in {"active", "revoked"}
  <2>1. Lifecycle!Become(n, "revoked", secrets[n].gen)
    BY <1>1, <1>5 DEF Lifecycle!Become
  <2>2. Lifecycle!Suspend(n)
    BY <1>1, <1>2, <1>5, <2>1 DEF Lifecycle!Suspend, Lifecycle!Become
  <2> QED
    BY <2>2 DEF Refines, Lifecycle!Next
<1> QED
  BY <1>3, <1>4, <1>5

\* The Secret gets the token in the actor's hands, which is handed out or not.
LEMMA HandsOut ==
  ASSUME RInv, NEW a \in Actors, NEW n, n = req[a].name, NEW r \in Records, Put(a, n, r),
         Holding(a), Quiet(n),
         confirmed' = confirmed \/ confirmed' = confirmed \cup {req[a].ses.token}
  PROVE  Lifecycle!HandOut(n)
<1> DEFINE t == req[a].ses.token
<1>1. /\ n \in Names /\ req[a] \in Requests /\ ActorOK(a)
  BY AtWork DEF RInv, Holding, Inside
<1>2. /\ t \in Nat /\ t \notin confirmed
      /\ \A s \in live : s.token = t => s.owner = n /\ s.id = req[a].ses.id
      /\ [owner |-> n, id |-> req[a].ses.id, token |-> t] \in live
  BY <1>1 DEF ActorOK, HandOK, RInv, HandLive, Requests
<1>3. live' = live
  BY DEF Put
<1>4. CASE confirmed' = confirmed
  <2>1. \A m \in Names : Credentials(m)' = Credentials(m)
    BY <1>3, <1>4 DEF Credentials, SessionsOf
  <2> QED
    BY <1>4, <2>1 DEF Lifecycle!HandOut
<1>5. CASE confirmed' = confirmed \cup {t}
  <2>1. ASSUME NEW m \in Names \ {n} PROVE Credentials(m)' = Credentials(m)
    <3>1. \A s : s \in SessionsOf(m)' /\ s.token \in confirmed'
                   <=> s \in SessionsOf(m) /\ s.token \in confirmed
      BY <1>2, <1>3, <1>5 DEF SessionsOf
    <3> QED
      BY <3>1 DEF Credentials
  <2>2. Credentials(n)' = {t}
    <3>1. \A s \in SessionsOf(n)' : s.token \in confirmed' => s.token = t
      BY <1>3, <1>5 DEF Quiet, SessionsOf
    <3>2. \E s \in SessionsOf(n)' : s.token \in confirmed' /\ s.token = t
      BY <1>2, <1>3, <1>5 DEF SessionsOf
    <3> QED
      BY <3>1, <3>2 DEF Credentials
  <2>3. t \in confirmed' \ confirmed
    BY <1>2, <1>5
  <2> QED
    BY <1>2, <1>5, <2>1, <2>2, <2>3 DEF Lifecycle!HandOut
<1> QED
  BY <1>4, <1>5

-----------------------------------------------------------------------------
(* The effects a call may have, each with what is left to show of it. *)

OthersStay(a) == \A b \in Actors \ {a} : pc'[b] = pc[b] /\ req'[b] = req[b]

LEMMA MoveStays ==
  ASSUME RInv, NEW a \in Actors, NEW l, NEW q, Move(a, l, q)
  PROVE  OthersStay(a) /\ confirmed' = confirmed
  BY DEF RInv, IInv, TypeOK, Move, OthersStay

LEMMA GotoStays ==
  ASSUME RInv, NEW a \in Actors, NEW l, Goto(a, l)
  PROVE  OthersStay(a) /\ confirmed' = confirmed
  BY MoveStays DEF Goto

LEMMA ReturnStays ==
  ASSUME RInv, NEW a \in Actors, Returns(a)
  PROVE  OthersStay(a) /\ confirmed' = confirmed /\ pc'[a] = "idle"
  BY DEF RInv, IInv, TypeOK, Returns, ReturnUnchanged, Return, Leave, OthersStay

SameStores == UNCHANGED <<live, issued, secrets>>

LEMMA SameEffect ==
  ASSUME RInv, NEW a \in Actors, Inside(a), OthersStay(a), SameStores, confirmed' = confirmed
  PROVE  Local(a) /\ Refines
<1>1. req[a].name \in Names /\ issued \in Nat
  BY AtWork DEF RInv
<1>2. Local(a)
  BY <1>1 DEF Local, OthersStay, SameStores, RInv, SessionsOwned, Own, OwnAfter
<1>3. \A n \in Names : Credentials(n)' = Credentials(n)
  BY DEF SameStores, Credentials, SessionsOf
<1> QED
  BY <1>2, <1>3, Stutters DEF SameStores

LEMMA RevokeEffects ==
  ASSUME RInv, NEW a \in Actors, Inside(a), OthersStay(a), confirmed' = confirmed,
         NEW id, Own(req[a].name, id), RevokeEffect(id)
  PROVE  Local(a) /\ Refines
<1> DEFINE n == req[a].name
<1>1. n \in Names /\ issued \in Nat
  BY AtWork DEF RInv
<1>2. CASE UNCHANGED world
  BY <1>2, SameEffect DEF world, SameStores
<1>3. CASE live' = {s \in live : s.id # id} /\ UNCHANGED <<issued, secrets>>
  <2>1. Local(a)
    BY <1>1, <1>3 DEF Local, OthersStay, RInv, SessionsOwned, Own, OwnAfter
  <2>2. Refines
    BY <1>1, <1>3, Lapses
  <2> QED
    BY <2>1, <2>2
<1> QED
  BY <1>2, <1>3 DEF RevokeEffect, SameSecrets

\* A new session, or a new token for the one recorded.
LEMMA IssueEffects ==
  ASSUME RInv, IInv', NEW a \in Actors, Inside(a), OthersStay(a), confirmed' = confirmed,
         NEW n, n = req[a].name, NEW id \in Nat, NEW s \in Sessions, NEW kept,
         Issue(s, kept), kept = {x \in live : x.id # id}, s.owner = n, s.token = issued + 1,
         \/ id = issued + 1 /\ s.id = id
         \/ Own(n, id) /\ (\E x \in live : x.id = id) /\ s.id \in {id, issued + 1}
  PROVE  Local(a) /\ Refines /\ OwnAfter(n, s.id) /\ s \in live'
<1>1. n \in Names /\ issued \in Nat /\ secrets[n] \in Records
  BY AtWork DEF RInv
<1>2. live' = kept \cup {s} /\ issued' = issued + 1 /\ secrets' = secrets
  BY DEF Issue, SameSecrets
<1>3. \A x \in live : x.id <= issued /\ x.id \in Nat
  BY DEF RInv, SessionsOwned, Own, IInv, TypeOK, Sessions
<1>4. Own(n, id) \/ id = issued + 1
  OBVIOUS
<1>5. \A x \in live : x.id = id => x.owner = n
  BY <1>1, <1>3 DEF Own
<1>6. /\ \A x \in live : x \in live' \/ x.owner = n
      /\ \A x \in live' : x \in live \/ x = s
  BY <1>2, <1>5
<1>7. OwnAfter(n, secrets'[n].sid)
  <2>1. Own(n, secrets[n].sid) /\ secrets[n].sid \in Nat
    BY <1>1 DEF RInv, SessionsOwned, Records
  <2> QED
    BY <1>1, <1>2, <1>6, <2>1 DEF Own, OwnAfter
<1>8. Local(a)
  BY <1>2, <1>6, <1>7 DEF Local, OthersStay
<1>9. OwnAfter(n, s.id)
  BY <1>1, <1>2, <1>3, <1>5, <1>6 DEF OwnAfter
<1>10. Refines
  <2>1. CASE Own(n, id)
    BY <1>1, <1>2, <2>1, Lapses
  <2>2. CASE id = issued + 1
    <3>1. live' = live \cup {s}
      BY <1>1, <1>2, <1>3, <2>2
    <3>2. issued + 1 \notin confirmed
      BY <1>1 DEF RInv, IInv, TokensOK
    <3>3. ASSUME NEW m \in Names PROVE Credentials(m)' = Credentials(m)
      <4>1. \A x : x \in SessionsOf(m)' /\ x.token \in confirmed
                     <=> x \in SessionsOf(m) /\ x.token \in confirmed
        BY <3>1, <3>2 DEF SessionsOf
      <4> QED
        BY <4>1 DEF Credentials
    <3> QED
      BY <1>2, <3>3, Stutters
  <2> QED
    BY <1>4, <2>1, <2>2
<1> QED
  BY <1>2, <1>8, <1>9, <1>10

LEMMA PutLocal ==
  ASSUME RInv, NEW a \in Actors, Inside(a), OthersStay(a), NEW n, n = req[a].name,
         NEW r \in Records, Put(a, n, r), Own(n, r.sid)
  PROVE  Local(a) /\ secrets'[n] = r
<1>1. n \in Names /\ issued \in Nat /\ secrets \in [Names -> Records]
  BY AtWork DEF RInv, IInv, TypeOK
<1> QED
  BY <1>1 DEF Local, OthersStay, Put, Own, OwnAfter

-----------------------------------------------------------------------------
(* Steps that change no session and no Secret. *)

LEMMA SameReturns ==
  ASSUME RInv, IInv', NEW a \in Actors, Inside(a), Returns(a), SameStores
  PROVE  RInv' /\ Refines
<1>1. OthersStay(a) /\ confirmed' = confirmed /\ pc'[a] = "idle"
  BY ReturnStays
<1> QED
  BY <1>1, SameEffect, ReturnKeeps

LEMMA SameMoves ==
  ASSUME RInv, IInv', NEW a \in Actors, Inside(a), SameStores,
         NEW l \in Labels, NEW q \in Requests, Move(a, l, q), NEW n, n = req[a].name,
         q.name = n, q.op = req[a].op, q.ses = req[a].ses, Remains(a),
         q.rec = req[a].rec \/ q.rec = secrets[n],
         \A id \in q.todo : id \in req[a].todo \/ Own(n, id),
         l # "revokeOld", Holding(a)' => Holding(a)
  PROVE  RInv' /\ Refines
<1>1. OthersStay(a) /\ confirmed' = confirmed
  BY MoveStays
<1>2. Local(a) /\ Refines
  BY <1>1, SameEffect
<1>3. pc'[a] = l /\ req'[a] = q
  BY DEF Move, RInv, IInv, TypeOK
<1>4. HandLive(a)'
  BY <1>3 DEF HandLive, RInv, SameStores
<1> QED
  BY <1>2, <1>4, MoveKeeps

LEMMA SameGoes ==
  ASSUME RInv, IInv', NEW a \in Actors, Inside(a), SameStores,
         NEW l \in Labels, Goto(a, l), pc[a] # "get",
         l # "revokeOld", Holding(a)' => Holding(a)
  PROVE  RInv' /\ Refines
<1>1. req[a] \in Requests /\ NotRetired(a)
  BY DEF RInv, IInv, TypeOK
<1>2. Remains(a)
  BY <1>1 DEF NotRetired, Remains, SameStores
<1> QED
  BY <1>1, <1>2, SameMoves DEF Goto

\* Where a step leads, for the condition on Holding.
LEMMA Arrives ==
  ASSUME RInv, NEW a \in Actors, NEW l, Goto(a, l)
  PROVE  pc'[a] = l /\ req'[a] = req[a]
  BY DEF RInv, IInv, TypeOK, Goto, Move

LEMMA GoesUnheld ==
  ASSUME RInv, IInv', NEW a \in Actors, Inside(a), SameStores,
         NEW l \in Labels \ {"sync", "revokeOld", "persist"}, Goto(a, l), pc[a] # "get"
  PROVE  RInv' /\ Refines
<1>1. ~Holding(a)'
  BY Arrives DEF Holding
<1> QED
  BY <1>1, SameGoes

LEMMA ReadSecretImplements ==
  ASSUME RInv, IInv', NEW a \in Actors, ReadSecret(a)
  PROVE  RInv' /\ Refines
<1> DEFINE n == req[a].name
           next == Entry(req[a].op, secrets[n].status)
           q == [req[a] EXCEPT !.rec = secrets[n]]
<1>1. Inside(a) /\ SameStores
  BY DEF ReadSecret, GetAgent, Ask, Inside, SameStores
<1>2. n \in Names /\ req[a] \in Requests /\ secrets[n] \in Records
  BY <1>1, AtWork DEF RInv
<1>3. CASE ReturnUnchanged(a)
  BY <1>1, <1>3, SameReturns DEF Returns
<1>4. CASE next # "return" /\ Move(a, next, q)
  <2>1. /\ q \in Requests /\ q.name = n /\ q.op = req[a].op /\ q.ses = req[a].ses
        /\ q.rec = secrets[n] /\ q.todo = req[a].todo
    BY <1>2 DEF Requests
  <2>2. next \in Labels \ {"sync", "revokeOld", "persist"}
    BY <1>4 DEF Entry, Labels
  <2>3. ~Holding(a)'
    BY <1>4, <2>2 DEF Holding, Move, RInv, IInv, TypeOK
  <2>4. Remains(a)
    BY <1>1, <1>4 DEF Entry, Remains, SameStores
  <2> QED
    BY <1>1, <1>4, <2>1, <2>2, <2>3, <2>4, SameMoves
<1> QED
  BY <1>3, <1>4 DEF ReadSecret, GetAgent, Ask

LEMMA LookupUserImplements ==
  ASSUME RInv, IInv', NEW a \in Actors, LookupUser(a)
  PROVE  RInv' /\ Refines
<1>1. Inside(a) /\ SameStores /\ pc[a] # "get"
  BY DEF LookupUser, Ask, Inside, SameStores
<1>2. ReturnUnchanged(a) \/ Goto(a, "admit")
  BY DEF LookupUser, Ask
<1> QED
  BY <1>1, <1>2, SameReturns, GoesUnheld DEF Returns, Labels

LEMMA AdmitUserImplements ==
  ASSUME RInv, IInv', NEW a \in Actors, AdmitUser(a)
  PROVE  RInv' /\ Refines
<1>1. Inside(a) /\ SameStores /\ pc[a] # "get"
  BY DEF AdmitUser, Call, Inside, SameStores, SetUser, SameSecrets, world
<1>2. Return(a, FALSE) \/ Goto(a, "issue")
  BY DEF AdmitUser, Call
<1> QED
  BY <1>1, <1>2, SameReturns, GoesUnheld DEF Returns, Labels

LEMMA SyncProfileImplements ==
  ASSUME RInv, IInv', NEW a \in Actors, SyncProfile(a)
  PROVE  RInv' /\ Refines
<1>1. Inside(a) /\ SameStores /\ pc[a] # "get" /\ Holding(a)
  BY DEF SyncProfile, Call, Inside, Holding, SameStores, world
<1>2. Goto(a, "persist") \/ Goto(a, "undoCreate")
  BY DEF SyncProfile, Call
<1> QED
  BY <1>1, <1>2, SameGoes DEF Labels

LEMMA ListSessionsImplements ==
  ASSUME RInv, IInv', NEW a \in Actors, ListSessions(a)
  PROVE  RInv' /\ Refines
<1> DEFINE n == req[a].name
           ids == {s.id : s \in SessionsOf(n)}
           q == [req[a] EXCEPT !.todo = ids]
<1>1. Inside(a) /\ pc[a] = "list" /\ SameStores
  BY DEF ListSessions, Ask, Inside, SameStores
<1>2. /\ n \in Names /\ req[a] \in Requests /\ ActorOK(a) /\ live \subseteq Sessions
      /\ NotRetired(a)
  BY <1>1, AtWork DEF RInv, WorldTypes
<1>3. CASE ReturnUnchanged(a)
  BY <1>1, <1>3, SameReturns DEF Returns
<1>4. ASSUME NEW l \in {"revokeEach", "persist", "deactivate"}, Move(a, l, q)
      PROVE  RInv' /\ Refines
  <2>1. ids \subseteq Nat /\ \A id \in ids : Own(n, id)
    BY <1>2 DEF SessionsOf, Sessions, RInv, SessionsOwned
  <2>2. /\ q \in Requests /\ q.name = n /\ q.op = req[a].op /\ q.ses = req[a].ses
        /\ q.rec = req[a].rec /\ q.todo = ids
    BY <1>2, <2>1 DEF Requests
  <2>3. req[a].op \notin Issuing
    BY <1>1, <1>2 DEF ActorOK, InItsOp, Issuing
  <2>4. ~Holding(a)'
    BY <1>4, <2>2, <2>3 DEF Holding, Move, RInv, IInv, TypeOK
  <2>5. Remains(a)
    BY <1>1, <1>2 DEF NotRetired, Remains, SameStores
  <2>6. l \in Labels /\ l # "revokeOld" /\ \A id \in q.todo : Own(n, id)
    BY <2>1, <2>2 DEF Labels
  <2> HIDE DEF q, n
  <2> QED
    BY <1>1, <1>4, <2>2, <2>4, <2>5, <2>6, SameMoves DEF n
<1> QED
  BY <1>3, <1>4 DEF ListSessions, Ask, AfterRevoke

LEMMA DeactivateUserImplements ==
  ASSUME RInv, IInv', NEW a \in Actors, DeactivateUser(a)
  PROVE  RInv' /\ Refines
<1>1. Inside(a) /\ SameStores /\ pc[a] = "deactivate"
  BY DEF DeactivateUser, DeactivateMASUser, Call, Inside, SameStores, SetUser, SameSecrets, world
<1>2. ActorOK(a)
  BY DEF RInv, IInv
<1>3. CASE Return(a, FALSE)
  BY <1>1, <1>3, SameReturns DEF Returns
<1>4. ASSUME NEW l \in {"delete", "persist"}, Goto(a, l)
      PROVE  RInv' /\ Refines
  <2>1. ~Holding(a)'
    BY <1>1, <1>2, <1>4, Arrives DEF ActorOK, InItsOp, Holding, Issuing
  <2> QED
    BY <1>1, <1>4, <2>1, SameGoes DEF Labels
<1> QED
  BY <1>3, <1>4 DEF DeactivateUser, DeactivateMASUser, Call

LEMMA ClearReadImplements ==
  ASSUME RInv, IInv', NEW a \in Actors, ClearRead(a)
  PROVE  RInv' /\ Refines
<1> DEFINE n == req[a].name
           q == [req[a] EXCEPT !.rec = secrets[n]]
<1>1. Inside(a) /\ pc[a] = "clearGet" /\ SameStores
  BY DEF ClearRead, GetAgent, Ask, Inside, SameStores
<1>2. n \in Names /\ req[a] \in Requests /\ secrets[n] \in Records /\ NotRetired(a)
  BY <1>1, AtWork DEF RInv
<1>3. CASE Return(a, FALSE)
  BY <1>1, <1>3, SameReturns DEF Returns
<1>4. CASE Goto(a, "purge")
  BY <1>1, <1>4, GoesUnheld DEF Labels
<1>5. CASE Move(a, "clearPut", q)
  <2>1. /\ q \in Requests /\ q.name = n /\ q.op = req[a].op /\ q.ses = req[a].ses
        /\ q.rec = secrets[n] /\ q.todo = req[a].todo
    BY <1>2 DEF Requests
  <2>2. ~Holding(a)'
    BY <1>5 DEF Holding, Move, RInv, IInv, TypeOK
  <2>3. Remains(a)
    BY <1>1, <1>2 DEF NotRetired, Remains, SameStores
  <2> HIDE DEF q
  <2> QED
    BY <1>1, <1>5, <2>1, <2>2, <2>3, SameMoves DEF Labels
<1> QED
  BY <1>3, <1>4, <1>5 DEF ClearRead, GetAgent, Ask, ClearFailed

LEMMA UploadAvatarImplements ==
  ASSUME RInv, IInv', NEW a \in Actors, UploadAvatar(a)
  PROVE  RInv' /\ Refines
<1> DEFINE n == req[a].name
<1>1. Inside(a) /\ pc[a] = "upload" /\ SameStores
  BY DEF UploadAvatar, Call, Inside, SameStores, world
<1>2. req[a] \in Requests /\ NotRetired(a)
  BY <1>1, AtWork DEF RInv
<1>3. CASE ReturnUnchanged(a)
  BY <1>1, <1>3, SameReturns DEF Returns
<1>4. ASSUME NEW uri \in Avatars, Move(a, "setAvatar", [req[a] EXCEPT !.uri = uri])
      PROVE  RInv' /\ Refines
  <2> DEFINE q == [req[a] EXCEPT !.uri = uri]
  <2>1. /\ q \in Requests /\ q.name = n /\ q.op = req[a].op /\ q.ses = req[a].ses
        /\ q.rec = req[a].rec /\ q.todo = req[a].todo
    BY <1>2 DEF Requests, Images
  <2>2. ~Holding(a)'
    BY <1>4 DEF Holding, Move, RInv, IInv, TypeOK
  <2>3. Remains(a)
    BY <1>1, <1>2 DEF NotRetired, Remains, SameStores
  <2> QED
    BY <1>1, <1>4, <2>1, <2>2, <2>3, SameMoves DEF Labels
<1>5. \/ ReturnUnchanged(a)
      \/ \E uri \in Avatars : Move(a, "setAvatar", [req[a] EXCEPT !.uri = uri])
  BY Zenon DEF UploadAvatar, Call
<1> QED
  BY <1>3, <1>4, <1>5

LEMMA SetAvatarURLImplements ==
  ASSUME RInv, IInv', NEW a \in Actors, SetAvatarURL(a)
  PROVE  RInv' /\ Refines
<1>1. Inside(a) /\ SameStores /\ pc[a] = "setAvatar"
  BY DEF SetAvatarURL, SetProfile, Call, Inside, SameStores, SameMAS, SameSecrets, world
<1>2. ActorOK(a)
  BY DEF RInv, IInv
<1>3. CASE Goto(a, "persist")
  <2>1. ~Holding(a)'
    BY <1>1, <1>2, <1>3, Arrives DEF ActorOK, InItsOp, Holding, Issuing
  <2> QED
    BY <1>1, <1>3, <2>1, SameGoes DEF Labels
<1>4. CASE Return(a, FALSE)
  BY <1>1, <1>4, SameReturns DEF Returns
<1> QED
  BY <1>3, <1>4 DEF SetAvatarURL, SetProfile, Call

LEMMA UndoAvatarImplements ==
  ASSUME RInv, IInv', NEW a \in Actors, UndoAvatar(a)
  PROVE  RInv' /\ Refines
<1>1. Inside(a) /\ SameStores /\ Return(a, FALSE)
  BY DEF UndoAvatar, SetProfile, Call, Inside, SameStores, SameMAS, SameSecrets, world
<1> QED
  BY <1>1, SameReturns DEF Returns

-----------------------------------------------------------------------------
(* Steps that end a session, or issue a token. *)

\* The Secret stays, so nothing is left to show but the token in hand.
LEMMA KeptGoes ==
  ASSUME RInv, IInv', NEW a \in Actors, Inside(a), Local(a), secrets' = secrets,
         NEW l \in Labels, Goto(a, l), pc[a] # "get",
         l \in {"sync", "revokeOld", "persist"} => HandLive(a)'
  PROVE  RInv'
<1>1. Remains(a)
  BY DEF RInv, NotRetired, Remains
<1> QED
  BY <1>1, GotoKeeps

LEMMA RevokeReturns ==
  ASSUME RInv, IInv', NEW a \in Actors, Inside(a), Returns(a),
         NEW id, Own(req[a].name, id), RevokeEffect(id)
  PROVE  RInv' /\ Refines
<1>1. OthersStay(a) /\ confirmed' = confirmed /\ pc'[a] = "idle"
  BY ReturnStays
<1>2. Local(a) /\ Refines
  BY <1>1, RevokeEffects
<1> QED
  BY <1>1, <1>2, ReturnKeeps

LEMMA RevokeGoes ==
  ASSUME RInv, IInv', NEW a \in Actors, Inside(a), NEW id, Own(req[a].name, id), RevokeEffect(id),
         NEW l \in Labels, Goto(a, l), pc[a] # "get",
         l \in {"sync", "revokeOld", "persist"} => HandLive(a)'
  PROVE  RInv' /\ Refines
<1>1. OthersStay(a) /\ confirmed' = confirmed
  BY GotoStays
<1>2. Local(a) /\ Refines
  BY <1>1, RevokeEffects
<1>3. secrets' = secrets
  BY DEF RevokeEffect, SameSecrets, world
<1> QED
  BY <1>2, <1>3, KeptGoes

LEMMA RevokeOldImplements ==
  ASSUME RInv, IInv', NEW a \in Actors, RevokeOld(a)
  PROVE  RInv' /\ Refines
<1> DEFINE n == req[a].name
           old == req[a].rec.sid
<1>1. Inside(a) /\ pc[a] = "revokeOld" /\ Holding(a) /\ RevokeEffect(old)
  BY DEF RevokeOld, RevokePersonalSession, Call, Inside, Holding, RevokeEffect
<1>2. Own(n, old) /\ HandLive(a)
  BY DEF RInv, KnowsOwn
<1>3. CASE Goto(a, "undoNew")
  BY <1>1, <1>2, <1>3, RevokeGoes DEF Labels
<1>4. CASE Goto(a, "persist") /\ live' = {s \in live : s.id # old}
  <2>1. pc'[a] = "persist" /\ req'[a] = req[a]
    BY <1>4, Arrives
  <2>2. [owner |-> n, id |-> req[a].ses.id, token |-> req[a].ses.token] \in live'
    BY <1>1, <1>2, <1>4 DEF HandLive
  <2>3. HandLive(a)'
    BY <2>1, <2>2 DEF HandLive
  <2> QED
    BY <1>1, <1>2, <1>4, <2>3, RevokeGoes DEF Labels
<1> QED
  BY <1>3, <1>4 DEF RevokeOld, RevokePersonalSession, Call

LEMMA UndoRotateImplements ==
  ASSUME RInv, IInv', NEW a \in Actors, UndoRotate(a)
  PROVE  RInv' /\ Refines
<1>1. /\ Inside(a) /\ pc[a] # "get" /\ RevokeEffect(req[a].ses.id)
      /\ Return(a, FALSE) \/ Goto(a, "clearGet")
  BY DEF UndoRotate, RevokePersonalSession, Call, Inside, RevokeEffect
<1>2. Own(req[a].name, req[a].ses.id)
  BY DEF RInv, KnowsOwn
<1> QED
  BY <1>1, <1>2, RevokeReturns, RevokeGoes DEF Returns, Labels

LEMMA UndoCreateImplements ==
  ASSUME RInv, IInv', NEW a \in Actors, UndoCreate(a)
  PROVE  RInv' /\ Refines
<1>1. CASE pc[a] = "undoCreate"
  <2>1. Inside(a) /\ RevokeEffect(req[a].ses.id) /\ Goto(a, "undoUser")
    BY <1>1 DEF UndoCreate, RevokePersonalSession, Call, Inside, RevokeEffect
  <2>2. Own(req[a].name, req[a].ses.id)
    BY DEF RInv, KnowsOwn
  <2> QED
    BY <1>1, <2>1, <2>2, RevokeGoes DEF Labels
<1>2. CASE pc[a] = "undoUser"
  <2>1. Inside(a) /\ SameStores /\ Return(a, FALSE)
    BY <1>2 DEF UndoCreate, DeactivateMASUser, SetUser, SameSecrets, Call, Inside, SameStores, world
  <2> QED
    BY <2>1, SameReturns DEF Returns
<1> QED
  BY <1>1, <1>2 DEF UndoCreate

LEMMA RevokeEachImplements ==
  ASSUME RInv, IInv', NEW a \in Actors, RevokeEach(a)
  PROVE  RInv' /\ Refines
<1> DEFINE n == req[a].name
<1>1. PICK id \in req[a].todo :
        LET rest == req[a].todo \ {id}
        IN  RevokePersonalSession(a, id,
                Move(a, IF rest = {} THEN AfterRevoke(req[a].op) ELSE "revokeEach",
                     [req[a] EXCEPT !.todo = rest]),
                Return(a, FALSE))
  BY DEF RevokeEach
<1> DEFINE rest == req[a].todo \ {id}
           q == [req[a] EXCEPT !.todo = rest]
<1>2. Inside(a) /\ pc[a] = "revokeEach" /\ Own(n, id) /\ RevokeEffect(id)
  BY <1>1 DEF RevokeEach, RevokePersonalSession, Call, Inside, RevokeEffect, RInv, KnowsOwn
<1>3. req[a] \in Requests /\ ActorOK(a) /\ NotRetired(a)
  BY <1>2, AtWork DEF RInv
<1>4. CASE Return(a, FALSE)
  BY <1>2, <1>4, RevokeReturns DEF Returns
<1>5. ASSUME NEW l \in {"revokeEach", "persist", "deactivate"}, Move(a, l, q)
      PROVE  RInv' /\ Refines
  <2>1. /\ q \in Requests /\ q.name = n /\ q.op = req[a].op /\ q.ses = req[a].ses
        /\ q.rec = req[a].rec /\ q.todo = rest
    BY <1>3 DEF Requests
  <2>2. OthersStay(a) /\ confirmed' = confirmed
    BY <1>5, MoveStays
  <2>3. Local(a) /\ Refines
    BY <1>2, <2>2, RevokeEffects
  <2>4. Remains(a)
    BY <1>2, <1>3 DEF NotRetired, Remains, RevokeEffect, SameSecrets, world
  <2>5. req[a].op \notin Issuing
    BY <1>2, <1>3 DEF ActorOK, InItsOp, Issuing
  <2>6. HandLive(a)'
    BY <1>5, <2>1, <2>5 DEF HandLive, Holding, Move, RInv, IInv, TypeOK
  <2>7. l \in Labels /\ \A x \in q.todo : x \in req[a].todo
    BY <2>1 DEF Labels
  <2> HIDE DEF q, n
  <2> QED
    BY <1>2, <1>5, <2>1, <2>3, <2>4, <2>6, <2>7, MoveKeeps DEF n
<1> QED
  BY <1>1, <1>4, <1>5 DEF RevokePersonalSession, Call, AfterRevoke

LEMMA IssueForCreateImplements ==
  ASSUME RInv, IInv', NEW a \in Actors, IssueForCreate(a), NEW n, n = req[a].name
  PROVE  RInv' /\ Refines
<1> DEFINE i == issued + 1
           s == [owner |-> n, id |-> i, token |-> i]
           q == [req[a] EXCEPT !.ses = [id |-> i, token |-> i]]
           q0 == [req[a] EXCEPT !.ses = [id |-> i, token |-> 0]]
<1>1. Inside(a) /\ pc[a] = "issue" /\ req[a].op = "create"
  BY DEF IssueForCreate, Inside
<1>2. n \in Names /\ req[a] \in Requests /\ issued \in Nat
  BY <1>1, AtWork DEF RInv
<1>3. /\ q \in Requests /\ q.name = n /\ q.op = req[a].op /\ q.rec = req[a].rec
      /\ q.todo = req[a].todo /\ q.ses.id = i /\ q.ses.token = i
      /\ q0 \in Requests /\ q0.name = n /\ q0.op = req[a].op /\ q0.rec = req[a].rec
      /\ q0.todo = req[a].todo /\ q0.ses.id = i
  BY <1>2 DEF Requests
<1>4. s \in Sessions /\ s.owner = n /\ s.token = i /\ s.id = i /\ i \in Nat
  BY <1>2 DEF Sessions
<1>5. live = {x \in live : x.id # i}
  BY <1>2 DEF RInv, SessionsOwned, Own
<1>6. ASSUME Issue(s, live), OthersStay(a), confirmed' = confirmed
      PROVE  Local(a) /\ Refines /\ OwnAfter(n, i) /\ s \in live' /\ secrets' = secrets
  <2>1. secrets' = secrets
    BY <1>6 DEF Issue, SameSecrets
  <2> HIDE DEF s, i
  <2> QED
    BY <1>1, <1>4, <1>5, <1>6, <2>1, IssueEffects DEF i
<1>7. Remains(a)
  BY <1>1 DEF Remains
<1>8. CASE Issue(s, live) /\ Move(a, "sync", q)
  <2>1. Local(a) /\ Refines /\ OwnAfter(n, i) /\ s \in live'
    BY <1>6, <1>8, MoveStays
  <2>2. HandLive(a)'
    BY <1>3, <1>8, <2>1 DEF HandLive, Move, RInv, IInv, TypeOK
  <2>3. "sync" \in Labels
    BY DEF Labels
  <2> HIDE DEF q, s, i
  <2> QED
    BY <1>1, <1>3, <1>7, <1>8, <2>1, <2>2, <2>3, MoveKeeps
<1>9. CASE Issue(s, live) /\ Move(a, "undoCreate", q0)
  <2>1. Local(a) /\ Refines /\ OwnAfter(n, i)
    BY <1>6, <1>9, MoveStays
  <2>2. "undoCreate" \in Labels
    BY DEF Labels
  <2> HIDE DEF q0, s, i
  <2> QED
    BY <1>1, <1>3, <1>7, <1>9, <2>1, <2>2, MoveKeeps
<1>10. CASE Issue(s, live) /\ Goto(a, "undoUser")
  <2>1. Local(a) /\ Refines /\ secrets' = secrets
    BY <1>6, <1>10, GotoStays
  <2> QED
    BY <1>1, <1>10, <2>1, KeptGoes DEF Labels
<1>11. CASE UNCHANGED world /\ Goto(a, "undoUser")
  <2>1. SameStores
    BY <1>11 DEF world, SameStores
  <2> QED
    BY <1>1, <1>11, <2>1, GoesUnheld DEF Labels
<1> QED
  BY <1>8, <1>9, <1>10, <1>11 DEF IssueForCreate, Call

LEMMA IssueForRotateImplements ==
  ASSUME RInv, IInv', NEW a \in Actors, IssueForRotate(a), NEW n, n = req[a].name
  PROVE  RInv' /\ Refines
<1> DEFINE old == req[a].rec.sid
           t == issued + 1
           id == IF Regenerated(a) THEN old ELSE t
           kept == {x \in live : x.id # id}
           s == [owner |-> n, id |-> id, token |-> t]
           swapped == [s EXCEPT !.id = t]
           q == [req[a] EXCEPT !.ses = [id |-> id, token |-> t]]
           q0 == [req[a] EXCEPT !.ses = [id |-> id, token |-> 0]]
           Possible == IF Regenerated(a) THEN \E x \in live : x.id = old
                                         ELSE users[n] = "active"
<1>1. Inside(a) /\ pc[a] = "issue" /\ req[a].op \in {"rotate", "recover"}
  BY DEF IssueForRotate, Inside
<1>2. /\ n \in Names /\ req[a] \in Requests /\ issued \in Nat /\ NotRetired(a)
      /\ Own(n, old) /\ old \in Nat
  BY <1>1, AtWork DEF RInv, KnowsOwn, Requests, Records
<1>3. id \in Nat /\ (Regenerated(a) => id = old) /\ (~Regenerated(a) => id = t)
  BY <1>2
<1>4. /\ q \in Requests /\ q.name = n /\ q.op = req[a].op /\ q.rec = req[a].rec
      /\ q.todo = req[a].todo /\ q.ses.id = id /\ q.ses.token = t
      /\ q0 \in Requests /\ q0.name = n /\ q0.op = req[a].op /\ q0.rec = req[a].rec
      /\ q0.todo = req[a].todo /\ q0.ses.id = id
  BY <1>2, <1>3 DEF Requests
<1>5. /\ s \in Sessions /\ s.owner = n /\ s.token = t /\ s.id = id
      /\ swapped \in Sessions /\ swapped.owner = n /\ swapped.token = t /\ swapped.id = t
  BY <1>2, <1>3 DEF Sessions
<1>6. ASSUME NEW x \in {s, swapped}, Issue(x, kept), Possible, Regenerated(a) \/ x = s,
             OthersStay(a), confirmed' = confirmed
      PROVE  /\ Local(a) /\ Refines /\ OwnAfter(n, x.id) /\ x \in live'
             /\ secrets' = secrets /\ Remains(a)
  <2>1. secrets' = secrets /\ Remains(a)
    BY <1>1, <1>2, <1>6 DEF Issue, SameSecrets, NotRetired, Remains
  <2>2. \/ id = issued + 1 /\ x.id = id
        \/ Own(n, id) /\ (\E y \in live : y.id = id) /\ x.id \in {id, issued + 1}
    BY <1>2, <1>3, <1>5, <1>6
  <2>3. x \in Sessions /\ x.owner = n /\ x.token = issued + 1
    BY <1>5, <1>6
  <2> HIDE DEF s, swapped, id
  <2> QED
    BY <1>1, <1>3, <1>6, <2>1, <2>2, <2>3, IssueEffects
<1>7. ASSUME NEW l \in {"persist", "revokeOld"}, Possible, Issue(s, kept), Move(a, l, q),
             l = "revokeOld" => ~Regenerated(a)
      PROVE  RInv' /\ Refines
  <2>1. Local(a) /\ Refines /\ OwnAfter(n, id) /\ s \in live' /\ Remains(a)
    BY <1>5, <1>6, <1>7, MoveStays
  <2>2. pc'[a] = l /\ req'[a] = q
    BY <1>7 DEF Move, RInv, IInv, TypeOK
  <2>3. l = "revokeOld" => q.ses.id # q.rec.sid
    BY <1>2, <1>3, <1>4, <1>7 DEF Own
  <2>4. HandLive(a)'
    BY <1>4, <2>1, <2>2, <2>3 DEF HandLive
  <2>5. l \in Labels
    BY DEF Labels
  <2> HIDE DEF q, s, id
  <2> QED
    BY <1>1, <1>4, <1>7, <2>1, <2>4, <2>5, MoveKeeps
<1>8. ASSUME NEW l \in {"undoRotate", "undoNew"}, Possible, Issue(s, kept), Move(a, l, q0)
      PROVE  RInv' /\ Refines
  <2>1. Local(a) /\ Refines /\ OwnAfter(n, id) /\ Remains(a)
    BY <1>5, <1>6, <1>8, MoveStays
  <2>2. l \in Labels
    BY DEF Labels
  <2> HIDE DEF q0, s, id
  <2> QED
    BY <1>1, <1>4, <1>8, <2>1, <2>2, MoveKeeps
<1>9. CASE Possible /\ Issue(s, kept) /\ Goto(a, "clearGet")
  <2>1. Local(a) /\ Refines /\ secrets' = secrets
    BY <1>6, <1>9, GotoStays
  <2> QED
    BY <1>1, <1>9, <2>1, KeptGoes DEF Labels
<1>10. ASSUME NEW x \in {s, swapped}, Possible, Issue(x, kept), Regenerated(a) \/ x = s,
              Return(a, FALSE)
       PROVE  RInv' /\ Refines
  <2>1. OthersStay(a) /\ confirmed' = confirmed /\ pc'[a] = "idle"
    BY <1>10, ReturnStays DEF Returns
  <2>2. Local(a) /\ Refines
    BY <1>6, <1>10, <2>1
  <2> QED
    BY <1>1, <2>1, <2>2, ReturnKeeps
<1>11. CASE UNCHANGED world /\ Return(a, FALSE)
  <2>1. SameStores
    BY <1>11 DEF world, SameStores
  <2> QED
    BY <1>1, <1>11, <2>1, SameReturns DEF Returns
<1> QED
  BY <1>7, <1>8, <1>9, <1>10, <1>11 DEF IssueForRotate, Call

-----------------------------------------------------------------------------
(* Steps that write the Secret. *)

LEMMA NullOwn ==
  ASSUME RInv, NEW n
  PROVE  Own(n, 0)
  BY DEF RInv, IInv, TypeOK, TokensOK, Own

\* A write that takes the token out, or no write.
LEMMA WithdrawEffects ==
  ASSUME RInv, NEW a \in Actors, Inside(a), OthersStay(a), confirmed' = confirmed,
         NEW n, n = req[a].name, NEW r \in Records, r.sid = 0,
         \/ UNCHANGED world
         \/ /\ Put(a, n, r) /\ Quiet(n) /\ secrets[n] # NoSecret
            /\ \/ r = NoSecret
               \/ r.status = "deactivated" /\ r.gen = secrets[n].gen
               \/ /\ r.status = "revoked" /\ r.gen = secrets[n].gen
                  /\ secrets[n].status \in {"active", "revoked"}
  PROVE  Local(a) /\ Refines /\ (secrets'[n] = secrets[n] \/ secrets'[n] = r)
<1>1. n \in Names
  BY AtWork DEF RInv
<1>2. CASE UNCHANGED world
  BY <1>2, SameEffect DEF world, SameStores
<1>3. CASE Put(a, n, r) /\ ~UNCHANGED world
  <2>1. Local(a) /\ secrets'[n] = r
    BY <1>3, NullOwn, PutLocal
  <2>2. secrets[n].status # "absent"
    BY <1>1, <1>3 DEF RInv, IInv, AbsentIsEmpty
  <2>3. Refines
    BY <1>1, <1>3, <2>2, Withdraws
  <2> QED
    BY <2>1, <2>3
<1> QED
  BY <1>2, <1>3

LEMMA PersistClearedImplements ==
  ASSUME RInv, IInv', NEW a \in Actors, PersistCleared(a), NEW n, n = req[a].name
  PROVE  RInv' /\ Refines
<1> DEFINE r == Cleared(req[a].rec, FinalStatus(req[a].op))
<1>1. Inside(a) /\ pc[a] = "persist" /\ req[a].op \in {"revoke", "deactivate"}
  BY DEF PersistCleared, Inside
<1>2. /\ n \in Names /\ req[a] \in Requests /\ ActorOK(a) /\ NotRetired(a)
      /\ secrets[n] \in Records
  BY <1>1, AtWork DEF RInv
<1>3. req[a].rec = secrets[n] /\ Quiet(n)
  BY <1>1, <1>2 DEF ActorOK, Current, Revoked, Emptied, Quiet
<1>4. /\ r \in Records /\ r.sid = 0 /\ r.gen = secrets[n].gen
      /\ \/ r.status = "deactivated" /\ req[a].op = "deactivate"
         \/ /\ r.status = "revoked" /\ secrets[n].status \in {"active", "revoked"}
  BY <1>1, <1>2, <1>3 DEF Cleared, FinalStatus, Records, Statuses, NotRetired
<1>5. (Put(a, n, r) /\ secrets[n] # NoSecret) \/ UNCHANGED world
  BY DEF PersistCleared, UpdateAgent, Call
<1>6. (\E ok \in BOOLEAN : Return(a, ok)) \/ Goto(a, "clearGet")
  BY DEF PersistCleared, UpdateAgent, Call
<1>7. ASSUME OthersStay(a), confirmed' = confirmed
      PROVE  Local(a) /\ Refines /\ Remains(a)
  <2>1. Local(a) /\ Refines /\ (secrets'[n] = secrets[n] \/ secrets'[n] = r)
    <3> HIDE DEF r
    <3> QED
      BY <1>1, <1>3, <1>4, <1>5, <1>7, WithdrawEffects
  <2>2. Remains(a)
    BY <1>1, <1>2, <1>4, <2>1 DEF Remains, NotRetired
  <2> QED
    BY <2>1, <2>2
<1>8. CASE \E ok \in BOOLEAN : Return(a, ok)
  BY <1>1, <1>7, <1>8, ReturnStays, ReturnKeeps DEF Returns
<1>9. CASE Goto(a, "clearGet")
  <2>1. Local(a) /\ Refines /\ Remains(a)
    BY <1>7, <1>9, GotoStays
  <2> QED
    BY <1>1, <1>9, <2>1, GotoKeeps DEF Labels
<1> QED
  BY <1>6, <1>8, <1>9

LEMMA ClearWriteImplements ==
  ASSUME RInv, IInv', NEW a \in Actors, ClearWrite(a), NEW n, n = req[a].name
  PROVE  RInv' /\ Refines
<1> DEFINE r == Cleared(req[a].rec, FinalStatus(req[a].op))
           again == [req[a] EXCEPT !.tries = @ + 1]
<1>1. Inside(a) /\ pc[a] = "clearPut"
  BY DEF ClearWrite, Inside
<1>2. /\ n \in Names /\ req[a] \in Requests /\ ActorOK(a) /\ NotRetired(a)
      /\ secrets[n] \in Records
  BY <1>1, AtWork DEF RInv
<1>3. req[a].rec = secrets[n] /\ Quiet(n) /\ req[a].op \notin {"create", "avatar"}
  BY <1>1, <1>2 DEF ActorOK, InItsOp, Current, Revoked
<1>4. /\ r \in Records /\ r.sid = 0 /\ r.gen = secrets[n].gen
      /\ \/ r.status = "deactivated" /\ req[a].op \in {"deactivate", "remove"}
         \/ /\ r.status = "revoked" /\ secrets[n].status \in {"active", "revoked"}
  BY <1>1, <1>2, <1>3 DEF Cleared, FinalStatus, Records, Statuses, NotRetired
<1>5. (Put(a, n, r) /\ secrets[n] # NoSecret) \/ UNCHANGED world
  BY DEF ClearWrite, UpdateAgent, Call
<1>6. ASSUME OthersStay(a), confirmed' = confirmed
      PROVE  Local(a) /\ Refines /\ Remains(a)
  <2>1. Local(a) /\ Refines /\ (secrets'[n] = secrets[n] \/ secrets'[n] = r)
    <3> HIDE DEF r
    <3> QED
      BY <1>1, <1>3, <1>4, <1>5, <1>6, WithdrawEffects
  <2>2. Remains(a)
    BY <1>1, <1>2, <1>4, <2>1 DEF Remains, NotRetired
  <2> QED
    BY <2>1, <2>2
<1>7. CASE Return(a, FALSE)
  BY <1>1, <1>6, <1>7, ReturnStays, ReturnKeeps DEF Returns
<1>8. CASE Goto(a, "purge")
  <2>1. Local(a) /\ Refines /\ Remains(a)
    BY <1>6, <1>8, GotoStays
  <2> QED
    BY <1>1, <1>8, <2>1, GotoKeeps DEF Labels
<1>9. CASE req[a].tries < 2 /\ Move(a, "clearGet", again)
  <2>1. /\ again \in Requests /\ again.name = n /\ again.op = req[a].op
        /\ again.ses = req[a].ses /\ again.rec = req[a].rec /\ again.todo = req[a].todo
    BY <1>2, <1>9 DEF Requests
  <2>2. Local(a) /\ Refines /\ Remains(a)
    BY <1>6, <1>9, MoveStays
  <2>3. "clearGet" \in Labels
    BY DEF Labels
  <2> HIDE DEF again
  <2> QED
    BY <1>1, <1>9, <2>1, <2>2, <2>3, MoveKeeps
<1> QED
  BY <1>7, <1>8, <1>9 DEF ClearWrite, UpdateAgent, Call, ClearFailed

LEMMA DeleteSecretImplements ==
  ASSUME RInv, IInv', NEW a \in Actors, DeleteSecret(a), NEW n, n = req[a].name
  PROVE  RInv' /\ Refines
<1>1. Inside(a) /\ pc[a] = "delete"
  BY DEF DeleteSecret, Inside
<1>2. ActorOK(a)
  BY <1>1, AtWork DEF RInv
<1>3. req[a].op = "remove" /\ Quiet(n) /\ Remains(a)
  BY <1>1, <1>2 DEF ActorOK, InItsOp, Revoked, Remains
<1>4. (Put(a, n, NoSecret) /\ secrets[n] # NoSecret) \/ UNCHANGED world
  BY DEF DeleteSecret, DeleteAgent, Call
<1>5. ASSUME OthersStay(a), confirmed' = confirmed
      PROVE  Local(a) /\ Refines
  <2>1. NoSecret.sid = 0
    BY DEF NoSecret
  <2> QED
    BY <1>1, <1>3, <1>4, <1>5, <2>1, NullTypes, WithdrawEffects
<1>6. CASE \E ok \in BOOLEAN : Return(a, ok)
  BY <1>1, <1>5, <1>6, ReturnStays, ReturnKeeps DEF Returns
<1>7. CASE Goto(a, "clearGet")
  BY <1>1, <1>3, <1>5, <1>7, GotoStays, GotoKeeps DEF Labels
<1> QED
  BY <1>6, <1>7 DEF DeleteSecret, DeleteAgent, Call

LEMMA PurgeImplements ==
  ASSUME RInv, IInv', NEW a \in Actors, Purge(a), NEW n, n = req[a].name
  PROVE  RInv' /\ Refines
<1>1. Inside(a) /\ pc[a] = "purge"
  BY DEF Purge, Inside
<1>2. ActorOK(a)
  BY <1>1, AtWork DEF RInv
<1>3. Quiet(n) /\ NoSecret.sid = 0
  BY <1>1, <1>2 DEF ActorOK, Revoked, NoSecret
<1>4. (Put(a, n, NoSecret) /\ secrets[n] # NoSecret) \/ UNCHANGED world
  BY DEF Purge, DeleteAgent, Call
<1>5. Return(a, FALSE)
  BY DEF Purge, DeleteAgent, Call
<1>6. OthersStay(a) /\ confirmed' = confirmed /\ pc'[a] = "idle"
  BY <1>5, ReturnStays DEF Returns
<1>7. Local(a) /\ Refines
  BY <1>1, <1>3, <1>4, <1>6, NullTypes, WithdrawEffects
<1> QED
  BY <1>1, <1>6, <1>7, ReturnKeeps

\* A new avatar is no change of the lifecycle.
LEMMA PersistAvatarImplements ==
  ASSUME RInv, IInv', NEW a \in Actors, PersistAvatar(a), NEW n, n = req[a].name
  PROVE  RInv' /\ Refines
<1> DEFINE r == [req[a].rec EXCEPT !.avatar = req[a].uri]
<1>1. Inside(a) /\ pc[a] = "persist" /\ req[a].op = "avatar"
  BY DEF PersistAvatar, Inside
<1>2. /\ n \in Names /\ req[a] \in Requests /\ ActorOK(a) /\ secrets[n] \in Records
      /\ secrets \in [Names -> Records]
  BY <1>1, AtWork DEF RInv, WorldTypes
<1>3. req[a].rec = secrets[n] /\ Remains(a)
  BY <1>1, <1>2 DEF ActorOK, Current, Remains
<1>4. /\ r \in Records /\ r.sid = secrets[n].sid /\ r.status = secrets[n].status
      /\ r.gen = secrets[n].gen
  BY <1>2, <1>3 DEF Records, Requests
<1>5. ASSUME OthersStay(a), confirmed' = confirmed
      PROVE  Local(a) /\ Refines
  <2>1. CASE UNCHANGED world
    BY <1>1, <1>5, <2>1, SameEffect DEF world, SameStores
  <2>2. CASE Put(a, n, r)
    <3>1. Own(n, r.sid)
      BY <1>2, <1>4 DEF RInv, SessionsOwned
    <3>2. Local(a)
      <4> HIDE DEF r
      <4> QED
        BY <1>1, <1>4, <1>5, <2>2, <3>1, PutLocal
    <3>3. live' = live /\ secrets' = [secrets EXCEPT ![n] = r]
      BY <2>2 DEF Put
    <3>4. \A m \in Names : Credentials(m)' = Credentials(m)
      BY <1>5, <3>3 DEF Credentials, SessionsOf
    <3>5. \A m \in Names :
            secrets'[m].status = secrets[m].status /\ secrets'[m].gen = secrets[m].gen
      BY <1>2, <1>4, <3>3
    <3>6. UNCHANGED Lifecycle!vars
      BY <1>5, <3>4, <3>5 DEF Lifecycle!vars
    <3> QED
      BY <3>2, <3>6 DEF Refines
  <2> QED
    BY <2>1, <2>2 DEF PersistAvatar, UpdateAgent, Call
<1>6. CASE \E ok \in BOOLEAN : Return(a, ok)
  BY <1>1, <1>5, <1>6, ReturnStays, ReturnKeeps DEF Returns
<1>7. CASE Goto(a, "undoAvatar")
  BY <1>1, <1>3, <1>5, <1>7, GotoStays, GotoKeeps DEF Labels
<1> QED
  BY <1>6, <1>7 DEF PersistAvatar, UpdateAgent, Call

LEMMA ReturnTokenStays ==
  ASSUME RInv, NEW a \in Actors, ReturnToken(a)
  PROVE  /\ OthersStay(a) /\ pc'[a] \in {"idle", "check"}
         /\ confirmed' = confirmed \cup {req[a].ses.token}
  BY DEF RInv, IInv, TypeOK, ReturnToken, Leave, OthersStay

LEMMA PersistCreatedImplements ==
  ASSUME RInv, IInv', NEW a \in Actors, PersistCreated(a), NEW n, n = req[a].name
  PROVE  RInv' /\ Refines
<1> DEFINE r == [status |-> "active", sid |-> req[a].ses.id, token |-> req[a].ses.token,
                 gen |-> 1, avatar |-> NoAvatar]
<1>1. Inside(a) /\ pc[a] = "persist" /\ req[a].op = "create" /\ Holding(a)
  BY DEF PersistCreated, Inside, Holding, Issuing
<1>2. n \in Names /\ req[a] \in Requests /\ ActorOK(a) /\ AgentOK(n)
  BY <1>1, AtWork DEF RInv
<1>3. secrets[n] = NoSecret /\ Remains(a)
  BY <1>1, <1>2 DEF ActorOK, Current, Remains
<1>4. r \in Records /\ r.sid = req[a].ses.id /\ r.status = "active" /\ r.gen = 1
  BY <1>2 DEF Records, Requests, Statuses, Images
<1>5. Own(n, r.sid) /\ Quiet(n)
  BY <1>2, <1>3, <1>4 DEF RInv, KnowsOwn, AgentOK, Quiet, SessionsOf, NoSecret
<1>6. ASSUME Put(a, n, r), OthersStay(a),
             confirmed' = confirmed \/ confirmed' = confirmed \cup {req[a].ses.token}
      PROVE  Local(a) /\ Refines
  <2> HIDE DEF r
  <2>1. Local(a)
    BY <1>1, <1>4, <1>5, <1>6, PutLocal
  <2>2. Lifecycle!HandOut(n)
    BY <1>1, <1>4, <1>5, <1>6, HandsOut
  <2>3. Lifecycle!Become(n, "active", 1)
    BY <1>2, <1>4, <1>6 DEF Put, Lifecycle!Become, RInv, IInv, TypeOK
  <2>4. Lifecycle!Provision(n)
    BY <1>2, <1>3, <2>2, <2>3 DEF Lifecycle!Provision, NoSecret
  <2> QED
    BY <1>2, <2>1, <2>4 DEF Refines, Lifecycle!Next
<1>7. CASE Put(a, n, r) /\ ReturnToken(a)
  BY <1>1, <1>6, <1>7, ReturnTokenStays, ReturnKeeps
<1>8. CASE Put(a, n, r) /\ Goto(a, "undoCreate")
  BY <1>1, <1>3, <1>6, <1>8, GotoStays, GotoKeeps DEF Labels
<1>9. CASE UNCHANGED world /\ Goto(a, "undoCreate")
  <2>1. SameStores
    BY <1>9 DEF world, SameStores
  <2> QED
    BY <1>1, <1>9, <2>1, GoesUnheld DEF Labels
<1> QED
  BY <1>7, <1>8, <1>9 DEF PersistCreated, CreateAgent, Call

LEMMA PersistRotatedImplements ==
  ASSUME RInv, IInv', NEW a \in Actors, PersistRotated(a), NEW n, n = req[a].name
  PROVE  RInv' /\ Refines
<1> DEFINE r == Rotated(a)
<1>1. Inside(a) /\ pc[a] = "persist" /\ req[a].op \in {"rotate", "recover"} /\ Holding(a)
  BY DEF PersistRotated, Inside, Holding, Issuing
<1>2. n \in Names /\ req[a] \in Requests /\ ActorOK(a) /\ secrets[n] \in Records
  BY <1>1, AtWork DEF RInv
<1>3. req[a].rec = secrets[n] /\ secrets[n].status \in {"active", "revoked"} /\ Quiet(n)
  BY <1>1, <1>2 DEF ActorOK, Current, Revoked
<1>4. /\ r \in Records /\ r.sid = req[a].ses.id /\ r.status = "active"
      /\ r.gen = secrets[n].gen + 1
  <2>1. req[a].rec \in Records /\ req[a].ses.id \in Nat /\ req[a].ses.token \in Nat
    BY <1>2 DEF Requests
  <2>2. req[a].rec.gen + 1 \in Nat
    BY <2>1 DEF Records
  <2>3. /\ r \in Records /\ r.sid = req[a].ses.id /\ r.status = "active"
        /\ r.gen = req[a].rec.gen + 1
    BY <2>1, <2>2, Zenon DEF Rotated, Records, Statuses
  <2> QED
    BY <1>3, <2>3
<1>5. Own(n, r.sid)
  BY <1>4 DEF RInv, KnowsOwn
<1> HIDE DEF r
<1>6. ASSUME Put(a, n, r), OthersStay(a),
             confirmed' = confirmed \/ confirmed' = confirmed \cup {req[a].ses.token}
      PROVE  Local(a) /\ Refines /\ secrets'[n] = r
  <2>1. Local(a) /\ secrets'[n] = r
    BY <1>1, <1>4, <1>5, <1>6, PutLocal
  <2>2. Lifecycle!HandOut(n)
    BY <1>1, <1>3, <1>4, <1>6, HandsOut
  <2>3. Lifecycle!Become(n, "active", secrets[n].gen + 1)
    BY <1>2, <1>4, <1>6 DEF Put, Lifecycle!Become, RInv, IInv, TypeOK
  <2>4. Credentials(n) = {}
    BY <1>3, QuietMeansNone
  <2>5. Lifecycle!Renew(n)
    BY <1>2, <1>3, <2>2, <2>3, <2>4 DEF Lifecycle!Renew, Lifecycle!Become
  <2> QED
    BY <1>2, <2>1, <2>5 DEF Refines, Lifecycle!Next
<1>7. CASE Put(a, n, r) /\ ReturnToken(a)
  BY <1>1, <1>6, <1>7, ReturnTokenStays, ReturnKeeps
<1>8. CASE Put(a, n, r) /\ Goto(a, "undoRotate")
  <2>1. Local(a) /\ Refines /\ Remains(a)
    BY <1>4, <1>6, <1>8, GotoStays DEF Remains
  <2> QED
    BY <1>1, <1>8, <2>1, GotoKeeps DEF Labels
<1>9. CASE UNCHANGED world /\ (Goto(a, "undoRotate") \/ Return(a, FALSE))
  <2>1. SameStores
    BY <1>9 DEF world, SameStores
  <2> QED
    BY <1>1, <1>9, <2>1, GoesUnheld, SameReturns DEF Labels, Returns
<1> QED
  BY <1>7, <1>8, <1>9 DEF PersistRotated, UpdateAgent, Call, r

-----------------------------------------------------------------------------
(* Steps outside the mutex, and steps of the environment. *)

\* What the lifecycle and the invariant do not look at may change.
LEMMA UnseenImplements ==
  ASSUME RInv, IInv', Unseen
  PROVE  RInv' /\ Refines
<1>1. RInv'
  BY DEF RInv, Unseen, SessionsOwned, Own, KnowsOwn, HandLive, Holding, NotRetired, Inside
<1>2. \A n \in Names : Credentials(n)' = Credentials(n)
  BY DEF Unseen, Credentials, SessionsOf
<1> QED
  BY <1>1, <1>2, Stutters DEF Unseen

\* An actor that is not at work has nothing to show.
LEMMA OutsideImplements ==
  ASSUME RInv, IInv', SameStores, confirmed' = confirmed,
         \A b \in Actors :
            \/ pc'[b] = pc[b] /\ req'[b] = req[b]
            \/ /\ pc'[b] \in {"idle", "lock", "get"}
               /\ req'[b] = req[b] \/ (req'[b].ses = NoSession
                                       /\ req'[b].rec = NoSecret /\ req'[b].todo = {})
  PROVE  RInv' /\ Refines
<1>1. SessionsOwned'
  BY DEF RInv, SameStores, SessionsOwned, Own
<1>2. ASSUME NEW b \in Actors PROVE KnowsOwn(b)' /\ HandLive(b)' /\ NotRetired(b)'
  <2>1. CASE pc'[b] = pc[b] /\ req'[b] = req[b]
    BY <2>1 DEF RInv, SameStores, KnowsOwn, Own, HandLive, Holding, NotRetired, Inside
  <2>2. CASE pc'[b] \in {"idle", "lock", "get"}
    <3>1. HandLive(b)' /\ NotRetired(b)'
      BY <2>2 DEF HandLive, Holding, NotRetired, Inside
    <3>2. CASE req'[b] = req[b]
      BY <3>1, <3>2 DEF RInv, SameStores, KnowsOwn, Own
    <3>3. CASE req'[b].ses = NoSession /\ req'[b].rec = NoSecret /\ req'[b].todo = {}
      <4>1. Own(req'[b].name, 0)
        BY NullOwn
      <4>2. KnowsOwn(b)'
        BY <3>3, <4>1 DEF KnowsOwn, SameStores, Own, NoSession, NoSecret
      <4> QED
        BY <3>1, <4>2
    <3> QED
      BY <2>1, <2>2, <3>2, <3>3
  <2> QED
    BY <2>1, <2>2
<1>3. \A n \in Names : Credentials(n)' = Credentials(n)
  BY DEF SameStores, Credentials, SessionsOf
<1> QED
  BY <1>1, <1>2, <1>3, Stutters DEF RInv, SameStores

LEMMA StartImplements ==
  ASSUME RInv, IInv', NEW a \in Actors, Start(a)
  PROVE  RInv' /\ Refines
<1>1. PICK op \in Ops, n \in Names : Move(a, "lock", [NoRequest EXCEPT !.op = op, !.name = n])
  BY DEF Start
<1>2. SameStores /\ confirmed' = confirmed
  BY <1>1 DEF Start, world, SameStores, Move
<1>3. pc \in [Actors -> Labels] /\ req \in [Actors -> Requests]
  BY DEF RInv, IInv, TypeOK
<1>4. \A b \in Actors :
        \/ pc'[b] = pc[b] /\ req'[b] = req[b]
        \/ pc'[b] = "lock" /\ req'[b] = [NoRequest EXCEPT !.op = op, !.name = n]
  BY <1>1, <1>3 DEF Move
<1> QED
  BY <1>2, <1>4, OutsideImplements DEF NoRequest

LEMMA AcquireImplements ==
  ASSUME RInv, IInv', NEW a \in Actors, Acquire(a)
  PROVE  RInv' /\ Refines
<1>1. SameStores /\ confirmed' = confirmed
  BY DEF Acquire, world, SameStores
<1>2. \A b \in Actors :
        req'[b] = req[b] /\ (pc'[b] = pc[b] \/ pc'[b] = "get")
  BY DEF Acquire, RInv, IInv, TypeOK
<1> QED
  BY <1>1, <1>2, OutsideImplements

LEMMA CheckDeviceImplements ==
  ASSUME RInv, IInv', NEW a \in Actors, CheckDevice(a)
  PROVE  RInv' /\ Refines
<1>1. SameStores /\ confirmed' = confirmed
  BY DEF CheckDevice, Goto, Move, world, SameStores
<1>2. \A b \in Actors :
        req'[b] = req[b] /\ (pc'[b] = pc[b] \/ pc'[b] = "idle")
  BY DEF CheckDevice, Goto, Move, RInv, IInv, TypeOK
<1> QED
  BY <1>1, <1>2, OutsideImplements

LEMMA CrashImplements ==
  ASSUME RInv, IInv', Crash
  PROVE  RInv' /\ Refines
<1>1. SameStores /\ confirmed' = confirmed
  BY DEF Crash, SameStores
<1>2. \A b \in Actors : pc'[b] = "idle" /\ req'[b] = NoRequest
  BY DEF Crash
<1> QED
  BY <1>1, <1>2, OutsideImplements DEF NoRequest

LEMMA EnvironmentImplements ==
  ASSUME RInv, IInv', Environment \/ UNCHANGED vars
  PROVE  RInv' /\ Refines
<1>1. ASSUME NEW a \in Actors, Expire(a) PROVE Unseen
  BY <1>1 DEF Expire, world, Unseen
<1>2. ASSUME NEW n \in Names, EditSecret(n) PROVE Unseen
  BY <1>2 DEF EditSecret, process, Unseen
<1>3. CASE UNCHANGED vars
  BY <1>3, UnseenImplements DEF vars, Unseen
<1> QED
  BY <1>1, <1>2, <1>3, CrashImplements, UnseenImplements DEF Environment

-----------------------------------------------------------------------------
(* The theorem. *)

LEMMA RunImplements ==
  ASSUME RInv, IInv', NEW a \in Actors, Run(a)
  PROVE  RInv' /\ Refines
<1>1. CASE CreateStep(a)
  BY <1>1, LookupUserImplements, AdmitUserImplements, IssueForCreateImplements,
     SyncProfileImplements, PersistCreatedImplements, UndoCreateImplements DEF CreateStep
<1>2. CASE RotateStep(a)
  BY <1>2, IssueForRotateImplements, RevokeOldImplements, PersistRotatedImplements,
     UndoRotateImplements, CheckDeviceImplements DEF RotateStep
<1>3. CASE WithdrawStep(a)
  BY <1>3, ListSessionsImplements, RevokeEachImplements, DeactivateUserImplements,
     PersistClearedImplements, DeleteSecretImplements, ClearReadImplements,
     ClearWriteImplements, PurgeImplements DEF WithdrawStep
<1>4. CASE AvatarStep(a)
  BY <1>4, UploadAvatarImplements, SetAvatarURLImplements, PersistAvatarImplements,
     UndoAvatarImplements DEF AvatarStep
<1> QED
  BY <1>1, <1>2, <1>3, <1>4, ReadSecretImplements DEF Run

\* The mapped initial state is the lifecycle's.
LEMMA InitImplements == Init => RInv /\ Lifecycle!Init
<1> SUFFICES ASSUME Init PROVE RInv /\ Lifecycle!Init
  OBVIOUS
<1>1. IInv
  BY InitInv
<1>2. SessionsOwned /\ \A a \in Actors : KnowsOwn(a) /\ HandLive(a) /\ NotRetired(a)
  BY DEF Init, SessionsOwned, Own, KnowsOwn, HandLive, Holding, NotRetired, Inside,
         NoSecret, NoRequest, NoSession
<1>3. Lifecycle!Init
  BY DEF Init, Lifecycle!Init, Credentials, SessionsOf, NoSecret
<1> QED
  BY <1>1, <1>2, <1>3 DEF RInv

LEMMA NextImplements == RInv /\ [Next]_vars => RInv' /\ Refines
<1> SUFFICES ASSUME RInv, [Next]_vars PROVE RInv' /\ Refines
  OBVIOUS
<1>1. IInv'
  BY NextInv DEF RInv
<1>2. ASSUME NEW a \in Actors, Start(a) \/ Acquire(a) \/ Run(a)
      PROVE  RInv' /\ Refines
  BY <1>1, <1>2, StartImplements, AcquireImplements, RunImplements
<1> QED
  BY <1>1, <1>2, EnvironmentImplements DEF Next

\* Whatever is interleaved, fails or crashes, what the Secrets say and which handed-out
\* tokens work changes only as AgentLifecycle allows: at most one token of an agent works,
\* and none does when its Secret gets another or loses the one it has.
THEOREM Implements == Spec => ImplementsLifecycle
<1>1. Spec => []RInv
  BY InitImplements, NextImplements, PTL DEF Spec
<1>2. RInv /\ [Next]_vars => [Lifecycle!Next]_(Lifecycle!vars)
  BY NextImplements DEF Refines
<1>3. Init => Lifecycle!Init
  BY InitImplements
<1> QED
  BY <1>1, <1>2, <1>3, PTL DEF Spec, ImplementsLifecycle, Lifecycle!Spec
=============================================================================
