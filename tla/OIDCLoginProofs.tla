-------------------------- MODULE OIDCLoginProofs --------------------------
(***************************************************************************)
(* For any number of browsers, handlers and states, any limit of the store *)
(* and any lifetime: IInv of OIDCLogin is inductive, and with it states    *)
(* are used once, the store is bounded, no login that could be completed   *)
(* is dropped and every session was earned by the browser that has it.     *)
(***************************************************************************)
EXTENDS OIDCLogin, FiniteSetTheorems, TLAPS

USE NobodyAssumption, StoreAssumption, LifetimeAssumption, BoundAssumption

\* What still opens has not expired: sealing rounds down.
LEMMA OpensUnexpired ==
  ASSUME TypeOK, NEW s \in States, Opens(expiry[s])
  PROVE  expiry[s] > now
<1>1. expiry[s] \in Nat /\ now \in Nat
  BY DEF TypeOK
<1>2. \A t \in Nat : t % 2 \in 0..1
  OBVIOUS
<1>3. Sealed(expiry[s]) <= expiry[s]
  BY <1>1, <1>2 DEF Sealed
<1>4. Sealed(expiry[s]) \in Int
  BY <1>1, <1>2 DEF Sealed
<1> QED
  BY <1>1, <1>3, <1>4 DEF Opens

\* Any set of states is finite.
LEMMA StatesFinite ==
  ASSUME NEW S \in SUBSET States
  PROVE  IsFiniteSet(S) /\ Cardinality(S) \in Nat
<1>1. IsFiniteSet(States)
  BY FS_Interval DEF States
<1> QED
  BY <1>1, FS_Subset, FS_CardinalityType

\* A store that loses entries stays within its limit.
LEMMA FewerBounded ==
  ASSUME NEW S \in SUBSET States, NEW T \in SUBSET S, Cardinality(S) <= MaxEntries
  PROVE  Cardinality(T) <= MaxEntries
<1>1. IsFiniteSet(S) /\ Cardinality(S) \in Nat /\ Cardinality(T) \in Nat
  BY StatesFinite
<1>2. Cardinality(T) <= Cardinality(S)
  BY <1>1, FS_Subset
<1> QED
  BY <1>1, <1>2

LEMMA InitInv == Init => IInv
<1> SUFFICES ASSUME Init PROVE IInv
  OBVIOUS
<1>1. TypeOK
  BY DEF Init, TypeOK, States, NoRequest, Labels
<1>2. Bounded
  BY FS_EmptySet DEF Init, Bounded
<1>3. SingleUse /\ LiveLoginsKept /\ SessionIsOwn
  BY DEF Init, SingleUse, LiveLoginsKept, SessionIsOwn, States
<1>4. StatesOK /\ MakersDiffer
  BY DEF Init, StatesOK, MakersDiffer, Making, States
<1>5. ASSUME NEW r \in Requests PROVE HandlerOK(r)
  BY DEF Init, HandlerOK, MakerOK, ServerOK, Making, Serving, NoRequest
<1> QED
  BY <1>1, <1>2, <1>3, <1>4, <1>5 DEF IInv

-----------------------------------------------------------------------------
(* One lemma per action. *)

LEMMA SealStep == ASSUME IInv, NEW r \in Requests, Seal(r) PROVE IInv'
<1> DEFINE n == sealed + 1
<1>1. n \in States /\ sealed \in Nat
  BY DEF IInv, TypeOK, Seal, States
<1>2. PICK b \in Browsers :
         req' = [req EXCEPT ![r] = [NoRequest EXCEPT !.browser = b, !.state = n]]
  BY DEF Seal
<1>3. TypeOK'
  <2>1. Expires(now) \in Nat
    BY DEF IInv, TypeOK, Expires
  <2>2. pc' \in [Requests -> Labels] /\ req' \in [Requests ->
           [browser : Browsers \cup {Nobody}, state : States \cup {0}, clock : Nat]]
    BY <1>1, <1>2 DEF IInv, TypeOK, Seal, Labels, NoRequest
  <2>3. sealed' \in 0..MaxStates
    BY <1>1 DEF Seal, States
  <2>4. expiry' \in [States -> Nat]
    BY <1>1, <2>1 DEF IInv, TypeOK, Seal
  <2> QED
    BY <2>2, <2>3, <2>4 DEF IInv, TypeOK, Seal, browsers
<1>4. SingleUse' /\ Bounded' /\ SessionIsOwn'
  BY DEF IInv, SingleUse, Bounded, SessionIsOwn, Seal, browsers
<1>5. n \notin entries /\ used[n] = 0 /\ owner[n] = Nobody /\ n \notin forgotten
  BY <1>1 DEF IInv, StatesOK, TypeOK
<1>6. \A s \in States : s # n => expiry'[s] = expiry[s]
  BY <1>1 DEF IInv, TypeOK, Seal
<1>7. LiveLoginsKept'
  BY <1>1, <1>5, <1>6 DEF IInv, LiveLoginsKept, Seal, browsers, Opens
<1>8. StatesOK'
  BY <1>1, <1>5 DEF IInv, StatesOK, TypeOK, Seal, browsers, States
<1>9. ASSUME NEW q \in Requests, q # r
      PROVE  pc'[q] = pc[q] /\ req'[q] = req[q] /\ (Making(q) => req[q].state # n)
  BY <1>1, <1>2, <1>9 DEF IInv, TypeOK, HandlerOK, MakerOK, Seal
<1>10. pc'[r] = "put" /\ req'[r].state = n /\ req'[r].browser = b /\ req'[r].clock = 0
  BY <1>2 DEF IInv, TypeOK, Seal, NoRequest
<1>11. MakersDiffer'
  BY <1>9, <1>10 DEF IInv, MakersDiffer, Making
<1>12. HandlerOK(r)'
  BY <1>1, <1>5, <1>10 DEF IInv, TypeOK, HandlerOK, MakerOK, ServerOK, Making, Serving, Seal,
     browsers
<1>13. ASSUME NEW q \in Requests, q # r PROVE HandlerOK(q)'
  <2>1. HandlerOK(q)
    BY DEF IInv
  <2>2. pc[q] = "redirect" => req[q].state \in States /\ req[q].state # n
    BY <1>9, <1>13, <2>1 DEF IInv, TypeOK, HandlerOK, MakerOK, Making, States
  <2> QED
    BY <1>1, <1>6, <1>9, <1>13, <2>1, <2>2
    DEF IInv, TypeOK, HandlerOK, MakerOK, ServerOK, Making, Serving, Seal, browsers, Opens
<1> QED
  BY <1>3, <1>4, <1>7, <1>8, <1>11, <1>12, <1>13 DEF IInv

\* Only the handler r moves.
Alone(r) == \A q \in Requests \ {r} : pc'[q] = pc[q] /\ req'[q] = req[q]

\* It begins no login of its own, and works on with the state it has.
NoNewMaker(r) == Making(r)' => Making(r) /\ req'[r].state = req[r].state

\* A step of one handler that moves no type out of place and keeps the handlers apart.
LEMMA StillApart ==
  ASSUME IInv, NEW r \in Requests, Alone(r), NoNewMaker(r)
  PROVE  MakersDiffer'
  BY DEF IInv, MakersDiffer, Making, Alone, NoNewMaker

\* A step of one handler that reaches nothing but its own variables.
LEMMA LocalStep ==
  ASSUME IInv, TypeOK', NEW r \in Requests, Alone(r), NoNewMaker(r), HandlerOK(r)',
         UNCHANGED <<now, sealed, expiry, entries, browsers, used, forgotten>>
  PROVE  IInv'
<1>1. SingleUse' /\ Bounded' /\ LiveLoginsKept' /\ SessionIsOwn' /\ StatesOK'
  BY DEF IInv, SingleUse, Bounded, LiveLoginsKept, SessionIsOwn, StatesOK, browsers, Opens
<1>2. ASSUME NEW q \in Requests PROVE HandlerOK(q)'
  <2>1. CASE q # r
    <3>1. HandlerOK(q) /\ pc'[q] = pc[q] /\ req'[q] = req[q]
      BY <2>1 DEF IInv, Alone
    <3> QED
      BY <3>1 DEF HandlerOK, MakerOK, ServerOK, Making, Serving, browsers, Opens
  <2> QED
    BY <2>1
<1> QED
  BY <1>1, <1>2, StillApart DEF IInv

\* What a handler may know of its request, and the parts of the type invariant that a
\* step of one handler can move.
RequestRecord == [browser : Browsers \cup {Nobody}, state : States \cup {0}, clock : Nat]

LEMMA TypeParts ==
  ASSUME TypeOK
  PROVE  now \in Nat /\ pc \in [Requests -> Labels] /\ req \in [Requests -> RequestRecord]
  BY DEF TypeOK, RequestRecord

\* Reading the clock keeps the record of a request one.
LEMMA ClockType ==
  ASSUME req \in [Requests -> RequestRecord], NEW r \in Requests, NEW t \in Nat
  PROVE  [req EXCEPT ![r].clock = t] \in [Requests -> RequestRecord]
<1>1. [req[r] EXCEPT !.clock = t] \in RequestRecord
  <2>1. req[r] \in RequestRecord
    OBVIOUS
  <2> QED
    BY <2>1 DEF RequestRecord
<1>2. [req EXCEPT ![r].clock = t] = [req EXCEPT ![r] = [req[r] EXCEPT !.clock = t]]
  OBVIOUS
<1> QED
  BY <1>1, <1>2

\* Where Goto and Finish leave the handlers.
LEMMA GotoType ==
  ASSUME TypeOK, NEW r \in Requests, NEW l \in Labels, Goto(r, l)
  PROVE  /\ pc' \in [Requests -> Labels] /\ req' = req /\ pc'[r] = l /\ Alone(r)
  BY DEF TypeOK, Goto, Alone

LEMMA FinishType ==
  ASSUME TypeOK, NEW r \in Requests, Finish(r)
  PROVE  /\ pc' \in [Requests -> Labels] /\ pc'[r] = "idle" /\ Alone(r)
         /\ req' \in [Requests -> [browser : Browsers \cup {Nobody}, state : States \cup {0},
                                   clock : Nat]]
         /\ req'[r] = NoRequest
  BY DEF TypeOK, Finish, Alone, NoRequest, Labels

\* A handler that answered has nothing left to be right about.
LEMMA IdleOK ==
  ASSUME NEW r \in Requests, pc[r] = "idle", req[r] = NoRequest, now \in Nat
  PROVE  HandlerOK(r) /\ ~Making(r)
  BY DEF HandlerOK, MakerOK, ServerOK, Making, Serving, NoRequest

LEMMA ReadClockStep == ASSUME IInv, NEW r \in Requests, ReadClock(r) PROVE IInv'
<1> TypeOK /\ HandlerOK(r)
  BY DEF IInv
<1>u. UNCHANGED <<now, sealed, expiry, entries, browsers, used, forgotten>>
  BY DEF ReadClock
<1>1. CASE Finish(r)
  <2>1. TypeOK'
    BY <1>1, <1>u, FinishType DEF TypeOK, browsers
  <2>2. HandlerOK(r)' /\ NoNewMaker(r)
    BY <1>1, <1>u, FinishType DEF TypeOK, NoNewMaker, Making, HandlerOK, MakerOK, ServerOK,
       Serving, NoRequest
  <2> QED
    BY <1>1, <1>u, <2>1, <2>2, FinishType, LocalStep
<1>2. CASE /\ \/ pc[r] = "put" /\ pc' = [pc EXCEPT ![r] = "store"]
              \/ pc[r] = "opened" /\ pc' = [pc EXCEPT ![r] = "consume"]
           /\ req' = [req EXCEPT ![r].clock = now]
  <2>1. pc' \in [Requests -> Labels] /\ req' \in [Requests -> RequestRecord]
    <3>1. "store" \in Labels /\ "consume" \in Labels
      BY DEF Labels
    <3>2. pc' \in [Requests -> Labels]
      BY <1>2, <3>1, TypeParts
    <3>3. req' \in [Requests -> RequestRecord]
      BY <1>2, TypeParts, ClockType
    <3> QED
      BY <3>2, <3>3
  <2>2. TypeOK'
    BY <1>u, <2>1 DEF TypeOK, browsers, RequestRecord
  <2>3. /\ \/ pc[r] = "put" /\ pc'[r] = "store"
           \/ pc[r] = "opened" /\ pc'[r] = "consume"
        /\ req'[r].state = req[r].state /\ req'[r].browser = req[r].browser
        /\ req'[r].clock = now /\ Alone(r)
    BY <1>2 DEF TypeOK, Alone
  <2>4. HandlerOK(r)' /\ NoNewMaker(r)
    BY <1>u, <2>3 DEF TypeOK, NoNewMaker, Making, HandlerOK, MakerOK, ServerOK, Serving,
       browsers, Opens
  <2> QED
    BY <1>u, <2>2, <2>3, <2>4, LocalStep
<1> QED
  BY <1>1, <1>2 DEF ReadClock

LEMMA CallbackStep == ASSUME IInv, NEW r \in Requests, Callback(r) PROVE IInv'
<1> TypeOK /\ HandlerOK(r)
  BY DEF IInv
<1>u. UNCHANGED <<now, sealed, expiry, entries, browsers, used, forgotten>>
  BY DEF Callback
<1>1. PICK b \in Browsers, s \in States :
        /\ owner[s] # Nobody
        /\ req' = [req EXCEPT ![r] = [NoRequest EXCEPT !.browser = b, !.state = s]]
        /\ \/ Matches(b, s) /\ pc' = [pc EXCEPT ![r] = "open"]
           \/ pc' = [pc EXCEPT ![r] = "denied"]
  BY DEF Callback
<1>2. pc' \in [Requests -> Labels] /\ req' \in [Requests ->
         [browser : Browsers \cup {Nobody}, state : States \cup {0}, clock : Nat]]
  BY <1>1 DEF TypeOK, Labels, NoRequest
<1>3. TypeOK'
  BY <1>u, <1>2 DEF TypeOK, browsers
<1>4. /\ \/ pc'[r] = "open" /\ cookie[b] = s
         \/ pc'[r] = "denied"
      /\ req'[r].state = s /\ req'[r].browser = b /\ req'[r].clock = 0 /\ Alone(r)
  BY <1>1 DEF TypeOK, Matches, NoRequest, Alone
<1>5. s \in 1..sealed /\ (cookie[b] = s => owner[s] = b)
  BY <1>1 DEF IInv, StatesOK, TypeOK, States
<1>6. HandlerOK(r)' /\ NoNewMaker(r)
  BY <1>u, <1>4, <1>5 DEF TypeOK, NoNewMaker, Making, HandlerOK, MakerOK, ServerOK, Serving,
     browsers
<1> QED
  BY <1>u, <1>3, <1>4, <1>6, LocalStep

LEMMA OpenStateStep == ASSUME IInv, NEW r \in Requests, OpenState(r) PROVE IInv'
<1> DEFINE l == IF Opens(expiry[req[r].state]) THEN "opened" ELSE "denied"
<1> TypeOK /\ HandlerOK(r)
  BY DEF IInv
<1>u. UNCHANGED <<now, sealed, expiry, entries, browsers, used, forgotten>>
  BY DEF OpenState
<1>1. pc[r] = "open" /\ Goto(r, l) /\ l \in Labels
  BY DEF OpenState, Labels
<1>2. pc' \in [Requests -> Labels] /\ req' = req /\ pc'[r] = l /\ Alone(r)
  BY <1>1, GotoType
<1>3. TypeOK'
  BY <1>u, <1>2 DEF TypeOK, browsers
<1>4. HandlerOK(r)' /\ NoNewMaker(r)
  BY <1>u, <1>1, <1>2 DEF NoNewMaker, Making, HandlerOK, MakerOK, ServerOK, Serving, browsers
<1> QED
  BY <1>u, <1>2, <1>3, <1>4, LocalStep

LEMMA ExchangeStep == ASSUME IInv, NEW r \in Requests, Exchange(r) PROVE IInv'
<1> TypeOK /\ HandlerOK(r)
  BY DEF IInv
<1>u. UNCHANGED <<now, sealed, expiry, entries, browsers, used, forgotten>>
  BY DEF Exchange
<1>1. PICK l \in {"granted", "denied"} : pc[r] = "exchange" /\ Goto(r, l) /\ l \in Labels
  BY DEF Exchange, Labels
<1>2. pc' \in [Requests -> Labels] /\ req' = req /\ pc'[r] = l /\ Alone(r)
  BY <1>1, GotoType
<1>3. TypeOK'
  BY <1>u, <1>2 DEF TypeOK, browsers
<1>4. HandlerOK(r)' /\ NoNewMaker(r)
  BY <1>u, <1>1, <1>2 DEF NoNewMaker, Making, HandlerOK, MakerOK, ServerOK, Serving, browsers
<1> QED
  BY <1>u, <1>2, <1>3, <1>4, LocalStep

\* Put with a time read in the past drops nothing that still opens.
LEMMA StoreStateStep == ASSUME IInv, NEW r \in Requests, StoreState(r) PROVE IInv'
<1> DEFINE s == req[r].state
           kept == Kept(req[r].clock)
<1> TypeOK /\ HandlerOK(r)
  BY DEF IInv
<1>u. /\ UNCHANGED <<now, sealed, expiry, browsers, used, forgotten>>
      /\ entries' = kept \cup (IF Full(kept) THEN {} ELSE {s})
      /\ pc[r] = "store" /\ (IF Full(kept) THEN Finish(r) ELSE Goto(r, "redirect"))
  BY DEF StoreState, Put
<1>1. /\ s \in States /\ s \in 1..sealed /\ s \notin entries /\ s \notin forgotten
      /\ owner[s] = Nobody /\ used[s] = 0 /\ req[r].clock \in Nat /\ req[r].clock <= now
      /\ now \in Nat /\ sealed \in Nat /\ req[r].browser \in Browsers
  BY <1>u DEF TypeOK, HandlerOK, MakerOK, Making, States
<1>2. kept \subseteq entries /\ \A t \in entries : Opens(expiry[t]) => t \in kept
  BY <1>1, OpensUnexpired DEF Kept, TypeOK
<1>3. /\ pc' \in [Requests -> Labels] /\ Alone(r)
      /\ req' \in [Requests -> [browser : Browsers \cup {Nobody}, state : States \cup {0},
                                clock : Nat]]
      /\ \/ pc'[r] = "idle" /\ req'[r] = NoRequest /\ entries' = kept
         \/ pc'[r] = "redirect" /\ req'[r] = req[r] /\ entries' = kept \cup {s}
  <2>1. CASE Full(kept)
    BY <1>u, <2>1, FinishType
  <2>2. CASE ~Full(kept)
    <3>1. "redirect" \in Labels
      BY DEF Labels
    <3> QED
      BY <1>u, <2>2, <3>1, GotoType DEF TypeOK
  <2> QED
    BY <2>1, <2>2
<1>4. TypeOK'
  BY <1>u, <1>1, <1>2, <1>3 DEF TypeOK, browsers
<1>5. Bounded'
  <2>1. CASE Full(kept)
    BY <1>u, <1>2, <2>1, FewerBounded DEF IInv, TypeOK, Bounded
  <2>2. CASE ~Full(kept)
    <3>1. IsFiniteSet(kept) /\ Cardinality(kept) \in Nat
      BY <1>2, StatesFinite DEF TypeOK
    <3>2. Cardinality(kept \cup {s}) = Cardinality(kept) + 1
      <4>1. s \notin kept
        BY <1>1, <1>2
      <4>2. Cardinality(kept \cup {s}) = IF s \in kept THEN Cardinality(kept)
                                                      ELSE Cardinality(kept) + 1
        BY <3>1, FS_AddElement
      <4> QED
        BY <4>1, <4>2
    <3>3. entries' = kept \cup {s} /\ Cardinality(kept) < MaxEntries
      BY <1>u, <2>2, <3>1 DEF Full
    <3>4. Cardinality(entries') \in Nat
      BY <1>4, StatesFinite DEF TypeOK
    <3> QED
      BY <3>1, <3>2, <3>3, <3>4 DEF Bounded
  <2> QED
    BY <2>1, <2>2
<1>6. SingleUse' /\ SessionIsOwn' /\ LiveLoginsKept'
  BY <1>u, <1>2 DEF IInv, SingleUse, SessionIsOwn, LiveLoginsKept, browsers, Opens
<1>7. StatesOK'
  BY <1>u, <1>1, <1>2 DEF IInv, StatesOK, browsers
<1>8. HandlerOK(r)' /\ NoNewMaker(r)
  BY <1>u, <1>1, <1>3 DEF NoNewMaker, HandlerOK, MakerOK, ServerOK, Making, Serving, browsers,
     NoRequest
<1>9. ASSUME NEW q \in Requests, q # r PROVE HandlerOK(q)'
  <2>1. HandlerOK(q) /\ pc'[q] = pc[q] /\ req'[q] = req[q]
    BY <1>3, <1>9 DEF IInv, Alone
  <2>2. Making(q) => req[q].state # s
    BY <1>u, <1>9 DEF IInv, MakersDiffer, Making
  <2> QED
    BY <1>u, <1>2, <2>1, <2>2 DEF HandlerOK, MakerOK, ServerOK, Making, Serving, browsers, Opens
<1> QED
  BY <1>3, <1>4, <1>5, <1>6, <1>7, <1>8, <1>9, StillApart DEF IInv

\* A browser gets a state that nobody had.
LEMMA RedirectStep == ASSUME IInv, NEW r \in Requests, Redirect(r) PROVE IInv'
<1> DEFINE s == req[r].state
           b == req[r].browser
<1> TypeOK /\ HandlerOK(r)
  BY DEF IInv
<1>u. /\ UNCHANGED <<now, sealed, expiry, entries, session, used, forgotten>>
      /\ pc[r] = "redirect" /\ Finish(r)
      /\ owner' = [owner EXCEPT ![s] = b] /\ cookie' = [cookie EXCEPT ![b] = s]
  BY DEF Redirect
<1>1. /\ s \in States /\ s \in 1..sealed /\ b \in Browsers /\ owner[s] = Nobody
      /\ used[s] = 0 /\ (Opens(expiry[s]) => s \in entries)
  BY <1>u DEF TypeOK, HandlerOK, MakerOK, Making, States
<1>2. TypeOK'
  BY <1>u, <1>1, FinishType DEF TypeOK
<1>3. /\ owner'[s] = b /\ \A t \in States : t # s => owner'[t] = owner[t]
      /\ cookie'[b] = s /\ \A c \in Browsers : c # b => cookie'[c] = cookie[c]
  BY <1>u, <1>1 DEF TypeOK
<1>4. SingleUse' /\ Bounded' /\ LiveLoginsKept'
  BY <1>u, <1>1, <1>3 DEF IInv, SingleUse, Bounded, LiveLoginsKept, Opens
<1>5. \A c \in Browsers : session[c] # 0 => session[c] \in States /\ session[c] # s
  BY <1>1 DEF IInv, SessionIsOwn, TypeOK
<1>6. SessionIsOwn'
  BY <1>u, <1>3, <1>5 DEF IInv, SessionIsOwn
<1>7. StatesOK'
  <2>1. \A t \in States : t > sealed => t # s
    BY <1>1 DEF TypeOK, States
  <2>2. \A c \in Browsers : cookie[c] # 0 => cookie[c] # s /\ cookie[c] \in States
    BY <1>1 DEF IInv, StatesOK, TypeOK
  <2> QED
    BY <1>u, <1>1, <1>3, <2>1, <2>2 DEF IInv, StatesOK
<1>8. HandlerOK(r)' /\ NoNewMaker(r) /\ Alone(r)
  BY <1>u, <1>2, FinishType, IdleOK DEF TypeOK, NoNewMaker, HandlerOK, MakerOK, ServerOK,
     Making, Serving, NoRequest
<1>9. ASSUME NEW q \in Requests, q # r PROVE HandlerOK(q)'
  <2>1. HandlerOK(q) /\ pc'[q] = pc[q] /\ req'[q] = req[q]
    BY <1>8, <1>9 DEF IInv, Alone
  <2>2. Making(q) => req[q].state # s /\ req[q].state \in States
    BY <1>u, <1>9, <2>1 DEF IInv, MakersDiffer, Making, HandlerOK, MakerOK, TypeOK, States
  <2>3. Serving(q) => req[q].state # s /\ req[q].state \in States
    BY <1>1, <2>1 DEF HandlerOK, ServerOK, TypeOK, States
  <2> QED
    BY <1>u, <1>3, <2>1, <2>2, <2>3 DEF HandlerOK, MakerOK, ServerOK, Making, Serving, Opens
<1> QED
  BY <1>2, <1>4, <1>6, <1>7, <1>8, <1>9, StillApart DEF IInv

\* A state leaves the store as it is used, or no longer opens.
LEMMA ConsumeStateStep == ASSUME IInv, NEW r \in Requests, ConsumeState(r) PROVE IInv'
<1> DEFINE s == req[r].state
           good == s \in entries /\ expiry[s] > req[r].clock
<1> TypeOK /\ HandlerOK(r)
  BY DEF IInv
<1>u. /\ UNCHANGED <<now, sealed, expiry, browsers, forgotten>>
      /\ entries' = entries \ {s} /\ pc[r] = "consume"
      /\ IF good THEN Goto(r, "exchange") /\ used' = [used EXCEPT ![s] = @ + 1]
                 ELSE Goto(r, "denied") /\ UNCHANGED used
  BY DEF ConsumeState, Consume
<1>1. /\ s \in States /\ s \in 1..sealed /\ req[r].browser \in Browsers
      /\ owner[s] = req[r].browser /\ owner[s] # Nobody
      /\ req[r].clock \in Nat /\ req[r].clock <= now /\ now \in Nat /\ sealed \in Nat
  BY <1>u DEF TypeOK, HandlerOK, ServerOK, Serving, States
<1>2. s \in entries => used[s] = 0
  BY DEF IInv, StatesOK
<1>3. /\ pc' \in [Requests -> Labels] /\ req' = req /\ Alone(r)
      /\ pc'[r] = (IF good THEN "exchange" ELSE "denied")
  <2>1. "exchange" \in Labels /\ "denied" \in Labels
    BY DEF Labels
  <2> QED
    BY <1>u, <2>1, GotoType
<1>4. /\ \A t \in States : t # s => used'[t] = used[t]
      /\ used'[s] = (IF good THEN 1 ELSE used[s]) /\ used' \in [States -> Nat]
  BY <1>u, <1>1, <1>2 DEF TypeOK
<1>5. TypeOK'
  BY <1>u, <1>3, <1>4 DEF TypeOK, browsers
<1>6. Bounded'
  BY <1>u, FewerBounded DEF IInv, TypeOK, Bounded
<1>7. SingleUse'
  BY <1>4 DEF IInv, SingleUse
<1>8. LiveLoginsKept'
  <2>1. Opens(expiry[s]) /\ s \in entries => good
    BY <1>1, OpensUnexpired DEF TypeOK
  <2> QED
    BY <1>u, <1>1, <1>4, <2>1 DEF IInv, LiveLoginsKept, browsers, Opens
<1>9. SessionIsOwn'
  <2>1. \A c \in Browsers : session[c] # 0 => session[c] \in States
    BY DEF TypeOK
  <2>2. used[s] = 1 => used'[s] = 1
    BY <1>2, <1>4
  <2> QED
    BY <1>u, <1>4, <2>1, <2>2 DEF IInv, SessionIsOwn, browsers
<1>10. StatesOK'
  <2>1. \A t \in States : t > sealed => t # s
    BY <1>1 DEF States
  <2> QED
    BY <1>u, <1>4, <2>1 DEF IInv, StatesOK, TypeOK, browsers
<1>11. HandlerOK(r)' /\ NoNewMaker(r)
  BY <1>u, <1>1, <1>3, <1>4 DEF NoNewMaker, HandlerOK, MakerOK, ServerOK, Making, Serving,
     browsers
<1>12. ASSUME NEW q \in Requests, q # r PROVE HandlerOK(q)'
  <2>1. HandlerOK(q) /\ pc'[q] = pc[q] /\ req'[q] = req[q]
    BY <1>3, <1>12 DEF IInv, Alone
  <2>2. Making(q) => req[q].state \in States /\ req[q].state # s
    BY <1>1, <2>1 DEF HandlerOK, MakerOK, TypeOK, States
  <2>3. Serving(q) => req[q].state \in States
    BY <2>1 DEF HandlerOK, ServerOK, TypeOK, States
  <2>4. used[s] = 1 => used'[s] = 1
    BY <1>2, <1>4
  <2> QED
    BY <1>u, <1>4, <2>1, <2>2, <2>3, <2>4
    DEF HandlerOK, MakerOK, ServerOK, Making, Serving, browsers, Opens
<1> QED
  BY <1>3, <1>5, <1>6, <1>7, <1>8, <1>9, <1>10, <1>11, <1>12, StillApart DEF IInv

LEMMA RespondStep == ASSUME IInv, NEW r \in Requests, Respond(r) PROVE IInv'
<1> DEFINE s == req[r].state
           b == req[r].browser
<1> TypeOK /\ HandlerOK(r)
  BY DEF IInv
<1>u. /\ UNCHANGED <<now, sealed, expiry, entries, owner, used, forgotten>>
      /\ pc[r] \in {"granted", "denied"} /\ Finish(r)
      /\ cookie' = [cookie EXCEPT ![b] = 0]
      /\ session' = IF pc[r] = "granted" THEN [session EXCEPT ![b] = s] ELSE session
  BY DEF Respond
<1>1. /\ b \in Browsers /\ now \in Nat /\ s \in States \cup {0}
      /\ pc[r] = "granted" => owner[s] = b /\ used[s] = 1
  BY <1>u DEF TypeOK, HandlerOK, ServerOK, Serving
<1>2. TypeOK'
  BY <1>u, <1>1, FinishType DEF TypeOK
<1>3. SingleUse' /\ Bounded' /\ LiveLoginsKept'
  BY <1>u DEF IInv, SingleUse, Bounded, LiveLoginsKept, Opens
<1>4. SessionIsOwn'
  BY <1>u, <1>1 DEF IInv, SessionIsOwn, TypeOK
<1>5. StatesOK'
  BY <1>u, <1>1 DEF IInv, StatesOK, TypeOK
<1>6. HandlerOK(r)' /\ NoNewMaker(r) /\ Alone(r)
  BY <1>u, <1>2, FinishType, IdleOK DEF TypeOK, NoNewMaker, HandlerOK, MakerOK, ServerOK,
     Making, Serving, NoRequest
<1>7. ASSUME NEW q \in Requests, q # r PROVE HandlerOK(q)'
  <2>1. HandlerOK(q) /\ pc'[q] = pc[q] /\ req'[q] = req[q]
    BY <1>6, <1>7 DEF IInv, Alone
  <2> QED
    BY <1>u, <2>1 DEF HandlerOK, MakerOK, ServerOK, Making, Serving, Opens
<1> QED
  BY <1>2, <1>3, <1>4, <1>5, <1>6, <1>7, StillApart DEF IInv

LEMMA LogoutStep == ASSUME IInv, NEW b \in Browsers, Logout(b) PROVE IInv'
<1>1. TypeOK' /\ SessionIsOwn'
  BY DEF IInv, Logout, TypeOK, SessionIsOwn, handlers
<1>2. SingleUse' /\ Bounded' /\ LiveLoginsKept' /\ StatesOK' /\ MakersDiffer'
  BY DEF IInv, Logout, SingleUse, Bounded, LiveLoginsKept, StatesOK, MakersDiffer, Making,
     handlers, Opens
<1>3. ASSUME NEW q \in Requests PROVE HandlerOK(q)'
  BY DEF IInv, Logout, HandlerOK, MakerOK, ServerOK, Making, Serving, handlers, Opens
<1> QED
  BY <1>1, <1>2, <1>3 DEF IInv

\* Time closes states and opens none.
LEMMA TickStep == ASSUME IInv, Tick PROVE IInv'
<1>1. TypeOK' /\ now \in Nat /\ now' = now + 1
  BY DEF IInv, Tick, TypeOK, browsers, handlers
<1>2. ASSUME NEW s \in States, Opens(expiry[s])' PROVE Opens(expiry[s])
  <2>1. expiry[s] \in Nat /\ \A t \in Nat : t % 2 \in 0..1
    BY DEF IInv, TypeOK
  <2>2. Sealed(expiry[s]) \in Int /\ Sealed(expiry[s]) > now + 1
    BY <1>1, <1>2, <2>1 DEF Tick, Opens, Sealed
  <2> QED
    BY <1>1, <2>2 DEF Opens
<1>3. SingleUse' /\ Bounded' /\ SessionIsOwn' /\ LiveLoginsKept'
  BY <1>2 DEF IInv, Tick, SingleUse, Bounded, SessionIsOwn, LiveLoginsKept, browsers
<1>4. StatesOK' /\ MakersDiffer'
  BY DEF IInv, Tick, StatesOK, MakersDiffer, Making, browsers, handlers
<1>5. ASSUME NEW q \in Requests PROVE HandlerOK(q)'
  <2>1. HandlerOK(q) /\ TypeOK /\ req[q].clock \in Nat
    BY DEF IInv, TypeOK
  <2>2. pc[q] = "redirect" => req[q].state \in States
    BY <2>1 DEF HandlerOK, MakerOK, Making, TypeOK, States
  <2>3. pc' = pc /\ req' = req /\ UNCHANGED <<sealed, expiry, entries, owner, used, forgotten>>
    BY DEF Tick, browsers, handlers
  <2> QED
    BY <1>1, <1>2, <2>1, <2>2, <2>3 DEF HandlerOK, MakerOK, ServerOK, Making, Serving
<1> QED
  BY <1>1, <1>3, <1>4, <1>5 DEF IInv

LEMMA RestartStep == ASSUME IInv, Restart PROVE IInv'
<1>1. TypeOK'
  BY DEF IInv, Restart, TypeOK, States, browsers, NoRequest, Labels
<1>2. Bounded'
  BY FS_EmptySet DEF Restart, Bounded
<1>3. SingleUse' /\ SessionIsOwn' /\ StatesOK'
  BY DEF IInv, Restart, SingleUse, SessionIsOwn, StatesOK, TypeOK, browsers
<1>4. LiveLoginsKept'
  <2>1. \A s \in States : s \notin 1..sealed => owner[s] = Nobody
    BY DEF IInv, StatesOK, TypeOK, States
  <2> QED
    BY <2>1 DEF Restart, LiveLoginsKept, browsers
<1>5. MakersDiffer'
  BY DEF Restart, MakersDiffer, Making
<1>6. ASSUME NEW q \in Requests PROVE HandlerOK(q)'
  BY <1>1 DEF Restart, HandlerOK, MakerOK, ServerOK, Making, Serving, NoRequest, TypeOK
<1> QED
  BY <1>1, <1>2, <1>3, <1>4, <1>5, <1>6 DEF IInv

-----------------------------------------------------------------------------

LEMMA NextInv == IInv /\ [Next]_vars => IInv'
<1> SUFFICES ASSUME IInv, [Next]_vars PROVE IInv'
  OBVIOUS
<1>1. ASSUME NEW r \in Requests, Handle(r) PROVE IInv'
  BY <1>1, SealStep, ReadClockStep, StoreStateStep, RedirectStep, CallbackStep, OpenStateStep,
     ConsumeStateStep, ExchangeStep, RespondStep DEF Handle
<1>2. ASSUME NEW b \in Browsers, Logout(b) PROVE IInv'
  BY <1>2, LogoutStep
<1>3. CASE Tick
  BY <1>3, TickStep
<1>4. CASE Restart
  BY <1>4, RestartStep
<1>5. CASE UNCHANGED vars
  BY <1>5 DEF IInv, vars, TypeOK, SingleUse, Bounded, LiveLoginsKept, SessionIsOwn, StatesOK,
     MakersDiffer, HandlerOK, MakerOK, ServerOK, Making, Serving, Opens
<1> QED
  BY <1>1, <1>2, <1>3, <1>4, <1>5 DEF Next

\* The invariant holds in every reachable state.
THEOREM LoginInvariance == Spec => []IInv
  BY InitInv, NextInv, PTL DEF Spec

\* oidcauth/store.go and httpapi/server.go: the store, the cookies and the handlers keep
\* their types.
THEOREM LoginTypes == Spec => []TypeOK
<1>1. IInv => TypeOK
  BY DEF IInv
<1> QED
  BY <1>1, LoginInvariance, PTL

\* At most one exchange is made with a state, whatever callbacks bring it together.
THEOREM StatesUsedOnce == Spec => []SingleUse
<1>1. IInv => SingleUse
  BY DEF IInv
<1> QED
  BY LoginInvariance, <1>1, PTL

\* Abandoned logins never bring the store over its limit.
THEOREM StoreBounded == Spec => []Bounded
<1>1. IInv => Bounded
  BY DEF IInv
<1> QED
  BY LoginInvariance, <1>1, PTL

\* Nothing drops a login that could still be completed, but a restart.
THEOREM NoLiveLoginDropped == Spec => []LiveLoginsKept
<1>1. IInv => LiveLoginsKept
  BY DEF IInv
<1> QED
  BY LoginInvariance, <1>1, PTL

\* A browser's session was earned with a state given to this very browser.
THEOREM SessionsEarned == Spec => []SessionIsOwn
<1>1. IInv => SessionIsOwn
  BY DEF IInv
<1> QED
  BY LoginInvariance, <1>1, PTL

\* A login is turned away only when the store is full of states that are alive.
THEOREM RefusedWhenFull == Spec => FullOfTheLiving
<1>1. ASSUME IInv, Next, NEW r \in Requests, pc[r] = "store", pc'[r] = "idle",
             UNCHANGED forgotten
      PROVE  Cardinality({s \in entries : expiry[s] > req[r].clock}) >= MaxEntries
  <2>1. CASE StoreState(r)
    <3>1. "idle" # "redirect" /\ pc'[r] = "idle" /\ TypeOK
      BY <1>1 DEF IInv
    <3>2. ~Goto(r, "redirect")
      BY <3>1 DEF Goto, TypeOK
    <3>3. Full(Kept(req[r].clock))
      BY <2>1, <3>2 DEF StoreState, Put
    <3> QED
      BY <3>3 DEF Full, Kept
  <2>2. ASSUME NEW q \in Requests, q # r, Handle(q) PROVE FALSE
    <3>1. pc'[r] = pc[r]
      BY <1>1, <2>2 DEF IInv, TypeOK, Handle, Seal, ReadClock, StoreState, Put, Redirect,
         Callback, OpenState, ConsumeState, Consume, Exchange, Respond, Goto, Finish
    <3> QED
      BY <1>1, <3>1
  <2>3. Handle(r) => StoreState(r)
    BY <1>1 DEF Handle, Seal, ReadClock, StoreState, Redirect, Callback, OpenState,
       ConsumeState, Exchange, Respond
  <2>4. ASSUME \/ Tick
               \/ \E b \in Browsers : Logout(b)
        PROVE  FALSE
    BY <1>1, <2>4 DEF Tick, Logout, handlers
  <2>5. CASE Restart
    <3>1. req[r].state \in 1..sealed /\ req[r].state \notin forgotten
      BY <1>1 DEF IInv, HandlerOK, MakerOK, Making
    <3> QED
      BY <1>1, <2>5, <3>1 DEF Restart
  <2> QED
    BY <1>1, <2>1, <2>2, <2>3, <2>4, <2>5 DEF Next
<1>2. IInv /\ [Next]_vars =>
        [\A r \in Requests :
           pc[r] = "store" /\ pc'[r] = "idle" /\ UNCHANGED forgotten
           => Cardinality({s \in entries : expiry[s] > req[r].clock}) >= MaxEntries]_vars
  BY <1>1
<1> QED
  BY LoginInvariance, <1>2, PTL DEF Spec, FullOfTheLiving
=============================================================================
