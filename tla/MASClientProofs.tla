-------------------------- MODULE MASClientProofs --------------------------
(***************************************************************************)
(* For any callers, lifetimes, timeout, margin of at least two timeouts,   *)
(* page size and limit of pages, and any failures: IInv is inductive, and  *)
(* with it no request is under way with a token that has reached its end,  *)
(* and an operation that succeeds has seen everything.                     *)
(***************************************************************************)
EXTENDS MASClientInvariant, FiniteSetTheorems, TLAPS

USE CallerAssumption, TimeAssumption, KindAssumption, PageAssumption, LimitAssumption

\* Complete, of one caller.
Seen(c) ==
    req[c].result = "ok" =>
        /\ req[c].op = "sweep" => since[c] = {}
        /\ req[c].op = "list" => since[c] \subseteq Found(req[c].found)

LEMMA CompleteIsSeen == Complete <=> \A c \in Callers : Seen(c)
BY DEF Complete, Seen, Found

LEMMA NoRequestType == NoRequest \in Requests /\ NoToken \in Tokens /\ NoReply \in Replies
<1>1. NoToken \in Tokens /\ NoReply \in Replies
  BY DEF NoToken, Tokens, NoReply, Replies, Items
<1>2. 0 \in 0..MaxItems /\ 0 \in 0..MaxPages
  OBVIOUS
<1> QED
  BY <1>1, <1>2 DEF NoRequest, Requests, AllJobs

LEMMA InitInv == Init => IInv
<1> SUFFICES ASSUME Init PROVE IInv
  OBVIOUS
<1>1. TypeOK
  <2>1. \A c \in Callers : 1..born[c] \subseteq Items
    BY DEF Init, Items
  <2> QED
    BY <2>1, NoRequestType DEF Init, TypeOK, Labels
<1>2. CacheOK
  BY DEF Init, CacheOK, NoToken
<1>3. ASSUME NEW c \in Callers PROVE CallerOK(c) /\ Seen(c)
  BY DEF Init, CallerOK, Exclusive, Timed, InPhase, Covered, Seen, NoRequest, NoReply
<1> QED
  BY <1>1, <1>2, <1>3, CompleteIsSeen DEF IInv

-----------------------------------------------------------------------------
(* What a step of one caller has to show. *)

\* The others rely on nothing that a step of one caller changes.
LEMMA StepPreserves ==
  ASSUME IInv, NEW c \in Callers, NEW label \in Labels, NEW r \in Requests,
         NEW L \in SUBSET Items, NEW S \in SUBSET Items,
         Goto(c, label), req' = [req EXCEPT ![c] = r],
         live' = [live EXCEPT ![c] = L], since' = [since EXCEPT ![c] = S],
         UNCHANGED <<now, era, born, jobs>>, faults' \in Nat,
         cache' \in [token : Tokens, expiry : Nat], holder' \in Callers \cup {Nobody},
         \A d \in Callers \ {c} : holder' = d <=> holder = d,
         CacheOK', CallerOK(c)', Seen(c)'
  PROVE  IInv'
<1>1. TypeOK'
  BY DEF IInv, TypeOK, Goto
<1>2. ASSUME NEW d \in Callers \ {c}
      PROVE  /\ pc'[d] = pc[d] /\ req'[d] = req[d] /\ since'[d] = since[d] /\ live'[d] = live[d]
             /\ CallerOK(d) /\ Seen(d)
  BY <1>2, CompleteIsSeen DEF IInv, TypeOK, Goto
<1>3. ASSUME NEW d \in Callers \ {c} PROVE CallerOK(d)'
  <2>1. Exclusive(d)'
    BY <1>2 DEF CallerOK, Exclusive
  <2>2. Timed(d)'
    BY <1>2 DEF CallerOK, Timed
  <2>3. InPhase(d)'
    BY <1>2 DEF CallerOK, InPhase
  <2>4. Covered(d)'
    BY <1>2 DEF CallerOK, Covered
  <2> QED
    BY <2>1, <2>2, <2>3, <2>4 DEF CallerOK
<1>4. ASSUME NEW d \in Callers \ {c} PROVE Seen(d)'
  BY <1>2 DEF Seen
<1>5. Complete'
  <2>1. \A d \in Callers : Seen(d)'
    BY <1>4
  <2> QED
    BY <2>1 DEF Complete, Seen, Found
<1> QED
  BY <1>1, <1>3, <1>5 DEF IInv

\* A step that leaves the items, the cache and the mutex alone.
LEMMA MovePreserves ==
  ASSUME IInv, NEW c \in Callers, NEW label \in Labels, NEW r \in Requests,
         Goto(c, label), req' = [req EXCEPT ![c] = r],
         UNCHANGED <<now, server, token, since>>, faults' \in Nat,
         CallerOK(c)', Seen(c)'
  PROVE  IInv'
<1>1. live[c] \in SUBSET Items /\ since[c] \in SUBSET Items
  BY DEF IInv, TypeOK
<1>2. live' = [live EXCEPT ![c] = live[c]] /\ since' = [since EXCEPT ![c] = since[c]]
  BY DEF IInv, TypeOK, server
<1>3. CacheOK'
  BY DEF IInv, CacheOK, token
<1>4. cache' \in [token : Tokens, expiry : Nat] /\ holder' \in Callers \cup {Nobody}
  BY DEF IInv, TypeOK, token
<1>5. UNCHANGED <<now, era, born, jobs>> /\ holder' = holder
  BY DEF server, token
<1> QED
  BY <1>1, <1>2, <1>3, <1>4, <1>5, StepPreserves

\* Returning ends the caller's obligations, when "ok" is said only of what is seen.
LEMMA ReturnIs ==
  ASSUME IInv, NEW c \in Callers, NEW r \in Requests, NEW result \in {"ok", "error"},
         Return(c, r, result), UNCHANGED <<live, since>>, holder' # c,
         result = "ok" =>
            /\ r.op = "sweep" => since[c] = {}
            /\ r.op = "list" => since[c] \subseteq Found(r.found)
  PROVE  /\ Goto(c, "done") /\ CallerOK(c)' /\ Seen(c)'
         /\ \E q \in Requests : req' = [req EXCEPT ![c] = q]
<1> DEFINE q == [NoRequest EXCEPT !.op = r.op, !.found = r.found, !.result = result]
<1>1. q.op = r.op /\ q.found = r.found /\ q.result = result /\ q.phase = "none"
  BY DEF NoRequest
<1>2. q \in Requests
  <2>1. r.op \in AllJobs \cup {"none"} /\ r.found \in SUBSET ((1..MaxPages) \X Items)
    BY DEF Requests
  <2> QED
    BY <2>1, NoRequestType DEF Requests
<1>3. Goto(c, "done") /\ req' = [req EXCEPT ![c] = q]
  BY DEF Return
<1>4. pc'[c] = "done" /\ req'[c] = q
  BY <1>3 DEF IInv, TypeOK, Goto
<1> HIDE DEF q
<1>5. CallerOK(c)'
  <2>1. since[c] \subseteq live[c]
    BY DEF IInv, CallerOK, Covered
  <2> QED
    BY <1>1, <1>4, <2>1 DEF CallerOK, Exclusive, Timed, InPhase, Covered
<1>6. Seen(c)'
  BY <1>1, <1>4 DEF Seen
<1> QED
  BY <1>2, <1>3, <1>5, <1>6

LEMMA ReturnPreserves ==
  ASSUME IInv, NEW c \in Callers, NEW r \in Requests, NEW result \in {"ok", "error"},
         Return(c, r, result),
         UNCHANGED <<now, server, token, since>>, faults' \in Nat, holder # c,
         result = "ok" =>
            /\ r.op = "sweep" => since[c] = {}
            /\ r.op = "list" => since[c] \subseteq Found(r.found)
  PROVE  IInv'
<1>1. UNCHANGED <<live, since>> /\ holder' # c
  BY DEF server, token
<1>2. /\ Goto(c, "done") /\ CallerOK(c)' /\ Seen(c)'
      /\ \E q \in Requests : req' = [req EXCEPT ![c] = q]
  BY <1>1, ReturnIs
<1> QED
  BY <1>2, MovePreserves DEF Labels

\* What a caller with an answer looks like.
LEMMA AnswerIs ==
  ASSUME IInv, NEW c \in Callers, NEW reply \in Replies, Answer(c, reply)
  PROVE  \E r \in Requests :
            /\ req' = [req EXCEPT ![c] = r] /\ req'[c] = r /\ pc'[c] = "answer"
            /\ r.reply = reply
            /\ r.op = req[c].op /\ r.phase = req[c].phase /\ r.result = req[c].result
            /\ r.found = req[c].found /\ r.after = req[c].after /\ r.pages = req[c].pages
<1> DEFINE r == [req[c] EXCEPT !.reply = reply, !.token = NoToken]
<1>1. req[c] \in Requests
  BY DEF IInv, TypeOK
<1>2. r \in Requests
  BY <1>1, NoRequestType DEF Requests
<1>3. req' = [req EXCEPT ![c] = r] /\ req'[c] = r /\ pc'[c] = "answer"
  BY DEF IInv, TypeOK, Answer, Goto
<1>4. /\ r.reply = reply
      /\ r.op = req[c].op /\ r.phase = req[c].phase /\ r.result = req[c].result
      /\ r.found = req[c].found /\ r.after = req[c].after /\ r.pages = req[c].pages
  BY <1>1 DEF Requests
<1> QED
  BY <1>2, <1>3, <1>4

\* An answer keeps the invariant when it covers what it says it does.
LEMMA AnswerPreserves ==
  ASSUME IInv, NEW c \in Callers, NEW reply \in Replies, Answer(c, reply), pc[c] = "send",
         NEW L \in SUBSET Items, NEW S \in SUBSET since[c], S \subseteq L,
         live' = [live EXCEPT ![c] = L], since' = [since EXCEPT ![c] = S],
         UNCHANGED <<now, era, born, jobs, token, faults>>,
         req[c].phase = "list" /\ reply.kind = "ok" =>
            \A i \in S : i > req[c].after => i \in reply.items \/ (reply.more /\ i > reply.after),
         req[c].phase = "revoke" /\ reply.kind = "ok" =>
            \A p \in req[c].found : NextFound(req[c].found, p) => p[2] \notin S
  PROVE  IInv'
<1>1. PICK r \in Requests :
            /\ req' = [req EXCEPT ![c] = r] /\ req'[c] = r /\ pc'[c] = "answer"
            /\ r.reply = reply
            /\ r.op = req[c].op /\ r.phase = req[c].phase /\ r.result = req[c].result
            /\ r.found = req[c].found /\ r.after = req[c].after /\ r.pages = req[c].pages
  BY AnswerIs
<1>2. since'[c] = S /\ live'[c] = L
  BY DEF IInv, TypeOK
<1>3. Exclusive(c) /\ InPhase(c) /\ Covered(c)
  BY DEF IInv, CallerOK
<1>4. Exclusive(c)' /\ Timed(c)' /\ InPhase(c)'
  BY <1>1, <1>3 DEF Exclusive, Timed, InPhase, token
<1>5. Covered(c)'
  BY <1>1, <1>2, <1>3 DEF Covered
<1>6. Seen(c)'
  BY <1>1, <1>3 DEF Seen, InPhase
<1>7. CacheOK' /\ cache' \in [token : Tokens, expiry : Nat] /\ holder' \in Callers \cup {Nobody}
  BY DEF IInv, TypeOK, CacheOK, token
<1>8. holder' = holder /\ faults' \in Nat /\ Goto(c, "answer") /\ S \in SUBSET Items
  BY DEF IInv, TypeOK, Answer, token
<1> QED
  BY <1>1, <1>4, <1>5, <1>6, <1>7, <1>8, StepPreserves DEF CallerOK, Labels

-----------------------------------------------------------------------------
(* One lemma per action. *)

LEMMA BeginStep == ASSUME IInv, NEW c \in Callers, Begin(c) PROVE IInv'
<1>1. PICK op \in jobs[c] :
         req' = [req EXCEPT ![c] = [NoRequest EXCEPT !.op = op,
                                       !.phase = IF op = "one" THEN "one" ELSE "list"]]
  BY DEF Begin
<1> DEFINE r == [NoRequest EXCEPT !.op = op, !.phase = IF op = "one" THEN "one" ELSE "list"]
<1>2. op \in AllJobs
  BY DEF IInv, TypeOK
<1>3. r \in Requests
  BY <1>2, NoRequestType DEF Requests
<1>4. live[c] \in SUBSET Items /\ live' = [live EXCEPT ![c] = live[c]]
  BY DEF IInv, TypeOK, Begin, server
<1>5. pc'[c] = "lock" /\ req'[c] = r /\ since'[c] = live[c] /\ live'[c] = live[c] /\ pc[c] = "idle"
  BY <1>1 DEF IInv, TypeOK, Begin, Goto, server
<1>6. CallerOK(c)'
  <2>1. Exclusive(c)' /\ Timed(c)'
    BY <1>5 DEF IInv, CallerOK, Exclusive, Timed, Begin, token
  <2>2. InPhase(c)'
    BY <1>2, <1>5 DEF InPhase, NoRequest, AllJobs
  <2>3. Covered(c)'
    BY <1>2, <1>4, <1>5 DEF Covered, NoRequest, Items
  <2> QED
    BY <2>1, <2>2, <2>3 DEF CallerOK
<1>7. Seen(c)'
  BY <1>5 DEF Seen, NoRequest
<1>8. CacheOK' /\ cache' \in [token : Tokens, expiry : Nat] /\ holder' \in Callers \cup {Nobody}
  BY DEF IInv, TypeOK, CacheOK, Begin, token
<1>9. UNCHANGED <<now, era, born, jobs, holder>> /\ faults' \in Nat /\ Goto(c, "lock")
  BY DEF IInv, TypeOK, Begin, server, token
<1> HIDE DEF r
<1>10. req' = [req EXCEPT ![c] = r] /\ since' = [since EXCEPT ![c] = live[c]]
  BY <1>1 DEF Begin, r
<1> QED
  BY <1>3, <1>4, <1>6, <1>7, <1>8, <1>9, <1>10, StepPreserves DEF Labels

LEMMA LeaveStep == ASSUME IInv, NEW c \in Callers, Leave(c) PROVE IInv'
<1>1. live[c] \in SUBSET Items /\ live' = [live EXCEPT ![c] = live[c]]
  BY DEF IInv, TypeOK, Leave, server
<1>2. pc[c] = "done" /\ pc'[c] = "idle" /\ req'[c] = NoRequest /\ since'[c] = {}
  BY DEF IInv, TypeOK, Leave, Goto
<1>3. Exclusive(c)' /\ Timed(c)'
  BY <1>2 DEF IInv, CallerOK, Exclusive, Timed, Leave, token
<1>4. InPhase(c)' /\ Covered(c)' /\ Seen(c)'
  BY <1>2 DEF InPhase, Covered, Seen, NoRequest
<1>5. CallerOK(c)'
  BY <1>3, <1>4 DEF CallerOK
<1>6. CacheOK' /\ cache' \in [token : Tokens, expiry : Nat] /\ holder' \in Callers \cup {Nobody}
  BY DEF IInv, TypeOK, CacheOK, Leave, token
<1>7. UNCHANGED <<now, era, born, jobs, holder>> /\ faults' \in Nat /\ Goto(c, "idle")
  BY DEF IInv, TypeOK, Leave, server, token
<1>8. req' = [req EXCEPT ![c] = NoRequest] /\ since' = [since EXCEPT ![c] = {}]
  BY DEF Leave
<1>9. {} \in SUBSET Items /\ "idle" \in Labels
  BY DEF Labels
<1> QED
  BY <1>1, <1>4, <1>5, <1>6, <1>7, <1>8, <1>9, NoRequestType, StepPreserves

\* What a request that leaves with token t looks like.
LEMMA SendIs ==
  ASSUME IInv, NEW c \in Callers, NEW t \in Tokens, Send(c, t)
  PROVE  \E r \in Requests :
            /\ req' = [req EXCEPT ![c] = r] /\ req'[c] = r /\ pc'[c] = "send"
            /\ r.token = t /\ r.sent = now
            /\ r.op = req[c].op /\ r.phase = req[c].phase /\ r.result = req[c].result
            /\ r.found = req[c].found /\ r.after = req[c].after /\ r.pages = req[c].pages
<1> DEFINE r == [req[c] EXCEPT !.token = t, !.sent = now]
<1>1. req[c] \in Requests /\ now \in Nat
  BY DEF IInv, TypeOK
<1>2. r \in Requests
  BY <1>1 DEF Requests
<1>3. req' = [req EXCEPT ![c] = r] /\ req'[c] = r /\ pc'[c] = "send"
  BY DEF IInv, TypeOK, Send, Goto
<1>4. /\ r.token = t /\ r.sent = now
      /\ r.op = req[c].op /\ r.phase = req[c].phase /\ r.result = req[c].result
      /\ r.found = req[c].found /\ r.after = req[c].after /\ r.pages = req[c].pages
  BY <1>1 DEF Requests
<1> QED
  BY <1>2, <1>3, <1>4

\* The phase of an operation and what it covered do not depend on its request.
LEMMA SendCovers ==
  ASSUME IInv, NEW c \in Callers, req'[c].op = req[c].op, req'[c].phase = req[c].phase,
         req'[c].result = req[c].result, req'[c].found = req[c].found,
         req'[c].after = req[c].after, req'[c].pages = req[c].pages,
         pc[c] \notin {"idle", "done"}, pc'[c] \notin {"idle", "done", "answer"},
         since'[c] = since[c], live'[c] = live[c]
  PROVE  InPhase(c)' /\ Covered(c)' /\ Seen(c)'
<1>1. InPhase(c) /\ Covered(c)
  BY DEF IInv, CallerOK
<1>2. InPhase(c)'
  BY <1>1 DEF InPhase
<1>3. Covered(c)'
  BY <1>1 DEF Covered
<1>4. Seen(c)'
  BY <1>1 DEF InPhase, Seen
<1> QED
  BY <1>2, <1>3, <1>4

LEMMA UseCachedStep == ASSUME IInv, NEW c \in Callers, UseCached(c) PROVE IInv'
<1> DEFINE t == cache.token
<1>1. t \in Tokens /\ cache.expiry \in Nat /\ now \in Nat
  BY DEF IInv, TypeOK
<1>2. PICK r \in Requests :
            /\ req' = [req EXCEPT ![c] = r] /\ req'[c] = r /\ pc'[c] = "send"
            /\ r.token = t /\ r.sent = now
            /\ r.op = req[c].op /\ r.phase = req[c].phase /\ r.result = req[c].result
            /\ r.found = req[c].found /\ r.after = req[c].after /\ r.pages = req[c].pages
  BY <1>1, SendIs DEF UseCached
<1>3. pc[c] = "lock" /\ holder = Nobody /\ now < cache.expiry
  BY DEF UseCached, Fresh
<1>4. t.at \in Nat /\ t.ttl \in Nat
  BY <1>1 DEF Tokens
<1>5. /\ t.ttl > Margin => now + Timeout < t.at + t.ttl
      /\ ~(t.ttl <= Margin)
  BY <1>1, <1>3, <1>4 DEF IInv, CacheOK
<1>6. Timed(c)'
  BY <1>1, <1>2, <1>4, <1>5 DEF Timed, UseCached
<1>7. Exclusive(c)'
  BY <1>2, <1>3 DEF Exclusive, UseCached, token
<1>8. InPhase(c)' /\ Covered(c)' /\ Seen(c)'
  BY <1>2, <1>3, SendCovers DEF UseCached, server
<1>9. faults' \in Nat /\ Goto(c, "send") /\ UNCHANGED <<now, server, token, since>>
  BY DEF IInv, TypeOK, UseCached, Send
<1> QED
  BY <1>2, <1>6, <1>7, <1>8, <1>9, MovePreserves DEF CallerOK, Labels

LEMMA FetchTokenStep == ASSUME IInv, NEW c \in Callers, FetchToken(c) PROVE IInv'
<1> DEFINE r == [req[c] EXCEPT !.sent = now]
<1>1. req[c] \in Requests /\ now \in Nat
  BY DEF IInv, TypeOK
<1>2. r \in Requests /\ r.sent = now
  BY <1>1 DEF Requests
<1>3. req' = [req EXCEPT ![c] = r] /\ req'[c] = r /\ pc'[c] = "fetch" /\ pc[c] = "lock"
  BY DEF IInv, TypeOK, FetchToken, Goto
<1>4. /\ r.op = req[c].op /\ r.phase = req[c].phase /\ r.result = req[c].result
      /\ r.found = req[c].found /\ r.after = req[c].after /\ r.pages = req[c].pages
  BY <1>1 DEF Requests
<1> HIDE DEF r
<1>5. live[c] \in SUBSET Items /\ since[c] \in SUBSET Items
  BY DEF IInv, TypeOK
<1>6. live' = [live EXCEPT ![c] = live[c]] /\ since' = [since EXCEPT ![c] = since[c]]
  BY DEF IInv, TypeOK, FetchToken, server
<1>7. Exclusive(c)' /\ Timed(c)'
  BY <1>1, <1>2, <1>3 DEF Exclusive, Timed, FetchToken
<1>8. InPhase(c)' /\ Covered(c)' /\ Seen(c)'
  BY <1>3, <1>4, <1>6, SendCovers DEF FetchToken, server
<1>9. CacheOK' /\ cache' \in [token : Tokens, expiry : Nat] /\ holder' \in Callers \cup {Nobody}
  BY DEF IInv, TypeOK, CacheOK, FetchToken
<1>10. \A d \in Callers \ {c} : holder' = d <=> holder = d
  BY DEF FetchToken
<1>11. UNCHANGED <<now, era, born, jobs>> /\ faults' \in Nat /\ Goto(c, "fetch")
  BY DEF IInv, TypeOK, FetchToken, server
<1> QED
  BY <1>2, <1>3, <1>5, <1>6, <1>7, <1>8, <1>9, <1>10, <1>11, StepPreserves DEF CallerOK, Labels

LEMMA IssueTokenStep == ASSUME IInv, NEW c \in Callers, IssueToken(c) PROVE IInv'
<1>1. PICK ttl \in Lifetimes :
         req' = [req EXCEPT ![c].token = [at |-> now, ttl |-> ttl, era |-> era]]
  BY DEF IssueToken
<1> DEFINE t == [at |-> now, ttl |-> ttl, era |-> era]
           r == [req[c] EXCEPT !.token = t]
<1>2. req[c] \in Requests /\ now \in Nat /\ t \in Tokens
  BY DEF IInv, TypeOK, Tokens
<1>3. r \in Requests /\ r.token = t /\ r.sent = req[c].sent /\ r.sent \in Nat
  BY <1>2 DEF Requests
<1>4. /\ r.op = req[c].op /\ r.phase = req[c].phase /\ r.result = req[c].result
      /\ r.found = req[c].found /\ r.after = req[c].after /\ r.pages = req[c].pages
  BY <1>2 DEF Requests
<1>5. req' = [req EXCEPT ![c] = r] /\ req'[c] = r /\ pc'[c] = "fetched" /\ pc[c] = "fetch"
  BY <1>1 DEF IInv, TypeOK, IssueToken, Goto
<1>6. t.at = now
  OBVIOUS
<1> HIDE DEF r, t
<1>7. Exclusive(c)' /\ Timed(c)'
  BY <1>2, <1>3, <1>5, <1>6 DEF IInv, CallerOK, Exclusive, Timed, IssueToken, token
<1>8. InPhase(c)' /\ Covered(c)' /\ Seen(c)'
  BY <1>4, <1>5, SendCovers DEF IssueToken, server
<1>9. faults' \in Nat /\ Goto(c, "fetched") /\ UNCHANGED <<now, server, token, since>>
  BY DEF IInv, TypeOK, IssueToken
<1> QED
  BY <1>3, <1>5, <1>7, <1>8, <1>9, MovePreserves DEF CallerOK, Labels

LEMMA ReceiveTokenStep == ASSUME IInv, NEW c \in Callers, ReceiveToken(c) PROVE IInv'
<1> DEFINE t == req[c].token
<1>1. t \in Tokens /\ now \in Nat /\ req[c].sent \in Nat
  BY DEF IInv, TypeOK, Requests
<1>2. PICK r \in Requests :
            /\ req' = [req EXCEPT ![c] = r] /\ req'[c] = r /\ pc'[c] = "send"
            /\ r.token = t /\ r.sent = now
            /\ r.op = req[c].op /\ r.phase = req[c].phase /\ r.result = req[c].result
            /\ r.found = req[c].found /\ r.after = req[c].after /\ r.pages = req[c].pages
  BY <1>1, SendIs DEF ReceiveToken
<1>3. pc[c] = "fetched" /\ holder = c
  BY DEF IInv, CallerOK, Exclusive, ReceiveToken
<1>4. t.at \in Nat /\ t.ttl \in Nat
  BY <1>1 DEF Tokens
<1>5. now <= t.at + Timeout
  BY <1>1, <1>3, <1>4 DEF IInv, CallerOK, Timed
<1>6. cache' = [token |-> t, expiry |-> Expiry(t.ttl)]
  BY DEF ReceiveToken
<1>7. /\ Expiry(t.ttl) \in Nat
      /\ t.ttl > Margin => Expiry(t.ttl) + Margin = now + t.ttl
      /\ t.ttl <= Margin => Expiry(t.ttl) = now
  BY <1>1, <1>4 DEF Expiry
<1>8. cache'.token = t /\ cache'.expiry = Expiry(t.ttl) /\ cache' \in [token : Tokens, expiry : Nat]
  BY <1>1, <1>6, <1>7
<1>9. now' = now /\ holder' = Nobody
  BY DEF ReceiveToken
<1> HIDE DEF t
<1>10. CacheOK'
  BY <1>1, <1>4, <1>5, <1>7, <1>8, <1>9 DEF CacheOK
<1>11. Timed(c)'
  BY <1>1, <1>2, <1>4, <1>5, <1>9 DEF Timed
<1>12. Exclusive(c)'
  BY <1>2, <1>9 DEF Exclusive
<1>13. InPhase(c)' /\ Covered(c)' /\ Seen(c)'
  BY <1>2, <1>3, SendCovers DEF ReceiveToken, server
<1>14. live[c] \in SUBSET Items /\ since[c] \in SUBSET Items
  BY DEF IInv, TypeOK
<1>15. live' = [live EXCEPT ![c] = live[c]] /\ since' = [since EXCEPT ![c] = since[c]]
  BY DEF IInv, TypeOK, ReceiveToken, server
<1>16. \A d \in Callers \ {c} : holder' = d <=> holder = d
  BY <1>3, <1>9
<1>17. UNCHANGED <<now, era, born, jobs>> /\ faults' \in Nat /\ Goto(c, "send")
  BY DEF IInv, TypeOK, ReceiveToken, Send, server
<1> QED
  BY <1>2, <1>8, <1>9, <1>10, <1>11, <1>12, <1>13, <1>14, <1>15, <1>16, <1>17, StepPreserves
  DEF CallerOK, Labels

LEMMA FetchFailsStep == ASSUME IInv, NEW c \in Callers, FetchFails(c) PROVE IInv'
<1>1. req[c] \in Requests /\ live[c] \in SUBSET Items /\ since[c] \in SUBSET Items
  BY DEF IInv, TypeOK
<1>2. UNCHANGED <<live, since>> /\ holder' = Nobody /\ holder = c
  BY DEF IInv, CallerOK, Exclusive, FetchFails, server
<1>3. PICK q \in Requests :
         Goto(c, "done") /\ CallerOK(c)' /\ Seen(c)' /\ req' = [req EXCEPT ![c] = q]
  BY <1>1, <1>2, ReturnIs DEF FetchFails
<1>4. live' = [live EXCEPT ![c] = live[c]] /\ since' = [since EXCEPT ![c] = since[c]]
  BY <1>2 DEF IInv, TypeOK
<1>5. CacheOK' /\ cache' \in [token : Tokens, expiry : Nat]
  BY DEF IInv, TypeOK, CacheOK, FetchFails
<1>6. UNCHANGED <<now, era, born, jobs>> /\ faults' \in Nat
  BY DEF IInv, TypeOK, FetchFails, Fault, server
<1>7. \A d \in Callers \ {c} : holder' = d <=> holder = d
  BY <1>2
<1>8. "done" \in Labels /\ holder' \in Callers \cup {Nobody}
  BY <1>2 DEF Labels
<1> QED
  BY <1>1, <1>3, <1>4, <1>5, <1>6, <1>7, <1>8, StepPreserves

LEMMA RequestFailsStep == ASSUME IInv, NEW c \in Callers, RequestFails(c) PROVE IInv'
<1>1. req[c] \in Requests /\ faults' \in Nat
  BY DEF IInv, TypeOK, RequestFails, Fault
<1>2. holder # c
  BY DEF IInv, CallerOK, Exclusive, RequestFails
<1> QED
  BY <1>1, <1>2, ReturnPreserves DEF RequestFails

-----------------------------------------------------------------------------
(* The answers of MAS *)

\* A page has no gaps: what is not on it comes after its last item.
LEMMA PageIsPrefix ==
  ASSUME NEW rest \in SUBSET Items, NEW last \in FirstOf(rest), NEW i \in rest, i <= last
  PROVE  i \in FirstOf(rest)
<1> DEFINE below(k) == {j \in rest : j < k}
<1>1. rest \subseteq Nat /\ last \in rest
  BY DEF Items, FirstOf
<1>2. IsFiniteSet(below(last)) /\ below(i) \in SUBSET below(last)
  <2>1. IsFiniteSet(Items)
    BY FS_Interval DEF Items
  <2>2. below(last) \in SUBSET Items
    OBVIOUS
  <2>3. below(i) \subseteq below(last)
    <3> SUFFICES ASSUME NEW j \in rest, j < i PROVE j < last
      OBVIOUS
    <3>1. i \in Nat /\ j \in Nat /\ last \in Nat
      BY <1>1
    <3> QED
      BY <3>1
  <2> QED
    BY <2>1, <2>2, <2>3, FS_Subset
<1>3. IsFiniteSet(below(i)) /\ Cardinality(below(i)) <= Cardinality(below(last))
  BY <1>2, FS_Subset
<1>4. Cardinality(below(i)) \in Nat /\ Cardinality(below(last)) \in Nat
  BY <1>2, <1>3, FS_CardinalityType
<1>5. Cardinality(below(last)) < PageSize
  BY DEF FirstOf
<1>6. Cardinality(below(i)) < PageSize
  BY <1>3, <1>4, <1>5
<1> QED
  BY <1>6 DEF FirstOf

\* The same item comes next however often it is asked for.
LEMMA NextIsUnique ==
  ASSUME NEW f \in SUBSET ((1..MaxPages) \X Items), NEW p \in f, NEW q \in f,
         NextFound(f, p), NextFound(f, q)
  PROVE  p = q
<1>1. p \in (1..MaxPages) \X Items /\ q \in (1..MaxPages) \X Items
  OBVIOUS
<1>2. p[1] \in Nat /\ p[2] \in Nat /\ q[1] \in Nat /\ q[2] \in Nat
  BY <1>1 DEF Items
<1>3. /\ p[1] < q[1] \/ (p[1] = q[1] /\ p[2] <= q[2])
      /\ q[1] < p[1] \/ (q[1] = p[1] /\ q[2] <= p[2])
  BY DEF NextFound
<1>4. p[1] = q[1] /\ p[2] = q[2]
  BY <1>2, <1>3
<1> QED
  BY <1>1, <1>4

LEMMA ServeListStep ==
  ASSUME IInv, NEW c \in Callers, pc[c] = "send", ServeList(c),
         UNCHANGED <<now, era, born, jobs, token, faults>>
  PROVE  IInv'
<1> DEFINE after == req[c].after
           rest == {i \in live[c] : i > after}
           items == FirstOf(rest)
<1>1. live[c] \in SUBSET Items /\ since[c] \in SUBSET live[c] /\ after \in 0..MaxItems
  BY DEF IInv, TypeOK, CallerOK, Covered, Requests
<1>2. rest \in SUBSET Items /\ items \in SUBSET rest
  BY <1>1 DEF FirstOf
<1>3. live' = [live EXCEPT ![c] = live[c]] /\ since' = [since EXCEPT ![c] = since[c]]
  BY DEF IInv, TypeOK, ServeList
<1>4. req[c].phase = "list" /\ req[c].phase # "revoke"
  BY DEF ServeList
<1>5. ASSUME NEW S \in SUBSET Items, NEW more \in BOOLEAN, NEW k \in 0..MaxItems,
             Answer(c, PageReply(S, more, k)),
             \A i \in rest : i \in S \/ (more /\ i > k)
      PROVE  IInv'
  <2> DEFINE reply == PageReply(S, more, k)
  <2>1. reply \in Replies /\ reply.items = S /\ reply.more = more /\ reply.after = k
    BY DEF PageReply, Replies
  <2>2. \A i \in since[c] : i > after => i \in reply.items \/ (reply.more /\ i > reply.after)
    BY <1>1, <1>5, <2>1
  <2> HIDE DEF reply
  <2>3. Answer(c, reply)
    BY <1>5 DEF reply
  <2> QED
    BY <1>1, <1>3, <1>4, <2>1, <2>2, <2>3, AnswerPreserves
<1>6. CASE rest = {} /\ Answer(c, PageReply({}, FALSE, after))
  BY <1>1, <1>5, <1>6
<1>7. ASSUME NEW last \in items, \A j \in items : j <= last,
             Answer(c, PageReply(items, items # rest, last))
      PROVE  IInv'
  <2>1. \A i \in rest : i \in items \/ (items # rest /\ i > last)
    <3> SUFFICES ASSUME NEW i \in rest, i \notin items PROVE i > last
      OBVIOUS
    <3>1. ~(i <= last)
      BY <1>2, PageIsPrefix
    <3> QED
      BY <1>2, <3>1 DEF Items
  <2>2. last \in 0..MaxItems /\ items \in SUBSET Items /\ (items # rest) \in BOOLEAN
    BY <1>2 DEF Items
  <2> QED
    BY <1>5, <1>7, <2>1, <2>2
<1>8. CASE Answer(c, PageReply(items, TRUE, after))
  <2>1. \A i \in rest : i \in items \/ (TRUE /\ i > after)
    OBVIOUS
  <2>2. items \in SUBSET Items
    BY <1>2
  <2> QED
    BY <1>1, <1>5, <1>8, <2>1, <2>2
<1> QED
  BY <1>6, <1>7, <1>8 DEF ServeList

LEMMA ServeRevokeStep ==
  ASSUME IInv, NEW c \in Callers, pc[c] = "send", ServeRevoke(c),
         UNCHANGED <<now, era, born, jobs, token, faults>>
  PROVE  IInv'
<1> DEFINE f == req[c].found
<1>1. PICK p \in f :
          /\ NextFound(f, p)
          /\ Answer(c, [NoReply EXCEPT !.kind = IF p[2] \in live[c] THEN "ok" ELSE "gone"])
          /\ live' = [live EXCEPT ![c] = @ \ {p[2]}]
          /\ since' = [since EXCEPT ![c] = @ \ {p[2]}]
  BY DEF ServeRevoke
<1> DEFINE reply == [NoReply EXCEPT !.kind = IF p[2] \in live[c] THEN "ok" ELSE "gone"]
           L == live[c] \ {p[2]}
           S == since[c] \ {p[2]}
<1>2. reply \in Replies
  BY NoRequestType DEF Replies
<1>3. L \in SUBSET Items /\ S \in SUBSET since[c] /\ S \subseteq L
  BY DEF IInv, TypeOK, CallerOK, Covered
<1>4. live' = [live EXCEPT ![c] = L] /\ since' = [since EXCEPT ![c] = S]
  BY <1>1
<1>5. \A q \in f : NextFound(f, q) => q[2] \notin S
  <2>1. f \in SUBSET ((1..MaxPages) \X Items)
    BY DEF IInv, TypeOK, Requests
  <2> QED
    BY <1>1, <2>1, NextIsUnique
<1>6. req[c].phase = "revoke" /\ Answer(c, reply)
  BY <1>1 DEF ServeRevoke
<1> HIDE DEF reply, L, S
<1> QED
  BY <1>2, <1>3, <1>4, <1>5, <1>6, AnswerPreserves

LEMMA ServeStep == ASSUME IInv, NEW c \in Callers, Serve(c) PROVE IInv'
<1>1. pc[c] = "send" /\ UNCHANGED <<now, era, born, jobs, token, faults>>
  BY DEF Serve
<1>2. ASSUME NEW kind \in {"ok", "refused"}, Answer(c, [NoReply EXCEPT !.kind = kind]),
             UNCHANGED <<live, since>>, kind = "ok" => req[c].phase = "one"
      PROVE  IInv'
  <2> DEFINE reply == [NoReply EXCEPT !.kind = kind]
  <2>1. reply \in Replies /\ reply.kind = kind
    BY NoRequestType DEF Replies, NoReply
  <2>2. live' = [live EXCEPT ![c] = live[c]] /\ since' = [since EXCEPT ![c] = since[c]]
    BY <1>2 DEF IInv, TypeOK
  <2>3. live[c] \in SUBSET Items /\ since[c] \in SUBSET since[c] /\ since[c] \subseteq live[c]
    BY DEF IInv, TypeOK, CallerOK, Covered
  <2>4. Answer(c, reply)
    BY <1>2
  <2> HIDE DEF reply
  <2> QED
    BY <1>1, <1>2, <2>1, <2>2, <2>3, <2>4, AnswerPreserves
<1>3. CASE ServeList(c)
  BY <1>1, <1>3, ServeListStep
<1>4. CASE ServeRevoke(c)
  BY <1>1, <1>4, ServeRevokeStep
<1> QED
  BY <1>2, <1>3, <1>4 DEF Serve

-----------------------------------------------------------------------------
(* What a caller does with an answer *)

\* An operation that goes on keeps what it has found.
LEMMA AgainPreserves ==
  ASSUME IInv, NEW c \in Callers, NEW r \in Requests, Again(c, r),
         UNCHANGED <<now, server, token, since, faults>>, holder # c,
         r.phase \in {"list", "revoke"}, r.result = "none",
         r.phase = "list" =>
            /\ r.op \in {"list", "sweep"} /\ r.pages < MaxPages
            /\ \A i \in since[c] : i <= r.after => i \in Found(r.found),
         r.phase = "revoke" => r.op = "sweep" /\ since[c] \subseteq Found(r.found)
  PROVE  IInv'
<1> DEFINE q == [r EXCEPT !.token = NoToken, !.sent = 0, !.reply = NoReply]
<1>1. q \in Requests
  BY NoRequestType DEF Requests
<1>2. /\ q.op = r.op /\ q.phase = r.phase /\ q.result = r.result
      /\ q.found = r.found /\ q.after = r.after /\ q.pages = r.pages
  BY DEF Requests
<1>3. Goto(c, "lock") /\ req' = [req EXCEPT ![c] = q] /\ req'[c] = q /\ pc'[c] = "lock"
  BY DEF IInv, TypeOK, Again, Goto
<1> HIDE DEF q
<1>4. since[c] \subseteq live[c] /\ since'[c] = since[c] /\ live'[c] = live[c] /\ holder' = holder
  BY DEF IInv, CallerOK, Covered, server, token
<1>5. Exclusive(c)' /\ Timed(c)'
  BY <1>3, <1>4 DEF Exclusive, Timed
<1>6. InPhase(c)'
  BY <1>2, <1>3 DEF InPhase
<1>7. Covered(c)'
  BY <1>2, <1>3, <1>4 DEF Covered
<1>8. Seen(c)'
  BY <1>2, <1>3 DEF Seen
<1>9. faults' \in Nat
  BY DEF IInv, TypeOK
<1> QED
  BY <1>1, <1>3, <1>5, <1>6, <1>7, <1>8, <1>9, MovePreserves DEF CallerOK, Labels

LEMMA SweepPreserves ==
  ASSUME IInv, NEW c \in Callers, NEW r \in Requests, Sweep(c, r),
         UNCHANGED <<now, server, token, since, faults>>, holder # c,
         r.op = "sweep", r.result = "none", since[c] \subseteq Found(r.found)
  PROVE  IInv'
<1>1. CASE r.found = {} /\ Return(c, r, "ok")
  <2>1. since[c] = {}
    BY <1>1 DEF Found
  <2>2. faults' \in Nat
    BY DEF IInv, TypeOK
  <2> QED
    BY <1>1, <2>1, <2>2, ReturnPreserves
<1>2. CASE Again(c, [r EXCEPT !.phase = "revoke"])
  <2> DEFINE q == [r EXCEPT !.phase = "revoke"]
  <2>1. q \in Requests
    BY DEF Requests
  <2>2. q.phase = "revoke" /\ q.op = r.op /\ q.result = r.result /\ q.found = r.found
    BY DEF Requests
  <2>3. Again(c, q)
    BY <1>2
  <2> HIDE DEF q
  <2> QED
    BY <2>1, <2>2, <2>3, AgainPreserves
<1> QED
  BY <1>1, <1>2 DEF Sweep

LEMMA PageType ==
  ASSUME NEW r \in Requests, NEW n \in 0..MaxPages, NEW f \in SUBSET ((1..MaxPages) \X Items)
  PROVE  [r EXCEPT !.pages = n, !.found = f] \in Requests
BY DEF Requests

LEMMA ReceivePageStep ==
  ASSUME IInv, NEW c \in Callers, pc[c] = "answer", ReceivePage(c),
         UNCHANGED <<now, server, token, since, faults>>
  PROVE  IInv'
<1> DEFINE reply == req[c].reply
           page == req[c].pages + 1
           r == [req[c] EXCEPT !.pages = page, !.found = @ \cup ({page} \X reply.items)]
<1>1. req[c] \in Requests /\ reply \in Replies /\ InPhase(c) /\ Covered(c)
  BY DEF IInv, TypeOK, CallerOK, Requests
<1>2. req[c].phase = "list" /\ reply.kind = "ok" /\ AfterPage(c, r, reply)
  BY DEF ReceivePage
<1>3. req[c].op \in {"list", "sweep"} /\ req[c].pages < MaxPages /\ req[c].result = "none"
  BY <1>1, <1>2 DEF InPhase
<1>4. page \in 1..MaxPages /\ reply.items \in SUBSET Items /\ reply.after \in 0..MaxItems
      /\ reply.more \in BOOLEAN
  BY <1>1, <1>3 DEF Requests, Replies
<1>5. req[c].found \cup ({page} \X reply.items) \in SUBSET ((1..MaxPages) \X Items)
  BY <1>1, <1>4 DEF Requests
<1>6. r \in Requests
  <2>1. page \in 0..MaxPages
    BY <1>4
  <2> QED
    BY <1>1, <1>5, <2>1, PageType
<1>7. /\ r.op = req[c].op /\ r.phase = "list" /\ r.result = "none" /\ r.after = req[c].after
      /\ r.pages = page /\ r.found = req[c].found \cup ({page} \X reply.items)
  BY <1>1, <1>2, <1>3 DEF Requests
<1>8. Found(r.found) = Found(req[c].found) \cup reply.items
  <2> HIDE DEF r, page, reply
  <2>1. \A i \in reply.items : <<page, i>> \in r.found /\ <<page, i>>[2] = i
    BY <1>7
  <2>2. \A p \in r.found : p \in req[c].found \/ p[2] \in reply.items
    <3>1. \A p \in {page} \X reply.items : p[2] \in reply.items
      OBVIOUS
    <3>2. \A p \in r.found : p \in req[c].found \/ p \in {page} \X reply.items
      BY <1>7
    <3> QED
      BY <3>1, <3>2
  <2>3. req[c].found \subseteq r.found
    BY <1>7
  <2>4. Found(r.found) \subseteq Found(req[c].found) \cup reply.items
    <3> SUFFICES ASSUME NEW p \in r.found PROVE p[2] \in Found(req[c].found) \cup reply.items
      BY DEF Found
    <3> QED
      BY <2>2 DEF Found
  <2>5. Found(req[c].found) \subseteq Found(r.found)
    BY <2>3 DEF Found
  <2>6. reply.items \subseteq Found(r.found)
    BY <2>1 DEF Found
  <2> QED
    BY <2>4, <2>5, <2>6
<1>9. \A i \in since[c] : i \in Found(r.found) \/ (reply.more /\ i > reply.after)
  <2>1. since[c] \subseteq Items
    BY DEF IInv, TypeOK
  <2>2. \A i \in since[c] : i <= req[c].after \/ i > req[c].after
    BY <1>1, <2>1 DEF Requests, Items
  <2> QED
    BY <1>1, <1>2, <1>8, <2>2 DEF Covered
<1>10. holder # c /\ faults' \in Nat
  BY DEF IInv, TypeOK, CallerOK, Exclusive
<1> HIDE DEF r, page, reply
<1>11. CASE ~reply.more /\ r.op = "list" /\ Return(c, r, "ok")
  BY <1>6, <1>9, <1>10, <1>11, ReturnPreserves
<1>12. CASE ~reply.more /\ r.op # "list" /\ Sweep(c, r)
  BY <1>3, <1>6, <1>7, <1>9, <1>10, <1>12, SweepPreserves
<1>13. CASE r.pages < MaxPages /\ Again(c, [r EXCEPT !.after = reply.after])
  <2> DEFINE q == [r EXCEPT !.after = reply.after]
  <2>1. q \in Requests
    BY <1>4, <1>6 DEF Requests
  <2>2. /\ q.op = r.op /\ q.phase = "list" /\ q.result = "none" /\ q.after = reply.after
        /\ q.pages = r.pages /\ q.found = r.found
    BY <1>6, <1>7 DEF Requests
  <2>3. Again(c, q)
    BY <1>13
  <2> HIDE DEF q
  <2>4. \A i \in since[c] : i <= q.after => i \in Found(q.found)
    <3>1. since[c] \subseteq Items
      BY DEF IInv, TypeOK
    <3>2. \A i \in since[c] : ~(i <= reply.after /\ i > reply.after)
      BY <1>4, <3>1 DEF Items
    <3> QED
      BY <1>9, <2>2, <3>2
  <2>5. q.op \in {"list", "sweep"} /\ q.pages < MaxPages
    BY <1>3, <1>7, <1>13, <2>2
  <2> QED
    BY <1>10, <2>1, <2>2, <2>3, <2>4, <2>5, AgainPreserves
<1>14. CASE Return(c, r, "error")
  BY <1>6, <1>10, <1>14, ReturnPreserves
<1> QED
  BY <1>2, <1>11, <1>12, <1>13, <1>14 DEF AfterPage, Listed

LEMMA ReceiveRevokedStep ==
  ASSUME IInv, NEW c \in Callers, pc[c] = "answer", ReceiveRevoked(c),
         UNCHANGED <<now, server, token, since, faults>>
  PROVE  IInv'
<1> DEFINE f == req[c].found
<1>1. PICK p \in f : NextFound(f, p) /\ Sweep(c, [req[c] EXCEPT !.found = @ \ {p}])
  BY DEF ReceiveRevoked
<1> DEFINE r == [req[c] EXCEPT !.found = f \ {p}]
<1>2. req[c] \in Requests /\ InPhase(c) /\ Covered(c)
  BY DEF IInv, TypeOK, CallerOK
<1>3. r \in Requests /\ r.found = f \ {p} /\ r.op = req[c].op /\ r.result = req[c].result
  BY <1>2 DEF Requests
<1>4. req[c].phase = "revoke" /\ req[c].reply.kind = "ok"
  BY DEF ReceiveRevoked
<1>5. req[c].op = "sweep" /\ req[c].result = "none"
  BY <1>2, <1>4 DEF InPhase
<1>6. since[c] \subseteq Found(f) /\ p[2] \notin since[c]
  BY <1>1, <1>2, <1>4 DEF Covered
<1>7. Sweep(c, r)
  BY <1>1
<1> HIDE DEF r
<1>8. since[c] \subseteq Found(r.found)
  <2> SUFFICES ASSUME NEW i \in since[c] PROVE i \in Found(r.found)
    OBVIOUS
  <2>1. PICK q \in f : q[2] = i
    BY <1>6 DEF Found
  <2>2. q \in r.found
    BY <1>3, <1>6, <2>1
  <2> QED
    BY <2>1, <2>2 DEF Found
<1>9. holder # c
  BY DEF IInv, CallerOK, Exclusive
<1> QED
  BY <1>3, <1>5, <1>7, <1>8, <1>9, SweepPreserves

LEMMA ReceiveStep == ASSUME IInv, NEW c \in Callers, Receive(c) PROVE IInv'
<1>1. pc[c] = "answer" /\ UNCHANGED <<now, server, token, since, faults>>
  BY DEF Receive
<1>2. req[c] \in Requests /\ InPhase(c) /\ holder # c /\ faults' \in Nat
  BY <1>1 DEF IInv, TypeOK, CallerOK, Exclusive
<1>3. CASE ReceivePage(c)
  BY <1>1, <1>3, ReceivePageStep
<1>4. CASE ReceiveRevoked(c)
  BY <1>1, <1>4, ReceiveRevokedStep
<1>5. CASE req[c].phase = "one" /\ Return(c, req[c], "ok")
  <2>1. req[c].op = "one"
    BY <1>2, <1>5 DEF InPhase
  <2> QED
    BY <1>1, <1>2, <1>5, <2>1, ReturnPreserves
<1>6. CASE Return(c, req[c], "error")
  BY <1>1, <1>2, <1>6, ReturnPreserves
<1> QED
  BY <1>3, <1>4, <1>5, <1>6 DEF Receive

-----------------------------------------------------------------------------
(* Time and the other clients of MAS *)

\* A step that changes no caller, and takes nothing from the items of a caller but what
\* it takes from those that were there, keeps everything that is not about time.
LEMMA OutsideCovers ==
  ASSUME IInv, UNCHANGED <<pc, req, holder>>,
         \A c \in Callers : since'[c] \subseteq since[c] /\ since'[c] \subseteq live'[c]
  PROVE  \A c \in Callers : Exclusive(c)' /\ InPhase(c)' /\ Covered(c)' /\ Seen(c)'
<1> SUFFICES ASSUME NEW c \in Callers
             PROVE  Exclusive(c)' /\ InPhase(c)' /\ Covered(c)' /\ Seen(c)'
  OBVIOUS
<1>1. Exclusive(c) /\ InPhase(c) /\ Covered(c) /\ Seen(c)
  BY CompleteIsSeen DEF IInv, CallerOK
<1>2. Exclusive(c)' /\ InPhase(c)'
  BY <1>1 DEF Exclusive, InPhase
<1>3. Covered(c)'
  BY <1>1 DEF Covered
<1>4. Seen(c)'
  BY <1>1 DEF Seen
<1> QED
  BY <1>2, <1>3, <1>4

LEMMA OutsidePreserves ==
  ASSUME IInv, UNCHANGED <<pc, req, token>>, TypeOK', now' >= now,
         \A c \in Callers : since'[c] \subseteq since[c] /\ since'[c] \subseteq live'[c],
         \A c \in Callers : Timed(c)'
  PROVE  IInv'
<1>1. UNCHANGED holder
  BY DEF token
<1>2. \A c \in Callers : Exclusive(c)' /\ InPhase(c)' /\ Covered(c)' /\ Seen(c)'
  BY <1>1, OutsideCovers
<1>3. CacheOK'
  <2>1. cache' = cache /\ cache.expiry \in Nat /\ now \in Nat /\ now' \in Nat
    BY DEF IInv, TypeOK, token
  <2> QED
    BY <2>1 DEF IInv, CacheOK
<1>4. Complete'
  BY <1>2 DEF Complete, Seen, Found
<1> QED
  BY <1>2, <1>3, <1>4 DEF IInv, CallerOK

\* The invariant holds of the items as they were.
LEMMA SinceLive == ASSUME IInv, NEW c \in Callers PROVE since[c] \subseteq live[c] /\ Timed(c)
BY DEF IInv, CallerOK, Covered

LEMMA TickStep == ASSUME IInv, Tick PROVE IInv'
<1>1. now \in Nat /\ now' = now + 1 /\ UNCHANGED <<server, token, pc, req, since, faults>>
  BY DEF IInv, TypeOK, Tick
<1>2. TypeOK'
  BY <1>1 DEF IInv, TypeOK, server, token
<1>3. ASSUME NEW c \in Callers PROVE Timed(c)'
  <2>1. req[c].sent \in Nat /\ req[c].token.at \in Nat
    BY DEF IInv, TypeOK, Requests, Tokens
  <2>2. pc[c] \in {"fetch", "fetched", "send"} => now < req[c].sent + Timeout
    BY DEF Tick, Waiting
  <2>3. Timed(c)
    BY SinceLive
  <2> QED
    BY <1>1, <2>1, <2>2, <2>3 DEF Timed
<1>4. \A c \in Callers : since'[c] \subseteq since[c] /\ since'[c] \subseteq live'[c]
  BY <1>1, SinceLive DEF server
<1> QED
  BY <1>1, <1>2, <1>3, <1>4, OutsidePreserves

LEMMA DropTokensStep == ASSUME IInv, DropTokens PROVE IInv'
<1>1. now \in Nat /\ UNCHANGED <<now, born, live, jobs, token, pc, req, since>>
  BY DEF IInv, TypeOK, DropTokens
<1>2. TypeOK'
  BY DEF IInv, TypeOK, DropTokens, Fault, token
<1>3. \A c \in Callers : Timed(c)'
  BY <1>1, SinceLive DEF Timed
<1>4. \A c \in Callers : since'[c] \subseteq since[c] /\ since'[c] \subseteq live'[c]
  BY <1>1, SinceLive
<1> QED
  BY <1>1, <1>2, <1>3, <1>4, OutsidePreserves

LEMMA AddItemStep == ASSUME IInv, NEW c \in Callers, AddItem(c) PROVE IInv'
<1>1. now \in Nat /\ UNCHANGED <<now, era, jobs, token, pc, req, since, faults>>
  BY DEF IInv, TypeOK, AddItem
<1>2. born[c] + 1 \in Items /\ born[c] + 1 \in 0..MaxItems
  BY DEF IInv, TypeOK, AddItem, Items
<1>3. TypeOK'
  BY <1>1, <1>2 DEF IInv, TypeOK, AddItem, token
<1>4. \A d \in Callers : Timed(d)'
  BY <1>1, SinceLive DEF Timed
<1>5. \A d \in Callers : live[d] \subseteq live'[d]
  BY DEF IInv, TypeOK, AddItem
<1>6. \A d \in Callers : since'[d] \subseteq since[d] /\ since'[d] \subseteq live'[d]
  BY <1>1, <1>5, SinceLive
<1> QED
  BY <1>1, <1>3, <1>4, <1>6, OutsidePreserves

LEMMA EndItemStep == ASSUME IInv, NEW c \in Callers, EndItem(c) PROVE IInv'
<1>1. now \in Nat /\ UNCHANGED <<now, era, born, jobs, token, pc, req, faults>>
  BY DEF IInv, TypeOK, EndItem
<1>2. PICK i \in live[c] :
          /\ live' = [live EXCEPT ![c] = @ \ {i}]
          /\ since' = [since EXCEPT ![c] = @ \ {i}]
  BY DEF EndItem
<1>3. TypeOK'
  BY <1>1, <1>2 DEF IInv, TypeOK, token
<1>4. \A d \in Callers : Timed(d)'
  BY <1>1, SinceLive DEF Timed
<1>5. \A d \in Callers : since'[d] \subseteq since[d] /\ since'[d] \subseteq live'[d]
  BY <1>2, SinceLive DEF IInv, TypeOK
<1> QED
  BY <1>1, <1>3, <1>4, <1>5, OutsidePreserves

LEMMA StutterInv == ASSUME IInv, UNCHANGED vars PROVE IInv'
<1>1. now \in Nat /\ UNCHANGED <<now, era, born, live, jobs, token, pc, req, since, faults>>
  BY DEF IInv, TypeOK, vars, server
<1>2. TypeOK'
  BY <1>1 DEF IInv, TypeOK, token
<1>3. \A c \in Callers : Timed(c)'
  BY <1>1, SinceLive DEF Timed
<1>4. \A c \in Callers : since'[c] \subseteq since[c] /\ since'[c] \subseteq live'[c]
  BY <1>1, SinceLive
<1> QED
  BY <1>1, <1>2, <1>3, <1>4, OutsidePreserves

LEMMA NextInv == IInv /\ [Next]_vars => IInv'
<1> SUFFICES ASSUME IInv, [Next]_vars PROVE IInv'
  OBVIOUS
<1>1. ASSUME NEW c \in Callers, Begin(c) PROVE IInv'
  BY <1>1, BeginStep
<1>2. ASSUME NEW c \in Callers, Acquire(c) PROVE IInv'
  BY <1>2, UseCachedStep, FetchTokenStep DEF Acquire
<1>3. ASSUME NEW c \in Callers, Step(c) PROVE IInv'
  <2>1. CASE IssueToken(c)
    BY <2>1, IssueTokenStep
  <2>2. CASE ReceiveToken(c)
    BY <2>2, ReceiveTokenStep
  <2>3. CASE FetchFails(c)
    BY <2>3, FetchFailsStep
  <2>4. CASE Serve(c)
    BY <2>4, ServeStep
  <2>5. CASE Receive(c)
    BY <2>5, ReceiveStep
  <2>6. CASE RequestFails(c)
    BY <2>6, RequestFailsStep
  <2>7. CASE Leave(c)
    BY <2>7, LeaveStep
  <2> QED
    BY <1>3, <2>1, <2>2, <2>3, <2>4, <2>5, <2>6, <2>7 DEF Step
<1>4. ASSUME NEW c \in Callers, AddItem(c) \/ EndItem(c) PROVE IInv'
  BY <1>4, AddItemStep, EndItemStep
<1>5. CASE Tick
  BY <1>5, TickStep
<1>6. CASE DropTokens
  BY <1>6, DropTokensStep
<1>7. CASE UNCHANGED vars
  BY <1>7, StutterInv
<1> QED
  BY <1>1, <1>2, <1>3, <1>4, <1>5, <1>6, <1>7 DEF Next

-----------------------------------------------------------------------------
(* The theorems *)

\* client.go: the invariant holds in every reachable state.
THEOREM ClientInvariance == Spec => []IInv
BY InitInv, NextInv, PTL DEF Spec

\* client.go: every variable keeps its type; the expiry of a cached token, computed
\* from a lifetime and the margin, is never before its receipt.
THEOREM ClientTypes == Spec => []TypeOK
<1>1. IInv => TypeOK
  BY DEF IInv
<1> QED
  BY <1>1, ClientInvariance, PTL

\* client.go:414 and 451: a margin of two timeouts keeps every request from being under
\* way with a token that has reached its end, however many callers share the token.
THEOREM TokensAlive == Spec => []TokenAlive
<1>1. IInv => TokenAlive
  <2> SUFFICES ASSUME IInv, NEW c \in Callers, pc[c] = "send"
               PROVE  LET t == req[c].token IN
                      /\ t.ttl > Margin => now < t.at + t.ttl
                      /\ t.ttl <= Margin => now <= t.at + 2 * Timeout
    BY DEF TokenAlive
  <2>1. /\ now \in Nat /\ req[c].sent \in Nat
        /\ req[c].token.at \in Nat /\ req[c].token.ttl \in Nat
    BY DEF IInv, TypeOK, Requests, Tokens
  <2>2. Timed(c)
    BY SinceLive
  <2> QED
    BY <2>1, <2>2 DEF Timed
<1> QED
  BY <1>1, ClientInvariance, PTL

\* client.go:307-345 and service.go:625-647: a listing that succeeds has every item that
\* was there when it began and still is, and a sweep that succeeds has left none of them,
\* for every size and number of pages and whatever others do in the meantime.
THEOREM OperationsComplete == Spec => []Complete
<1>1. IInv => Complete
  BY DEF IInv
<1> QED
  BY <1>1, ClientInvariance, PTL
=============================================================================
