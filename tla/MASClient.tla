----------------------------- MODULE MASClient -----------------------------
(***************************************************************************)
(* mas.Client: the HTTP client of the MAS admin API that all requests and  *)
(* the operator share.  Every call first gets the admin token, from a      *)
(* cache behind tokenMu or from MAS, and then sends its request.  Callers  *)
(* run one operation after the other: a listing page by page (ListUsers),  *)
(* the sweep of agents.Service.revokeActiveSessions (ListPersonalSessions, *)
(* then a revocation for each session), or one of a single request.        *)
(*                                                                         *)
(* Time is in units of the client's timeout; code that only computes takes *)
(* none.  A request reaches MAS, and its answer the client, at some time   *)
(* before the timeout.  Each caller lists items (users, or sessions of one *)
(* user) of its own, which MAS numbers in the order of their creation.     *)
(*                                                                         *)
(* Definitions called X_... are wrong variants of X that the properties    *)
(* must tell apart from it; nothing else uses them.                        *)
(***************************************************************************)
EXTENDS Integers, FiniteSets

CONSTANTS
    Callers,
    Nobody,         \* the holder of a free mutex
    Mixes,          \* which caller runs which operations: the choices in play
    Lifetimes,      \* expires_in, as MAS may choose it
    Timeout,        \* of one HTTP request
    Margin,         \* how long before its end a token is no longer used
    PageSize,       \* page[first]
    MaxPages,       \* the safety limit of a listing
    Faults,         \* the kinds of failure in play
    MaxFaults,      \* bound: failures in one behaviour
    MaxItems,       \* bound: items MAS creates for one caller
    MaxNow          \* bound: the clock

AllJobs == {"list", "sweep", "one"}
FaultKinds == {"fail", "drop", "loop"}

ASSUME CallerAssumption == Nobody \notin Callers
\* client.go:168 and 451: a request takes at most 15 seconds, the margin is 30.
ASSUME TimeAssumption ==
    /\ Timeout \in Nat /\ Margin \in Nat /\ 2 * Timeout <= Margin
    /\ Lifetimes \subseteq Nat
ASSUME KindAssumption == Mixes \subseteq [Callers -> SUBSET AllJobs] /\ Faults \subseteq FaultKinds
ASSUME PageAssumption == PageSize \in Nat \ {0} /\ MaxPages \in Nat \ {0}
ASSUME LimitAssumption == MaxFaults \in Nat /\ MaxItems \in Nat /\ MaxNow \in Nat

VARIABLES
    now,
    era,            \* MAS: how often it dropped its tokens
    born, live,     \* MAS: the items it made for each caller, those that are active
    holder,         \* tokenMu
    cache,          \* accessToken and tokenExpiry
    pc, req,        \* the callers
    since,          \* history: items active since the operation of the caller began
    jobs,           \* the operations of each caller, the same for a whole behaviour
    faults

server == <<era, born, live, jobs>>
token == <<holder, cache>>
vars == <<now, server, token, pc, req, since, faults>>

Items == 1..MaxItems
Tokens == [at : Nat, ttl : Nat, era : Nat]
NoToken == [at |-> 0, ttl |-> 0, era |-> 0]

\* What MAS answers: a page and the cursor of the next link, if there is one.
Replies == [kind : {"none", "ok", "refused", "gone"}, items : SUBSET Items,
            more : BOOLEAN, after : 0..MaxItems]
NoReply == [kind |-> "none", items |-> {}, more |-> FALSE, after |-> 0]

\* The locals of an operation; "found" has each item with the page that listed it.
Requests == [op : AllJobs \cup {"none"}, phase : {"none", "list", "revoke", "one"},
             token : Tokens, sent : Nat, after : 0..MaxItems, pages : 0..MaxPages,
             found : SUBSET ((1..MaxPages) \X Items), reply : Replies,
             result : {"none", "ok", "error"}]
NoRequest == [op |-> "none", phase |-> "none", token |-> NoToken, sent |-> 0, after |-> 0,
              pages |-> 0, found |-> {}, reply |-> NoReply, result |-> "none"]

Labels == {"idle", "lock", "fetch", "fetched", "send", "answer", "done"}

TypeOK ==
    /\ now \in Nat /\ era \in Nat /\ faults \in Nat
    /\ born \in [Callers -> 0..MaxItems]
    /\ live \in [Callers -> SUBSET Items]
    /\ holder \in Callers \cup {Nobody}
    /\ cache \in [token : Tokens, expiry : Nat]
    /\ pc \in [Callers -> Labels]
    /\ req \in [Callers -> Requests]
    /\ since \in [Callers -> SUBSET Items]
    /\ jobs \in Mixes

Fault(kind) == kind \in Faults /\ faults < MaxFaults /\ faults' = faults + 1

Goto(c, label) == pc' = [pc EXCEPT ![c] = label]

\* The operation returns to its caller.
Return(c, r, result) ==
    /\ Goto(c, "done")
    /\ req' = [req EXCEPT ![c] = [NoRequest EXCEPT !.op = r.op, !.found = r.found,
                                                   !.result = result]]

\* Nobody sees the items of a caller that lists none.
Lists(c) == jobs[c] \cap {"list", "sweep"} # {}

Init ==
    /\ now = 0 /\ era = 1 /\ faults = 0 /\ jobs \in Mixes
    /\ born \in [Callers -> 0..MaxItems] /\ \A c \in Callers : ~Lists(c) => born[c] = 0
    /\ live = [c \in Callers |-> 1..born[c]]
    /\ holder = Nobody
    /\ cache = [token |-> NoToken, expiry |-> 0]
    /\ pc = [c \in Callers |-> "idle"]
    /\ req = [c \in Callers |-> NoRequest]
    /\ since = [c \in Callers |-> {}]

\* A request or the operator begins an operation.
Begin(c) ==
    /\ pc[c] = "idle" /\ Goto(c, "lock")
    /\ \E op \in jobs[c] :
          req' = [req EXCEPT ![c] = [NoRequest EXCEPT !.op = op,
                                        !.phase = IF op = "one" THEN "one" ELSE "list"]]
    /\ since' = [since EXCEPT ![c] = live[c]]
    /\ UNCHANGED <<now, server, token, faults>>

\* The caller has what it asked for, and goes away.
Leave(c) ==
    /\ pc[c] = "done" /\ Goto(c, "idle")
    /\ req' = [req EXCEPT ![c] = NoRequest]
    /\ since' = [since EXCEPT ![c] = {}]
    /\ UNCHANGED <<now, server, token, faults>>

-----------------------------------------------------------------------------
(* accessTokenFor *)

Fresh == cache.token # NoToken /\ now < cache.expiry

\* The request leaves with the token.
Send(c, t) ==
    /\ Goto(c, "send")
    /\ req' = [req EXCEPT ![c].token = t, ![c].sent = now]

UseCached(c) ==
    /\ pc[c] = "lock" /\ holder = Nobody /\ Fresh
    /\ Send(c, cache.token)
    /\ UNCHANGED <<now, server, token, since, faults>>

\* The caller asks MAS for a token and keeps the mutex.
FetchToken(c) ==
    /\ pc[c] = "lock" /\ holder = Nobody /\ ~Fresh
    /\ holder' = c /\ Goto(c, "fetch")
    /\ req' = [req EXCEPT ![c].sent = now]
    /\ UNCHANGED <<now, server, cache, since, faults>>

IssueToken(c) ==
    /\ pc[c] = "fetch" /\ Goto(c, "fetched")
    /\ \E ttl \in Lifetimes :
          req' = [req EXCEPT ![c].token = [at |-> now, ttl |-> ttl, era |-> era]]
    /\ UNCHANGED <<now, server, token, since, faults>>

Expiry_Plain(ttl) == now + ttl - Margin

Expiry_HalfMargin(ttl) == IF ttl > Margin THEN now + ttl - Timeout ELSE now

Expiry(ttl) == IF ttl > Margin THEN now + ttl - Margin ELSE now

ReceiveToken(c) ==
    /\ pc[c] = "fetched"
    /\ cache' = [token |-> req[c].token, expiry |-> Expiry(req[c].token.ttl)]
    /\ holder' = Nobody
    /\ Send(c, req[c].token)
    /\ UNCHANGED <<now, server, since, faults>>

\* No Secret file, no answer, or one that is no token: the operation ends.
FetchFails(c) ==
    /\ pc[c] \in {"fetch", "fetched"} /\ Fault("fail")
    /\ holder' = Nobody /\ Return(c, req[c], "error")
    /\ UNCHANGED <<now, server, cache, since>>

-----------------------------------------------------------------------------
(* MAS at the other end of doJSON *)

Accepted(t) == t.era = era /\ now < t.at + t.ttl

Answer(c, reply) ==
    /\ Goto(c, "answer") /\ req' = [req EXCEPT ![c].reply = reply, ![c].token = NoToken]

\* A page has the first of the items behind the cursor.
FirstOf(rest) == {i \in rest : Cardinality({j \in rest : j < i}) < PageSize}

PageReply(items, more, after) ==
    [kind |-> "ok", items |-> items, more |-> more, after |-> after]

\* The next link names the last item of the page; or a server gives the same link again.
ServeList(c) ==
    LET rest == {i \in live[c] : i > req[c].after}
        items == FirstOf(rest)
    IN  /\ req[c].phase = "list" /\ UNCHANGED <<live, since>>
        /\ \/ rest = {} /\ Answer(c, PageReply({}, FALSE, req[c].after))
           \/ \E last \in items :
                 /\ \A j \in items : j <= last
                 /\ Answer(c, PageReply(items, items # rest, last))
           \/ "loop" \in Faults /\ Answer(c, PageReply(items, TRUE, req[c].after))

\* The next session of the sweep, in the order of the listing.
NextFound(f, p) == p \in f /\ \A q \in f : p[1] < q[1] \/ (p[1] = q[1] /\ p[2] <= q[2])

\* MAS refuses to revoke a session that is not active.
ServeRevoke(c) ==
    /\ req[c].phase = "revoke"
    /\ \E p \in req[c].found :
          /\ NextFound(req[c].found, p)
          /\ Answer(c, [NoReply EXCEPT !.kind = IF p[2] \in live[c] THEN "ok" ELSE "gone"])
          /\ live' = [live EXCEPT ![c] = @ \ {p[2]}]
          /\ since' = [since EXCEPT ![c] = @ \ {p[2]}]

Serve(c) ==
    /\ pc[c] = "send"
    /\ \/ /\ ~Accepted(req[c].token)
          /\ Answer(c, [NoReply EXCEPT !.kind = "refused"]) /\ UNCHANGED <<live, since>>
       \/ Accepted(req[c].token) /\ ServeList(c)
       \/ Accepted(req[c].token) /\ ServeRevoke(c)
       \/ /\ Accepted(req[c].token) /\ req[c].phase = "one"
          /\ Answer(c, [NoReply EXCEPT !.kind = "ok"]) /\ UNCHANGED <<live, since>>
    /\ UNCHANGED <<now, era, born, jobs, token, faults>>

-----------------------------------------------------------------------------
(* ListUsers, ListPersonalSessions, revokeActiveSessions *)

\* The operation goes on with another request.
Again(c, r) ==
    /\ Goto(c, "lock")
    /\ req' = [req EXCEPT ![c] = [r EXCEPT !.token = NoToken, !.sent = 0, !.reply = NoReply]]

\* Revoke what is left to revoke.
Sweep(c, r) ==
    IF r.found = {} THEN Return(c, r, "ok") ELSE Again(c, [r EXCEPT !.phase = "revoke"])

Listed(c, r) == IF r.op = "list" THEN Return(c, r, "ok") ELSE Sweep(c, r)

AfterPage_Partial(c, r, reply) ==
    IF reply.more /\ r.pages < MaxPages THEN Again(c, [r EXCEPT !.after = reply.after])
    ELSE Listed(c, r)

AfterPage_Unbounded(c, r, reply) ==
    IF reply.more
    THEN Again(c, [r EXCEPT !.after = reply.after, !.pages = IF @ < MaxPages THEN @ ELSE @ - 1])
    ELSE Listed(c, r)

\* A listing that is not complete after the last page is an error, not a short list.
AfterPage(c, r, reply) ==
    IF ~reply.more THEN Listed(c, r)
    ELSE IF r.pages < MaxPages THEN Again(c, [r EXCEPT !.after = reply.after])
    ELSE Return(c, r, "error")

ReceivePage(c) ==
    LET reply == req[c].reply
        page == req[c].pages + 1
    IN  /\ req[c].phase = "list" /\ reply.kind = "ok"
        /\ AfterPage(c, [req[c] EXCEPT !.pages = page,
                                       !.found = @ \cup ({page} \X reply.items)], reply)

\* MAS has revoked it: the next one.
ReceiveRevoked(c) ==
    /\ req[c].phase = "revoke" /\ req[c].reply.kind = "ok"
    /\ \E p \in req[c].found :
          NextFound(req[c].found, p) /\ Sweep(c, [req[c] EXCEPT !.found = @ \ {p}])

Receive(c) ==
    /\ pc[c] = "answer"
    /\ \/ ReceivePage(c)
       \/ ReceiveRevoked(c)
       \/ req[c].phase = "one" /\ req[c].reply.kind = "ok" /\ Return(c, req[c], "ok")
       \/ req[c].reply.kind \in {"refused", "gone"} /\ Return(c, req[c], "error")
    /\ UNCHANGED <<now, server, token, since, faults>>

\* No answer in time, or one that cannot be read; MAS may have done what was asked.
RequestFails(c) ==
    /\ pc[c] \in {"send", "answer"} /\ Fault("fail")
    /\ Return(c, req[c], "error")
    /\ UNCHANGED <<now, server, token, since>>

-----------------------------------------------------------------------------
(* Time and the other clients of MAS *)

Waiting(c) == pc[c] \in {"fetch", "fetched", "send", "answer"}

\* A request that is under way is over, one way or another, when its time is.
Tick ==
    /\ now < MaxNow /\ now' = now + 1
    /\ \A c \in Callers : Waiting(c) => now < req[c].sent + Timeout
    /\ UNCHANGED <<server, token, pc, req, since, faults>>

\* A restart or a change of keys: no token that MAS has issued is good any more.
DropTokens ==
    /\ Fault("drop")
    /\ era' = era + 1
    /\ UNCHANGED <<now, born, live, jobs, token, pc, req, since>>

AddItem(c) ==
    /\ Lists(c) /\ born[c] < MaxItems
    /\ born' = [born EXCEPT ![c] = @ + 1]
    /\ live' = [live EXCEPT ![c] = @ \cup {born[c] + 1}]
    /\ UNCHANGED <<now, era, jobs, token, pc, req, since, faults>>

EndItem(c) ==
    /\ \E i \in live[c] :
          /\ live' = [live EXCEPT ![c] = @ \ {i}]
          /\ since' = [since EXCEPT ![c] = @ \ {i}]
    /\ UNCHANGED <<now, era, born, jobs, token, pc, req, faults>>

Acquire(c) == UseCached(c) \/ FetchToken(c)

Step(c) ==
    \/ IssueToken(c) \/ ReceiveToken(c) \/ FetchFails(c)
    \/ Serve(c) \/ Receive(c) \/ RequestFails(c) \/ Leave(c)

Next ==
    \/ \E c \in Callers : Begin(c) \/ Acquire(c) \/ Step(c) \/ AddItem(c) \/ EndItem(c)
    \/ Tick \/ DropTokens

Spec == Init /\ [][Next]_vars

\* Every request ends, by its timeout at the latest; a Go mutex starves nobody.
FairSpec == Spec /\ \A c \in Callers : SF_vars(Acquire(c)) /\ WF_vars(Step(c))

-----------------------------------------------------------------------------
(* What the client promises its callers *)

\* client.go:414 and 451: while a request is on its way its token has not reached the
\* end MAS set for it, although the token was under way itself, was cached, and the
\* request takes time; so a token that MAS has withdrawn makes calls fail for no longer
\* than its lifetime.  A token too short for the margin is used at once or never.
TokenAlive ==
    \A c \in Callers : pc[c] = "send" =>
        LET t == req[c].token IN
        /\ t.ttl > Margin => now < t.at + t.ttl
        /\ t.ttl <= Margin => now <= t.at + 2 * Timeout

\* client.go:307-345 and service.go:625-647: an operation that succeeds has seen
\* everything that was there when it began, over all pages and while items came and
\* went: a listing has every item that is still active, a sweep leaves none.
Complete ==
    \A c \in Callers : req[c].result = "ok" =>
        /\ req[c].op = "sweep" => since[c] = {}
        /\ req[c].op = "list" => since[c] \subseteq {p[2] : p \in req[c].found}

\* client.go:411-413 and 323: every operation returns: a failed fetch frees the mutex
\* for those who wait, and a server that repeats its links does not hold a listing.
CallsEnd == \A c \in Callers : pc[c] # "idle" ~> pc[c] = "idle"
=============================================================================
