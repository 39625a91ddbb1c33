----------------------------- MODULE OIDCLogin -----------------------------
(***************************************************************************)
(* oidcauth and the handlers of httpapi that use it: a login seals a state *)
(* that expires, keeps it in the bounded MemoryStateStore and gives it to  *)
(* the browser in a cookie and in the redirect; a callback has to bring    *)
(* both, opens the state, consumes it and exchanges the code for a session. *)
(* Handlers run concurrently.  The store is locked for each of its calls;  *)
(* the clock is read before the lock is taken.                             *)
(*                                                                         *)
(* Definitions called X_... are wrong variants of X that the properties    *)
(* must tell apart from it; nothing else uses them.                        *)
(***************************************************************************)
EXTENDS Integers, FiniteSets

CONSTANTS
    Requests,       \* handlers running at a time
    Browsers,
    Nobody,
    MaxEntries,     \* the limit of the store
    StateTTL,       \* lifetime of a state, in half seconds
    MaxStates,      \* bound: states sealed
    MaxTime         \* bound: the clock

ASSUME NobodyAssumption == Nobody \notin Browsers
ASSUME StoreAssumption == MaxEntries \in Nat \ {0}
ASSUME LifetimeAssumption == StateTTL \in Nat \ {0}
ASSUME BoundAssumption == MaxStates \in Nat /\ MaxTime \in Nat

VARIABLES
    now,        \* half seconds
    sealed,     \* states sealed so far
    expiry,     \* when each expires, as the store has it
    entries,    \* the states in the store
    owner,      \* the browser each state was given to
    cookie,     \* the state cookie each browser got last, 0 for none
    session,    \* its session cookie: the state it logged in with, 0 for none
    pc, req,    \* where each handler is, and its local variables
    used,       \* history: exchanges made with each state
    forgotten   \* history: states sealed before a restart

browsers == <<owner, cookie, session>>
handlers == <<pc, req>>
vars == <<now, sealed, expiry, entries, owner, cookie, session, pc, req, used, forgotten>>

States == 1..MaxStates
NoRequest == [browser |-> Nobody, state |-> 0, clock |-> 0]
Labels == {"idle", "put", "store", "redirect", "open", "opened", "consume", "exchange",
           "granted", "denied"}

TypeOK ==
    /\ now \in Nat
    /\ sealed \in 0..MaxStates
    /\ expiry \in [States -> Nat]
    /\ entries \subseteq States
    /\ owner \in [States -> Browsers \cup {Nobody}]
    /\ cookie \in [Browsers -> States \cup {0}]
    /\ session \in [Browsers -> States \cup {0}]
    /\ pc \in [Requests -> Labels]
    /\ req \in [Requests -> [browser : Browsers \cup {Nobody}, state : States \cup {0},
                             clock : Nat]]
    /\ used \in [States -> Nat]
    /\ forgotten \subseteq States

Init ==
    /\ now = 0 /\ sealed = 0 /\ entries = {} /\ forgotten = {}
    /\ expiry = [s \in States |-> 0]
    /\ owner = [s \in States |-> Nobody]
    /\ cookie = [b \in Browsers |-> 0]
    /\ session = [b \in Browsers |-> 0]
    /\ pc = [r \in Requests |-> "idle"]
    /\ req = [r \in Requests |-> NoRequest]
    /\ used = [s \in States |-> 0]

Goto(r, label) == pc' = [pc EXCEPT ![r] = label] /\ UNCHANGED req

\* The handler answers.
Finish(r) == pc' = [pc EXCEPT ![r] = "idle"] /\ req' = [req EXCEPT ![r] = NoRequest]

\* A sealed value keeps whole seconds only.
Sealed(t) == t - (t % 2)

\* Codec.Open accepts what was sealed to expire at t.
Opens(t) == Sealed(t) > now

-----------------------------------------------------------------------------
(* MemoryStateStore *)

Kept_All(clock) == entries

Kept_Expired(clock) == {s \in entries : expiry[s] <= clock}

\* pruneExpired
Kept(clock) == {s \in entries : expiry[s] > clock}

Full_Over(kept) == Cardinality(kept) > MaxEntries

Full(kept) == Cardinality(kept) >= MaxEntries

Put(s, clock, Ok, Err) ==
    /\ entries' = Kept(clock) \cup (IF Full(Kept(clock)) THEN {} ELSE {s})
    /\ IF Full(Kept(clock)) THEN Err ELSE Ok

Consume_Keeps(s, clock, Ok, Err) ==
    /\ UNCHANGED entries
    /\ IF s \in entries /\ expiry[s] > clock THEN Ok ELSE Err

Consume(s, clock, Ok, Err) ==
    /\ entries' = entries \ {s}
    /\ IF s \in entries /\ expiry[s] > clock THEN Ok ELSE Err

-----------------------------------------------------------------------------
(* login *)

Expires_Before(t) == t - StateTTL

Expires(t) == t + StateTTL

\* sealState: a state that nobody has seen.
Seal(r) ==
    /\ pc[r] = "idle" /\ sealed < MaxStates
    /\ \E b \in Browsers :
          req' = [req EXCEPT ![r] = [NoRequest EXCEPT !.browser = b, !.state = sealed + 1]]
    /\ pc' = [pc EXCEPT ![r] = "put"]
    /\ sealed' = sealed + 1
    /\ expiry' = [expiry EXCEPT ![sealed + 1] = Expires(now)]
    /\ UNCHANGED <<now, entries, browsers, used, forgotten>>

\* Put refuses a state that has expired already; Consume is given the time.
ReadClock(r) ==
    /\ \/ pc[r] = "put" /\ expiry[req[r].state] <= now /\ Finish(r)
       \/ /\ \/ /\ pc[r] = "put" /\ expiry[req[r].state] > now
                /\ pc' = [pc EXCEPT ![r] = "store"]
             \/ pc[r] = "opened" /\ pc' = [pc EXCEPT ![r] = "consume"]
          /\ req' = [req EXCEPT ![r].clock = now]
    /\ UNCHANGED <<now, sealed, expiry, entries, browsers, used, forgotten>>

StoreState(r) ==
    /\ pc[r] = "store"
    /\ Put(req[r].state, req[r].clock, Goto(r, "redirect"), Finish(r))
    /\ UNCHANGED <<now, sealed, expiry, browsers, used, forgotten>>

Redirect(r) ==
    /\ pc[r] = "redirect"
    /\ owner' = [owner EXCEPT ![req[r].state] = req[r].browser]
    /\ cookie' = [cookie EXCEPT ![req[r].browser] = req[r].state]
    /\ Finish(r)
    /\ UNCHANGED <<now, sealed, expiry, entries, session, used, forgotten>>

-----------------------------------------------------------------------------
(* callback *)

Matches_Any(b, s) == cookie[b] # 0

Matches(b, s) == cookie[b] = s

\* The issuer sends some browser back, perhaps twice, or with an error.
Callback(r) ==
    /\ pc[r] = "idle"
    /\ \E b \in Browsers, s \in States :
          /\ owner[s] # Nobody
          /\ req' = [req EXCEPT ![r] = [NoRequest EXCEPT !.browser = b, !.state = s]]
          /\ \/ Matches(b, s) /\ pc' = [pc EXCEPT ![r] = "open"]
             \/ pc' = [pc EXCEPT ![r] = "denied"]
    /\ UNCHANGED <<now, sealed, expiry, entries, browsers, used, forgotten>>

OpenState(r) ==
    /\ pc[r] = "open"
    /\ Goto(r, IF Opens(expiry[req[r].state]) THEN "opened" ELSE "denied")
    /\ UNCHANGED <<now, sealed, expiry, entries, browsers, used, forgotten>>

ConsumeState(r) ==
    /\ pc[r] = "consume"
    /\ LET s == req[r].state
       IN  Consume(s, req[r].clock,
                   Goto(r, "exchange") /\ used' = [used EXCEPT ![s] = @ + 1],
                   Goto(r, "denied") /\ UNCHANGED used)
    /\ UNCHANGED <<now, sealed, expiry, browsers, forgotten>>

\* The code, the ID token and its roles are in order, and a session is sealed; or not.
Exchange(r) ==
    /\ pc[r] = "exchange"
    /\ Goto(r, "granted") \/ Goto(r, "denied")
    /\ UNCHANGED <<now, sealed, expiry, entries, browsers, used, forgotten>>

\* Every answer to a callback clears the state cookie.
Respond(r) ==
    /\ pc[r] \in {"granted", "denied"}
    /\ LET b == req[r].browser
       IN  /\ cookie' = [cookie EXCEPT ![b] = 0]
           /\ session' = IF pc[r] = "granted"
                         THEN [session EXCEPT ![b] = req[r].state] ELSE session
    /\ Finish(r)
    /\ UNCHANGED <<now, sealed, expiry, entries, owner, used, forgotten>>

-----------------------------------------------------------------------------

Logout(b) ==
    /\ session[b] # 0 /\ session' = [session EXCEPT ![b] = 0]
    /\ UNCHANGED <<now, sealed, expiry, entries, owner, cookie, handlers, used, forgotten>>

Tick ==
    /\ now < MaxTime /\ now' = now + 1
    /\ UNCHANGED <<sealed, expiry, entries, browsers, handlers, used, forgotten>>

\* The store is lost; the key that seals states and sessions is not.
Restart ==
    /\ entries' = {} /\ forgotten' = 1..sealed
    /\ pc' = [r \in Requests |-> "idle"] /\ req' = [r \in Requests |-> NoRequest]
    /\ UNCHANGED <<now, sealed, expiry, browsers, used>>

Handle(r) ==
    \/ Seal(r) \/ ReadClock(r) \/ StoreState(r) \/ Redirect(r)
    \/ Callback(r) \/ OpenState(r) \/ ConsumeState(r) \/ Exchange(r) \/ Respond(r)

Next ==
    \/ \E r \in Requests : Handle(r)
    \/ \E b \in Browsers : Logout(b)
    \/ Tick \/ Restart

Spec == Init /\ [][Next]_vars

-----------------------------------------------------------------------------
(* Properties *)

\* store.go:11, "makes OIDC state single-use": at most one exchange is made with a
\* state, also by callbacks that arrive together, and after a restart.
SingleUse == \A s \in States : used[s] <= 1

\* store.go:19-20, "bounded": abandoned logins, and handlers that waited for the
\* lock with an old time, never bring the store over its limit.
Bounded == Cardinality(entries) <= MaxEntries

\* Making room removes no login that could still be completed: a state that was
\* given to a browser, opens and was not exchanged is in the store, unless the
\* process was restarted.
LiveLoginsKept ==
    \A s \in States \ forgotten :
        owner[s] # Nobody /\ used[s] = 0 /\ Opens(expiry[s]) => s \in entries

\* A browser has a session only by a state that was given to this browser and was
\* exchanged, whatever other logins and callbacks run beside it.
SessionIsOwn ==
    \A b \in Browsers : session[b] # 0 =>
        owner[session[b]] = b /\ used[session[b]] = 1

\* store.go:19-20, "opportunistically removes expired entries": a login is turned
\* away for want of room only if the limit of states, all younger than their
\* lifetime when the handler read the clock, is taken.
FullOfTheLiving ==
    [][\A r \in Requests :
          pc[r] = "store" /\ pc'[r] = "idle" /\ UNCHANGED forgotten
          => Cardinality({s \in entries : expiry[s] > req[r].clock}) >= MaxEntries]_vars

-----------------------------------------------------------------------------
(* The inductive invariant behind SingleUse, Bounded, LiveLoginsKept and   *)
(* SessionIsOwn: what holds of a handler at each label, and of the states. *)

\* The handler made its state, and no browser has it yet.
Making(r) == pc[r] \in {"put", "store", "redirect"}

MakerOK(r) ==
    LET s == req[r].state IN
    /\ Making(r) => /\ s \in 1..sealed /\ req[r].browser \in Browsers
                    /\ owner[s] = Nobody /\ used[s] = 0 /\ s \notin forgotten
    /\ pc[r] \in {"put", "store"} => s \notin entries
    /\ pc[r] = "redirect" /\ Opens(expiry[s]) => s \in entries

MakersDiffer ==
    \A q, r \in Requests : Making(q) /\ Making(r) /\ req[q].state = req[r].state => q = r

\* The handler serves a callback whose cookie matched.
Serving(r) == pc[r] \in {"open", "opened", "consume", "exchange", "granted"}

ServerOK(r) ==
    LET s == req[r].state IN
    /\ Serving(r) => s \in 1..sealed /\ req[r].browser \in Browsers /\ owner[s] = req[r].browser
    /\ pc[r] \in {"exchange", "granted"} => used[s] = 1
    /\ pc[r] = "denied" => req[r].browser \in Browsers

HandlerOK(r) == req[r].clock <= now /\ MakerOK(r) /\ ServerOK(r)

StatesOK ==
    /\ \A s \in States : s > sealed => s \notin entries /\ used[s] = 0 /\ owner[s] = Nobody
    /\ forgotten \subseteq 1..sealed
    /\ \A s \in entries : used[s] = 0
    /\ \A b \in Browsers : cookie[b] # 0 => owner[cookie[b]] = b

IInv ==
    /\ TypeOK /\ SingleUse /\ Bounded /\ LiveLoginsKept /\ SessionIsOwn
    /\ StatesOK /\ MakersDiffer
    /\ \A r \in Requests : HandlerOK(r)
=============================================================================
