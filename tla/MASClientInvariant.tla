------------------------- MODULE MASClientInvariant -------------------------
(***************************************************************************)
(* What is true of MASClient at every label, strong enough to follow from  *)
(* one step to the next.                                                   *)
(***************************************************************************)
EXTENDS MASClient

\* Who waits for a token has the mutex.
Exclusive(c) == holder = c <=> pc[c] \in {"fetch", "fetched"}

\* A cached token ends no earlier than its request could; a short one is never used.
CacheOK ==
    LET t == cache.token IN
    /\ t.ttl > Margin => cache.expiry + Margin <= t.at + t.ttl + Timeout
    /\ t.ttl <= Margin => cache.expiry <= now

\* Every request is within its time, and left with a token that lasts as long.
Timed(c) ==
    LET t == req[c].token
        sent == req[c].sent
    IN  /\ pc[c] \in {"fetch", "fetched", "send"} => sent <= now /\ now <= sent + Timeout
        /\ pc[c] = "fetched" => sent <= t.at /\ t.at <= now
        /\ pc[c] = "send" /\ t.ttl > Margin => sent + Timeout < t.at + t.ttl
        /\ pc[c] = "send" /\ t.ttl <= Margin => sent <= t.at + Timeout

\* Which operation is in which phase at which label.
InPhase(c) ==
    LET r == req[c] IN
    /\ r.phase = "none" <=> pc[c] \in {"idle", "done"}
    /\ r.phase = "one" => r.op = "one"
    /\ r.phase = "list" => r.op \in {"list", "sweep"} /\ r.pages < MaxPages
    /\ r.phase = "revoke" => r.op = "sweep"
    /\ pc[c] # "done" => r.result = "none"

Found(f) == {p[2] : p \in f}

\* Of the items that were there from the beginning, a listing has found those up to
\* its cursor, the answer on its way brings those up to the next, and a sweep has
\* revoked those it no longer holds.
Covered(c) ==
    LET r == req[c] IN
    /\ since[c] \subseteq live[c]
    /\ r.phase = "list" => \A i \in since[c] : i <= r.after => i \in Found(r.found)
    /\ r.phase = "list" /\ pc[c] = "answer" /\ r.reply.kind = "ok" =>
          \A i \in since[c] : i > r.after =>
             i \in r.reply.items \/ (r.reply.more /\ i > r.reply.after)
    /\ r.phase = "revoke" => since[c] \subseteq Found(r.found)
    /\ r.phase = "revoke" /\ pc[c] = "answer" /\ r.reply.kind = "ok" =>
          \A p \in r.found : NextFound(r.found, p) => p[2] \notin since[c]

CallerOK(c) == Exclusive(c) /\ Timed(c) /\ InPhase(c) /\ Covered(c)

IInv == TypeOK /\ CacheOK /\ (\A c \in Callers : CallerOK(c)) /\ Complete
=============================================================================
