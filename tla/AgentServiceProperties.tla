----------------------- MODULE AgentServiceProperties -----------------------
(***************************************************************************)
(* What agents.Service must keep true, across its stores and its failures. *)
(***************************************************************************)
EXTENDS AgentService

\* A token that a Create or Rotate returned works only while the agent's Secret
\* is active and records that very session and token: an operation kills the old
\* credential before the Secret lets go of it (Rotate, Revoke, Remove, and every
\* clean-up after a failure), whatever fails and wherever the process crashes.
NoStrayCredential ==
    \A s \in live : s.token \in confirmed =>
        /\ secrets[s.owner].status = "active"
        /\ secrets[s.owner].sid = s.id
        /\ secrets[s.owner].token = s.token

\* What the last successful operation answered still describes all three stores:
\* an active agent's recorded session works, a revoked one has no session left,
\* and after Deactivate or Remove the MAS account is closed as well.
SettledAgrees ==
    \A n \in Names : settled[n] /\ lock[n] = Nobody =>
        LET r == secrets[n] IN
        /\ r.status = "active" => [owner |-> n, id |-> r.sid, token |-> r.token] \in live
        /\ r.status # "active" => SessionsOf(n) = {}
        /\ r.status \in {"deactivated", "absent"} => users[n] # "active"

\* A Secret that says deactivated is never ahead of MAS: Deactivate and Remove
\* write it, also on their error paths, only after MAS closed every session and
\* the account (service.go: "MAS has already accepted deactivation").
DeactivatedIsDead ==
    \A n \in Names : secrets[n].status = "deactivated" =>
        users[n] = "deactivated" /\ SessionsOf(n) = {}

\* After one failed call and with every operation over, no active MAS account is
\* left without a Secret to manage it: Create undoes the account it admitted, and
\* Rotate, Revoke and Remove keep a Secret behind.
NoOrphan ==
    \A n \in Names : lock[n] = Nobody /\ users[n] = "active" => secrets[n] # NoSecret

\* After one failed call a Secret that is active still holds a working token:
\* Rotate and Revoke undo or clear whatever they had begun.
ActiveIsUsable ==
    \A n \in Names : lock[n] = Nobody /\ secrets[n].status = "active" =>
        [owner |-> n, id |-> secrets[n].sid, token |-> secrets[n].token] \in live

\* After one failed call the avatar a Secret records is the one the homeserver
\* shows: SetAvatar puts the old one back when it cannot record the new one.
AvatarAgrees ==
    \A n \in Names : lock[n] = Nobody /\ secrets[n].avatar # NoAvatar
        /\ secrets[n].status = "active" => profile[n] = secrets[n].avatar

\* service.go:443-446, on an update refused with ErrConflict: "An explicit CAS
\* conflict belongs to another writer, so do not revoke its stable session".  Then,
\* if nothing fails but that update, the session left alone is the one that the
\* other writer's Secret records, and Rotate abandons none.
NoAbandonedSession ==
    \A n \in Names : lock[n] = Nobody =>
        \A s \in SessionsOf(n) : s.id = secrets[n].sid

\* Every request comes to an end: the mutex is released on every path, and the
\* retries of clearTokenMaterial are bounded.
RequestEnds == \A a \in Actors : pc[a] # "idle" ~> pc[a] = "idle"

\* The service implements AgentLifecycle: what the Secrets say, and the tokens
\* handed out that still work.
Credentials(n) == {s.token : s \in {x \in SessionsOf(n) : x.token \in confirmed}}

Lifecycle == INSTANCE AgentLifecycle WITH
    Tokens <- Nat,
    status <- [n \in Names |-> secrets[n].status],
    gen <- [n \in Names |-> secrets[n].gen],
    cred <- [n \in Names |-> Credentials(n)],
    spent <- confirmed

ImplementsLifecycle == Lifecycle!Spec
=============================================================================
