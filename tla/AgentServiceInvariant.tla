----------------------- MODULE AgentServiceInvariant ------------------------
(***************************************************************************)
(* The inductive invariant behind the theorems about AgentService: what    *)
(* holds of the stores, and of an actor at each label.                     *)
(***************************************************************************)
EXTENDS AgentServiceProperties

\* The actor holds the mutex of its agent.
Inside(a) == pc[a] \notin {"idle", "lock", "check"}

\* The actor has a token in its hands that it has not returned yet.
Holding(a) ==
    \/ pc[a] \in {"sync", "revokeOld"}
    \/ pc[a] = "persist" /\ req[a].op \in Issuing

\* No handed-out token of the agent works.
Quiet(n) == \A s \in SessionsOf(n) : s.token \notin confirmed

Emptied(n) == SessionsOf(n) = {}

-----------------------------------------------------------------------------
(* An actor. *)

\* The mutex protects everything below.
Guarded(a) ==
    /\ pc[a] \in {"idle", "check"} => req[a] = NoRequest
    /\ pc[a] \notin {"idle", "check"} => req[a].name \in Names
    /\ Inside(a) => lock[req[a].name] = a

\* Which operations visit a label.
InItsOp(a) ==
    /\ pc[a] \in {"lookup", "admit", "sync", "undoCreate", "undoUser"} => req[a].op = "create"
    /\ pc[a] = "issue" => req[a].op \in Issuing
    /\ pc[a] \in {"revokeOld", "undoNew", "undoRotate", "purge"}
         => req[a].op \in {"rotate", "recover"}
    /\ pc[a] \in {"list", "revokeEach"} => req[a].op \in {"revoke", "deactivate", "remove"}
    /\ pc[a] = "deactivate" => req[a].op \in {"deactivate", "remove"}
    /\ pc[a] = "delete" => req[a].op = "remove"
    /\ pc[a] \in {"upload", "setAvatar", "undoAvatar"} => req[a].op = "avatar"
    /\ pc[a] = "persist" => req[a].op \in {"create", "rotate", "recover", "revoke",
                                           "deactivate", "avatar"}
    /\ pc[a] \in {"clearGet", "clearPut"} => req[a].op \notin {"create", "avatar"}

\* What it read of the Secret is what the Secret still says: edits from outside
\* the process touch metadata only.
Current(a) ==
    /\ pc[a] \in {"lookup", "admit", "issue", "sync", "persist"} /\ req[a].op = "create"
         => secrets[req[a].name] = NoSecret
    /\ pc[a] \in {"issue", "revokeOld", "persist", "list", "revokeEach", "deactivate",
                  "delete", "clearPut", "upload", "setAvatar"} /\ req[a].op # "create"
         => req[a].rec = secrets[req[a].name]
    /\ pc[a] \in {"issue", "revokeOld", "persist"} /\ req[a].op \in {"rotate", "recover"}
         => secrets[req[a].name].status \in {"active", "revoked"}
    /\ pc[a] \in {"upload", "setAvatar", "persist"} /\ req[a].op = "avatar"
         => req[a].rec.status = "active"

\* A token in hand is new, and belongs to the session in hand.
HandOK(a) ==
    Holding(a) =>
        /\ req[a].ses.token \in 1..issued
        /\ req[a].ses.token \notin confirmed
        /\ \A s \in live : s.token = req[a].ses.token =>
              s.owner = req[a].name /\ s.id = req[a].ses.id

HandsDiffer ==
    \A a, b \in Actors :
        Holding(a) /\ Holding(b) /\ req[a].ses.token = req[b].ses.token => a = b

\* Before it changes what the Secret says, the old credential is dead.
Revoked(a) ==
    /\ pc[a] \in {"undoRotate", "clearGet", "clearPut", "purge", "deactivate", "delete"}
         => Quiet(req[a].name)
    /\ pc[a] = "persist" /\ req[a].op \in {"rotate", "recover"} => Quiet(req[a].name)
    /\ pc[a] = "revokeEach" => \A s \in SessionsOf(req[a].name) : s.id \in req[a].todo
    /\ pc[a] \in {"persist", "clearGet", "clearPut", "deactivate", "delete"}
         /\ req[a].op \in {"revoke", "deactivate", "remove"}
         => Emptied(req[a].name)
    /\ pc[a] \in {"persist", "clearGet", "clearPut", "delete"}
         /\ req[a].op \in {"deactivate", "remove"}
         => users[req[a].name] = "deactivated"

ActorOK(a) == Guarded(a) /\ InItsOp(a) /\ Current(a) /\ HandOK(a) /\ Revoked(a)

-----------------------------------------------------------------------------
(* The stores. *)

TokensOK ==
    /\ \A s \in live : s.token \in 1..issued /\ s.id # 0
    /\ confirmed \subseteq 1..issued

\* A name without a Secret has nothing recorded.
AbsentIsEmpty == \A n \in Names : secrets[n].status = "absent" => secrets[n] = NoSecret

IInv ==
    /\ TypeOK
    /\ TokensOK
    /\ NoStrayCredential
    /\ DeactivatedIsDead
    /\ AbsentIsEmpty
    /\ HandsDiffer
    /\ \A a \in Actors : ActorOK(a)

-----------------------------------------------------------------------------
(* What the refinement of AgentLifecycle needs beside it. *)

\* A session that the agent's Secret or an actor refers to is of this agent.
Own(n, id) == id <= issued /\ \A s \in live : s.id = id => s.owner = n

SessionsOwned ==
    /\ \A s \in live : Own(s.owner, s.id)
    /\ \A n \in Names : Own(n, secrets[n].sid)

\* The actor knows sessions of its agent only; what it holds is a session that works,
\* and not the one it revokes.
KnowsOwn(a) ==
    \A id \in {req[a].ses.id, req[a].rec.sid} \cup req[a].todo : Own(req[a].name, id)
HandLive(a) ==
    /\ Holding(a) =>
          [owner |-> req[a].name, id |-> req[a].ses.id, token |-> req[a].ses.token] \in live
    /\ pc[a] = "revokeOld" => req[a].ses.id # req[a].rec.sid

\* An agent that is rotated or revoked is not deactivated meanwhile.
NotRetired(a) ==
    Inside(a) /\ pc[a] # "get" /\ req[a].op \notin {"create", "deactivate", "remove", "avatar"}
      => secrets[req[a].name].status \in {"active", "revoked"}

RInv ==
    /\ IInv /\ SessionsOwned
    /\ \A a \in Actors : KnowsOwn(a) /\ HandLive(a) /\ NotRetired(a)

-----------------------------------------------------------------------------
(* What SettledAgrees needs beside it. *)

\* The three stores say the same of an agent.
Agrees(n) ==
    LET r == secrets[n] IN
    /\ r.status = "active" => [owner |-> n, id |-> r.sid, token |-> r.token] \in live
    /\ r.status # "active" => Emptied(n)
    /\ r.status \in {"deactivated", "absent"} => users[n] # "active"

\* Where an operation has changed nothing yet, and returns without unsettling its agent.
Untouched == {"get", "lookup", "list", "upload"}

Settled(n) ==
    settled[n] /\ (\A a \in Actors : Inside(a) /\ req[a].name = n => pc[a] \in Untouched)
      => Agrees(n)

\* The recorded token works with the recorded session only.
Recorded(n) ==
    /\ secrets[n].token <= issued
    /\ \A s \in live : s.token = secrets[n].token => s.owner = n /\ s.id = secrets[n].sid

\* A homeserver that took the avatar has accepted the recorded token.
Shown(a) ==
    pc[a] = "persist" /\ req[a].op = "avatar" =>
        LET r == req[a].rec
        IN  [owner |-> req[a].name, id |-> r.sid, token |-> r.token] \in live

SInv ==
    /\ RInv
    /\ \A n \in Names : Recorded(n) /\ Settled(n)
    /\ \A a \in Actors : Shown(a)

-----------------------------------------------------------------------------
(* What one failed call leaves behind. *)

\* Nobody gives up or conflicts for nothing: an operation finds its Secret until it
\* deletes it, a clean-up begins after a failure, and Rotate deletes its Secret only
\* after a second one.
Undoing == {"undoCreate", "undoUser", "undoRotate", "undoAvatar", "clearGet", "clearPut"}

Traced(a) ==
    /\ Inside(a) /\ pc[a] \notin {"get", "clearGet", "purge"} /\ req[a].op # "create"
         => secrets[req[a].name] # NoSecret
    /\ Inside(a) /\ pc[a] # "get" /\ a \in stale => "edit" \in Faults /\ faults >= 1
    /\ pc[a] \in Undoing => faults >= 1
    /\ pc[a] = "clearPut" /\ a \in stale => faults >= 2
    /\ pc[a] = "purge" => faults >= 2

\* Create has admitted the account: it is for Create to close it again.
Admits(a) ==
    req[a].op = "create" /\ pc[a] \in {"issue", "sync", "persist", "undoCreate", "undoUser"}

Admitted(a) ==
    Admits(a) /\ pc[a] \in {"issue", "sync", "persist"} => users[req[a].name] = "active"

Managed(n) ==
    users[n] = "active" /\ (\A a \in Actors : Admits(a) => req[a].name # n)
      => secrets[n] # NoSecret

\* SetAvatar has changed the profile, and can change it back.
Shows(a) == req[a].op = "avatar" /\ pc[a] \in {"persist", "undoAvatar"}

CanUndo(a) ==
    Shows(a) =>
        /\ req[a].rec = secrets[req[a].name]
        /\ Accepted(req[a].name, req[a].rec.token)
        /\ pc[a] = "persist" => profile[req[a].name] = req[a].uri

Pictured(n) ==
    secrets[n].avatar # NoAvatar /\ (\A a \in Actors : Shows(a) => req[a].name # n)
      => profile[n] = secrets[n].avatar

KInv ==
    /\ SInv /\ late = {}
    /\ \A a \in Actors : Traced(a)
    /\ faults <= 1 =>
         /\ \A n \in Names : Managed(n) /\ Pictured(n)
         /\ \A a \in Actors : Admitted(a) /\ CanUndo(a)

\* The operation has killed the recorded session, or goes on to write the Secret.
Kills(a) ==
    \/ pc[a] = "persist" /\ req[a].op \in {"rotate", "recover", "revoke"}
    \/ pc[a] \in {"undoRotate", "clearGet", "clearPut"}
    \/ pc[a] = "revokeEach" /\ faults >= 1

Usable(n) ==
    LET r == secrets[n] IN
    /\ r.status = "active" /\ (\A a \in Actors : Kills(a) => req[a].name # n)
         => [owner |-> n, id |-> r.sid, token |-> r.token] \in live
    /\ r.status # "active" => r.sid = 0

\* Before the first failure an agent has one session, the recorded one, besides the
\* one in hand that replaces it.
Replaces(a) == Holding(a) /\ pc[a] # "revokeOld"

Single(n) ==
    faults = 0 =>
        \A s \in SessionsOf(n) :
            \/ s.id = secrets[n].sid /\ (\A a \in Actors : Replaces(a) => req[a].name # n)
            \/ \E a \in Actors : Holding(a) /\ req[a].name = n /\ s.id = req[a].ses.id

\* What the actor is about to revoke is there, and a session that an error path gives
\* up is not the recorded one.
Targets(a) ==
    /\ Admits(a) => secrets[req[a].name] = NoSecret
    /\ pc[a] = "revokeOld" => secrets[req[a].name].sid # 0
    /\ pc[a] = "revokeEach" =>
          /\ \A id \in req[a].todo : \E s \in live : s.id = id
          /\ faults = 0 => req[a].todo \subseteq {secrets[req[a].name].sid}
    /\ pc[a] = "undoNew" => req[a].ses.id # secrets[req[a].name].sid

UInv ==
    /\ KInv
    /\ \A a \in Actors : req[a].op \in Ops \cup {"none"}
    /\ faults <= 1 =>
         /\ \A n \in Names : Usable(n) /\ Single(n)
         /\ \A a \in Actors : Targets(a)
=============================================================================
