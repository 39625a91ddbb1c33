---------------------------- MODULE AgentService ----------------------------
(***************************************************************************)
(* agents.Service: the lifecycle of named Matrix agents.  An operation     *)
(* takes the agent's in-process mutex and then makes a sequence of calls   *)
(* to three stores that share no transaction: the Matrix Authentication    *)
(* Service (users and personal sessions), the homeserver (profile) and the *)
(* Kubernetes API (one Secret per agent).  Every call may fail, or take    *)
(* effect and lose its answer; the process may crash between two calls.    *)
(* One action below is one call together with the code up to the next one. *)
(*                                                                         *)
(* Definitions called X_... are wrong variants of X that the properties    *)
(* must tell apart from it; nothing else uses them.                        *)
(***************************************************************************)
EXTENDS Integers, FiniteSets

CONSTANTS
    Names,          \* agent names; the MAS user of an agent has the same name
    Locked,         \* names whose MAS account an administrator has locked
    Actors,         \* HTTP requests and operator passes running at a time
    Nobody,         \* no actor, no name
    Avatars,        \* mxc:// URIs an upload may return
    NoAvatar,
    Ops,            \* the operations in play
    DeviceScoped,   \* TokenScope contains {device_id}
    Faults,         \* the kinds of failure in play
    MaxFaults,      \* bound: failures in one behaviour
    MaxIssued       \* bound: session IDs and tokens MAS issues

Operations == {"create", "rotate", "recover", "revoke", "deactivate", "remove", "avatar"}
FaultKinds == {"fail", "lost", "blank", "swap", "expire", "crash", "edit"}

ASSUME NullAssumption == Nobody \notin Names \cup Actors /\ NoAvatar \notin Avatars
ASSUME OpsAssumption == Ops \subseteq Operations /\ Faults \subseteq FaultKinds
ASSUME BoundAssumption == MaxFaults \in Nat /\ MaxIssued \in Nat
ASSUME ConfigAssumption == DeviceScoped \in BOOLEAN /\ Locked \subseteq Names

VARIABLES
    users,      \* MAS: the account of each name
    live,       \* MAS: the personal sessions that are not revoked
    issued,     \* MAS: IDs and tokens issued so far
    profile,    \* homeserver: the avatar of each user
    secrets,    \* Kubernetes: the agent Secrets
    stale,      \* actors whose copy of a Secret has an old resourceVersion
    pc, req,    \* where each actor is, and its local variables
    late,       \* actors whose request context has expired
    lock,       \* holder of each agent's mutex
    settled,    \* the last operation to change the agent ended in success
    confirmed,  \* tokens a Create or Rotate that succeeded stored and returned
    faults      \* failures so far

world == <<users, live, issued, profile, secrets, stale>>
process == <<pc, req, late, lock, settled, confirmed>>
vars == <<users, live, issued, profile, secrets, stale, pc, req, late, lock,
          settled, confirmed, faults>>

Accounts == {"none", "active", "deactivated"}
Statuses == {"absent", "active", "revoked", "deactivated"}
Images == Avatars \cup {NoAvatar}

\* SecretRecord; 0 stands for an empty session ID or token.
Records == [status : Statuses, sid : Nat, token : Nat, gen : Nat, avatar : Images]
NoSecret == [status |-> "absent", sid |-> 0, token |-> 0, gen |-> 0, avatar |-> NoAvatar]
Sessions == [owner : Names, id : Nat, token : Nat]
NoSession == [id |-> 0, token |-> 0]

Labels == {"idle", "lock", "get", "lookup", "admit", "issue", "sync", "revokeOld",
           "persist", "undoCreate", "undoUser", "undoNew", "undoRotate", "list",
           "revokeEach", "deactivate", "delete", "clearGet", "clearPut", "purge",
           "upload", "setAvatar", "undoAvatar", "check"}
Requests == [op : Operations \cup {"none"}, name : Names \cup {Nobody}, rec : Records,
             ses : [id : Nat, token : Nat], todo : SUBSET Nat, tries : 0..2, uri : Images]
NoRequest == [op |-> "none", name |-> Nobody, rec |-> NoSecret, ses |-> NoSession,
              todo |-> {}, tries |-> 0, uri |-> NoAvatar]

TypeOK ==
    /\ users \in [Names -> Accounts]
    /\ live \subseteq Sessions
    /\ issued \in Nat
    /\ profile \in [Names -> Images]
    /\ secrets \in [Names -> Records]
    /\ stale \subseteq Actors
    /\ pc \in [Actors -> Labels]
    /\ req \in [Actors -> Requests]
    /\ late \subseteq Actors
    /\ lock \in [Names -> Actors \cup {Nobody}]
    /\ settled \in [Names -> BOOLEAN]
    /\ confirmed \subseteq Nat
    /\ faults \in Nat

-----------------------------------------------------------------------------
(* Failures, and calls that may fail. *)

NoFault == UNCHANGED faults
Fault(kind) == kind \in Faults /\ faults < MaxFaults /\ faults' = faults + 1

SameMAS == UNCHANGED <<users, live, issued>>
SameSecrets == UNCHANGED <<secrets, stale>>

\* A call to another service.  It answers an error when its precondition is
\* false, when the context has expired (then it is not even sent), or when the
\* network fails; and its effect may stand although its answer is lost.
Call(a, Pre, Effect, Ok, Err) ==
    \/ /\ a \notin late /\ Pre
       /\ Effect
       /\ \/ NoFault /\ Ok
          \/ Fault("lost") /\ Err
    \/ /\ UNCHANGED world
       /\ \/ (a \in late \/ ~Pre) /\ NoFault
          \/ a \notin late /\ Fault("fail")
       /\ Err

\* A call that only reads.
Ask(a, Ok, Err) ==
    /\ UNCHANGED <<users, live, issued, profile, secrets>>
    /\ \/ a \notin late /\ NoFault /\ Ok
       \/ a \in late /\ NoFault /\ Err
       \/ a \notin late /\ Fault("fail") /\ Err

-----------------------------------------------------------------------------
(* Control: the next label, and the ways an operation returns. *)

Move(a, label, r) ==
    /\ pc' = [pc EXCEPT ![a] = label]
    /\ req' = [req EXCEPT ![a] = r]
    /\ UNCHANGED <<late, lock, settled, confirmed>>

Goto(a, label) == Move(a, label, req[a])

Leave_KeepsLock(a, label) == Move(a, label, NoRequest)

\* withAgentLock's deferred Unlock: the operation is over.
Leave(a, label) ==
    /\ pc' = [pc EXCEPT ![a] = label]
    /\ req' = [req EXCEPT ![a] = NoRequest]
    /\ late' = late \ {a}
    /\ lock' = [lock EXCEPT ![req[a].name] = Nobody]

\* Return before anything was changed.
ReturnUnchanged(a) == Leave(a, "idle") /\ UNCHANGED <<settled, confirmed>>

Return(a, ok) ==
    /\ Leave(a, "idle")
    /\ settled' = [settled EXCEPT ![req[a].name] = ok]
    /\ UNCHANGED confirmed

\* Return the one-time token; Recover goes on, without the lock, to CheckDevice.
ReturnToken(a) ==
    /\ Leave(a, IF req[a].op = "recover" THEN "check" ELSE "idle")
    /\ settled' = [settled EXCEPT ![req[a].name] = TRUE]
    /\ confirmed' = confirmed \cup {req[a].ses.token}

-----------------------------------------------------------------------------
(* The Secret backend. *)

Readers(n) == {b \in Actors : req[b].name = n /\ req[b].rec # NoSecret}

\* Every write of a Secret moves its resourceVersion under the other readers.
Put(a, n, r) ==
    /\ secrets' = [secrets EXCEPT ![n] = r]
    /\ stale' = stale \cup (Readers(n) \ {a})
    /\ UNCHANGED <<users, live, issued, profile>>

GetAgent(a, Ok, Err) == Ask(a, Ok, Err) /\ stale' = stale \ {a}

CreateAgent(a, r, Ok, Err) ==
    LET n == req[a].name
    IN  Call(a, secrets[n] = NoSecret, Put(a, n, r), Ok, Err)

\* Read, compare resourceVersion, write.  The comparison reports ErrConflict; an
\* edit that lands between the read and the write is refused by the API server
\* and comes back as an ordinary error.
UpdateAgent(a, r, Ok, Conflict, Err) ==
    LET n == req[a].name
    IN  \/ Call(a, secrets[n] # NoSecret /\ a \notin stale, Put(a, n, r), Ok, Err)
        \/ /\ secrets[n] # NoSecret /\ a \in stale /\ a \notin late
           /\ UNCHANGED world /\ NoFault
           /\ Conflict

DeleteAgent(a, Ok, Err) ==
    LET n == req[a].name
    IN  Call(a, secrets[n] # NoSecret, Put(a, n, NoSecret), Ok, Err)

-----------------------------------------------------------------------------
(* MAS and the homeserver. *)

SetUser(n, account) ==
    /\ users' = [users EXCEPT ![n] = account]
    /\ UNCHANGED <<live, issued, profile>> /\ SameSecrets

\* MAS answers 409 for a session that is already revoked.
RevokePersonalSession(a, id, Ok, Err) ==
    Call(a, \E s \in live : s.id = id,
         /\ live' = {s \in live : s.id # id}
         /\ UNCHANGED <<users, issued, profile>> /\ SameSecrets,
         Ok, Err)

\* DeleteUser deactivates: MAS keeps the account.
DeactivateMASUser(a, Ok, Err) ==
    Call(a, TRUE, SetUser(req[a].name, "deactivated"), Ok, Err)

Issue(s, kept) ==
    /\ live' = kept \cup {s}
    /\ issued' = issued + 1
    /\ UNCHANGED <<users, profile>> /\ SameSecrets

SessionsOf(n) == {s \in live : s.owner = n}

\* The homeserver accepts the access token in the actor's hands.
Accepted(n, token) == \E s \in SessionsOf(n) : s.token = token /\ users[n] = "active"

SetProfile(a, uri, Ok, Err) ==
    LET n == req[a].name
    IN  Call(a, Accepted(n, req[a].rec.token),
             /\ profile' = [profile EXCEPT ![n] = uri]
             /\ SameMAS /\ SameSecrets,
             Ok, Err)

-----------------------------------------------------------------------------
(* Every operation: a request, the mutex, and the Secret it starts from. *)

Init ==
    /\ users \in [Names -> {"none", "deactivated"}]
    /\ live = {}
    /\ issued = 0
    /\ profile = [n \in Names |-> NoAvatar]
    /\ secrets = [n \in Names |-> NoSecret]
    /\ stale = {}
    /\ pc = [a \in Actors |-> "idle"]
    /\ req = [a \in Actors |-> NoRequest]
    /\ late = {}
    /\ lock = [n \in Names |-> Nobody]
    /\ settled = [n \in Names |-> TRUE]
    /\ confirmed = {}
    /\ faults = 0

Issuing == {"create", "rotate", "recover"}
InFlight == {a \in Actors : req[a].op \in Issuing}

\* The bound on issued is a bound on the requests, never on their steps.
Start(a) ==
    /\ pc[a] = "idle"
    /\ \E op \in Ops, n \in Names :
          /\ op \in Issuing => issued + Cardinality(InFlight) < MaxIssued
          /\ Move(a, "lock", [NoRequest EXCEPT !.op = op, !.name = n])
    /\ UNCHANGED world /\ NoFault

Acquire_NoMutex(a) ==
    /\ pc[a] = "lock" /\ Goto(a, "get")
    /\ UNCHANGED world /\ NoFault

Acquire(a) ==
    /\ pc[a] = "lock"
    /\ lock[req[a].name] = Nobody
    /\ lock' = [lock EXCEPT ![req[a].name] = a]
    /\ pc' = [pc EXCEPT ![a] = "get"]
    /\ UNCHANGED <<world, req, late, settled, confirmed>> /\ NoFault

Entry_RevokesNothing(op, status) ==
    CASE op = "create" /\ status = "absent" -> "lookup"
      [] op = "revoke" /\ status = "active" -> "persist"
      [] OTHER -> "return"

\* Where each operation goes from the status it read; "return" is an early return.
Entry(op, status) ==
    CASE op = "create" /\ status = "absent" -> "lookup"
      [] op \in {"rotate", "recover"} /\ status \in {"active", "revoked"} -> "issue"
      [] op \in {"revoke", "deactivate", "remove"} /\ status \in {"active", "revoked"} -> "list"
      [] op = "remove" /\ status = "deactivated" -> "delete"
      [] op = "avatar" /\ status = "active" -> "upload"
      [] OTHER -> "return"

ReadSecret(a) ==
    /\ pc[a] = "get"
    /\ LET r == secrets[req[a].name]
           next == Entry(req[a].op, r.status)
       IN  GetAgent(a,
                IF next = "return" THEN ReturnUnchanged(a)
                                   ELSE Move(a, next, [req[a] EXCEPT !.rec = r]),
                ReturnUnchanged(a))

-----------------------------------------------------------------------------
(* Create *)

LookupUser(a) ==
    /\ pc[a] = "lookup"
    /\ LET n == req[a].name
           free == users[n] = "none" \/ (users[n] = "deactivated" /\ n \notin Locked)
       IN  Ask(a, IF free THEN Goto(a, "admit") ELSE ReturnUnchanged(a), ReturnUnchanged(a))
    /\ UNCHANGED stale

\* CreateUser, or ReactivateUser when the account was deactivated before.
AdmitUser(a) ==
    /\ pc[a] = "admit"
    /\ Call(a, TRUE, SetUser(req[a].name, "active"), Goto(a, "issue"), Return(a, FALSE))

IssueForCreate(a) ==
    /\ pc[a] = "issue" /\ req[a].op = "create"
    /\ LET n == req[a].name
           i == issued + 1
           s == [owner |-> n, id |-> i, token |-> i]
           InHand(id, token) == [req[a] EXCEPT !.ses = [id |-> id, token |-> token]]
       IN  \/ Call(a, users[n] = "active", Issue(s, live),
                   Move(a, "sync", InHand(i, i)), Goto(a, "undoUser"))
           \/ /\ a \notin late /\ Issue(s, live) /\ Fault("blank")
              /\ \/ Move(a, "undoCreate", InHand(i, 0))
                 \/ Goto(a, "undoUser")

SyncProfile(a) ==
    /\ pc[a] = "sync"
    /\ Call(a, Accepted(req[a].name, req[a].ses.token), UNCHANGED world,
            Goto(a, "persist"), Goto(a, "undoCreate"))

PersistCreated(a) ==
    /\ pc[a] = "persist" /\ req[a].op = "create"
    /\ CreateAgent(a, [status |-> "active", sid |-> req[a].ses.id, token |-> req[a].ses.token,
                       gen |-> 1, avatar |-> NoAvatar],
                   ReturnToken(a), Goto(a, "undoCreate"))

UndoCreate_KeepsUser(a) ==
    /\ pc[a] = "undoCreate"
    /\ RevokePersonalSession(a, req[a].ses.id, Return(a, FALSE), Return(a, FALSE))

\* cleanupProvisionedUser: revoke the session, then delete the user, both best effort.
UndoCreate(a) ==
    \/ /\ pc[a] = "undoCreate"
       /\ RevokePersonalSession(a, req[a].ses.id, Goto(a, "undoUser"), Goto(a, "undoUser"))
    \/ /\ pc[a] = "undoUser"
       /\ DeactivateMASUser(a, Return(a, FALSE), Return(a, FALSE))

-----------------------------------------------------------------------------
(* Rotate, and Recover which begins with it *)

Regenerated(a) == req[a].rec.status = "active" /\ req[a].rec.sid # 0 /\ ~DeviceScoped

\* RegeneratePersonalSession keeps the session and replaces its token;
\* CreatePersonalSession adds a session beside the recorded one.
IssueForRotate(a) ==
    /\ pc[a] = "issue" /\ req[a].op \in {"rotate", "recover"}
    /\ LET n == req[a].name
           old == req[a].rec.sid
           id == IF Regenerated(a) THEN old ELSE issued + 1
           kept == {s \in live : s.id # id}
           s == [owner |-> n, id |-> id, token |-> issued + 1]
           InHand(i, token) == [req[a] EXCEPT !.ses = [id |-> i, token |-> token]]
           Possible == IF Regenerated(a) THEN \E x \in live : x.id = old
                                         ELSE users[n] = "active"
       IN  \/ Call(a, Possible, Issue(s, kept),
                   Move(a, IF Regenerated(a) \/ old = 0 THEN "persist" ELSE "revokeOld",
                        InHand(id, issued + 1)),
                   Return(a, FALSE))
           \/ /\ a \notin late /\ Possible /\ Issue(s, kept) /\ Fault("blank")
              /\ \/ Move(a, IF Regenerated(a) THEN "undoRotate" ELSE "undoNew", InHand(id, 0))
                 \/ Regenerated(a) /\ Goto(a, "clearGet")
                 \/ ~Regenerated(a) /\ Return(a, FALSE)
           \/ /\ a \notin late /\ Possible /\ Regenerated(a) /\ Fault("swap")
              /\ Issue([s EXCEPT !.id = issued + 1], kept)
              /\ Return(a, FALSE)

RevokeOld_Skipped(a) ==
    pc[a] = "revokeOld" /\ Goto(a, "persist") /\ UNCHANGED world /\ NoFault

RevokeOld(a) ==
    /\ pc[a] = "revokeOld"
    /\ RevokePersonalSession(a, req[a].rec.sid, Goto(a, "persist"), Goto(a, "undoNew"))

Rotated_KeepsGeneration(a) ==
    [req[a].rec EXCEPT !.sid = req[a].ses.id, !.token = req[a].ses.token, !.status = "active"]

Rotated(a) ==
    [req[a].rec EXCEPT !.sid = req[a].ses.id, !.token = req[a].ses.token,
                       !.gen = @ + 1, !.status = "active"]

PersistRotated_IgnoresConflict(a) ==
    /\ pc[a] = "persist" /\ req[a].op \in {"rotate", "recover"}
    /\ UpdateAgent(a, Rotated(a), ReturnToken(a), ReturnToken(a), Goto(a, "undoRotate"))

PersistRotated_KeepsToken(a) ==
    /\ pc[a] = "persist" /\ req[a].op \in {"rotate", "recover"}
    /\ UpdateAgent(a, Rotated(a), ReturnToken(a), Return(a, FALSE), Goto(a, "undoNew"))

\* After ErrConflict the new session is left alone.
PersistRotated(a) ==
    /\ pc[a] = "persist" /\ req[a].op \in {"rotate", "recover"}
    /\ UpdateAgent(a, Rotated(a), ReturnToken(a), Return(a, FALSE), Goto(a, "undoRotate"))

UndoRotate(a) ==
    \/ /\ pc[a] = "undoNew"
       /\ RevokePersonalSession(a, req[a].ses.id, Return(a, FALSE), Return(a, FALSE))
    \/ /\ pc[a] = "undoRotate"
       /\ RevokePersonalSession(a, req[a].ses.id, Goto(a, "clearGet"), Goto(a, "clearGet"))

\* Recover's last call, made after Rotate has returned; its error undoes nothing.
CheckDevice(a) ==
    /\ pc[a] = "check"
    /\ Goto(a, "idle")
    /\ UNCHANGED world /\ NoFault

-----------------------------------------------------------------------------
(* Revoke, Deactivate, Remove *)

AfterRevoke_KeepsAccount(op) == "persist"

AfterRevoke(op) == IF op = "revoke" THEN "persist" ELSE "deactivate"

\* ListPersonalSessions answers every active session of the user, or an error.
ListSessions(a) ==
    /\ pc[a] = "list"
    /\ LET ids == {s.id : s \in SessionsOf(req[a].name)}
       IN  Ask(a, Move(a, IF ids = {} THEN AfterRevoke(req[a].op) ELSE "revokeEach",
                       [req[a] EXCEPT !.todo = ids]),
               ReturnUnchanged(a))
    /\ UNCHANGED stale

RevokeEach(a) ==
    /\ pc[a] = "revokeEach"
    /\ \E id \in req[a].todo :
          LET rest == req[a].todo \ {id}
          IN  RevokePersonalSession(a, id,
                  Move(a, IF rest = {} THEN AfterRevoke(req[a].op) ELSE "revokeEach",
                       [req[a] EXCEPT !.todo = rest]),
                  Return(a, FALSE))

DeactivateUser(a) ==
    /\ pc[a] = "deactivate"
    /\ DeactivateMASUser(a, Goto(a, IF req[a].op = "remove" THEN "delete" ELSE "persist"),
                         Return(a, FALSE))

FinalStatus_Removed(op) == IF op \in {"deactivate", "remove"} THEN "removed" ELSE "revoked"

FinalStatus_AlwaysDeactivated(op) == "deactivated"

\* The status an operation leaves when it takes the token material out.
FinalStatus(op) == IF op \in {"deactivate", "remove"} THEN "deactivated" ELSE "revoked"

Cleared(r, status) == [r EXCEPT !.sid = 0, !.token = 0, !.status = status]

PersistCleared(a) ==
    /\ pc[a] = "persist" /\ req[a].op \in {"revoke", "deactivate"}
    /\ UpdateAgent(a, Cleared(req[a].rec, FinalStatus(req[a].op)),
                   Return(a, TRUE), Goto(a, "clearGet"), Goto(a, "clearGet"))

DeleteSecret(a) ==
    /\ pc[a] = "delete"
    /\ DeleteAgent(a, Return(a, TRUE),
                   IF req[a].rec.status = "deactivated" THEN Return(a, FALSE)
                                                        ELSE Goto(a, "clearGet"))

-----------------------------------------------------------------------------
(* clearTokenMaterial: a fresh read and a write, at most three times *)

\* Rotate deletes the Secret when it cannot take the token out of it.
ClearFailed(a) ==
    IF req[a].op \in Issuing THEN Goto(a, "purge") ELSE Return(a, FALSE)

ClearRead(a) ==
    /\ pc[a] = "clearGet"
    /\ LET r == secrets[req[a].name]
       IN  GetAgent(a, IF r = NoSecret THEN Return(a, FALSE)
                                       ELSE Move(a, "clearPut", [req[a] EXCEPT !.rec = r]),
                    ClearFailed(a))

ClearWrite(a) ==
    /\ pc[a] = "clearPut"
    /\ UpdateAgent(a, Cleared(req[a].rec, FinalStatus(req[a].op)),
                   Return(a, FALSE),
                   IF req[a].tries < 2
                     THEN Move(a, "clearGet", [req[a] EXCEPT !.tries = @ + 1])
                     ELSE ClearFailed(a),
                   ClearFailed(a))

Purge(a) ==
    /\ pc[a] = "purge"
    /\ DeleteAgent(a, Return(a, FALSE), Return(a, FALSE))

-----------------------------------------------------------------------------
(* SetAvatar *)

UploadAvatar(a) ==
    /\ pc[a] = "upload"
    /\ Call(a, Accepted(req[a].name, req[a].rec.token), UNCHANGED world,
            \E uri \in Avatars : Move(a, "setAvatar", [req[a] EXCEPT !.uri = uri]),
            ReturnUnchanged(a))

SetAvatarURL(a) ==
    /\ pc[a] = "setAvatar"
    /\ SetProfile(a, req[a].uri, Goto(a, "persist"), Return(a, FALSE))

PersistAvatar_NoUndo(a) ==
    /\ pc[a] = "persist" /\ req[a].op = "avatar"
    /\ UpdateAgent(a, [req[a].rec EXCEPT !.avatar = req[a].uri],
                   Return(a, TRUE), Return(a, FALSE), Return(a, FALSE))

PersistAvatar(a) ==
    /\ pc[a] = "persist" /\ req[a].op = "avatar"
    /\ UpdateAgent(a, [req[a].rec EXCEPT !.avatar = req[a].uri],
                   Return(a, TRUE), Goto(a, "undoAvatar"), Goto(a, "undoAvatar"))

UndoAvatar(a) ==
    /\ pc[a] = "undoAvatar"
    /\ SetProfile(a, req[a].rec.avatar, Return(a, FALSE), Return(a, FALSE))

-----------------------------------------------------------------------------
(* What happens around the operations *)

\* The 90 seconds of httpapi's mutationContext are over.
Expire(a) ==
    /\ pc[a] \notin {"idle", "check"} /\ a \notin late
    /\ Fault("expire")
    /\ late' = late \cup {a}
    /\ UNCHANGED <<world, pc, req, lock, settled, confirmed>>

\* The single replica stops: the requests and the mutexes are gone.
Crash ==
    /\ \E a \in Actors : pc[a] # "idle"
    /\ Fault("crash")
    /\ pc' = [a \in Actors |-> "idle"]
    /\ req' = [a \in Actors |-> NoRequest]
    /\ late' = {} /\ stale' = {}
    /\ lock' = [n \in Names |-> Nobody]
    /\ settled' = [n \in Names |-> settled[n] /\ lock[n] = Nobody]
    /\ UNCHANGED <<users, live, issued, profile, secrets, confirmed>>

\* Someone else writes the Secret's metadata: labels, annotations.
EditSecret(n) ==
    /\ Readers(n) # {}
    /\ Fault("edit")
    /\ stale' = stale \cup Readers(n)
    /\ UNCHANGED <<users, live, issued, profile, secrets>> /\ UNCHANGED process

CreateStep(a) ==
    LookupUser(a) \/ AdmitUser(a) \/ IssueForCreate(a) \/ SyncProfile(a)
      \/ PersistCreated(a) \/ UndoCreate(a)

RotateStep(a) ==
    IssueForRotate(a) \/ RevokeOld(a) \/ PersistRotated(a) \/ UndoRotate(a) \/ CheckDevice(a)

WithdrawStep(a) ==
    ListSessions(a) \/ RevokeEach(a) \/ DeactivateUser(a) \/ PersistCleared(a)
      \/ DeleteSecret(a) \/ ClearRead(a) \/ ClearWrite(a) \/ Purge(a)

AvatarStep(a) ==
    UploadAvatar(a) \/ SetAvatarURL(a) \/ PersistAvatar(a) \/ UndoAvatar(a)

\* A step of a goroutine that is running, not waiting for the mutex.
Run(a) == ReadSecret(a) \/ CreateStep(a) \/ RotateStep(a) \/ WithdrawStep(a) \/ AvatarStep(a)

Environment ==
    \/ \E a \in Actors : Expire(a)
    \/ Crash
    \/ \E n \in Names : EditSecret(n)

Next ==
    \/ \E a \in Actors : Start(a) \/ Acquire(a) \/ Run(a)
    \/ Environment

Spec == Init /\ [][Next]_vars

\* Every call has a timeout, so a running goroutine makes its next step; a Go
\* mutex hands itself to a goroutine that has waited for more than 1 ms.
FairSpec == Spec /\ \A a \in Actors : WF_vars(Run(a)) /\ SF_vars(Acquire(a))
=============================================================================
