# Verification of matrix-agent-manager

matrix-agent-manager keeps Matrix accounts for agents: it creates a user and a
personal session in the Matrix Authentication Service (MAS), keeps the session's
token in a Kubernetes Secret, rotates, revokes and removes it on request of an
administrator's dashboard, and reconciles `MatrixAgent` resources that declare
such agents. No store it writes to shares a transaction with another, every call
can fail, and the dashboard and the operator run at the same time. This project
models those parts in TLA+, checks them with TLC and proves the central ones with
TLAPS.

## 1. The system

| component | state | operations | calls |
|---|---|---|---|
| `agents.Service` (`internal/agents/service.go`) | one mutex per agent name (`locks`) | `Create`, `Rotate`, `Recover`, `Revoke`, `Deactivate`, `Remove`, `SetAvatar`; read-only `List`, `Avatar`, `Unmanaged` | MAS, homeserver, Secret backend |
| `agents.KubernetesBackend` (`kubernetes.go`) | one Secret per agent | `GetAgent`, `CreateAgent`, `UpdateAgent` (refused for an old resourceVersion), `DeleteAgent`, `ListAgents` | Kubernetes API |
| `mas.Client` (`internal/mas/client.go`) | cached admin token, `tokenMu` | users: create, look up, reactivate, deactivate; sessions: create, regenerate, revoke, list (at most 100 pages) | MAS admin API |
| `operator.Operator` (`internal/operator/operator.go`) | none between passes; what it knows is the status of each resource | `ReconcileAll`: list, claim, finalizer, create/rotate, Secret, restart, status; `finalize` | `agents.Service`, Kubernetes API |
| `matrix.ProfileClient`, `RecoveryClient` | none | display name, avatar, device check | homeserver |
| `httpapi.Server` | none between requests | one handler per operation, CSRF and role checks, 90 s per mutation | `agents.Service`, `oidcauth` |
| `oidcauth` | bounded store of single-use login states | `LoginURL`, `Complete`, `IdentityFromRequest` | OIDC issuer |
| `session.Codec` | a key | `Seal`, `Open` | |
| `config`, `cmd/agent-manager`, Helm chart | none after start | wiring | |

The hard parts:

* **Three stores without a transaction.** An operation of the service is a
  sequence of calls with clean-up calls after a failure, which can fail too.
* **Lost answers, expiry, crashes.** A call may take effect and its answer be
  lost; the request context ends after 90 s, and the clean-up uses the same
  context; the process may stop between any two calls.
* **Concurrency.** HTTP requests and the operator run in one process and share
  the mutexes of the service; other Kubernetes clients edit Secrets, and users
  edit and delete resources, while a pass works on the copies it listed.
* **Level-triggered control.** What a pass knows of earlier ones is only what
  they managed to write to a status.

What makes each part correct:

* *service*: no token that was handed out works unless the agent's active Secret
  records it; the answer of an operation that succeeded describes Secret, MAS
  session and account alike; a Secret says `deactivated` only after MAS closed
  the account; one failed call orphans no account and leaves no dead token in an
  active Secret; the avatar is undone; every request returns its mutex.
* *operator*: the oldest claim has the agent; no resource gets the token of an
  account it neither made nor adopted, nor takes one with it when it goes; Secret, status and pods agree in the end;
  a requested rotation happens; the account is closed before the resource goes.
* *login*: a state is exchanged once; the store keeps its limit, drops no login
  that could be completed and turns none away for dead ones; a session belongs to
  the browser that logged in.
* *client*: no request is under way with an admin token that has ended; a listing
  or a sweep that succeeds is complete; every call returns, also behind the mutex.

`PROJECT.json` lists the hazards at their lines; section 8 names the open ones.

## 2. Modules

| module | content |
|---|---|
| `AgentService` | the service with MAS, the homeserver, the Secrets and the clients around them |
| `AgentServiceProperties` | its properties, and its refinement mapping |
| `AgentLifecycle` | the abstract specification: status, generation, the working credential |
| `AgentServiceInvariant` | the inductive invariant `IInv`, and what is added to it: `RInv` for the refinement, `SInv` for `SettledAgrees`, `KInv` and `UInv` for one failure |
| `AgentServiceProofs` | the theorems |
| `AgentLifecycleProofs` | the theorem that the service implements the abstract specification |
| `AgentSettledProofs` | the theorem that what an operation answered stays true until the next one |
| `AgentFailureProofs` | the theorems on what one failure leaves behind |
| `MatrixAgentOperator` | the operator with Kubernetes, users and the dashboard |
| `MatrixAgentProperties` | its properties and the inductive invariants `IInv`, `FinalInv`, `RotationInv`, `FollowInv`, `NameInv` and `CloseInv` |
| `MatrixAgentProofs` | its theorems for any users, dashboard and failures, and `FinalInv` |
| `MatrixAgentRotationProofs` | those that leave something out of these: a rotation that is noted was carried out, pods follow the Secret, whose account goes with a resource, and that it is closed by then |
| `MASClient` | the admin token, requests with their timeout, listings and sweeps; its properties |
| `MASClientInvariant`, `MASClientProofs` | its inductive invariant and its theorems |
| `OIDCLogin` | login, callback, the state store and the sealed state; properties and inductive invariant |
| `OIDCLoginProofs` | its theorems |
| `MCAgentService`, `MCMatrixAgent`, `MCMASClient`, `MCOIDCLogin` | constants of the instances that TLC checks |

`AgentLifecycle <= AgentService` is a refinement. `MatrixAgentOperator` sits on
top of the service and uses each of its operations as one step: an operation
holds the agent's mutex for its whole length, and the operator only sees what it
leaves in the Secret. `MASClient` sits below the service and shows what it takes
from there: that a call ends in one of a few ways, that a listing which succeeds
lacks nothing, and so that `ListSessions` may be one step. `OIDCLogin` shares no
state with any of them: a session only decides whether a request is let in.

Definitions named `X_Something` are wrong variants of `X`, the slips the
properties are there to find; the specifications never use them.

### AgentService

An actor is a request or the operator's call. One action is one call to a store
with the code that follows it up to the next call; `pc` names the call to come.

| state | code |
|---|---|
| `users`, `live`, `issued` | MAS accounts, sessions that are not revoked, IDs and tokens given out |
| `profile` | avatar at the homeserver |
| `secrets` | `SecretRecord` of each agent: status, session ID, token, generation, avatar; 0 is empty |
| `stale` | actors whose copy has an old `resourceVersion` |
| `lock` | `Service.locks` |
| `pc`, `req`, `late` | program counter, locals, expired contexts |
| `settled`, `confirmed`, `faults` | history: last operation succeeded, tokens handed out, failures used |

`Start`/`Acquire`/`Entry` are the handler, `withAgentLock` and the read of the
Secret. `LookupUser` to `UndoCreate` are `Create`; `IssueForRotate`, `RevokeOld`,
`PersistRotated`, `UndoRotate`, `ClearRead`, `ClearWrite`, `Purge` are `Rotate`;
`CheckDevice` follows it in `Recover`, outside the mutex; `ListSessions`,
`RevokeEach`, `DeactivateUser`, `PersistCleared`, `DeleteSecret` are `Revoke`,
`Deactivate` and `Remove`; the `Avatar` actions are `SetAvatar`. `Call` gives
every call its four outcomes: done, refused, failed, done with the answer lost.
`Expire`, `Crash` and `EditSecret` come from outside.

Abstracted: display names, device IDs, scopes beyond "contains `{device_id}`"
(`DeviceScoped`), expiry of tokens at MAS, the encoding of a Secret. A MAS user
keeps its ID with its name.

### MatrixAgentOperator

| state | code |
|---|---|
| `res` | the `MatrixAgent` objects: spec, status, finalizer, deletion |
| `target` | the Secret `spec.secretName` of each |
| `running` | the token its consumers' pods started with |
| `agents`, `issued` | the records of the service: the Secret of each agent |
| `accounts` | MAS: the names that have an active account, also one without a Secret |
| `at`, `unlisted`, `view`, `todo`, `cur`, `st`, `rec` | the pass: where it is, its copies, the object in hand, the status it builds, the record it read |
| `stale` | listed objects that were written since |
| `asked`, `granted` | history: rotations owed; accounts created or adopted by a resource |

`BeginPass`, `ListNamespace`, `Reconcile`, `EndPass` are `Run` and
`ReconcileAll`; `Owner` is `claimOwners`; `AddFinalizer` to `WriteStatus` are
`reconcile`, `writeSecret`, `restartDeployment` and `setStatus`;
`DeactivateAgent` and `RemoveFinalizer` are `finalize`. `Apply`,
`RequestRotation`, `EditSpec`, `Delete` are users, `Operate` is the dashboard.
`EditSpec` changes `adoptExisting` or `deletionPolicy`, makes the spec invalid or
valid, or renames `spec.agentName`, also while the object is being deleted;
`status.uid` keeps the account of the earlier name, as `status.masUserId` does.
`status.restarted` stands for `restartedGeneration` and `tokenGeneration`, which
are always written together. `running` is of the last of `restartTargets`, which
are restarted one after the other up to the first failure. A pod that waits for a
Secret that does not exist starts with the first one that does. Names of Secrets
and Deployments, messages, conditions and timestamps are left out; age-based
rotation is a choice that is open as long as fewer than `MaxTokens` tokens were
issued.

An operation of the service that fails may leave, after the failure `fail`, everything
as it was; after `lost`, what it leaves behind when a call inside it had its effect and
its clean-up went through: `Create` an account without a Secret, or a Secret whose account
was closed again; `Rotate` a Secret without its token, in the generation it had or, when
the answer of the update was lost, in the next one; `Deactivate` a closed account with
the Secret as it was, or written. After `purge`, `Rotate` has deleted the Secret and left
the account. `Create` refuses a name whose account is active. Coarser than the service are:

* a session that was ended while the Secret stays active (the clean-up of `Rotate`
  refused as well, or `Deactivate` stopped half-way) is not told apart from a live one.
  With a regenerated session every later `Rotate` is refused until somebody revokes the
  agent, so `Converges` is easier in the model than in the code for such an agent;
* an account that is locked, which `Create` refuses too, is not told apart from an
  active or a closed one;
* operations of the dashboard that fail are left out; `AgentService` has them;
* a crash inside an operation is its failure and `Crash` after it.

### MASClient

Each caller is a request or the operator's pass, and runs one operation after the
other: a listing (`ListUsers`), a sweep (`revokeActiveSessions`: a listing of
sessions, then a revocation for each), or one of a single request. One action is
what one side does with a request or an answer.

| state | code |
|---|---|
| `now` | the clock; the unit is the client's timeout of 15 s |
| `holder`, `cache` | `tokenMu`; `accessToken` and `tokenExpiry` |
| `pc`, `req` | the callers with their locals: token, time of sending, cursor, pages, items found |
| `era` | MAS: how often it has dropped its tokens |
| `born`, `live` | MAS: the items (users, or sessions of one user) that each caller lists, by order of creation |
| `jobs` | which caller runs which operations, chosen once |
| `since`, `faults` | history: items active since the operation began; failures used |

`UseCached`, `FetchToken`, `IssueToken`, `ReceiveToken`, `FetchFails` are
`accessTokenFor`, with MAS at the other end; `Serve`, `Receive`, `RequestFails`
are `doJSON`; `AfterPage` is the loop of `ListUsers` and `ListPersonalSessions`,
`Sweep` and `ReceiveRevoked` that of `revokeActiveSessions`. Computing takes no
time; a request and its answer take any time up to `Timeout`, and `Tick` stops when
a request has used its time up, so it then ends. `Margin` is the 30 seconds that
`tokenExpiry` stays below the lifetime, which is two timeouts: one in which the
token came, one in which it goes out again. `AddItem` and `EndItem` are other
clients of MAS. A server that repeats its next link is the failure `loop`, and
`DropTokens` a MAS that no longer knows its tokens. Not told apart are the filters
of a listing, and the reasons for which a request or an answer is bad, a next link
to a foreign origin among them.

### OIDCLogin

| state | code |
|---|---|
| `now`, `sealed` | the clock, in half seconds; states made so far |
| `entries`, `expiry` | `MemoryStateStore.entries`: its keys, and when each expires |
| `cookie`, `session` | the two cookies a browser has |
| `pc`, `req` | the handlers at work, with their locals; `clock` is the time a handler read |
| `owner`, `used`, `forgotten` | history: whom a state was given to, exchanges made with it, states of an earlier process |

`Seal`, `ReadClock`, `StoreState`, `Redirect` are `Server.login` with `LoginURL`,
`sealState` and `Put`; `Callback`, `OpenState`, `ReadClock`, `ConsumeState`,
`Exchange`, `Respond` are `Server.callback` with `Complete`, `openState` and
`Consume`. `Put` reads its clock before it takes the lock and `Consume` gets a
time that was read before, so both may work with an old time. A sealed value keeps
its expiry in whole seconds, the store to the nanosecond: with half seconds the
model has both kinds. `Restart` loses the store and the handlers, while the key
and the cookies stay.

`Callback` may bring any state that was given out, in any browser, as often as it
likes; whether the issuer says no, or the code, the ID token, its nonce or its
roles are wrong, is one choice. A cookie whose `MaxAge` is over is not told apart
from one whose state no longer opens.

## 3. What is checked

Deadlock checking is on in every passing run: an idle service can always take a
request and a sleeping operator always has another pass.

| run | what it shows | bounds |
|---|---|---|
| `agents_regenerate` | all seven operations, two requests at a time on one agent, sessions regenerated in place, any two failures of any kind: `TypeOK`, `NoStrayCredential`, `SettledAgrees`, `DeactivatedIsDead`, and the refinement `ImplementsLifecycle` | 1 agent, 2 requests, 2 failures, 3 tokens |
| `agents_device` | the same with a device scope, where `Rotate` makes a session beside the old one; four failures exhaust the three retries of `clearTokenMaterial`; and `RequestEnds` | 1 agent, 2 requests, 4 failures, 2 tokens |
| `agents_one_failure` | what the clean-ups promise after a single failure: `NoOrphan`, `ActiveIsUsable`, `AvatarAgrees` | 2 agents (one whose account is locked), 2 requests, 1 failure, 2 avatars |
| `operator_claims` | two resources in two namespaces, which close their account when they go, claim one agent that the dashboard removes and remakes: `NoTakeover`, `ClosesOwnAccount`, `OldestClaims` | 1 agent, 1 failure, 3 outside steps |
| `operator_renames` | two resources beside each other and two agents, applied, adopted, made invalid, renamed and deleted: `NoTakeover`, `Converges` | 2 agents, no failure, 3 outside steps |
| `operator_restarts` | a resource that has been Ready, and whose agent keeps its Secret: `TypeOK`, `RestartsFollow`, `RotationHonoured`, `DeactivatedFirst`, `Converges` | 1 agent, 2 failures, 3 outside steps, 3 tokens |
| `mas_client` | two callers fetch, cache and use the token, or one lists and sweeps while items come and go: `TypeOK`, `TokenAlive`, `Complete`, `CallsEnd` | 2 callers, lifetimes of 1 and 3 timeouts, 1 failure, pages of 1, at most 2 pages, 2 items, 3 timeouts |
| `login` | logins and callbacks of two browsers beside each other, over time and restarts: `TypeOK`, `SingleUse`, `Bounded`, `LiveLoginsKept`, `SessionIsOwn`, `FullOfTheLiving` | 2 handlers, 2 browsers, 2 states, room for 1, a lifetime of 3 half seconds, 4 half seconds, handlers and browsers symmetric |

Why these bounds are enough to be of interest: the mutex makes agents
independent, so two actors on one agent show every interleaving of lock, check
and call; the second agent of `agents_one_failure`, whose account is locked, takes
the refusals of `Create` and shows that agents do not disturb each other. Two failures are one in an operation and one in its
clean-up, or a failure and a crash; four exhaust the retries. Three tokens are
those before, of, and after a rotation. In the operator two claims in two
namespaces are needed for order and for partial lists, and three outside steps
for "remove, make again, ask" in the middle of a pass. With room for one state the second login meets a full
store, a lifetime of three half seconds rounds down, and four let the first state
expire at either of its two times while the second lives. In the client the short
token is below the margin, the long one is cached for one timeout and then dropped;
two items on pages of one and a limit of two pages give listings that end before,
at and beyond the limit, and an item that is made during a listing. The two callers
either share the token or one of them lists, since pages and tokens only meet in
`send`. All runs are exhaustive
within their bounds.

Four runs end in a counterexample; each shows a place where the code does other
than a comment, message, test or document of the repository says:

| run | statement | what the code does |
|---|---|---|
| `agents_conflict` | `service.go:443-446`, a conflict belongs to another writer's stable session | with a device scope the session left alone is the one just created; nothing records it |
| `operator_first_restart` | `operator.go:285-286`, pods are restarted when an earlier pass could not | not before the resource was Ready once |
| `operator_partial_list` | `README.md:115-116`, one resource per agent | two are Ready after one failed list |
| `operator_renamed` | `crds/matrixagents.yaml:61-63`, `Deactivate` closes the account of the resource | closes the account that the spec names when it goes, also one the resource never had |

The properties of the passing runs are stated so that they hold beside these:
`RestartsFollow` of a resource that has been Ready, `OldestClaims` in the end,
`ClosesOwnAccount` where nobody renames.
`NoOrphan` holds when the one failure is not a lost answer, a crash or the expiry of
the request, since the clean-up of `Create` has no time of its own (`service.go:291`). `RotationHonoured`
is of a resource that has been Ready: a `rotationToken` that is changed before that
is recorded and not served (`operator.go:261`). `Converges` asks nothing for a resource that lost its first pass after
`Create` and is then taken for a stranger to its own account (`operator.go:249`), nor where a
Secret is without an account or an account without a Secret (`service.go:244`, `299`, `450`).
`DeactivatedFirst` speaks of the account that the status names, and is checked where nobody
renames, removes or purges (section 5).

`agents_conflict` alone switches deadlock checking off: two issued tokens and no
more operations in play leave its two actors with nothing to do.

## 4. Fairness

* `AgentService!FairSpec`: a request that is under way takes its next step (weak
  fairness), since every call of the code ends: the HTTP clients have timeouts of
  15 s and each mutation a context of 90 s. `Acquire` is strongly fair: a Go
  mutex hands itself over to the longest waiter in starvation mode. Nothing makes
  requests start or failures happen.
* `MatrixAgentOperator!FairSpec`: weak fairness of `PassStep`: the ticker starts
  pass after pass and every call ends. That is an idealisation for the calls to
  Kubernetes: they run under the context of the process, and the client that the
  operator is given has no timeout of its own, so a server that accepts a request and
  never answers would stop the loop. The calls of the service to MAS do time out. Users,
  the dashboard and crashes are free and bounded, so `<>[]` says what holds once they
  rest.
* `MASClient!FairSpec`: weak fairness of each step of a caller, since a request ends
  with its timeout at the latest; strong fairness of `Acquire`, as above. MAS is
  not assumed to answer, only time to pass.

`OIDCLogin` states no liveness and assumes no fairness.

## 5. What is proved

### The service

`AgentServiceProofs` proves, for every set of names, actors, avatars and locked
accounts, both kinds of scope, any selection of operations and of failures, and
any bounds:

| theorem | statement |
|---|---|
| `Invariance` | `Spec => []IInv` |
| `TypeCorrect` | `Spec => []TypeOK` |
| `NoStray` | `Spec => []NoStrayCredential` |
| `DeactivatedStaysDead` | `Spec => []DeactivatedIsDead` |
| `Implements` (`AgentLifecycleProofs`) | `Spec => ImplementsLifecycle` |
| `SettledAgreement` (`AgentSettledProofs`) | `Spec => []SettledAgrees` |
| `OneFailureOrphansNone` (`AgentFailureProofs`) | `Spec => [](faults <= 1 => NoOrphan)`, if no answer is lost, no request expires and nothing crashes |
| `OneFailureAvatarAgrees` | `Spec => [](faults <= 1 => AvatarAgrees)`, under the same condition |
| `OneFailureUsable` | `Spec => [](faults <= 1 => ActiveIsUsable)`, if failures are refused calls and answers without a token, and nobody deactivates or removes |

Assumptions are the named ones of `AgentService`: `Nobody` and `NoAvatar` are
values of their own, bounds are natural numbers, `Ops` and `Faults` are
selections of the known ones.

*Why an invariant is needed.* `NoStrayCredential` says nothing of an actor in the
middle of `Rotate`; that its step keeps the property depends on what it read
still being so, and on the old session being dead. `IInv` adds:

* `Guarded`: an actor past `Acquire` holds the mutex of its agent. All other
  conjuncts follow from it being alone there.
* `InItsOp`: which operations visit which label.
* `Current`: what the actor read of the Secret is what the Secret still says,
  since edits from outside leave the data of a Secret alone.
* `HandOK`, `HandsDiffer`: a token that was issued and not yet returned is new, not
  handed out, belongs to one session, and no two actors hold one token.
* `Revoked`: before an actor changes what the Secret says, no handed-out token of
  the agent works (`Quiet`); before it withdraws the agent no session is left
  (`Emptied`); before it says deactivated, the account is closed.
* `TokensOK`, `AbsentIsEmpty`: sessions and handed-out tokens come from MAS, an
  absent Secret records nothing.

*The argument.* One lemma per action shows that it keeps `IInv`. The effects on
the stores are factored out (`SetUserEffect`, `IssueEffect`, `PutEffect`): each
says what a call to a store does to the properties of the agent it is about, and
that it leaves every other agent alone. `StepPreserves` then reduces a step of
an actor to its own obligations: by `Guarded`, no other actor is inside the same
agent, so what changes is nothing another actor relies on. `MovePreserves`,
`ReturnPreserves` and `GotoShrinking` do the same for steps that only move, leave
or revoke. `RunStep` and `NextInv` collect the actions. The theorems follow by
temporal logic.

*The refinement.* The mapping reads status and generation from the Secrets and takes
as credential the handed-out tokens that still work (`Credentials`). Each step of the
service is one step of one agent's lifecycle, or none: a write of the Secret is
`Provision`, `Renew`, `Suspend`, `Retire` or `Forget`; the end of the recorded session
is `Lapse`; everything else, also the end of a session whose token was never handed
out, is a stutter. By `NoStrayCredential` the recorded session is the only one that
can lapse, and by `Revoked` it has before the Secret is written. What is missing is
in `RInv`: the session IDs that a Secret or an actor refers to are of its own agent
(`SessionsOwned`, `KnowsOwn`), so that ending one is a step of no other agent; a
token in hand works (`HandLive`), so that handing it out gives the agent a credential;
and nobody deactivates an agent that is being rotated or revoked (`NotRetired`), so that
`Suspend` never revives it. `Local` says what a step of one actor leaves of all that to
the others, `MoveKeeps` and `ReturnKeeps` what is left to show at the end of a step,
and `Lapses`, `Withdraws` and `HandsOut` what the lifecycle sees of an effect. The
lifecycle's tokens are all numbers; a handed-out token is one that was never before.

*What an answer is worth.* `SettledAgrees` speaks of the moments when nobody holds the
mutex. `SInv` says what an operation has to carry there: until its first change
(`Untouched`) the three stores still agree if they did (`Settled`), and where it ends
with an error its agent is no longer settled, so an operation owes the agreement only
when it answers success. Create and Rotate have it from `HandLive`, the token written
being one that works; Revoke, Deactivate and Remove from `Revoked`. SetAvatar is the
odd one: it answers success for an agent that an earlier failure may have unsettled,
and has the agreement from the homeserver, which accepted the recorded token
(`Shown`), because that token belongs to the recorded session only (`Recorded`). A
crash unsettles every agent that was held.

*What one failure leaves behind.* `MaxFaults` stays a parameter: the theorems are of
every behaviour up to its second failure, in a system that may go on to have more.
The clean-ups are made for one failure, so the invariants count. `Traced` says what an
actor's place tells of the failures so far: that it is undoing something is the first,
that the undoing was refused as well the second, and only then does `Rotate` delete a
Secret. While there was one at most, the rest holds. An active account has a Secret
(`Managed`), except while `Create` has admitted it and can still close it again
(`Admitted`); a recorded avatar is shown (`Pictured`), except while `SetAvatar` has
changed it and can still change it back, because the homeserver accepts the token it
has read (`CanUndo`). `UInv` adds, for `ActiveIsUsable`, that the recorded session lives
(`Usable`) except where an operation has ended it and goes on to write the Secret; what
makes the exception short enough is that before the first failure an agent has no session
but the recorded one (`Single`), so `Revoke` fails either before it has ended that one or
with nothing left to end, and that no error path gives up the recorded one (`Targets`).
Each condition is needed: with that one failure admitted TLC finds a counterexample.
A lost answer, an expiry or a crash breaks all three. For `ActiveIsUsable` an edit
of the Secret between read and write does too, as does, without a device scope, a MAS that
answers a regeneration with another session; and `Deactivate` and `Remove` end the sessions
before they do anything else, so an error after that leaves a dead token in an active Secret.

`MCAgentService` extends `AgentServiceInvariant`, so adding `IInv`, `RInv`, `SInv`, `KInv`
or `UInv` (the last two under the conditions of the theorems) to the invariants of a
configuration has TLC check it.

### The login

`OIDCLoginProofs` proves, for every set of browsers and handlers, every limit of
the store, every lifetime and any bounds:

| theorem | statement |
|---|---|
| `LoginInvariance` | `Spec => []IInv` |
| `StatesUsedOnce` | `Spec => []SingleUse` |
| `StoreBounded` | `Spec => []Bounded` |
| `NoLiveLoginDropped` | `Spec => []LiveLoginsKept` |
| `SessionsEarned` | `Spec => []SessionIsOwn` |
| `RefusedWhenFull` | `Spec => FullOfTheLiving` |

`IInv` adds to the four invariants what holds of a handler at each label. While it
makes a state (`MakerOK`), nobody has that state, nobody else makes it
(`MakersDiffer`) and, once stored, it stays in the store as long as it opens: the
step to the invariants is `Redirect`, which gives it to a browser. While it serves
a callback (`ServerOK`), its state belongs to its browser, and past `ConsumeState`
it was used once. `StatesOK` says that a state in the store was never used, which
makes its removal and its use one. Two facts carry `LiveLoginsKept`: the time a
handler works with is never ahead of the clock, and what still opens has not
expired (`OpensUnexpired`), because sealing rounds down. `LocalStep` covers the
steps that move one handler only; the others have a lemma each. TLC confirms
`IInv` on the instance of `login` when it is added to the configuration.

### The client

`MASClientProofs` proves, for every set of callers, lifetimes, page size, limit of
pages and whatever failures, from `TimeAssumption`: the margin is at least two
timeouts, as it is in the code (30 s and 15 s):

| theorem | statement |
|---|---|
| `ClientInvariance` | `Spec => []IInv` |
| `ClientTypes` | `Spec => []TypeOK` |
| `TokensAlive` | `Spec => []TokenAlive` |
| `OperationsComplete` | `Spec => []Complete` |

Two arguments run side by side. *Tokens*: `Exclusive` says that who waits for a
token has the mutex; `Timed` that a request is within its timeout and, when it
carries a token, left early enough for the token to outlive it; `CacheOK` that the
cached expiry is no later than the end of the token, less the margin, plus the
one timeout the token may have travelled. From `2 * Timeout <= Margin` a request
that leaves before the cached expiry is over before the token ends. *Listings*:
`Covered` says that of the items that were there from the beginning those up to the
cursor were found, that an answer on its way has those up to its own cursor, and
that a sweep has revoked what it no longer holds. Pages follow the order of
creation, so what comes later is never missed, and `since` only shrinks.

### The operator

`MatrixAgentProofs` proves, for every set of resources, namespaces, names and
policies, every selection of edits, dashboard operations and failures, and any
bounds:

| theorem | statement |
|---|---|
| `PassInvariance` | `Spec => []IInv` |
| `OperatorTypes` | `Spec => []TypeOK` |
| `NobodyTakesOver` | `Spec => []NoTakeover` |
| `RequestsServed` (in `MatrixAgentRotationProofs`) | `Spec => []RotationHonoured`, if nobody sets `adoptExisting` |
| `ReadyRestartsFollow` (there too) | `Spec => [](\A r \in Established : RestartFollows(r))`, if nobody renames a claim or removes an agent, and no failed rotation deletes the Secret of one |
| `PodsHaveTheToken` (there too) | `Spec => []RestartsFollow`, under the same condition where all resources have been Ready |
| `OwnAccountClosed` (there too) | `Spec => ClosesOwnAccount`, if nobody renames a claim |
| `AccountClosedFirst` (there too) | `Spec => DeactivatedFirst`, if `AccountsKept`: nobody renames a claim, no failed rotation deletes a Secret, and where the dashboard removes agents, it makes none and no `Create` loses an answer |

`NoTakeover` speaks of the token in a Secret, but what lets the pass write it is
its copy of the resource, which may be old, and a status that an earlier pass wrote.
`IInv` therefore adds `StatusOK`: an account that a status names, in the API or in a
copy of the pass, was the resource's at some time; and `PassOK`: the copy in hand is
of an object that exists, or did, and once the pass has taken its agent
(`Holding`: `rotate` to `restart`) the resource has been granted that agent. What
was granted is never taken back, so edits, deletions and the dashboard cannot
break any of it; the one place where an agent is granted without being created is
the check of `adoptExisting` in `ReadAgent`. There is one lemma per action;
`StatusKept`, `SameTarget` and `UnnoticedOK` state what an action keeps that
leaves the status, the Secrets or the pass alone.

`FinalInv` says what the copies of a pass are worth. `Synced`: a copy the pass will still
use is what the API has, or known to be old, in which case the API refuses the
update that removes the finalizer; so the policy and the account it went by are
those of the object that goes (`GoesAsListed`). `TakenOnce`: the pass does not come back
to an object that it wrote itself.

`RotationInv` adds what `RotationHonoured` needs. `Counted`: a status never knows a
later `rotationToken` than the spec has. `Behind`: the copy of the pass lies between
the two, since only the pass writes the status and users only raise the value; so
when the value that was listed is served although users have changed it meanwhile,
the request that they made is not lost. (The code compares for equality only; the
model numbers the values in the order users choose them, so to go back to an earlier
value is not among the edits.) `HandServed`: the status that is being built
takes note of that value only when it is served, or when somebody wrote the object,
and then the API refuses the status. The condition is needed: a resource that adopts
an agent again, after its first status was lost or refused, records the value it finds and issues
nothing (`operator.go:258-261`); TLC finds that in an instance with `adopt` edits.

`FollowInv` is a chain of four records of one agent: the service's, the copy that the
pass read, the Secret of the resource, and the generation in the status. Each is behind
the one before it (`Followed`, `HandFollows`); `Follows` says how: a lower generation, or
the same one with the same token, which is lost at most. So when the status names the
generation of the Secret, no pass has put another token there since; and the pods have
that token, because the status that is being built names a generation only after the
restart, or repeats the one it found (`HandFollows` again, where `Synced` lets the API
refuse a status that was built on an old copy). The conditions are needed, each by itself:
a resource that is renamed, and an agent that is removed, or whose Secret a failed rotation
deletes, and then made again, compare the generations of different records, and TLC finds the restart
that is forgotten. `Established` is needed because of `operator_first_restart`.

`OwnName`, in `NameInv`, says that a status names the agent of the spec or none, in the API
and in the copies and the status that the pass has in hand. With `StatusOK` of `IInv` the
account that `finalize` asks to close is one that the resource took.

`CloseInv` adds what `DeactivatedFirst` needs on top of that. `finalize` closes an account
by way of its Secret: where there is none, or one that says deactivated, it goes on
(`service.go:535-541`, `operator.go:404`). So `Withdrawn` says that a Secret is
deactivated only when its account is closed, and `TakenAccounted` that an agent which a
resource took has a Secret, or was removed on the dashboard together with its account.
`ClosedFirst` then holds from the moment the pass goes on to the finalizer until the
update, because nobody can open the account of such an agent meanwhile. The conditions
of `AccountsKept` are needed, each by itself. After a rename `finalize` closes the account
of the new name. After a `Rotate` that deleted the Secret, and after a removal followed by a
`Create` whose clean-up did not happen, there is an active account without a Secret. And
between `finalize` finding no Secret and its update, the dashboard may make again an agent
that it had removed. TLC finds each of these when it is admitted alone. Operations of the
dashboard that fail are not in the model; they can delete a Secret or leave an account in
the same ways.

### Not proved

Model-checked only are `RequestEnds`, `OldestClaims`, `Converges` and `CallsEnd`, since
liveness is beyond the prover. Every invariant and every action property of the passing
runs is proved, some under the conditions that their tables name. `ClaimedOnce` and
`NoAbandonedSession`, and `RestartsFollow` and `ClosesOwnAccount` without those
conditions, are refuted by the last four runs of section 3. `NoAbandonedSession` is no
matter of the device scope alone: an agent that was revoked has no session to regenerate,
so its next `Rotate` makes a new one, and a conflict leaves that one alone as well.

## 6. Not modelled

* `agents.Service`: `List`, `Avatar`, `Unmanaged` only read.
* `mas.Client`: the content of requests and answers; reading the client secret from
  its file.
* `operator`: edits of `spec.secretName`, which leave the old Secret behind, and of
  `spec.restartTargets`.
* `oidcauth`: discovery of the issuer at start, the content of tokens and roles;
  `session.Codec`: encryption.
* `matrix` media handling, `config`, rendering and CSRF in `httpapi`: they keep no
  state between calls.

## 7. Plan

1. *(done)* `AgentService`, its properties, `AgentLifecycle`, refinement by TLC.
2. *(done)* `AgentServiceInvariant`, `AgentServiceProofs`: type correctness, the
   credential and the deactivation invariants.
3. *(done)* `MatrixAgentOperator` and its properties.
4. *(done)* `OIDCLogin` and `OIDCLoginProofs`.
5. *(done)* `MASClient` and `MASClientProofs`.
6. *(done)* Renames in `MatrixAgentOperator`, and finalization after one.
7. *(done)* `MatrixAgentProofs`: type correctness and `NoTakeover`.
8. *(done)* `AgentLifecycleProofs`: the service implements `AgentLifecycle`.
9. *(done)* `AgentSettledProofs`: what an operation answered stays true.
10. *(done)* `MatrixAgentRotationProofs`: `RotationHonoured`.
11. *(done)* `RestartsFollow`, `ClosesOwnAccount` and `DeactivatedFirst` under the
    conditions of section 5, with their proofs.
12. *(done)* `AgentFailureProofs`: what one failed call leaves behind.
13. The safety half of `Converges`: what a pass that ends without an error leaves, and
    of `OldestClaims`: what a pass with complete lists decides.

## 8. Open hazards

Those of `PROJECT.json` that no property covers, because no document asks for more
than the code does or because it takes more failures than the clean-ups are for:

* `service.go:291`, the clean-up of `Create` when its request has expired, and
  `service.go:450`, a deleted Secret with an active account after two failures, which
  `finalize` then does not find;
* `service.go:604`, the dead token that stays in a Secret when `clearTokenMaterial` has
  met a conflict three times; `SettledAgrees` says only that no success was answered;
* `client.go:414`, an admin token that MAS has withdrawn and that is used until its
  expiry;
* `service.go:341`, the lost answer of `SetAvatarURL`;
* `operator.go:249`, an account that its own resource no longer recognizes after a
  failed first pass;
* `operator.go:267`, a rotation that is repeated when the status write is lost;
* `operator.go:287`, a generation that does not tell two tokens apart: it starts at 1
  again after Remove and Create, and another agent may have the same one after a
  rename, so a failed restart may be forgotten.
