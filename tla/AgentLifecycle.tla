--------------------------- MODULE AgentLifecycle ---------------------------
(***************************************************************************)
(* What agents.Service promises to whoever consumes an agent's Secret, with *)
(* every call, lock and failure left out: an agent has a status and a       *)
(* generation, and at most one credential that works at a time.  Each        *)
(* change of the Secret is one step, and a credential is dead before the     *)
(* Secret stops, or starts, to hold another.                                 *)
(***************************************************************************)
EXTENDS Integers

CONSTANTS Names, Tokens

VARIABLES
    status,     \* the status each agent's Secret records
    gen,        \* its generation
    cred,       \* handed-out tokens of the agent that still work
    spent       \* every token handed out so far

vars == <<status, gen, cred, spent>>

Init ==
    /\ status = [n \in Names |-> "absent"]
    /\ gen = [n \in Names |-> 0]
    /\ cred = [n \in Names |-> {}]
    /\ spent = {}

\* The agent's Secret now holds a token nobody has had; whoever asked for it
\* gets it, or gets an error and never learns it.
HandOut(n) ==
    \/ UNCHANGED <<cred, spent>>
    \/ \E t \in spent' \ spent :
          /\ t \in Tokens
          /\ cred' = [cred EXCEPT ![n] = {t}]
          /\ spent' = spent \cup {t}

Become(n, s, g) ==
    /\ status' = [status EXCEPT ![n] = s]
    /\ gen' = [gen EXCEPT ![n] = g]

Provision(n) == status[n] = "absent" /\ Become(n, "active", 1) /\ HandOut(n)

Renew(n) ==
    /\ status[n] \in {"active", "revoked"} /\ cred[n] = {}
    /\ Become(n, "active", gen[n] + 1) /\ HandOut(n)

Suspend(n) ==
    /\ status[n] \in {"active", "revoked"} /\ cred[n] = {}
    /\ Become(n, "revoked", gen[n]) /\ UNCHANGED <<cred, spent>>

Retire(n) ==
    /\ status[n] # "absent" /\ cred[n] = {}
    /\ Become(n, "deactivated", gen[n]) /\ UNCHANGED <<cred, spent>>

Forget(n) ==
    /\ status[n] # "absent" /\ cred[n] = {}
    /\ Become(n, "absent", 0) /\ UNCHANGED <<cred, spent>>

\* The credential stops working; the Secret may still hold it.
Lapse(n) ==
    /\ cred' = [cred EXCEPT ![n] = {}]
    /\ UNCHANGED <<status, gen, spent>>

Next ==
    \E n \in Names :
        Provision(n) \/ Renew(n) \/ Suspend(n) \/ Retire(n) \/ Forget(n) \/ Lapse(n)

Spec == Init /\ [][Next]_vars
=============================================================================
