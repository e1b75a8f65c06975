---------------------------- MODULE CommandLease ----------------------------
(***************************************************************************)
(* What the control plane promises about a command, with no word on host   *)
(* sessions, D1 statements or handlers: a command waits, one connector at  *)
(* a time holds its lease, only the holder of the lease starts and         *)
(* finishes it, once started it is never handed to somebody else, and a    *)
(* finished command stays as it is.  CommandTable implements this module.  *)
(***************************************************************************)

CONSTANTS
    Commands,     \* the commands that may ever be created
    Connectors,   \* the connectors that may hold a lease
    None          \* "no connector"

VARIABLES
    state,        \* state[c]: where command c is in its life
    owner         \* owner[c]: the connector that holds the lease, or None

lvars == <<state, owner>>

Init ==
    /\ state = [c \in Commands |-> "absent"]
    /\ owner = [c \in Commands |-> None]

Create(c) ==
    /\ state[c] = "absent"
    /\ state' = [state EXCEPT ![c] = "pending"]
    /\ UNCHANGED owner

\* A pending command, or one whose lease has run out, goes to connector k.
Lease(c, k) ==
    /\ state[c] \in {"pending", "leased"}
    /\ state' = [state EXCEPT ![c] = "leased"]
    /\ owner' = [owner EXCEPT ![c] = k]

\* Leases are given back before their commands started, several at a time
\* when a host session goes away.
Release(released) ==
    /\ \A c \in released : state[c] = "leased"
    /\ state' = [c \in Commands |-> IF c \in released THEN "pending" ELSE state[c]]
    /\ owner' = [c \in Commands |-> IF c \in released THEN None ELSE owner[c]]

Start(c) ==
    /\ state[c] = "leased"
    /\ state' = [state EXCEPT ![c] = "running"]
    /\ UNCHANGED owner

\* The holder of the lease reports the outcome.
Finish(c) ==
    /\ state[c] \in {"leased", "running"}
    /\ \E outcome \in {"succeeded", "failed"} : state' = [state EXCEPT ![c] = outcome]
    /\ UNCHANGED owner

\* The control plane gives the command up.
Abandon(c) ==
    /\ state[c] \in {"pending", "leased", "running"}
    /\ state' = [state EXCEPT ![c] = "failed"]
    /\ owner' = [owner EXCEPT ![c] = None]

Next ==
    \/ \E released \in SUBSET Commands : Release(released)
    \/ \E c \in Commands :
        \/ Create(c)
        \/ \E k \in Connectors : Lease(c, k)
        \/ Start(c)
        \/ Finish(c)
        \/ Abandon(c)

Spec == Init /\ [][Next]_lvars
=============================================================================
