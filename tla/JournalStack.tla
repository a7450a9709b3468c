----------------------------- MODULE JournalStack -----------------------------
(***************************************************************************)
(* What hardline promises of the journals on a host, seen from outside:    *)
(* "remote journals behave like a stack of successful applies for a        *)
(* profile on a host" (docs/internals/rollback.md).  At most one run is    *)
(* under way; a run is pushed when it has applied every step and never     *)
(* again; a rollback claims the top of a profile's stack before it pops    *)
(* it, and only when no run is under way; nothing else ever changes them.  *)
(***************************************************************************)
EXTENDS Naturals

CONSTANTS
    Profiles,   \* every profile has a stack of its own
    RunIds      \* the runs, numbered in the order they start

VARIABLES
    begun,      \* the runs that have started
    active,     \* the run under way, as {<<profile, run>>}, or {}
    stack,      \* stack[p]: the runs of p that a rollback may take back
    claimed     \* claimed[p]: those of them whose rollback has begun

vars == <<begun, active, stack, claimed>>

Init ==
    /\ begun = {}
    /\ active = {}
    /\ stack = [p \in Profiles |-> {}]
    /\ claimed = [p \in Profiles |-> {}]

IsTop(p, k) == k \in stack[p] /\ \A other \in stack[p] : other <= k

Begin(p, k) ==
    /\ active = {}
    /\ k \notin begun
    /\ begun' = begun \cup {k}
    /\ active' = {<<p, k>>}
    /\ UNCHANGED <<stack, claimed>>

Push(p, k) ==
    /\ active = {<<p, k>>}
    /\ active' = {}
    /\ stack' = [stack EXCEPT ![p] = @ \cup {k}]
    /\ UNCHANGED <<begun, claimed>>

(* The run failed, was refused, was undone or its runner died.             *)
Abandon ==
    /\ active # {}
    /\ active' = {}
    /\ UNCHANGED <<begun, stack, claimed>>

Claim(p, k) ==
    /\ active = {}
    /\ IsTop(p, k)
    /\ claimed' = [claimed EXCEPT ![p] = @ \cup {k}]
    /\ UNCHANGED <<begun, active, stack>>

Pop(p, k) ==
    /\ active = {}
    /\ IsTop(p, k)
    /\ k \in claimed[p]
    /\ stack' = [stack EXCEPT ![p] = @ \ {k}]
    /\ claimed' = [claimed EXCEPT ![p] = @ \ {k}]
    /\ UNCHANGED <<begun, active>>

Next ==
    \/ \E p \in Profiles, k \in RunIds :
         Begin(p, k) \/ Push(p, k) \/ Claim(p, k) \/ Pop(p, k)
    \/ Abandon

Spec == Init /\ [][Next]_vars
=============================================================================
