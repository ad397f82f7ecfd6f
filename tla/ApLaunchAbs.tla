----------------------------- MODULE ApLaunchAbs ----------------------------
(***************************************************************************)
(* What the launch of the application processors promises: the memory at   *)
(* the reset vector is taken, threads run the startup code one at a time   *)
(* and at most once, and the memory is given back, when none of them runs, *)
(* and not touched again.                                                  *)
(***************************************************************************)
CONSTANT Threads

VARIABLES
    vector,     \* who the memory at the reset vector belongs to
    running,    \* the threads that run the startup code
    finished    \* the threads that did

vars == <<vector, running, finished>>

Init == vector = "host" /\ running = {} /\ finished = {}

Take ==
    /\ vector = "host"
    /\ vector' = "taken"
    /\ UNCHANGED <<running, finished>>

Start(t) ==
    /\ vector = "taken" /\ running = {} /\ t \notin finished
    /\ running' = {t}
    /\ UNCHANGED <<vector, finished>>

Finish(t) ==
    /\ running = {t}
    /\ running' = {}
    /\ finished' = finished \cup {t}
    /\ UNCHANGED vector

GiveBack ==
    /\ vector = "taken" /\ running = {}
    /\ vector' = "returned"
    /\ UNCHANGED <<running, finished>>

Next == Take \/ GiveBack \/ \E t \in Threads : Start(t) \/ Finish(t)

Spec == Init /\ [][Next]_vars
=============================================================================
