------------------------------- MODULE ForkJoin -------------------------------
(***************************************************************************)
(* What the worker pool promises, without semaphores, flags or loops:      *)
(* workers are started and end, each at most once, and the resources they  *)
(* share are released exactly once, when no worker is running.             *)
(***************************************************************************)
CONSTANT Workers

VARIABLES running,    \* workers that are executing
          finished,   \* workers that have ended
          released    \* the shared resources are gone

vars == <<running, finished, released>>

Init == /\ running = {}
        /\ finished = {}
        /\ released = FALSE

\* Several workers may be forked, never after the release.
Fork(w) == /\ ~released
           /\ w \notin running \cup finished
           /\ running' = running \cup {w}
           /\ UNCHANGED <<finished, released>>

Finish(w) == /\ w \in running
             /\ running' = running \ {w}
             /\ finished' = finished \cup {w}
             /\ UNCHANGED released

Release == /\ ~released
           /\ running = {}
           /\ released' = TRUE
           /\ UNCHANGED <<running, finished>>

Next == Release \/ \E w \in Workers : Fork(w) \/ Finish(w)

Spec == Init /\ [][Next]_vars
===============================================================================
