------------------------------ MODULE TaskPool ------------------------------
(***************************************************************************)
(* What a thread pool promises to whoever pushes tasks: a submitted task   *)
(* is started once and finished once, and after the pool is closed nothing *)
(* is started any more; what is still queued then is dropped.  Threads,    *)
(* lists, the mutex and the condition variable are not visible here;       *)
(* ThreadPool implements this specification.                               *)
(***************************************************************************)
CONSTANT Task

VARIABLES queued, running, finished, open

vars == <<queued, running, finished, open>>

Init == queued = {} /\ running = {} /\ finished = {} /\ open = TRUE

Submit(t) ==
  /\ open /\ t \notin queued \cup running \cup finished
  /\ queued' = queued \cup {t}
  /\ UNCHANGED <<running, finished, open>>

Start(t) ==
  /\ open /\ t \in queued
  /\ queued' = queued \ {t} /\ running' = running \cup {t}
  /\ UNCHANGED <<finished, open>>

Finish(t) ==
  /\ t \in running
  /\ running' = running \ {t} /\ finished' = finished \cup {t}
  /\ UNCHANGED <<queued, open>>

Close ==
  /\ open /\ open' = FALSE
  /\ UNCHANGED <<queued, running, finished>>

Drop ==
  /\ ~open /\ queued' = {}
  /\ UNCHANGED <<running, finished, open>>

Next ==
  \/ \E t \in Task : Submit(t) \/ Start(t) \/ Finish(t)
  \/ Close \/ Drop

Spec == Init /\ [][Next]_vars
=============================================================================
