------------------------------ MODULE BatchOrder ------------------------------
(***************************************************************************)
(* What the scheduler promises about one batch: a job is released after    *)
(* its parents are done, it is done after it was released, and the batch   *)
(* is complete, and its pull request merged, after all jobs are done.      *)
(***************************************************************************)
CONSTANTS Jobs, Parents

VARIABLES released,  \* jobs a CI run was created for
          done,      \* jobs that have reported success
          complete,  \* the batch is marked succeeded
          merged     \* the pull request is merged

vars == <<released, done, complete, merged>>

Init == released = {} /\ done = {} /\ complete = FALSE /\ merged = FALSE

Release(j) ==
  /\ Parents[j] \subseteq done
  /\ released' = released \cup {j}
  /\ UNCHANGED <<done, complete, merged>>

Finish(j) ==
  /\ j \in released
  /\ done' = done \cup {j}
  /\ UNCHANGED <<released, complete, merged>>

Complete == done = Jobs /\ complete' = TRUE /\ UNCHANGED <<released, done, merged>>

Merge == done = Jobs /\ merged' = TRUE /\ UNCHANGED <<released, done, complete>>

Next == (\E j \in Jobs : Release(j) \/ Finish(j)) \/ Complete \/ Merge

Spec == Init /\ [][Next]_vars
=============================================================================
