------------------------------- MODULE MCTfeRuns -------------------------------
(* Instances of TfeRuns for TLC.                                           *)
EXTENDS TfeRuns, TLC

CONSTANTS r1, r2

Symmetry == Permutations(Runs)

\* Users upload under an executor's lock where the other faults do not multiply
\* the states; the demo server runs terraform itself; a lost answer of the
\* sidecar is nothing to a terraform without one.
Covered ==
  /\ uploads # {} => fault \in {"blob", "crash"}
  /\ inMemory => ~remote
  /\ ~remote => fault # "lostStart"
=============================================================================
