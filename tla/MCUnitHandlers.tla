---------------------------- MODULE MCUnitHandlers ----------------------------
(* Instances of UnitHandlers for TLC.                                      *)
EXTENDS UnitHandlers, TLC

CONSTANTS alice, bob, l1, l2

\* Histories are cut where nothing is claimed of them any more: at the answer to
\* a deletion, where another call overlapped it, and over S3 where two calls on
\* the lock overlapped, or any two and a version was restored (then only
\* LockStands and RowTellsLock are left to hold, and neither reads the content).
Covered ==
  /\ deletion => "race" \notin seen /\ \E p \in Procs : op[p] = "delete" /\ Busy(p)
  /\ store = "s3" /\ "race" \in seen => "lockRace" \notin seen /\ restored = 0

Symmetry == Permutations(Procs) \cup Permutations(LockIDs)
=============================================================================
