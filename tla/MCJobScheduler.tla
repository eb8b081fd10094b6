---------------------------- MODULE MCJobScheduler ----------------------------
(* Instances of JobScheduler for TLC.                                      *)
EXTENDS JobScheduler, TLC

CONSTANTS vpc, eks, app

\* A tree of dependencies: eks and app wait for vpc.
Tree == [j \in Jobs |-> IF j = vpc THEN {} ELSE {vpc}]

\* A chain, and a root beside it.
Chain == [j \in Jobs |-> IF j = eks THEN {vpc} ELSE {}]

\* Projects without dependencies.
Flat == [j \in Jobs |-> {}]

AllFaults == {"db", "call", "lostAck", "reply", "refuse", "comment", "fail", "kill",
              "rerun", "crash", "cronCrash", "fastCI"}
=============================================================================
