----------------------------- MODULE MCScheduler -----------------------------
(* Small instances of Scheduler.                                           *)
EXTENDS Scheduler

CONSTANTS p1, p2, k1, k2, r1, r2

(* Everything runs everywhere, but for r2, which needs k2.                 *)
CanRunSome == [i \in Requests |-> IF i = r2 THEN Workers \ {k1} ELSE Workers]
CanRunAll == [i \in Requests |-> Workers]
==============================================================================
