----------------------------- MODULE MCWorkerPools -----------------------------
(***************************************************************************)
(* Instances of WorkerPools for TLC.                                       *)
(***************************************************************************)
EXTENDS WorkerPools

CONSTANTS provisioner, admin, pool

OnePool == <<pool>>
InPool == [m \in Members |-> pool]
Two == [k \in {pool} |-> 2]
One == [k \in {pool} |-> 1]
==============================================================================
