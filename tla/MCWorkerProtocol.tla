--------------------------- MODULE MCWorkerProtocol ---------------------------
(***************************************************************************)
(* Instances of WorkerProtocol for TLC.                                    *)
(***************************************************************************)
EXTENDS WorkerProtocol

CONSTANTS w1, w2, r1, r2, c1, c2
==============================================================================
