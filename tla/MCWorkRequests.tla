--------------------------- MODULE MCWorkRequests ---------------------------
(* Small plans for WorkRequests.                                           *)
EXTENDS WorkRequests

CONSTANTS k1, k2

(* The usual plan entry: a worker task of workflow step p.                 *)
Task(p, deps) ==
    [type |-> "Worker", parent |-> p, deps |-> deps, needs_all |-> FALSE,
     allow_failure |-> FALSE, unblock_strategy |-> "deps", delays |-> 0]
Workflow(p) == [Task(p, {}) EXCEPT !.type = "Workflow"]

(* A build in a sub-workflow, another sub-workflow that cannot be populated *)
(* before the build is done, two workflow callbacks after it, and a        *)
(* sub-workflow that turns out to have nothing to do.                      *)
NestedPlan ==
    <<Workflow(0),
      Workflow(1),
      [Task(2, {}) EXCEPT !.delays = 1],
      [Workflow(1) EXCEPT !.deps = {3}],
      [Task(4, {3}) EXCEPT !.type = "SyncPoint"],
      [Task(1, {3}) EXCEPT !.type = "Callback"],
      [Task(1, {3}) EXCEPT !.type = "Callback"],
      Workflow(1)>>

(* A sub-workflow with a retried build and a test that needs the build.    *)
SubPipelinePlan ==
    <<Workflow(0),
      Workflow(1),
      [Task(2, {}) EXCEPT !.delays = 1],
      Task(2, {3})>>

(* A build with one delayed retry and a publication that somebody has to   *)
(* approve and that needs it.                                              *)
ReviewPlan ==
    <<Workflow(0),
      [Task(1, {}) EXCEPT !.delays = 1],
      [Task(1, {2}) EXCEPT !.unblock_strategy = "manual"]>>
=============================================================================
