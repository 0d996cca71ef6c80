---------------------------- MODULE WorkRequests ----------------------------
(***************************************************************************)
(* The life of debusine's work requests (debusine/db/models/               *)
(* work_requests.py) and of the workflows that contain them.               *)
(*                                                                         *)
(* The state is the work request table.  An operation (a view, a Celery    *)
(* task, a scheduler pass) runs in one database transaction: db is the     *)
(* table as that transaction sees it, committed the table everybody else   *)
(* sees, and calls the methods the transaction still has to execute, the   *)
(* next one first.  A method that calls others replaces its own frame by   *)
(* theirs, so a cascade (a failure aborting its reverse dependencies, which *)
(* finishes their workflow, which ...) is executed in the order of the     *)
(* code.  An empty calls commits.  What an exception does depends on who   *)
(* catches it: a Celery task rolls back; the API rolls back for a          *)
(* DebusineAPIException and commits after any other one, which its handler *)
(* turns into a response; the web UI commits after the exceptions its      *)
(* views catch and rolls back after the others.                            *)
(* Transactions are serial in this module; Scheduler.tla is about the ones *)
(* that overlap.                                                           *)
(***************************************************************************)
EXTENDS Integers, Sequences, FiniteSets

CONSTANTS
    Steps,                  \* the workflow plans have the steps 1..Steps
    Plan,                   \* what the orchestrators create for each step
    Workers,                \* external workers, of concurrency 1
    MAX_AUTOMATIC_RETRIES,  \* 3 in the code
    Outcomes,               \* how tasks end: a subset of AllOutcomes
    UserOps,                \* what users do: a subset of AllUserOps
    OrchestratorMayFail,    \* whether populate() and callbacks may raise
    MaxId                   \* bound: rows of the table

Step == 1..Steps
Id == 1..MaxId
None == 0                   \* NULL in a foreign key column
Delay == 0                  \* the step of the rows retry-with-delays creates

AllOutcomes == {"success", "failure", "error"}
AllUserOps == {"abort", "retry", "review"}
TaskTypes == {"Workflow", "Worker", "Callback", "SyncPoint", "Wait"}
Statuses == {"blocked", "pending", "running", "completed", "aborted"}
Results == {"none", "success", "failure", "error", "skipped"}
Reasons == {"worker_failed", "delay", "manual"}

(* One step of a plan: a child of the workflow step `parent' (or a request *)
(* submitted on its own, when that is 0), the steps it requires artifacts  *)
(* of, whether it looks each of them up by name (needs_all) or takes those *)
(* there are, and `delays', the length of its retry-with-delays list.      *)
PlanEntry ==
    [type: TaskTypes, parent: 0..Steps, deps: SUBSET Step,
     needs_all: BOOLEAN, allow_failure: BOOLEAN,
     unblock_strategy: {"deps", "manual"}, delays: Nat]

ASSUME WorkRequestsAssumption ==
    /\ Steps \in Nat
    /\ MaxId \in Nat
    /\ MAX_AUTOMATIC_RETRIES \in Nat
    /\ None \notin Workers
    /\ Outcomes \subseteq AllOutcomes
    /\ UserOps \subseteq AllUserOps
    /\ OrchestratorMayFail \in BOOLEAN
    /\ Plan \in [Step -> PlanEntry]
    /\ \A s \in Step : Plan[s].parent # 0 =>
          Plan[Plan[s].parent].type = "Workflow"
    \* only the sbuild workflow asks for retries, of its builds
    /\ \A s \in Step : Plan[s].delays # 0 => Plan[s].type = "Worker"
    \* the callers of provides_artifact() pass tasks, never sub-workflows
    /\ \A s \in Step : \A t \in Plan[s].deps : Plan[t].type # "Workflow"

VARIABLES
    db,         \* the table, as the running transaction sees it
    committed,  \* the table, as committed
    caller,     \* who began it: decides what becomes of it on an exception
    calls,      \* the calls the running transaction has yet to execute
    on_commit,  \* run_workflow_task calls it sends to Celery when it commits
    queued      \* run_workflow_task calls sent to Celery and not yet run

vars == <<db, committed, caller, calls, on_commit, queued>>

(* Rows and calls of a table with n rows: they refer to rows that exist.   *)
Row(n) ==
    [step: 0..Steps, parent: 0..n, deps: SUBSET (1..n), status: Statuses,
     result: Results, retry_count: Nat, supersedes: 0..n,
     worker: Workers \cup {None}]

(* Calls of methods of a work request w, with the result, reason or status *)
(* they are given; loops over work requests, and orchestrate, over steps.  *)
Methods == {"mark_aborted", "unblock_reverse_dependencies", "mark_completed",
            "process_retry_with_delays", "retry", "retry_lost", "orchestrate"}
Loops == {"abort_each", "schedule_each", "complete_each", "next_pending"}
Ops == Methods \cup Loops \cup {"maybe_finish_workflow", "retry_each"}

Call(n) ==
    {c \in [op: Ops, w: 0..n, set: (SUBSET (1..n)) \cup (SUBSET Step),
            arg: {""} \cup Results \cup Statuses \cup Reasons,
            worker: Workers \cup {None}] :
        /\ c.op \in Methods => c.w \in 1..n
        /\ c.op = "orchestrate" => c.set \subseteq Step
        /\ c.op \in Loops \cup {"retry_each"} => c.set \subseteq 1..n
        /\ c.op = "mark_completed" => c.arg \in Results
        /\ c.op = "process_retry_with_delays" => c.arg \in Statuses
        /\ c.op \in {"retry", "retry_lost", "retry_each"} => c.arg \in Reasons}

-----------------------------------------------------------------------------
(* Reading the table d.                                                    *)

DelayEntry ==
    [type |-> "Wait", parent |-> 0, deps |-> {}, needs_all |-> FALSE,
     allow_failure |-> FALSE, unblock_strategy |-> "deps", delays |-> 0]

Entry(d, i) == IF d[i].step = Delay THEN DelayEntry ELSE Plan[d[i].step]
Type(d, i) == Entry(d, i).type
AllowFailure(d, i) == Entry(d, i).allow_failure

InProgress(d, i) == d[i].status \notin {"completed", "aborted"}
Children(d, p) == {i \in DOMAIN d : d[i].parent = p}
has_children_in_progress(d, p) == \E i \in Children(d, p) : InProgress(d, i)
Superseded(d, i) == \E j \in DOMAIN d : d[j].supersedes = i
reverse_dependencies(d, i) == {j \in DOMAIN d : i \in d[j].deps}
Running(d, k) == {i \in DOMAIN d : d[i].status = "running" /\ d[i].worker = k}
Pending(d, k) == {i \in DOMAIN d : d[i].status = "pending" /\ d[i].worker = k}
is_at_capacity(d, k) == Running(d, k) \cup Pending(d, k) # {}

can_be_unblocked(d, i) ==
    /\ d[i].status = "blocked"
    /\ \/ d[i].parent = None
       \/ d[d[i].parent].status = "running"

(* Mutant: one completed dependency is enough.                             *)
unblocked_by_any(d, i) ==
    /\ can_be_unblocked(d, i)
    /\ Entry(d, i).unblock_strategy = "deps"
    /\ d[i].deps = {} \/ \E j \in d[i].deps : ~InProgress(d, j)

can_be_automatically_unblocked(d, i) ==
    /\ can_be_unblocked(d, i)
    /\ Entry(d, i).unblock_strategy = "deps"
    /\ \A j \in d[i].deps : d[j].status = "completed"

is_aborted_failed(d, i) ==
    \/ d[i].status = "aborted"
    \/ d[i].status = "completed" /\ d[i].result = "failure"

(* An attempt that succeeds replaces the promise of an artifact by the     *)
(* artifact.                                                               *)
Resolved(d, s) ==
    \E j \in DOMAIN d : d[j].step = s /\ d[j].result \in {"success", "skipped"}

(* Looking up a promise by name raises LookupError.                        *)
can_satisfy_dynamic_data(d, i) ==
    Entry(d, i).needs_all => \A s \in Entry(d, i).deps : Resolved(d, s)

(* Mutant: an attempt that was retried already can be retried again.       *)
verify_retry_again(d, i) ==
    /\ Type(d, i) # "Wait"
    /\ is_aborted_failed(d, i)
    /\ Type(d, i) = "Worker" => can_satisfy_dynamic_data(d, i)

verify_retry(d, i) ==
    /\ Type(d, i) # "Wait"
    /\ ~Superseded(d, i)
    /\ is_aborted_failed(d, i)
    /\ Type(d, i) = "Worker" => can_satisfy_dynamic_data(d, i)

verify_abort(d, i) == ~Superseded(d, i) /\ InProgress(d, i)

(* The work request that a promise still in the internal collection names. *)
(* _retry_supersede updates it only when the retried request is a child of *)
(* the workflow that has an internal collection: the root.                 *)
Promised(d, s) ==
    {i \in DOMAIN d :
        /\ d[i].step = s
        /\ ~Resolved(d, s)
        /\ IF d[i].parent # None /\ d[d[i].parent].parent = None
           THEN ~Superseded(d, i) ELSE d[i].supersedes = None}

-----------------------------------------------------------------------------
(* Writing the table: each operator returns the new one.                   *)

Set(d, i, st) == [d EXCEPT ![i].status = st]

mark_pending(d, S) ==
    [i \in DOMAIN d |->
        IF i \in S THEN [d[i] EXCEPT !.status = "pending"] ELSE d[i]]

(* Mutant: a pending request stays pending.                                *)
add_dependencies_pending(d, i, deps) == [d EXCEPT ![i].deps = @ \cup deps]

(* add_dependency, for each of the work requests deps.                     *)
add_dependencies(d, i, deps) ==
    [d EXCEPT ![i].deps = @ \cup deps,
              ![i].status =
                  IF /\ @ = "pending"
                     /\ Entry(d, i).unblock_strategy = "deps"
                     /\ \E j \in deps : d[j].status # "completed"
                  THEN "blocked" ELSE @]

NewRow(s, p, st) ==
    [step |-> s, parent |-> p, deps |-> {}, status |-> st,
     result |-> "none", retry_count |-> 0, supersedes |-> None,
     worker |-> None]

(* Mutant: reverse dependencies that are over keep the old attempt.        *)
RepointInProgress(d, i, n) ==
    [j \in DOMAIN d |->
        IF i \in d[j].deps /\ d[j].status = "pending"
        THEN [d[j] EXCEPT !.deps = (@ \ {i}) \cup {n}, !.status = "blocked"]
        ELSE d[j]]

(* Reverse dependencies of i now depend on n instead, and the pending ones *)
(* wait for it.                                                            *)
Repoint(d, i, n) ==
    [j \in DOMAIN d |->
        IF i \in d[j].deps
        THEN [d[j] EXCEPT
                 !.deps = (@ \ {i}) \cup {n},
                 !.status = IF @ = "pending"
                               /\ Entry(d, j).unblock_strategy = "deps"
                            THEN "blocked" ELSE @]
        ELSE d[j]]

(* An aborted or failed workflow runs again when a child is retried.       *)
Reopen(d, p) ==
    IF p # None /\ is_aborted_failed(d, p)
    THEN [d EXCEPT ![p].status = "running", ![p].result = "none"]
    ELSE d

retry_count(d, i, reason) ==
    IF reason = "manual" THEN 0 ELSE d[i].retry_count + 1

(* _retry_supersede: the new request is row Len(d) + 1.                    *)
retry_supersede(d, i, reason) ==
    LET n  == Len(d) + 1
        d1 == Append(d, [d[i] EXCEPT !.status = "blocked", !.result = "none",
                                     !.retry_count = retry_count(d, i, reason),
                                     !.supersedes = i, !.worker = None])
        d2 == Reopen(Repoint(d1, i, n), d[i].parent)
    IN  mark_pending(d2, {n} \cap {j \in DOMAIN d2 :
                                     can_be_automatically_unblocked(d2, j)})

-----------------------------------------------------------------------------
(* The calls of a transaction.                                             *)

Frame(op, w, set, arg) ==
    [op |-> op, w |-> w, set |-> set, arg |-> arg, worker |-> None]

CallMarkAborted(i) == Frame("mark_aborted", i, {}, "")
CallMarkCompleted(i, res) == Frame("mark_completed", i, {}, res)
CallFinish(p) == Frame("maybe_finish_workflow", p, {}, "")
CallOrchestrate(d, i) ==
    Frame("orchestrate", i,
          {s \in Step : Type(d, i) = "Workflow" /\ Plan[s].parent = d[i].step},
          "")
CallRetry(i, reason) == Frame("retry", i, {}, reason)

Top == Head(calls)
Rest == Tail(calls)
AtRest == calls = <<>>

(* The running transaction has changed its table to d, has the calls cs    *)
(* left and will send hooks; with no call left it commits, and sends them. *)
Proceed(who, d, cs, hooks) ==
    /\ db' = d
    /\ calls' = cs
    /\ caller' = IF cs = <<>> THEN "none" ELSE who
    /\ committed' = IF cs = <<>> THEN d ELSE committed
    /\ on_commit' = IF cs = <<>> THEN {} ELSE hooks
    /\ queued' = IF cs = <<>> THEN queued \cup hooks ELSE queued

ContinueWith(d, cs, hooks) == Proceed(caller, d, cs, hooks)
Continue(d, cs) == ContinueWith(d, cs, on_commit)
Begin(who, d, cs) == AtRest /\ Proceed(who, d, cs, {})

(* Mutant: what the transaction did so far stays visible.                  *)
RaiseWithoutRollback ==
    /\ db' = db
    /\ calls' = <<>>
    /\ caller' = "none"
    /\ on_commit' = {}
    /\ UNCHANGED <<committed, queued>>

(* The transaction rolls back.                                             *)
Raise ==
    /\ db' = committed
    /\ calls' = <<>>
    /\ caller' = "none"
    /\ on_commit' = {}
    /\ UNCHANGED <<committed, queued>>

(* What is left to do when an exception unwinds the calls: except clauses  *)
(* of orchestrate_workflow, which complete the workflow with an error, and *)
(* finally clauses of _retry_workflow.  No workflow to finish: no effect.  *)
Handler(c) ==
    IF c.op = "orchestrate" THEN CallMarkCompleted(c.w, "error")
    ELSE IF c.op = "maybe_finish_workflow" THEN c
    ELSE CallFinish(None)

Unwound == [k \in DOMAIN calls |-> Handler(calls[k])]

Room(n) == Len(db) + n <= MaxId

(* There is room for what the end of i with result res makes a reaction    *)
(* create.                                                                 *)
RoomToReact(i, res) ==
    \/ res = "success"
    \/ db[i].retry_count >= Entry(db, i).delays
    \/ Room(2)

-----------------------------------------------------------------------------
(* Methods of WorkRequest, executed as calls.                              *)

(* Mutant: the workflow of an aborted request is not finished.             *)
mark_aborted_only ==
    /\ ~AtRest /\ Top.op = "mark_aborted"
    /\ Continue(Set(db, Top.w, "aborted"),
                <<Frame("unblock_reverse_dependencies", Top.w, {}, "")>>
                \o Rest)

mark_aborted ==
    /\ ~AtRest /\ Top.op = "mark_aborted"
    /\ Continue(Set(db, Top.w, "aborted"),
                <<Frame("unblock_reverse_dependencies", Top.w, {}, ""),
                  CallFinish(db[Top.w].parent)>> \o Rest)

(* A loop over a query set that aborts each of its requests, in the order  *)
(* of their ids.  abort(), the user's, also takes each from its worker.    *)
abort_each ==
    /\ ~AtRest /\ Top.op = "abort_each"
    /\ \/ /\ Top.set = {}
          /\ Continue(db, Rest)
       \/ \E i \in Top.set :
            /\ \A j \in Top.set : i <= j
            /\ Continue(IF Top.arg = "manual"
                        THEN [db EXCEPT ![i].worker = None] ELSE db,
                        <<CallMarkAborted(i),
                          Frame("abort_each", 0, Top.set \ {i}, Top.arg)>>
                        \o Rest)

(* Mutant: a late result is recorded whatever became of the request.       *)
mark_completed_late ==
    /\ ~AtRest /\ Top.op = "mark_completed"
    /\ Continue([db EXCEPT ![Top.w].status = "completed",
                           ![Top.w].result = Top.arg],
                <<Frame("unblock_reverse_dependencies", Top.w, {}, ""),
                  CallFinish(db[Top.w].parent)>> \o Rest)

mark_completed ==
    /\ ~AtRest /\ Top.op = "mark_completed"
    /\ LET i == Top.w
           p == db[i].parent
       IN \/ /\ db[i].status \notin {"pending", "running"}
             /\ Continue(db, Rest)
          \/ /\ db[i].status \in {"pending", "running"}
             /\ Continue([db EXCEPT ![i].status = "completed",
                                    ![i].result = Top.arg],
                         <<Frame("unblock_reverse_dependencies", i, {}, "")>>
                         \o (IF Top.arg \in {"failure", "error"} /\ p # None
                             \* self.parent is loaded here, before the
                             \* reverse dependencies are dealt with, and used
                             \* by the reaction.
                             THEN <<Frame("process_retry_with_delays", i, {},
                                          db[p].status)>>
                             ELSE <<>>)
                         \o <<CallFinish(p)>> \o Rest)

(* Mutant: reverse dependencies of a failure are left blocked.             *)
unblock_only ==
    /\ ~AtRest /\ Top.op = "unblock_reverse_dependencies"
    /\ Continue(mark_pending(db, {j \in reverse_dependencies(db, Top.w) :
                                    can_be_automatically_unblocked(db, j)}),
                Rest)

unblock_reverse_dependencies ==
    /\ ~AtRest /\ Top.op = "unblock_reverse_dependencies"
    /\ LET i == Top.w
           rdeps == reverse_dependencies(db, i)
       IN IF db[i].result \in {"success", "skipped"} \/ AllowFailure(db, i)
          THEN Continue(mark_pending(db,
                          {j \in rdeps : can_be_automatically_unblocked(db, j)}),
                        Rest)
          ELSE Continue(db,
                 <<Frame("abort_each", 0,
                         {j \in rdeps : db[j].status = "blocked"}, "")>>
                 \o Rest)

(* The on_failure reaction: a delay task, a retry, and a dependency of the *)
(* retried request on the delay.  create_child() ends by saving the parent *)
(* object loaded by mark_completed, with the status it had then.  When the *)
(* retry is refused, CannotRetry leaves the handler with the delay created. *)
process_retry_with_delays ==
    /\ ~AtRest /\ Top.op = "process_retry_with_delays"
    /\ LET i == Top.w
           p == db[i].parent
           delay == Len(db) + 1
           d1 == Append(Set(db, p, Top.arg), NewRow(Delay, p, "pending"))
       IN \/ /\ db[i].retry_count >= Entry(db, i).delays
             /\ Continue(db, Rest)
          \/ /\ db[i].retry_count < Entry(db, i).delays
             /\ verify_retry(db, i)
             /\ Room(2)
             /\ Continue(add_dependencies(retry_supersede(d1, i, "delay"),
                                          delay + 1, {delay}),
                         Rest)
          \/ /\ db[i].retry_count < Entry(db, i).delays
             /\ ~verify_retry(db, i)
             /\ \/ caller = "task" /\ Raise
                \/ caller # "task" /\ Room(1) /\ Continue(d1, <<>>)

(* Mutant: errors do not count as failures.                                *)
FinishResultIgnoringErrors(d, p) ==
    LET last == {i \in Children(d, p) : ~Superseded(d, i)}
    IN  IF \E i \in last : d[i].status # "completed" THEN "aborted"
        ELSE IF \E i \in last : d[i].result = "failure" /\ ~AllowFailure(d, i)
        THEN "failure" ELSE "success"

FinishResult(d, p) ==
    LET last == {i \in Children(d, p) : ~Superseded(d, i)}
    IN  IF \E i \in last : d[i].status # "completed" THEN "aborted"
        ELSE IF \E i \in last : /\ d[i].result \notin {"success", "skipped"}
                                /\ ~AllowFailure(d, i)
        THEN "failure" ELSE "success"

maybe_finish_workflow ==
    /\ ~AtRest /\ Top.op = "maybe_finish_workflow"
    /\ LET p == Top.w
       IN IF p = None \/ Type(db, p) # "Workflow" \/ db[p].status # "running"
             \/ has_children_in_progress(db, p)
          THEN Continue(db, Rest)
          ELSE IF FinishResult(db, p) = "aborted"
          THEN Continue(db, <<CallMarkAborted(p)>> \o Rest)
          ELSE Continue(db, <<CallMarkCompleted(p, FinishResult(db, p))>>
                            \o Rest)

(* retry() by a user: a workflow is retried in place, with its aborted and *)
(* failed children; anything else is superseded.  The API turns CannotRetry *)
(* into a DebusineAPIException, the web UI into a message.                 *)
retry ==
    /\ ~AtRest /\ Top.op = "retry"
    /\ LET i == Top.w
       IN IF ~verify_retry(db, i)
          THEN IF caller = "api" THEN Raise ELSE Continue(db, Unwound)
          ELSE IF Type(db, i) # "Workflow"
          THEN Room(1) /\ Continue(retry_supersede(db, i, Top.arg), Rest)
          ELSE Continue([db EXCEPT ![i].status = "running",
                                   ![i].retry_count =
                                       retry_count(db, i, Top.arg)],
                        <<CallOrchestrate(db, i),
                          Frame("retry_each", i, {}, Top.arg),
                          CallFinish(i)>> \o Rest)

(* The loop of _retry_workflow over the children that were aborted or      *)
(* failed when it starts, in the order of their ids.                       *)
retry_each ==
    /\ ~AtRest /\ Top.op = "retry_each"
    /\ LET failed == {i \in Children(db, Top.w) : is_aborted_failed(db, i)}
       IN IF Top.w # None
          THEN Continue(db, <<Frame("retry_each", None, failed, Top.arg)>>
                            \o Rest)
          ELSE IF Top.set = {}
          THEN Continue(db, Rest)
          ELSE \E i \in Top.set :
                 /\ \A j \in Top.set : i <= j
                 /\ Continue(db, <<CallRetry(i, Top.arg),
                                   Frame("retry_each", None, Top.set \ {i},
                                         Top.arg)>> \o Rest)

-----------------------------------------------------------------------------
(* Workflow orchestration (debusine/server/workflows/base.py).             *)

(* The child of step s that work_request_ensure_child finds: the first     *)
(* attempt, since a retry adds its retry_count to workflow_data.           *)
Existing(d, s) ==
    {i \in DOMAIN d : d[i].step = s /\ d[i].supersedes = None}

(* work_request_ensure_child, create_workflow_callback or                  *)
(* create_synchronization_point.                                           *)
ensure_child(d, w, s) ==
    IF Existing(d, s) # {} THEN d
    ELSE Append(d, NewRow(s, w, IF Plan[s].type \in {"Worker", "Wait"}
                                THEN "blocked" ELSE "pending"))

(* requires_artifact, for everything child i needs.  A child that exists   *)
(* already gets it again, but callbacks and synchronization points are     *)
(* left alone once they exist.                                             *)
requires_artifacts(d, i, new) ==
    IF ~new /\ Type(d, i) \in {"Callback", "SyncPoint"} THEN d
    ELSE add_dependencies(d, i, UNION {Promised(d, t) : t \in Entry(d, i).deps})

(* orchestrate_workflow for a workflow callback: run it, and complete it.  *)
orchestrate_callback ==
    /\ ~AtRest /\ Top.op = "orchestrate"
    /\ Type(db, Top.w) = "Callback"
    /\ Continue(db, <<CallMarkCompleted(Top.w, "success")>> \o Rest)

(* orchestrate_workflow for a workflow.  populate() ensures one child      *)
(* after the other; a sub-workflow that requires nothing is marked running *)
(* and orchestrated whatever its status, another one only while pending.   *)
(* Then come unblock_workflow_children and, without children, completion.  *)
orchestrate_workflow ==
    /\ ~AtRest /\ Top.op = "orchestrate"
    /\ Type(db, Top.w) = "Workflow"
    /\ LET w == Top.w
           left(s) == <<Frame("orchestrate", w, Top.set \ {s}, "")>> \o Rest
       IN \/ \E s \in Top.set :
               LET new == Existing(db, s) = {}
                   d1 == ensure_child(db, w, s)
               IN \E i \in Existing(d1, s) :
                    LET d2 == requires_artifacts(d1, i, new)
                        ready == d2[i].status = "pending"
                    IN /\ \A t \in Top.set : s <= t
                       /\ new => Room(1)
                       /\ IF Plan[s].type = "Workflow"
                                /\ (ready \/ Plan[s].deps = {})
                          THEN Continue(IF ready THEN Set(d2, i, "running")
                                                 ELSE d2,
                                        <<CallOrchestrate(d2, i)>> \o left(s))
                          ELSE Continue(d2, left(s))
          \/ /\ Top.set = {} /\ Children(db, w) # {}
             /\ Continue(mark_pending(db, {i \in Children(db, w) :
                                   can_be_automatically_unblocked(db, i)}),
                         Rest)
          \/ /\ Top.set = {} /\ Children(db, w) = {}
             /\ Continue(db, <<CallMarkCompleted(w, "success")>> \o Rest)

(* The orchestrator raises WorkflowRunError, which run_workflow_task        *)
(* catches and the views that retry a workflow do not.                     *)
orchestrate_fails ==
    /\ OrchestratorMayFail
    /\ ~AtRest /\ Top.op = "orchestrate"
    /\ \/ caller = "web" /\ Raise
       \/ caller # "web" /\ Continue(db, Unwound)

run_workflow_task(i) ==
    /\ AtRest
    /\ i \in queued
    /\ calls' = <<CallOrchestrate(db, i)>>
    /\ caller' = "task"
    /\ queued' = queued \ {i}
    /\ UNCHANGED <<db, committed, on_commit>>

-----------------------------------------------------------------------------
(* The scheduler (debusine/server/scheduler.py).                           *)

Ancestors(d, i) ==
    LET anc[j \in {None} \cup DOMAIN d] ==
            IF j = None THEN {} ELSE {j} \cup anc[d[j].parent]
    IN  anc[i]

WorkflowRoot(d, i) ==
    {r \in DOMAIN d : /\ r \in Ancestors(d, i)
                      /\ d[r].parent = None /\ Type(d, r) = "Workflow"}

(* The pending requests schedule_internal selects.                         *)
Schedulable(d) ==
    {i \in DOMAIN d :
        /\ d[i].status = "pending"
        /\ \/ Type(d, i) \in {"SyncPoint", "Wait"}
           \/ /\ Type(d, i) = "Callback"
              /\ queued \cap Children(d, d[i].parent) = {}
           \/ /\ Type(d, i) = "Workflow"
              /\ queued \cap WorkflowRoot(d, i) = {}}

schedule_internal ==
    /\ Schedulable(db) # {}
    /\ Begin("task", db, <<Frame("schedule_each", 0, Schedulable(db), "")>>)

(* The roots of pending workflows are dealt with after everything else.    *)
ScheduledBefore(d, i, j) ==
    IF (Type(d, i) = "Workflow") = (Type(d, j) = "Workflow")
    THEN i <= j ELSE Type(d, j) = "Workflow"

(* One iteration of its loops, each in the order of the ids.               *)
schedule_each ==
    /\ ~AtRest /\ Top.op = "schedule_each"
    /\ \/ /\ Top.set = {}
          /\ Continue(db, Rest)
       \/ \E i \in Top.set :
            LET next == <<Frame("schedule_each", 0, Top.set \ {i}, "")>> \o Rest
                busy == on_commit \cap Children(db, db[i].parent) # {}
            IN /\ \A j \in Top.set : ScheduledBefore(db, i, j)
               /\ \/ /\ Type(db, i) = "SyncPoint"
                     /\ Continue(db, <<CallMarkCompleted(i, "success")>> \o next)
                  \/ /\ Type(db, i) = "Wait"
                     /\ Continue(Set(db, i, "running"), next)
                  \/ /\ Type(db, i) = "Callback" /\ busy
                     /\ Continue(db, next)
                  \/ /\ Type(db, i) = "Callback" /\ ~busy
                     /\ ContinueWith(Set(db, i, "running"), next,
                                     on_commit \cup {i})
                  \/ /\ Type(db, i) = "Workflow"
                     /\ \E r \in WorkflowRoot(db, i) :
                          ContinueWith(IF db[r].status = "pending"
                                       THEN Set(db, r, "running") ELSE db,
                                       next, on_commit \cup {r})

(* Wait tasks run until some of the delays have expired; externaldebsign   *)
(* is one of them too, completed by the view that provides the signature.  *)
complete_delay_tasks ==
    /\ \E S \in SUBSET {i \in DOMAIN db : Type(db, i) = "Wait"
                                         /\ db[i].status = "running"} :
         /\ S # {}
         /\ Begin("task", db, <<Frame("complete_each", 0, S, "")>>)

complete_each ==
    /\ ~AtRest /\ Top.op = "complete_each"
    /\ \/ /\ Top.set = {}
          /\ Continue(db, Rest)
       \/ \E i \in Top.set :
            /\ \A j \in Top.set : i <= j
            /\ Continue(db, <<CallMarkCompleted(i, "success"),
                              Frame("complete_each", 0, Top.set \ {i}, "")>>
                            \o Rest)

(* An iteration of schedule_for_worker: the request is assigned, skipped   *)
(* by an on_assignment reaction, or found to be broken.                    *)
Assignable(k, i) ==
    /\ ~is_at_capacity(db, k)
    /\ i \in Pending(db, None)
    /\ Type(db, i) = "Worker"

assign_worker(k, i) ==
    /\ Assignable(k, i)
    /\ Begin("task", [db EXCEPT ![i].worker = k], <<>>)

assign_skipped(k, i) ==
    /\ Assignable(k, i)
    /\ Begin("task", [db EXCEPT ![i].worker = k],
             <<CallMarkCompleted(i, "skipped")>>)

assign_failed(k, i) ==
    /\ "error" \in Outcomes
    /\ Assignable(k, i)
    /\ RoomToReact(i, "error")
    /\ Begin("task", db, <<CallMarkCompleted(i, "error")>>)

-----------------------------------------------------------------------------
(* Views used by workers (debusine/server/views/workers.py).               *)

(* A worker that asks for work while the table says that it is running     *)
(* something was restarted: that request is aborted and retried.           *)
get_next_work_request(k) ==
    /\ Running(db, k) \cup Pending(db, k) # {}
    /\ LET next == <<[Frame("next_pending", 0, {}, "") EXCEPT !.worker = k]>>
       IN \/ /\ Running(db, k) = {}
             /\ Begin("api", db, next)
          \/ \E i \in Running(db, k) :
               /\ Room(1)
               /\ Begin("api", db,
                        <<CallMarkAborted(i),
                          Frame("retry_lost", i, {}, "worker_failed")>> \o next)

(* CannotRetry is caught here: too many automatic retries, or lookups that *)
(* can no longer be satisfied.                                             *)
retry_lost ==
    /\ ~AtRest /\ Top.op = "retry_lost"
    /\ \/ /\ verify_retry(db, Top.w)
          /\ db[Top.w].retry_count < MAX_AUTOMATIC_RETRIES
          /\ Room(1)
          /\ Continue(retry_supersede(db, Top.w, Top.arg), Rest)
       \/ Continue(db, Rest)

next_pending ==
    /\ ~AtRest /\ Top.op = "next_pending"
    /\ LET mine == Pending(db, Top.worker)
       IN \/ /\ mine = {}
             /\ Continue(db, Rest)
          \/ \E i \in mine : Continue(Set(db, i, "running"), Rest)

(* The worker reports on what it ran, perhaps late.                        *)
update_work_request_as_completed(i, res) ==
    /\ db[i].worker # None
    /\ db[i].status \notin {"blocked", "pending"}
    /\ RoomToReact(i, res)
    /\ Begin("api", db, <<CallMarkCompleted(i, res)>>)

-----------------------------------------------------------------------------
(* Views used by users.                                                    *)

(* create_workflow, or a work request submitted outside any workflow.      *)
create_work_request(s) ==
    /\ Plan[s].parent = 0
    /\ \A i \in DOMAIN db : db[i].step # s
    /\ Room(1)
    /\ Begin("api", Append(db, NewRow(s, None, "pending")), <<>>)

abort(i) ==
    /\ "abort" \in UserOps
    /\ verify_abort(db, i)
    /\ Begin("web", db, <<Frame("abort_each", 0,
                                {j \in DOMAIN db : /\ i \in Ancestors(db, j)
                                                   /\ verify_abort(db, j)},
                                "manual")>>)

user_retry(i) ==
    /\ "retry" \in UserOps
    /\ verify_retry(db, i)
    /\ Room(1 + Cardinality(Children(db, i)))
    /\ \E who \in {"api", "web"} :
         Begin(who, db, <<CallRetry(i, "manual")>>)

review_manual_unblock(i) ==
    /\ "review" \in UserOps
    /\ Entry(db, i).unblock_strategy = "manual"
    /\ db[i].parent # None
    /\ can_be_unblocked(db, i)
    /\ \/ Begin("web", mark_pending(db, {i}), <<>>)        \* ACCEPT
       \/ Begin("web", db, <<CallMarkAborted(i)>>)         \* REJECT

-----------------------------------------------------------------------------
Init ==
    /\ db = <<>>
    /\ committed = <<>>
    /\ caller = "none"
    /\ calls = <<>>
    /\ on_commit = {}
    /\ queued = {}

Method ==
    \/ mark_aborted \/ abort_each \/ mark_completed
    \/ unblock_reverse_dependencies \/ process_retry_with_delays
    \/ maybe_finish_workflow \/ retry \/ retry_each
    \/ orchestrate_callback \/ orchestrate_workflow \/ orchestrate_fails
    \/ schedule_each \/ complete_each \/ retry_lost \/ next_pending

Reports(k, statuses) ==
    \E i \in DOMAIN db, res \in Outcomes :
        /\ db[i].worker = k /\ db[i].status \in statuses
        /\ update_work_request_as_completed(i, res)

Worker(k) == get_next_work_request(k) \/ Reports(k, {"running"})

Assign(k) ==
    \E i \in DOMAIN db : \/ assign_worker(k, i) \/ assign_skipped(k, i)
                         \/ assign_failed(k, i)

User ==
    \/ \E s \in Step : create_work_request(s)
    \/ \E i \in DOMAIN db : \/ abort(i) \/ user_retry(i)
                            \/ review_manual_unblock(i)

Next ==
    \/ Method
    \/ User
    \/ schedule_internal
    \/ \E i \in queued : run_workflow_task(i)
    \/ complete_delay_tasks
    \/ \E k \in Workers : \/ Assign(k) \/ Worker(k)
                         \/ Reports(k, {"completed", "aborted"})

Spec == Init /\ [][Next]_vars

(* A transaction that began ends.  The scheduler and Celery run (the beat  *)
(* calls the scheduler every five minutes whatever was missed), delays     *)
(* expire, a worker with something to do asks for it or reports on it; the *)
(* transactions of others may delay them (they are serial here), but not   *)
(* forever: hence strong fairness.  Users need not do anything.            *)
Fairness ==
    /\ WF_vars(Method)
    /\ SF_vars(schedule_internal)
    /\ SF_vars(\E i \in queued : run_workflow_task(i))
    /\ SF_vars(complete_delay_tasks)
    /\ \A k \in Workers : SF_vars(Assign(k)) /\ SF_vars(Worker(k))

FairSpec == Spec /\ Fairness

-----------------------------------------------------------------------------
(* Properties.  They are about the committed table.                        *)

(* Rows, calls and queued tasks are well-formed and only ever refer to     *)
(* rows that exist, also after a rollback; between transactions the table  *)
(* is the committed one.                                                   *)
TypeOK ==
    /\ db \in Seq(Row(Len(db)))
    /\ committed \in Seq(Row(Len(committed)))
    /\ Len(committed) <= Len(db) /\ Len(db) <= MaxId
    /\ calls \in Seq(Call(Len(db)))
    /\ on_commit \subseteq 1..Len(db)
    /\ queued \subseteq 1..Len(committed)
    /\ caller \in {"none", "task", "api", "web"}
    /\ AtRest => db = committed /\ on_commit = {}
    /\ AtRest <=> caller = "none"

Unfinished(d, p) ==
    /\ Type(d, p) = "Workflow" /\ d[p].status = "running"
    /\ ~has_children_in_progress(d, p)

(* No path that ends a work request forgets maybe_finish_workflow(): a     *)
(* running workflow has a child in progress, or has yet to be populated.   *)
NoMissedFinish ==
    AtRest => \A p \in DOMAIN db : Unfinished(db, p) => p \in queued

(* A workflow that succeeded has no child whose last attempt failed, was   *)
(* aborted or is unfinished, unless that child is allowed to fail.         *)
SuccessIsHonest ==
    \A p, i \in DOMAIN committed :
        /\ committed[p].status = "completed" /\ committed[p].result = "success"
        /\ i \in Children(committed, p)
        /\ ~Superseded(committed, i) /\ ~AllowFailure(committed, i)
        => /\ committed[i].status = "completed"
           /\ committed[i].result \in {"success", "skipped"}

(* A request is pending only once all its dependencies have completed,     *)
(* whatever was retried, superseded or delayed in between.                 *)
PendingDepsDone ==
    \A i \in DOMAIN committed :
        committed[i].status = "pending"
        /\ Entry(committed, i).unblock_strategy = "deps"
        => \A j \in committed[i].deps : committed[j].status = "completed"

(* A blocked child of a running workflow waits for something that can      *)
(* still happen: a dependency in progress, or a review.                    *)
NoStuckChild ==
    \A i \in DOMAIN committed :
        /\ committed[i].status = "blocked"
        /\ committed[i].parent # None
        /\ committed[committed[i].parent].status = "running"
        /\ Entry(committed, i).unblock_strategy = "deps"
        => \E j \in committed[i].deps : InProgress(committed, j)

(* The history a superseded request is kept for is never rewritten.        *)
SupersededFrozen ==
    [][\A i \in DOMAIN committed :
          Superseded(committed, i) =>
              /\ committed'[i].status = committed[i].status
              /\ committed'[i].result = committed[i].result]_vars

IsChain(d) ==
    \A i \in DOMAIN d :
        LET old == d[i].supersedes
        IN  old # None =>
              /\ old < i
              /\ d[old].step = d[i].step
              /\ d[old].parent = d[i].parent
              /\ \A j \in DOMAIN d : d[j].supersedes = old => j = i

(* The attempts at a task form one chain: each is superseded at most once  *)
(* (supersedes is a one-to-one field: a second retry of the same attempt   *)
(* would be an IntegrityError), by a later one for the same task in the    *)
(* same workflow.  Also while a transaction is under way.                  *)
HistoryIsAChain == IsChain(db) /\ IsChain(committed)

(* No work request waits for an attempt that has been superseded: a retry  *)
(* redirects everything that depended on, or was promised an artifact by,  *)
(* the old attempt.                                                        *)
NoStaleDependency ==
    \A i \in DOMAIN committed : \A j \in committed[i].deps :
        InProgress(committed, i) => ~Superseded(committed, j)

(* A workflow that runs ends: no sequence of failures, lost workers,       *)
(* aborts and automatic retries leaves it running forever.                 *)
WorkflowTerminates ==
    \A s \in {t \in Step : Plan[t].type = "Workflow"} :
        LET Of(p) == p \in DOMAIN committed /\ committed[p].step = s
        IN  (\E p \in Id : Of(p) /\ committed[p].status = "running")
            ~> (\E p \in Id : Of(p) /\ ~InProgress(committed, p))
=============================================================================
