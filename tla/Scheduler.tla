------------------------------ MODULE Scheduler ------------------------------
(***************************************************************************)
(* Transactions that overlap: the scheduler (debusine/server/scheduler.py) *)
(* assigning work requests to workers while workers ask for work and       *)
(* report, and users abort.                                                *)
(*                                                                         *)
(* PostgreSQL runs them at READ COMMITTED.  A query sees the rows as they  *)
(* are committed when it runs.  save() writes every column of the object   *)
(* it is called on, as it was read and then changed; it takes the lock of  *)
(* the row, waiting for it, and keeps it until the end of the transaction. *)
(* select_for_update() takes the lock and reads the row again; with nowait *)
(* it fails when somebody else has the lock, and what the transaction has  *)
(* written is lost: the code catches the exception, but PostgreSQL refuses *)
(* everything that follows and COMMIT is a ROLLBACK.                       *)
(* Of a work request only its status and its worker are kept here: what    *)
(* the end of one does to others is in WorkRequests.                       *)
(***************************************************************************)
EXTENDS Integers, FiniteSets

CONSTANTS
    Procs,      \* processes: Celery workers and web server threads
    Workers,    \* external workers, of concurrency 1
    Requests,   \* bound: the rows of the table there may ever be
    CanRun,     \* the workers that can_run_on() accepts, for each request
    MayBreak,   \* requests that may turn out to be broken, or to be skipped
    MaxFailures,\* bound: transactions that are killed
    None        \* NULL, or no process

ASSUME SchedulerAssumption ==
    /\ CanRun \in [Requests -> SUBSET Workers]
    /\ MayBreak \subseteq Requests
    /\ MaxFailures \in Nat
    /\ None \notin Workers \cup Procs \cup Requests

VARIABLES
    rows,        \* the committed table
    written,     \* what each running transaction has written
    row_lock,    \* who has the lock of each request
    worker_lock, \* who has the lock of each worker
    tx,          \* what each process is doing
    failures     \* transactions killed so far

vars == <<rows, written, row_lock, worker_lock, tx, failures>>

Statuses == {"absent", "pending", "running", "completed", "aborted"}
Row == [status: Statuses, worker: Workers \cup {None}]
Absent == [status |-> "absent", worker |-> None]

(* What a process holds in local variables: the worker it deals with, the  *)
(* request it deals with, those it has yet to look at, and the objects it  *)
(* has read.                                                               *)
PCs == {"idle", "lock_worker", "query", "assign", "mark_error",
        "mark_aborted", "next", "mark_running", "mark_completed", "abort",
        "commit"}
Tx == [pc: PCs, worker: Workers \cup {None}, row: Requests \cup {None},
       todo: SUBSET Requests, read: [Requests -> Row]]

-----------------------------------------------------------------------------
Active(table, k) ==
    {i \in Requests : /\ table[i].status \in {"pending", "running"}
                      /\ table[i].worker = k}
InProgress(row) == row.status \in {"pending", "running"}
is_at_capacity(k) == Active(rows, k) # {}

(* A query of process p also sees what its own transaction wrote.          *)
Visible(p) ==
    [i \in Requests |->
        IF i \in DOMAIN written[p] THEN written[p][i] ELSE rows[i]]

Locked(p, i) == row_lock[i] \notin {None, p}

At(p, pc) == tx[p].pc = pc
Goto(p, pc) == tx' = [tx EXCEPT ![p].pc = pc]

(* A transaction at pc that remembers nothing, as at its end.              *)
Fresh(pc) == [pc |-> pc, worker |-> None, row |-> None, todo |-> {},
              read |-> [i \in Requests |-> Absent]]
Ending(p) == tx' = [tx EXCEPT ![p] = Fresh("commit")]

(* The objects a query returned; the others have not been read.            *)
Objects(table, objects) ==
    [i \in Requests |-> IF i \in objects THEN table[i] ELSE Absent]

Begin(p, pc, k, i, todo) ==
    /\ At(p, "idle")
    /\ tx' = [tx EXCEPT ![p] = [pc |-> pc, worker |-> k, row |-> i,
                                todo |-> todo,
                                read |-> Objects(rows, todo \cup {i})]]
    /\ UNCHANGED <<rows, written, row_lock, worker_lock, failures>>

(* save() of a row; new holds the rows that are written.                   *)
Save(p, new) ==
    /\ \A i \in DOMAIN new : ~Locked(p, i)
    /\ written' = [written EXCEPT ![p] =
                     [i \in DOMAIN @ \cup DOMAIN new |->
                        IF i \in DOMAIN new THEN new[i] ELSE @[i]]]
    /\ row_lock' = [i \in Requests |->
                      IF i \in DOMAIN new THEN p ELSE row_lock[i]]
    /\ UNCHANGED <<rows, worker_lock, failures>>

One(i, row) == [j \in {i} |-> row]

(* The transaction of p ends: its locks are released.                      *)
End(p) ==
    /\ written' = [written EXCEPT ![p] = <<>>]
    /\ row_lock' = [i \in Requests |-> IF row_lock[i] = p THEN None
                                                          ELSE row_lock[i]]
    /\ worker_lock' = [k \in Workers |-> IF worker_lock[k] = p THEN None
                                                      ELSE worker_lock[k]]
    /\ tx' = [tx EXCEPT ![p] = Fresh("idle")]

commit(p) ==
    /\ At(p, "commit")
    /\ rows' = Visible(p)
    /\ End(p)
    /\ UNCHANGED failures

(* The process or its database connection dies.                            *)
killed(p) ==
    /\ ~At(p, "idle")
    /\ failures < MaxFailures
    /\ failures' = failures + 1
    /\ End(p)
    /\ UNCHANGED rows

-----------------------------------------------------------------------------
(* schedule_for_worker(k), called for every idle worker by schedule(), and *)
(* by _worker_changed() in whatever process saves the worker.              *)

possible_to_schedule(p, k) ==
    /\ ~is_at_capacity(k)
    /\ Begin(p, "lock_worker", k, None, {})

(* Mutant: the worker is not locked.                                       *)
lock_worker_not(p) ==
    /\ At(p, "lock_worker")
    /\ Goto(p, "query")
    /\ UNCHANGED <<rows, written, row_lock, worker_lock, failures>>

lock_worker(p) ==
    /\ At(p, "lock_worker")
    /\ worker_lock[tx[p].worker] = None
    /\ worker_lock' = [worker_lock EXCEPT ![tx[p].worker] = p]
    /\ Goto(p, "query")
    /\ UNCHANGED <<rows, written, row_lock, failures>>

(* Mutant: the last request of the list is not looked at.                  *)
loop_short(p, todo, objects) ==
    \/ \E i \in todo :
         /\ Cardinality(todo) > 1
         /\ tx' = [tx EXCEPT ![p].pc = "assign", ![p].row = i,
                             ![p].todo = todo \ {i},
                             ![p].read = Objects(objects, todo)]
    \/ Cardinality(todo) <= 1 /\ Ending(p)

(* The loop goes on, in the order of the priorities, or the pass ends.     *)
loop(p, todo, objects) ==
    \/ \E i \in todo :
         tx' = [tx EXCEPT ![p].pc = "assign", ![p].row = i,
                          ![p].todo = todo \ {i},
                          ![p].read = Objects(objects, todo)]
    \/ todo = {} /\ Ending(p)

Continue(p) == loop(p, tx[p].todo, tx[p].read)

(* The pending requests that have no worker.                               *)
query(p) ==
    /\ At(p, "query")
    /\ LET found == {i \in Requests : /\ rows[i].status = "pending"
                                      /\ rows[i].worker = None}
       IN loop(p, found, rows)
    /\ UNCHANGED <<rows, written, row_lock, worker_lock, failures>>

(* _assign_work_request_to_worker: get_task() fails, or the worker cannot  *)
(* run the task.                                                           *)
not_assigned(p) ==
    /\ At(p, "assign")
    /\ LET i == tx[p].row
       IN \/ i \in MayBreak /\ Goto(p, "mark_error")
          \/ tx[p].worker \notin CanRun[i] /\ Continue(p)
    /\ UNCHANGED <<rows, written, row_lock, worker_lock, failures>>

(* select_for_update(nowait=True) of the worker or of the request fails.   *)
nowait_fails(p) ==
    /\ \/ At(p, "lock_worker") /\ worker_lock[tx[p].worker] # None
       \/ /\ At(p, "assign") /\ tx[p].worker \in CanRun[tx[p].row]
          /\ Locked(p, tx[p].row)
    /\ End(p)
    /\ UNCHANGED <<rows, failures>>

(* Mutant: it is assigned whatever happened since the query.               *)
locked_assign_unchecked(p) ==
    /\ At(p, "assign")
    /\ LET i == tx[p].row
           now == Visible(p)[i]
           k == tx[p].worker
       IN /\ k \in CanRun[i] /\ ~Locked(p, i)
          /\ Ending(p)
          /\ Save(p, One(i, [now EXCEPT !.worker = k]))

(* It gets the lock and reads the request again: it may have a worker by   *)
(* now.  Otherwise it is assigned, or the computation of its dynamic data  *)
(* fails, or the on_assignment reaction skips it.                          *)
locked_assign(p) ==
    /\ At(p, "assign")
    /\ LET i == tx[p].row
           now == Visible(p)[i]
           k == tx[p].worker
       IN /\ k \in CanRun[i] /\ ~Locked(p, i)
          /\ \/ /\ now.worker # None
                /\ Continue(p) /\ Save(p, One(i, now))
             \/ /\ now.worker = None
                /\ Ending(p)
                /\ Save(p, One(i, [now EXCEPT !.worker = k]))
             \/ /\ now.worker = None /\ i \in MayBreak
                /\ Goto(p, "mark_error") /\ Save(p, One(i, now))
             \/ /\ now.worker = None /\ i \in MayBreak
                /\ Continue(p)
                /\ Save(p, One(i, [status |-> IF InProgress(now)
                                              THEN "completed" ELSE now.status,
                                   worker |-> k]))

(* mark_completed(ERROR), of the object the query returned.                *)
mark_error(p) ==
    /\ At(p, "mark_error")
    /\ LET i == tx[p].row
       IN Save(p, One(i, [tx[p].read[i] EXCEPT !.status = "completed"]))
    /\ Continue(p)

-----------------------------------------------------------------------------
(* Views of the worker k (debusine/server/views/workers.py).               *)

get_next_work_request(p, k) ==
    /\ Active(rows, k) # {}
    /\ LET running == {i \in Active(rows, k) : rows[i].status = "running"}
       IN \/ running = {} /\ Begin(p, "next", k, None, {})
          \/ \E i \in running :
               Begin(p, "mark_aborted", k, i, running \ {i})

(* The next of the requests it was running, or what it is to do next.      *)
lost(p) ==
    LET todo == tx[p].todo
    IN \/ \E i \in todo :
            tx' = [tx EXCEPT ![p].pc = "mark_aborted", ![p].row = i,
                             ![p].todo = todo \ {i},
                             ![p].read = Objects(@, todo)]
       \/ /\ todo = {}
          /\ tx' = [tx EXCEPT ![p] = [Fresh("next") EXCEPT
                                        !.worker = tx[p].worker]]

(* mark_aborted() of the object the query returned, and retry(), which may *)
(* be refused.                                                             *)
mark_aborted(p) ==
    /\ At(p, "mark_aborted")
    /\ LET i == tx[p].row
           aborted == [tx[p].read[i] EXCEPT !.status = "aborted"]
       IN \/ Save(p, One(i, aborted))
          \/ \E j \in Requests :
               /\ Visible(p)[j].status = "absent" /\ ~Locked(p, j)
               /\ Save(p, [r \in {i, j} |->
                             IF r = i THEN aborted
                             ELSE [Absent EXCEPT !.status = "pending"]])
    /\ lost(p)

next_pending(p) ==
    /\ At(p, "next")
    /\ UNCHANGED <<rows, written, row_lock, worker_lock, failures>>
    /\ LET pending == {i \in Active(Visible(p), tx[p].worker) :
                          Visible(p)[i].status = "pending"}
       IN \/ \E i \in pending :
               tx' = [tx EXCEPT ![p].pc = "mark_running", ![p].row = i,
                                ![p].read = Objects(Visible(p), {i})]
          \/ pending = {} /\ Ending(p)

(* The request is handed out even when it cannot be marked as running.     *)
mark_running(p) ==
    /\ At(p, "mark_running")
    /\ LET i == tx[p].row
           k == tx[p].worker
           busy == \E j \in Active(Visible(p), k) :
                      Visible(p)[j].status = "running"
       IN \/ /\ busy
             /\ UNCHANGED <<rows, written, row_lock, worker_lock, failures>>
          \/ /\ ~busy
             /\ Save(p, One(i, [tx[p].read[i] EXCEPT !.status = "running"]))
    /\ Ending(p)

update_work_request_as_completed(p, k, i) ==
    /\ rows[i].worker = k
    /\ rows[i].status \notin {"absent", "pending"}
    /\ Begin(p, IF InProgress(rows[i]) THEN "mark_completed" ELSE "commit",
             k, i, {})

mark_completed(p) ==
    /\ At(p, "mark_completed")
    /\ LET i == tx[p].row
       IN Save(p, One(i, [tx[p].read[i] EXCEPT !.status = "completed"]))
    /\ Ending(p)

-----------------------------------------------------------------------------
(* Users.                                                                  *)

create_work_request(i) ==
    /\ rows[i].status = "absent" /\ row_lock[i] = None
    /\ rows' = [rows EXCEPT ![i].status = "pending"]
    /\ UNCHANGED <<written, row_lock, worker_lock, tx, failures>>

abort(p, i) ==
    /\ InProgress(rows[i])
    /\ Begin(p, "abort", None, i, {})

(* Its query waits for the locks and reads the rows again.  The statuses   *)
(* were looked at in a subquery, which is not evaluated again.             *)
locked_abort(p) ==
    /\ At(p, "abort")
    /\ Save(p, One(tx[p].row, [status |-> "aborted", worker |-> None]))
    /\ Ending(p)

(* Two transactions wait for each other: PostgreSQL cancels one of them.   *)
WaitsFor(p) ==
    IF tx[p].pc \in {"mark_error", "mark_aborted", "mark_running",
                     "mark_completed", "abort"}
       /\ Locked(p, tx[p].row)
    THEN row_lock[tx[p].row] ELSE None

deadlock_detected(p) ==
    /\ WaitsFor(p) # None /\ WaitsFor(WaitsFor(p)) = p
    /\ End(p)
    /\ UNCHANGED <<rows, failures>>

-----------------------------------------------------------------------------
Init ==
    /\ rows = [i \in Requests |-> Absent]
    /\ written = [p \in Procs |-> <<>>]
    /\ row_lock = [i \in Requests |-> None]
    /\ worker_lock = [k \in Workers |-> None]
    /\ tx = [p \in Procs |-> Fresh("idle")]
    /\ failures = 0

(* What a transaction that has begun does.                                 *)
Step(p) ==
    \/ lock_worker(p) \/ query(p) \/ not_assigned(p)
    \/ nowait_fails(p) \/ locked_assign(p) \/ mark_error(p)
    \/ mark_aborted(p) \/ next_pending(p) \/ mark_running(p)
    \/ mark_completed(p) \/ locked_abort(p) \/ deadlock_detected(p)
    \/ commit(p)

Schedule(k) == \E p \in Procs : possible_to_schedule(p, k)
Ask(k) == \E p \in Procs : get_next_work_request(p, k)
Report(k) == \E p \in Procs, i \in Requests :
                update_work_request_as_completed(p, k, i)

Next ==
    \/ \E p \in Procs : Step(p) \/ killed(p)
    \/ \E k \in Workers : Schedule(k) \/ Ask(k) \/ Report(k)
    \/ \E i \in Requests : \/ create_work_request(i)
                           \/ \E p \in Procs : abort(p, i)

Spec == Init /\ [][Next]_vars

(* Transactions end; the scheduler is run again and again (every five      *)
(* minutes if nothing else calls it), and workers ask and report.          *)
Fairness ==
    /\ \A p \in Procs : WF_vars(Step(p))
    /\ \A k \in Workers : SF_vars(Schedule(k)) /\ SF_vars(Ask(k))
                          /\ SF_vars(Report(k))

FairSpec == Spec /\ Fairness

-----------------------------------------------------------------------------
(* Nobody writes a row without its lock, and the pass for a worker has its *)
(* lock: there are no two passes for the same worker after lock_worker.    *)
TypeOK ==
    /\ rows \in [Requests -> Row]
    /\ tx \in [Procs -> Tx]
    /\ row_lock \in [Requests -> Procs \cup {None}]
    /\ worker_lock \in [Workers -> Procs \cup {None}]
    /\ failures \in 0..MaxFailures
    /\ \A p \in Procs : \A i \in DOMAIN written[p] :
          written[p][i] \in Row /\ row_lock[i] = p
    /\ \A p \in Procs : tx[p].pc \in {"query", "assign", "mark_error"}
          => worker_lock[tx[p].worker] = p

(* A request in progress that was given to a worker stays with it until it *)
(* ends: no two passes of the scheduler give it to two workers, whatever   *)
(* was committed between their queries and their locks.                    *)
AssignedOnce ==
    [][\A i \in Requests :
          InProgress(rows[i]) /\ rows[i].worker # None /\ InProgress(rows'[i])
          => rows'[i].worker = rows[i].worker]_vars

(* A pending request that a worker can run is assigned, or ends: passes    *)
(* that give up because of each other's nowait locks do not starve it.     *)
PendingGetsWorker ==
    \A i \in Requests :
        LET waits == rows[i].status = "pending" /\ rows[i].worker = None
        IN  waits /\ CanRun[i] # {} ~> ~waits

(* At most one pending or running request is assigned to a worker.         *)
OneRequestPerWorker == \A k \in Workers : Cardinality(Active(rows, k)) <= 1
==============================================================================
