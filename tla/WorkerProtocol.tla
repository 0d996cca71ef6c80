---------------------------- MODULE WorkerProtocol ----------------------------
(***************************************************************************)
(* External workers and the server: the WebSocket over which a worker is   *)
(* told that there is work (debusine/server/consumers.py), the HTTP calls  *)
(* with which it asks for work and reports (debusine/server/views/         *)
(* workers.py), and the worker's process (debusine/worker/_worker.py).     *)
(*                                                                         *)
(* Connections and calls are lost, worker processes and the server die and *)
(* are restarted, users abort requests and administrators disable workers. *)
(* HTTP requests are one transaction each (ATOMIC_REQUESTS) and are atomic *)
(* here: Scheduler looks into them.  A pass of the scheduler notifies the  *)
(* worker before it commits, in two steps.  Messages that a connection     *)
(* has not delivered when it breaks are lost.                              *)
(***************************************************************************)
EXTENDS Integers, Sequences, FiniteSets

CONSTANTS
    Workers,     \* external workers
    Requests,    \* bound: the rows of the table there may ever be
    Connections, \* bound: WebSockets the server has at the same time
    MaxFaults,   \* bound: connections, calls and processes that break,
                 \* workers that are disabled and requests that are aborted
    None

ASSUME WorkerProtocolAssumption ==
    /\ IsFiniteSet(Requests) /\ IsFiniteSet(Connections)
    /\ MaxFaults \in Nat
    /\ None \notin Workers \cup Requests \cup Connections

VARIABLES
    rows,       \* the committed table of work requests
    assigning,  \* what a pass that has not committed gives to each worker
    enabled,    \* the workers whose token is enabled
    connected,  \* the workers with a connected_at
    conn,       \* each connection: the consumer, and what it has sent
    proc,       \* the main coroutine of each worker's process
    lock,       \* the workers whose _task_lock is taken
    task,       \* what the executor thread of each worker does
    late,       \* calls for work that the worker no longer waits for
    faults      \* faults so far

vars == <<rows, assigning, enabled, connected, conn, proc, lock, task, late,
          faults>>
server == <<rows, assigning, enabled, connected>>
client == <<proc, lock, task, late>>

(* A consumer is accepted; its token is checked (permitted); it is in the  *)
(* group of the worker (grouped); connected_at is set (connected); it runs *)
(* the scheduler for the worker (scheduling) and has done so (checking);   *)
(* and the worker was told of its requests (open).  It is leaving after    *)
(* connected_at is reset.                                                  *)
Stages == {"accepted", "permitted", "grouped", "connected", "scheduling",
           "checking", "open", "leaving", "closed"}
InGroup == {"grouped", "connected", "scheduling", "checking", "open"}
Messages == {"work_request_available", "connection_closed"}

Statuses == {"absent", "pending", "running", "completed", "aborted"}
Row == [status: Statuses, worker: Workers \cup {None}]
Closed == [worker |-> None, stage |-> "closed", up |-> FALSE, inbox |-> <<>>]
Connection == [worker: Workers \cup {None}, stage: Stages, up: BOOLEAN,
               inbox: Seq(Messages)]
Down == [pc |-> "down", conn |-> None, answer |-> None]

Fault == faults < MaxFaults /\ faults' = faults + 1

-----------------------------------------------------------------------------
Owned(w, status) ==
    {i \in Requests : rows[i].worker = w /\ rows[i].status = status}
is_busy(w) == Owned(w, "pending") \cup Owned(w, "running") # {}

(* group_send() to the group of the worker: group is conn, or what it is   *)
(* after a change.                                                         *)
group_send(group, w, m) ==
    [c \in Connections |->
        IF group[c].worker = w /\ group[c].stage \in InGroup
        THEN [group[c] EXCEPT !.inbox = Append(@, m)] ELSE group[c]]

Unassigned ==
    {i \in Requests : /\ rows[i].status = "pending" /\ rows[i].worker = None
                      /\ \A w \in Workers : assigning[w] # i}

(* schedule_for_worker(), until its commit: nothing to do, or a request is *)
(* given to the worker and its consumers are notified.                     *)
schedule_for_worker(w, group) ==
    \/ /\ is_busy(w) \/ assigning[w] # None \/ Unassigned = {}
       /\ conn' = group
       /\ UNCHANGED assigning
    \/ /\ ~is_busy(w) /\ assigning[w] = None
       /\ \E i \in Unassigned : assigning' = [assigning EXCEPT ![w] = i]
       /\ conn' = group_send(group, w, "work_request_available")

(* The connection that waits for the pass, if a consumer runs it.          *)
RunsPass(c, w) == conn[c].worker = w /\ conn[c].stage = "scheduling"

commit(w) ==
    /\ assigning[w] # None
    /\ rows' = [rows EXCEPT ![assigning[w]].worker = w]
    /\ assigning' = [assigning EXCEPT ![w] = None]
    /\ conn' = [c \in Connections |->
                  [conn[c] EXCEPT !.stage = IF RunsPass(c, w) THEN "checking"
                                                              ELSE @]]
    /\ UNCHANGED <<enabled, connected, client, faults>>

(* The process of the pass dies.                                           *)
rollback(w) ==
    /\ assigning[w] # None /\ \A c \in Connections : ~RunsPass(c, w)
    /\ Fault
    /\ assigning' = [assigning EXCEPT ![w] = None]
    /\ UNCHANGED <<rows, enabled, connected, conn, client>>

(* schedule(): the workers of waiting_for_work_request().                  *)
schedule(w) ==
    /\ w \in connected /\ w \in enabled
    /\ ~is_busy(w) /\ assigning[w] = None /\ Unassigned # {}
    /\ schedule_for_worker(w, conn)
    /\ UNCHANGED <<rows, enabled, connected, client, faults>>

-----------------------------------------------------------------------------
(* WorkerConsumer.                                                         *)

Stage(c, from, to) ==
    /\ conn[c].stage = from
    /\ conn' = [conn EXCEPT ![c].stage = to]

(* The token is checked, and the connection may be rejected.               *)
check_permission(c) ==
    /\ conn[c].stage = "accepted"
    /\ conn' = IF conn[c].worker \in enabled
               THEN [conn EXCEPT ![c].stage = "permitted"]
               ELSE [conn EXCEPT ![c].stage = "closed",
                                 ![c].inbox = <<"connection_closed">>]
    /\ UNCHANGED <<server, client, faults>>

group_add(c) ==
    /\ Stage(c, "permitted", "grouped")
    /\ UNCHANGED <<server, client, faults>>

mark_connected(c) ==
    /\ Stage(c, "grouped", "connected")
    /\ connected' = connected \cup {conn[c].worker}
    /\ UNCHANGED <<rows, assigning, enabled, client, faults>>

(* _worker_changed(), after mark_connected() and after mark_disconnected() *)
(* have saved the worker.                                                  *)
worker_changed(c) ==
    /\ conn[c].stage \in {"connected", "leaving"}
    /\ LET w == conn[c].worker
           pass == ~is_busy(w) /\ assigning[w] = None /\ Unassigned # {}
           next == CASE conn[c].stage = "leaving" -> "closed"
                     [] pass -> "scheduling"
                     [] OTHER -> "checking"
       IN  schedule_for_worker(w, [conn EXCEPT ![c].stage = next])
    /\ UNCHANGED <<rows, enabled, connected, client, faults>>

(* Mutant: only the requests that run are looked at.                       *)
check_busy_running(c) ==
    /\ conn[c].stage = "checking"
    /\ conn' = [conn EXCEPT ![c].stage = "open",
                  ![c].inbox = IF Owned(conn[c].worker, "running") # {}
                               THEN <<"work_request_available">> \o @ ELSE @]
    /\ UNCHANGED <<server, client, faults>>

(* The end of connect(): the worker is told of what it already has, before *)
(* the messages of the group, which the consumer gets to after connect().  *)
check_busy(c) ==
    /\ conn[c].stage = "checking"
    /\ conn' = [conn EXCEPT ![c].stage = "open",
                  ![c].inbox = IF is_busy(conn[c].worker)
                               THEN <<"work_request_available">> \o @ ELSE @]
    /\ UNCHANGED <<server, client, faults>>

(* disconnect(), once the worker is gone or was told that it is disabled.  *)
(* The worker is read again and connected_at is reset, whether there is    *)
(* another connection or not.                                              *)
disconnect(c) ==
    /\ Stage(c, "open", "leaving")
    /\ \/ ~conn[c].up
       \/ \E k \in DOMAIN conn[c].inbox : conn[c].inbox[k] = "connection_closed"
    /\ connected' = connected \ {conn[c].worker}
    /\ UNCHANGED <<rows, assigning, enabled, client, faults>>

connection_lost(c) ==
    /\ conn[c].up
    /\ Fault
    /\ conn' = [conn EXCEPT ![c].up = FALSE, ![c].inbox = <<>>]
    /\ UNCHANGED <<server, client>>

(* The server dies, with the passes of its consumers, and starts again:    *)
(* mark_all_disconnected().                                                *)
server_restart ==
    /\ Fault
    /\ connected' = {}
    /\ conn' = [c \in Connections |->
                  [conn[c] EXCEPT !.stage = "closed", !.up = FALSE,
                                  !.inbox = <<>>]]
    /\ assigning' = [w \in Workers |->
                       IF \E c \in Connections : RunsPass(c, w)
                       THEN None ELSE assigning[w]]
    /\ UNCHANGED <<rows, enabled, client>>

-----------------------------------------------------------------------------
(* The worker's process.                                                   *)

PCs == {"down", "connecting", "listening", "lock", "asking", "answered",
        "refusing"}
Process == [pc: PCs, conn: Connections \cup {None},
            answer: Requests \cup {None}]
Task == [row: Requests \cup {None}, reporting: BOOLEAN]
At(w, pc) == proc[w].pc = pc
Goto(w, pc) == proc' = [proc EXCEPT ![w].pc = pc]

(* The WebSocket of the worker is closed by its own process.               *)
Hangup(w) ==
    [c \in Connections |->
        IF c = proc[w].conn THEN [conn[c] EXCEPT !.up = FALSE, !.inbox = <<>>]
                            ELSE conn[c]]

(* The process is gone: everything that it had in memory is lost.          *)
Exit(w) ==
    /\ conn' = Hangup(w)
    /\ proc' = [proc EXCEPT ![w] = Down]
    /\ lock' = lock \ {w}
    /\ task' = [task EXCEPT ![w] = [row |-> None, reporting |-> FALSE]]

start(w) ==
    /\ At(w, "down")
    /\ Goto(w, "connecting")
    /\ UNCHANGED <<server, conn, lock, task, late, faults>>

(* A connection nobody uses any more stands for a new one.                 *)
Free(c) == conn[c].stage = "closed" /\ \A w \in Workers : proc[w].conn # c

ws_connect(w, c) ==
    /\ At(w, "connecting") /\ Free(c)
    /\ conn' = [conn EXCEPT ![c] = [worker |-> w, stage |-> "accepted",
                                    up |-> TRUE, inbox |-> <<>>]]
    /\ proc' = [proc EXCEPT ![w].pc = "listening", ![w].conn = c]
    /\ UNCHANGED <<server, lock, task, late, faults>>

(* _process_message()                                                      *)
process_message(w) ==
    /\ At(w, "listening")
    /\ LET c == proc[w].conn
       IN  /\ conn[c].inbox # <<>>
           /\ conn[c].stage \in {"open", "leaving", "closed"}
           /\ \/ /\ Head(conn[c].inbox) = "work_request_available"
                 /\ conn' = [conn EXCEPT ![c].inbox = Tail(@)]
                 /\ Goto(w, "lock")
              \/ /\ Head(conn[c].inbox) = "connection_closed"
                 /\ conn' = Hangup(w)
                 /\ proc' = [proc EXCEPT ![w] = [Down EXCEPT
                                                    !.pc = "connecting"]]
    /\ UNCHANGED <<server, lock, task, late, faults>>

(* The loop over the messages ends: it connects again.                     *)
reconnect(w) ==
    /\ At(w, "listening")
    /\ LET c == proc[w].conn
       IN  /\ conn[c].inbox = <<>>
           /\ conn[c].stage = "closed" \/ ~conn[c].up
    /\ conn' = Hangup(w)
    /\ proc' = [proc EXCEPT ![w] = [Down EXCEPT !.pc = "connecting"]]
    /\ UNCHANGED <<server, lock, task, late, faults>>

(* _request_and_execute_work_request(): the task lock is taken and the     *)
(* call is made.                                                           *)
acquire(w) ==
    /\ At(w, "lock") /\ w \notin lock
    /\ lock' = lock \cup {w}
    /\ Goto(w, "asking")
    /\ UNCHANGED <<server, conn, task, late, faults>>

(* Mutant: the lock is released, as it is when there is no work.           *)
give_up_releases(w) ==
    /\ At(w, "lock") /\ w \in lock
    /\ lock' = lock \ {w}
    /\ Goto(w, "listening")
    /\ UNCHANGED <<server, conn, task, late, faults>>

(* After a minute of tries the message is dropped.                         *)
give_up(w) ==
    /\ At(w, "lock") /\ w \in lock
    /\ Goto(w, "listening")
    /\ UNCHANGED <<server, conn, lock, task, late, faults>>

(* GetNextWorkRequestView: the requests that run are aborted and retried,  *)
(* and one that is pending is marked as running.  given is what the answer *)
(* carries.                                                                *)
Given(w) ==
    IF w \notin enabled \/ Owned(w, "pending") = {} THEN {None}
                                                    ELSE Owned(w, "pending")

get_next_for_worker(w, given) ==
    LET lost == IF w \in enabled THEN Owned(w, "running") ELSE {}
    IN  \E retried \in SUBSET {i \in Requests : rows[i].status = "absent"} :
          /\ Cardinality(retried) <= Cardinality(lost)
          /\ rows' = [i \in Requests |->
               CASE i \in lost -> [rows[i] EXCEPT !.status = "aborted"]
                 [] i \in retried -> [status |-> "pending", worker |-> None]
                 [] i = given -> [rows[i] EXCEPT !.status = "running"]
                 [] OTHER -> rows[i]]

answer(w) ==
    /\ At(w, "asking")
    /\ \E given \in Given(w) :
          /\ get_next_for_worker(w, given)
          /\ proc' = [proc EXCEPT ![w].pc = "answered", ![w].answer = given]
    /\ UNCHANGED <<assigning, enabled, connected, conn, lock, task, late,
                   faults>>

(* A call that the worker gave up, or that outlived it.                    *)
answer_late(w) ==
    /\ late[w] > 0
    /\ late' = [late EXCEPT ![w] = @ - 1]
    /\ \E given \in Given(w) : get_next_for_worker(w, given)
    /\ UNCHANGED <<assigning, enabled, connected, conn, proc, lock, task,
                   faults>>

Outlives(w) == [late EXCEPT ![w] = IF At(w, "asking") THEN @ + 1 ELSE @]

(* The call fails: ClientError leaves the loop over the messages, which    *)
(* closes the WebSocket.  The task lock stays locked.                      *)
call_fails(w) ==
    /\ proc[w].pc \in {"asking", "answered"}
    /\ Fault
    /\ late' = Outlives(w)
    /\ conn' = Hangup(w)
    /\ proc' = [proc EXCEPT ![w] = [Down EXCEPT !.pc = "connecting"]]
    /\ UNCHANGED <<server, lock, task>>

no_work_request(w) ==
    /\ At(w, "answered") /\ proc[w].answer = None
    /\ lock' = lock \ {w}
    /\ Goto(w, "listening")
    /\ UNCHANGED <<server, conn, task, late, faults>>

(* _execute_work_request_and_submit_result(): the task is executed by a    *)
(* thread, or it is of the wrong type or cannot be set up, which is        *)
(* reported before anything else.                                          *)
execute(w) ==
    /\ At(w, "answered") /\ proc[w].answer # None
    /\ \E refused \in BOOLEAN :
          /\ task' = [task EXCEPT ![w] = [row |-> proc[w].answer,
                                          reporting |-> refused]]
          /\ proc' = [proc EXCEPT ![w].pc = IF refused THEN "refusing"
                                                       ELSE "listening",
                                  ![w].answer = None]
    /\ UNCHANGED <<server, conn, lock, late, faults>>

(* _send_task_result() is called when the thread is done.                  *)
send_task_result(w) ==
    /\ task[w].row # None /\ ~task[w].reporting
    /\ task' = [task EXCEPT ![w].reporting = TRUE]
    /\ UNCHANGED <<server, conn, proc, lock, late, faults>>

(* UpdateWorkRequestAsCompletedView: refused when the token is disabled or *)
(* the request is of another worker.                                       *)
Accepted(w) == w \in enabled /\ rows[task[w].row].worker = w

(* Mutant: it is completed whatever its status.                            *)
mark_completed_always(i) == rows' = [rows EXCEPT ![i].status = "completed"]

mark_completed(i) ==
    rows' = IF rows[i].status \in {"pending", "running"}
            THEN [rows EXCEPT ![i].status = "completed"] ELSE rows

(* The answer arrives: _reset_state().                                     *)
completed(w) ==
    /\ task[w].reporting /\ Accepted(w)
    /\ mark_completed(task[w].row)
    /\ task' = [task EXCEPT ![w] = [row |-> None, reporting |-> FALSE]]
    /\ lock' = lock \ {w}
    /\ proc' = [proc EXCEPT ![w].pc = IF @ = "refusing" THEN "listening"
                                                        ELSE @]
    /\ UNCHANGED <<assigning, enabled, connected, conn, late, faults>>

(* The answer is lost and the client sends the call again (Retry).         *)
completed_again(w) ==
    /\ task[w].reporting /\ Accepted(w)
    /\ Fault
    /\ mark_completed(task[w].row)
    /\ UNCHANGED <<assigning, enabled, connected, conn, client>>

(* The report is refused, or no try of it gets an answer: the worker exits *)
(* so that it connects again.                                              *)
exit_worker(w) ==
    /\ task[w].reporting
    /\ \/ ~Accepted(w) /\ UNCHANGED faults
       \/ Fault
    /\ Exit(w)
    /\ late' = Outlives(w)
    /\ UNCHANGED server

(* SIGTERM, which aborts the task and reports nothing, or a crash.         *)
killed(w) ==
    /\ ~At(w, "down")
    /\ Fault
    /\ Exit(w)
    /\ late' = Outlives(w)
    /\ UNCHANGED server

-----------------------------------------------------------------------------
(* Users and administrators.                                               *)

create_work_request(i) ==
    /\ rows[i].status = "absent"
    /\ rows' = [rows EXCEPT ![i].status = "pending"]
    /\ UNCHANGED <<assigning, enabled, connected, conn, client, faults>>

(* It waits for a pass that has the request locked.                        *)
abort(i) ==
    /\ rows[i].status \in {"pending", "running"}
    /\ \A w \in Workers : assigning[w] # i
    /\ Fault
    /\ rows' = [rows EXCEPT ![i] = [status |-> "aborted", worker |-> None]]
    /\ UNCHANGED <<assigning, enabled, connected, conn, client>>

(* debusine-admin worker disable: de_assign_worker() for its requests.     *)
disable(w) ==
    /\ w \in enabled
    /\ Fault
    /\ enabled' = enabled \ {w}
    /\ rows' = [i \in Requests |->
                  IF i \in Owned(w, "pending") \cup Owned(w, "running")
                  THEN [status |-> "pending", worker |-> None] ELSE rows[i]]
    /\ conn' = group_send(conn, w, "connection_closed")
    /\ UNCHANGED <<assigning, connected, client>>

enable(w) ==
    /\ w \notin enabled
    /\ enabled' = enabled \cup {w}
    /\ UNCHANGED <<rows, assigning, connected, conn, client, faults>>

-----------------------------------------------------------------------------
Init ==
    /\ rows = [i \in Requests |-> [status |-> "absent", worker |-> None]]
    /\ assigning = [w \in Workers |-> None]
    /\ enabled = Workers
    /\ connected = {}
    /\ conn = [c \in Connections |-> Closed]
    /\ proc = [w \in Workers |-> Down]
    /\ lock = {}
    /\ task = [w \in Workers |-> [row |-> None, reporting |-> FALSE]]
    /\ late = [w \in Workers |-> 0]
    /\ faults = 0

Consumer(c) ==
    \/ check_permission(c) \/ group_add(c) \/ mark_connected(c)
    \/ worker_changed(c) \/ check_busy(c) \/ disconnect(c)

Main(w) ==
    \/ start(w) \/ process_message(w) \/ reconnect(w) \/ acquire(w)
    \/ give_up(w) \/ no_work_request(w) \/ execute(w)
    \/ \E c \in Connections : ws_connect(w, c)

Result(w) ==
    \/ send_task_result(w) \/ completed(w) \/ exit_worker(w)

Trouble(w) ==
    \/ call_fails(w) \/ answer_late(w) \/ completed_again(w) \/ killed(w)
    \/ rollback(w)

Next ==
    \/ \E c \in Connections : Consumer(c) \/ connection_lost(c)
    \/ \E w \in Workers :
          \/ schedule(w) \/ commit(w) \/ answer(w)
          \/ Main(w) \/ Result(w) \/ Trouble(w)
          \/ disable(w) \/ enable(w)
    \/ \E i \in Requests : create_work_request(i) \/ abort(i)
    \/ server_restart

Spec == Init /\ [][Next]_vars

(* Consumers, passes, calls and processes take their next step; systemd    *)
(* starts a worker that died; the scheduler is run every few minutes.      *)
Fairness ==
    /\ \A c \in Connections : WF_vars(Consumer(c))
    /\ \A w \in Workers : /\ WF_vars(commit(w)) /\ WF_vars(answer(w))
                          /\ WF_vars(Main(w)) /\ WF_vars(Result(w))
                          /\ WF_vars(schedule(w))

FairSpec == Spec /\ Fairness

-----------------------------------------------------------------------------
(* The task lock of a worker is locked while it asks, has an answer or     *)
(* executes.                                                               *)
TypeOK ==
    /\ rows \in [Requests -> Row]
    /\ assigning \in [Workers -> Requests \cup {None}]
    /\ enabled \subseteq Workers /\ connected \subseteq Workers
    /\ conn \in [Connections -> Connection]
    /\ proc \in [Workers -> Process]
    /\ lock \subseteq Workers
    /\ task \in [Workers -> Task]
    /\ late \in [Workers -> 0..MaxFaults]
    /\ faults \in 0..MaxFaults
    /\ \A w \in Workers :
          task[w].row # None \/ proc[w].pc \in {"asking", "answered"}
          => w \in lock

(* The protocol implements WorkAttempts.                                   *)
Attempts ==
    INSTANCE WorkAttempts WITH
        status <- [i \in Requests |-> rows[i].status],
        handed <- {x \in Workers \X Requests : proc[x[1]].answer = x[2]},
        held <- {x \in Workers \X Requests : task[x[1]].row = x[2]}

(* A request is executed at most once for each time that the server hands  *)
(* it out, by a worker that executes nothing else, and every result that   *)
(* is recorded comes from a worker that has the request, whatever call is  *)
(* lost, repeated or late and whoever dies.                                *)
AttemptsHold == Attempts!Spec

(* The task lock of a worker is locked, and nothing will release it.       *)
Leaked(w) ==
    w \in lock /\ task[w].row = None /\ proc[w].pc \notin {"asking", "answered"}

Waits(i, w) == rows[i] = [status |-> "pending", worker |-> w]

(* A worker that connects gets what it already had: a request that is      *)
(* assigned to it when its connection is about to be open is started or    *)
(* taken away, unless the connection breaks or the worker is busy, or is   *)
(* disabled.                                                               *)
ConnectServes ==
    \A c \in Connections, i \in Requests, w \in Workers :
        /\ Waits(i, w) /\ conn[c].stage = "checking" /\ w \in enabled
        /\ conn[c].worker = w /\ conn[c].up
        ~> \/ ~Waits(i, w) \/ ~conn[c].up \/ w \notin enabled
           \/ task[w].row # None \/ Leaked(w)

(* A request that is assigned is started, or taken away.                   *)
AssignedGetsStarted ==
    \A i \in Requests, w \in Workers : Waits(i, w) ~> ~Waits(i, w)
==============================================================================
