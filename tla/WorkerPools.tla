----------------------------- MODULE WorkerPools -----------------------------
(***************************************************************************)
(* Workers in the cloud: the provisioner (debusine/server/provisioning.py) *)
(* terminates the idle ones and launches others for the load, pools        *)
(* (debusine/db/models/worker_pools.py) do so through the API of a         *)
(* provider, and administrators use the same methods from the command      *)
(* line.                                                                   *)
(*                                                                         *)
(* Nothing of this runs in one transaction: objects that a query returned  *)
(* are used, and saved with all of their columns, after calls to the       *)
(* provider, while instances boot, register, work and vanish.  A member of *)
(* a pool is a row that is used again for one instance after another.      *)
(* save() of a worker also runs a pass of the scheduler for it.            *)
(***************************************************************************)
EXTENDS Integers, Sequences, FiniteSets

CONSTANTS
    Procs,        \* processes: the provisioner and the command line
    Provisioner,  \* the one of them that Celery runs provision() in
    Pools,        \* pools, in the order of allocation_pools
    Members,      \* bound: members there may be; their names are numbers
    PoolOf,       \* the pool of each member
    max_active_instances, \* of each pool, or None
    TASK_DURATION, TARGET_LATENCY,
    Quotas,               \* whether there are quotas of seconds per month
    static_workers,       \* connected workers that are in no pool
    Instances,    \* bound: instances that are ever created, by id
    Requests,     \* bound: work requests there may ever be, by id
    MaxEvents,    \* bound: processes that die, calls that fail, instances
                  \* that vanish, and commands of administrators, together
    None

ASSUME WorkerPoolsAssumption ==
    /\ Provisioner \in Procs
    /\ \A ids \in {Members, Instances, Requests} :
          ids \subseteq Nat /\ IsFiniteSet(ids)
    /\ Pools \in Seq({PoolOf[m] : m \in Members})
    /\ \A m \in Members : max_active_instances[PoolOf[m]] \in Int \cup {None}
    /\ TASK_DURATION \in Nat /\ TARGET_LATENCY \in Nat \ {0}
    /\ Quotas \in BOOLEAN
    /\ static_workers \in Nat /\ MaxEvents \in Nat
    /\ None \notin Procs \cup Nat

VARIABLES
    worker,      \* the rows of the members
    activations, \* instances whose activation token is enabled
    deleted,     \* instances whose activation token is deleted
    tokens,      \* instances whose worker token is enabled
    cloud,       \* the state of each instance
    request,     \* the rows of the work requests
    recent,      \* members that were registered or launched, and requests
                 \* that ended, less than ten minutes ago
    row_lock,    \* who has the row of each member locked
    proc,        \* what each process is doing
    faults, commands

db == <<worker, activations, deleted, tokens, request, recent, row_lock>>
vars == <<db, cloud, proc, faults, commands>>

(* instance stands for instance_created_at and worker_pool_data, which are *)
(* set together.  An instance makes its own token; the activation token it *)
(* was launched with is named after it, and nobody knows that of a row     *)
(* that has just been created.  known: it has sent its dynamic metadata.   *)
Row == [exists: BOOLEAN, instance: Instances \cup {None},
        activation: Instances \cup {None}, token: Instances \cup {None},
        connected: BOOLEAN, known: BOOLEAN]
NoRow == [exists |-> FALSE, instance |-> None, activation |-> None,
          token |-> None, connected |-> FALSE, known |-> FALSE]
States == {"unused", "booting", "ready", "gone", "vanished"}
Request == [status: {"absent", "pending", "running", "completed", "aborted"},
            worker: Members \cup {None}]

PCs == {"idle", "terminate", "api", "save", "retry", "allocate", "create",
        "pick", "launch", "commit"}
Process == [pc: PCs, member: Members \cup {None}, todo: SUBSET Members,
            objects: [Members -> Row], pool: 0 .. Len(Pools) + 1,
            count: Nat, required: Nat, instance: Instances \cup {None}]
Idle == [pc |-> "idle", member |-> None, todo |-> {},
         objects |-> [m \in Members |-> NoRow], pool |-> 0,
         count |-> 0, required |-> 0, instance |-> None]

-----------------------------------------------------------------------------
At(p, pc) == proc[p].pc = pc
Become(p, state) == proc' = [proc EXCEPT ![p] = state]
Free(p, m) == row_lock[m] \in {None, p}
In(pool) == {m \in Members : worker[m].exists /\ PoolOf[m] = pool}
Alive == {i \in Instances : cloud[i] \in {"booting", "ready"}}
Least(ids) == CHOOSE n \in ids : \A k \in ids : n <= k
First(count, ids) == {n \in ids : Cardinality({k \in ids : k < n}) < count}
Smaller(a, b) == IF a < b THEN a ELSE b

Assigned(m) == {r \in Requests : request[r].worker = m}
With(m, status) == {r \in Assigned(m) : request[r].status = status}
Over(m) == With(m, "completed") \cup With(m, "aborted")
Waiting == {r \in Requests : request[r].status = "pending"
                             /\ request[r].worker = None}

(* schedule_for_worker(), when the row of m is saved as row: whoever it    *)
(* is, connected and enabled or not.                                       *)
schedule_for_worker(m, row) ==
    IF row.known /\ With(m, "pending") \cup With(m, "running") = {}
                 /\ Waiting # {}
    THEN \E r \in Waiting : request' = [request EXCEPT ![r].worker = m]
    ELSE UNCHANGED request

Save(m, row) ==
    /\ worker' = [worker EXCEPT ![m] = row]
    /\ schedule_for_worker(m, row)

-----------------------------------------------------------------------------
(* terminate_worker(), of an object that was read before.                  *)

(* Mutant: there is no default for workers that never had a request.       *)
idle_null(m) ==
    /\ worker[m].exists
    /\ With(m, "running") = {}
    /\ Over(m) # {} /\ Over(m) \cap recent = {}

(* with_idle_time() of more than ten minutes.  It is NULL as long as no    *)
(* request of the worker has ended.                                        *)
idle(m) ==
    /\ worker[m].exists
    /\ With(m, "running") = {}
    /\ IF Assigned(m) = {} THEN m \notin recent
       ELSE Over(m) # {} /\ Over(m) \cap recent = {}

(* The next worker of the list.  provision() ends after the last one.      *)
NextWorker(p, todo, objects) ==
    IF todo = {} THEN {Idle}
    ELSE {[Idle EXCEPT !.pc = "terminate", !.member = m, !.todo = todo \ {m},
                       !.objects = [k \in Members |-> IF k \in todo
                                       THEN objects[k] ELSE NoRow]] :
             m \in todo}

(* The object that terminate_worker() was called with.                     *)
Object(p) == proc[p].objects[proc[p].member]

(* Mutant: only the activation token is disabled.                          *)
terminate_worker_enabled(p) ==
    /\ At(p, "terminate") /\ Object(p).activation \notin deleted
    /\ activations' = activations \ {Object(p).activation}
    /\ Become(p, [proc[p] EXCEPT !.pc = "api"])
    /\ UNCHANGED <<worker, deleted, tokens, request, recent, row_lock, cloud,
                   faults, commands>>

(* Its tokens are disabled, in a transaction of their own.                 *)
terminate_worker(p) ==
    /\ At(p, "terminate") /\ Object(p).activation \notin deleted
    /\ activations' = activations \ {Object(p).activation}
    /\ tokens' = tokens \ {Object(p).token}
    /\ Become(p, [proc[p] EXCEPT !.pc = "api"])
    /\ UNCHANGED <<worker, deleted, request, recent, row_lock, cloud, faults,
                   commands>>

(* The activation token of the object was used since the object was read:  *)
(* it cannot be loaded (DoesNotExist).  Or it was replaced by a launch     *)
(* before the object is saved (IntegrityError).                            *)
token_deleted(p) ==
    /\ \/ At(p, "terminate")
       \/ At(p, "save") /\ Free(p, proc[p].member)
    /\ Object(p).activation \in deleted
    /\ Become(p, Idle)
    /\ UNCHANGED <<db, cloud, faults, commands>>

(* Mutant: an instance that has not booted yet is left alone.              *)
terminate_instance_ready(p) ==
    /\ At(p, "api")
    /\ cloud' = [i \in Instances |->
                   IF i = Object(p).instance /\ cloud[i] = "ready" THEN "gone"
                   ELSE cloud[i]]
    /\ Become(p, [proc[p] EXCEPT !.pc = "save"])
    /\ UNCHANGED <<db, faults, commands>>

(* The provider terminates the instance, if it still has it.               *)
terminate_instance(p) ==
    /\ At(p, "api")
    /\ cloud' = [i \in Instances |->
                   IF i = Object(p).instance /\ i \in Alive THEN "gone"
                                                            ELSE cloud[i]]
    /\ Become(p, [proc[p] EXCEPT !.pc = "save"])
    /\ UNCHANGED <<db, faults, commands>>

save_terminated(p) ==
    /\ At(p, "save") /\ Free(p, proc[p].member)
    /\ Object(p).activation \notin deleted
    /\ Save(proc[p].member, [Object(p) EXCEPT !.instance = None])
    /\ Become(p, [proc[p] EXCEPT !.pc = "retry"])
    /\ UNCHANGED <<activations, deleted, tokens, recent, row_lock, cloud, faults,
                   commands>>

(* What ran on it is aborted and, unless it was too often, retried.        *)
GiveUp(lost, retried) ==
    [r \in Requests |->
        IF r \in lost THEN [request[r] EXCEPT !.status = "aborted"]
        ELSE IF r \in retried THEN [status |-> "pending", worker |-> None]
        ELSE request[r]]
Absent == {r \in Requests : request[r].status = "absent"}
Retries(lost) == {First(n, Absent) : n \in 0 .. Cardinality(lost)}

(* Mutant: only the requests that are aborted already are retried.         *)
retry_running_aborted(p) ==
    /\ At(p, "retry")
    /\ \E retried \in Retries(With(proc[p].member, "aborted")) :
          request' = GiveUp({}, retried)
    /\ \E next \in NextWorker(p, proc[p].todo, proc[p].objects) :
          Become(p, next)
    /\ UNCHANGED <<worker, activations, deleted, tokens, recent, row_lock,
                   cloud, faults, commands>>

retry_running(p) ==
    /\ At(p, "retry")
    /\ LET lost == With(proc[p].member, "running")
       IN  /\ \E retried \in Retries(lost) : request' = GiveUp(lost, retried)
           /\ recent' = recent \cup lost
    /\ \E next \in NextWorker(p, proc[p].todo, proc[p].objects) :
          Become(p, next)
    /\ UNCHANGED <<worker, activations, deleted, tokens, row_lock, cloud, faults,
                   commands>>

-----------------------------------------------------------------------------
(* provision()                                                             *)

(* terminate_idle(): the list is read at once.  If it is empty, there may  *)
(* be workers to launch.                                                   *)
provision(p) ==
    /\ p = Provisioner /\ At(p, "idle")
    /\ LET found == {m \in Members : idle(m)}
       IN  IF found # {}
           THEN \E next \in NextWorker(p, found, worker) : Become(p, next)
           ELSE Become(p, [Idle EXCEPT !.pc = "allocate"])
    /\ UNCHANGED <<db, cloud, faults, commands>>

(* Every request there is counts as pending.                               *)
pending_task_count == Cardinality(Requests \ Absent)
CeilDiv(a, b) == (a + b - 1) \div b
workers_required ==
    LET n == pending_task_count
        seconds == TASK_DURATION * (n - 1)
        needed == Smaller(CeilDiv(seconds, TARGET_LATENCY), n)
    IN  IF n = 0 THEN 0 ELSE IF needed < 1 THEN 1 ELSE needed
workers_available ==
    static_workers + Cardinality({m \in Members : worker[m].exists})

limit_by_max_active_instances(pool, amount) ==
    LET available == max_active_instances[pool] - Cardinality(In(pool))
    IN  IF max_active_instances[pool] = None THEN amount
        ELSE IF available <= 0 THEN 0 ELSE Smaller(amount, available)

(* target_max_seconds_per_month of the pool and of the scope may leave     *)
(* less than amount.                                                       *)
Quota(amount) == IF Quotas THEN 0 .. amount ELSE {amount}

(* process_scope(): what is missing is taken from one pool after another.  *)
process_scope(p) ==
    /\ At(p, "allocate") /\ proc[p].pool = 0
    /\ IF workers_required <= workers_available THEN Become(p, Idle)
       ELSE Become(p, [proc[p] EXCEPT !.pool = 1,
                          !.required = workers_required - workers_available])
    /\ UNCHANGED <<db, cloud, faults, commands>>

(* Mutant: max_active_instances is not looked at.                          *)
allocate_workers_unlimited(p) ==
    /\ At(p, "allocate") /\ proc[p].pool > 0
    /\ LET k == proc[p].pool
       IN  IF proc[p].required = 0 \/ k > Len(Pools) THEN Become(p, Idle)
           ELSE \E amount \in Quota(proc[p].required) :
                  Become(p, IF amount = 0
                            THEN [proc[p] EXCEPT !.pool = k + 1]
                            ELSE [proc[p] EXCEPT !.pc = "create",
                                     !.count = amount,
                                     !.required = @ - amount])
    /\ UNCHANGED <<db, cloud, faults, commands>>

allocate_workers(p) ==
    /\ At(p, "allocate") /\ proc[p].pool > 0
    /\ LET k == proc[p].pool
       IN  IF proc[p].required = 0 \/ k > Len(Pools) THEN Become(p, Idle)
           ELSE \E amount \in
                   Quota(limit_by_max_active_instances(Pools[k],
                                                       proc[p].required)) :
                  Become(p, IF amount = 0
                            THEN [proc[p] EXCEPT !.pool = k + 1]
                            ELSE [proc[p] EXCEPT !.pc = "create",
                                     !.count = amount,
                                     !.required = @ - amount])
    /\ UNCHANGED <<db, cloud, faults, commands>>

-----------------------------------------------------------------------------
(* launch_workers(): count instances in a pool.                            *)

Stopped(pool) == {m \in In(pool) : worker[m].instance = None}
Unused(pool) == {m \in Members : ~worker[m].exists /\ PoolOf[m] = pool}
PoolFor(p) == Pools[proc[p].pool]

(* create_pool_members(), under the first names that are free (as many as  *)
(* the bound has).                                                         *)
create_pool_members(p) ==
    /\ At(p, "create")
    /\ LET missing == proc[p].count - Cardinality(Stopped(PoolFor(p)))
           names == First(missing, Unused(PoolFor(p)))
       IN  /\ worker' = [m \in Members |->
                           IF m \in names THEN [NoRow EXCEPT !.exists = TRUE]
                                          ELSE worker[m]]
           /\ recent' = recent \cup names
    /\ Become(p, [proc[p] EXCEPT !.pc = "pick"])
    /\ UNCHANGED <<activations, deleted, tokens, request, row_lock, cloud, faults,
                   commands>>

(* The transaction of one instance begins: a stopped member that nobody    *)
(* has locked gets a new activation token.                                 *)
Done(p) == IF p = Provisioner
           THEN [Idle EXCEPT !.pc = "allocate", !.pool = proc[p].pool + 1,
                             !.required = proc[p].required]
           ELSE Idle

pick(p) ==
    /\ At(p, "pick")
    /\ LET stopped == {m \in Stopped(PoolFor(p)) : row_lock[m] = None}
       IN  IF proc[p].count = 0 \/ stopped = {}
           THEN Become(p, Done(p)) /\ UNCHANGED row_lock
           ELSE LET m == Least(stopped)
                IN  /\ Become(p, [proc[p] EXCEPT !.pc = "launch",
                          !.member = m, !.objects[m] = worker[m]])
                    /\ row_lock' = [row_lock EXCEPT ![m] = p]
    /\ UNCHANGED <<worker, activations, deleted, tokens, request, recent, cloud,
                   faults, commands>>

(* The provider creates the instance, or has none to give                  *)
(* (InstanceLaunchException, which ends the process).                      *)
create_instance(p) ==
    /\ At(p, "launch")
    /\ LET unused == First(1, {i \in Instances : cloud[i] = "unused"})
       IN  IF unused = {}
           THEN /\ Become(p, Idle)
                /\ row_lock' = [row_lock EXCEPT ![proc[p].member] = None]
                /\ UNCHANGED cloud
           ELSE /\ cloud' = [i \in Instances |-> IF i \in unused
                                                 THEN "booting" ELSE cloud[i]]
                /\ Become(p, [proc[p] EXCEPT !.pc = "commit",
                                             !.instance = Least(unused)])
                /\ UNCHANGED row_lock
    /\ UNCHANGED <<worker, activations, deleted, tokens, request, recent,
                   faults, commands>>

(* The old activation token is deleted and the old token disabled.         *)
commit_launch(p) ==
    /\ At(p, "commit")
    /\ LET m == proc[p].member
           i == proc[p].instance
           old == proc[p].objects[m]
       IN  /\ Save(m, [old EXCEPT !.instance = i, !.activation = i])
           /\ activations' = (activations \ {old.activation}) \cup {i}
           /\ deleted' = deleted \cup ({old.activation} \ {None})
           /\ tokens' = tokens \ {old.token}
           /\ recent' = recent \cup {m}
           /\ row_lock' = [row_lock EXCEPT ![m] = None]
           /\ Become(p, [proc[p] EXCEPT !.pc = "pick", !.count = @ - 1,
                   !.member = None, !.instance = None,
                   !.objects[m] = NoRow])
    /\ UNCHANGED <<cloud, faults, commands>>

-----------------------------------------------------------------------------
(* The command line: worker_pool launch and worker_pool terminate.         *)

Command(p) ==
    /\ p # Provisioner /\ At(p, "idle")
    /\ faults + commands < MaxEvents
    /\ commands' = commands + 1
    /\ UNCHANGED <<db, cloud, faults>>

handle_launch(p) ==
    /\ Command(p)
    /\ \E k \in DOMAIN Pools :
          Become(p, [Idle EXCEPT !.pc = "create", !.pool = k, !.count = 1])

handle_terminate(p) ==
    /\ Command(p)
    /\ \E m \in Members :
          /\ worker[m].exists
          /\ \E next \in NextWorker(p, {m}, worker) : Become(p, next)

(* Mutant: the lock of the member that was being launched is kept.         *)
fails_locked(p) ==
    /\ ~At(p, "idle")
    /\ faults + commands < MaxEvents
    /\ faults' = faults + 1
    /\ Become(p, Idle)
    /\ UNCHANGED <<db, cloud, commands>>

(* The process dies, or a call to the provider raises an exception: what   *)
(* it has not committed is rolled back.                                    *)
fails(p) ==
    /\ ~At(p, "idle")
    /\ faults + commands < MaxEvents
    /\ faults' = faults + 1
    /\ Become(p, Idle)
    /\ row_lock' = [m \in Members |-> IF row_lock[m] = p THEN None
                                                         ELSE row_lock[m]]
    /\ UNCHANGED <<worker, activations, deleted, tokens, request, recent, cloud,
                   commands>>

-----------------------------------------------------------------------------
(* Instances.                                                              *)

(* It exchanges the activation token for one of its own (RegisterView).    *)
register(i, m) ==
    /\ cloud[i] = "booting" /\ i \in activations
    /\ worker[m].activation = i /\ row_lock[m] = None
    /\ cloud' = [cloud EXCEPT ![i] = "ready"]
    /\ Save(m, [worker[m] EXCEPT !.activation = None, !.token = i])
    /\ tokens' = tokens \cup {i}
    /\ activations' = activations \ {i}
    /\ deleted' = deleted \cup {i}
    /\ UNCHANGED <<recent, row_lock, proc, faults, commands>>

Authenticated(i, m) == worker[m].token = i /\ i \in tokens

(* Its WebSocket is opened: mark_connected(), and its dynamic metadata     *)
(* arrives.                                                                *)
connect(i, m) ==
    /\ cloud[i] = "ready" /\ Authenticated(i, m) /\ row_lock[m] = None
    /\ ~(worker[m].connected /\ worker[m].known)
    /\ Save(m, [worker[m] EXCEPT !.connected = TRUE, !.known = TRUE])
    /\ UNCHANGED <<activations, deleted, tokens, recent, row_lock, cloud, proc, faults,
                   commands>>

(* The WebSocket is closed, because the instance is gone or the token is   *)
(* disabled: mark_disconnected().                                          *)
disconnect(m) ==
    /\ worker[m].connected /\ row_lock[m] = None
    /\ \/ worker[m].token \notin tokens
       \/ worker[m].token \notin Alive
    /\ Save(m, [worker[m] EXCEPT !.connected = FALSE])
    /\ UNCHANGED <<activations, deleted, tokens, recent, row_lock, cloud, proc, faults,
                   commands>>

(* GetNextWorkRequestView: what it was running is given up.                *)
ask(i, m) ==
    /\ cloud[i] = "ready" /\ Authenticated(i, m)
    /\ LET lost == With(m, "running")
       IN  \E r \in With(m, "pending"), retried \in Retries(lost) :
             /\ request' = [GiveUp(lost, retried) EXCEPT
                              ![r].status = "running"]
             /\ recent' = recent \cup lost
    /\ UNCHANGED <<worker, activations, deleted, tokens, row_lock, cloud, proc, faults,
                   commands>>

report(i, m) ==
    /\ cloud[i] = "ready" /\ Authenticated(i, m)
    /\ \E r \in With(m, "running") :
          /\ request' = [request EXCEPT ![r].status = "completed"]
          /\ recent' = recent \cup {r}
    /\ UNCHANGED <<worker, activations, deleted, tokens, row_lock, cloud, proc, faults,
                   commands>>

(* A spot instance is taken back by the provider.                          *)
vanish(i) ==
    /\ i \in Alive
    /\ faults + commands < MaxEvents
    /\ faults' = faults + 1
    /\ cloud' = [cloud EXCEPT ![i] = "vanished"]
    /\ UNCHANGED <<db, proc, commands>>

-----------------------------------------------------------------------------
(* schedule(), users, and time.                                            *)

schedule(m) ==
    /\ worker[m].connected /\ worker[m].token \in tokens
    /\ row_lock[m] = None
    /\ With(m, "pending") \cup With(m, "running") = {}
    /\ Waiting # {}
    /\ schedule_for_worker(m, worker[m])
    /\ UNCHANGED <<worker, activations, deleted, tokens, recent, row_lock, cloud, proc,
                   faults, commands>>

create_work_request(r) ==
    /\ r \in First(1, Absent)
    /\ request' = [request EXCEPT ![r].status = "pending"]
    /\ UNCHANGED <<worker, activations, deleted, tokens, recent, row_lock, cloud, proc,
                   faults, commands>>

ten_minutes ==
    /\ recent # {}
    /\ recent' = {}
    /\ UNCHANGED <<worker, activations, deleted, tokens, request, row_lock, cloud,
                   proc, faults, commands>>

-----------------------------------------------------------------------------
Init ==
    /\ worker = [m \in Members |-> NoRow]
    /\ activations = {} /\ deleted = {} /\ tokens = {}
    /\ cloud = [i \in Instances |-> "unused"]
    /\ request = [r \in Requests |-> [status |-> "absent", worker |-> None]]
    /\ recent = {}
    /\ row_lock = [m \in Members |-> None]
    /\ proc = [p \in Procs |-> Idle]
    /\ faults = 0 /\ commands = 0

Step(p) ==
    \/ terminate_worker(p) \/ terminate_instance(p) \/ save_terminated(p)
    \/ retry_running(p) \/ process_scope(p) \/ allocate_workers(p)
    \/ create_pool_members(p) \/ pick(p) \/ create_instance(p)
    \/ commit_launch(p) \/ token_deleted(p)

Life(i, m) ==
    register(i, m) \/ connect(i, m) \/ ask(i, m) \/ report(i, m)

Next ==
    \/ \E p \in Procs : \/ Step(p) \/ provision(p) \/ handle_launch(p)
                        \/ handle_terminate(p) \/ fails(p)
    \/ \E i \in Instances : vanish(i) \/ \E m \in Members : Life(i, m)
    \/ \E m \in Members : disconnect(m) \/ schedule(m)
    \/ \E r \in Requests : create_work_request(r)
    \/ ten_minutes

Spec == Init /\ [][Next]_vars

(* Celery beat calls provision() every minute, and time passes; instances  *)
(* boot and work, and the scheduler runs.                                  *)
Fairness ==
    /\ \A p \in Procs : WF_vars(Step(p))
    /\ SF_vars(provision(Provisioner))
    /\ WF_vars(ten_minutes)
    /\ \A m \in Members : /\ WF_vars(disconnect(m)) /\ WF_vars(schedule(m))
                          /\ \A i \in Instances : WF_vars(Life(i, m))

FairSpec == Spec /\ Fairness

-----------------------------------------------------------------------------
(* A member is locked only by a process that launches an instance for it.  *)
TypeOK ==
    /\ worker \in [Members -> Row]
    /\ activations \subseteq Instances \ deleted /\ tokens \subseteq Instances
    /\ cloud \in [Instances -> States]
    /\ request \in [Requests -> Request]
    /\ recent \subseteq Members \cup Requests
    /\ proc \in [Procs -> Process]
    /\ row_lock \in [Members -> Procs \cup {None}]
    /\ faults \in 0 .. MaxEvents /\ commands \in 0 .. MaxEvents
    /\ \A m \in Members : row_lock[m] # None =>
          /\ proc[row_lock[m]].member = m
          /\ proc[row_lock[m]].pc \in {"launch", "commit"}

(* An instance that nothing in the database, nor a launch under way, leads *)
(* to: it runs until somebody finds it in the provider's console.          *)
Leaked == {i \in Alive :
             /\ \A m \in Members : worker[m].instance # i
             /\ \A p \in Procs : proc[p].instance # i}

(* Without commands that run during provision(), each instance that is     *)
(* lost track of was being launched when the process died.                 *)
LeaksExplained == Cardinality(Leaked) <= faults + commands

(* However members are reused, terminated and registered, and whatever     *)
(* stale object is saved, nobody has valid credentials of a member but the *)
(* instance that the row is about: a worker that was terminated, or is     *)
(* from an earlier launch, gets no work.                                   *)
CredentialsCurrent ==
    \A m \in Members, i \in Instances :
        Authenticated(i, m) \/ (worker[m].activation = i /\ i \in activations)
        => worker[m].instance = i

(* The provisioner keeps each pool within its limit, which does not apply  *)
(* to administrators.                                                      *)
WithinLimit ==
    \A k \in DOMAIN Pools :
        max_active_instances[Pools[k]] # None =>
            Cardinality({m \in In(Pools[k]) : worker[m].instance # None})
            <= max_active_instances[Pools[k]] + commands

(* What is running is running on an instance that can report it, or will   *)
(* be retried by a termination under way, but for what an instance that    *)
(* vanished, or a process that died, had to do.                            *)
Served(r) ==
    LET m == request[r].worker
    IN  \/ \E i \in Alive : Authenticated(i, m)
        \/ \E p \in Procs : proc[p].member = m
                             /\ proc[p].pc \in {"api", "save", "retry"}

RunningServed ==
    Cardinality({r \in Requests : request[r].status = "running" /\ ~Served(r)})
    <= faults

(* "terminated when idle" (docs/explanation/concepts.rst).                 *)
IdleTerminated ==
    \A m \in Members :
        LET busy == With(m, "pending") \cup With(m, "running") # {}
        IN  worker[m].instance # None /\ ~busy
            ~> worker[m].instance = None \/ busy

(* A request that is pending while an instance could be launched for it    *)
(* is started.                                                             *)
BacklogServed ==
    \A r \in Requests :
        request[r].status = "pending"
        ~> \/ request[r].status # "pending"
           \/ \A i \in Instances : cloud[i] # "unused"
==============================================================================
