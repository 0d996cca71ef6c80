-------------------------- MODULE WorkerPoolsProofs --------------------------
(***************************************************************************)
(* However the members of pools are launched, terminated and launched      *)
(* again, by any number of processes that save stale objects, nobody has   *)
(* valid credentials of a member but its instance; and there are no more   *)
(* members over the limit, lost instances and requests that nobody will    *)
(* finish than what happened accounts for.                                 *)
(***************************************************************************)
EXTENDS WorkerPools, FiniteSetTheorems, WellFoundedInduction, TLAPS

(* Positions where a process has a member, a pool, and instances to launch.*)
HasMember == {"terminate", "api", "save", "retry", "launch", "commit"}
HasPool == {"create", "pick", "launch", "commit"}

InHand ==
    \A p \in Procs :
        /\ proc[p].pc \in HasMember => proc[p].member \in Members
        /\ proc[p].pc \in HasPool => proc[p].pool \in 1 .. Len(Pools)
        /\ proc[p].pc \in {"launch", "commit"} => proc[p].count # 0
        /\ proc[p].pc = "commit" => proc[p].instance \in Instances

(* Instances that were created, and whose launch is over.                  *)
Used == {i \in Instances :
            /\ cloud[i] # "unused"
            /\ \A p \in Procs : At(p, "commit") => proc[p].instance # i}

(* Rows, as they are or as they were when a process read them, name only   *)
(* such instances, and the token of one that has exchanged its activation  *)
(* token.                                                                  *)
Known == {row \in Row : /\ row.activation \in Used \cup {None}
                        /\ row.token \in (Used \cap deleted) \cup {None}}
NamesUsed ==
    /\ \A m \in Members : worker[m] \in Known
    /\ \A p \in Procs, m \in Members : proc[p].objects[m] \in Known
    /\ activations \cup tokens \cup deleted \subseteq Used

(* An instance is launched once.                                           *)
LaunchesDiffer ==
    \A p, q \in Procs :
        At(p, "commit") =>
          /\ cloud[proc[p].instance] # "unused"
          /\ At(q, "commit") /\ proc[q].instance = proc[p].instance => p = q

(* What terminate_worker() disabled is not enabled again before it saves.  *)
Disabled ==
    \A p \in Procs : proc[p].pc \in {"api", "save"} =>
        Object(p).token \notin tokens /\ Object(p).activation \notin activations

IInv == /\ TypeOK /\ InHand
        /\ NamesUsed /\ LaunchesDiffer /\ Disabled /\ CredentialsCurrent

-----------------------------------------------------------------------------
(* Numbers, sets and records.                                              *)

(* A set of numbers has a least one.                                       *)
LEMMA LeastOf ==
  ASSUME NEW ids \in SUBSET Nat, ids # {}
  PROVE  Least(ids) \in ids /\ \A k \in ids : Least(ids) <= k
  <1> DEFINE R == OpToRel(<, Nat)
  <1>1. PICK n \in ids : \A k \in ids : ~(<<k, n>> \in R)
    BY NatLessThanWellFounded, WFMin
  <1>2. \A k \in Nat : k < n => <<k, n>> \in R
    BY Zenon DEF OpToRel
  <1>3. \A k \in ids : ~(k < n)
    BY <1>1, <1>2, Zenon
  <1>4. \A k \in ids : n <= k
    BY <1>3
  <1> QED
    BY <1>4 DEF Least

(* The sets of names are sets of numbers, and finite.                      *)
LEMMA Names ==
  /\ Members \subseteq Nat /\ Instances \subseteq Nat /\ Requests \subseteq Nat
  /\ IsFiniteSet(Members) /\ IsFiniteSet(Instances) /\ IsFiniteSet(Requests)
  /\ None \notin Members /\ None \notin Instances /\ None \notin Requests
  /\ None \notin Procs
  BY WorkerPoolsAssumption

(* Sets of members have a cardinality.                                     *)
LEMMA Counts ==
  ASSUME NEW ms \in SUBSET Members
  PROVE  Cardinality(ms) \in Nat
  BY Names, FS_Subset, FS_CardinalityType

(* No row is a row, and an idle process a process.                         *)
LEMMA IdleType == NoRow \in Row /\ Idle \in Process
  <1>1. NoRow \in Row
    BY DEF NoRow, Row
  <1>2. Len(Pools) \in Nat
    BY WorkerPoolsAssumption
  <1> QED
    BY <1>1, <1>2 DEF Idle, Process, PCs

(* A process that goes through a list of workers.                          *)
LEMMA NextWorkerType ==
  ASSUME NEW p, NEW todo \in SUBSET Members, NEW objects \in [Members -> Row],
         NEW next \in NextWorker(p, todo, objects)
  PROVE  /\ next \in Process /\ next.pc \in {"idle", "terminate"}
         /\ next.pc \in HasMember => next.member \in Members
         /\ \A m \in Members : next.objects[m] \in {NoRow, objects[m]}
  <1>1. CASE todo = {}
    <2>1. next = Idle
      BY <1>1 DEF NextWorker
    <2>2. Idle.pc = "idle" /\ \A m \in Members : Idle.objects[m] = NoRow
      BY DEF Idle
    <2> QED
      BY <2>1, <2>2, IdleType DEF HasMember
  <1>2. CASE todo # {}
    <2> DEFINE some == [k \in Members |-> IF k \in todo THEN objects[k]
                                                        ELSE NoRow]
    <2>1. some \in [Members -> Row]
      BY IdleType
    <2>2. PICK m \in todo :
             next = [Idle EXCEPT !.pc = "terminate", !.member = m,
                                 !.todo = todo \ {m}, !.objects = some]
      BY <1>2 DEF NextWorker
    <2>3. \A k \in Members : some[k] \in {NoRow, objects[k]}
      OBVIOUS
    <2> HIDE DEF some
    <2>4. /\ next \in Process /\ next.pc = "terminate" /\ next.member = m
          /\ next.objects = some
      BY <2>1, <2>2, IdleType DEF Process, PCs
    <2> QED
      BY <2>3, <2>4
  <1> QED
    BY <1>1, <1>2

(* What is known of a process.                                             *)
Where(p) ==
    /\ proc[p] \in Process
    /\ proc[p].pc \in HasMember => proc[p].member \in Members
    /\ proc[p].pc \in HasPool => proc[p].pool \in 1 .. Len(Pools)
    /\ proc[p].pc \in {"launch", "commit"} => proc[p].count # 0
    /\ proc[p].pc = "commit" => proc[p].instance \in Instances

Tables ==
    /\ worker \in [Members -> Row]
    /\ activations \subseteq Instances \ deleted /\ tokens \subseteq Instances
    /\ cloud \in [Instances -> States]
    /\ request \in [Requests -> Request]
    /\ recent \subseteq Members \cup Requests
    /\ faults \in 0 .. MaxEvents /\ commands \in 0 .. MaxEvents

Locks ==
    /\ row_lock \in [Members -> Procs \cup {None}]
    /\ \A m \in Members : row_lock[m] # None =>
          /\ proc[row_lock[m]].member = m
          /\ proc[row_lock[m]].pc \in {"launch", "commit"}

Types == Tables /\ Locks /\ proc \in [Procs -> Process]
                /\ \A p \in Procs : Where(p)

(* The invariant says no less, and no more, of types.                      *)
LEMMA TypesOf == Types <=> TypeOK /\ InHand
  BY DEF Types, Tables, Locks, Where, TypeOK, InHand

(* Facts about one process.                                                *)
LEMMA ProcFacts ==
  ASSUME Types, NEW p \in Procs
  PROVE  /\ proc \in [Procs -> Process] /\ proc[p] \in Process /\ Where(p)
         /\ proc[p].objects \in [Members -> Row] /\ proc[p].todo \subseteq Members
         /\ proc[p].count \in Nat /\ proc[p].required \in Nat
         /\ proc[p].pool \in 0 .. Len(Pools) + 1 /\ Len(Pools) \in Nat
  <1>1. proc \in [Procs -> Process] /\ proc[p] \in Process /\ Where(p)
    BY DEF Types
  <1>2. Len(Pools) \in Nat
    BY WorkerPoolsAssumption
  <1> QED
    BY <1>1, <1>2 DEF Process

(* A process that does not launch an instance has no row locked.           *)
LEMMA Unlocking ==
  ASSUME Types, NEW p \in Procs, proc' = [proc EXCEPT ![p] = proc'[p]],
         proc[p].pc \notin {"launch", "commit"}, UNCHANGED row_lock
  PROVE  Locks'
  <1>1. Locks /\ proc \in [Procs -> Process]
    BY DEF Types
  <1>2. \A m \in Members : row_lock[m] # p
    BY <1>1, Names DEF Locks
  <1>3. \A q \in Procs \ {p} : proc'[q] = proc[q]
    BY <1>1
  <1>4. \A m \in Members : row_lock[m] # None => row_lock[m] \in Procs \ {p}
    BY <1>1, <1>2 DEF Locks
  <1> QED
    BY <1>1, <1>3, <1>4 DEF Locks

(* One process moves, to where it may be.                                  *)
LEMMA MoveType ==
  ASSUME Types, NEW p \in Procs, proc' = [proc EXCEPT ![p] = proc'[p]],
         Where(p)', Tables', Locks'
  PROVE  Types'
  <1>1. proc \in [Procs -> Process] /\ \A q \in Procs : Where(q)
    BY DEF Types
  <1>2. proc'[p] \in Process
    BY DEF Where
  <1>3. /\ proc' \in [Procs -> Process]
        /\ \A q \in Procs \ {p} : proc'[q] = proc[q]
    BY <1>1, <1>2
  <1>4. \A q \in Procs \ {p} : Where(q)'
    BY <1>1, <1>3 DEF Where
  <1> QED
    BY <1>3, <1>4 DEF Types

(* What a pass of the scheduler, or a retry, does to requests.             *)
LEMMA ScheduleType ==
  ASSUME Types, NEW m \in Members, NEW row, schedule_for_worker(m, row)
  PROVE  request' \in [Requests -> Request]
  <1>1. request \in [Requests -> Request]
    BY DEF Types, Tables
  <1>2. Waiting \subseteq Requests
    BY DEF Waiting
  <1>3. ASSUME NEW r \in Requests, request' = [request EXCEPT ![r].worker = m]
        PROVE  request' \in [Requests -> Request]
    BY <1>1, <1>3 DEF Request
  <1> QED
    BY <1>1, <1>2, <1>3 DEF schedule_for_worker

(* A request that was lost is retried, or aborted: it stays a request.     *)
LEMMA GiveUpType ==
  ASSUME Types, NEW lost, NEW retried
  PROVE  GiveUp(lost, retried) \in [Requests -> Request]
  <1>1. request \in [Requests -> Request]
    BY DEF Types, Tables
  <1>2. \A r \in Requests : [request[r] EXCEPT !.status = "aborted"] \in Request
    BY <1>1 DEF Request
  <1>3. [status |-> "pending", worker |-> None] \in Request
    BY DEF Request
  <1> QED
    BY <1>1, <1>2, <1>3 DEF GiveUp

(* What save() does.                                                       *)
LEMMA SaveType ==
  ASSUME Types, NEW m \in Members, NEW row \in Row, Save(m, row)
  PROVE  /\ worker' \in [Members -> Row] /\ request' \in [Requests -> Request]
         /\ worker'[m] = row
         /\ \A k \in Members \ {m} : worker'[k] = worker[k]
  <1>1. worker \in [Members -> Row]
    BY DEF Types, Tables
  <1> QED
    BY <1>1, ScheduleType DEF Save

-----------------------------------------------------------------------------
(* Every action keeps the types.                                           *)

(* What a process is at after a step, and that the others stay.            *)
LEMMA Moved ==
  ASSUME Types, NEW p \in Procs, NEW state, Become(p, state)
  PROVE  proc'[p] = state /\ proc' = [proc EXCEPT ![p] = proc'[p]]
  BY DEF Types, Become

(* A step of a process that has no row locked.                             *)
LEMMA FreeMove ==
  ASSUME Types, NEW p \in Procs, NEW state, Become(p, state),
         proc[p].pc \notin {"launch", "commit"}, UNCHANGED row_lock,
         Tables', Where(p)'
  PROVE  Types'
  BY Moved, Unlocking, MoveType

(* A process that has a position, and no more than it needs there.         *)
LEMMA IdleWhere ==
  ASSUME NEW p, proc'[p] = Idle
  PROVE  Where(p)'
  <1>1. Idle.pc = "idle"
    BY DEF Idle
  <1> QED
    BY <1>1, IdleType DEF Where, HasMember, HasPool

(* _terminate_workers() goes on with a member that it has to terminate.    *)
LEMMA NextWhere ==
  ASSUME NEW p, NEW todo \in SUBSET Members, NEW objects \in [Members -> Row],
         proc'[p] \in NextWorker(p, todo, objects)
  PROVE  Where(p)'
  <1>1. /\ proc'[p] \in Process /\ proc'[p].pc \in {"idle", "terminate"}
        /\ proc'[p].pc \in HasMember => proc'[p].member \in Members
    BY NextWorkerType
  <1> QED
    BY <1>1 DEF Where, HasPool

(* A process that goes on to pc, with all that it has.                     *)
LEMMA PcWhere ==
  ASSUME Types, NEW p \in Procs, NEW pc \in PCs \ {"commit", "launch"},
         proc'[p] = [proc[p] EXCEPT !.pc = pc],
         pc \in HasMember => proc[p].pc \in HasMember,
         pc \in HasPool => proc[p].pc \in HasPool
  PROVE  Where(p)'
  <1>1. proc[p] \in Process /\ Where(p)
    BY ProcFacts
  <1>2. /\ proc'[p] \in Process /\ proc'[p].pc = pc
        /\ proc'[p].member = proc[p].member /\ proc'[p].pool = proc[p].pool
    BY <1>1 DEF Process
  <1> QED
    BY <1>1, <1>2 DEF Where

LEMMA TerminateWorkerType ==
  ASSUME Types, NEW p \in Procs, terminate_worker(p)
  PROVE  Types'
  <1>1. Tables'
    BY DEF terminate_worker, Types, Tables
  <1>2. Become(p, [proc[p] EXCEPT !.pc = "api"])
    BY DEF terminate_worker
  <1>3. Where(p)'
    BY <1>2, Moved, PcWhere DEF terminate_worker, At, PCs, HasMember, HasPool
  <1> QED
    BY <1>1, <1>2, <1>3, FreeMove DEF terminate_worker, At

LEMMA TokenDeletedType ==
  ASSUME Types, NEW p \in Procs, token_deleted(p)
  PROVE  Types'
  <1>1. Tables' /\ UNCHANGED row_lock
    BY DEF token_deleted, Types, Tables, db
  <1>2. Become(p, Idle) /\ proc[p].pc \notin {"launch", "commit"}
    BY DEF token_deleted, At
  <1> QED
    BY <1>1, <1>2, Moved, IdleWhere, FreeMove

LEMMA TerminateInstanceType ==
  ASSUME Types, NEW p \in Procs, terminate_instance(p)
  PROVE  Types'
  <1>1. cloud' \in [Instances -> States]
    BY DEF terminate_instance, Types, Tables, States
  <1>2. Tables' /\ UNCHANGED row_lock
    BY <1>1 DEF terminate_instance, Types, Tables, db
  <1>3. Become(p, [proc[p] EXCEPT !.pc = "save"]) /\ proc[p].pc = "api"
    BY DEF terminate_instance, At
  <1>4. Where(p)'
    BY <1>3, Moved, PcWhere DEF PCs, HasMember, HasPool
  <1> QED
    BY <1>2, <1>3, <1>4, FreeMove

(* The object that a process terminates.                                   *)
LEMMA ObjectType ==
  ASSUME Types, NEW p \in Procs, proc[p].pc \in HasMember
  PROVE  proc[p].member \in Members /\ Object(p) \in Row
  BY ProcFacts DEF Where, Object

LEMMA SaveTerminatedType ==
  ASSUME Types, NEW p \in Procs, save_terminated(p)
  PROVE  Types'
  <1>1. proc[p].pc = "save" /\ Become(p, [proc[p] EXCEPT !.pc = "retry"])
    BY DEF save_terminated, At
  <1>2. proc[p].member \in Members /\ Object(p) \in Row
    BY <1>1, ObjectType DEF HasMember
  <1>3. [Object(p) EXCEPT !.instance = None] \in Row
    BY <1>2 DEF Row
  <1>4. worker' \in [Members -> Row] /\ request' \in [Requests -> Request]
    BY <1>2, <1>3, SaveType DEF save_terminated
  <1>5. Tables' /\ UNCHANGED row_lock
    BY <1>4 DEF save_terminated, Types, Tables
  <1>6. Where(p)'
    BY <1>1, Moved, PcWhere DEF PCs, HasMember, HasPool
  <1> QED
    BY <1>1, <1>5, <1>6, FreeMove

LEMMA RetryRunningType ==
  ASSUME Types, NEW p \in Procs, retry_running(p)
  PROVE  Types'
  <1>1. PICK next \in NextWorker(p, proc[p].todo, proc[p].objects) :
            Become(p, next)
    BY DEF retry_running
  <1>2. proc[p].pc = "retry" /\ UNCHANGED row_lock
    BY DEF retry_running, At
  <1>3. Where(p)'
    BY <1>1, Moved, NextWhere, ProcFacts
  <1>4. request' \in [Requests -> Request]
    BY GiveUpType DEF retry_running
  <1>5. recent' \subseteq Members \cup Requests
    BY DEF retry_running, Types, Tables, With, Assigned
  <1>6. Tables'
    BY <1>4, <1>5 DEF retry_running, Types, Tables
  <1> QED
    BY <1>1, <1>2, <1>3, <1>6, FreeMove

LEMMA ProvisionType ==
  ASSUME Types, NEW p \in Procs, provision(p)
  PROVE  Types'
  <1> DEFINE found == {m \in Members : idle(m)}
  <1>1. Tables' /\ UNCHANGED row_lock /\ proc[p].pc = "idle"
    BY DEF provision, Types, Tables, db, At
  <1>2. CASE found # {}
    <2>1. PICK next \in NextWorker(p, found, worker) : Become(p, next)
      BY <1>2 DEF provision
    <2>2. worker \in [Members -> Row]
      BY DEF Types, Tables
    <2>3. Where(p)'
      BY <2>1, <2>2, Moved, NextWhere
    <2> QED
      BY <1>1, <2>1, <2>3, FreeMove
  <1>3. CASE found = {}
    <2>1. Become(p, [Idle EXCEPT !.pc = "allocate"])
      BY <1>3 DEF provision
    <2>2. /\ [Idle EXCEPT !.pc = "allocate"] \in Process
          /\ [Idle EXCEPT !.pc = "allocate"].pc = "allocate"
      BY IdleType DEF Process, PCs
    <2>3. Where(p)'
      BY <2>1, <2>2, Moved DEF Where, HasMember, HasPool
    <2> QED
      BY <1>1, <2>1, <2>3, FreeMove
  <1> QED
    BY <1>2, <1>3

(* What is missing is a number.                                            *)
LEMMA RequiredType == workers_required \in Nat /\ workers_available \in Nat
  <1>1. pending_task_count \in Nat
    BY Names, FS_Subset, FS_CardinalityType DEF pending_task_count
  <1>2. /\ TASK_DURATION \in Nat /\ TARGET_LATENCY \in Nat \ {0}
        /\ static_workers \in Nat
    BY WorkerPoolsAssumption
  <1>3. \A a \in Int : CeilDiv(a, TARGET_LATENCY) \in Int
    BY <1>2 DEF CeilDiv
  <1>4. TASK_DURATION * (pending_task_count - 1) \in Int
    BY <1>1, <1>2
  <1>5. workers_required \in Nat
    BY <1>1, <1>3, <1>4 DEF workers_required, Smaller
  <1>6. Cardinality({m \in Members : worker[m].exists}) \in Nat
    BY Counts
  <1> QED
    BY <1>2, <1>5, <1>6 DEF workers_available

LEMMA ProcessScopeType ==
  ASSUME Types, NEW p \in Procs, process_scope(p)
  PROVE  Types'
  <1>1. Tables' /\ UNCHANGED row_lock /\ proc[p].pc = "allocate"
    BY DEF process_scope, Types, Tables, db, At
  <1>2. CASE workers_required <= workers_available
    BY <1>1, <1>2, Moved, IdleWhere, FreeMove DEF process_scope
  <1>3. CASE ~(workers_required <= workers_available)
    <2> DEFINE missing == workers_required - workers_available
    <2>1. missing \in Nat
      BY <1>3, RequiredType
    <2>2. Become(p, [proc[p] EXCEPT !.pool = 1, !.required = missing])
      BY <1>3 DEF process_scope
    <2> HIDE DEF missing
    <2>a. proc[p] \in Process /\ 1 \in 0 .. Len(Pools) + 1
      BY ProcFacts
    <2>3. /\ [proc[p] EXCEPT !.pool = 1, !.required = missing] \in Process
          /\ [proc[p] EXCEPT !.pool = 1, !.required = missing].pc = "allocate"
      BY <1>1, <2>1, <2>a DEF Process
    <2>4. Where(p)'
      BY <2>2, <2>3, Moved DEF Where, HasMember, HasPool
    <2> QED
      BY <1>1, <2>2, <2>4, FreeMove
  <1> QED
    BY <1>2, <1>3

(* No more is allocated than is required.                                  *)
LEMMA AmountType ==
  ASSUME NEW k \in 1 .. Len(Pools), NEW required \in Nat,
         NEW amount \in Quota(limit_by_max_active_instances(Pools[k], required))
  PROVE  amount \in 0 .. required
  <1> DEFINE pool == Pools[k]
             active == Cardinality(In(pool))
             available == max_active_instances[pool] - active
  <1>1. pool \in {PoolOf[m] : m \in Members}
    BY WorkerPoolsAssumption
  <1>2. max_active_instances[pool] \in Int \cup {None}
    BY <1>1, WorkerPoolsAssumption
  <1>3. active \in Nat
    BY Counts DEF In
  <1> HIDE DEF pool, active
  <1>4. limit_by_max_active_instances(pool, required) \in 0 .. required
    BY <1>2, <1>3 DEF limit_by_max_active_instances, Smaller, active
  <1> QED
    BY <1>4 DEF Quota, pool

LEMMA AllocateWorkersType ==
  ASSUME Types, NEW p \in Procs, allocate_workers(p)
  PROVE  Types'
  <1> DEFINE k == proc[p].pool
             required == proc[p].required
  <1>1. /\ Tables' /\ UNCHANGED row_lock /\ proc[p].pc = "allocate"
        /\ k > 0
    BY DEF allocate_workers, Types, Tables, db, At
  <1>2. /\ proc[p] \in Process /\ required \in Nat
        /\ k \in 0 .. Len(Pools) + 1 /\ Len(Pools) \in Nat
    BY ProcFacts
  <1>3. CASE required = 0 \/ k > Len(Pools)
    BY <1>1, <1>3, Moved, IdleWhere, FreeMove DEF allocate_workers
  <1>4. CASE ~(required = 0 \/ k > Len(Pools))
    <2>1. PICK amount \in
                 Quota(limit_by_max_active_instances(Pools[k], required)) :
             Become(p, IF amount = 0
                       THEN [proc[p] EXCEPT !.pool = k + 1]
                       ELSE [proc[p] EXCEPT !.pc = "create",
                                !.count = amount, !.required = @ - amount])
      BY <1>4 DEF allocate_workers
    <2>2. k \in 1 .. Len(Pools)
      BY <1>1, <1>2, <1>4
    <2>3. amount \in 0 .. required
      BY <1>2, <2>1, <2>2, AmountType
    <2>4. CASE amount = 0
      <3>1. Become(p, [proc[p] EXCEPT !.pool = k + 1])
        BY <2>1, <2>4
      <3>2. /\ [proc[p] EXCEPT !.pool = k + 1] \in Process
            /\ [proc[p] EXCEPT !.pool = k + 1].pc = "allocate"
        <4>1. k + 1 \in 0 .. Len(Pools) + 1
          BY <1>2, <2>2
        <4> HIDE DEF k
        <4>2. [proc[p] EXCEPT !.pool = k + 1] \in Process
          BY <1>2, <4>1 DEF Process
        <4>3. [proc[p] EXCEPT !.pool = k + 1].pc = proc[p].pc
          BY <1>2 DEF Process
        <4> QED
          BY <1>1, <4>2, <4>3
      <3>3. Where(p)'
        BY <3>1, <3>2, Moved DEF Where, HasMember, HasPool
      <3> QED
        BY <1>1, <3>1, <3>3, FreeMove
    <2>5. CASE amount # 0
      <3> DEFINE left == required - amount
                 next == [proc[p] EXCEPT !.pc = "create", !.count = amount,
                                         !.required = left]
      <3>1. Become(p, next)
        BY <2>1, <2>5
      <3>2. left \in Nat /\ amount \in Nat
        BY <1>2, <2>3
      <3> HIDE DEF left
      <3>3. next \in Process /\ next.pc = "create" /\ next.pool = k
        BY <1>2, <3>2 DEF Process, PCs
      <3> HIDE DEF next
      <3>4. proc'[p] = next
        BY <3>1, Moved
      <3>5. Where(p)'
        BY <2>2, <3>3, <3>4 DEF Where, HasMember, HasPool
      <3> QED
        BY <1>1, <3>1, <3>5, FreeMove
    <2> QED
      BY <2>4, <2>5
  <1> QED
    BY <1>3, <1>4

LEMMA CreatePoolMembersType ==
  ASSUME Types, NEW p \in Procs, create_pool_members(p)
  PROVE  Types'
  <1>1. proc[p].pc = "create" /\ UNCHANGED row_lock
        /\ Become(p, [proc[p] EXCEPT !.pc = "pick"])
    BY DEF create_pool_members, At
  <1>2. [NoRow EXCEPT !.exists = TRUE] \in Row
    BY IdleType DEF Row
  <1>3. worker' \in [Members -> Row]
    BY <1>2 DEF create_pool_members, Types, Tables
  <1>4. recent' \subseteq Members \cup Requests
    BY DEF create_pool_members, Types, Tables, First, Unused
  <1>5. Tables'
    BY <1>3, <1>4 DEF create_pool_members, Types, Tables
  <1>6. Where(p)'
    BY <1>1, Moved, PcWhere DEF PCs, HasMember, HasPool
  <1> QED
    BY <1>1, <1>5, <1>6, FreeMove

(* What comes after the last launch of a command.                          *)
LEMMA DoneType ==
  ASSUME Types, NEW p \in Procs, proc[p].pc = "pick"
  PROVE  /\ Done(p) \in Process /\ Done(p).pc \in {"idle", "allocate"}
         /\ Done(p).objects = Idle.objects
  <1>1. proc[p].required \in Nat /\ proc[p].pool + 1 \in 0 .. Len(Pools) + 1
    <2>1. /\ proc[p].required \in Nat /\ Len(Pools) \in Nat
          /\ proc[p].pool \in 1 .. Len(Pools)
      BY ProcFacts DEF Where, HasPool
    <2> QED
      BY <2>1
  <1>2. Idle.pc = "idle"
    BY DEF Idle
  <1>3. /\ [Idle EXCEPT !.pc = "allocate", !.pool = proc[p].pool + 1,
                        !.required = proc[p].required] \in Process
        /\ [Idle EXCEPT !.pc = "allocate", !.pool = proc[p].pool + 1,
                        !.required = proc[p].required].pc = "allocate"
        /\ [Idle EXCEPT !.pc = "allocate", !.pool = proc[p].pool + 1,
                   !.required = proc[p].required].objects = Idle.objects
    BY <1>1, IdleType DEF Process, PCs
  <1> QED
    BY <1>2, <1>3, IdleType DEF Done

LEMMA PickType ==
  ASSUME Types, NEW p \in Procs, pick(p)
  PROVE  Types'
  <1> DEFINE stopped == {m \in Stopped(PoolFor(p)) : row_lock[m] = None}
  <1>1. Tables' /\ proc[p].pc = "pick"
    BY DEF pick, Types, Tables, At
  <1>2. CASE proc[p].count = 0 \/ stopped = {}
    <2>1. Become(p, Done(p)) /\ UNCHANGED row_lock
      BY <1>2 DEF pick
    <2>2. Where(p)'
      BY <1>1, <2>1, Moved, DoneType DEF Where, HasMember, HasPool
    <2> QED
      BY <1>1, <2>1, <2>2, FreeMove
  <1>3. CASE ~(proc[p].count = 0 \/ stopped = {})
    <2> DEFINE m == Least(stopped)
               next == [proc[p] EXCEPT !.pc = "launch", !.member = m,
                                       !.objects[m] = worker[m]]
    <2>1. Become(p, next) /\ row_lock' = [row_lock EXCEPT ![m] = p]
      BY <1>3 DEF pick
    <2>2. stopped \in SUBSET Members
      BY DEF Stopped, In
    <2>3. m \in Members /\ row_lock[m] = None
      <3>1. m \in stopped
        BY <1>3, <2>2, Names, LeastOf
      <3> QED
        BY <2>2, <3>1
    <2> HIDE DEF m
    <2>4. /\ proc[p] \in Process /\ Where(p) /\ worker \in [Members -> Row]
          /\ proc[p].objects \in [Members -> Row] /\ Locks
          /\ proc \in [Procs -> Process]
      BY ProcFacts DEF Types, Tables
    <2>5. [proc[p].objects EXCEPT ![m] = worker[m]] \in [Members -> Row]
      BY <2>3, <2>4
    <2>6. /\ next \in Process /\ next.pc = "launch" /\ next.member = m
          /\ next.pool = proc[p].pool /\ next.count = proc[p].count
      BY <2>3, <2>4, <2>5 DEF Process, PCs
    <2> HIDE DEF next
    <2>7. proc'[p] = next /\ proc' = [proc EXCEPT ![p] = proc'[p]]
      BY <2>1, Moved
    <2>8. Where(p)'
      BY <1>1, <1>3, <2>3, <2>4, <2>6, <2>7 DEF Where, HasMember, HasPool
    <2>9. Locks'
      <3>1. row_lock' \in [Members -> Procs \cup {None}]
        BY <2>1, <2>4 DEF Locks
      <3>2. ASSUME NEW k \in Members \ {m}, row_lock'[k] # None
            PROVE  /\ proc'[row_lock'[k]].member = k
                   /\ proc'[row_lock'[k]].pc \in {"launch", "commit"}
        <4>1. row_lock'[k] = row_lock[k] /\ row_lock[k] \in Procs
          BY <2>1, <2>4, <3>2 DEF Locks
        <4>2. proc[row_lock[k]].pc \in {"launch", "commit"}
          BY <2>4, <3>2, <4>1 DEF Locks
        <4>3. row_lock[k] # p
          BY <1>1, <4>2
        <4>4. proc'[row_lock[k]] = proc[row_lock[k]]
          BY <2>4, <2>7, <4>1, <4>3
        <4> QED
          BY <2>4, <3>2, <4>1, <4>4 DEF Locks
      <3>3. row_lock'[m] = p
        BY <2>1, <2>3, <2>4 DEF Locks
      <3> QED
        BY <2>6, <2>7, <3>1, <3>2, <3>3 DEF Locks
    <2> QED
      BY <1>1, <2>7, <2>8, <2>9, MoveType
  <1> QED
    BY <1>2, <1>3

(* A process that gives up the lock of its member, and no other.           *)
LEMMA Released ==
  ASSUME Types, NEW p \in Procs, proc' = [proc EXCEPT ![p] = proc'[p]],
         row_lock' \in [Members -> Procs \cup {None}],
         \A m \in Members : /\ row_lock'[m] \in {None, row_lock[m]}
                            /\ row_lock[m] = p => row_lock'[m] = None
  PROVE  Locks'
  <1>1. proc \in [Procs -> Process] /\ Locks
    BY DEF Types
  <1>2. ASSUME NEW m \in Members, row_lock'[m] # None
        PROVE  /\ proc'[row_lock'[m]].member = m
               /\ proc'[row_lock'[m]].pc \in {"launch", "commit"}
    <2>a. row_lock[m] \in Procs \cup {None}
      BY <1>1 DEF Locks
    <2>1. row_lock'[m] = row_lock[m] /\ row_lock[m] # p /\ row_lock[m] \in Procs
      BY <1>2, <2>a
    <2>2. proc'[row_lock[m]] = proc[row_lock[m]]
      BY <1>1, <2>1
    <2> QED
      BY <1>1, <1>2, <2>1, <2>2 DEF Locks
  <1> QED
    BY <1>2 DEF Locks

(* A process that launches an instance has locked its member alone.        *)
LEMMA LocksOne ==
  ASSUME Types, NEW p \in Procs, NEW m \in Members, row_lock[m] = p
  PROVE  m = proc[p].member
  BY Names DEF Types, Locks

(* Free instances are instances.                                           *)
LEMMA FreshOf ==
  LET unused == First(1, {i \in Instances : cloud[i] = "unused"})
  IN  /\ \A i \in unused : i \in Instances /\ cloud[i] = "unused"
      /\ unused # {} => Least(unused) \in unused
  <1> DEFINE unused == First(1, {i \in Instances : cloud[i] = "unused"})
  <1>1. \A i \in unused : i \in Instances /\ cloud[i] = "unused"
    BY DEF First
  <1>2. unused \in SUBSET Nat
    BY <1>1, Names
  <1>3. unused # {} => Least(unused) \in unused
    BY <1>2, LeastOf
  <1> QED
    BY <1>1, <1>3

LEMMA CreateInstanceType ==
  ASSUME Types, NEW p \in Procs, create_instance(p)
  PROVE  Types'
  <1> DEFINE unused == First(1, {i \in Instances : cloud[i] = "unused"})
  <1>0. proc[p].pc = "launch"
    BY DEF create_instance, At
  <1>1. /\ proc[p] \in Process /\ Where(p) /\ proc \in [Procs -> Process]
        /\ proc[p].member \in Members /\ Locks
    BY <1>0, ProcFacts, ObjectType DEF Types, HasMember
  <1>2. CASE unused = {}
    <2>1. Become(p, Idle) /\ row_lock' = [row_lock EXCEPT ![proc[p].member] = None]
      BY <1>2 DEF create_instance
    <2>2. Tables'
      BY <1>2 DEF create_instance, Types, Tables
    <2>3. proc'[p] = Idle /\ proc' = [proc EXCEPT ![p] = proc'[p]]
      BY <2>1, Moved
    <2>4. Locks'
      <3>1. /\ row_lock' \in [Members -> Procs \cup {None}]
            /\ \A m \in Members : row_lock'[m] \in {None, row_lock[m]}
            /\ row_lock'[proc[p].member] = None
        BY <1>1, <2>1 DEF Locks
      <3>2. \A m \in Members : row_lock[m] = p => row_lock'[m] = None
        BY <3>1, LocksOne
      <3> QED
        BY <2>3, <3>1, <3>2, Released
    <2> QED
      BY <2>2, <2>3, <2>4, IdleWhere, MoveType
  <1>3. CASE unused # {}
    <2> DEFINE i == Least(unused)
               next == [proc[p] EXCEPT !.pc = "commit", !.instance = i]
    <2>1. /\ Become(p, next) /\ UNCHANGED row_lock
          /\ cloud' = [j \in Instances |-> IF j \in unused THEN "booting"
                                                           ELSE cloud[j]]
      BY <1>3 DEF create_instance
    <2>2. i \in Instances
      BY <1>3, FreshOf
    <2>3. cloud' \in [Instances -> States]
      BY <2>1 DEF Types, Tables, States
    <2>4. Tables'
      BY <2>3 DEF create_instance, Types, Tables
    <2> HIDE DEF i
    <2>5. /\ next \in Process /\ next.pc = "commit" /\ next.instance = i
          /\ next.member = proc[p].member /\ next.pool = proc[p].pool
          /\ next.count = proc[p].count
      BY <1>1, <2>2 DEF Process, PCs
    <2> HIDE DEF next
    <2>6. proc'[p] = next /\ proc' = [proc EXCEPT ![p] = proc'[p]]
      BY <2>1, Moved
    <2>7. Where(p)'
      BY <1>0, <1>1, <2>2, <2>5, <2>6 DEF Where, HasMember, HasPool
    <2>8. Locks'
      <3>1. \A q \in Procs : /\ proc'[q].member = proc[q].member
                             /\ proc[q].pc \in {"launch", "commit"}
                                => proc'[q].pc \in {"launch", "commit"}
        BY <1>1, <2>5, <2>6
      <3> QED
        BY <1>1, <2>1, <3>1 DEF Locks
    <2> QED
      BY <2>4, <2>6, <2>7, <2>8, MoveType
  <1> QED
    BY <1>2, <1>3

LEMMA FailsType ==
  ASSUME Types, NEW p \in Procs, fails(p)
  PROVE  Types'
  <1>1. Become(p, Idle)
    BY DEF fails
  <1>2. proc'[p] = Idle /\ proc' = [proc EXCEPT ![p] = proc'[p]]
    BY <1>1, Moved
  <1>3. Tables'
    BY WorkerPoolsAssumption DEF fails, Types, Tables
  <1>4. row_lock \in [Members -> Procs \cup {None}]
    BY DEF Types, Locks
  <1>5. /\ row_lock' \in [Members -> Procs \cup {None}]
        /\ \A m \in Members : /\ row_lock'[m] \in {None, row_lock[m]}
                              /\ row_lock[m] = p => row_lock'[m] = None
    BY <1>4 DEF fails
  <1> QED
    BY <1>2, <1>3, <1>5, Released, IdleWhere, MoveType

LEMMA HandleLaunchType ==
  ASSUME Types, NEW p \in Procs, handle_launch(p)
  PROVE  Types'
  <1>1. /\ UNCHANGED <<db, cloud, faults>> /\ proc[p].pc = "idle"
        /\ faults + commands < MaxEvents /\ commands' = commands + 1
    BY DEF handle_launch, Command, At
  <1>2. Tables' /\ UNCHANGED row_lock
    BY <1>1, WorkerPoolsAssumption DEF Types, Tables, db
  <1>3. PICK k \in DOMAIN Pools :
            Become(p, [Idle EXCEPT !.pc = "create", !.pool = k, !.count = 1])
    BY DEF handle_launch
  <1>4. k \in 1 .. Len(Pools) /\ Len(Pools) \in Nat
    BY WorkerPoolsAssumption
  <1>5. /\ [Idle EXCEPT !.pc = "create", !.pool = k, !.count = 1] \in Process
        /\ [Idle EXCEPT !.pc = "create", !.pool = k, !.count = 1].pc = "create"
        /\ [Idle EXCEPT !.pc = "create", !.pool = k, !.count = 1].pool = k
    <2>1. k \in 0 .. Len(Pools) + 1 /\ 1 \in Nat
      BY <1>4
    <2> QED
      BY <2>1, IdleType DEF Process, PCs
  <1>6. Where(p)'
    BY <1>3, <1>4, <1>5, Moved DEF Where, HasMember, HasPool
  <1> QED
    BY <1>1, <1>2, <1>3, <1>6, FreeMove

LEMMA HandleTerminateType ==
  ASSUME Types, NEW p \in Procs, handle_terminate(p)
  PROVE  Types'
  <1>1. /\ UNCHANGED <<db, cloud, faults>> /\ proc[p].pc = "idle"
        /\ faults + commands < MaxEvents /\ commands' = commands + 1
    BY DEF handle_terminate, Command, At
  <1>2. Tables' /\ UNCHANGED row_lock
    BY <1>1, WorkerPoolsAssumption DEF Types, Tables, db
  <1>3. PICK m \in Members :
            \E next \in NextWorker(p, {m}, worker) : Become(p, next)
    BY DEF handle_terminate
  <1>4. PICK next \in NextWorker(p, {m}, worker) : Become(p, next)
    BY <1>3
  <1>5. worker \in [Members -> Row]
    BY DEF Types, Tables
  <1>6. Where(p)'
    BY <1>4, <1>5, Moved, NextWhere
  <1> QED
    BY <1>1, <1>2, <1>4, <1>6, FreeMove

(* A step of no process.                                                   *)
LEMMA StillType ==
  ASSUME Types, UNCHANGED <<proc, row_lock>>, Tables'
  PROVE  Types'
  BY DEF Types, Locks, Where

LEMMA RegisterType ==
  ASSUME Types, NEW i \in Instances, NEW m \in Members, register(i, m)
  PROVE  Types' /\ [worker[m] EXCEPT !.activation = None, !.token = i] \in Row
  <1>1. worker[m] \in Row
    BY DEF Types, Tables
  <1>2. [worker[m] EXCEPT !.activation = None, !.token = i] \in Row
    BY <1>1 DEF Row
  <1>3. worker' \in [Members -> Row] /\ request' \in [Requests -> Request]
    BY <1>2, SaveType DEF register
  <1>4. cloud' \in [Instances -> States]
    BY DEF register, Types, Tables, States
  <1>5. Tables'
    BY <1>3, <1>4 DEF register, Types, Tables
  <1> QED
    BY <1>2, <1>5, StillType DEF register

LEMMA ConnectType ==
  ASSUME Types, NEW i \in Instances, NEW m \in Members, connect(i, m)
  PROVE  Types' /\ [worker[m] EXCEPT !.connected = TRUE, !.known = TRUE] \in Row
  <1>1. worker[m] \in Row
    BY DEF Types, Tables
  <1>2. [worker[m] EXCEPT !.connected = TRUE, !.known = TRUE] \in Row
    BY <1>1 DEF Row
  <1>3. worker' \in [Members -> Row] /\ request' \in [Requests -> Request]
    BY <1>2, SaveType DEF connect
  <1>5. Tables'
    BY <1>3 DEF connect, Types, Tables
  <1> QED
    BY <1>2, <1>5, StillType DEF connect

LEMMA DisconnectType ==
  ASSUME Types, NEW m \in Members, disconnect(m)
  PROVE  Types' /\ [worker[m] EXCEPT !.connected = FALSE] \in Row
  <1>1. worker[m] \in Row
    BY DEF Types, Tables
  <1>2. [worker[m] EXCEPT !.connected = FALSE] \in Row
    BY <1>1 DEF Row
  <1>3. worker' \in [Members -> Row] /\ request' \in [Requests -> Request]
    BY <1>2, SaveType DEF disconnect
  <1>5. Tables'
    BY <1>3 DEF disconnect, Types, Tables
  <1> QED
    BY <1>2, <1>5, StillType DEF disconnect

LEMMA AskType ==
  ASSUME Types, NEW i \in Instances, NEW m \in Members, ask(i, m)
  PROVE  Types'
  <1> DEFINE lost == With(m, "running")
  <1>1. PICK r \in With(m, "pending"), retried \in Retries(lost) :
            /\ request' = [GiveUp(lost, retried) EXCEPT ![r].status = "running"]
            /\ recent' = recent \cup lost
    BY DEF ask
  <1>2. GiveUp(lost, retried) \in [Requests -> Request]
    BY GiveUpType
  <1>3. r \in Requests /\ lost \subseteq Requests
    BY DEF With, Assigned
  <1> HIDE DEF lost
  <1>4. request' \in [Requests -> Request]
    BY <1>1, <1>2, <1>3 DEF Request
  <1>5. Tables'
    BY <1>1, <1>3, <1>4 DEF ask, Types, Tables
  <1> QED
    BY <1>5, StillType DEF ask

LEMMA ReportType ==
  ASSUME Types, NEW i \in Instances, NEW m \in Members, report(i, m)
  PROVE  Types'
  <1>1. PICK r \in With(m, "running") :
            /\ request' = [request EXCEPT ![r].status = "completed"]
            /\ recent' = recent \cup {r}
    BY DEF report
  <1>2. r \in Requests
    BY DEF With, Assigned
  <1>3. request' \in [Requests -> Request]
    BY <1>1, <1>2 DEF Types, Tables, Request
  <1>4. Tables'
    BY <1>1, <1>2, <1>3 DEF report, Types, Tables
  <1> QED
    BY <1>4, StillType DEF report

LEMMA VanishType ==
  ASSUME Types, NEW i \in Instances, vanish(i)
  PROVE  Types'
  <1>1. cloud' \in [Instances -> States]
    BY DEF vanish, Types, Tables, States
  <1>2. Tables' /\ UNCHANGED row_lock
    BY <1>1, WorkerPoolsAssumption DEF vanish, Types, Tables, db
  <1> QED
    BY <1>2, StillType DEF vanish

LEMMA ScheduleStepType ==
  ASSUME Types, NEW m \in Members, schedule(m)
  PROVE  Types'
  <1>1. request' \in [Requests -> Request]
    BY ScheduleType DEF schedule
  <1>2. Tables'
    BY <1>1 DEF schedule, Types, Tables
  <1> QED
    BY <1>2, StillType DEF schedule

LEMMA CreateWorkRequestType ==
  ASSUME Types, NEW r \in Requests, create_work_request(r)
  PROVE  Types'
  <1>1. request' \in [Requests -> Request]
    BY DEF create_work_request, Types, Tables, Request
  <1>2. Tables'
    BY <1>1 DEF create_work_request, Types, Tables
  <1> QED
    BY <1>2, StillType DEF create_work_request

LEMMA TenMinutesType ==
  ASSUME Types, ten_minutes
  PROVE  Types'
  BY StillType DEF ten_minutes, Types, Tables

(* A new instance is in no row, nor in the hands of anybody else.          *)
LEMMA FreshLaunch ==
  ASSUME IInv, NEW p \in Procs, At(p, "commit")
  PROVE  /\ proc[p].instance \in Instances \ Used
         /\ proc[p].instance \notin deleted
         /\ \A row \in Known : /\ row.activation # proc[p].instance
                               /\ row.token # proc[p].instance
  <1>1. proc[p].instance \in Instances
    BY DEF IInv, InHand, At
  <1>2. proc[p].instance \notin Used /\ proc[p].instance # None
    BY <1>1, Names DEF Used
  <1> QED
    BY <1>1, <1>2 DEF IInv, NamesUsed, Known

(* The transaction of a launch ends: the member has its new instance, and  *)
(* the process goes on.                                                    *)
LEMMA CommitLaunchType ==
  ASSUME IInv, NEW p \in Procs, commit_launch(p)
  PROVE  /\ Types'
         /\ [proc[p].objects[proc[p].member] EXCEPT
               !.instance = proc[p].instance,
               !.activation = proc[p].instance] \in Row
  <1> DEFINE m == proc[p].member
             i == proc[p].instance
             old == proc[p].objects[m]
             row == [old EXCEPT !.instance = i, !.activation = i]
             next == [proc[p] EXCEPT !.pc = "pick", !.count = @ - 1,
                         !.member = None, !.instance = None,
                         !.objects[m] = NoRow]
  <1>1. Types /\ proc[p].pc = "commit"
    BY TypesOf DEF IInv, commit_launch, At
  <1>2. /\ proc[p] \in Process /\ Where(p) /\ proc \in [Procs -> Process]
        /\ Locks /\ m \in Members /\ old \in Row /\ i \in Instances
        /\ proc[p].objects \in [Members -> Row]
    BY <1>1, ProcFacts, ObjectType DEF Types, HasMember, Where, Object
  <1>3. row \in Row
    BY <1>2 DEF Row
  <1>4. /\ Save(m, row) /\ Become(p, next)
        /\ activations' = (activations \ {old.activation}) \cup {i}
        /\ deleted' = deleted \cup ({old.activation} \ {None})
        /\ tokens' = tokens \ {old.token}
        /\ recent' = recent \cup {m}
        /\ row_lock' = [row_lock EXCEPT ![m] = None]
        /\ UNCHANGED <<cloud, faults, commands>>
    BY DEF commit_launch
  <1>5. worker' \in [Members -> Row] /\ request' \in [Requests -> Request]
    BY <1>1, <1>2, <1>3, <1>4, SaveType
  <1>6. i \notin deleted /\ old.activation # i
    BY <1>2, FreshLaunch DEF IInv, NamesUsed, commit_launch
  <1> HIDE DEF old, i, m, row
  <1>7. Tables'
    BY <1>1, <1>2, <1>4, <1>5, <1>6 DEF Types, Tables
  <1>8. /\ proc[p].count - 1 \in Nat
        /\ [proc[p].objects EXCEPT ![m] = NoRow] \in [Members -> Row]
    BY <1>1, <1>2, ProcFacts, IdleType DEF Where
  <1>9. next \in Process /\ next.pc = "pick" /\ next.pool = proc[p].pool
    BY <1>2, <1>8 DEF Process, PCs
  <1> HIDE DEF next
  <1>10. proc'[p] = next /\ proc' = [proc EXCEPT ![p] = proc'[p]]
    BY <1>1, <1>4, Moved
  <1>11. Where(p)'
    BY <1>1, <1>2, <1>9, <1>10 DEF Where, HasMember, HasPool
  <1>12. Locks'
    <2>1. /\ row_lock' \in [Members -> Procs \cup {None}]
          /\ \A k \in Members : row_lock'[k] \in {None, row_lock[k]}
          /\ row_lock'[m] = None
      BY <1>2, <1>4 DEF Locks
    <2>2. \A k \in Members : row_lock[k] = p => row_lock'[k] = None
      BY <1>1, <2>1, LocksOne DEF m
    <2> QED
      BY <1>1, <1>10, <2>1, <2>2, Released
  <1> QED
    BY <1>1, <1>3, <1>7, <1>10, <1>11, <1>12, MoveType DEF row, old, i, m

-----------------------------------------------------------------------------
(* Every action keeps the credentials current.                             *)

Rest == NamesUsed /\ LaunchesDiffer /\ Disabled /\ CredentialsCurrent

(* Instances stay created, and launches begin with one that was not.       *)
LEMMA Grows ==
  ASSUME \A i \in Instances : cloud[i] # "unused" => cloud'[i] # "unused",
         deleted \subseteq deleted',
         \A p \in Procs : proc'[p].pc = "commit" =>
            \/ proc[p].pc = "commit" /\ proc'[p].instance = proc[p].instance
            \/ cloud[proc'[p].instance] = "unused"
  PROVE  Used \subseteq Used' /\ Known \subseteq Known'
  <1>1. Used \subseteq Used'
    BY DEF Used, At
  <1> QED
    BY <1>1 DEF Known

(* Steps that enable nothing, launch nothing, and save only rows that have *)
(* the names they had or no valid credentials.                             *)
LEMMA Calm ==
  ASSUME IInv, Types', deleted' = deleted,
         activations' \subseteq activations, tokens' \subseteq tokens,
         \A i \in Instances : cloud[i] # "unused" => cloud'[i] # "unused",
         \A m \in Members : worker'[m] = worker[m] \/
            /\ worker'[m] \in Known
            /\ \/ worker'[m].token = worker[m].token
                  /\ worker'[m].activation = worker[m].activation
                  /\ worker'[m].instance = worker[m].instance
               \/ worker'[m].token \notin tokens
                  /\ worker'[m].activation \notin activations,
         \A p \in Procs : proc'[p] = proc[p] \/
            /\ \A m \in Members : proc'[p].objects[m] \in Known
            /\ proc'[p].pc # "commit"
            /\ proc'[p].pc \in {"api", "save"} =>
                 LET object == proc'[p].objects[proc'[p].member]
                 IN  object.token \notin tokens'
                     /\ object.activation \notin activations'
  PROVE  Rest'
  <1>1. Used \subseteq Used' /\ Known \subseteq Known'
    BY Grows
  <1>2. NamesUsed'
    <2>1. \A m \in Members : worker'[m] \in Known'
      BY <1>1 DEF IInv, NamesUsed
    <2>2. \A p \in Procs, m \in Members : proc'[p].objects[m] \in Known'
      BY <1>1 DEF IInv, NamesUsed
    <2> QED
      BY <1>1, <2>1, <2>2 DEF IInv, NamesUsed
  <1>3. LaunchesDiffer'
    <2>1. \A p \in Procs : At(p, "commit")' => proc'[p] = proc[p] /\ At(p, "commit")
      BY DEF At
    <2>2. \A p \in Procs : At(p, "commit") => proc[p].instance \in Instances
      BY DEF IInv, InHand, At
    <2> QED
      BY <2>1, <2>2 DEF IInv, LaunchesDiffer
  <1>4. Disabled'
    BY DEF IInv, Disabled, Object
  <1>5. CredentialsCurrent'
    <2> SUFFICES ASSUME NEW m \in Members, NEW i \in Instances,
                        \/ worker'[m].token = i /\ i \in tokens'
                        \/ worker'[m].activation = i /\ i \in activations'
                 PROVE  worker'[m].instance = i
      BY DEF CredentialsCurrent, Authenticated
    <2>1. /\ worker'[m].token = worker[m].token
          /\ worker'[m].activation = worker[m].activation
          /\ worker'[m].instance = worker[m].instance
      OBVIOUS
    <2> QED
      BY <2>1 DEF IInv, CredentialsCurrent, Authenticated
  <1> QED
    BY <1>2, <1>3, <1>4, <1>5 DEF Rest

(* Rows that are known.                                                    *)
LEMMA NoRowKnown == NoRow \in Known /\ \A m \in Members : Idle.objects[m] \in Known
  <1>1. NoRow \in Known
    BY IdleType DEF NoRow, Known
  <1> QED
    BY <1>1 DEF Idle

(* A step that moves one process, and changes nothing else that matters.   *)
LEMMA CalmMove ==
  ASSUME IInv, Types', NEW p \in Procs, NEW state, Become(p, state),
         UNCHANGED <<worker, activations, deleted, tokens, cloud>>,
         \A m \in Members : state.objects[m] \in Known,
         state.pc \notin {"commit", "api", "save"}
  PROVE  Rest'
  <1>1. Types
    BY TypesOf DEF IInv
  <1>2. proc'[p] = state /\ proc' = [proc EXCEPT ![p] = proc'[p]]
    BY <1>1, Moved
  <1>3. \A q \in Procs : proc'[q] = proc[q] \/
            /\ \A m \in Members : proc'[q].objects[m] \in Known
            /\ proc'[q].pc # "commit"
            /\ proc'[q].pc \notin {"api", "save"}
    BY <1>1, <1>2 DEF Types
  <1> QED
    BY <1>3, Calm

(* A step of no process that saves a row with the names that it had.       *)
LEMMA CalmSave ==
  ASSUME IInv, Types', UNCHANGED <<activations, deleted, tokens, proc>>,
         \A i \in Instances : cloud[i] # "unused" => cloud'[i] # "unused",
         \A m \in Members : worker'[m] = worker[m] \/
            /\ worker'[m] \in Row
            /\ worker'[m].token = worker[m].token
            /\ worker'[m].activation = worker[m].activation
            /\ worker'[m].instance = worker[m].instance
  PROVE  Rest'
  <1>1. \A m \in Members : worker'[m] = worker[m] \/
            /\ worker'[m] \in Known
            /\ worker'[m].token = worker[m].token
            /\ worker'[m].activation = worker[m].activation
            /\ worker'[m].instance = worker[m].instance
    BY DEF IInv, NamesUsed, Known
  <1> QED
    BY <1>1, Calm

(* The invariant without the types.                                        *)
LEMMA InvFacts ==
  ASSUME IInv
  PROVE  /\ Types /\ Rest
         /\ \A m \in Members : worker[m] \in Known
         /\ \A p \in Procs, m \in Members : proc[p].objects[m] \in Known
  BY TypesOf DEF IInv, NamesUsed, Rest

(* An activation token is exchanged once, by the instance that has it.     *)
LEMMA RegisterRest ==
  ASSUME IInv, NEW i \in Instances, NEW m \in Members, register(i, m)
  PROVE  Types' /\ Rest'
  <1> DEFINE row == [worker[m] EXCEPT !.activation = None, !.token = i]
  <1>1. Types /\ Types' /\ row \in Row
    BY InvFacts, RegisterType
  <1>2. /\ worker'[m] = row
        /\ \A k \in Members \ {m} : worker'[k] = worker[k]
    BY <1>1, SaveType DEF register
  <1>3. worker[m] \in Row /\ row.instance = worker[m].instance
        /\ row.token = i /\ row.activation = None
    BY <1>1 DEF Types, Tables, Row
  <1> HIDE DEF row
  <1>4. /\ tokens' = tokens \cup {i} /\ activations' = activations \ {i}
        /\ deleted' = deleted \cup {i} /\ UNCHANGED proc
        /\ worker[m].activation = i /\ i \in activations
        /\ cloud' = [cloud EXCEPT ![i] = "ready"]
    BY DEF register
  <1>5. \A j \in Instances : cloud[j] # "unused" => cloud'[j] # "unused"
    BY <1>1, <1>4 DEF Types, Tables
  <1>6. Used \subseteq Used' /\ Known \subseteq Known'
    BY <1>4, <1>5, Grows
  <1>7. i \in Used /\ i \notin deleted /\ i # None
    BY <1>4, <1>1, Names DEF IInv, NamesUsed, Types, Tables
  <1>8. row \in Known'
    BY <1>1, <1>3, <1>4, <1>6, <1>7 DEF Known
  <1>9. NamesUsed'
    BY <1>2, <1>4, <1>6, <1>7, <1>8, InvFacts DEF IInv, NamesUsed
  <1>10. LaunchesDiffer'
    <2>1. \A p \in Procs : At(p, "commit") => proc[p].instance \in Instances
      BY DEF IInv, InHand, At
    <2> QED
      BY <1>4, <1>5, <2>1 DEF IInv, LaunchesDiffer, At
  <1>11. Disabled'
    <2>1. \A p \in Procs : proc[p].pc \in {"api", "save"} => Object(p) \in Known
      BY <1>1, InvFacts, ObjectType DEF Object, HasMember
    <2>2. \A p \in Procs : proc[p].pc \in {"api", "save"} => Object(p).token # i
      BY <1>7, <2>1 DEF Known
    <2> QED
      BY <1>4, <2>2 DEF IInv, Disabled, Object
  <1>12. CredentialsCurrent'
    <2> SUFFICES ASSUME NEW k \in Members, NEW j \in Instances,
                        \/ worker'[k].token = j /\ j \in tokens'
                        \/ worker'[k].activation = j /\ j \in activations'
                 PROVE  worker'[k].instance = j
      BY DEF CredentialsCurrent, Authenticated
    <2>1. CASE k = m
      <3>1. j = i
        BY <1>2, <1>3, <2>1, Names
      <3> QED
        BY <1>2, <1>3, <1>4, <2>1, <3>1 DEF IInv, CredentialsCurrent
    <2>2. CASE k # m
      <3>1. worker[k].token # i
        BY <1>7, InvFacts DEF Known
      <3> QED
        BY <1>2, <1>4, <2>2, <3>1 DEF IInv, CredentialsCurrent, Authenticated
    <2> QED
      BY <2>1, <2>2
  <1> QED
    BY <1>1, <1>9, <1>10, <1>11, <1>12 DEF Rest

(* The instance whose launch is committed is in no row and no object.      *)
LEMMA CommitLaunchRest ==
  ASSUME IInv, NEW p \in Procs, commit_launch(p)
  PROVE  Types' /\ Rest'
  <1> DEFINE m == proc[p].member
             i == proc[p].instance
             old == proc[p].objects[m]
             row == [old EXCEPT !.instance = i, !.activation = i]
             next == [proc[p] EXCEPT !.pc = "pick", !.count = @ - 1,
                         !.member = None, !.instance = None,
                         !.objects[m] = NoRow]
  <1>1. Types /\ Types' /\ row \in Row /\ proc[p].pc = "commit"
    BY InvFacts, CommitLaunchType DEF commit_launch, At
  <1>2. /\ m \in Members /\ old \in Row /\ old \in Known /\ i \in Instances
        /\ proc[p] \in Process /\ proc[p].objects \in [Members -> Row]
        /\ i \notin Used
        /\ \A known \in Known : known.activation # i /\ known.token # i
    BY <1>1, InvFacts, ObjectType, ProcFacts, FreshLaunch
       DEF HasMember, Object, At
  <1>3. /\ Save(m, row) /\ Become(p, next)
        /\ activations' = (activations \ {old.activation}) \cup {i}
        /\ deleted' = deleted \cup ({old.activation} \ {None})
        /\ tokens' = tokens \ {old.token} /\ UNCHANGED cloud
    BY DEF commit_launch
  <1>4. worker'[m] = row /\ \A k \in Members \ {m} : worker'[k] = worker[k]
    BY <1>1, <1>2, <1>3, SaveType
  <1>5. row.token = old.token /\ row.instance = i /\ row.activation = i
    BY <1>2 DEF Row
  <1>6. /\ next.pc = "pick"
        /\ \A k \in Members : next.objects[k] \in {NoRow, proc[p].objects[k]}
    BY <1>2 DEF Process
  <1> HIDE DEF m, i, old, row, next
  <1>7. proc'[p] = next /\ \A q \in Procs \ {p} : proc'[q] = proc[q]
    BY <1>1, <1>3, Moved DEF Types
  <1>8. Used \subseteq Used' /\ Known \subseteq Known'
    BY <1>3, <1>6, <1>7, Grows
  <1>9. i \in Used'
    <2>1. \A q \in Procs \ {p} : At(q, "commit") => proc[q].instance # i
      BY <1>1 DEF IInv, LaunchesDiffer, At, i
    <2>2. cloud[i] # "unused"
      BY <1>1 DEF IInv, LaunchesDiffer, At, i
    <2> QED
      BY <1>2, <1>3, <1>6, <1>7, <2>1, <2>2 DEF Used, At
  <1>10. row \in Known'
    BY <1>1, <1>2, <1>3, <1>5, <1>8, <1>9 DEF Known
  <1>11. NamesUsed'
    <2>1. \A k \in Members : worker'[k] \in Known'
      BY <1>4, <1>8, <1>10, InvFacts
    <2>2. \A q \in Procs, k \in Members : proc'[q].objects[k] \in Known'
      BY <1>6, <1>7, <1>8, InvFacts, NoRowKnown
    <2>3. {old.activation} \ {None} \subseteq Used'
      BY <1>2, <1>8 DEF Known
    <2> QED
      BY <1>3, <1>8, <1>9, <2>1, <2>2, <2>3 DEF IInv, NamesUsed
  <1>12. LaunchesDiffer'
    BY <1>3, <1>6, <1>7 DEF IInv, LaunchesDiffer, At
  <1>13. Disabled'
    <2> SUFFICES ASSUME NEW q \in Procs, proc'[q].pc \in {"api", "save"}
                 PROVE  Object(q)'.token \notin tokens'
                        /\ Object(q)'.activation \notin activations'
      BY DEF Disabled
    <2>1. proc'[q] = proc[q] /\ Object(q)' = Object(q)
      BY <1>6, <1>7 DEF Object
    <2>2. Object(q) \in Known
      BY <1>1, <2>1, InvFacts, ObjectType DEF Object, HasMember
    <2> QED
      BY <1>2, <1>3, <2>1, <2>2 DEF IInv, Disabled
  <1>14. CredentialsCurrent'
    <2> SUFFICES ASSUME NEW k \in Members, NEW j \in Instances,
                        \/ worker'[k].token = j /\ j \in tokens'
                        \/ worker'[k].activation = j /\ j \in activations'
                 PROVE  worker'[k].instance = j
      BY DEF CredentialsCurrent, Authenticated
    <2>1. CASE k = m
      BY <1>3, <1>4, <1>5, <2>1
    <2>2. CASE k # m
      <3>1. worker[k].activation # i
        BY <1>2, InvFacts
      <3> QED
        BY <1>3, <1>4, <2>2, <3>1 DEF IInv, CredentialsCurrent, Authenticated
    <2> QED
      BY <2>1, <2>2
  <1> QED
    BY <1>1, <1>11, <1>12, <1>13, <1>14 DEF Rest

(* The provider makes an instance that was not there before.               *)
LEMMA CreateInstanceRest ==
  ASSUME IInv, NEW p \in Procs, create_instance(p)
  PROVE  Types' /\ Rest'
  <1> DEFINE unused == First(1, {i \in Instances : cloud[i] = "unused"})
  <1>1. Types /\ Types' /\ proc[p] \in Process
    BY InvFacts, CreateInstanceType, ProcFacts
  <1>2. UNCHANGED <<worker, activations, deleted, tokens>>
    BY DEF create_instance
  <1>3. CASE unused = {}
    <2>1. Become(p, Idle) /\ UNCHANGED cloud /\ Idle.pc = "idle"
      BY <1>3 DEF create_instance, Idle
    <2> QED
      BY <1>1, <1>2, <2>1, NoRowKnown, CalmMove
  <1>4. CASE unused # {}
    <2> DEFINE i == Least(unused)
               next == [proc[p] EXCEPT !.pc = "commit", !.instance = i]
    <2>1. /\ Become(p, next)
          /\ cloud' = [j \in Instances |-> IF j \in unused THEN "booting"
                                                           ELSE cloud[j]]
      BY <1>4 DEF create_instance
    <2>2. i \in unused /\ i \in Instances /\ cloud[i] = "unused"
      BY <1>4, FreshOf
    <2> HIDE DEF i, unused
    <2>3. next.pc = "commit" /\ next.instance = i /\ next.objects = proc[p].objects
      BY <1>1 DEF Process
    <2> HIDE DEF next
    <2>4. proc'[p] = next /\ \A q \in Procs \ {p} : proc'[q] = proc[q]
      BY <1>1, <2>1, Moved DEF Types
    <2>5. \A j \in Instances : cloud[j] # "unused" => cloud'[j] # "unused"
      BY <2>1
    <2>6. Used \subseteq Used' /\ Known \subseteq Known'
      BY <1>2, <2>2, <2>3, <2>4, <2>5, Grows
    <2>7. NamesUsed'
      BY <1>2, <2>3, <2>4, <2>6, InvFacts DEF IInv, NamesUsed
    <2>8. LaunchesDiffer'
      <3>1. \A q \in Procs : At(q, "commit") =>
              /\ proc[q].instance \in Instances
              /\ cloud[proc[q].instance] # "unused"
        BY DEF IInv, InHand, At, LaunchesDiffer
      <3>2. \A q \in Procs \ {p} : At(q, "commit")' => At(q, "commit")
        BY <2>4 DEF At
      <3>3. \A q \in Procs \ {p} : At(q, "commit")' =>
              /\ cloud'[proc'[q].instance] # "unused"
              /\ proc'[q].instance = proc[q].instance
              /\ proc'[q].instance # i
        BY <2>2, <2>4, <2>5, <3>1, <3>2
      <3>4. cloud'[i] # "unused" /\ proc'[p].instance = i
        BY <2>1, <2>2, <2>3, <2>4
      <3> QED
        BY <3>2, <3>3, <3>4 DEF IInv, LaunchesDiffer
    <2>9. Disabled'
      BY <1>2, <2>3, <2>4 DEF IInv, Disabled, Object
    <2>10. CredentialsCurrent'
      BY <1>2 DEF IInv, CredentialsCurrent, Authenticated
    <2> QED
      BY <1>1, <2>7, <2>8, <2>9, <2>10 DEF Rest
  <1> QED
    BY <1>3, <1>4

(* The tokens of the row are disabled before the instance is terminated.   *)
LEMMA TerminateWorkerRest ==
  ASSUME IInv, NEW p \in Procs, terminate_worker(p)
  PROVE  Types' /\ Rest'
  <1> DEFINE next == [proc[p] EXCEPT !.pc = "api"]
  <1>1. Types /\ Types' /\ proc[p] \in Process
    BY InvFacts, TerminateWorkerType, ProcFacts
  <1>2. /\ Become(p, next) /\ UNCHANGED <<worker, deleted, cloud>>
        /\ activations' = activations \ {Object(p).activation}
        /\ tokens' = tokens \ {Object(p).token}
    BY DEF terminate_worker
  <1>3. /\ next.pc = "api" /\ next.objects = proc[p].objects
        /\ next.member = proc[p].member
    BY <1>1 DEF Process
  <1> HIDE DEF next
  <1>4. proc'[p] = next /\ \A q \in Procs \ {p} : proc'[q] = proc[q]
    BY <1>1, <1>2, Moved DEF Types
  <1>5. proc'[p].objects[proc'[p].member] = Object(p)
    BY <1>3, <1>4 DEF Object
  <1>6. \A m \in Members : proc'[p].objects[m] \in Known
    BY <1>3, <1>4, InvFacts
  <1>7. \A q \in Procs : proc'[q] = proc[q] \/
            /\ \A m \in Members : proc'[q].objects[m] \in Known
            /\ proc'[q].pc # "commit"
            /\ proc'[q].pc \in {"api", "save"} =>
                 LET object == proc'[q].objects[proc'[q].member]
                 IN  object.token \notin tokens'
                     /\ object.activation \notin activations'
    BY <1>2, <1>3, <1>4, <1>5, <1>6
  <1> QED
    BY <1>1, <1>2, <1>7, Calm

(* An instance is terminated; nothing is enabled again.                    *)
LEMMA TerminateInstanceRest ==
  ASSUME IInv, NEW p \in Procs, terminate_instance(p)
  PROVE  Types' /\ Rest'
  <1> DEFINE next == [proc[p] EXCEPT !.pc = "save"]
  <1>1. Types /\ Types' /\ proc[p] \in Process
    BY InvFacts, TerminateInstanceType, ProcFacts
  <1>2. /\ Become(p, next) /\ proc[p].pc = "api"
        /\ UNCHANGED <<worker, activations, deleted, tokens>>
    BY DEF terminate_instance, At, db
  <1>3. /\ next.pc = "save" /\ next.objects = proc[p].objects
        /\ next.member = proc[p].member
    BY <1>1 DEF Process
  <1> HIDE DEF next
  <1>4. proc'[p] = next /\ \A q \in Procs \ {p} : proc'[q] = proc[q]
    BY <1>1, <1>2, Moved DEF Types
  <1>5. proc'[p].objects[proc'[p].member] = Object(p)
    BY <1>3, <1>4 DEF Object
  <1>6. \A m \in Members : proc'[p].objects[m] \in Known
    BY <1>3, <1>4, InvFacts
  <1>7. Object(p).token \notin tokens /\ Object(p).activation \notin activations
    BY <1>2 DEF IInv, Disabled
  <1>8. \A q \in Procs : proc'[q] = proc[q] \/
            /\ \A m \in Members : proc'[q].objects[m] \in Known
            /\ proc'[q].pc # "commit"
            /\ proc'[q].pc \in {"api", "save"} =>
                 LET object == proc'[q].objects[proc'[q].member]
                 IN  object.token \notin tokens'
                     /\ object.activation \notin activations'
    BY <1>2, <1>3, <1>4, <1>5, <1>6, <1>7
  <1>9. \A i \in Instances : cloud[i] # "unused" => cloud'[i] # "unused"
    BY DEF terminate_instance
  <1> QED
    BY <1>1, <1>2, <1>8, <1>9, Calm

(* save() puts back the object as it was read, but for its instance: what  *)
(* it names is disabled.                                                   *)
LEMMA SaveTerminatedRest ==
  ASSUME IInv, NEW p \in Procs, save_terminated(p)
  PROVE  Types' /\ Rest'
  <1> DEFINE next == [proc[p] EXCEPT !.pc = "retry"]
             m == proc[p].member
             row == [Object(p) EXCEPT !.instance = None]
  <1>1. Types /\ Types' /\ proc[p] \in Process /\ proc[p].pc = "save"
    BY InvFacts, SaveTerminatedType, ProcFacts DEF save_terminated, At
  <1>2. /\ Become(p, next) /\ Save(m, row)
        /\ UNCHANGED <<activations, deleted, tokens, cloud>>
    BY DEF save_terminated
  <1>3. /\ next.pc = "retry" /\ next.objects = proc[p].objects
    BY <1>1 DEF Process
  <1>4. m \in Members /\ Object(p) \in Known
    BY <1>1, InvFacts, ObjectType DEF Object, HasMember
  <1>5. /\ row \in Known /\ row \in Row /\ row.token = Object(p).token
        /\ row.activation = Object(p).activation
    BY <1>4 DEF Known, Row
  <1> HIDE DEF next, m, row
  <1>6. proc'[p] = next /\ \A q \in Procs \ {p} : proc'[q] = proc[q]
    BY <1>1, <1>2, Moved DEF Types
  <1>7. worker'[m] = row /\ \A k \in Members \ {m} : worker'[k] = worker[k]
    BY <1>1, <1>2, <1>4, <1>5, SaveType
  <1>8. Object(p).token \notin tokens /\ Object(p).activation \notin activations
    BY <1>1 DEF IInv, Disabled
  <1>9. \A k \in Members : worker'[k] = worker[k] \/
            /\ worker'[k] \in Known
            /\ worker'[k].token \notin tokens
            /\ worker'[k].activation \notin activations
    BY <1>5, <1>7, <1>8
  <1>10. \A k \in Members : proc'[p].objects[k] \in Known
    BY <1>3, <1>6, InvFacts
  <1>11. \A q \in Procs : proc'[q] = proc[q] \/
            /\ \A k \in Members : proc'[q].objects[k] \in Known
            /\ proc'[q].pc # "commit"
            /\ proc'[q].pc \notin {"api", "save"}
    BY <1>3, <1>6, <1>10
  <1> QED
    BY <1>1, <1>2, <1>9, <1>11, Calm

(* New members have no credentials.                                        *)
LEMMA CreatePoolMembersRest ==
  ASSUME IInv, NEW p \in Procs, create_pool_members(p)
  PROVE  Types' /\ Rest'
  <1> DEFINE next == [proc[p] EXCEPT !.pc = "pick"]
             row == [NoRow EXCEPT !.exists = TRUE]
  <1>1. Types /\ Types' /\ proc[p] \in Process
    BY InvFacts, CreatePoolMembersType, ProcFacts
  <1>2. /\ Become(p, next)
        /\ UNCHANGED <<activations, deleted, tokens, cloud>>
        /\ \A m \in Members : worker'[m] = worker[m] \/ worker'[m] = row
    BY DEF create_pool_members
  <1>3. next.pc = "pick" /\ next.objects = proc[p].objects
    BY <1>1 DEF Process
  <1>4. row \in Known /\ row.token = None /\ row.activation = None
    BY DEF NoRow, Known, Row
  <1> HIDE DEF next, row
  <1>5. proc'[p] = next /\ \A q \in Procs \ {p} : proc'[q] = proc[q]
    BY <1>1, <1>2, Moved DEF Types
  <1>6. None \notin tokens /\ None \notin activations
    BY <1>1, Names DEF Types, Tables
  <1>7. \A k \in Members : worker'[k] = worker[k] \/
            /\ worker'[k] \in Known
            /\ worker'[k].token \notin tokens
            /\ worker'[k].activation \notin activations
    BY <1>2, <1>4, <1>6
  <1>8. \A k \in Members : proc'[p].objects[k] \in Known
    BY <1>3, <1>5, InvFacts
  <1>9. \A q \in Procs : proc'[q] = proc[q] \/
            /\ \A k \in Members : proc'[q].objects[k] \in Known
            /\ proc'[q].pc # "commit"
            /\ proc'[q].pc \notin {"api", "save"}
    BY <1>3, <1>5, <1>8
  <1> QED
    BY <1>1, <1>2, <1>7, <1>9, Calm

(* Processes that become idle, or go through a list.                       *)
LEMMA IdleRest ==
  ASSUME IInv, Types', NEW p \in Procs, Become(p, Idle),
         UNCHANGED <<worker, activations, deleted, tokens, cloud>>
  PROVE  Rest'
  <1>1. Idle.pc = "idle"
    BY DEF Idle
  <1> QED
    BY <1>1, NoRowKnown, CalmMove

(* The next member is read as it is in the table.                          *)
LEMMA NextRest ==
  ASSUME IInv, Types', NEW p \in Procs, NEW todo \in SUBSET Members,
         NEW objects \in [Members -> Row],
         \A m \in Members : objects[m] \in Known,
         NEW next \in NextWorker(p, todo, objects), Become(p, next),
         UNCHANGED <<worker, activations, deleted, tokens, cloud>>
  PROVE  Rest'
  <1>1. next.pc \in {"idle", "terminate"}
        /\ \A m \in Members : next.objects[m] \in {NoRow, objects[m]}
    BY NextWorkerType
  <1> QED
    BY <1>1, NoRowKnown, CalmMove

(* Steps that leave credentials alone.                                     *)
LEMMA TokenDeletedRest ==
  ASSUME IInv, NEW p \in Procs, token_deleted(p)
  PROVE  Types' /\ Rest'
  BY InvFacts, TokenDeletedType, IdleRest DEF token_deleted, db

LEMMA FailsRest ==
  ASSUME IInv, NEW p \in Procs, fails(p)
  PROVE  Types' /\ Rest'
  BY InvFacts, FailsType, IdleRest DEF fails

LEMMA RetryRunningRest ==
  ASSUME IInv, NEW p \in Procs, retry_running(p)
  PROVE  Types' /\ Rest'
  <1>1. Types /\ Types'
    BY InvFacts, RetryRunningType
  <1>2. PICK next \in NextWorker(p, proc[p].todo, proc[p].objects) :
            Become(p, next)
    BY DEF retry_running
  <1>3. /\ proc[p].objects \in [Members -> Row] /\ proc[p].todo \subseteq Members
        /\ \A m \in Members : proc[p].objects[m] \in Known
    BY <1>1, ProcFacts, InvFacts
  <1> QED
    BY <1>1, <1>2, <1>3, NextRest DEF retry_running

LEMMA ProvisionRest ==
  ASSUME IInv, NEW p \in Procs, provision(p)
  PROVE  Types' /\ Rest'
  <1> DEFINE found == {m \in Members : idle(m)}
  <1>1. Types /\ Types' /\ UNCHANGED <<worker, activations, deleted, tokens, cloud>>
    BY InvFacts, ProvisionType DEF provision, db
  <1>2. CASE found # {}
    <2>1. PICK next \in NextWorker(p, found, worker) : Become(p, next)
      BY <1>2 DEF provision
    <2>2. /\ worker \in [Members -> Row] /\ found \in SUBSET Members
          /\ \A m \in Members : worker[m] \in Known
      BY <1>1, InvFacts DEF Types, Tables
    <2> HIDE DEF found
    <2> QED
      BY <1>1, <2>1, <2>2, NextRest
  <1>3. CASE found = {}
    <2> DEFINE next == [Idle EXCEPT !.pc = "allocate"]
    <2>1. Become(p, next)
      BY <1>3 DEF provision
    <2>2. next.pc = "allocate" /\ next.objects = Idle.objects
      BY DEF Idle
    <2> HIDE DEF next
    <2> QED
      BY <1>1, <2>1, <2>2, NoRowKnown, CalmMove
  <1> QED
    BY <1>2, <1>3

LEMMA ProcessScopeRest ==
  ASSUME IInv, NEW p \in Procs, process_scope(p)
  PROVE  Types' /\ Rest'
  <1>1. /\ Types /\ Types' /\ proc[p] \in Process /\ proc[p].pc = "allocate"
        /\ UNCHANGED <<worker, activations, deleted, tokens, cloud>>
    BY InvFacts, ProcessScopeType, ProcFacts DEF process_scope, db, At
  <1>2. CASE workers_required <= workers_available
    BY <1>1, <1>2, IdleRest DEF process_scope
  <1>3. CASE ~(workers_required <= workers_available)
    <2> DEFINE next == [proc[p] EXCEPT !.pool = 1,
                          !.required = workers_required - workers_available]
    <2>1. Become(p, next)
      BY <1>3 DEF process_scope
    <2>2. next.pc = "allocate" /\ next.objects = proc[p].objects
      BY <1>1 DEF Process
    <2> HIDE DEF next
    <2> QED
      BY <1>1, <2>1, <2>2, InvFacts, CalmMove
  <1> QED
    BY <1>2, <1>3

LEMMA AllocateWorkersRest ==
  ASSUME IInv, NEW p \in Procs, allocate_workers(p)
  PROVE  Types' /\ Rest'
  <1> DEFINE k == proc[p].pool
             skipped == [proc[p] EXCEPT !.pool = k + 1]
             given(amount) == [proc[p] EXCEPT !.pc = "create",
                                  !.count = amount, !.required = @ - amount]
  <1>1. /\ Types /\ Types' /\ proc[p] \in Process /\ proc[p].pc = "allocate"
        /\ UNCHANGED <<worker, activations, deleted, tokens, cloud>>
    BY InvFacts, AllocateWorkersType, ProcFacts DEF allocate_workers, db, At
  <1>2. CASE proc[p].required = 0 \/ k > Len(Pools)
    BY <1>1, <1>2, IdleRest DEF allocate_workers
  <1>3. CASE ~(proc[p].required = 0 \/ k > Len(Pools))
    <2>1. PICK amount : Become(p, IF amount = 0 THEN skipped ELSE given(amount))
      BY <1>3 DEF allocate_workers
    <2>2. skipped.pc = "allocate" /\ skipped.objects = proc[p].objects
      BY <1>1 DEF Process
    <2>3. given(amount).pc = "create" /\ given(amount).objects = proc[p].objects
      BY <1>1 DEF Process
    <2>4. PICK next : /\ Become(p, next) /\ next.pc \in {"allocate", "create"}
                      /\ next.objects = proc[p].objects
      <3> HIDE DEF skipped, given
      <3> QED
        BY <2>1, <2>2, <2>3
    <2> QED
      BY <1>1, <2>4, InvFacts, CalmMove
  <1> QED
    BY <1>2, <1>3

LEMMA PickRest ==
  ASSUME IInv, NEW p \in Procs, pick(p)
  PROVE  Types' /\ Rest'
  <1> DEFINE stopped == {m \in Stopped(PoolFor(p)) : row_lock[m] = None}
  <1>1. /\ Types /\ Types' /\ proc[p] \in Process /\ proc[p].pc = "pick"
        /\ UNCHANGED <<worker, activations, deleted, tokens, cloud>>
        /\ proc[p].objects \in [Members -> Row]
    BY InvFacts, PickType, ProcFacts DEF pick, At
  <1>2. CASE proc[p].count = 0 \/ stopped = {}
    <2>1. Become(p, Done(p))
      BY <1>2 DEF pick
    <2> QED
      BY <1>1, <2>1, DoneType, NoRowKnown, CalmMove
  <1>3. CASE ~(proc[p].count = 0 \/ stopped = {})
    <2> DEFINE m == Least(stopped)
               next == [proc[p] EXCEPT !.pc = "launch", !.member = m,
                                       !.objects[m] = worker[m]]
    <2>1. Become(p, next)
      BY <1>3 DEF pick
    <2> HIDE DEF m
    <2>2. next.pc = "launch"
          /\ \A k \in Members : next.objects[k] \in {worker[k], proc[p].objects[k]}
      BY <1>1 DEF Process
    <2> HIDE DEF next
    <2> QED
      BY <1>1, <2>1, <2>2, InvFacts, CalmMove
  <1> QED
    BY <1>2, <1>3

LEMMA HandleLaunchRest ==
  ASSUME IInv, NEW p \in Procs, handle_launch(p)
  PROVE  Types' /\ Rest'
  <1> DEFINE next(k) == [Idle EXCEPT !.pc = "create", !.pool = k, !.count = 1]
  <1>1. Types' /\ UNCHANGED <<worker, activations, deleted, tokens, cloud>>
    BY InvFacts, HandleLaunchType DEF handle_launch, Command, db
  <1>2. PICK k \in DOMAIN Pools : Become(p, next(k))
    BY DEF handle_launch
  <1>3. next(k).pc = "create" /\ next(k).objects = Idle.objects
    BY DEF Idle
  <1> HIDE DEF next
  <1> QED
    BY <1>1, <1>2, <1>3, NoRowKnown, CalmMove

LEMMA HandleTerminateRest ==
  ASSUME IInv, NEW p \in Procs, handle_terminate(p)
  PROVE  Types' /\ Rest'
  <1>1. /\ Types /\ Types'
        /\ UNCHANGED <<worker, activations, deleted, tokens, cloud>>
    BY InvFacts, HandleTerminateType DEF handle_terminate, Command, db
  <1>2. PICK m \in Members :
            \E next \in NextWorker(p, {m}, worker) : Become(p, next)
    BY DEF handle_terminate
  <1>3. /\ worker \in [Members -> Row]
        /\ \A k \in Members : worker[k] \in Known
    BY <1>1, InvFacts DEF Types, Tables
  <1> QED
    BY <1>1, <1>2, <1>3, NextRest

-----------------------------------------------------------------------------
(* Steps of no process.                                                    *)

LEMMA ConnectRest ==
  ASSUME IInv, NEW i \in Instances, NEW m \in Members, connect(i, m)
  PROVE  Types' /\ Rest'
  <1> DEFINE row == [worker[m] EXCEPT !.connected = TRUE, !.known = TRUE]
  <1>1. Types /\ Types' /\ row \in Row
    BY InvFacts, ConnectType
  <1>2. worker'[m] = row /\ \A k \in Members \ {m} : worker'[k] = worker[k]
    BY <1>1, SaveType DEF connect
  <1>3. /\ row.token = worker[m].token /\ row.activation = worker[m].activation
        /\ row.instance = worker[m].instance
    BY <1>1 DEF Types, Tables, Row
  <1> HIDE DEF row
  <1> QED
    BY <1>1, <1>2, <1>3, CalmSave DEF connect

LEMMA DisconnectRest ==
  ASSUME IInv, NEW m \in Members, disconnect(m)
  PROVE  Types' /\ Rest'
  <1> DEFINE row == [worker[m] EXCEPT !.connected = FALSE]
  <1>1. Types /\ Types' /\ row \in Row
    BY InvFacts, DisconnectType
  <1>2. worker'[m] = row /\ \A k \in Members \ {m} : worker'[k] = worker[k]
    BY <1>1, SaveType DEF disconnect
  <1>3. /\ row.token = worker[m].token /\ row.activation = worker[m].activation
        /\ row.instance = worker[m].instance
    BY <1>1 DEF Types, Tables, Row
  <1> HIDE DEF row
  <1> QED
    BY <1>1, <1>2, <1>3, CalmSave DEF disconnect

LEMMA OthersRest ==
  ASSUME IInv,
         \/ \E i \in Instances, m \in Members : ask(i, m) \/ report(i, m)
         \/ \E i \in Instances : vanish(i)
         \/ \E m \in Members : schedule(m)
         \/ \E r \in Requests : create_work_request(r)
         \/ ten_minutes
  PROVE  Types' /\ Rest'
  <1>1. Types
    BY InvFacts
  <1>2. Types'
    BY <1>1, AskType, ReportType, VanishType, ScheduleStepType,
       CreateWorkRequestType, TenMinutesType
  <1>3. UNCHANGED <<worker, activations, deleted, tokens, proc>>
    BY DEF ask, report, vanish, schedule, create_work_request, ten_minutes, db
  <1>4. \A i \in Instances : cloud[i] # "unused" => cloud'[i] # "unused"
    <2>1. UNCHANGED cloud \/ \E i \in Instances :
                                cloud' = [cloud EXCEPT ![i] = "vanished"]
      BY DEF ask, report, vanish, schedule, create_work_request, ten_minutes
    <2> QED
      BY <1>1, <2>1 DEF Types, Tables
  <1> QED
    BY <1>2, <1>3, <1>4, CalmSave

-----------------------------------------------------------------------------
(* Initially there are no credentials.                                     *)
LEMMA InitIInv == Init => IInv
  <1> SUFFICES ASSUME Init PROVE IInv
    OBVIOUS
  <1>1. /\ \A m \in Members : worker[m] = NoRow
        /\ \A p \in Procs : proc[p] = Idle
    BY DEF Init
  <1>2. Idle.pc = "idle"
    BY DEF Idle
  <1>3. TypeOK
    BY IdleType, WorkerPoolsAssumption DEF Init, TypeOK, States, Request
  <1>4. InHand
    BY <1>1, <1>2 DEF InHand, HasMember, HasPool
  <1>5. NamesUsed
    BY <1>1, NoRowKnown DEF Init, NamesUsed
  <1>6. LaunchesDiffer /\ Disabled
    BY <1>1, <1>2 DEF LaunchesDiffer, Disabled, At
  <1>7. CredentialsCurrent
    BY DEF Init, CredentialsCurrent, Authenticated
  <1> QED
    BY <1>3, <1>4, <1>5, <1>6, <1>7 DEF IInv

(* Every step keeps the invariant.                                         *)
LEMMA NextIInv == IInv /\ [Next]_vars => IInv'
  <1> SUFFICES ASSUME IInv, [Next]_vars PROVE IInv'
    OBVIOUS
  <1>1. Types' /\ Rest'
    <2>1. ASSUME NEW p \in Procs, Step(p)
          PROVE  Types' /\ Rest'
      BY <2>1, TerminateWorkerRest, TerminateInstanceRest, SaveTerminatedRest,
         RetryRunningRest, ProcessScopeRest, AllocateWorkersRest,
         CreatePoolMembersRest, PickRest, CreateInstanceRest,
         CommitLaunchRest, TokenDeletedRest DEF Step
    <2>2. ASSUME NEW p \in Procs,
                 \/ provision(p) \/ handle_launch(p) \/ handle_terminate(p)
                 \/ fails(p)
          PROVE  Types' /\ Rest'
      BY <2>2, ProvisionRest, HandleLaunchRest, HandleTerminateRest, FailsRest
    <2>3. ASSUME NEW i \in Instances, NEW m \in Members, Life(i, m)
          PROVE  Types' /\ Rest'
      BY <2>3, RegisterRest, ConnectRest, OthersRest DEF Life
    <2>4. CASE UNCHANGED vars
      <3>1. UNCHANGED <<worker, activations, deleted, tokens, request, recent,
                        row_lock, cloud, proc, faults, commands>>
        BY <2>4 DEF vars, db
      <3>2. Types'
        BY <3>1, InvFacts, StillType DEF Types, Tables
      <3> QED
        BY <3>1, <3>2, CalmSave
    <2> QED
      BY <2>1, <2>2, <2>3, <2>4, DisconnectRest, OthersRest DEF Next
  <1>2. (TypeOK /\ InHand)'
    BY <1>1, TypesOf, PTL
  <1> QED
    BY <1>1, <1>2 DEF IInv, Rest

(* Whatever processes, instances and administrators do, every variable has *)
(* its type, and a member is locked only by a process that launches an     *)
(* instance for it.                                                        *)
THEOREM TypeCorrect == Spec => []TypeOK
  <1>1. IInv => TypeOK
    BY DEF IInv
  <1> QED
    BY <1>1, InitIInv, NextIInv, PTL DEF Spec

(* For every number of processes, members, instances and failures, valid   *)
(* credentials of a member belong to the instance that its row is about:   *)
(* terminate_worker(), which saves an object that it read long before,     *)
(* RegisterView, which exchanges the activation token, and                 *)
(* launch_workers(), which uses the row again, never leave an instance of  *)
(* an earlier launch with access.                                          *)
THEOREM CredentialsKept == Spec => []CredentialsCurrent
  <1>1. IInv => CredentialsCurrent
    BY DEF IInv
  <1> QED
    BY <1>1, InitIInv, NextIInv, PTL DEF Spec

-----------------------------------------------------------------------------
(***************************************************************************)
(* What may go wrong with pools is counted: members over the limit, by the *)
(* commands of administrators; instances that are lost track of, by faults *)
(* and commands; and requests that nobody will finish, by faults.  Each    *)
(* count is kept by an inductive invariant that has something of its own   *)
(* to blame for every one of them.                                         *)
(***************************************************************************)

Terminating == {"terminate", "api", "save", "retry"}

(* Rows are never deleted, and objects are of rows that there are.         *)
ExistingOf(p) ==
    /\ \A m \in Members : proc[p].objects[m].exists => worker[m].exists
    /\ proc[p].pc \in Terminating =>
          \A m \in proc[p].todo : proc[p].objects[m].exists
    /\ proc[p].pc \in HasMember \ {"retry"} => Object(p).exists
Existing == \A p \in Procs : ExistingOf(p)

(* Commands that are about to create a member, and those of one pool.      *)
Ordered == {p \in Procs \ {Provisioner} : At(p, "create")}
OrderedIn(pool) == {p \in Ordered : PoolFor(p) = pool}
Orders ==
    /\ IsFiniteSet(Ordered) /\ Cardinality(Ordered) <= commands
    /\ \A p \in Ordered : proc[p].count = 1
    /\ \A p \in Procs : At(p, "allocate") => p = Provisioner

(* What the provisioner is about to create in a pool.                      *)
Allocated(pool) ==
    IF At(Provisioner, "create") /\ PoolFor(Provisioner) = pool
    THEN proc[Provisioner].count ELSE 0

(* Members that there are or will be.                                      *)
Planned ==
    \A k \in DOMAIN Pools : max_active_instances[Pools[k]] # None =>
        Cardinality(In(Pools[k])) + Allocated(Pools[k])
        + Cardinality(OrderedIn(Pools[k]))
        <= max_active_instances[Pools[k]] + commands

LInv == IInv /\ Existing /\ Orders /\ Planned

-----------------------------------------------------------------------------
(* Counting.                                                               *)

(* Sets of members are finite; a part has no more elements.                *)
LEMMA Finite ==
  ASSUME NEW big \in SUBSET Members, NEW small \in SUBSET big
  PROVE  /\ IsFiniteSet(big) /\ IsFiniteSet(small)
         /\ Cardinality(big) \in Nat /\ Cardinality(small) \in Nat
         /\ Cardinality(small) <= Cardinality(big)
         /\ Cardinality(small) = Cardinality(big) => small = big
  <1>1. IsFiniteSet(big)
    BY Names, FS_Subset
  <1> QED
    BY <1>1, FS_Subset, FS_CardinalityType

(* Some members have a last one: the one that fewest come after.           *)
LEMMA GreatestOf ==
  ASSUME NEW ids \in SUBSET Members, ids # {}
  PROVE  \E n \in ids : \A k \in ids : k <= n
  <1> DEFINE after(n) == {k \in ids : k > n}
             counts == {Cardinality(after(n)) : n \in ids}
  <1>1. \A n \in ids : Cardinality(after(n)) \in Nat
    BY Counts
  <1>2. counts \in SUBSET Nat /\ counts # {}
    BY <1>1
  <1>3. Least(counts) \in counts /\ \A c \in counts : Least(counts) <= c
    BY <1>2, LeastOf
  <1>4. PICK n \in ids : Cardinality(after(n)) = Least(counts)
    BY <1>3
  <1>5. ASSUME NEW k \in ids, ~(k <= n)
        PROVE  FALSE
    <2>1. k \in Nat /\ n \in Nat /\ ids \subseteq Nat
      BY Names
    <2>2. after(k) \in SUBSET after(n) /\ k \in after(n) /\ k \notin after(k)
      <3>1. \A j \in Nat : j > k => j > n
        BY <1>5, <2>1
      <3>2. k > n /\ ~(k > k)
        BY <1>5, <2>1
      <3> QED
        BY <2>1, <3>1, <3>2
    <2>3. Cardinality(after(k)) < Cardinality(after(n))
      <3>1. after(n) \in SUBSET Members
        OBVIOUS
      <3> HIDE DEF after
      <3> QED
        BY <2>2, <3>1, Finite
    <2>4. Cardinality(after(n)) <= Cardinality(after(k))
      BY <1>3, <1>4
    <2> QED
      BY <1>1, <2>3, <2>4
  <1> QED
    BY <1>5

(* The first count names are no more than count.                           *)
LEMMA FirstCount ==
  ASSUME NEW ids \in SUBSET Members, NEW count \in Int, NEW limit \in Nat,
         count <= limit
  PROVE  Cardinality(First(count, ids)) <= limit
  <1> DEFINE names == First(count, ids)
  <1>1. names \in SUBSET ids /\ names \in SUBSET Members
    BY DEF First
  <1>2. CASE names = {}
    BY <1>2, FS_EmptySet
  <1>3. CASE names # {}
    <2>1. PICK n \in names : \A k \in names : k <= n
      BY <1>1, <1>3, GreatestOf
    <2> DEFINE before == {k \in ids : k < n}
    <2>2. Cardinality(before) < count
      BY <2>1 DEF First
    <2>3. names \ {n} \in SUBSET before /\ before \in SUBSET Members
      <3>1. ASSUME NEW k \in names \ {n}
            PROVE  k \in ids /\ k < n
        <4> HIDE DEF names
        <4>1. k \in ids /\ k \in Nat /\ n \in Nat
          BY <1>1, <2>1, Names
        <4> QED
          BY <2>1, <4>1
      <3> QED
        BY <3>1
    <2>4. /\ Cardinality(names \ {n}) <= Cardinality(before)
          /\ Cardinality(before) \in Nat
      <3> HIDE DEF before, names
      <3> QED
        BY <2>3, Finite
    <2>5. IsFiniteSet(names) /\ Cardinality(names) \in Nat
      <3> HIDE DEF names
      <3> QED
        BY <1>1, Finite
    <2>6. Cardinality(names \ {n}) = Cardinality(names) - 1
      BY <2>1, <2>5, FS_RemoveElement
    <2> HIDE DEF before, names
    <2> QED
      BY <2>2, <2>4, <2>5, <2>6 DEF names
  <1> QED
    BY <1>2, <1>3

(* Two sets of members together have no more than both.                    *)
LEMMA CountUnion ==
  ASSUME NEW these \in SUBSET Members, NEW those \in SUBSET Members
  PROVE  Cardinality(these \cup those) <= Cardinality(these) + Cardinality(those)
  <1>1. IsFiniteSet(these) /\ IsFiniteSet(those)
    BY Finite
  <1>2. Cardinality(these \cup those) =
          Cardinality(these) + Cardinality(those) - Cardinality(these \cap those)
    BY <1>1, FS_Union
  <1>3. /\ Cardinality(these \cap those) \in Nat
        /\ Cardinality(these) \in Nat /\ Cardinality(those) \in Nat
    BY Counts
  <1> QED
    BY <1>2, <1>3

-----------------------------------------------------------------------------
(* The numbers of a pool are numbers.                                      *)
LEMMA PoolFacts ==
  ASSUME LInv, NEW pool
  PROVE  /\ Types /\ commands \in Nat
         /\ Cardinality(In(pool)) \in Nat /\ Allocated(pool) \in Nat
         /\ IsFiniteSet(Ordered) /\ Cardinality(Ordered) \in Nat
         /\ IsFiniteSet(OrderedIn(pool)) /\ Cardinality(OrderedIn(pool)) \in Nat
         /\ Cardinality(OrderedIn(pool)) <= Cardinality(Ordered)
  <1>1. Types /\ IsFiniteSet(Ordered)
    BY InvFacts DEF LInv, Orders
  <1>2. Provisioner \in Procs
    BY WorkerPoolsAssumption
  <1>3. Allocated(pool) \in Nat
    BY <1>1, <1>2, ProcFacts DEF Allocated
  <1>4. OrderedIn(pool) \in SUBSET Ordered
    BY DEF OrderedIn
  <1>5. In(pool) \in SUBSET Members
    BY DEF In
  <1>6. commands \in Nat
    BY <1>1, WorkerPoolsAssumption DEF Types, Tables
  <1> QED
    BY <1>1, <1>3, <1>4, <1>5, <1>6, Counts, FS_Subset, FS_CardinalityType

(* A limit is a number or None.                                            *)
LEMMA LimitType ==
  ASSUME NEW k \in DOMAIN Pools
  PROVE  max_active_instances[Pools[k]] \in Int \cup {None}
  <1>1. Pools[k] \in {PoolOf[m] : m \in Members}
    BY WorkerPoolsAssumption
  <1> QED
    BY <1>1, WorkerPoolsAssumption

(* Arithmetic.                                                             *)
LEMMA SumFewer ==
  ASSUME NEW a \in Nat, NEW b \in Nat, NEW c \in Nat, NEW most \in Int,
         NEW d \in Nat, NEW e \in Nat, NEW f \in Nat, NEW n \in Nat,
         NEW more \in Nat, d <= a, e <= b, f <= c, n <= more,
         a + b + c <= most + n
  PROVE  d + e + f <= most + more
  OBVIOUS

(* Fewer members, plans and orders are within the limit as well.           *)
LEMMA Fewer ==
  ASSUME LInv, Types', NEW k \in DOMAIN Pools,
         In(Pools[k])' \subseteq In(Pools[k]),
         Allocated(Pools[k])' \in {0, Allocated(Pools[k])},
         OrderedIn(Pools[k])' \subseteq OrderedIn(Pools[k]),
         commands' \in {commands, commands + 1},
         max_active_instances[Pools[k]] # None
  PROVE  Cardinality(In(Pools[k])') + Allocated(Pools[k])'
           + Cardinality(OrderedIn(Pools[k])')
         <= max_active_instances[Pools[k]] + commands'
  <1> DEFINE pool == Pools[k]
             limit == max_active_instances[pool]
  <1>1. /\ commands \in Nat /\ Cardinality(In(pool)) \in Nat
        /\ Allocated(pool) \in Nat /\ IsFiniteSet(OrderedIn(pool))
        /\ Cardinality(OrderedIn(pool)) \in Nat
    BY PoolFacts
  <1>2. limit \in Int
    BY LimitType
  <1>3. /\ Cardinality(In(pool)') <= Cardinality(In(pool))
        /\ Cardinality(In(pool)') \in Nat
    <2>1. In(pool) \in SUBSET Members
      BY DEF In
    <2> QED
      BY <2>1, Finite
  <1>4. /\ Cardinality(OrderedIn(pool)') <= Cardinality(OrderedIn(pool))
        /\ Cardinality(OrderedIn(pool)') \in Nat
    BY <1>1, FS_Subset, FS_CardinalityType
  <1>5. Cardinality(In(pool)) + Allocated(pool) + Cardinality(OrderedIn(pool))
        <= limit + commands
    BY DEF LInv, Planned
  <1> HIDE DEF limit
  <1>6. Allocated(pool)' \in Nat /\ Allocated(pool)' <= Allocated(pool)
    BY <1>1
  <1>7. commands' \in Nat /\ commands <= commands'
    BY <1>1
  <1> QED
    BY <1>1, <1>2, <1>3, <1>4, <1>5, <1>6, <1>7, SumFewer DEF limit

(* Steps after which nobody is about to create members who was not.        *)
LEMMA Steady ==
  ASSUME LInv, Types', commands' \in {commands, commands + 1},
         \A m \in Members : worker'[m].exists <=> worker[m].exists,
         \A p \in Procs : \/ proc'[p] = proc[p]
                         \/ /\ proc'[p].pc # "create"
                            /\ proc'[p].pc = "allocate" => p = Provisioner
  PROVE  (Orders /\ Planned)'
  <1>1. Provisioner \in Procs
    BY WorkerPoolsAssumption
  <1>2. \A p \in Procs : At(p, "create")' => proc'[p] = proc[p] /\ At(p, "create")
    BY DEF At
  <1>3. Ordered' \in SUBSET Ordered /\ \A p \in Ordered' : proc'[p] = proc[p]
    BY <1>2 DEF Ordered
  <1>4. /\ commands \in Nat /\ IsFiniteSet(Ordered) /\ Cardinality(Ordered) \in Nat
    BY PoolFacts
  <1>5. /\ IsFiniteSet(Ordered') /\ Cardinality(Ordered') <= Cardinality(Ordered)
        /\ Cardinality(Ordered') \in Nat
    BY <1>3, <1>4, FS_Subset, FS_CardinalityType
  <1>6. Orders'
    BY <1>3, <1>4, <1>5 DEF LInv, Orders, At
  <1>7. ASSUME NEW k \in DOMAIN Pools, max_active_instances[Pools[k]] # None
        PROVE  Cardinality(In(Pools[k])') + Allocated(Pools[k])'
                 + Cardinality(OrderedIn(Pools[k])')
               <= max_active_instances[Pools[k]] + commands'
    <2>1. In(Pools[k])' \subseteq In(Pools[k])
      BY DEF In
    <2>2. Allocated(Pools[k])' \in {0, Allocated(Pools[k])}
      BY <1>1, <1>2 DEF Allocated, PoolFor
    <2>3. OrderedIn(Pools[k])' \subseteq OrderedIn(Pools[k])
      BY <1>3 DEF OrderedIn, PoolFor
    <2> QED
      BY <1>7, <2>1, <2>2, <2>3, Fewer
  <1> QED
    BY <1>6, <1>7 DEF Planned

-----------------------------------------------------------------------------
(* Orders, plans and members that are created.                             *)

(* An order of an administrator is counted by commands.                    *)
LEMMA HandleLaunchLimits ==
  ASSUME LInv, Types', NEW p \in Procs, handle_launch(p)
  PROVE  (Orders /\ Planned)'
  <1>1. /\ p # Provisioner /\ At(p, "idle") /\ commands' = commands + 1
        /\ UNCHANGED worker
    BY DEF handle_launch, Command, db
  <1>2. PICK k0 \in DOMAIN Pools :
            Become(p, [Idle EXCEPT !.pc = "create", !.pool = k0, !.count = 1])
    BY DEF handle_launch
  <1>3. /\ proc'[p].pc = "create" /\ proc'[p].count = 1
        /\ \A q \in Procs \ {p} : proc'[q] = proc[q]
    <2>1. Types
      BY PoolFacts
    <2>2. /\ proc'[p] = [Idle EXCEPT !.pc = "create", !.pool = k0, !.count = 1]
          /\ \A q \in Procs \ {p} : proc'[q] = proc[q]
      BY <1>2, <2>1, Moved DEF Types
    <2> QED
      BY <2>2 DEF Idle
  <1>4. Ordered' = Ordered \cup {p} /\ p \notin Ordered
    BY <1>1, <1>3 DEF Ordered, At
  <1>5. Orders'
    <2>1. /\ IsFiniteSet(Ordered) /\ Cardinality(Ordered) \in Nat
          /\ Cardinality(Ordered) <= commands /\ commands \in Nat
      BY PoolFacts DEF LInv, Orders
    <2>2. /\ IsFiniteSet(Ordered') /\ Cardinality(Ordered') = Cardinality(Ordered) + 1
      BY <1>4, <2>1, FS_AddElement
    <2> QED
      BY <1>1, <1>3, <1>4, <2>1, <2>2 DEF LInv, Orders, At, Ordered
  <1>6. ASSUME NEW k \in DOMAIN Pools, max_active_instances[Pools[k]] # None
        PROVE  Cardinality(In(Pools[k])') + Allocated(Pools[k])'
                 + Cardinality(OrderedIn(Pools[k])')
               <= max_active_instances[Pools[k]] + commands'
    <2> DEFINE pool == Pools[k]
    <2>1. In(pool)' = In(pool)
      BY <1>1 DEF In
    <2>2. Allocated(pool)' = Allocated(pool)
      BY <1>1, <1>3, WorkerPoolsAssumption DEF Allocated, PoolFor, At
    <2>3. OrderedIn(pool)' \in {OrderedIn(pool), OrderedIn(pool) \cup {p}}
      BY <1>3, <1>4 DEF OrderedIn, PoolFor, Ordered
    <2>4. /\ IsFiniteSet(OrderedIn(pool)) /\ Cardinality(OrderedIn(pool)) \in Nat
          /\ commands \in Nat /\ Cardinality(In(pool)) \in Nat
          /\ Allocated(pool) \in Nat
      BY PoolFacts
    <2>5. /\ Cardinality(OrderedIn(pool)') \in Nat
          /\ Cardinality(OrderedIn(pool)') <= Cardinality(OrderedIn(pool)) + 1
      BY <2>3, <2>4, FS_AddElement
    <2>6. /\ Cardinality(In(pool)) + Allocated(pool) + Cardinality(OrderedIn(pool))
             <= max_active_instances[pool] + commands
          /\ max_active_instances[pool] \in Int
      BY <1>6, LimitType DEF LInv, Planned
    <2> HIDE DEF pool
    <2>7. Cardinality(In(pool)) + Allocated(pool) + Cardinality(OrderedIn(pool)')
          <= max_active_instances[pool] + (commands + 1)
      BY <2>4, <2>5, <2>6
    <2> QED
      BY <1>1, <2>1, <2>2, <2>7 DEF pool
  <1> QED
    BY <1>5, <1>6 DEF Planned

(* What limit_by_max_active_instances() leaves fits in the pool.           *)
LEMMA AmountFits ==
  ASSUME NEW k \in 1 .. Len(Pools), NEW required \in Nat,
         NEW amount \in Quota(limit_by_max_active_instances(Pools[k], required)),
         amount # 0, max_active_instances[Pools[k]] # None
  PROVE  /\ amount \in Nat
         /\ Cardinality(In(Pools[k])) + amount <= max_active_instances[Pools[k]]
  <1> DEFINE active == Cardinality(In(Pools[k]))
             limit == max_active_instances[Pools[k]]
             given == limit_by_max_active_instances(Pools[k], required)
  <1>1. active \in Nat /\ limit \in Int
    <2>1. k \in DOMAIN Pools
      BY WorkerPoolsAssumption
    <2> QED
      BY <2>1, Counts, LimitType DEF In
  <1>2. given = IF limit - active <= 0 THEN 0 ELSE Smaller(required, limit - active)
    BY DEF limit_by_max_active_instances
  <1> HIDE DEF active, limit, given
  <1>3. given \in Nat /\ (given # 0 => given <= limit - active)
    BY <1>1, <1>2 DEF Smaller
  <1>4. amount \in 0 .. given
    BY <1>3 DEF Quota, given
  <1>5. amount \in Nat /\ active + amount <= limit
    BY <1>1, <1>3, <1>4
  <1> QED
    BY <1>5 DEF active, limit

(* The provisioner plans no more than what the limit leaves of the members *)
(* that there are.                                                         *)
LEMMA AllocateWorkersLimits ==
  ASSUME LInv, Types', NEW p \in Procs, allocate_workers(p)
  PROVE  (Orders /\ Planned)'
  <1> DEFINE k == proc[p].pool
             required == proc[p].required
  <1>1. /\ Types /\ proc[p] \in Process /\ required \in Nat
        /\ k \in 0 .. Len(Pools) + 1 /\ Len(Pools) \in Nat
    BY PoolFacts, ProcFacts
  <1>2. /\ p = Provisioner /\ k > 0 /\ proc[p].pc = "allocate"
        /\ UNCHANGED <<worker, commands>>
    BY DEF allocate_workers, LInv, Orders, db, At
  <1>3. CASE required = 0 \/ k > Len(Pools)
    <2>1. Become(p, Idle) /\ Idle.pc = "idle"
      BY <1>3 DEF allocate_workers, Idle
    <2>2. proc'[p] = Idle /\ \A q \in Procs \ {p} : proc'[q] = proc[q]
      BY <1>1, <2>1, Moved DEF Types
    <2> QED
      BY <1>2, <2>1, <2>2, Steady
  <1>4. CASE ~(required = 0 \/ k > Len(Pools))
    <2>1. PICK amount \in
                 Quota(limit_by_max_active_instances(Pools[k], required)) :
             Become(p, IF amount = 0
                       THEN [proc[p] EXCEPT !.pool = k + 1]
                       ELSE [proc[p] EXCEPT !.pc = "create",
                                !.count = amount, !.required = @ - amount])
      BY <1>4 DEF allocate_workers
    <2>2. k \in 1 .. Len(Pools)
      BY <1>1, <1>2, <1>4
    <2>3. CASE amount = 0
      <3> DEFINE next == [proc[p] EXCEPT !.pool = k + 1]
      <3>1. Become(p, next) /\ next.pc = "allocate"
        BY <1>1, <1>2, <2>1, <2>3 DEF Process
      <3> HIDE DEF next
      <3>2. proc'[p] = next /\ \A q \in Procs \ {p} : proc'[q] = proc[q]
        BY <1>1, <3>1, Moved DEF Types
      <3> QED
        BY <1>2, <3>1, <3>2, Steady
    <2>4. CASE amount # 0
      <3> DEFINE next == [proc[p] EXCEPT !.pc = "create", !.count = amount,
                                         !.required = @ - amount]
      <3>1. Become(p, next)
        BY <2>1, <2>4
      <3>2. next.pc = "create" /\ next.count = amount /\ next.pool = k
        BY <1>1 DEF Process
      <3> HIDE DEF next
      <3>3. proc'[p] = next /\ \A q \in Procs \ {p} : proc'[q] = proc[q]
        BY <1>1, <3>1, Moved DEF Types
      <3>4. Ordered' = Ordered /\ \A q \in Ordered : q \in Procs /\ q # p
        BY <1>2, <3>3 DEF Ordered, At
      <3>5. Orders'
        BY <1>2, <3>2, <3>3, <3>4 DEF LInv, Orders, At
      <3>6. ASSUME NEW j \in DOMAIN Pools, max_active_instances[Pools[j]] # None
            PROVE  Cardinality(In(Pools[j])') + Allocated(Pools[j])'
                     + Cardinality(OrderedIn(Pools[j])')
                   <= max_active_instances[Pools[j]] + commands'
        <4> DEFINE pool == Pools[j]
        <4>1. In(pool)' = In(pool) /\ OrderedIn(pool)' = OrderedIn(pool)
          BY <1>2, <3>3, <3>4 DEF In, OrderedIn, PoolFor
        <4>2. CASE pool # Pools[k]
          <5>1. Allocated(pool)' = 0
            BY <1>2, <3>2, <3>3, <4>2 DEF Allocated, PoolFor
          <5> QED
            BY <1>2, <3>6, <4>1, <5>1, Fewer
        <4>3. CASE pool = Pools[k]
          <5>1. Allocated(pool)' = amount
            BY <1>2, <3>2, <3>3, <4>3 DEF Allocated, PoolFor, At
          <5>2. /\ amount \in Nat
                /\ Cardinality(In(pool)) + amount <= max_active_instances[pool]
            BY <1>1, <2>1, <2>2, <2>4, <3>6, <4>3, AmountFits
          <5>3. /\ Cardinality(OrderedIn(pool)) <= commands
                /\ Cardinality(OrderedIn(pool)) \in Nat
                /\ commands \in Nat /\ Cardinality(In(pool)) \in Nat
            <6>1. Cardinality(Ordered) <= commands
              BY DEF LInv, Orders
            <6> QED
              BY <6>1, PoolFacts
          <5>4. max_active_instances[pool] \in Int
            BY <3>6, LimitType
          <5> HIDE DEF pool
          <5>5. Cardinality(In(pool)) + amount + Cardinality(OrderedIn(pool))
                <= max_active_instances[pool] + commands
            BY <5>2, <5>3, <5>4
          <5> QED
            BY <1>2, <4>1, <5>1, <5>5 DEF pool
        <4> QED
          BY <4>2, <4>3
      <3> QED
        BY <3>5, <3>6 DEF Planned
    <2> QED
      BY <2>3, <2>4
  <1> QED
    BY <1>3, <1>4

(* A plan becomes members of its pool: the sum does not grow.              *)
LEMMA CreatePoolMembersLimits ==
  ASSUME LInv, Types', NEW p \in Procs, create_pool_members(p)
  PROVE  (Orders /\ Planned)'
  <1> DEFINE pool0 == PoolFor(p)
             count == proc[p].count
             missing == count - Cardinality(Stopped(pool0))
             names == First(missing, Unused(pool0))
             next == [proc[p] EXCEPT !.pc = "pick"]
  <1>1. /\ Types /\ proc[p] \in Process /\ count \in Nat
        /\ proc[p].pc = "create"
    BY PoolFacts, ProcFacts DEF create_pool_members, At
  <1>2. /\ worker' = [m \in Members |->
                        IF m \in names THEN [NoRow EXCEPT !.exists = TRUE]
                                       ELSE worker[m]]
        /\ Become(p, next) /\ UNCHANGED commands
    BY DEF create_pool_members
  <1>3. next.pc = "pick"
    BY <1>1 DEF Process
  <1>4. [NoRow EXCEPT !.exists = TRUE].exists
    BY DEF NoRow
  <1>5. /\ names \in SUBSET Members /\ \A m \in names : PoolOf[m] = pool0
        /\ Cardinality(names) <= count /\ Cardinality(names) \in Nat
    <2>1. Unused(pool0) \in SUBSET Members /\ Stopped(pool0) \in SUBSET Members
      BY DEF Unused, Stopped, In
    <2>2. missing \in Int /\ missing <= count
      <3>1. Cardinality(Stopped(pool0)) \in Nat
        BY <2>1, Counts
      <3> QED
        BY <1>1, <3>1
    <2>3. names \in SUBSET Members /\ \A m \in names : PoolOf[m] = pool0
      BY DEF First, Unused
    <2>4. Cardinality(names) <= count
      <3> HIDE DEF missing
      <3> QED
        BY <1>1, <2>1, <2>2, FirstCount
    <2> QED
      BY <2>3, <2>4, Counts
  <1> HIDE DEF names, next
  <1>6. proc'[p] = next /\ \A q \in Procs \ {p} : proc'[q] = proc[q]
    BY <1>1, <1>2, Moved DEF Types
  <1>7. Ordered' = Ordered \ {p}
    BY <1>3, <1>6 DEF Ordered, At
  <1>8. Orders'
    <2>1. /\ IsFiniteSet(Ordered) /\ Cardinality(Ordered) \in Nat
          /\ Cardinality(Ordered) <= commands /\ commands \in Nat
      BY PoolFacts DEF LInv, Orders
    <2>2. /\ IsFiniteSet(Ordered') /\ Cardinality(Ordered') <= Cardinality(Ordered)
          /\ Cardinality(Ordered') \in Nat
      BY <1>7, <2>1, FS_Subset, FS_CardinalityType
    <2>3. \A q \in Ordered' : proc'[q] = proc[q] /\ q \in Ordered
      BY <1>6, <1>7 DEF Ordered
    <2> QED
      BY <1>2, <1>3, <1>6, <2>1, <2>2, <2>3 DEF LInv, Orders, At
  <1>9. ASSUME NEW j \in DOMAIN Pools, max_active_instances[Pools[j]] # None
        PROVE  Cardinality(In(Pools[j])') + Allocated(Pools[j])'
                 + Cardinality(OrderedIn(Pools[j])')
               <= max_active_instances[Pools[j]] + commands'
    <2> DEFINE pool == Pools[j]
    <2>1. CASE pool # pool0
      <3>1. In(pool)' = In(pool)
        BY <1>2, <1>5, <2>1 DEF In
      <3>2. OrderedIn(pool)' = OrderedIn(pool)
        BY <1>6, <1>7, <2>1 DEF OrderedIn, PoolFor, Ordered
      <3>3. Allocated(pool)' = Allocated(pool)
        BY <1>3, <1>6, <2>1, WorkerPoolsAssumption DEF Allocated, PoolFor, At
      <3> QED
        BY <1>2, <1>9, <3>1, <3>2, <3>3, Fewer
    <2>2. CASE pool = pool0
      <3>1. In(pool)' = In(pool) \cup names
        BY <1>2, <1>4, <1>5, <2>2 DEF In
      <3>2. /\ Cardinality(In(pool)') <= Cardinality(In(pool)) + Cardinality(names)
            /\ Cardinality(In(pool)') \in Nat
        <4>1. In(pool) \in SUBSET Members
          BY DEF In
        <4> QED
          BY <1>5, <3>1, <4>1, CountUnion, Counts
      <3>3. /\ Cardinality(In(pool)) \in Nat /\ Allocated(pool) \in Nat
            /\ IsFiniteSet(OrderedIn(pool)) /\ commands \in Nat
            /\ Cardinality(OrderedIn(pool)) \in Nat
            /\ max_active_instances[pool] \in Int
        BY <1>9, PoolFacts, LimitType
      <3>4. /\ Allocated(pool)' \in Nat /\ Cardinality(OrderedIn(pool)') \in Nat
            /\ Allocated(pool)' + Cardinality(OrderedIn(pool)') + count
               <= Allocated(pool) + Cardinality(OrderedIn(pool))
        <4>1. CASE p = Provisioner
          <5>1. Allocated(pool)' = 0 /\ Allocated(pool) = count
            BY <1>1, <1>3, <1>6, <2>2, <4>1 DEF Allocated, PoolFor, At
          <5>2. OrderedIn(pool)' = OrderedIn(pool)
            BY <1>6, <1>7, <4>1 DEF OrderedIn, PoolFor, Ordered
          <5> QED
            BY <1>1, <3>3, <5>1, <5>2
        <4>2. CASE p # Provisioner
          <5>1. Allocated(pool)' = Allocated(pool)
            BY <1>6, <4>2, WorkerPoolsAssumption DEF Allocated, PoolFor, At
          <5>2. p \in OrderedIn(pool) /\ count = 1
            BY <1>1, <2>2, <4>2 DEF OrderedIn, Ordered, LInv, Orders, At
          <5>3. OrderedIn(pool)' = OrderedIn(pool) \ {p}
            BY <1>6, <1>7 DEF OrderedIn, PoolFor, Ordered
          <5>4. Cardinality(OrderedIn(pool)') = Cardinality(OrderedIn(pool)) - 1
            BY <3>3, <5>2, <5>3, FS_RemoveElement
          <5>5. Cardinality(OrderedIn(pool)') \in Nat
            BY <3>3, <5>3, FS_RemoveElement, FS_CardinalityType
          <5> QED
            BY <3>3, <5>1, <5>2, <5>4, <5>5
        <4> QED
          BY <4>1, <4>2
      <3>5. Cardinality(In(pool)) + Allocated(pool) + Cardinality(OrderedIn(pool))
            <= max_active_instances[pool] + commands
        BY <1>9 DEF LInv, Planned
      <3> HIDE DEF pool
      <3>6. Cardinality(In(pool)') + Allocated(pool)' + Cardinality(OrderedIn(pool)')
            <= max_active_instances[pool] + commands
        BY <1>1, <1>5, <3>2, <3>3, <3>4, <3>5
      <3> QED
        BY <1>2, <3>6 DEF pool
    <2> QED
      BY <2>1, <2>2
  <1> QED
    BY <1>8, <1>9 DEF Planned

-----------------------------------------------------------------------------
(* Objects are of rows that there are.                                     *)

Limits == Existing /\ Orders /\ Planned

(* Rows are not deleted, and objects stay what they are.                   *)
LEMMA KeepExisting ==
  ASSUME LInv, \A m \in Members : worker[m].exists => worker'[m].exists,
         \A p \in Procs : proc'[p] = proc[p] \/ ExistingOf(p)'
  PROVE  Existing'
  <1> SUFFICES ASSUME NEW p \in Procs, proc'[p] = proc[p]
               PROVE  ExistingOf(p)'
    BY DEF Existing
  <1>1. ExistingOf(p)
    BY DEF LInv, Existing
  <1> QED
    BY <1>1 DEF ExistingOf, Object

(* A process that is idle has no objects.                                  *)
LEMMA IdleExisting ==
  ASSUME NEW p, proc'[p] = Idle
  PROVE  ExistingOf(p)'
  <1>1. Idle.pc = "idle" /\ \A m \in Members : ~Idle.objects[m].exists
    BY DEF Idle, NoRow
  <1> QED
    BY <1>1 DEF ExistingOf, HasMember, Terminating

(* A process that goes on with the objects that it has.                    *)
LEMMA SameExisting ==
  ASSUME LInv, NEW p \in Procs,
         \A m \in Members : worker[m].exists => worker'[m].exists,
         proc'[p].objects = proc[p].objects, proc'[p].todo = proc[p].todo,
         proc'[p].member = proc[p].member,
         proc'[p].pc \in Terminating => proc[p].pc \in Terminating,
         proc'[p].pc \in HasMember \ {"retry"}
            => proc[p].pc \in HasMember \ {"retry"}
  PROVE  ExistingOf(p)'
  <1>1. ExistingOf(p)
    BY DEF LInv, Existing
  <1> QED
    BY <1>1 DEF ExistingOf, Object

(* A process that begins with a list, or goes on with it.                  *)
LEMMA NextExisting ==
  ASSUME NEW p, NEW todo \in SUBSET Members, NEW objects,
         \A m \in todo : objects[m].exists,
         \A m \in todo : worker'[m].exists,
         proc'[p] \in NextWorker(p, todo, objects)
  PROVE  ExistingOf(p)' /\ proc'[p].pc \in {"idle", "terminate"}
  <1>1. CASE todo = {}
    <2>1. proc'[p] = Idle /\ Idle.pc = "idle"
      BY <1>1 DEF NextWorker, Idle
    <2> QED
      BY <2>1, IdleExisting
  <1>2. CASE todo # {}
    <2> DEFINE some == [k \in Members |-> IF k \in todo THEN objects[k]
                                                        ELSE NoRow]
    <2>1. PICK m \in todo :
             proc'[p] = [Idle EXCEPT !.pc = "terminate", !.member = m,
                                     !.todo = todo \ {m}, !.objects = some]
      BY <1>2 DEF NextWorker
    <2>2. \A k \in Members : some[k].exists <=> k \in todo
      BY DEF NoRow
    <2> HIDE DEF some
    <2>3. /\ proc'[p].pc = "terminate" /\ proc'[p].member = m
          /\ proc'[p].todo = todo \ {m} /\ proc'[p].objects = some
      BY <2>1 DEF Idle
    <2> QED
      BY <2>2, <2>3 DEF ExistingOf, Object
  <1> QED
    BY <1>1, <1>2

(* A process that moves, and creates nothing.                              *)
LEMMA Settles ==
  ASSUME LInv, Types', NEW p \in Procs, NEW state, Become(p, state),
         commands' \in {commands, commands + 1},
         \A m \in Members : worker'[m].exists <=> worker[m].exists,
         state.pc # "create", state.pc = "allocate" => p = Provisioner,
         ExistingOf(p)'
  PROVE  Limits'
  <1>1. proc'[p] = state /\ \A q \in Procs \ {p} : proc'[q] = proc[q]
    BY PoolFacts, Moved DEF Types
  <1>2. (Orders /\ Planned)'
    BY <1>1, Steady
  <1>3. Existing'
    BY <1>1, KeepExisting
  <1> QED
    BY <1>2, <1>3 DEF Limits

(* A process that ends has no plans and no orders.                         *)
LEMMA BecomesIdle ==
  ASSUME LInv, Types', NEW p \in Procs, Become(p, Idle),
         UNCHANGED <<worker, commands>>
  PROVE  Limits'
  <1>1. Idle.pc = "idle"
    BY DEF Idle
  <1>2. proc'[p] = Idle
    BY PoolFacts, Moved
  <1> QED
    BY <1>1, <1>2, IdleExisting, Settles

(* A step of no process.                                                   *)
LEMMA StillLimits ==
  ASSUME LInv, Types', UNCHANGED <<proc, commands>>,
         \A m \in Members : worker'[m].exists <=> worker[m].exists
  PROVE  Limits'
  BY Steady, KeepExisting DEF Limits

(* The steps of a termination.                                             *)
LEMMA TerminateLimits ==
  ASSUME LInv, Types', NEW p \in Procs,
         terminate_worker(p) \/ terminate_instance(p)
  PROVE  Limits'
  <1> DEFINE next(pc) == [proc[p] EXCEPT !.pc = pc]
  <1>1. UNCHANGED <<worker, commands>> /\ proc[p].pc \in {"terminate", "api"}
    BY DEF terminate_worker, terminate_instance, db, At
  <1>2. PICK pc \in {"api", "save"} : Become(p, next(pc))
    BY DEF terminate_worker, terminate_instance
  <1>3. /\ next(pc).pc = pc /\ next(pc).objects = proc[p].objects
        /\ next(pc).todo = proc[p].todo /\ next(pc).member = proc[p].member
    BY PoolFacts, ProcFacts DEF Process
  <1> HIDE DEF next
  <1>4. proc'[p] = next(pc)
    BY <1>2, PoolFacts, Moved
  <1>5. ExistingOf(p)'
    BY <1>1, <1>3, <1>4, SameExisting DEF HasMember, Terminating
  <1> QED
    BY <1>1, <1>2, <1>3, <1>5, Settles

(* save() of a terminated member changes no number of members.             *)
LEMMA SaveTerminatedLimits ==
  ASSUME LInv, Types', NEW p \in Procs, save_terminated(p)
  PROVE  Limits'
  <1> DEFINE next == [proc[p] EXCEPT !.pc = "retry"]
             m == proc[p].member
             row == [Object(p) EXCEPT !.instance = None]
  <1>1. Types /\ proc[p] \in Process /\ proc[p].pc = "save"
    BY PoolFacts, ProcFacts DEF save_terminated, At
  <1>2. Become(p, next) /\ Save(m, row) /\ UNCHANGED commands
    BY DEF save_terminated
  <1>3. m \in Members /\ Object(p) \in Row
    BY <1>1, ObjectType DEF HasMember
  <1>4. Object(p).exists /\ worker[m].exists
    BY <1>1, <1>3 DEF LInv, Existing, ExistingOf, Object, HasMember
  <1>5. row \in Row /\ row.exists
    BY <1>3, <1>4 DEF Row
  <1>6. /\ next.pc = "retry" /\ next.objects = proc[p].objects
        /\ next.todo = proc[p].todo /\ next.member = proc[p].member
    BY <1>1 DEF Process
  <1> HIDE DEF next, row
  <1>7. worker'[m] = row /\ \A k \in Members \ {m} : worker'[k] = worker[k]
    BY <1>1, <1>2, <1>3, <1>5, SaveType
  <1>8. \A k \in Members : worker'[k].exists <=> worker[k].exists
    BY <1>4, <1>5, <1>7
  <1>9. proc'[p] = next
    BY <1>1, <1>2, Moved
  <1>10. ExistingOf(p)'
    BY <1>1, <1>6, <1>8, <1>9, SameExisting DEF HasMember, Terminating
  <1> QED
    BY <1>2, <1>6, <1>8, <1>10, Settles

LEMMA RetryLimits ==
  ASSUME LInv, Types', NEW p \in Procs, retry_running(p)
  PROVE  Limits'
  <1>1. PICK next \in NextWorker(p, proc[p].todo, proc[p].objects) :
            Become(p, next)
    BY DEF retry_running
  <1>2. UNCHANGED <<worker, commands>> /\ proc[p].pc = "retry"
    BY DEF retry_running, At
  <1>3. proc[p].todo \in SUBSET Members /\ proc'[p] = next
    BY <1>1, PoolFacts, ProcFacts, Moved
  <1>4. \A m \in proc[p].todo : proc[p].objects[m].exists /\ worker[m].exists
    BY <1>2, <1>3 DEF LInv, Existing, ExistingOf, Terminating
  <1>5. ExistingOf(p)' /\ next.pc \in {"idle", "terminate"}
    BY <1>1, <1>2, <1>3, <1>4, NextExisting
  <1> QED
    BY <1>1, <1>2, <1>5, Settles

LEMMA ProvisionLimits ==
  ASSUME LInv, Types', NEW p \in Procs, provision(p)
  PROVE  Limits'
  <1> DEFINE found == {m \in Members : idle(m)}
  <1>1. UNCHANGED <<worker, commands>> /\ p = Provisioner
    BY DEF provision, db
  <1>2. CASE found # {}
    <2>1. PICK next \in NextWorker(p, found, worker) : Become(p, next)
      BY <1>2 DEF provision
    <2>2. found \in SUBSET Members /\ \A m \in found : worker[m].exists
      BY DEF idle
    <2> HIDE DEF found
    <2>3. proc'[p] = next
      BY <2>1, PoolFacts, Moved
    <2>4. ExistingOf(p)' /\ next.pc \in {"idle", "terminate"}
      BY <1>1, <2>1, <2>2, <2>3, NextExisting
    <2> QED
      BY <1>1, <2>1, <2>4, Settles
  <1>3. CASE found = {}
    <2> DEFINE next == [Idle EXCEPT !.pc = "allocate"]
    <2>1. Become(p, next)
      BY <1>3 DEF provision
    <2>2. next.pc = "allocate" /\ \A m \in Members : ~next.objects[m].exists
      BY DEF Idle, NoRow
    <2> HIDE DEF next
    <2>3. proc'[p] = next
      BY <2>1, PoolFacts, Moved
    <2>4. ExistingOf(p)'
      BY <2>2, <2>3 DEF ExistingOf, HasMember, Terminating
    <2> QED
      BY <1>1, <2>1, <2>2, <2>4, Settles
  <1> QED
    BY <1>2, <1>3

LEMMA HandleTerminateLimits ==
  ASSUME LInv, Types', NEW p \in Procs, handle_terminate(p)
  PROVE  Limits'
  <1>1. UNCHANGED worker /\ commands' = commands + 1
    BY DEF handle_terminate, Command, db
  <1>2. PICK m \in Members :
            /\ worker[m].exists
            /\ \E next \in NextWorker(p, {m}, worker) : Become(p, next)
    BY DEF handle_terminate
  <1>3. PICK next \in NextWorker(p, {m}, worker) : Become(p, next)
    BY <1>2
  <1>4. proc'[p] = next
    BY <1>3, PoolFacts, Moved
  <1>5. ExistingOf(p)' /\ next.pc \in {"idle", "terminate"}
    BY <1>1, <1>2, <1>3, <1>4, NextExisting
  <1> QED
    BY <1>1, <1>3, <1>5, Settles

LEMMA ProcessScopeLimits ==
  ASSUME LInv, Types', NEW p \in Procs, process_scope(p)
  PROVE  Limits'
  <1>1. /\ UNCHANGED <<worker, commands>> /\ proc[p].pc = "allocate"
        /\ p = Provisioner /\ proc[p] \in Process
    BY PoolFacts, ProcFacts DEF process_scope, db, At, LInv, Orders
  <1>2. CASE workers_required <= workers_available
    BY <1>1, <1>2, BecomesIdle DEF process_scope
  <1>3. CASE ~(workers_required <= workers_available)
    <2> DEFINE next == [proc[p] EXCEPT !.pool = 1,
                          !.required = workers_required - workers_available]
    <2>1. Become(p, next)
      BY <1>3 DEF process_scope
    <2>2. /\ next.pc = "allocate" /\ next.objects = proc[p].objects
          /\ next.todo = proc[p].todo /\ next.member = proc[p].member
      BY <1>1 DEF Process
    <2> HIDE DEF next
    <2>3. proc'[p] = next
      BY <2>1, PoolFacts, Moved
    <2>4. ExistingOf(p)'
      BY <1>1, <2>2, <2>3, SameExisting DEF HasMember, Terminating
    <2> QED
      BY <1>1, <2>1, <2>2, <2>4, Settles
  <1> QED
    BY <1>2, <1>3

(* Orders and plans that change: the objects are as before.                *)
LEMMA AllocateWorkersExisting ==
  ASSUME LInv, Types', NEW p \in Procs, allocate_workers(p)
  PROVE  Limits'
  <1> DEFINE k == proc[p].pool
             skipped == [proc[p] EXCEPT !.pool = k + 1]
             given(amount) == [proc[p] EXCEPT !.pc = "create",
                                  !.count = amount, !.required = @ - amount]
  <1>1. /\ Types /\ proc[p] \in Process /\ UNCHANGED worker
    BY PoolFacts, ProcFacts DEF allocate_workers, db
  <1>2. PICK next : /\ Become(p, next)
                    /\ \/ next = Idle
                       \/ /\ next.pc \in {"allocate", "create"}
                          /\ next.objects = proc[p].objects
                          /\ next.todo = proc[p].todo
                          /\ next.member = proc[p].member
    <2>1. /\ skipped.pc = proc[p].pc /\ skipped.objects = proc[p].objects
          /\ skipped.todo = proc[p].todo /\ skipped.member = proc[p].member
      BY <1>1 DEF Process
    <2>2. ASSUME NEW amount
          PROVE  /\ given(amount).pc = "create"
                 /\ given(amount).objects = proc[p].objects
                 /\ given(amount).todo = proc[p].todo
                 /\ given(amount).member = proc[p].member
      BY <1>1 DEF Process
    <2>3. \/ Become(p, Idle)
          \/ \E amount : Become(p, IF amount = 0 THEN skipped ELSE given(amount))
      BY DEF allocate_workers
    <2>4. proc[p].pc = "allocate"
      BY DEF allocate_workers, At
    <2> HIDE DEF skipped, given
    <2> QED
      BY <2>1, <2>2, <2>3, <2>4
  <1>3. proc'[p] = next /\ \A q \in Procs \ {p} : proc'[q] = proc[q]
    BY <1>1, <1>2, Moved DEF Types
  <1>4. ExistingOf(p)'
    BY <1>1, <1>2, <1>3, IdleExisting, SameExisting DEF HasMember, Terminating
  <1> QED
    BY <1>1, <1>3, <1>4, KeepExisting, AllocateWorkersLimits DEF Limits

LEMMA HandleLaunchExisting ==
  ASSUME LInv, Types', NEW p \in Procs, handle_launch(p)
  PROVE  Limits'
  <1> DEFINE next(k) == [Idle EXCEPT !.pc = "create", !.pool = k, !.count = 1]
  <1>1. Types /\ UNCHANGED worker
    BY PoolFacts DEF handle_launch, Command, db
  <1>2. PICK k \in DOMAIN Pools : Become(p, next(k))
    BY DEF handle_launch
  <1>3. next(k).pc = "create" /\ \A m \in Members : ~next(k).objects[m].exists
    BY DEF Idle, NoRow
  <1> HIDE DEF next
  <1>4. proc'[p] = next(k) /\ \A q \in Procs \ {p} : proc'[q] = proc[q]
    BY <1>1, <1>2, Moved DEF Types
  <1>5. ExistingOf(p)'
    BY <1>3, <1>4 DEF ExistingOf, HasMember, Terminating
  <1> QED
    BY <1>1, <1>4, <1>5, KeepExisting, HandleLaunchLimits DEF Limits

LEMMA CreatePoolMembersExisting ==
  ASSUME LInv, Types', NEW p \in Procs, create_pool_members(p)
  PROVE  Limits'
  <1> DEFINE next == [proc[p] EXCEPT !.pc = "pick"]
             row == [NoRow EXCEPT !.exists = TRUE]
  <1>1. Types /\ proc[p] \in Process
    BY PoolFacts, ProcFacts
  <1>2. /\ Become(p, next)
        /\ \A m \in Members : worker'[m] = worker[m] \/ worker'[m] = row
    BY DEF create_pool_members
  <1>3. /\ next.pc = "pick" /\ next.objects = proc[p].objects
        /\ next.todo = proc[p].todo /\ next.member = proc[p].member
    BY <1>1 DEF Process
  <1>4. row.exists
    BY DEF NoRow
  <1> HIDE DEF next, row
  <1>5. proc'[p] = next /\ \A q \in Procs \ {p} : proc'[q] = proc[q]
    BY <1>1, <1>2, Moved DEF Types
  <1>6. ExistingOf(p)'
    BY <1>2, <1>3, <1>4, <1>5, SameExisting DEF HasMember, Terminating
  <1> QED
    BY <1>2, <1>4, <1>5, <1>6, KeepExisting, CreatePoolMembersLimits DEF Limits

(* A launch.                                                               *)
LEMMA PickLimits ==
  ASSUME LInv, Types', NEW p \in Procs, pick(p)
  PROVE  Limits'
  <1> DEFINE stopped == {m \in Stopped(PoolFor(p)) : row_lock[m] = None}
             m == Least(stopped)
             next == [proc[p] EXCEPT !.pc = "launch", !.member = m,
                                     !.objects[m] = worker[m]]
  <1>1. /\ Types /\ proc[p] \in Process /\ UNCHANGED <<worker, commands>>
        /\ proc[p].objects \in [Members -> Row]
    BY PoolFacts, ProcFacts DEF pick
  <1>2. CASE proc[p].count = 0 \/ stopped = {}
    <2>1. Become(p, Done(p))
      BY <1>2 DEF pick
    <2>2. /\ Done(p).pc \in {"idle", "allocate"}
          /\ Done(p).pc = "allocate" => p = Provisioner
          /\ \A k \in Members : ~Done(p).objects[k].exists
      BY DEF Done, Idle, NoRow
    <2>3. proc'[p] = Done(p)
      BY <1>1, <2>1, Moved
    <2>4. ExistingOf(p)'
      BY <2>2, <2>3 DEF ExistingOf, HasMember, Terminating
    <2> QED
      BY <1>1, <2>1, <2>2, <2>4, Settles
  <1>3. CASE ~(proc[p].count = 0 \/ stopped = {})
    <2>1. Become(p, next)
      BY <1>3 DEF pick
    <2>2. m \in Members /\ worker[m].exists
      <3>1. stopped \in SUBSET Members
        BY DEF Stopped, In
      <3>2. stopped \in SUBSET Nat /\ stopped # {}
        BY <1>3, <3>1, Names
      <3>3. m \in stopped
        BY <3>2, LeastOf
      <3> QED
        BY <3>3 DEF Stopped, In
    <2> HIDE DEF m
    <2>3. /\ next.pc = "launch" /\ next.member = m
          /\ next.objects = [proc[p].objects EXCEPT ![m] = worker[m]]
      BY <1>1 DEF Process
    <2>4. /\ next.objects[m] = worker[m]
          /\ \A k \in Members \ {m} : next.objects[k] = proc[p].objects[k]
      BY <1>1, <2>2, <2>3
    <2> HIDE DEF next
    <2>5. proc'[p] = next
      BY <1>1, <2>1, Moved
    <2>6. ExistingOf(p)
      BY DEF LInv, Existing
    <2>7. \A k \in Members : next.objects[k].exists => worker[k].exists
      BY <2>4, <2>6 DEF ExistingOf
    <2>8. ExistingOf(p)'
      BY <1>1, <2>2, <2>3, <2>4, <2>5, <2>7 DEF ExistingOf, Terminating, Object
    <2> QED
      BY <1>1, <2>1, <2>3, <2>8, Settles
  <1> QED
    BY <1>2, <1>3

LEMMA CreateInstanceLimits ==
  ASSUME LInv, Types', NEW p \in Procs, create_instance(p)
  PROVE  Limits'
  <1> DEFINE next(i) == [proc[p] EXCEPT !.pc = "commit", !.instance = i]
  <1>1. /\ Types /\ proc[p] \in Process /\ UNCHANGED <<worker, commands>>
        /\ proc[p].pc = "launch"
    BY PoolFacts, ProcFacts DEF create_instance, At
  <1>2. Become(p, Idle) \/ \E i : Become(p, next(i))
    BY DEF create_instance
  <1>3. CASE Become(p, Idle)
    BY <1>1, <1>3, BecomesIdle
  <1>4. ASSUME NEW i, Become(p, next(i))
        PROVE  Limits'
    <2>1. /\ next(i).pc = "commit" /\ next(i).objects = proc[p].objects
          /\ next(i).todo = proc[p].todo /\ next(i).member = proc[p].member
      BY <1>1 DEF Process
    <2> HIDE DEF next
    <2>2. proc'[p] = next(i)
      BY <1>1, <1>4, Moved
    <2>3. ExistingOf(p)'
      BY <1>1, <2>1, <2>2, SameExisting DEF HasMember, Terminating
    <2> QED
      BY <1>1, <1>4, <2>1, <2>3, Settles
  <1> QED
    BY <1>2, <1>3, <1>4

(* A launch is of a member that there is already.                          *)
LEMMA CommitLaunchLimits ==
  ASSUME LInv, Types', NEW p \in Procs, commit_launch(p)
  PROVE  Limits'
  <1> DEFINE m == proc[p].member
             i == proc[p].instance
             row == [Object(p) EXCEPT !.instance = i, !.activation = i]
             next == [proc[p] EXCEPT !.pc = "pick", !.count = @ - 1,
                         !.member = None, !.instance = None,
                         !.objects[m] = NoRow]
  <1>1. /\ Types /\ proc[p] \in Process /\ proc[p].pc = "commit"
        /\ proc[p].objects \in [Members -> Row] /\ Where(p)
    BY PoolFacts, ProcFacts DEF commit_launch, At
  <1>2. Become(p, next) /\ Save(m, row) /\ UNCHANGED commands
    BY DEF commit_launch, Object
  <1>3. /\ m \in Members /\ i \in Instances /\ Object(p) \in Row
    BY <1>1, ObjectType DEF HasMember, Where
  <1>4. ExistingOf(p) /\ Object(p).exists /\ worker[m].exists
    BY <1>1, <1>3 DEF LInv, Existing, ExistingOf, Object, HasMember
  <1>5. row \in Row /\ row.exists
    BY <1>3, <1>4 DEF Row
  <1>6. /\ next.pc = "pick"
        /\ next.objects = [proc[p].objects EXCEPT ![m] = NoRow]
    BY <1>1 DEF Process
  <1>7. \A k \in Members : next.objects[k].exists => proc[p].objects[k].exists
    BY <1>1, <1>3, <1>6 DEF NoRow
  <1> HIDE DEF next, row
  <1>8. worker'[m] = row /\ \A k \in Members \ {m} : worker'[k] = worker[k]
    BY <1>1, <1>2, <1>3, <1>5, SaveType
  <1>9. \A k \in Members : worker'[k].exists <=> worker[k].exists
    BY <1>4, <1>5, <1>8
  <1>10. proc'[p] = next
    BY <1>1, <1>2, Moved
  <1>11. ExistingOf(p)'
    BY <1>4, <1>6, <1>7, <1>9, <1>10 DEF ExistingOf, HasMember, Terminating
  <1> QED
    BY <1>2, <1>6, <1>9, <1>11, Settles

(* Steps of instances, of the scheduler and of users.                      *)
LEMMA InstanceLimits ==
  ASSUME LInv, Types',
         \/ \E i \in Instances, m \in Members : Life(i, m)
         \/ \E m \in Members : disconnect(m)
  PROVE  Limits'
  <1>1. Types /\ worker \in [Members -> Row]
    BY PoolFacts DEF Types, Tables
  <1>2. UNCHANGED <<proc, commands>>
    BY DEF Life, register, connect, ask, report, disconnect
  <1>3. \A m \in Members : worker'[m].exists <=> worker[m].exists
    <2>1. CASE UNCHANGED worker
      BY <2>1
    <2>2. CASE \E m \in Members, row \in Row :
                  row.exists = worker[m].exists /\ Save(m, row)
      <3>1. PICK m \in Members, row \in Row :
               row.exists = worker[m].exists /\ Save(m, row)
        BY <2>2
      <3>2. worker'[m] = row /\ \A k \in Members \ {m} : worker'[k] = worker[k]
        BY <1>1, <3>1, SaveType
      <3> QED
        BY <3>1, <3>2
    <2>3. ASSUME NEW i \in Instances, NEW m \in Members, register(i, m)
          PROVE  \E row \in Row : row.exists = worker[m].exists /\ Save(m, row)
      <3> DEFINE row == [worker[m] EXCEPT !.activation = None, !.token = i]
      <3>1. row \in Row /\ row.exists = worker[m].exists
        BY <1>1 DEF Row
      <3> QED
        BY <2>3, <3>1 DEF register
    <2>4. ASSUME NEW i \in Instances, NEW m \in Members, connect(i, m)
          PROVE  \E row \in Row : row.exists = worker[m].exists /\ Save(m, row)
      <3> DEFINE row == [worker[m] EXCEPT !.connected = TRUE, !.known = TRUE]
      <3>1. row \in Row /\ row.exists = worker[m].exists
        BY <1>1 DEF Row
      <3> QED
        BY <2>4, <3>1 DEF connect
    <2>5. ASSUME NEW m \in Members, disconnect(m)
          PROVE  \E row \in Row : row.exists = worker[m].exists /\ Save(m, row)
      <3> DEFINE row == [worker[m] EXCEPT !.connected = FALSE]
      <3>1. row \in Row /\ row.exists = worker[m].exists
        BY <1>1 DEF Row
      <3> QED
        BY <2>5, <3>1 DEF disconnect
    <2>6. \/ UNCHANGED worker
          \/ \E i \in Instances, m \in Members : register(i, m) \/ connect(i, m)
          \/ \E m \in Members : disconnect(m)
      BY DEF Life, ask, report
    <2> QED
      BY <2>1, <2>2, <2>3, <2>4, <2>5, <2>6
  <1> QED
    BY <1>2, <1>3, StillLimits

(* Workers, users and the cloud create no members and plan none.           *)
LEMMA OthersLimits ==
  ASSUME LInv, Types',
         \/ \E i \in Instances : vanish(i)
         \/ \E m \in Members : schedule(m)
         \/ \E r \in Requests : create_work_request(r)
         \/ ten_minutes
         \/ UNCHANGED vars
  PROVE  Limits'
  <1>1. UNCHANGED <<worker, proc, commands>>
    BY DEF vanish, schedule, create_work_request, ten_minutes, vars, db
  <1> QED
    BY <1>1, StillLimits

-----------------------------------------------------------------------------
(* Limits are not negative where there are any.                            *)
LimitsAreCounts ==
    \A m \in Members : max_active_instances[PoolOf[m]] \in Nat \cup {None}

(* Initially there are no members and no plans: no limit is below 0.       *)
LEMMA InitLInv ==
  ASSUME LimitsAreCounts, Init
  PROVE  LInv
  <1>1. IInv
    BY InitIInv
  <1>2. /\ \A m \in Members : ~worker[m].exists
        /\ \A p \in Procs : proc[p] = Idle
        /\ commands = 0
    BY DEF Init, NoRow
  <1>3. Idle.pc = "idle" /\ \A m \in Members : ~Idle.objects[m].exists
    BY DEF Idle, NoRow
  <1>4. Existing
    BY <1>2, <1>3 DEF Existing, ExistingOf, HasMember, Terminating
  <1>5. Ordered = {} /\ \A pool : OrderedIn(pool) = {}
    BY <1>2, <1>3 DEF Ordered, OrderedIn, At
  <1>6. Orders
    BY <1>2, <1>3, <1>5, FS_EmptySet DEF Orders, At
  <1>7. Planned
    <2> SUFFICES ASSUME NEW k \in DOMAIN Pools,
                        max_active_instances[Pools[k]] # None
                 PROVE  Cardinality(In(Pools[k])) + Allocated(Pools[k])
                          + Cardinality(OrderedIn(Pools[k]))
                        <= max_active_instances[Pools[k]] + commands
      BY DEF Planned
    <2>1. In(Pools[k]) = {} /\ Allocated(Pools[k]) = 0
      BY <1>2, <1>3, WorkerPoolsAssumption DEF In, Allocated, At
    <2>2. max_active_instances[Pools[k]] \in Nat
      <3>1. Pools[k] \in {PoolOf[m] : m \in Members}
        BY WorkerPoolsAssumption
      <3> QED
        BY <3>1 DEF LimitsAreCounts
    <2>3. Cardinality(In(Pools[k])) = 0 /\ Cardinality(OrderedIn(Pools[k])) = 0
      BY <1>5, <2>1, FS_EmptySet
    <2> QED
      BY <1>2, <2>1, <2>2, <2>3
  <1> QED
    BY <1>1, <1>4, <1>6, <1>7 DEF LInv

(* Every step keeps the invariant.                                         *)
LEMMA NextLInv == LInv /\ [Next]_vars => LInv'
  <1> SUFFICES ASSUME LInv, [Next]_vars PROVE LInv'
    OBVIOUS
  <1>1. IInv'
    BY NextIInv DEF LInv
  <1>2. Types'
    BY <1>1, TypesOf, PTL DEF IInv
  <1>3. Limits'
    <2>1. ASSUME NEW p \in Procs, Step(p)
          PROVE  Limits'
      BY <1>2, <2>1, TerminateLimits, SaveTerminatedLimits, RetryLimits,
         ProcessScopeLimits, AllocateWorkersExisting,
         CreatePoolMembersExisting, PickLimits, CreateInstanceLimits,
         CommitLaunchLimits, BecomesIdle DEF Step, token_deleted, db
    <2>2. ASSUME NEW p \in Procs,
                 \/ provision(p) \/ handle_launch(p) \/ handle_terminate(p)
                 \/ fails(p)
          PROVE  Limits'
      BY <1>2, <2>2, ProvisionLimits, HandleLaunchExisting,
         HandleTerminateLimits, BecomesIdle DEF fails
    <2> QED
      BY <1>2, <2>1, <2>2, InstanceLimits, OthersLimits DEF Next
  <1> QED
    BY <1>1, <1>3 DEF LInv, Limits

(* Active members are some of those that there are.                        *)
LEMMA LimitsHold == LInv => WithinLimit
  <1> SUFFICES ASSUME LInv, NEW k \in DOMAIN Pools,
                      max_active_instances[Pools[k]] # None
               PROVE  Cardinality({m \in In(Pools[k]) : worker[m].instance # None})
                      <= max_active_instances[Pools[k]] + commands
    BY DEF WithinLimit
  <1> DEFINE pool == Pools[k]
             active == {m \in In(pool) : worker[m].instance # None}
  <1>1. /\ Cardinality(active) <= Cardinality(In(pool))
        /\ Cardinality(active) \in Nat /\ Cardinality(In(pool)) \in Nat
    <2>1. In(pool) \in SUBSET Members /\ active \in SUBSET In(pool)
      BY DEF In
    <2> HIDE DEF active, pool
    <2> QED
      BY <2>1, Finite
  <1>2. Allocated(pool) \in Nat /\ Cardinality(OrderedIn(pool)) \in Nat
    BY PoolFacts
  <1>3. max_active_instances[pool] \in Int /\ commands \in Nat
    BY PoolFacts, LimitType
  <1>4. Cardinality(In(pool)) + Allocated(pool) + Cardinality(OrderedIn(pool))
        <= max_active_instances[pool] + commands
    BY DEF LInv, Planned
  <1> HIDE DEF active, pool
  <1>5. Cardinality(active) <= max_active_instances[pool] + commands
    BY <1>1, <1>2, <1>3, <1>4
  <1> QED
    BY <1>5 DEF active, pool

(* Where limits are not negative, and for every number of pools, members,  *)
(* processes, commands and failures: what process_scope() found available  *)
(* is never exceeded by the members that launch_workers() creates long     *)
(* after, nor by their instances, but by what administrators launch        *)
(* (worker_pool launch, which looks at no limit).                          *)
THEOREM LimitKept ==
  ASSUME LimitsAreCounts
  PROVE  Spec => []WithinLimit
  <1>1. Init => LInv
    BY InitLInv
  <1> QED
    BY <1>1, NextLInv, LimitsHold, PTL DEF Spec

-----------------------------------------------------------------------------
(* Rows, objects and what processes have in their hands agree, whatever    *)
(* stale object is saved.                                                  *)

(* What a row, or an object of one, names, and instances that are over.    *)
Named(row) == {row.instance, row.activation, row.token} \ {None}
Created == {i \in Instances : cloud[i] # "unused"}
Ended == {i \in Instances : cloud[i] \in {"gone", "vanished"}}

(* Rows, as they are or as they were: an activation token that is still    *)
(* there was made with the instance, and the token then disabled.          *)
Fits(row, created, used, enabled) ==
    /\ row.instance \in created \cup {None}
    /\ row.activation # None => row.instance \in {None, row.activation}
    /\ row.activation \notin used \cup {None} => row.token \notin enabled
Consistent(row) == Fits(row, Created, deleted, tokens)

(* Where the row of the member is still the object, and what the calls to  *)
(* the provider have done.                                                 *)
Position(p) ==
    /\ ~At(p, "commit") => proc[p].instance = None
    /\ proc[p].pc \in {"launch", "commit"} =>
          /\ row_lock[proc[p].member] = p
          /\ Object(p) = worker[proc[p].member]
          /\ Object(p).instance = None /\ Object(p).exists
    /\ proc[p].pc \in {"api", "save"} => Object(p).activation \notin tokens
    /\ At(p, "save") => Object(p).instance \in Ended \cup {None}

(* A command is about one member.                                          *)
OneMember(p) ==
    p # Provisioner =>
       /\ ~At(p, "allocate")
       /\ proc[p].pc \in Terminating => proc[p].todo = {}
       /\ proc[p].pc \in HasPool => proc[p].count \in {0, 1}

(* Whose instance it is, or was.                                           *)
Owns(m, i) ==
    \/ i \in Named(worker[m])
    \/ \E p \in Procs : i \in Named(proc[p].objects[m])
    \/ \E p \in Procs : /\ At(p, "commit") /\ proc[p].member = m
                        /\ proc[p].instance = i
OneOwner == \A m, k \in Members, i \in Instances : Owns(m, i) /\ Owns(k, i) => m = k

Sound ==
    /\ \A p \in Procs : Position(p) /\ OneMember(p)
    /\ \A p \in Procs, m \in Members : Consistent(proc[p].objects[m])
    /\ \A m \in Members : /\ Consistent(worker[m])
                          /\ worker[m].exists \/ worker[m].instance = None
    /\ tokens \subseteq deleted
    /\ OneOwner

-----------------------------------------------------------------------------
(* What never goes back, in any step.                                      *)
Onward ==
    /\ Created \subseteq Created' /\ Ended \subseteq Ended'
    /\ deleted \subseteq deleted'
    /\ tokens' \subseteq tokens \cup activations
    /\ tokens' \subseteq deleted'

(* A row that named what there is names it as long as nothing goes back.   *)
LEMMA ConsistentStays ==
  ASSUME IInv, Onward, NEW row \in Known, Consistent(row)
  PROVE  Fits(row, Created', deleted', tokens')
  <1>1. /\ row.instance \in Instances \cup {None} /\ None \notin Instances
        /\ row.token \in deleted \cup {None}
    BY Names DEF Known, Row
  <1>2. activations \cap deleted = {} /\ None \notin activations
    BY Names DEF IInv, TypeOK
  <1> QED
    BY <1>1, <1>2 DEF Onward, Consistent, Fits

(* What a process has in its hands, while others do something.             *)
LEMMA PositionStays ==
  ASSUME IInv, Onward, NEW p \in Procs, proc'[p] = proc[p],
         \A m \in Members : row_lock[m] = p =>
            row_lock'[m] = p /\ worker'[m] = worker[m],
         Position(p), OneMember(p)
  PROVE  Position(p)' /\ OneMember(p)'
  <1>1. Types /\ Object(p)' = Object(p)
    BY InvFacts DEF Object
  <1>2. CASE proc[p].pc \in HasMember
    <2>1. proc[p].member \in Members
      BY <1>1, <1>2, ObjectType
    <2>2. proc[p].pc \in {"api", "save"} => Object(p).activation \notin activations
      BY DEF IInv, Disabled
    <2> QED
      BY <1>1, <2>1, <2>2 DEF Position, OneMember, Onward, At
  <1>3. CASE proc[p].pc \notin HasMember
    BY <1>1, <1>3 DEF Position, OneMember, HasMember, At
  <1> QED
    BY <1>2, <1>3

(* Rows that are saved, and objects that are read, are of their owner.     *)
LEMMA SoundStep ==
  ASSUME IInv, IInv', Sound, Onward,
         \A m \in Members : worker'[m] = worker[m] \/
            /\ Fits(worker'[m], Created', deleted', tokens')
            /\ worker'[m].exists \/ worker'[m].instance = None
            /\ \A i \in Named(worker'[m]) : Owns(m, i),
         \A p \in Procs :
            \/ /\ proc'[p] = proc[p]
               /\ \A m \in Members : row_lock[m] = p =>
                     row_lock'[m] = p /\ worker'[m] = worker[m]
            \/ /\ \A m \in Members : proc'[p].objects[m]
                                     \in {NoRow, worker[m], proc[p].objects[m]}
               /\ ~At(p, "commit")' /\ Position(p)' /\ OneMember(p)'
  PROVE  Sound'
  <1>1. /\ \A m \in Members : worker[m] \in Known
        /\ \A q \in Procs, m \in Members : proc[q].objects[m] \in Known
    BY InvFacts
  <1>2. Fits(NoRow, Created', deleted', tokens') /\ Named(NoRow) = {}
    BY DEF NoRow, Fits, Named
  <1>3. \A q \in Procs : Position(q)' /\ OneMember(q)'
    BY PositionStays DEF Sound
  <1>4. \A m \in Members :
           /\ Fits(worker[m], Created', deleted', tokens')
           /\ \A q \in Procs :
                 Fits(proc[q].objects[m], Created', deleted', tokens')
    BY <1>1, ConsistentStays DEF Sound
  <1>5. OneOwner'
    <2>1. ASSUME NEW m \in Members, NEW i, Owns(m, i)'
          PROVE  Owns(m, i)
      <3>1. CASE i \in Named(worker'[m])
        BY <3>1 DEF Owns
      <3>2. ASSUME NEW q \in Procs, i \in Named(proc'[q].objects[m])
            PROVE  Owns(m, i)
        BY <1>2, <3>2 DEF Owns
      <3>3. ASSUME NEW q \in Procs, At(q, "commit")', proc'[q].member = m,
                   proc'[q].instance = i
            PROVE  Owns(m, i)
        BY <3>3 DEF Owns, At
      <3> QED
        BY <2>1, <3>1, <3>2, <3>3 DEF Owns
    <2> QED
      BY <2>1 DEF OneOwner, Sound
  <1>6. \A q \in Procs, m \in Members :
           Fits(proc'[q].objects[m], Created', deleted', tokens')
    BY <1>2, <1>4
  <1>7. \A m \in Members : /\ Fits(worker'[m], Created', deleted', tokens')
                           /\ worker'[m].exists \/ worker'[m].instance = None
    BY <1>4 DEF Sound
  <1> QED
    BY <1>3, <1>5, <1>6, <1>7 DEF Sound, Onward, Consistent

(* One process moves, and rows that others have locked stay.               *)
LEMMA SoundMove ==
  ASSUME IInv, IInv', Sound, Onward, NEW p \in Procs,
         \A q \in Procs \ {p} : proc'[q] = proc[q],
         \A q \in Procs \ {p}, m \in Members : row_lock[m] = q =>
            row_lock'[m] = q /\ worker'[m] = worker[m],
         \A m \in Members : worker'[m] = worker[m] \/
            /\ Fits(worker'[m], Created', deleted', tokens')
            /\ worker'[m].exists \/ worker'[m].instance = None
            /\ \A i \in Named(worker'[m]) : Owns(m, i),
         \A m \in Members :
            proc'[p].objects[m] \in {NoRow, worker[m], proc[p].objects[m]},
         ~At(p, "commit")', Position(p)', OneMember(p)'
  PROVE  Sound'
  <1>1. \A q \in Procs \ {p} :
               /\ proc'[q] = proc[q]
               /\ \A m \in Members : row_lock[m] = q =>
                     row_lock'[m] = q /\ worker'[m] = worker[m]
    OBVIOUS
  <1> QED
    BY <1>1, SoundStep

(* None does, and a row that is saved is one that is not locked.           *)
LEMMA SoundWorld ==
  ASSUME IInv, IInv', Sound, Onward, UNCHANGED <<proc, row_lock>>,
         \A m \in Members : worker'[m] = worker[m] \/
            /\ row_lock[m] = None
            /\ Fits(worker'[m], Created', deleted', tokens')
            /\ worker'[m].exists \/ worker'[m].instance = None
            /\ \A i \in Named(worker'[m]) : Owns(m, i)
  PROVE  Sound'
  <1>1. \A p \in Procs :
               /\ proc'[p] = proc[p]
               /\ \A m \in Members : row_lock[m] = p =>
                     row_lock'[m] = p /\ worker'[m] = worker[m]
    BY Names
  <1> QED
    BY <1>1, SoundStep

(* What did not change stays so.                                           *)
LEMMA OnwardSame ==
  ASSUME Sound, UNCHANGED <<cloud, deleted>>, tokens' \subseteq tokens
  PROVE  Onward
  BY DEF Sound, Onward, Created, Ended

(* A process that goes on to pc, with all that it has.                     *)
LEMMA Continues ==
  ASSUME Types, NEW p \in Procs, NEW pc, Become(p, [proc[p] EXCEPT !.pc = pc])
  PROVE  /\ proc'[p].pc = pc /\ proc'[p].member = proc[p].member
         /\ proc'[p].objects = proc[p].objects /\ proc'[p].todo = proc[p].todo
         /\ proc'[p].count = proc[p].count /\ proc'[p].pool = proc[p].pool
         /\ proc'[p].instance = proc[p].instance /\ Object(p)' = Object(p)
         /\ \A q \in Procs \ {p} : proc'[q] = proc[q]
  <1>1. proc[p] \in Process /\ proc \in [Procs -> Process]
    BY ProcFacts
  <1>2. /\ proc'[p] = [proc[p] EXCEPT !.pc = pc]
        /\ \A q \in Procs \ {p} : proc'[q] = proc[q]
    BY <1>1, Moved
  <1>3. /\ proc'[p].pc = pc /\ proc'[p].member = proc[p].member
        /\ proc'[p].objects = proc[p].objects /\ proc'[p].todo = proc[p].todo
        /\ proc'[p].count = proc[p].count /\ proc'[p].pool = proc[p].pool
        /\ proc'[p].instance = proc[p].instance
    BY <1>1, <1>2 DEF Process
  <1> QED
    BY <1>2, <1>3 DEF Object

(* The next member of a list, or none.                                     *)
LEMMA NextWorkerFacts ==
  ASSUME NEW p, NEW todo \in SUBSET Members, NEW objects \in [Members -> Row],
         NEW next \in NextWorker(p, todo, objects)
  PROVE  /\ next.instance = None /\ next.pc \in {"idle", "terminate"}
         /\ next.pc = "terminate" =>
               /\ next.member \in todo /\ next.todo = todo \ {next.member}
               /\ \A m \in todo : next.objects[m] = objects[m]
         /\ \A m \in Members : next.objects[m] \in {NoRow, objects[m]}
  <1>1. CASE todo = {}
    <2>1. next = Idle
      BY <1>1 DEF NextWorker
    <2> QED
      BY <2>1 DEF Idle
  <1>2. CASE todo # {}
    <2> DEFINE some == [k \in Members |-> IF k \in todo THEN objects[k]
                                                        ELSE NoRow]
    <2>1. PICK m \in todo :
             next = [Idle EXCEPT !.pc = "terminate", !.member = m,
                                 !.todo = todo \ {m}, !.objects = some]
      BY <1>2 DEF NextWorker
    <2>2. /\ \A k \in Members : some[k] \in {NoRow, objects[k]}
          /\ \A k \in todo : some[k] = objects[k]
      OBVIOUS
    <2> HIDE DEF some
    <2>3. /\ next.instance = None /\ next.pc = "terminate" /\ next.member = m
          /\ next.todo = todo \ {m} /\ next.objects = some
      BY <2>1 DEF Idle
    <2> QED
      BY <2>2, <2>3
  <1> QED
    BY <1>1, <1>2

(* A process that has no instance, and is not in between two calls.        *)
LEMMA AtRest ==
  ASSUME NEW p, proc'[p].instance = None,
         proc'[p].pc \notin {"launch", "commit", "api", "save"}
  PROVE  Position(p)'
  BY DEF Position, At

(* A process that is idle is at rest.                                      *)
LEMMA IdleRests ==
  ASSUME NEW p, proc'[p] = Idle
  PROVE  /\ Position(p)' /\ OneMember(p)' /\ ~At(p, "commit")'
         /\ \A m \in Members : proc'[p].objects[m] = NoRow
  <1>1. /\ Idle.pc = "idle" /\ Idle.instance = None /\ Idle.todo = {}
        /\ \A m \in Members : Idle.objects[m] = NoRow
    BY DEF Idle
  <1> QED
    BY <1>1, AtRest DEF OneMember, At, Terminating, HasPool

-----------------------------------------------------------------------------
(* Every step keeps the rows and the objects sound.                        *)

(* One that changes nothing but a process at rest, and requests.           *)
LEMMA RestSound ==
  ASSUME IInv, IInv', Sound, NEW p \in Procs,
         UNCHANGED <<worker, deleted, tokens, cloud>>,
         \A q \in Procs \ {p} : proc'[q] = proc[q],
         \A q \in Procs \ {p}, m \in Members : row_lock[m] = q => row_lock'[m] = q,
         \A m \in Members :
            proc'[p].objects[m] \in {NoRow, worker[m], proc[p].objects[m]},
         proc'[p].instance = None,
         proc'[p].pc \notin {"launch", "commit", "api", "save"},
         OneMember(p)'
  PROVE  Sound'
  <1>1. Onward
    BY OnwardSame
  <1>2. Position(p)' /\ ~At(p, "commit")'
    BY AtRest DEF At
  <1> QED
    BY <1>1, <1>2, SoundMove

(* A process that ends.                                                    *)
LEMMA IdleSound ==
  ASSUME IInv, IInv', Sound, NEW p \in Procs, Become(p, Idle),
         UNCHANGED <<worker, deleted, tokens, cloud>>,
         \A q \in Procs \ {p}, m \in Members : row_lock[m] = q => row_lock'[m] = q
  PROVE  Sound'
  <1>1. proc'[p] = Idle /\ \A q \in Procs \ {p} : proc'[q] = proc[q]
    BY InvFacts, Moved DEF Types
  <1>2. Idle.pc = "idle" /\ Idle.instance = None
    BY DEF Idle
  <1> QED
    BY <1>1, <1>2, IdleRests, RestSound

LEMMA TokenDeletedSound ==
  ASSUME IInv, IInv', Sound, NEW p \in Procs, token_deleted(p)
  PROVE  Sound'
  BY IdleSound DEF token_deleted, db

LEMMA FailsSound ==
  ASSUME IInv, IInv', Sound, NEW p \in Procs, fails(p)
  PROVE  Sound'
  <1>1. \A q \in Procs \ {p}, m \in Members : row_lock[m] = q => row_lock'[m] = q
    BY DEF fails
  <1> QED
    BY <1>1, IdleSound DEF fails

(* The token of the object is disabled.                                    *)
LEMMA TerminateWorkerSound ==
  ASSUME IInv, IInv', Sound, NEW p \in Procs, terminate_worker(p)
  PROVE  Sound'
  <1>1. /\ Types /\ proc[p].pc = "terminate" /\ Object(p).activation \notin deleted
        /\ Become(p, [proc[p] EXCEPT !.pc = "api"])
        /\ tokens' = tokens \ {Object(p).token}
        /\ UNCHANGED <<worker, deleted, cloud, row_lock>>
    BY InvFacts DEF terminate_worker, At
  <1>2. /\ proc'[p].pc = "api" /\ proc'[p].objects = proc[p].objects
        /\ proc'[p].todo = proc[p].todo /\ proc'[p].count = proc[p].count
        /\ proc'[p].instance = proc[p].instance /\ Object(p)' = Object(p)
        /\ \A q \in Procs \ {p} : proc'[q] = proc[q]
    BY <1>1, Continues
  <1>3. Position(p) /\ OneMember(p) /\ tokens \subseteq deleted
    BY DEF Sound
  <1>4. Position(p)' /\ ~At(p, "commit")'
    BY <1>1, <1>2, <1>3 DEF Position, At
  <1>5. OneMember(p)'
    BY <1>1, <1>2, <1>3 DEF OneMember, At, Terminating, HasPool
  <1>6. Onward
    BY <1>1, OnwardSame
  <1> QED
    BY <1>1, <1>2, <1>4, <1>5, <1>6, SoundMove

(* The instance of the object is deleted, and the object forgets it.       *)
LEMMA TerminateInstanceSound ==
  ASSUME IInv, IInv', Sound, NEW p \in Procs, terminate_instance(p)
  PROVE  Sound'
  <1>1. /\ Types /\ proc[p].pc = "api"
        /\ Become(p, [proc[p] EXCEPT !.pc = "save"])
        /\ cloud' = [i \in Instances |->
                       IF i = Object(p).instance /\ i \in Alive THEN "gone"
                                                                ELSE cloud[i]]
        /\ UNCHANGED <<worker, deleted, tokens, row_lock>>
    BY InvFacts DEF terminate_instance, At, db
  <1>2. /\ proc'[p].pc = "save" /\ proc'[p].objects = proc[p].objects
        /\ proc'[p].todo = proc[p].todo /\ proc'[p].count = proc[p].count
        /\ proc'[p].instance = proc[p].instance /\ Object(p)' = Object(p)
        /\ \A q \in Procs \ {p} : proc'[q] = proc[q]
    BY <1>1, Continues
  <1>3. Position(p) /\ OneMember(p) /\ tokens \subseteq deleted
    BY DEF Sound
  <1>4. Object(p).instance \in Created \cup {None}
    <2>1. proc[p].member \in Members
      BY <1>1, ObjectType DEF HasMember
    <2> QED
      BY <2>1 DEF Sound, Consistent, Fits, Object
  <1>5. Object(p).instance \in Ended' \cup {None}
    <2>1. cloud \in [Instances -> States]
      BY <1>1 DEF Types, Tables
    <2> QED
      BY <1>1, <1>4, <2>1 DEF Created, Ended, Alive, States
  <1>6. Position(p)' /\ ~At(p, "commit")'
    BY <1>1, <1>2, <1>3, <1>5 DEF Position, At
  <1>7. OneMember(p)'
    BY <1>1, <1>2, <1>3 DEF OneMember, At, Terminating, HasPool
  <1>8. Onward
    BY <1>1, <1>3 DEF Onward, Created, Ended, Alive
  <1> QED
    BY <1>1, <1>2, <1>6, <1>7, <1>8, SoundMove

(* The row that is saved is the object, which no longer has an instance.   *)
LEMMA SaveTerminatedSound ==
  ASSUME IInv, IInv', Sound, NEW p \in Procs, save_terminated(p)
  PROVE  Sound'
  <1> DEFINE m == proc[p].member
             row == [Object(p) EXCEPT !.instance = None]
  <1>1. /\ Types /\ proc[p].pc = "save" /\ Free(p, m) /\ Save(m, row)
        /\ Become(p, [proc[p] EXCEPT !.pc = "retry"])
        /\ UNCHANGED <<deleted, tokens, cloud, row_lock>>
    BY InvFacts DEF save_terminated, At
  <1>2. /\ proc'[p].pc = "retry" /\ proc'[p].objects = proc[p].objects
        /\ proc'[p].todo = proc[p].todo /\ proc'[p].count = proc[p].count
        /\ proc'[p].instance = proc[p].instance
        /\ \A q \in Procs \ {p} : proc'[q] = proc[q]
    BY <1>1, Continues
  <1>3. m \in Members /\ Object(p) \in Row
    BY <1>1, ObjectType DEF HasMember
  <1>4. /\ row \in Row /\ row.instance = None
        /\ row.activation = Object(p).activation /\ row.token = Object(p).token
    BY <1>3 DEF Row
  <1>5. worker'[m] = row /\ \A k \in Members \ {m} : worker'[k] = worker[k]
    BY <1>1, <1>3, <1>4, SaveType
  <1>6. Fits(row, Created', deleted', tokens')
    <2>1. Created' = Created /\ deleted' = deleted /\ tokens' = tokens
      BY <1>1 DEF Created
    <2>2. Consistent(Object(p))
      BY <1>3 DEF Sound, Object
    <2> HIDE DEF row
    <2> QED
      BY <1>4, <2>1, <2>2 DEF Consistent, Fits
  <1>7. \A i \in Named(row) : Owns(m, i)
    BY <1>3, <1>4 DEF Owns, Named, Object
  <1>8. \A k \in Members : worker'[k] = worker[k] \/
            /\ Fits(worker'[k], Created', deleted', tokens')
            /\ worker'[k].instance = None
            /\ \A i \in Named(worker'[k]) : Owns(k, i)
    BY <1>4, <1>5, <1>6, <1>7
  <1>9. Position(p) /\ OneMember(p)
    BY DEF Sound
  <1>10. Position(p)' /\ ~At(p, "commit")'
    BY <1>1, <1>2, <1>9, AtRest DEF Position, At
  <1>11. OneMember(p)'
    BY <1>1, <1>2, <1>9 DEF OneMember, At, Terminating, HasPool
  <1>12. \A q \in Procs \ {p}, k \in Members : row_lock[k] = q =>
            row_lock'[k] = q /\ worker'[k] = worker[k]
    BY <1>1, <1>3, <1>5, Names DEF Free
  <1>13. Onward
    BY <1>1, OnwardSame
  <1> HIDE DEF m, row
  <1> QED
    BY <1>2, <1>8, <1>10, <1>11, <1>12, <1>13, SoundMove

(* A list of members is gone through.                                      *)
LEMMA NextSound ==
  ASSUME IInv, IInv', Sound, NEW p \in Procs, NEW todo \in SUBSET Members,
         NEW objects \in {worker, proc[p].objects},
         NEW next \in NextWorker(p, todo, objects), Become(p, next),
         p # Provisioner => \A m \in todo : todo = {m},
         UNCHANGED <<worker, deleted, tokens, cloud, row_lock>>
  PROVE  Sound'
  <1>1. Types /\ objects \in [Members -> Row]
    BY InvFacts, ProcFacts DEF Types, Tables
  <1>2. proc'[p] = next /\ \A q \in Procs \ {p} : proc'[q] = proc[q]
    BY <1>1, Moved DEF Types
  <1>3. /\ next.instance = None /\ next.pc \in {"idle", "terminate"}
        /\ next.pc = "terminate" =>
              next.member \in todo /\ next.todo = todo \ {next.member}
        /\ \A m \in Members : next.objects[m] \in {NoRow, objects[m]}
    BY <1>1, NextWorkerFacts
  <1>4. OneMember(p)'
    BY <1>2, <1>3 DEF OneMember, At, Terminating, HasPool
  <1> QED
    BY <1>2, <1>3, <1>4, RestSound

LEMMA RetryRunningSound ==
  ASSUME IInv, IInv', Sound, NEW p \in Procs, retry_running(p)
  PROVE  Sound'
  <1>1. PICK next \in NextWorker(p, proc[p].todo, proc[p].objects) :
            Become(p, next)
    BY DEF retry_running
  <1>2. proc[p].todo \subseteq Members /\ At(p, "retry")
    BY InvFacts, ProcFacts DEF retry_running
  <1>3. p # Provisioner => proc[p].todo = {}
    BY <1>2 DEF Sound, OneMember, At, Terminating
  <1> QED
    BY <1>1, <1>2, <1>3, NextSound DEF retry_running

LEMMA ProvisionSound ==
  ASSUME IInv, IInv', Sound, NEW p \in Procs, provision(p)
  PROVE  Sound'
  <1> DEFINE found == {m \in Members : idle(m)}
  <1>1. /\ UNCHANGED <<worker, deleted, tokens, cloud, row_lock>>
        /\ p = Provisioner /\ Types
    BY InvFacts DEF provision, db
  <1>2. CASE found # {}
    <2>1. PICK next \in NextWorker(p, found, worker) : Become(p, next)
      BY <1>2 DEF provision
    <2> QED
      BY <1>1, <2>1, NextSound
  <1>3. CASE found = {}
    <2> DEFINE next == [Idle EXCEPT !.pc = "allocate"]
    <2>1. Become(p, next)
      BY <1>3 DEF provision
    <2>2. /\ next.pc = "allocate" /\ next.instance = None
          /\ \A m \in Members : next.objects[m] = NoRow
      BY DEF Idle
    <2> HIDE DEF next
    <2>3. proc'[p] = next /\ \A q \in Procs \ {p} : proc'[q] = proc[q]
      BY <1>1, <2>1, Moved DEF Types
    <2>4. OneMember(p)'
      BY <1>1 DEF OneMember
    <2> QED
      BY <1>1, <2>2, <2>3, <2>4, RestSound
  <1> QED
    BY <1>2, <1>3

LEMMA HandleTerminateSound ==
  ASSUME IInv, IInv', Sound, NEW p \in Procs, handle_terminate(p)
  PROVE  Sound'
  <1>1. PICK m \in Members :
            \E next \in NextWorker(p, {m}, worker) : Become(p, next)
    BY DEF handle_terminate
  <1> QED
    BY <1>1, NextSound DEF handle_terminate, Command, db

LEMMA HandleLaunchSound ==
  ASSUME IInv, IInv', Sound, NEW p \in Procs, handle_launch(p)
  PROVE  Sound'
  <1> DEFINE next(k) == [Idle EXCEPT !.pc = "create", !.pool = k, !.count = 1]
  <1>1. /\ UNCHANGED <<worker, deleted, tokens, cloud, row_lock>> /\ Types
    BY InvFacts DEF handle_launch, Command, db
  <1>2. PICK k \in DOMAIN Pools : Become(p, next(k))
    BY DEF handle_launch
  <1>3. /\ next(k).pc = "create" /\ next(k).instance = None /\ next(k).count = 1
        /\ \A m \in Members : next(k).objects[m] = NoRow
    BY DEF Idle
  <1> HIDE DEF next
  <1>4. proc'[p] = next(k) /\ \A q \in Procs \ {p} : proc'[q] = proc[q]
    BY <1>1, <1>2, Moved DEF Types
  <1>5. OneMember(p)'
    BY <1>3, <1>4 DEF OneMember, At, Terminating
  <1> QED
    BY <1>1, <1>3, <1>4, <1>5, RestSound

LEMMA ProcessScopeSound ==
  ASSUME IInv, IInv', Sound, NEW p \in Procs, process_scope(p)
  PROVE  Sound'
  <1>1. /\ Types /\ proc[p] \in Process /\ proc[p].pc = "allocate"
        /\ UNCHANGED <<worker, deleted, tokens, cloud, row_lock>>
    BY InvFacts, ProcFacts DEF process_scope, db, At
  <1>2. p = Provisioner /\ proc[p].instance = None
    BY <1>1 DEF Sound, Position, OneMember, At
  <1>3. CASE workers_required <= workers_available
    BY <1>1, <1>3, IdleSound DEF process_scope
  <1>4. CASE ~(workers_required <= workers_available)
    <2> DEFINE next == [proc[p] EXCEPT !.pool = 1,
                          !.required = workers_required - workers_available]
    <2>1. Become(p, next)
      BY <1>4 DEF process_scope
    <2>2. /\ next.pc = "allocate" /\ next.objects = proc[p].objects
          /\ next.instance = None
      BY <1>1, <1>2 DEF Process
    <2> HIDE DEF next
    <2>3. proc'[p] = next /\ \A q \in Procs \ {p} : proc'[q] = proc[q]
      BY <1>1, <2>1, Moved DEF Types
    <2> QED
      BY <1>1, <1>2, <2>2, <2>3, RestSound DEF OneMember
  <1> QED
    BY <1>3, <1>4

LEMMA AllocateWorkersSound ==
  ASSUME IInv, IInv', Sound, NEW p \in Procs, allocate_workers(p)
  PROVE  Sound'
  <1> DEFINE k == proc[p].pool
             skipped == [proc[p] EXCEPT !.pool = k + 1]
             given(amount) == [proc[p] EXCEPT !.pc = "create",
                                  !.count = amount, !.required = @ - amount]
  <1>1. /\ Types /\ proc[p] \in Process /\ proc[p].pc = "allocate"
        /\ UNCHANGED <<worker, deleted, tokens, cloud, row_lock>>
    BY InvFacts, ProcFacts DEF allocate_workers, db, At
  <1>2. p = Provisioner /\ proc[p].instance = None
    BY <1>1 DEF Sound, Position, OneMember, At
  <1>3. CASE proc[p].required = 0 \/ k > Len(Pools)
    BY <1>1, <1>3, IdleSound DEF allocate_workers
  <1>4. CASE ~(proc[p].required = 0 \/ k > Len(Pools))
    <2>1. PICK amount : Become(p, IF amount = 0 THEN skipped ELSE given(amount))
      BY <1>4 DEF allocate_workers
    <2>2. /\ skipped.pc = "allocate" /\ skipped.objects = proc[p].objects
          /\ skipped.instance = None
      BY <1>1, <1>2 DEF Process
    <2>3. /\ given(amount).pc = "create" /\ given(amount).objects = proc[p].objects
          /\ given(amount).instance = None
      BY <1>1, <1>2 DEF Process
    <2>4. PICK next : /\ Become(p, next) /\ next.pc \in {"allocate", "create"}
                      /\ next.objects = proc[p].objects /\ next.instance = None
      <3> HIDE DEF skipped, given
      <3> QED
        BY <2>1, <2>2, <2>3
    <2>5. proc'[p] = next /\ \A q \in Procs \ {p} : proc'[q] = proc[q]
      BY <1>1, <2>4, Moved DEF Types
    <2> QED
      BY <1>1, <1>2, <2>4, <2>5, RestSound DEF OneMember
  <1> QED
    BY <1>3, <1>4

(* New members have nothing, and nobody has locked a name that was free.   *)
LEMMA CreatePoolMembersSound ==
  ASSUME IInv, IInv', Sound, NEW p \in Procs, create_pool_members(p)
  PROVE  Sound'
  <1> DEFINE row == [NoRow EXCEPT !.exists = TRUE]
  <1>1. /\ Types /\ proc[p].pc = "create"
        /\ Become(p, [proc[p] EXCEPT !.pc = "pick"])
        /\ \A m \in Members : worker'[m] = worker[m]
                              \/ (~worker[m].exists /\ worker'[m] = row)
        /\ UNCHANGED <<deleted, tokens, cloud, row_lock>>
    BY InvFacts DEF create_pool_members, At, First, Unused
  <1>2. /\ proc'[p].pc = "pick" /\ proc'[p].objects = proc[p].objects
        /\ proc'[p].count = proc[p].count /\ proc'[p].instance = proc[p].instance
        /\ \A q \in Procs \ {p} : proc'[q] = proc[q]
    BY <1>1, Continues
  <1>3. Position(p) /\ OneMember(p)
    BY DEF Sound
  <1>4. Position(p)' /\ ~At(p, "commit")' /\ OneMember(p)'
    <2>1. Position(p)' /\ ~At(p, "commit")'
      BY <1>1, <1>2, <1>3, AtRest DEF Position, At
    <2> QED
      BY <1>1, <1>2, <1>3, <2>1 DEF OneMember, At, Terminating, HasPool
  <1>5. /\ Fits(row, Created', deleted', tokens') /\ row.instance = None
        /\ Named(row) = {}
    BY DEF NoRow, Fits, Named
  <1> HIDE DEF row
  <1>6. \A q \in Procs \ {p}, m \in Members : row_lock[m] = q =>
            row_lock'[m] = q /\ worker'[m] = worker[m]
    <2> SUFFICES ASSUME NEW q \in Procs, NEW m \in Members, row_lock[m] = q
                 PROVE  worker[m].exists
      BY <1>1
    <2>1. m = proc[q].member /\ proc[q].pc \in {"launch", "commit"}
      BY <1>1, Names DEF Types, Locks
    <2> QED
      BY <2>1 DEF Sound, Position
  <1>7. Onward
    BY <1>1, OnwardSame
  <1>8. \A m \in Members : worker'[m] = worker[m] \/
            /\ Fits(worker'[m], Created', deleted', tokens')
            /\ worker'[m].instance = None
            /\ \A i \in Named(worker'[m]) : Owns(m, i)
    BY <1>1, <1>5
  <1> QED
    BY <1>2, <1>4, <1>6, <1>7, <1>8, SoundMove

(* The row is read when it is locked.                                      *)
LEMMA PickSound ==
  ASSUME IInv, IInv', Sound, NEW p \in Procs, pick(p)
  PROVE  Sound'
  <1> DEFINE stopped == {m \in Stopped(PoolFor(p)) : row_lock[m] = None}
  <1>1. /\ Types /\ proc[p] \in Process /\ proc[p].pc = "pick"
        /\ UNCHANGED <<worker, deleted, tokens, cloud>>
        /\ proc[p].objects \in [Members -> Row]
    BY InvFacts, ProcFacts DEF pick, At
  <1>2. Position(p) /\ OneMember(p) /\ proc[p].instance = None
    BY <1>1 DEF Sound, Position, At
  <1>3. CASE proc[p].count = 0 \/ stopped = {}
    <2>1. Become(p, Done(p)) /\ UNCHANGED row_lock
      BY <1>3 DEF pick
    <2>2. /\ Done(p).pc \in {"idle", "allocate"} /\ Done(p).instance = None
          /\ Done(p).pc = "allocate" => p = Provisioner
          /\ \A m \in Members : Done(p).objects[m] = NoRow
      BY DEF Done, Idle
    <2>3. proc'[p] = Done(p) /\ \A q \in Procs \ {p} : proc'[q] = proc[q]
      BY <1>1, <2>1, Moved DEF Types
    <2>4. OneMember(p)'
      BY <2>2, <2>3 DEF OneMember, At, Terminating, HasPool
    <2> QED
      BY <1>1, <2>1, <2>2, <2>3, <2>4, RestSound
  <1>4. CASE ~(proc[p].count = 0 \/ stopped = {})
    <2> DEFINE m == Least(stopped)
               next == [proc[p] EXCEPT !.pc = "launch", !.member = m,
                                       !.objects[m] = worker[m]]
    <2>1. Become(p, next) /\ row_lock' = [row_lock EXCEPT ![m] = p]
      BY <1>4 DEF pick
    <2>2. m \in stopped
      <3>1. stopped \in SUBSET Nat
        BY Names DEF Stopped, In
      <3> QED
        BY <1>4, <3>1, LeastOf
    <2>3. /\ m \in Members /\ row_lock[m] = None
          /\ worker[m].instance = None /\ worker[m].exists
      BY <2>2 DEF Stopped, In
    <2> HIDE DEF m
    <2>4. /\ next.pc = "launch" /\ next.member = m /\ next.instance = None
          /\ next.count = proc[p].count /\ next.objects[m] = worker[m]
          /\ \A k \in Members : next.objects[k] \in {worker[k], proc[p].objects[k]}
      BY <1>1, <1>2, <2>3 DEF Process
    <2> HIDE DEF next
    <2>5. proc'[p] = next /\ \A q \in Procs \ {p} : proc'[q] = proc[q]
      BY <1>1, <2>1, Moved DEF Types
    <2>6. row_lock'[m] = p /\ \A k \in Members \ {m} : row_lock'[k] = row_lock[k]
      BY <1>1, <2>1, <2>3 DEF Types, Locks
    <2>7. Position(p)' /\ ~At(p, "commit")'
      BY <1>1, <2>3, <2>4, <2>5, <2>6 DEF Position, Object, At
    <2>8. OneMember(p)'
      BY <1>1, <1>2, <2>4, <2>5 DEF OneMember, At, Terminating, HasPool
    <2>9. \A q \in Procs \ {p}, k \in Members : row_lock[k] = q =>
              row_lock'[k] = q /\ worker'[k] = worker[k]
      BY <1>1, <2>3, <2>6, Names
    <2>10. Onward
      BY <1>1, OnwardSame
    <2>11. \A k \in Members :
              proc'[p].objects[k] \in {NoRow, worker[k], proc[p].objects[k]}
      BY <2>4, <2>5
    <2> QED
      BY <1>1, <2>5, <2>7, <2>8, <2>9, <2>10, <2>11, SoundMove
  <1> QED
    BY <1>3, <1>4

(* The instance that is created was nobody's.                              *)
LEMMA CreateInstanceSound ==
  ASSUME IInv, IInv', Sound, NEW p \in Procs, create_instance(p)
  PROVE  Sound'
  <1> DEFINE unused == First(1, {i \in Instances : cloud[i] = "unused"})
  <1>1. /\ Types /\ proc[p] \in Process /\ proc[p].pc = "launch"
        /\ proc[p].member \in Members
        /\ UNCHANGED <<worker, deleted, tokens>>
    BY InvFacts, ProcFacts, ObjectType DEF create_instance, At, HasMember
  <1>2. CASE unused = {}
    <2>1. /\ Become(p, Idle) /\ UNCHANGED cloud
          /\ row_lock' = [row_lock EXCEPT ![proc[p].member] = None]
      BY <1>2 DEF create_instance
    <2>2. row_lock[proc[p].member] = p
      BY <1>1 DEF Sound, Position
    <2>3. \A q \in Procs \ {p}, m \in Members : row_lock[m] = q => row_lock'[m] = q
      BY <1>1, <2>1, <2>2
    <2> QED
      BY <1>1, <2>1, <2>3, IdleSound
  <1>3. CASE unused # {}
    <2> DEFINE i == Least(unused)
               next == [proc[p] EXCEPT !.pc = "commit", !.instance = i]
    <2>1. /\ Become(p, next) /\ UNCHANGED row_lock
          /\ cloud' = [j \in Instances |-> IF j \in unused THEN "booting"
                                                           ELSE cloud[j]]
      BY <1>3 DEF create_instance
    <2>2. i \in Instances /\ cloud[i] = "unused"
      BY <1>3, FreshOf
    <2>3. \A j \in unused : cloud[j] = "unused"
      BY FreshOf
    <2> HIDE DEF i, unused
    <2>4. /\ next.pc = "commit" /\ next.instance = i
          /\ next.member = proc[p].member /\ next.objects = proc[p].objects
          /\ next.count = proc[p].count
      BY <1>1 DEF Process
    <2> HIDE DEF next
    <2>5. proc'[p] = next /\ \A q \in Procs \ {p} : proc'[q] = proc[q]
      BY <1>1, <2>1, Moved DEF Types
    <2>6. Onward
      BY <1>1, <2>1, <2>3 DEF Onward, Sound, Created, Ended
    <2>7. Position(p) /\ OneMember(p) /\ Object(p)' = Object(p)
      BY <2>4, <2>5 DEF Sound, Object
    <2>8. \A q \in Procs : Position(q)' /\ OneMember(q)'
      <3>1. \A q \in Procs \ {p} : Position(q)' /\ OneMember(q)'
        BY <1>1, <2>1, <2>5, <2>6, PositionStays DEF Sound
      <3>2. Position(p)'
        BY <1>1, <2>1, <2>4, <2>5, <2>7 DEF Position, At
      <3>3. OneMember(p)'
        BY <1>1, <2>4, <2>5, <2>7 DEF OneMember, At, Terminating, HasPool
      <3> QED
        BY <3>1, <3>2, <3>3
    <2>9. /\ \A m \in Members : worker[m] \in Known
          /\ \A q \in Procs, m \in Members : /\ proc[q].objects[m] \in Known
                                             /\ proc'[q].objects = proc[q].objects
      BY <2>4, <2>5, InvFacts
    <2>10. \A row \in Known : Consistent(row) =>
              Fits(row, Created', deleted', tokens') /\ i \notin Named(row)
      <3>1. i \notin Created /\ i \notin Used /\ i # None
        BY <2>2, Names DEF Created, Used
      <3>2. \A row \in Known : Consistent(row) => i \notin Named(row)
        BY <3>1 DEF Consistent, Fits, Known, Named
      <3> QED
        BY <2>6, <3>2, ConsistentStays
    <2>11. \A m \in Members : ~Owns(m, i)
      <3>1. \A q \in Procs : At(q, "commit") => proc[q].instance # i
        BY <2>2 DEF IInv, LaunchesDiffer
      <3> QED
        BY <2>9, <2>10, <3>1 DEF Owns, Sound
    <2>12. \A j : \A m \in Members : Owns(m, j)' =>
              Owns(m, j) \/ (j = i /\ m = proc[p].member)
      <3> SUFFICES ASSUME NEW m \in Members, NEW j, Owns(m, j)'
                   PROVE  Owns(m, j) \/ (j = i /\ m = proc[p].member)
        OBVIOUS
      <3>1. CASE j \in Named(worker'[m])
        BY <1>1, <3>1 DEF Owns
      <3>2. ASSUME NEW q \in Procs, j \in Named(proc'[q].objects[m])
            PROVE  Owns(m, j)
        BY <2>9, <3>2 DEF Owns
      <3>3. ASSUME NEW q \in Procs, At(q, "commit")', proc'[q].member = m,
                   proc'[q].instance = j
            PROVE  Owns(m, j) \/ (j = i /\ m = proc[p].member)
        BY <2>4, <2>5, <3>3 DEF Owns, At
      <3> QED
        BY <3>1, <3>2, <3>3 DEF Owns
    <2>13. OneOwner'
      BY <2>11, <2>12 DEF OneOwner, Sound
    <2> QED
      BY <1>1, <2>6, <2>8, <2>9, <2>10, <2>13 DEF Sound, Consistent, Onward
  <1> QED
    BY <1>2, <1>3

(* The row gets the instance that was launched for it.                     *)
LEMMA CommitLaunchSound ==
  ASSUME IInv, IInv', Sound, NEW p \in Procs, commit_launch(p)
  PROVE  Sound'
  <1> DEFINE m == proc[p].member
             i == proc[p].instance
             old == proc[p].objects[m]
             row == [old EXCEPT !.instance = i, !.activation = i]
             next == [proc[p] EXCEPT !.pc = "pick", !.count = @ - 1,
                         !.member = None, !.instance = None,
                         !.objects[m] = NoRow]
  <1>1. Types /\ row \in Row /\ proc[p].pc = "commit" /\ proc[p].count # 0
    BY InvFacts, CommitLaunchType DEF commit_launch, At, IInv, InHand
  <1>2. /\ m \in Members /\ old \in Row /\ i \in Instances
        /\ proc[p] \in Process /\ proc[p].objects \in [Members -> Row]
    BY <1>1, ObjectType, ProcFacts, FreshLaunch DEF HasMember, Object, At
  <1>3. /\ Save(m, row) /\ Become(p, next)
        /\ deleted' = deleted \cup ({old.activation} \ {None})
        /\ tokens' = tokens \ {old.token} /\ UNCHANGED cloud
        /\ row_lock' = [row_lock EXCEPT ![m] = None]
    BY DEF commit_launch
  <1>4. worker'[m] = row /\ \A k \in Members \ {m} : worker'[k] = worker[k]
    BY <1>1, <1>2, <1>3, SaveType
  <1>5. /\ row.token = old.token /\ row.instance = i /\ row.activation = i
        /\ row.exists = old.exists
    BY <1>2 DEF Row
  <1>6. /\ next.pc = "pick" /\ next.instance = None
        /\ next.count = proc[p].count - 1
        /\ \A k \in Members : next.objects[k] \in {NoRow, proc[p].objects[k]}
    BY <1>2 DEF Process
  <1>7. Position(p) /\ OneMember(p) /\ row_lock[m] = p /\ old.exists
    BY <1>1 DEF Sound, Position, Object
  <1>8. i \in Created
    BY <1>1, <1>2 DEF IInv, LaunchesDiffer, Created, At
  <1>9. Owns(m, i) /\ \A j \in Named(old) : Owns(m, j)
    BY <1>1 DEF Owns, At
  <1> HIDE DEF m, i, old, row, next
  <1>10. proc'[p] = next /\ \A q \in Procs \ {p} : proc'[q] = proc[q]
    BY <1>1, <1>3, Moved DEF Types
  <1>11. Onward
    BY <1>3 DEF Onward, Sound, Created, Ended
  <1>12. Fits(row, Created', deleted', tokens')
    BY <1>3, <1>5, <1>8, <1>11 DEF Fits, Onward
  <1>13. \A j \in Named(row) : Owns(m, j)
    BY <1>5, <1>9 DEF Named
  <1>14. \A k \in Members : worker'[k] = worker[k] \/
            /\ Fits(worker'[k], Created', deleted', tokens')
            /\ worker'[k].exists
            /\ \A j \in Named(worker'[k]) : Owns(k, j)
    BY <1>4, <1>5, <1>7, <1>12, <1>13
  <1>15. Position(p)' /\ ~At(p, "commit")'
    BY <1>6, <1>10, AtRest DEF At
  <1>16. OneMember(p)'
    BY <1>1, <1>6, <1>7, <1>10 DEF OneMember, At, Terminating, HasPool
  <1>17. \A q \in Procs \ {p}, k \in Members : row_lock[k] = q =>
            row_lock'[k] = q /\ worker'[k] = worker[k]
    BY <1>3, <1>4, <1>7
  <1>18. \A k \in Members :
            proc'[p].objects[k] \in {NoRow, worker[k], proc[p].objects[k]}
    BY <1>6, <1>10
  <1> QED
    BY <1>10, <1>11, <1>14, <1>15, <1>16, <1>17, <1>18, SoundMove

(* The instance itself makes its own token, once.                          *)
LEMMA RegisterSound ==
  ASSUME IInv, IInv', Sound, NEW i \in Instances, NEW m \in Members,
         register(i, m)
  PROVE  Sound'
  <1> DEFINE row == [worker[m] EXCEPT !.activation = None, !.token = i]
  <1>1. Types /\ row \in Row
    BY InvFacts, RegisterType
  <1>2. worker'[m] = row /\ \A k \in Members \ {m} : worker'[k] = worker[k]
    BY <1>1, SaveType DEF register
  <1>3. /\ worker[m] \in Row /\ row.instance = worker[m].instance
        /\ row.token = i /\ row.activation = None /\ row.exists = worker[m].exists
    BY <1>1 DEF Types, Tables, Row
  <1> HIDE DEF row
  <1>4. /\ tokens' = tokens \cup {i} /\ deleted' = deleted \cup {i}
        /\ worker[m].activation = i /\ i \in activations /\ row_lock[m] = None
        /\ cloud' = [cloud EXCEPT ![i] = "ready"] /\ cloud[i] = "booting"
        /\ UNCHANGED <<proc, row_lock>>
    BY DEF register
  <1>5. Onward
    BY <1>1, <1>4 DEF Onward, Created, Ended, Sound, Types, Tables
  <1>6. Fits(row, Created', deleted', tokens')
    BY <1>3, <1>5 DEF Sound, Consistent, Fits, Onward
  <1>7. \A j \in Named(row) : Owns(m, j)
    BY <1>3, <1>4 DEF Named, Owns
  <1>8. row.exists \/ row.instance = None
    BY <1>3 DEF Sound
  <1>9. \A k \in Members : worker'[k] = worker[k] \/
            /\ row_lock[k] = None
            /\ Fits(worker'[k], Created', deleted', tokens')
            /\ worker'[k].exists \/ worker'[k].instance = None
            /\ \A j \in Named(worker'[k]) : Owns(k, j)
    BY <1>2, <1>4, <1>6, <1>7, <1>8
  <1> QED
    BY <1>4, <1>5, <1>9, SoundWorld

(* A row that is saved with the names that it had.                         *)
LEMMA SameNamesSound ==
  ASSUME IInv, IInv', Sound, NEW m \in Members, NEW row \in Row,
         row_lock[m] = None, row.exists = worker[m].exists,
         row.instance = worker[m].instance, row.token = worker[m].token,
         row.activation = worker[m].activation, Save(m, row),
         UNCHANGED <<deleted, tokens, cloud, proc, row_lock>>
  PROVE  Sound'
  <1>1. worker'[m] = row /\ \A k \in Members \ {m} : worker'[k] = worker[k]
    BY InvFacts, SaveType
  <1>2. Onward
    BY OnwardSame
  <1>3. Fits(row, Created', deleted', tokens')
    BY <1>2 DEF Sound, Consistent, Fits, Onward, Created
  <1>4. \A j \in Named(row) : Owns(m, j)
    BY DEF Named, Owns
  <1>5. row.exists \/ row.instance = None
    BY DEF Sound
  <1>6. \A k \in Members : worker'[k] = worker[k] \/
            /\ row_lock[k] = None
            /\ Fits(worker'[k], Created', deleted', tokens')
            /\ worker'[k].exists \/ worker'[k].instance = None
            /\ \A j \in Named(worker'[k]) : Owns(k, j)
    BY <1>1, <1>3, <1>4, <1>5
  <1> QED
    BY <1>2, <1>6, SoundWorld

LEMMA ConnectSound ==
  ASSUME IInv, IInv', Sound, NEW i \in Instances, NEW m \in Members,
         connect(i, m)
  PROVE  Sound'
  <1> DEFINE row == [worker[m] EXCEPT !.connected = TRUE, !.known = TRUE]
  <1>1. Types /\ row \in Row
    BY InvFacts, ConnectType
  <1>2. /\ row.token = worker[m].token /\ row.activation = worker[m].activation
        /\ row.instance = worker[m].instance /\ row.exists = worker[m].exists
    BY <1>1 DEF Types, Tables, Row
  <1>3. /\ Save(m, row) /\ row_lock[m] = None
        /\ UNCHANGED <<deleted, tokens, cloud, proc, row_lock>>
    BY DEF connect
  <1> HIDE DEF row
  <1> QED
    BY <1>1, <1>2, <1>3, SameNamesSound

LEMMA DisconnectSound ==
  ASSUME IInv, IInv', Sound, NEW m \in Members, disconnect(m)
  PROVE  Sound'
  <1> DEFINE row == [worker[m] EXCEPT !.connected = FALSE]
  <1>1. Types /\ row \in Row
    BY InvFacts, DisconnectType
  <1>2. /\ row.token = worker[m].token /\ row.activation = worker[m].activation
        /\ row.instance = worker[m].instance /\ row.exists = worker[m].exists
    BY <1>1 DEF Types, Tables, Row
  <1>3. /\ Save(m, row) /\ row_lock[m] = None
        /\ UNCHANGED <<deleted, tokens, cloud, proc, row_lock>>
    BY DEF disconnect
  <1> HIDE DEF row
  <1> QED
    BY <1>1, <1>2, <1>3, SameNamesSound

(* Steps about requests and time, and an instance that vanishes.           *)
LEMMA OthersSound ==
  ASSUME IInv, IInv', Sound,
         \/ \E i \in Instances, m \in Members : ask(i, m) \/ report(i, m)
         \/ \E i \in Instances : vanish(i)
         \/ \E m \in Members : schedule(m)
         \/ \E r \in Requests : create_work_request(r)
         \/ ten_minutes
         \/ UNCHANGED vars
  PROVE  Sound'
  <1>1. UNCHANGED <<worker, deleted, tokens, proc, row_lock>>
    BY DEF ask, report, vanish, schedule, create_work_request, ten_minutes,
           vars, db
  <1>2. UNCHANGED cloud \/ \E i \in Alive :
                              cloud' = [cloud EXCEPT ![i] = "vanished"]
    BY DEF ask, report, vanish, schedule, create_work_request, ten_minutes, vars
  <1>3. cloud \in [Instances -> States]
    BY InvFacts DEF Types, Tables
  <1>4. Created \subseteq Created' /\ Ended \subseteq Ended'
    BY <1>2, <1>3 DEF Created, Ended, Alive
  <1>5. Onward
    BY <1>1, <1>4 DEF Onward, Sound
  <1> QED
    BY <1>1, <1>5, SoundWorld

(* Initially nothing is named.                                             *)
LEMMA InitSound == Init => Sound
  <1> SUFFICES ASSUME Init PROVE Sound
    OBVIOUS
  <1>1. /\ \A m \in Members : worker[m] = NoRow
        /\ \A p \in Procs : proc[p] = Idle
        /\ tokens = {}
    BY DEF Init
  <1>2. /\ Idle.pc = "idle" /\ Idle.instance = None
        /\ \A m \in Members : Idle.objects[m] = NoRow
    BY DEF Idle
  <1>3. Consistent(NoRow) /\ Named(NoRow) = {} /\ NoRow.instance = None
    BY DEF NoRow, Consistent, Fits, Named
  <1>4. \A p \in Procs : Position(p) /\ OneMember(p)
    BY <1>1, <1>2 DEF Position, OneMember, At, Terminating, HasPool
  <1>5. OneOwner
    BY <1>1, <1>2, <1>3 DEF OneOwner, Owns, At
  <1> QED
    BY <1>1, <1>2, <1>3, <1>4, <1>5 DEF Sound

(* Every step keeps what rows, objects and positions are.                  *)
LEMMA NextSoundness ==
  ASSUME IInv, IInv', Sound, [Next]_vars
  PROVE  Sound'
  <1>1. ASSUME NEW p \in Procs, Step(p)
        PROVE  Sound'
    BY <1>1, TerminateWorkerSound, TerminateInstanceSound,
       SaveTerminatedSound, RetryRunningSound, ProcessScopeSound,
       AllocateWorkersSound, CreatePoolMembersSound, PickSound,
       CreateInstanceSound, CommitLaunchSound, TokenDeletedSound DEF Step
  <1>2. ASSUME NEW p \in Procs,
               \/ provision(p) \/ handle_launch(p) \/ handle_terminate(p)
               \/ fails(p)
        PROVE  Sound'
    BY <1>2, ProvisionSound, HandleLaunchSound, HandleTerminateSound, FailsSound
  <1>3. ASSUME NEW i \in Instances, NEW m \in Members, Life(i, m)
        PROVE  Sound'
    BY <1>3, RegisterSound, ConnectSound, OthersSound DEF Life
  <1> QED
    BY <1>1, <1>2, <1>3, DisconnectSound, OthersSound DEF Next

-----------------------------------------------------------------------------
(* Instances that nothing leads to.                                        *)

(* Members whose instance the provisioner is about to overwrite: it has    *)
(* read the row before that instance was launched.                         *)
Overwrites(m) ==
    LET c == proc[Provisioner]
    IN  /\ worker[m].instance # None
        /\ c.objects[m].instance # worker[m].instance
        /\ \/ m = c.member /\ c.pc \in {"terminate", "api", "save"}
           \/ m \in c.todo /\ c.pc \in Terminating
Stale == {m \in Members : Overwrites(m)}

(* Commands that may still lose an instance, or have the provisioner do so.*)
Charges(p) == \/ proc[p].pc \in {"terminate", "api", "save", "create",
                                 "launch", "commit"}
              \/ At(p, "pick") /\ proc[p].count # 0
Charged == {p \in Procs \ {Provisioner} : Charges(p)}

(* Every leak, and every one that may come, has its own fault or command.  *)
Debt == ({"leak"} \X Leaked) \cup ({"stale"} \X Stale)
        \cup ({"command"} \X Charged)
Explained == IsFiniteSet(Debt) /\ Cardinality(Debt) <= faults + commands

-----------------------------------------------------------------------------
(* Events are counted by numbers.                                          *)
LEMMA EventTypes ==
  ASSUME IInv
  PROVE  faults \in Nat /\ commands \in Nat
  BY WorkerPoolsAssumption DEF IInv, TypeOK

(* Nothing is added, or one thing and a reason for it, or instead of       *)
(* another.                                                                *)
LEMMA Chain ==
  ASSUME NEW a \in Nat, NEW b \in Nat, NEW c \in Nat, NEW d \in Nat,
         NEW e \in Nat, NEW f \in Nat, a <= b, b <= c + d, c + d <= e + f
  PROVE  a <= e + f
  OBVIOUS

LEMMA DebtLess ==
  ASSUME IInv, IInv', Explained, Debt' \subseteq Debt,
         faults + commands <= faults' + commands'
  PROVE  Explained'
  <1>1. IsFiniteSet(Debt') /\ Cardinality(Debt') <= Cardinality(Debt)
    BY FS_Subset DEF Explained
  <1>2. Cardinality(Debt) \in Nat /\ Cardinality(Debt') \in Nat
    BY <1>1, FS_CardinalityType DEF Explained
  <1>3. /\ faults \in Nat /\ commands \in Nat
        /\ faults' \in Nat /\ commands' \in Nat
    BY WorkerPoolsAssumption DEF IInv, TypeOK
  <1>4. Cardinality(Debt) <= faults + commands
    BY DEF Explained
  <1>5. Cardinality(Debt') <= faults' + commands'
    BY <1>1, <1>2, <1>3, <1>4, Chain
  <1> QED
    BY <1>1, <1>5 DEF Explained

LEMMA DebtMore ==
  ASSUME IInv, IInv', Explained, NEW x, Debt' \subseteq Debt \cup {x},
         faults' + commands' = faults + commands + 1
  PROVE  Explained'
  <1>1. /\ IsFiniteSet(Debt \cup {x}) /\ Cardinality(Debt) \in Nat
        /\ Cardinality(Debt \cup {x}) \in {Cardinality(Debt), Cardinality(Debt) + 1}
    BY FS_AddElement, FS_CardinalityType DEF Explained
  <1>2. /\ IsFiniteSet(Debt')
        /\ Cardinality(Debt') <= Cardinality(Debt \cup {x})
    BY <1>1, FS_Subset
  <1>3. Cardinality(Debt') \in Nat /\ faults \in Nat /\ commands \in Nat
    BY <1>2, FS_CardinalityType, EventTypes
  <1>4. Cardinality(Debt') <= Cardinality(Debt) + 1
    BY <1>1, <1>2, <1>3
  <1> QED
    BY <1>1, <1>2, <1>3, <1>4 DEF Explained

LEMMA DebtMoved ==
  ASSUME IInv, IInv', Explained, NEW x, NEW y \in Debt,
         Debt' \subseteq (Debt \ {y}) \cup {x}, UNCHANGED <<faults, commands>>
  PROVE  Explained'
  <1> DEFINE rest == Debt \ {y}
  <1>1. /\ IsFiniteSet(rest) /\ Cardinality(rest) = Cardinality(Debt) - 1
        /\ Cardinality(Debt) \in Nat /\ Cardinality(rest) \in Nat
    BY FS_RemoveElement, FS_CardinalityType DEF Explained
  <1> HIDE DEF rest
  <1>2. /\ IsFiniteSet(rest \cup {x})
        /\ Cardinality(rest \cup {x}) \in {Cardinality(rest), Cardinality(rest) + 1}
    BY <1>1, FS_AddElement
  <1>3. IsFiniteSet(Debt') /\ Cardinality(Debt') <= Cardinality(rest \cup {x})
    BY <1>2, FS_Subset DEF rest
  <1>4. Cardinality(Debt') \in Nat /\ faults \in Nat /\ commands \in Nat
    BY <1>3, FS_CardinalityType, EventTypes
  <1>5. Cardinality(Debt') <= Cardinality(Debt)
    BY <1>1, <1>2, <1>3, <1>4
  <1> QED
    BY <1>1, <1>3, <1>4, <1>5 DEF Explained

(* Leaks that are enough to explain the ones there are.                    *)
LEMMA LeaksLess ==
  ASSUME Alive' \subseteq Alive, \A m \in Members : worker'[m].instance = worker[m].instance,
         \A p \in Procs : proc[p].instance \in {None, proc'[p].instance}
  PROVE  Leaked' \subseteq Leaked
  <1>1. None \notin Alive
    BY Names DEF Alive
  <1> QED
    BY <1>1 DEF Leaked

LEMMA NoMoreDebt ==
  ASSUME IInv, IInv', Explained, NEW p \in Procs,
         \A q \in Procs \ {p} : proc'[q] = proc[q],
         Alive' \subseteq Alive,
         \A m \in Members : worker'[m].instance = worker[m].instance,
         proc[p].instance \in {None, proc'[p].instance},
         p = Provisioner => Stale' \subseteq Stale,
         p # Provisioner => (Charges(p)' => Charges(p)),
         faults + commands <= faults' + commands'
  PROVE  Explained'
  <1>1. Leaked' \subseteq Leaked
    BY LeaksLess
  <1>2. Provisioner \in Procs
    BY WorkerPoolsAssumption
  <1>3. Stale' \subseteq Stale
    BY <1>2 DEF Stale, Overwrites
  <1>4. Charged' \subseteq Charged
    BY DEF Charged, Charges, At
  <1>5. Debt' \subseteq Debt
    BY <1>1, <1>3, <1>4 DEF Debt
  <1> QED
    BY <1>5, DebtLess

(* The provisioner overwrites nothing where it terminates nothing.         *)
LEMMA NotTerminating ==
  ASSUME proc'[Provisioner].pc \notin Terminating
  PROVE  Stale' = {}
  BY DEF Stale, Overwrites, Terminating

(* A process that stops, or has nothing to terminate or launch.            *)
LEMMA RestDebt ==
  ASSUME IInv, IInv', Explained, NEW p \in Procs,
         \A q \in Procs \ {p} : proc'[q] = proc[q],
         UNCHANGED <<cloud, faults, commands>>,
         \A m \in Members : worker'[m].instance = worker[m].instance,
         proc[p].instance = None,
         p = Provisioner => proc'[p].pc \notin Terminating,
         p # Provisioner => (Charges(p)' => Charges(p))
  PROVE  Explained'
  <1>1. Alive' \subseteq Alive /\ faults + commands <= faults' + commands'
    BY EventTypes DEF Alive
  <1> QED
    BY <1>1, NotTerminating, NoMoreDebt

-----------------------------------------------------------------------------
(* Every step keeps the leaks explained.                                   *)

LEMMA IdleDebt ==
  ASSUME IInv, IInv', Sound, Explained, NEW p \in Procs, Become(p, Idle),
         ~At(p, "commit"), UNCHANGED <<worker, cloud, faults, commands>>
  PROVE  Explained'
  <1>1. proc'[p] = Idle /\ \A q \in Procs \ {p} : proc'[q] = proc[q]
    BY InvFacts, Moved DEF Types
  <1>2. Idle.pc = "idle" /\ proc[p].instance = None
    BY DEF Idle, Sound, Position
  <1> QED
    BY <1>1, <1>2, RestDebt DEF Terminating, Charges, At

LEMMA TokenDeletedDebt ==
  ASSUME IInv, IInv', Sound, Explained, NEW p \in Procs, token_deleted(p)
  PROVE  Explained'
  BY IdleDebt DEF token_deleted, db, At

(* A process that dies before it commits leaks the instance that it made.  *)
LEMMA FailsDebt ==
  ASSUME IInv, IInv', Sound, Explained, NEW p \in Procs, fails(p)
  PROVE  Explained'
  <1> DEFINE lost == proc[p].instance
  <1>1. /\ proc'[p] = Idle /\ \A q \in Procs \ {p} : proc'[q] = proc[q]
        /\ faults' = faults + 1 /\ UNCHANGED <<worker, cloud, commands>>
    BY InvFacts, Moved DEF Types, fails
  <1>2. Leaked' \subseteq Leaked \cup {lost}
    BY <1>1 DEF Leaked, Alive
  <1>3. Provisioner \in Procs /\ Idle.pc = "idle"
    BY WorkerPoolsAssumption DEF Idle
  <1>4. Stale' \subseteq Stale
    BY <1>1, <1>3 DEF Stale, Overwrites, Terminating
  <1>5. Charged' \subseteq Charged
    BY <1>1, <1>3 DEF Charged, Charges, At
  <1>6. Debt' \subseteq Debt \cup {<<"leak", lost>>}
    BY <1>2, <1>4, <1>5 DEF Debt
  <1>7. faults' + commands' = faults + commands + 1
    BY <1>1, EventTypes
  <1> QED
    BY <1>6, <1>7, DebtMore

LEMMA TerminateWorkerDebt ==
  ASSUME IInv, IInv', Sound, Explained, NEW p \in Procs, terminate_worker(p)
  PROVE  Explained'
  <1>1. /\ Types /\ proc[p].pc = "terminate"
        /\ Become(p, [proc[p] EXCEPT !.pc = "api"])
        /\ UNCHANGED <<worker, cloud, faults, commands>>
    BY InvFacts DEF terminate_worker, At
  <1>2. /\ proc'[p].pc = "api" /\ proc'[p].objects = proc[p].objects
        /\ proc'[p].todo = proc[p].todo /\ proc'[p].member = proc[p].member
        /\ proc'[p].instance = proc[p].instance
        /\ \A q \in Procs \ {p} : proc'[q] = proc[q]
    BY <1>1, Continues
  <1>3. p = Provisioner => Stale' \subseteq Stale
    BY <1>1, <1>2 DEF Stale, Overwrites, Terminating
  <1>4. Charges(p)' => Charges(p)
    BY <1>1 DEF Charges
  <1>5. Alive' \subseteq Alive /\ faults + commands <= faults' + commands'
    BY <1>1, EventTypes DEF Alive
  <1> QED
    BY <1>1, <1>2, <1>3, <1>4, <1>5, NoMoreDebt

LEMMA TerminateInstanceDebt ==
  ASSUME IInv, IInv', Sound, Explained, NEW p \in Procs, terminate_instance(p)
  PROVE  Explained'
  <1>1. /\ Types /\ proc[p].pc = "api"
        /\ Become(p, [proc[p] EXCEPT !.pc = "save"])
        /\ UNCHANGED <<worker, faults, commands>>
    BY InvFacts DEF terminate_instance, At, db
  <1>2. /\ proc'[p].pc = "save" /\ proc'[p].objects = proc[p].objects
        /\ proc'[p].todo = proc[p].todo /\ proc'[p].member = proc[p].member
        /\ proc'[p].instance = proc[p].instance
        /\ \A q \in Procs \ {p} : proc'[q] = proc[q]
    BY <1>1, Continues
  <1>3. p = Provisioner => Stale' \subseteq Stale
    BY <1>1, <1>2 DEF Stale, Overwrites, Terminating
  <1>4. Charges(p)' => Charges(p)
    BY <1>1 DEF Charges
  <1>5. Alive' \subseteq Alive
    BY DEF Alive, terminate_instance
  <1>6. faults + commands <= faults' + commands'
    BY <1>1, EventTypes
  <1> QED
    BY <1>1, <1>2, <1>3, <1>4, <1>5, <1>6, NoMoreDebt

(* The instance of the row is lost if it is not the one that was           *)
(* terminated.  Then the object was stale.                                 *)
LEMMA SaveTerminatedDebt ==
  ASSUME IInv, IInv', Sound, Explained, NEW p \in Procs, save_terminated(p)
  PROVE  Explained'
  <1> DEFINE m == proc[p].member
             row == [Object(p) EXCEPT !.instance = None]
             lost == worker[m].instance
             reason == IF p = Provisioner THEN <<"stale", m>> ELSE <<"command", p>>
  <1>1. /\ Types /\ proc[p].pc = "save" /\ Save(m, row)
        /\ Become(p, [proc[p] EXCEPT !.pc = "retry"])
        /\ UNCHANGED <<cloud, faults, commands>>
    BY InvFacts DEF save_terminated, At
  <1>2. /\ proc'[p].pc = "retry" /\ proc'[p].objects = proc[p].objects
        /\ proc'[p].todo = proc[p].todo /\ proc'[p].member = proc[p].member
        /\ proc'[p].instance = proc[p].instance
        /\ \A q \in Procs \ {p} : proc'[q] = proc[q]
    BY <1>1, Continues
  <1>3. m \in Members /\ Object(p) \in Row
    BY <1>1, ObjectType DEF HasMember
  <1>4. row \in Row /\ row.instance = None
    BY <1>3 DEF Row
  <1>5. worker'[m] = row /\ \A k \in Members \ {m} : worker'[k] = worker[k]
    BY <1>1, <1>3, <1>4, SaveType
  <1>6. Object(p).instance \notin Alive
    BY <1>1, Names DEF Sound, Position, Ended, Alive, At
  <1>7. Leaked' \subseteq Leaked \cup {lost}
    BY <1>1, <1>2, <1>5 DEF Leaked, Alive
  <1>8. Provisioner \in Procs
    BY WorkerPoolsAssumption
  <1>9. Stale' \subseteq Stale \ {m}
    BY <1>1, <1>2, <1>4, <1>5, <1>8 DEF Stale, Overwrites, Terminating
  <1>10. Charged' \subseteq Charged \ {p}
    BY <1>2 DEF Charged, Charges, At
  <1>11. CASE lost \notin Alive
    <2>1. Leaked' \subseteq Leaked
      BY <1>1, <1>7, <1>11 DEF Leaked, Alive
    <2>2. Debt' \subseteq Debt
      BY <1>9, <1>10, <2>1 DEF Debt
    <2> QED
      BY <1>1, <2>2, EventTypes, DebtLess
  <1>12. CASE lost \in Alive
    <2>1. reason \in Debt
      <3>1. CASE p = Provisioner
        <4>1. m \in Stale
          BY <1>1, <1>3, <1>6, <1>12, <3>1, Names
             DEF Stale, Overwrites, Object, Alive
        <4> QED
          BY <3>1, <4>1 DEF Debt
      <3>2. CASE p # Provisioner
        BY <1>1, <3>2 DEF Debt, Charged, Charges
      <3> QED
        BY <3>1, <3>2
    <2>2. Debt' \subseteq (Debt \ {reason}) \cup {<<"leak", lost>>}
      <3>1. CASE p = Provisioner
        <4>1. Charged' \subseteq Charged
          BY <1>10
        <4> HIDE DEF m, lost
        <4> QED
          BY <1>7, <1>9, <3>1, <4>1 DEF Debt
      <3>2. CASE p # Provisioner
        <4>1. Stale' \subseteq Stale
          BY <1>9
        <4> HIDE DEF m, lost
        <4> QED
          BY <1>7, <1>10, <3>2, <4>1 DEF Debt
      <3> QED
        BY <3>1, <3>2
    <2> HIDE DEF reason, lost
    <2> QED
      BY <1>1, <2>1, <2>2, DebtMoved
  <1> QED
    BY <1>11, <1>12

(* The next member of the list was on it.                                  *)
LEMMA RetryRunningDebt ==
  ASSUME IInv, IInv', Sound, Explained, NEW p \in Procs, retry_running(p)
  PROVE  Explained'
  <1>1. PICK next \in NextWorker(p, proc[p].todo, proc[p].objects) :
            Become(p, next)
    BY DEF retry_running
  <1>2. /\ Types /\ proc[p].pc = "retry" /\ proc[p].todo \subseteq Members
        /\ proc[p].objects \in [Members -> Row]
        /\ UNCHANGED <<worker, cloud, faults, commands>>
    BY InvFacts, ProcFacts DEF retry_running, At
  <1>3. proc'[p] = next /\ \A q \in Procs \ {p} : proc'[q] = proc[q]
    BY <1>1, <1>2, Moved DEF Types
  <1>4. /\ next.instance = None /\ next.pc \in {"idle", "terminate"}
        /\ next.pc = "terminate" =>
              /\ next.member \in proc[p].todo
              /\ next.todo = proc[p].todo \ {next.member}
              /\ \A m \in proc[p].todo : next.objects[m] = proc[p].objects[m]
    BY <1>1, <1>2, NextWorkerFacts
  <1>5. proc[p].instance = None
    BY <1>2 DEF Sound, Position, At
  <1>6. p = Provisioner => Stale' \subseteq Stale
    BY <1>2, <1>3, <1>4 DEF Stale, Overwrites, Terminating
  <1>7. p # Provisioner => ~Charges(p)'
    <2>1. p # Provisioner => proc[p].todo = {}
      BY <1>2 DEF Sound, OneMember, Terminating
    <2> QED
      BY <1>3, <1>4, <2>1 DEF Charges, At
  <1>8. Alive' \subseteq Alive /\ faults + commands <= faults' + commands'
    BY <1>2, EventTypes DEF Alive
  <1> QED
    BY <1>2, <1>3, <1>5, <1>6, <1>7, <1>8, NoMoreDebt

(* The list is read at once: no object on it is stale.                     *)
LEMMA ProvisionDebt ==
  ASSUME IInv, IInv', Sound, Explained, NEW p \in Procs, provision(p)
  PROVE  Explained'
  <1> DEFINE found == {m \in Members : idle(m)}
  <1>1. /\ Types /\ p = Provisioner /\ proc[p].pc = "idle"
        /\ UNCHANGED <<worker, cloud, faults, commands>>
        /\ worker \in [Members -> Row]
    BY InvFacts DEF provision, db, At, Types, Tables
  <1>2. proc[p].instance = None
    BY <1>1 DEF Sound, Position, At
  <1>3. CASE found # {}
    <2>1. PICK next \in NextWorker(p, found, worker) : Become(p, next)
      BY <1>3 DEF provision
    <2>2. proc'[p] = next /\ \A q \in Procs \ {p} : proc'[q] = proc[q]
      BY <1>1, <2>1, Moved DEF Types
    <2>3. /\ next.pc \in {"idle", "terminate"}
          /\ next.pc = "terminate" =>
                /\ next.member \in found /\ next.todo = found \ {next.member}
                /\ \A m \in found : next.objects[m] = worker[m]
      <3> HIDE DEF found
      <3>1. found \in SUBSET Members
        BY DEF found
      <3> QED
        BY <1>1, <2>1, <3>1, NextWorkerFacts
    <2> HIDE DEF found
    <2>4. Stale' = {}
      BY <1>1, <2>2, <2>3 DEF Stale, Overwrites, Terminating
    <2>5. Alive' \subseteq Alive /\ faults + commands <= faults' + commands'
      BY <1>1, EventTypes DEF Alive
    <2> QED
      BY <1>1, <1>2, <2>2, <2>4, <2>5, NoMoreDebt
  <1>4. CASE found = {}
    <2>1. Become(p, [Idle EXCEPT !.pc = "allocate"])
      BY <1>4 DEF provision
    <2>2. proc'[p].pc = "allocate" /\ \A q \in Procs \ {p} : proc'[q] = proc[q]
      BY <1>1, <2>1, Moved DEF Types, Idle
    <2> QED
      BY <1>1, <1>2, <2>2, RestDebt DEF Terminating
  <1> QED
    BY <1>3, <1>4

(* A command is one more event.                                            *)
LEMMA CommandDebt ==
  ASSUME IInv, IInv', Sound, Explained, NEW p \in Procs, Command(p),
         \A q \in Procs \ {p} : proc'[q] = proc[q]
  PROVE  Explained'
  <1>1. /\ p # Provisioner /\ proc[p].pc = "idle" /\ commands' = commands + 1
        /\ UNCHANGED <<worker, cloud, faults>>
    BY DEF Command, At, db
  <1>2. proc[p].instance = None /\ None \notin Instances
    BY <1>1, Names DEF Sound, Position, At
  <1>3. Leaked' \subseteq Leaked
    BY <1>1, <1>2 DEF Leaked, Alive
  <1>4. Stale' \subseteq Stale /\ Provisioner \in Procs
    BY <1>1, WorkerPoolsAssumption DEF Stale, Overwrites
  <1>5. Charged' \subseteq Charged \cup {p}
    BY DEF Charged, Charges, At
  <1>6. Debt' \subseteq Debt \cup {<<"command", p>>}
    BY <1>3, <1>4, <1>5 DEF Debt
  <1>7. faults' + commands' = faults + commands + 1
    BY <1>1, EventTypes
  <1> QED
    BY <1>6, <1>7, DebtMore

LEMMA HandleDebt ==
  ASSUME IInv, IInv', Sound, Explained, NEW p \in Procs,
         handle_launch(p) \/ handle_terminate(p)
  PROVE  Explained'
  <1>1. Command(p) /\ \E next : Become(p, next)
    BY DEF handle_launch, handle_terminate
  <1>2. \A q \in Procs \ {p} : proc'[q] = proc[q]
    BY <1>1, InvFacts, Moved DEF Types
  <1> QED
    BY <1>1, <1>2, CommandDebt

(* The provisioner goes on, and no command is about that.                  *)
LEMMA AllocateDebt ==
  ASSUME IInv, IInv', Sound, Explained, NEW p \in Procs,
         process_scope(p) \/ allocate_workers(p)
  PROVE  Explained'
  <1> DEFINE k == proc[p].pool
             needed == [proc[p] EXCEPT !.pool = 1,
                          !.required = workers_required - workers_available]
             skipped == [proc[p] EXCEPT !.pool = k + 1]
             given(amount) == [proc[p] EXCEPT !.pc = "create",
                                  !.count = amount, !.required = @ - amount]
  <1>1. /\ Types /\ proc[p] \in Process /\ proc[p].pc = "allocate"
        /\ UNCHANGED <<worker, cloud, faults, commands>>
    BY InvFacts, ProcFacts DEF process_scope, allocate_workers, db, At
  <1>2. p = Provisioner /\ proc[p].instance = None
    BY <1>1 DEF Sound, Position, OneMember, At
  <1>3. \E next : Become(p, next) /\ next.pc \in {"idle", "allocate", "create"}
    <2>1. Idle.pc = "idle"
      BY DEF Idle
    <2>2. CASE process_scope(p)
      <3>1. Become(p, Idle) \/ Become(p, needed)
        BY <2>2 DEF process_scope
      <3>2. needed.pc = "allocate"
        BY <1>1 DEF Process
      <3> QED
        BY <2>1, <3>1, <3>2
    <2>3. CASE allocate_workers(p)
      <3>1. \/ Become(p, Idle)
            \/ \E amount : Become(p, IF amount = 0 THEN skipped ELSE given(amount))
        BY <2>3 DEF allocate_workers
      <3>2. \A amount : skipped.pc = "allocate" /\ given(amount).pc = "create"
        BY <1>1 DEF Process
      <3> HIDE DEF skipped, given
      <3>3. \/ Become(p, Idle) \/ Become(p, skipped)
            \/ \E amount : Become(p, given(amount))
        BY <3>1
      <3> QED
        BY <2>1, <3>2, <3>3
    <2> QED
      BY <2>2, <2>3
  <1>4. /\ proc'[p].pc \in {"idle", "allocate", "create"}
        /\ \A q \in Procs \ {p} : proc'[q] = proc[q]
    BY <1>1, <1>3, Moved DEF Types
  <1> QED
    BY <1>1, <1>2, <1>4, RestDebt DEF Terminating

(* A row that did not exist had no instance.                               *)
LEMMA CreatePoolMembersDebt ==
  ASSUME IInv, IInv', Sound, Explained, NEW p \in Procs, create_pool_members(p)
  PROVE  Explained'
  <1>1. /\ Types /\ proc[p].pc = "create"
        /\ Become(p, [proc[p] EXCEPT !.pc = "pick"])
        /\ \A m \in Members : worker'[m] = worker[m]
              \/ (~worker[m].exists /\ worker'[m] = [NoRow EXCEPT !.exists = TRUE])
        /\ UNCHANGED <<cloud, faults, commands>>
    BY InvFacts DEF create_pool_members, At, First, Unused
  <1>2. proc'[p].pc = "pick" /\ \A q \in Procs \ {p} : proc'[q] = proc[q]
    BY <1>1, Continues
  <1>3. [NoRow EXCEPT !.exists = TRUE].instance = None
    BY DEF NoRow
  <1>4. \A m \in Members : worker'[m].instance = worker[m].instance
    BY <1>1, <1>3 DEF Sound
  <1>5. proc[p].instance = None /\ Charges(p)
    BY <1>1 DEF Sound, Position, Charges, At
  <1> QED
    BY <1>1, <1>2, <1>4, <1>5, RestDebt DEF Terminating

LEMMA PickDebt ==
  ASSUME IInv, IInv', Sound, Explained, NEW p \in Procs, pick(p)
  PROVE  Explained'
  <1> DEFINE stopped == {m \in Stopped(PoolFor(p)) : row_lock[m] = None}
             next(m) == [proc[p] EXCEPT !.pc = "launch", !.member = m,
                                        !.objects[m] = worker[m]]
  <1>1. /\ Types /\ proc[p] \in Process /\ proc[p].pc = "pick"
        /\ UNCHANGED <<worker, cloud, faults, commands>>
    BY InvFacts, ProcFacts DEF pick, At
  <1>2. proc[p].instance = None
    BY <1>1 DEF Sound, Position, At
  <1>3. \/ Become(p, Done(p))
        \/ proc[p].count # 0 /\ Become(p, next(Least(stopped)))
    BY DEF pick
  <1>4. /\ Done(p).pc \in {"idle", "allocate"}
        /\ \A m : next(m).pc = "launch"
    BY <1>1 DEF Done, Idle, Process
  <1> HIDE DEF next, stopped
  <1>5. /\ \A q \in Procs \ {p} : proc'[q] = proc[q]
        /\ \/ proc'[p].pc \in {"idle", "allocate"}
           \/ proc[p].count # 0 /\ proc'[p].pc = "launch"
    BY <1>1, <1>3, <1>4, Moved DEF Types
  <1>6. Charges(p)' => Charges(p)
    BY <1>1, <1>5 DEF Charges, At
  <1> QED
    BY <1>1, <1>2, <1>5, <1>6, RestDebt DEF Terminating

(* The first of the free instances is one.                                 *)
LEMMA FirstOne ==
  ASSUME NEW ids \in SUBSET Instances
  PROVE  \A i \in First(1, ids) : i = Least(First(1, ids))
  <1> DEFINE first == First(1, ids)
  <1>1. first \in SUBSET ids /\ first \in SUBSET Nat
    BY Names DEF First
  <1>2. ASSUME NEW i \in first, NEW k \in ids
        PROVE  ~(k < i)
    <2> DEFINE before == {j \in ids : j < i}
    <2>1. Cardinality(before) < 1 /\ before \in SUBSET Instances
      BY DEF First
    <2>2. IsFiniteSet(before) /\ Cardinality(before) \in Nat
      BY <2>1, Names, FS_Subset, FS_CardinalityType
    <2>3. Cardinality(before) = 0
      <3> HIDE DEF before
      <3> QED
        BY <2>1, <2>2
    <2>4. before = {}
      <3> HIDE DEF before
      <3> QED
        BY <2>2, <2>3, FS_EmptySet
    <2> QED
      BY <2>4
  <1>3. ASSUME NEW i \in first
        PROVE  i = Least(first)
    <2>1. Least(first) \in first
      BY <1>1, LeastOf
    <2>2. i \in Nat /\ Least(first) \in Nat /\ i \in ids /\ Least(first) \in ids
      BY <1>1, <2>1
    <2>3. ~(Least(first) < i) /\ ~(i < Least(first))
      BY <1>2, <2>1, <2>2
    <2> HIDE DEF first
    <2> QED
      BY <2>2, <2>3
  <1> QED
    BY <1>3

(* The new instance is in the hands of the process.                        *)
LEMMA CreateInstanceDebt ==
  ASSUME IInv, IInv', Sound, Explained, NEW p \in Procs, create_instance(p)
  PROVE  Explained'
  <1> DEFINE free == {i \in Instances : cloud[i] = "unused"}
             unused == First(1, free)
  <1>1. /\ Types /\ proc[p] \in Process /\ proc[p].pc = "launch"
        /\ UNCHANGED <<worker, faults, commands>>
    BY InvFacts, ProcFacts DEF create_instance, At
  <1>2. CASE unused = {}
    <2>1. Become(p, Idle) /\ UNCHANGED cloud
      BY <1>2 DEF create_instance
    <2> QED
      BY <1>1, <2>1, IdleDebt DEF At
  <1>3. CASE unused # {}
    <2> DEFINE i == Least(unused)
               next == [proc[p] EXCEPT !.pc = "commit", !.instance = i]
    <2>1. /\ Become(p, next)
          /\ cloud' = [j \in Instances |-> IF j \in unused THEN "booting"
                                                           ELSE cloud[j]]
      BY <1>3 DEF create_instance
    <2>2. \A j \in unused : j = i
      BY FirstOne
    <2> HIDE DEF unused, i
    <2>3. next.pc = "commit" /\ next.instance = i
      BY <1>1 DEF Process
    <2> HIDE DEF next
    <2>4. proc'[p] = next /\ \A q \in Procs \ {p} : proc'[q] = proc[q]
      BY <1>1, <2>1, Moved DEF Types
    <2>5. proc[p].instance = None /\ None \notin Instances
      BY <1>1, Names DEF Sound, Position, At
    <2>6. Leaked' \subseteq Leaked
      <3>1. i \notin Leaked'
        BY <2>3, <2>4 DEF Leaked
      <3>2. \A j \in Alive' \ {i} : j \in Alive
        BY <2>1, <2>2 DEF Alive
      <3> QED
        BY <1>1, <2>4, <2>5, <3>1, <3>2 DEF Leaked, Alive
    <2>7. Stale' \subseteq Stale
      <3>1. Provisioner \in Procs
        BY WorkerPoolsAssumption
      <3> QED
        BY <1>1, <2>3, <2>4, <3>1 DEF Stale, Overwrites, Terminating
    <2>8. Charged' \subseteq Charged
      BY <1>1, <2>4 DEF Charged, Charges, At
    <2>9. Debt' \subseteq Debt
      BY <2>6, <2>7, <2>8 DEF Debt
    <2> QED
      BY <1>1, <2>9, EventTypes, DebtLess
  <1> QED
    BY <1>2, <1>3

(* A command that launches an instance may make the object stale that the  *)
(* provisioner has of the member.                                          *)
LEMMA CommitLaunchDebt ==
  ASSUME IInv, IInv', Sound, Explained, NEW p \in Procs, commit_launch(p)
  PROVE  Explained'
  <1> DEFINE m == proc[p].member
             i == proc[p].instance
             old == proc[p].objects[m]
             row == [old EXCEPT !.instance = i, !.activation = i]
             next == [proc[p] EXCEPT !.pc = "pick", !.count = @ - 1,
                         !.member = None, !.instance = None,
                         !.objects[m] = NoRow]
  <1>1. Types /\ row \in Row /\ proc[p].pc = "commit" /\ proc[p].count # 0
    BY InvFacts, CommitLaunchType DEF commit_launch, At, IInv, InHand
  <1>2. m \in Members /\ old \in Row /\ proc[p] \in Process
    BY <1>1, ObjectType, ProcFacts DEF HasMember, Object
  <1>3. Save(m, row) /\ Become(p, next) /\ UNCHANGED <<cloud, faults, commands>>
    BY DEF commit_launch
  <1>4. worker'[m] = row /\ \A k \in Members \ {m} : worker'[k] = worker[k]
    BY <1>1, <1>2, <1>3, SaveType
  <1>5. row.instance = i /\ next.pc = "pick" /\ next.count = proc[p].count - 1
    BY <1>2 DEF Row, Process
  <1>6. worker[m].instance = None /\ None \notin Instances
    BY <1>1, Names DEF Sound, Position
  <1>7. p # Provisioner => proc[p].count = 1
    BY <1>1 DEF Sound, OneMember, HasPool
  <1> HIDE DEF m, i, old, row, next
  <1>8. proc'[p] = next /\ \A q \in Procs \ {p} : proc'[q] = proc[q]
    BY <1>1, <1>3, Moved DEF Types
  <1>9. Leaked' \subseteq Leaked
    <2>1. \A j \in Leaked' : j # i
      BY <1>2, <1>4, <1>5 DEF Leaked
    <2> QED
      BY <1>3, <1>4, <1>6, <1>8, <2>1 DEF Leaked, Alive, i
  <1>10. Provisioner \in Procs
    BY WorkerPoolsAssumption
  <1>11. CASE p = Provisioner
    <2>1. Stale' = {}
      BY <1>5, <1>8, <1>11, NotTerminating DEF Terminating
    <2>2. Charged' \subseteq Charged
      BY <1>8, <1>11 DEF Charged, Charges, At
    <2>3. Debt' \subseteq Debt
      BY <1>9, <2>1, <2>2 DEF Debt
    <2> QED
      BY <1>3, <2>3, EventTypes, DebtLess
  <1>12. CASE p # Provisioner
    <2>1. Stale' \subseteq Stale \cup {m}
      BY <1>4, <1>8, <1>10, <1>12 DEF Stale, Overwrites
    <2>2. ~Charges(p)'
      BY <1>5, <1>7, <1>8, <1>12 DEF Charges, At
    <2>3. Charged' \subseteq Charged \ {p}
      BY <1>8, <2>2 DEF Charged, Charges, At
    <2>4. <<"command", p>> \in Debt
      BY <1>1, <1>12 DEF Debt, Charged, Charges
    <2>5. Debt' \subseteq (Debt \ {<<"command", p>>}) \cup {<<"stale", m>>}
      BY <1>9, <2>1, <2>3 DEF Debt
    <2> QED
      BY <1>3, <2>4, <2>5, DebtMoved
  <1> QED
    BY <1>11, <1>12

-----------------------------------------------------------------------------
(* Steps of no process: none makes an instance, or takes one from a row.   *)
LEMMA WorldDebt ==
  ASSUME IInv, IInv', Explained, UNCHANGED proc,
         \A m \in Members : worker'[m].instance = worker[m].instance,
         Alive' \subseteq Alive, faults + commands <= faults' + commands'
  PROVE  Explained'
  <1>1. Leaked' \subseteq Leaked
    BY LeaksLess
  <1>2. Stale' \subseteq Stale /\ Charged' \subseteq Charged
    BY DEF Stale, Overwrites, Charged, Charges, At
  <1>3. Debt' \subseteq Debt
    BY <1>1, <1>2 DEF Debt
  <1> QED
    BY <1>3, DebtLess

LEMMA RegisterDebt ==
  ASSUME IInv, IInv', Explained, NEW i \in Instances, NEW m \in Members,
         register(i, m)
  PROVE  Explained'
  <1> DEFINE row == [worker[m] EXCEPT !.activation = None, !.token = i]
  <1>1. Types /\ row \in Row /\ row.instance = worker[m].instance
    BY InvFacts, RegisterType DEF Types, Tables, Row
  <1>2. worker'[m] = row /\ \A k \in Members \ {m} : worker'[k] = worker[k]
    BY <1>1, SaveType DEF register
  <1>3. Alive' \subseteq Alive
    BY <1>1 DEF register, Alive, Types, Tables
  <1>4. UNCHANGED proc /\ faults + commands <= faults' + commands'
    BY EventTypes DEF register
  <1> QED
    BY <1>1, <1>2, <1>3, <1>4, WorldDebt

LEMMA ConnectDebt ==
  ASSUME IInv, IInv', Explained, NEW i \in Instances, NEW m \in Members,
         connect(i, m)
  PROVE  Explained'
  <1> DEFINE row == [worker[m] EXCEPT !.connected = TRUE, !.known = TRUE]
  <1>1. Types /\ row \in Row /\ row.instance = worker[m].instance
    BY InvFacts, ConnectType DEF Types, Tables, Row
  <1>2. worker'[m] = row /\ \A k \in Members \ {m} : worker'[k] = worker[k]
    BY <1>1, SaveType DEF connect
  <1>3. Alive' \subseteq Alive /\ UNCHANGED proc
        /\ faults + commands <= faults' + commands'
    BY EventTypes DEF connect, Alive
  <1> QED
    BY <1>1, <1>2, <1>3, WorldDebt

LEMMA DisconnectDebt ==
  ASSUME IInv, IInv', Explained, NEW m \in Members, disconnect(m)
  PROVE  Explained'
  <1> DEFINE row == [worker[m] EXCEPT !.connected = FALSE]
  <1>1. Types /\ row \in Row /\ row.instance = worker[m].instance
    BY InvFacts, DisconnectType DEF Types, Tables, Row
  <1>2. worker'[m] = row /\ \A k \in Members \ {m} : worker'[k] = worker[k]
    BY <1>1, SaveType DEF disconnect
  <1>3. Alive' \subseteq Alive /\ UNCHANGED proc
        /\ faults + commands <= faults' + commands'
    BY EventTypes DEF disconnect, Alive
  <1> QED
    BY <1>1, <1>2, <1>3, WorldDebt

LEMMA OthersDebt ==
  ASSUME IInv, IInv', Explained,
         \/ \E i \in Instances, m \in Members : ask(i, m) \/ report(i, m)
         \/ \E i \in Instances : vanish(i)
         \/ \E m \in Members : schedule(m)
         \/ \E r \in Requests : create_work_request(r)
         \/ ten_minutes
         \/ UNCHANGED vars
  PROVE  Explained'
  <1>1. UNCHANGED <<worker, proc, commands>> /\ faults' \in {faults, faults + 1}
    BY DEF ask, report, vanish, schedule, create_work_request, ten_minutes,
           vars, db
  <1>2. UNCHANGED cloud \/ \E i \in Alive :
                              cloud' = [cloud EXCEPT ![i] = "vanished"]
    BY DEF ask, report, vanish, schedule, create_work_request, ten_minutes, vars
  <1>3. cloud \in [Instances -> States]
    BY InvFacts DEF Types, Tables
  <1>4. Alive' \subseteq Alive
    BY <1>2, <1>3 DEF Alive
  <1>5. faults + commands <= faults' + commands'
    BY <1>1, EventTypes
  <1> QED
    BY <1>1, <1>4, <1>5, WorldDebt

(* Initially there is nothing to explain.                                  *)
LEMMA InitExplained == Init => Explained
  <1> SUFFICES ASSUME Init PROVE Explained
    OBVIOUS
  <1>1. Alive = {} /\ \A p \in Procs : proc[p].pc = "idle"
    BY DEF Init, Alive, Idle
  <1>2. Leaked = {} /\ Charged = {}
    BY <1>1 DEF Leaked, Charged, Charges, At
  <1>3. Stale = {}
    BY DEF Init, Stale, Overwrites, NoRow
  <1>4. Debt = {}
    BY <1>2, <1>3 DEF Debt
  <1>5. faults + commands = 0
    BY DEF Init
  <1> QED
    BY <1>4, <1>5, FS_EmptySet DEF Explained

(* Every step that adds a leak, or an object that is stale, has a reason.  *)
LEMMA NextExplained ==
  ASSUME IInv, IInv', Sound, Explained, [Next]_vars
  PROVE  Explained'
  <1>1. ASSUME NEW p \in Procs, Step(p)
        PROVE  Explained'
    BY <1>1, TerminateWorkerDebt, TerminateInstanceDebt, SaveTerminatedDebt,
       RetryRunningDebt, AllocateDebt, CreatePoolMembersDebt, PickDebt,
       CreateInstanceDebt, CommitLaunchDebt, TokenDeletedDebt DEF Step
  <1>2. ASSUME NEW p \in Procs,
               \/ provision(p) \/ handle_launch(p) \/ handle_terminate(p)
               \/ fails(p)
        PROVE  Explained'
    BY <1>2, ProvisionDebt, HandleDebt, FailsDebt
  <1>3. ASSUME NEW i \in Instances, NEW m \in Members, Life(i, m)
        PROVE  Explained'
    BY <1>3, RegisterDebt, ConnectDebt, OthersDebt DEF Life
  <1> QED
    BY <1>1, <1>2, <1>3, DisconnectDebt, OthersDebt DEF Next

(* The leaks are part of what is explained.                                *)
LEMMA ExplainedLeaks ==
  ASSUME IInv, Explained
  PROVE  LeaksExplained
  <1> DEFINE tagged == {"leak"} \X Leaked
             tag == [i \in Leaked |-> <<"leak", i>>]
  <1>1. Leaked \in SUBSET Instances /\ IsFiniteSet(Leaked)
    BY Names, FS_Subset DEF Leaked, Alive
  <1>2. ExistsBijection(Leaked, tagged)
    <2>1. /\ tag \in [Leaked -> tagged]
          /\ \A i, j \in Leaked : tag[i] = tag[j] => i = j
          /\ \A x \in tagged : \E i \in Leaked : tag[i] = x
      OBVIOUS
    <2> HIDE DEF tag, tagged
    <2> QED
      BY <2>1 DEF ExistsBijection, Bijection, Injection, IsInjective, Surjection
  <1>3. IsFiniteSet(tagged) /\ Cardinality(tagged) = Cardinality(Leaked)
    <2> HIDE DEF tagged
    <2> QED
      BY <1>1, <1>2, FS_Bijection
  <1>4. Cardinality(tagged) <= Cardinality(Debt)
    BY FS_Subset DEF Explained, Debt
  <1>5. /\ Cardinality(Debt) \in Nat /\ Cardinality(Leaked) \in Nat
        /\ faults \in Nat /\ commands \in Nat
    BY <1>1, FS_CardinalityType, EventTypes DEF Explained
  <1>6. Cardinality(Debt) <= faults + commands
    BY DEF Explained
  <1> HIDE DEF tagged
  <1>7. Cardinality(Leaked) <= faults + commands
    BY <1>3, <1>4, <1>5, <1>6
  <1> QED
    BY <1>7 DEF LeaksExplained

-----------------------------------------------------------------------------
(* Requests that nobody will finish.                                       *)

(* What a member runs is reported by its instance, or aborted by a         *)
(* termination under way: one that has disabled, or may disable, a token   *)
(* that was valid.                                                         *)
Aborting(p, m) ==
    /\ proc[p].member = m
    /\ \/ At(p, "retry")
       \/ proc[p].pc \in {"api", "save"} /\ Object(p).activation = None
Attended(m) == \/ \E i \in Alive : Authenticated(i, m)
               \/ \E p \in Procs : Aborting(p, m)

Running == {r \in Requests : request[r].status = "running"}
Unattended == {r \in Running : ~Attended(request[r].worker)}

(* A member runs one request, and a fault leaves one unattended.           *)
OneEach ==
    /\ \A r \in Running : request[r].worker \in Members
    /\ \A r, s \in Running : request[r].worker = request[s].worker => r = s
AttendedTo == OneEach /\ Cardinality(Unattended) <= faults

-----------------------------------------------------------------------------
(* Nothing begins to run.                                                  *)
NoneStarts == \A r \in Running' : r \in Running /\ request'[r] = request[r]

(* Where nothing starts, a member runs no more than before.                *)
LEMMA OneEachStays ==
  ASSUME OneEach, NoneStarts
  PROVE  OneEach'
  BY DEF OneEach, NoneStarts

(* Sets of requests have a cardinality.                                    *)
LEMMA RequestCounts ==
  ASSUME NEW big \in SUBSET Requests, NEW small \in SUBSET big
  PROVE  /\ IsFiniteSet(big) /\ Cardinality(big) \in Nat
         /\ Cardinality(small) \in Nat
         /\ Cardinality(small) <= Cardinality(big)
  <1>1. IsFiniteSet(big)
    BY Names, FS_Subset
  <1> QED
    BY <1>1, FS_Subset, FS_CardinalityType

(* Who attended to the requests still does.                                *)
LEMMA StillAttended ==
  ASSUME IInv, IInv', AttendedTo, OneEach', faults <= faults',
         Unattended' \subseteq Unattended
  PROVE  AttendedTo'
  <1>1. /\ Unattended \in SUBSET Requests
        /\ faults \in Nat /\ faults' \in Nat
    BY WorkerPoolsAssumption DEF Unattended, Running, IInv, TypeOK
  <1>2. /\ Cardinality(Unattended') <= Cardinality(Unattended)
        /\ Cardinality(Unattended') \in Nat /\ Cardinality(Unattended) \in Nat
    BY <1>1, RequestCounts
  <1>3. Cardinality(Unattended) <= faults
    BY DEF AttendedTo
  <1>4. Cardinality(Unattended') <= faults'
    BY <1>1, <1>2, <1>3
  <1> QED
    BY <1>4 DEF AttendedTo

(* Fewer requests that run, and nobody who no longer attends to one.       *)
LEMMA Attends ==
  ASSUME IInv, IInv', AttendedTo, NoneStarts, faults <= faults',
         \A m \in Members : Attended(m) =>
            \/ Attended(m)'
            \/ \A r \in Running' : request'[r].worker # m
  PROVE  AttendedTo'
  <1>1. OneEach'
    BY OneEachStays DEF AttendedTo
  <1>2. ASSUME NEW r \in Unattended'
        PROVE  r \in Unattended
    <2>1. r \in Running' /\ ~Attended(request[r].worker)'
      BY DEF Unattended
    <2>2. r \in Running /\ request'[r] = request[r]
      BY <2>1 DEF NoneStarts
    <2>3. request[r].worker \in Members
      BY <2>2 DEF AttendedTo, OneEach
    <2>4. Attended(request[r].worker) => Attended(request[r].worker)'
      <3> DEFINE m == request[r].worker
      <3>1. request'[r].worker = m
        BY <2>2
      <3> QED
        BY <2>1, <2>3, <3>1 DEF Attended, Authenticated, Aborting
    <2> QED
      BY <2>1, <2>2, <2>4 DEF Unattended
  <1>3. Unattended' \subseteq Unattended
    BY <1>2
  <1> QED
    BY <1>1, <1>3, StillAttended

(* Members that are no longer attended to after a step.                    *)
Left == {m \in Members : Attended(m) /\ ~Attended(m)'}

(* A fault, after which at most one member is no longer attended to.       *)
LEMMA FaultAttends ==
  ASSUME IInv, IInv', AttendedTo, UNCHANGED request, faults' = faults + 1,
         \A m, k \in Left : m = k
  PROVE  AttendedTo'
  <1> DEFINE hit == Unattended' \ Unattended
  <1>1. OneEach /\ OneEach' /\ UNCHANGED Running
    BY DEF AttendedTo, OneEach, Running
  <1>2. \A r \in Running : /\ request[r].worker \in Members
                           /\ request'[r].worker = request[r].worker
    BY <1>1 DEF OneEach
  <1>3. ASSUME NEW r \in hit
        PROVE  /\ r \in Running /\ Attended(request[r].worker)
               /\ ~Attended(request[r].worker)'
    BY <1>1 DEF Unattended
  <1>4. ASSUME NEW r \in hit, NEW s \in hit
        PROVE  r = s
    <2> DEFINE m == request[r].worker
               k == request[s].worker
    <2>1. r \in Running /\ s \in Running /\ m \in Members /\ k \in Members
      BY <1>2, <1>3, <1>4
    <2>2. Attended(m) /\ Attended(k)
      BY <1>3, <1>4
    <2>3. ~Attended(m)' /\ ~Attended(k)'
      BY <1>3, <1>4
    <2>4. m = k
      <3>1. PICK a \in Members : a = m
        BY <2>1
      <3>2. PICK b \in Members : b = k
        BY <2>1
      <3>3. Attended(a) /\ Attended(b)
        BY <2>2, <3>1, <3>2
      <3>4. ~Attended(a)' /\ ~Attended(b)'
        <4>1. a = request'[r].worker /\ b = request'[s].worker
          BY <3>1, <3>2
        <4> QED
          BY <2>3, <4>1 DEF Attended, Authenticated, Aborting
      <3>5. a \in Left /\ b \in Left
        BY <3>3, <3>4 DEF Left
      <3> QED
        BY <3>1, <3>2, <3>5
    <2> QED
      BY <1>1, <2>1, <2>4 DEF OneEach
  <1>5. Cardinality(Unattended') <= Cardinality(Unattended) + 1
    <2>1. /\ Unattended \in SUBSET Requests /\ Unattended' \in SUBSET Requests
      BY <1>1 DEF Unattended, Running
    <2>2. PICK x : hit \subseteq {x}
      BY <1>4
    <2>3. Unattended' \subseteq Unattended \cup {x}
      BY <2>2
    <2>4. IsFiniteSet(Unattended) /\ Cardinality(Unattended) \in Nat
      BY <2>1, RequestCounts
    <2>5. /\ IsFiniteSet(Unattended \cup {x})
          /\ Cardinality(Unattended \cup {x})
               \in {Cardinality(Unattended), Cardinality(Unattended) + 1}
      BY <2>4, FS_AddElement
    <2>6. /\ Cardinality(Unattended') <= Cardinality(Unattended \cup {x})
          /\ Cardinality(Unattended') \in Nat
      BY <2>1, <2>3, <2>5, FS_Subset, RequestCounts
    <2> QED
      BY <2>4, <2>5, <2>6
  <1>6. /\ Cardinality(Unattended) \in Nat /\ Cardinality(Unattended') \in Nat
        /\ faults \in Nat /\ Cardinality(Unattended) <= faults
    BY <1>1, RequestCounts, EventTypes DEF Unattended, Running, AttendedTo
  <1>7. Cardinality(Unattended') <= faults'
    BY <1>5, <1>6
  <1> QED
    BY <1>1, <1>7 DEF AttendedTo

(* Whoever is authenticated, or terminates a worker, goes on with that.    *)
LEMMA Goes ==
  ASSUME NEW m,
         \A i \in Alive : Authenticated(i, m) => i \in Alive' /\ Authenticated(i, m)',
         \A p \in Procs : Aborting(p, m) => Aborting(p, m)',
         Attended(m)
  PROVE  Attended(m)'
  BY DEF Attended

(* A process moves that does not abort anything.                           *)
LEMMA MoveAttends ==
  ASSUME IInv, IInv', AttendedTo, NEW p \in Procs,
         \A q \in Procs \ {p} : proc'[q] = proc[q],
         \A m \in Members : ~Aborting(p, m),
         UNCHANGED <<request, worker, tokens>>, Alive \subseteq Alive',
         UNCHANGED faults
  PROVE  AttendedTo'
  <1>1. NoneStarts
    BY DEF NoneStarts, Running
  <1>2. ASSUME NEW m \in Members, Attended(m)
        PROVE  Attended(m)'
    <2>1. \A i \in Alive : Authenticated(i, m) => i \in Alive' /\ Authenticated(i, m)'
      BY DEF Authenticated
    <2>2. \A q \in Procs : Aborting(q, m) => Aborting(q, m)'
      BY DEF Aborting, At, Object
    <2> QED
      BY <1>2, <2>1, <2>2, Goes
  <1>3. faults <= faults'
    BY EventTypes
  <1> QED
    BY <1>1, <1>2, <1>3, Attends

(* Where a process does not abort anything.                                *)
LEMMA NotAborting ==
  ASSUME NEW p, proc[p].pc \notin {"retry", "api", "save"}
  PROVE  \A m \in Members : ~Aborting(p, m)
  BY DEF Aborting, At

LEMMA OnesMoveAttends ==
  ASSUME IInv, IInv', AttendedTo, NEW p \in Procs,
         \/ provision(p) \/ handle_launch(p) \/ handle_terminate(p)
         \/ process_scope(p) \/ allocate_workers(p) \/ pick(p)
         \/ create_instance(p) \/ token_deleted(p)
  PROVE  AttendedTo'
  <1>1. UNCHANGED <<request, worker, tokens, faults>>
    BY DEF provision, handle_launch, handle_terminate, Command, process_scope,
           allocate_workers, pick, create_instance, token_deleted, db
  <1>2. \E next : Become(p, next)
    BY DEF provision, handle_launch, handle_terminate, process_scope,
           allocate_workers, pick, create_instance, token_deleted
  <1>3. \A q \in Procs \ {p} : proc'[q] = proc[q]
    BY <1>2, InvFacts, Moved DEF Types
  <1>4. Alive \subseteq Alive'
    <2>1. CASE create_instance(p)
      <3> DEFINE unused == First(1, {i \in Instances : cloud[i] = "unused"})
      <3>1. UNCHANGED cloud \/ cloud' = [i \in Instances |->
                       IF i \in unused THEN "booting" ELSE cloud[i]]
        BY <2>1 DEF create_instance
      <3> HIDE DEF unused
      <3> QED
        BY <3>1 DEF Alive
    <2>2. CASE ~create_instance(p)
      BY <2>2 DEF provision, handle_launch, handle_terminate, Command,
           process_scope, allocate_workers, pick, token_deleted, Alive
    <2> QED
      BY <2>1, <2>2
  <1>5. \A m \in Members : ~Aborting(p, m)
    <2>1. CASE token_deleted(p)
      <3>1. Object(p).activation # None
        BY <2>1, Names DEF token_deleted, IInv, NamesUsed, Used
      <3> QED
        BY <2>1, <3>1 DEF token_deleted, Aborting, At
    <2>2. CASE ~token_deleted(p)
      BY <2>2, NotAborting DEF provision, handle_launch, handle_terminate,
           Command, process_scope, allocate_workers, pick, create_instance, At
    <2> QED
      BY <2>1, <2>2
  <1> QED
    BY <1>1, <1>3, <1>4, <1>5, MoveAttends

(* A termination that dies leaves what one member runs.                    *)
LEMMA FailsAttends ==
  ASSUME IInv, IInv', AttendedTo, NEW p \in Procs, fails(p)
  PROVE  AttendedTo'
  <1>1. /\ \A q \in Procs \ {p} : proc'[q] = proc[q]
        /\ UNCHANGED <<request, worker, tokens, cloud>> /\ faults' = faults + 1
    BY InvFacts, Moved DEF fails, Types
  <1>2. ASSUME NEW m \in Members, Attended(m), ~Attended(m)'
        PROVE  m = proc[p].member
    <2>1. \A i \in Alive : Authenticated(i, m) => i \in Alive' /\ Authenticated(i, m)'
      BY <1>1 DEF Authenticated, Alive
    <2>2. \A q \in Procs \ {p} : Aborting(q, m) => Aborting(q, m)'
      BY <1>1 DEF Aborting, At, Object
    <2>3. Aborting(p, m)
      BY <1>2, <2>1, <2>2 DEF Attended
    <2> QED
      BY <2>3 DEF Aborting
  <1>3. \A m, k \in Left : m = k
    BY <1>2 DEF Left
  <1>4. UNCHANGED request /\ faults' = faults + 1
    BY <1>1
  <1> QED
    BY <1>3, <1>4, FaultAttends

(* An instance that vanishes is authenticated as one member.               *)
LEMMA VanishAttends ==
  ASSUME IInv, IInv', Sound, AttendedTo, NEW i \in Instances, vanish(i)
  PROVE  AttendedTo'
  <1>1. /\ UNCHANGED <<request, worker, tokens, proc>> /\ faults' = faults + 1
        /\ cloud' = [cloud EXCEPT ![i] = "vanished"]
    BY DEF vanish, db
  <1>2. cloud \in [Instances -> States]
    BY InvFacts DEF Types, Tables
  <1>3. ASSUME NEW m \in Members, Attended(m), ~Attended(m)'
        PROVE  Owns(m, i)
    <2>1. \A q \in Procs : Aborting(q, m) => Aborting(q, m)'
      BY <1>1 DEF Aborting, At, Object
    <2>2. \A j \in Alive \ {i} : Authenticated(j, m) =>
                                   j \in Alive' /\ Authenticated(j, m)'
      BY <1>1, <1>2 DEF Authenticated, Alive
    <2>3. Authenticated(i, m)
      BY <1>3, <2>1, <2>2 DEF Attended
    <2> QED
      BY <2>3, Names DEF Authenticated, Owns, Named
  <1>4. \A m, k \in Left : m = k
    <2>1. \A m \in Left : m \in Members /\ Owns(m, i)
      BY <1>3 DEF Left
    <2> QED
      BY <2>1 DEF Sound, OneOwner
  <1>5. UNCHANGED request /\ faults' = faults + 1
    BY <1>1
  <1> QED
    BY <1>4, <1>5, FaultAttends

(* A valid token is disabled only with an object that has no activation    *)
(* token: one whose termination will end in retry_running().               *)
LEMMA TerminateWorkerAttends ==
  ASSUME IInv, IInv', Sound, AttendedTo, NEW p \in Procs, terminate_worker(p)
  PROVE  AttendedTo'
  <1> DEFINE k == proc[p].member
             token == Object(p).token
  <1>1. /\ Types /\ proc[p].pc = "terminate" /\ Object(p).activation \notin deleted
        /\ Become(p, [proc[p] EXCEPT !.pc = "api"])
        /\ tokens' = tokens \ {token}
        /\ UNCHANGED <<worker, request, cloud, faults>>
    BY InvFacts DEF terminate_worker, At
  <1>2. /\ proc'[p].pc = "api" /\ proc'[p].member = k /\ Object(p)' = Object(p)
        /\ \A q \in Procs \ {p} : proc'[q] = proc[q]
    BY <1>1, Continues
  <1>3. k \in Members
    BY <1>1, ObjectType DEF HasMember
  <1>4. Object(p).activation # None => token \notin tokens
    BY <1>1, <1>3 DEF Sound, Consistent, Fits, Object
  <1>5. token # None => Owns(k, token)
    BY <1>3 DEF Owns, Named, Object
  <1>6. ASSUME NEW m \in Members, Attended(m)
        PROVE  Attended(m)'
    <2>1. \A q \in Procs : Aborting(q, m) => Aborting(q, m)'
      <3>1. ~Aborting(p, m)
        BY <1>1 DEF Aborting, At
      <3> QED
        BY <1>2, <3>1 DEF Aborting, At, Object
    <2>2. CASE token \in tokens /\ m = k
      BY <1>2, <1>4, <2>2 DEF Attended, Aborting
    <2>3. CASE ~(token \in tokens /\ m = k)
      <3>1. ASSUME NEW i \in Alive, Authenticated(i, m)
            PROVE  i # token
        <4>1. i \in tokens /\ i \in Instances /\ i # None /\ Owns(m, i)
          BY <3>1, Names DEF Authenticated, Owns, Named, Alive
        <4> QED
          BY <1>3, <1>5, <2>3, <4>1 DEF Sound, OneOwner
      <3>2. \A i \in Alive : Authenticated(i, m) =>
                               i \in Alive' /\ Authenticated(i, m)'
        BY <1>1, <3>1 DEF Authenticated, Alive
      <3> QED
        BY <1>6, <2>1, <3>2, Goes
    <2> QED
      BY <2>2, <2>3
  <1>7. NoneStarts /\ faults <= faults'
    BY <1>1, EventTypes DEF NoneStarts, Running
  <1> QED
    BY <1>6, <1>7, Attends

LEMMA TerminateInstanceAttends ==
  ASSUME IInv, IInv', Sound, AttendedTo, NEW p \in Procs, terminate_instance(p)
  PROVE  AttendedTo'
  <1> DEFINE k == proc[p].member
             old == Object(p).instance
  <1>1. /\ Types /\ proc[p].pc = "api"
        /\ Become(p, [proc[p] EXCEPT !.pc = "save"])
        /\ UNCHANGED <<worker, request, tokens, faults>>
        /\ \A i \in Alive \ {old} : i \in Alive'
    BY InvFacts DEF terminate_instance, At, db, Alive
  <1>2. /\ proc'[p].pc = "save" /\ proc'[p].member = k /\ Object(p)' = Object(p)
        /\ \A q \in Procs \ {p} : proc'[q] = proc[q]
    BY <1>1, Continues
  <1>3. k \in Members
    BY <1>1, ObjectType DEF HasMember
  <1>4. Object(p).activation # None => old \notin tokens
    <2>1. Object(p).activation # None => old \in {None, Object(p).activation}
      BY <1>3 DEF Sound, Consistent, Fits, Object
    <2>2. Object(p).activation \notin tokens /\ None \notin tokens
      BY <1>1, Names DEF Sound, Position, Types, Tables
    <2> QED
      BY <2>1, <2>2
  <1>5. old # None => Owns(k, old)
    BY <1>3 DEF Owns, Named, Object
  <1>6. ASSUME NEW m \in Members, Attended(m)
        PROVE  Attended(m)'
    <2>1. \A q \in Procs : Aborting(q, m) => Aborting(q, m)'
      BY <1>1, <1>2 DEF Aborting, At, Object
    <2>2. CASE old \in tokens /\ m = k
      BY <1>2, <1>4, <2>2 DEF Attended, Aborting
    <2>3. CASE ~(old \in tokens /\ m = k)
      <3>1. ASSUME NEW i \in Alive, Authenticated(i, m)
            PROVE  i # old
        <4>1. i \in tokens /\ i \in Instances /\ i # None /\ Owns(m, i)
          BY <3>1, Names DEF Authenticated, Owns, Named, Alive
        <4> QED
          BY <1>3, <1>5, <2>3, <4>1 DEF Sound, OneOwner
      <3>2. \A i \in Alive : Authenticated(i, m) =>
                               i \in Alive' /\ Authenticated(i, m)'
        BY <1>1, <3>1 DEF Authenticated
      <3> QED
        BY <1>6, <2>1, <3>2, Goes
    <2> QED
      BY <2>2, <2>3
  <1>7. NoneStarts /\ faults <= faults'
    BY <1>1, EventTypes DEF NoneStarts, Running
  <1> QED
    BY <1>6, <1>7, Attends

(* A pass of the scheduler assigns, and starts nothing.                    *)
LEMMA ScheduleStarts ==
  ASSUME Types, NEW m \in Members, NEW row, schedule_for_worker(m, row)
  PROVE  NoneStarts
  <1>1. request \in [Requests -> Request]
    BY DEF Types, Tables
  <1>2. \A r \in Waiting : r \in Requests /\ request[r].status = "pending"
    BY DEF Waiting
  <1>3. ASSUME NEW r \in Waiting, request' = [request EXCEPT ![r].worker = m]
        PROVE  NoneStarts
    BY <1>1, <1>2, <1>3 DEF NoneStarts, Running, Request
  <1>4. CASE UNCHANGED request
    BY <1>4 DEF NoneStarts, Running
  <1> QED
    BY <1>3, <1>4 DEF schedule_for_worker

(* The process that saved a worker aborts what it ran.                     *)
LEMMA SaveTerminatedAttends ==
  ASSUME IInv, IInv', AttendedTo, NEW p \in Procs, save_terminated(p)
  PROVE  AttendedTo'
  <1> DEFINE k == proc[p].member
             row == [Object(p) EXCEPT !.instance = None]
  <1>1. /\ Types /\ proc[p].pc = "save" /\ Save(k, row)
        /\ Become(p, [proc[p] EXCEPT !.pc = "retry"])
        /\ UNCHANGED <<tokens, cloud, faults>>
    BY InvFacts DEF save_terminated, At
  <1>2. /\ proc'[p].pc = "retry" /\ proc'[p].member = k
        /\ \A q \in Procs \ {p} : proc'[q] = proc[q]
    BY <1>1, Continues
  <1>3. k \in Members /\ row \in Row
    BY <1>1, ObjectType DEF HasMember, Row
  <1>4. \A m \in Members \ {k} : worker'[m] = worker[m]
    BY <1>1, <1>3, SaveType
  <1>5. NoneStarts
    BY <1>1, <1>3, ScheduleStarts DEF Save
  <1> HIDE DEF row
  <1>6. ASSUME NEW m \in Members, Attended(m)
        PROVE  Attended(m)'
    <2>1. CASE m = k
      BY <1>2, <2>1 DEF Attended, Aborting, At
    <2>2. CASE m # k
      <3>1. \A q \in Procs : Aborting(q, m) => Aborting(q, m)'
        BY <1>2, <2>2 DEF Aborting, At, Object
      <3>2. \A i \in Alive : Authenticated(i, m) =>
                               i \in Alive' /\ Authenticated(i, m)'
        BY <1>1, <1>4, <2>2 DEF Authenticated, Alive
      <3> QED
        BY <1>6, <3>1, <3>2, Goes
    <2> QED
      BY <2>1, <2>2
  <1>7. faults <= faults'
    BY <1>1, EventTypes
  <1> QED
    BY <1>5, <1>6, <1>7, Attends

(* What was lost is aborted, and what is retried waits.                    *)
LEMMA RetryRunningAttends ==
  ASSUME IInv, IInv', AttendedTo, NEW p \in Procs, retry_running(p)
  PROVE  AttendedTo'
  <1> DEFINE k == proc[p].member
             lost == With(k, "running")
  <1>1. PICK retried \in Retries(lost) : request' = GiveUp(lost, retried)
    BY DEF retry_running
  <1>2. /\ Types /\ UNCHANGED <<worker, tokens, cloud, faults>>
        /\ \E next : Become(p, next)
    BY InvFacts DEF retry_running
  <1>3. \A q \in Procs \ {p} : proc'[q] = proc[q]
    BY <1>2, Moved DEF Types
  <1>4. ASSUME NEW r \in Running'
        PROVE  r \in Running /\ request'[r] = request[r] /\ r \notin lost
    <2>1. r \in Requests /\ request'[r].status = "running"
      BY DEF Running
    <2>2. request'[r] = IF r \in lost THEN [request[r] EXCEPT !.status = "aborted"]
                        ELSE IF r \in retried THEN [status |-> "pending", worker |-> None]
                        ELSE request[r]
      BY <1>1, <2>1 DEF GiveUp
    <2>3. r \notin lost
      <3>1. request[r] \in Request
        BY <1>2, <2>1 DEF Types, Tables
      <3>2. [request[r] EXCEPT !.status = "aborted"].status = "aborted"
        BY <3>1 DEF Request
      <3> HIDE DEF lost
      <3> QED
        BY <2>1, <2>2, <3>2
    <2>4. r \notin retried
      <3> HIDE DEF lost
      <3> QED
        BY <2>1, <2>2, <2>3
    <2> HIDE DEF lost
    <2> QED
      BY <2>1, <2>2, <2>3, <2>4 DEF Running
  <1>5. NoneStarts
    BY <1>4 DEF NoneStarts
  <1>6. \A r \in Running' : request'[r].worker # k
    BY <1>4 DEF With, Assigned, Running
  <1>7. ASSUME NEW m \in Members, m # k, Attended(m)
        PROVE  Attended(m)'
    <2>1. \A q \in Procs : Aborting(q, m) => Aborting(q, m)'
      BY <1>3, <1>7 DEF Aborting, At, Object
    <2>2. \A i \in Alive : Authenticated(i, m) => i \in Alive' /\ Authenticated(i, m)'
      BY <1>2 DEF Authenticated, Alive
    <2> QED
      BY <1>7, <2>1, <2>2, Goes
  <1>8. faults <= faults'
    BY <1>2, EventTypes
  <1> QED
    BY <1>5, <1>6, <1>7, <1>8, Attends

(* Nobody is authenticated as a member whose row has no instance.          *)
LEMMA Nobody ==
  ASSUME IInv, NEW m \in Members, worker[m].instance = None
  PROVE  \A i \in Alive : ~Authenticated(i, m)
  BY Names DEF IInv, CredentialsCurrent, Alive

LEMMA CreatePoolMembersAttends ==
  ASSUME IInv, IInv', Sound, AttendedTo, NEW p \in Procs, create_pool_members(p)
  PROVE  AttendedTo'
  <1>1. /\ Types /\ proc[p].pc = "create"
        /\ Become(p, [proc[p] EXCEPT !.pc = "pick"])
        /\ \A m \in Members : worker'[m] = worker[m] \/ ~worker[m].exists
        /\ UNCHANGED <<request, tokens, cloud, faults>>
    BY InvFacts DEF create_pool_members, At, First, Unused
  <1>2. \A q \in Procs \ {p} : proc'[q] = proc[q]
    BY <1>1, Continues
  <1>3. ASSUME NEW m \in Members, Attended(m)
        PROVE  Attended(m)'
    <2>1. \A q \in Procs : Aborting(q, m) => Aborting(q, m)'
      BY <1>1, <1>2 DEF Aborting, At, Object
    <2>2. worker'[m] = worker[m] \/ worker[m].instance = None
      BY <1>1 DEF Sound
    <2>3. \A i \in Alive : Authenticated(i, m) => i \in Alive' /\ Authenticated(i, m)'
      BY <1>1, <2>2, Nobody DEF Authenticated, Alive
    <2> QED
      BY <1>3, <2>1, <2>3, Goes
  <1>4. NoneStarts /\ faults <= faults'
    BY <1>1, EventTypes DEF NoneStarts, Running
  <1> QED
    BY <1>3, <1>4, Attends

(* The token that is disabled is of the member, which has no instance.     *)
LEMMA CommitLaunchAttends ==
  ASSUME IInv, IInv', Sound, AttendedTo, NEW p \in Procs, commit_launch(p)
  PROVE  AttendedTo'
  <1> DEFINE k == proc[p].member
             i == proc[p].instance
             old == proc[p].objects[k]
             row == [old EXCEPT !.instance = i, !.activation = i]
             next == [proc[p] EXCEPT !.pc = "pick", !.count = @ - 1,
                         !.member = None, !.instance = None,
                         !.objects[k] = NoRow]
  <1>1. Types /\ row \in Row /\ proc[p].pc = "commit" /\ k \in Members
    BY InvFacts, CommitLaunchType, ObjectType DEF commit_launch, At, HasMember
  <1>2. /\ Save(k, row) /\ Become(p, next) /\ tokens' = tokens \ {old.token}
        /\ UNCHANGED <<cloud, faults>>
    BY DEF commit_launch
  <1>3. \A m \in Members \ {k} : worker'[m] = worker[m]
    BY <1>1, <1>2, SaveType
  <1>4. worker[k].instance = None
    BY <1>1 DEF Sound, Position
  <1>5. old.token # None => Owns(k, old.token)
    BY <1>1 DEF Owns, Named
  <1>6. NoneStarts
    BY <1>1, <1>2, ScheduleStarts DEF Save
  <1>7. \A m \in Members : ~Aborting(p, m)
    BY <1>1, NotAborting
  <1> HIDE DEF k, i, old, row, next
  <1>8. \A q \in Procs \ {p} : proc'[q] = proc[q]
    BY <1>1, <1>2, Moved DEF Types
  <1>9. ASSUME NEW m \in Members, Attended(m)
        PROVE  Attended(m)'
    <2>1. \A q \in Procs : Aborting(q, m) => Aborting(q, m)'
      BY <1>7, <1>8 DEF Aborting, At, Object
    <2>2. \A j \in Alive : Authenticated(j, m) => m # k
      BY <1>4, Nobody
    <2>3. ASSUME NEW j \in Alive, Authenticated(j, m)
          PROVE  j # old.token
      <3>1. j \in Instances /\ j # None /\ Owns(m, j)
        BY <2>3, Names DEF Authenticated, Owns, Named, Alive
      <3> QED
        BY <1>1, <1>5, <2>2, <2>3, <3>1 DEF Sound, OneOwner
    <2>4. \A j \in Alive : Authenticated(j, m) => j \in Alive' /\ Authenticated(j, m)'
      BY <1>2, <1>3, <2>2, <2>3 DEF Authenticated, Alive
    <2> QED
      BY <1>9, <2>1, <2>4, Goes
  <1>10. faults <= faults'
    BY <1>2, EventTypes
  <1> QED
    BY <1>6, <1>9, <1>10, Attends

-----------------------------------------------------------------------------
(* Steps of no process.                                                    *)

(* Nobody was authenticated while the activation token was there.          *)
LEMMA RegisterAttends ==
  ASSUME IInv, IInv', Sound, AttendedTo, NEW i \in Instances, NEW k \in Members,
         register(i, k)
  PROVE  AttendedTo'
  <1> DEFINE row == [worker[k] EXCEPT !.activation = None, !.token = i]
  <1>1. Types /\ row \in Row
    BY InvFacts, RegisterType
  <1>2. /\ Save(k, row) /\ tokens' = tokens \cup {i} /\ UNCHANGED <<proc, faults>>
        /\ worker[k].activation = i /\ i \in activations
        /\ cloud' = [cloud EXCEPT ![i] = "ready"]
    BY DEF register
  <1>3. \A m \in Members \ {k} : worker'[m] = worker[m]
    BY <1>1, <1>2, SaveType
  <1>4. NoneStarts
    BY <1>1, <1>2, ScheduleStarts DEF Save
  <1>5. \A j \in Alive : ~Authenticated(j, k)
    <2>1. i \notin deleted \cup {None}
      BY <1>2, Names DEF IInv, TypeOK
    <2> QED
      BY <1>2, <2>1 DEF Sound, Consistent, Fits, Authenticated
  <1>6. Alive \subseteq Alive'
    BY <1>1, <1>2 DEF Alive, Types, Tables
  <1> HIDE DEF row
  <1>7. ASSUME NEW m \in Members, Attended(m)
        PROVE  Attended(m)'
    <2>1. \A q \in Procs : Aborting(q, m) => Aborting(q, m)'
      BY <1>2 DEF Aborting, At, Object
    <2>2. \A j \in Alive : Authenticated(j, m) => j \in Alive' /\ Authenticated(j, m)'
      BY <1>2, <1>3, <1>5, <1>6 DEF Authenticated
    <2> QED
      BY <1>7, <2>1, <2>2, Goes
  <1>8. faults <= faults'
    BY <1>2, EventTypes
  <1> QED
    BY <1>4, <1>7, <1>8, Attends

(* Who is authenticated stays so.                                          *)
LEMMA SameTokensAttends ==
  ASSUME IInv, IInv', AttendedTo, UNCHANGED <<tokens, cloud, proc, faults>>,
         \A m \in Members : worker'[m].token = worker[m].token, NoneStarts
  PROVE  AttendedTo'
  <1>1. ASSUME NEW m \in Members, Attended(m)
        PROVE  Attended(m)'
    <2>1. \A q \in Procs : Aborting(q, m) => Aborting(q, m)'
      BY DEF Aborting, At, Object
    <2>2. \A j \in Alive : Authenticated(j, m) => j \in Alive' /\ Authenticated(j, m)'
      BY DEF Authenticated, Alive
    <2> QED
      BY <1>1, <2>1, <2>2, Goes
  <1>2. faults <= faults'
    BY EventTypes
  <1> QED
    BY <1>1, <1>2, Attends

LEMMA ConnectAttends ==
  ASSUME IInv, IInv', AttendedTo, NEW i \in Instances, NEW m \in Members,
         connect(i, m)
  PROVE  AttendedTo'
  <1> DEFINE row == [worker[m] EXCEPT !.connected = TRUE, !.known = TRUE]
  <1>1. Types /\ row \in Row /\ row.token = worker[m].token
    BY InvFacts, ConnectType DEF Types, Tables, Row
  <1>2. worker'[m] = row /\ \A k \in Members \ {m} : worker'[k] = worker[k]
    BY <1>1, SaveType DEF connect
  <1>3. NoneStarts /\ UNCHANGED <<tokens, cloud, proc, faults>>
    BY <1>1, ScheduleStarts DEF connect, Save
  <1> HIDE DEF row
  <1> QED
    BY <1>1, <1>2, <1>3, SameTokensAttends

LEMMA DisconnectAttends ==
  ASSUME IInv, IInv', AttendedTo, NEW m \in Members, disconnect(m)
  PROVE  AttendedTo'
  <1> DEFINE row == [worker[m] EXCEPT !.connected = FALSE]
  <1>1. Types /\ row \in Row /\ row.token = worker[m].token
    BY InvFacts, DisconnectType DEF Types, Tables, Row
  <1>2. worker'[m] = row /\ \A k \in Members \ {m} : worker'[k] = worker[k]
    BY <1>1, SaveType DEF disconnect
  <1>3. NoneStarts /\ UNCHANGED <<tokens, cloud, proc, faults>>
    BY <1>1, ScheduleStarts DEF disconnect, Save
  <1> HIDE DEF row
  <1> QED
    BY <1>1, <1>2, <1>3, SameTokensAttends

(* What ends, or waits, does not start.                                    *)
LEMMA OthersAttend ==
  ASSUME IInv, IInv', AttendedTo,
         \/ \E i \in Instances, m \in Members : report(i, m)
         \/ \E m \in Members : schedule(m)
         \/ \E r \in Requests : create_work_request(r)
         \/ ten_minutes
         \/ UNCHANGED vars
  PROVE  AttendedTo'
  <1>1. UNCHANGED <<worker, tokens, cloud, proc, faults>>
    BY DEF report, schedule, create_work_request, ten_minutes, vars, db
  <1>2. Types /\ request \in [Requests -> Request]
    BY InvFacts DEF Types, Tables
  <1>3. NoneStarts
    <2>1. ASSUME NEW i \in Instances, NEW m \in Members, report(i, m)
          PROVE  NoneStarts
      <3>1. PICK r \in Requests : request' = [request EXCEPT ![r].status = "completed"]
        BY <2>1 DEF report, With, Assigned
      <3> QED
        BY <1>2, <3>1 DEF NoneStarts, Running, Request
    <2>2. ASSUME NEW m \in Members, schedule(m)
          PROVE  NoneStarts
      BY <1>2, <2>2, ScheduleStarts DEF schedule
    <2>3. ASSUME NEW r \in Requests, create_work_request(r)
          PROVE  NoneStarts
      <3>1. request' = [request EXCEPT ![r].status = "pending"]
        BY <2>3 DEF create_work_request
      <3> QED
        BY <1>2, <3>1 DEF NoneStarts, Running, Request
    <2>4. CASE UNCHANGED request
      BY <2>4 DEF NoneStarts, Running
    <2> QED
      BY <2>1, <2>2, <2>3, <2>4 DEF ten_minutes, vars, db
  <1> QED
    BY <1>1, <1>3, SameTokensAttends

(* A request is started by an instance that is authenticated, which gives  *)
(* up what it was running.                                                 *)
LEMMA AskAttends ==
  ASSUME IInv, IInv', AttendedTo, NEW i \in Instances, NEW k \in Members,
         ask(i, k)
  PROVE  AttendedTo'
  <1> DEFINE lost == With(k, "running")
             given(retried) == GiveUp(lost, retried)
  <1>1. PICK r \in With(k, "pending"), retried \in Retries(lost) :
            request' = [given(retried) EXCEPT ![r].status = "running"]
    BY DEF ask
  <1>2. /\ UNCHANGED <<worker, tokens, cloud, proc, faults>>
        /\ Authenticated(i, k) /\ i \in Alive
    BY DEF ask, Alive
  <1>3. /\ Types /\ r \in Requests /\ request[r] \in Request
        /\ request[r].worker = k /\ request[r].status = "pending"
    BY InvFacts DEF With, Assigned, Types, Tables
  <1>4. r \notin lost /\ r \notin retried
    BY <1>3 DEF With, Retries, First, Absent
  <1>5. given(retried) \in [Requests -> Request] /\ given(retried)[r] = request[r]
    BY <1>3, <1>4, GiveUpType DEF GiveUp
  <1>6. ASSUME NEW s \in Requests, given(retried)[s].status = "running"
        PROVE  s \in Running /\ given(retried)[s] = request[s] /\ request[s].worker # k
    <2>1. given(retried)[s] =
            IF s \in lost THEN [request[s] EXCEPT !.status = "aborted"]
            ELSE IF s \in retried THEN [status |-> "pending", worker |-> None]
            ELSE request[s]
      BY DEF GiveUp
    <2>2. s \notin lost
      <3>1. [request[s] EXCEPT !.status = "aborted"].status = "aborted"
        BY <1>3 DEF Types, Tables, Request
      <3> HIDE DEF lost, given
      <3> QED
        BY <1>6, <2>1, <3>1
    <2>3. s \notin retried
      <3> HIDE DEF lost, given
      <3> QED
        BY <1>6, <2>1, <2>2
    <2>4. given(retried)[s] = request[s]
      <3> HIDE DEF lost, given
      <3> QED
        BY <2>1, <2>2, <2>3
    <2> HIDE DEF given
    <2> QED
      BY <1>6, <2>2, <2>4 DEF Running, With, Assigned
  <1> HIDE DEF lost, given
  <1>7. /\ request'[r].worker = k
        /\ \A s \in Requests \ {r} : request'[s] = given(retried)[s]
    BY <1>1, <1>3, <1>5 DEF Request
  <1>8. ASSUME NEW s \in Running', s # r
        PROVE  s \in Running /\ request'[s] = request[s] /\ request[s].worker # k
    <2>1. s \in Requests /\ given(retried)[s].status = "running"
      BY <1>7, <1>8 DEF Running
    <2> QED
      BY <1>6, <1>7, <1>8, <2>1
  <1>9. OneEach'
    <2>1. OneEach
      BY DEF AttendedTo
    <2> QED
      BY <1>7, <1>8, <2>1 DEF OneEach
  <1>10. ASSUME NEW s \in Unattended'
         PROVE  s \in Unattended
    <2>1. s \in Running' /\ ~Attended(request[s].worker)'
      BY DEF Unattended
    <2>2. s # r
      BY <1>2, <1>7, <2>1 DEF Attended, Authenticated, Alive
    <2>3. s \in Running /\ request'[s] = request[s]
      BY <1>8, <2>1, <2>2
    <2>4. ~Attended(request[s].worker)
      BY <1>2, <2>1, <2>3 DEF Attended, Authenticated, Aborting, Alive, At, Object
    <2> QED
      BY <2>3, <2>4 DEF Unattended
  <1>11. Unattended' \subseteq Unattended /\ faults <= faults'
    BY <1>2, <1>10, EventTypes
  <1> QED
    BY <1>9, <1>11, StillAttended

(* Initially nothing runs.                                                 *)
LEMMA InitAttends == Init => AttendedTo
  <1> SUFFICES ASSUME Init PROVE AttendedTo
    OBVIOUS
  <1>1. Running = {} /\ faults = 0
    BY DEF Init, Running
  <1>2. Unattended = {}
    BY <1>1 DEF Unattended
  <1> QED
    BY <1>1, <1>2, FS_EmptySet DEF AttendedTo, OneEach

(* Every step that leaves a request unattended is a fault.                 *)
LEMMA NextAttends ==
  ASSUME IInv, IInv', Sound, AttendedTo, [Next]_vars
  PROVE  AttendedTo'
  <1>1. ASSUME NEW p \in Procs, Step(p)
        PROVE  AttendedTo'
    BY <1>1, TerminateWorkerAttends, TerminateInstanceAttends,
       SaveTerminatedAttends, RetryRunningAttends, OnesMoveAttends,
       CreatePoolMembersAttends, CommitLaunchAttends DEF Step
  <1>2. ASSUME NEW p \in Procs,
               \/ provision(p) \/ handle_launch(p) \/ handle_terminate(p)
               \/ fails(p)
        PROVE  AttendedTo'
    BY <1>2, OnesMoveAttends, FailsAttends
  <1>3. ASSUME NEW i \in Instances, NEW m \in Members, Life(i, m)
        PROVE  AttendedTo'
    BY <1>3, RegisterAttends, ConnectAttends, AskAttends, OthersAttend DEF Life
  <1> QED
    BY <1>1, <1>2, <1>3, VanishAttends, DisconnectAttends, OthersAttend DEF Next

(* A member that is attended to is served.                                 *)
LEMMA AttendedServed ==
  ASSUME IInv, AttendedTo
  PROVE  RunningServed
  <1> DEFINE unserved == {r \in Requests : request[r].status = "running" /\ ~Served(r)}
  <1>1. unserved \in SUBSET Unattended /\ Unattended \in SUBSET Requests
    BY DEF Unattended, Running, Served, Attended, Aborting, At
  <1>2. /\ Cardinality(unserved) <= Cardinality(Unattended)
        /\ Cardinality(unserved) \in Nat /\ Cardinality(Unattended) \in Nat
    <2> HIDE DEF unserved
    <2> QED
      BY <1>1, RequestCounts
  <1>3. Cardinality(Unattended) <= faults /\ faults \in Nat
    BY EventTypes DEF AttendedTo
  <1> HIDE DEF unserved
  <1>4. Cardinality(unserved) <= faults
    BY <1>2, <1>3
  <1> QED
    BY <1>4 DEF RunningServed, unserved

-----------------------------------------------------------------------------
CInv == IInv /\ Sound /\ Explained /\ AttendedTo

(* All of this is an invariant of the specification.                       *)
LEMMA CountsInvariant == Spec => []CInv
  <1>1. Init => CInv
    BY InitIInv, InitSound, InitExplained, InitAttends DEF CInv
  <1>2. CInv /\ [Next]_vars => CInv'
    <2> SUFFICES ASSUME CInv, [Next]_vars PROVE CInv'
      OBVIOUS
    <2>1. IInv /\ IInv' /\ Sound /\ Explained /\ AttendedTo
      BY NextIInv DEF CInv
    <2> QED
      BY <2>1, NextSoundness, NextExplained, NextAttends DEF CInv
  <1> QED
    BY <1>1, <1>2, PTL DEF Spec

(* For every number of processes, members, instances, faults and commands, *)
(* an instance that nothing leads to any more was being launched by a      *)
(* process that died, or the provisioner overwrote the row of a member     *)
(* that a command had launched or terminated meanwhile: there are no more  *)
(* of them than of those.                                                  *)
THEOREM LeaksKept == Spec => []LeaksExplained
  <1>1. CInv => LeaksExplained
    BY ExplainedLeaks DEF CInv
  <1> QED
    BY <1>1, CountsInvariant, PTL

(* Whatever is terminated, launched again or registered meanwhile, a       *)
(* request that runs is with an instance that can report it, or with a     *)
(* termination that will abort it, but for one of each instance that       *)
(* vanished and each process that died.                                    *)
THEOREM ServedKept == Spec => []RunningServed
  <1>1. CInv => RunningServed
    BY AttendedServed DEF CInv
  <1> QED
    BY <1>1, CountsInvariant, PTL
==============================================================================
