------------------------- MODULE WorkerProtocolProofs -------------------------
(***************************************************************************)
(* The protocol between the server and the workers implements WorkAttempts *)
(* for every number of workers, requests, connections and faults.          *)
(***************************************************************************)
EXTENDS WorkerProtocol, TLAPS

(* The task lock protects the one request that a worker has: nobody asks   *)
(* while a request is executed, and the answer is in one place.            *)
LockProtects ==
    \A w \in Workers :
        /\ proc[w].answer # None => proc[w].pc = "answered"
        /\ proc[w].pc \in {"asking", "answered"}
           => w \in lock /\ task[w].row = None
        /\ task[w].row # None => w \in lock
        /\ task[w].reporting => task[w].row # None

(* A connection that is not closed is of a worker, and a worker that waits *)
(* for messages waits on a connection.                                     *)
Connected ==
    /\ \A c \in Connections :
          conn[c].stage # "closed" => conn[c].worker \in Workers
    /\ \A w \in Workers :
          proc[w].pc \notin {"down", "connecting"} => proc[w].conn \in Connections

(* Every call that is late was given up in a fault.                        *)
LateCounted == \A w \in Workers : late[w] <= faults

IInv == TypeOK /\ LockProtects /\ Connected /\ LateCounted

-----------------------------------------------------------------------------
(* The initial state satisfies the invariant.                              *)
LEMMA InitIInv == Init => IInv
  <1> SUFFICES ASSUME Init PROVE IInv
    OBVIOUS
  <1> USE WorkerProtocolAssumption DEF Init
  <1>1. TypeOK
    <2>1. /\ rows \in [Requests -> Row]
          /\ proc \in [Workers -> Process]
          /\ task \in [Workers -> Task]
          /\ late \in [Workers -> 0..MaxFaults] /\ faults \in 0..MaxFaults
      BY DEF Row, Statuses, Down, PCs, Process, Task
    <2>2. conn \in [Connections -> Connection]
      BY DEF Closed, Connection, Stages, Messages
    <2> QED BY <2>1, <2>2 DEF TypeOK, Down
  <1>2. LockProtects
    BY DEF LockProtects, Down
  <1>3. Connected
    BY DEF Connected, Closed, Down
  <1>4. LateCounted
    BY DEF LateCounted
  <1> QED BY <1>1, <1>2, <1>3, <1>4 DEF IInv

-----------------------------------------------------------------------------
(* Facts on what the actions are made of.                                  *)

(* A message to the group of a worker only adds to what is to be read.     *)
LEMMA GroupSend ==
    ASSUME NEW group \in [Connections -> Connection], NEW w,
           NEW m \in Messages
    PROVE  /\ group_send(group, w, m) \in [Connections -> Connection]
           /\ \A c \in Connections :
                 /\ group_send(group, w, m)[c].stage = group[c].stage
                 /\ group_send(group, w, m)[c].worker = group[c].worker
  <1> SUFFICES ASSUME NEW c \in Connections
               PROVE  /\ group_send(group, w, m)[c] \in Connection
                      /\ group_send(group, w, m)[c].stage = group[c].stage
                      /\ group_send(group, w, m)[c].worker = group[c].worker
    BY DEF group_send
  <1>1. group[c] \in Connection /\ Append(group[c].inbox, m) \in Seq(Messages)
    BY DEF Connection
  <1> QED BY <1>1 DEF group_send, Connection

(* A worker that hangs up changes nothing of its consumer.                 *)
LEMMA HangupTypes ==
    ASSUME TypeOK, NEW w \in Workers
    PROVE  /\ Hangup(w) \in [Connections -> Connection]
           /\ \A c \in Connections : /\ Hangup(w)[c].stage = conn[c].stage
                                     /\ Hangup(w)[c].worker = conn[c].worker
  <1> SUFFICES ASSUME NEW c \in Connections
               PROVE  /\ Hangup(w)[c] \in Connection
                      /\ Hangup(w)[c].stage = conn[c].stage
                      /\ Hangup(w)[c].worker = conn[c].worker
    BY DEF Hangup
  <1>1. conn[c] \in Connection /\ <<>> \in Seq(Messages)
    BY DEF TypeOK
  <1> QED BY <1>1 DEF Hangup, Connection

(* The bound on the faults.                                                *)
LEMMA FaultCounts ==
    ASSUME TypeOK, Fault
    PROVE  faults' \in 0..MaxFaults /\ faults' = faults + 1
  BY WorkerProtocolAssumption DEF TypeOK, Fault

(* A call that outlives its worker is counted by the fault.                *)
LEMMA OutlivesCounted ==
    ASSUME IInv, Fault, NEW w \in Workers, late' = Outlives(w)
    PROVE  /\ late' \in [Workers -> 0..MaxFaults]
           /\ LateCounted'
  <1>1. faults' \in 0..MaxFaults /\ faults' = faults + 1 /\ faults \in Nat
    BY FaultCounts, WorkerProtocolAssumption DEF IInv, TypeOK
  <1>2. \A v \in Workers : /\ late[v] \in Nat /\ late[v] <= faults
                           /\ late'[v] \in {late[v], late[v] + 1}
    BY WorkerProtocolAssumption DEF IInv, TypeOK, LateCounted, Outlives
  <1>3. \A v \in Workers : late'[v] \in 0..MaxFaults /\ late'[v] <= faults'
    BY <1>1, <1>2, WorkerProtocolAssumption
  <1> QED BY <1>3 DEF LateCounted, Outlives, IInv, TypeOK

(* The types of the table are kept by a call for work and by a report.     *)
LEMMA GetNextTypes ==
    ASSUME TypeOK, NEW w \in Workers, NEW given, get_next_for_worker(w, given)
    PROVE  rows' \in [Requests -> Row]
  <1>1. \A i \in Requests : rows[i] \in Row
    BY DEF TypeOK
  <1>2. ASSUME NEW i \in Requests, NEW s \in {"aborted", "running"}
        PROVE  [rows[i] EXCEPT !.status = s] \in Row
    BY <1>1 DEF Row, Statuses
  <1>3. [status |-> "pending", worker |-> None] \in Row
    BY DEF Row, Statuses
  <1> DEFINE moved(i) == {rows[i], [rows[i] EXCEPT !.status = "aborted"],
                          [rows[i] EXCEPT !.status = "running"],
                          [status |-> "pending", worker |-> None]}
  <1>4. PICK next : rows' = [i \in Requests |-> next[i]]
    BY DEF get_next_for_worker
  <1>5. ASSUME NEW i \in Requests PROVE next[i] \in moved(i)
    BY <1>4 DEF get_next_for_worker
  <1>6. ASSUME NEW i \in Requests PROVE moved(i) \subseteq Row
    BY <1>1, <1>2, <1>3
  <1> HIDE DEF moved
  <1>7. \A i \in Requests : next[i] \in Row
    BY <1>5, <1>6
  <1> QED
    BY <1>4, <1>7

(* mark_completed() keeps the types.                                       *)
LEMMA CompletedTypes ==
    ASSUME TypeOK, NEW i, mark_completed(i)
    PROVE  rows' \in [Requests -> Row]
  <1>1. rows \in [Requests -> Row]
    BY DEF TypeOK
  <1>2. ASSUME NEW j \in Requests
        PROVE  [rows[j] EXCEPT !.status = "completed"] \in Row
    BY <1>1 DEF Row, Statuses
  <1>3. \/ rows' = rows
        \/ rows' = [rows EXCEPT ![i] = [rows[i] EXCEPT !.status = "completed"]]
    BY DEF mark_completed
  <1> QED
    BY <1>1, <1>2, <1>3

(* A step that leaves the processes alone and does not change whose a      *)
(* connection is has to keep the types of the rest.                        *)
LEMMA ServerStep ==
    ASSUME IInv, UNCHANGED client, Fault \/ UNCHANGED faults,
           rows' \in [Requests -> Row],
           assigning' \in [Workers -> Requests \cup {None}],
           enabled' \subseteq Workers, connected' \subseteq Workers,
           conn' \in [Connections -> Connection],
           \A c \in Connections : \/ conn'[c].stage = "closed"
                                 \/ /\ conn'[c].worker = conn[c].worker
                                    /\ conn[c].stage # "closed"
    PROVE  IInv'
  <1>1. faults' \in 0..MaxFaults /\ faults <= faults'
    BY FaultCounts, WorkerProtocolAssumption DEF IInv, TypeOK
  <1>2. LateCounted'
    <2> SUFFICES ASSUME NEW w \in Workers PROVE late'[w] <= faults'
      BY DEF LateCounted
    <2> QED BY <1>1, WorkerProtocolAssumption
            DEF IInv, TypeOK, LateCounted, client
  <1>3. TypeOK'
    BY <1>1 DEF IInv, TypeOK, client
  <1>4. LockProtects' /\ Connected'
    BY DEF IInv, LockProtects, Connected, client
  <1> QED BY <1>2, <1>3, <1>4 DEF IInv

(* What a step of the process of w keeps: w has one request at most, under *)
(* its lock.                                                               *)
OwnState(w) ==
    /\ proc'[w].pc \notin {"down", "connecting"}
       => proc'[w].conn \in Connections
    /\ proc'[w].answer # None => proc'[w].pc = "answered"
    /\ proc'[w].pc \in {"asking", "answered"}
       => w \in lock' /\ task'[w].row = None
    /\ task'[w].row # None => w \in lock'
    /\ task'[w].reporting => task'[w].row # None

OthersUnchanged(w) ==
    \A v \in Workers \ {w} : /\ proc'[v] = proc[v] /\ task'[v] = task[v]
                             /\ v \in lock' <=> v \in lock

(* A step of a worker's process that leaves the other workers alone.       *)
LEMMA ClientStep ==
    ASSUME IInv, NEW w \in Workers,
           Fault \/ UNCHANGED faults,
           UNCHANGED <<assigning, enabled, connected>>,
           rows' \in [Requests -> Row],
           conn' \in [Connections -> Connection],
           \A c \in Connections : conn'[c].stage # "closed"
                                  => conn'[c].worker \in Workers,
           proc' \in [Workers -> Process], task' \in [Workers -> Task],
           lock' \subseteq Workers,
           late' \in [Workers -> 0..MaxFaults], LateCounted',
           OthersUnchanged(w), OwnState(w)
    PROVE  IInv'
  <1>1. faults' \in 0..MaxFaults
    BY FaultCounts DEF IInv, TypeOK
  <1>2. LockProtects'
    BY DEF IInv, LockProtects, OwnState, OthersUnchanged
  <1>3. Connected'
    BY DEF IInv, Connected, OwnState, OthersUnchanged
  <1>4. TypeOK'
    <2>1. \A v \in Workers :
            task'[v].row # None \/ proc'[v].pc \in {"asking", "answered"}
            => v \in lock'
      BY <1>2 DEF LockProtects
    <2> QED BY <1>1, <2>1 DEF IInv, TypeOK
  <1> QED BY <1>2, <1>3, <1>4 DEF IInv

-----------------------------------------------------------------------------
(* A pass keeps the types, and the connections as they are in group.       *)
LEMMA PassTypes ==
    ASSUME IInv, NEW w \in Workers, NEW group \in [Connections -> Connection],
           schedule_for_worker(w, group)
    PROVE  /\ assigning' \in [Workers -> Requests \cup {None}]
           /\ conn' \in [Connections -> Connection]
           /\ \A c \in Connections : /\ conn'[c].stage = group[c].stage
                                     /\ conn'[c].worker = group[c].worker
  <1>1. "work_request_available" \in Messages
    BY DEF Messages
  <1>2. assigning' \in [Workers -> Requests \cup {None}]
    BY DEF IInv, TypeOK, schedule_for_worker, Unassigned
  <1>3. conn' \in {group, group_send(group, w, "work_request_available")}
    BY DEF schedule_for_worker
  <1> QED BY <1>1, <1>2, <1>3, GroupSend

(* The steps of the consumer of a connection keep the invariant.           *)
LEMMA ConsumerIInv ==
    ASSUME IInv, NEW c \in Connections, Consumer(c) \/ connection_lost(c)
    PROVE  IInv'
  <1> USE DEF IInv, TypeOK
  <1>0. conn[c] \in Connection /\ <<>> \in Seq(Messages)
        /\ <<"connection_closed">> \in Seq(Messages)
    BY DEF Messages
  <1>w. conn[c].stage # "closed" => conn[c].worker \in Workers
    BY DEF Connected
  <1>1. CASE check_permission(c)
    <2>1. conn' \in [Connections -> Connection]
      BY <1>1, <1>0 DEF check_permission, Connection, Stages
    <2> QED BY <1>1, <2>1, ServerStep DEF check_permission, server
  <1>2. CASE group_add(c)
    <2>1. conn' \in [Connections -> Connection]
      BY <1>2, <1>0 DEF group_add, Stage, Connection, Stages
    <2> QED BY <1>2, <2>1, ServerStep DEF group_add, Stage, server
  <1>3. CASE mark_connected(c)
    <2>1. conn' \in [Connections -> Connection]
      BY <1>3, <1>0 DEF mark_connected, Stage, Connection, Stages
    <2>2. connected' \subseteq Workers
      BY <1>3, <1>w DEF mark_connected, Stage
    <2> QED BY <1>3, <2>1, <2>2, ServerStep DEF mark_connected, Stage
  <1>4. CASE worker_changed(c)
    <2> DEFINE w == conn[c].worker
               pass == ~is_busy(w) /\ assigning[w] = None /\ Unassigned # {}
               next == CASE conn[c].stage = "leaving" -> "closed"
                         [] pass -> "scheduling"
                         [] OTHER -> "checking"
               group == [conn EXCEPT ![c].stage = next]
    <2>1. w \in Workers
      BY <1>4, <1>w DEF worker_changed
    <2>2. next \in Stages
      BY DEF Stages
    <2>3. group \in [Connections -> Connection]
      BY <1>0, <2>2 DEF Connection
    <2>4. \A d \in Connections :
            /\ group[d].worker = conn[d].worker
            /\ group[d].stage = "closed" \/ conn[d].stage # "closed"
               \/ group[d].stage = conn[d].stage
      BY <1>4 DEF worker_changed
    <2>5. schedule_for_worker(w, group)
      BY <1>4 DEF worker_changed
    <2> HIDE DEF w, pass, next, group
    <2>6. /\ assigning' \in [Workers -> Requests \cup {None}]
          /\ conn' \in [Connections -> Connection]
          /\ \A d \in Connections : /\ conn'[d].stage = group[d].stage
                                    /\ conn'[d].worker = group[d].worker
      BY <2>1, <2>3, <2>5, PassTypes
    <2> QED BY <1>4, <2>4, <2>6, ServerStep DEF worker_changed
  <1>5. CASE check_busy(c)
    <2>1. <<"work_request_available">> \o conn[c].inbox \in Seq(Messages)
      BY <1>0 DEF Connection, Messages
    <2>2. conn' \in [Connections -> Connection]
      BY <1>5, <1>0, <2>1 DEF check_busy, Connection, Stages
    <2> QED BY <1>5, <2>2, ServerStep DEF check_busy, server
  <1>6. CASE disconnect(c)
    <2>1. conn' \in [Connections -> Connection]
      BY <1>6, <1>0 DEF disconnect, Stage, Connection, Stages
    <2> QED BY <1>6, <2>1, ServerStep DEF disconnect, Stage
  <1>7. CASE connection_lost(c)
    <2>1. conn' \in [Connections -> Connection]
      BY <1>7, <1>0 DEF connection_lost, Connection
    <2> QED BY <1>7, <2>1, ServerStep DEF connection_lost, server
  <1> QED BY <1>1, <1>2, <1>3, <1>4, <1>5, <1>6, <1>7 DEF Consumer

(* So do the passes, users, administrators and a restart of the server.    *)
LEMMA ServerIInv ==
    ASSUME IInv,
           \/ \E w \in Workers : schedule(w) \/ commit(w) \/ rollback(w)
                                \/ disable(w) \/ enable(w)
           \/ \E i \in Requests : create_work_request(i) \/ abort(i)
           \/ server_restart
    PROVE  IInv'
  <1> USE DEF IInv, TypeOK
  <1>0. \A c \in Connections : conn[c] \in Connection
    OBVIOUS
  <1>1. ASSUME NEW w \in Workers, schedule(w) PROVE IInv'
    <2>1. /\ assigning' \in [Workers -> Requests \cup {None}]
          /\ conn' \in [Connections -> Connection]
          /\ \A c \in Connections : /\ conn'[c].stage = conn[c].stage
                                    /\ conn'[c].worker = conn[c].worker
      BY <1>1, PassTypes DEF schedule
    <2> QED BY <1>1, <2>1, ServerStep DEF schedule
  <1>2. ASSUME NEW w \in Workers, commit(w) PROVE IInv'
    <2>1. rows' \in [Requests -> Row]
      BY <1>2 DEF commit, Row
    <2>2. conn' \in [Connections -> Connection]
      <3>1. ASSUME NEW c \in Connections,
                   NEW st \in {"checking", conn[c].stage}
            PROVE  [conn[c] EXCEPT !.stage = st] \in Connection
        BY <1>0, <3>1 DEF Connection, Stages
      <3>2. conn' = [c \in Connections |-> [conn[c] EXCEPT !.stage =
                        IF RunsPass(c, w) THEN "checking" ELSE conn[c].stage]]
        BY <1>2 DEF commit
      <3> QED BY <3>1, <3>2
    <2>3. assigning' \in [Workers -> Requests \cup {None}]
      BY <1>2 DEF commit
    <2>4. \A c \in Connections :
            /\ conn'[c].worker = conn[c].worker
            /\ conn[c].stage = "closed" => conn'[c].stage = "closed"
      BY <1>2, <1>0 DEF commit, RunsPass, Connection
    <2> QED BY <1>2, <2>1, <2>2, <2>3, <2>4, ServerStep DEF commit
  <1>3. ASSUME NEW w \in Workers, rollback(w) PROVE IInv'
    <2>1. assigning' \in [Workers -> Requests \cup {None}]
      BY <1>3 DEF rollback
    <2>2. rows' \in [Requests -> Row] /\ conn' = conn
      BY <1>3 DEF rollback
    <2> QED BY <1>3, <2>1, <2>2, ServerStep DEF rollback, Connected
  <1>4. ASSUME NEW w \in Workers, disable(w) PROVE IInv'
    <2>1. rows' \in [Requests -> Row]
      BY <1>4 DEF disable, Row, Statuses
    <2>2. /\ conn' \in [Connections -> Connection]
          /\ \A c \in Connections : /\ conn'[c].stage = conn[c].stage
                                    /\ conn'[c].worker = conn[c].worker
      BY <1>4, GroupSend DEF disable, Messages
    <2> QED BY <1>4, <2>1, <2>2, ServerStep DEF disable
  <1>5. ASSUME NEW w \in Workers, enable(w) PROVE IInv'
    BY <1>5, ServerStep DEF enable
  <1>6. ASSUME NEW i \in Requests, create_work_request(i) PROVE IInv'
    <2>1. rows' \in [Requests -> Row]
      BY <1>6 DEF create_work_request, Row, Statuses
    <2> QED BY <1>6, <2>1, ServerStep DEF create_work_request
  <1>7. ASSUME NEW i \in Requests, abort(i) PROVE IInv'
    <2>1. rows' \in [Requests -> Row]
      BY <1>7 DEF abort, Row, Statuses
    <2> QED BY <1>7, <2>1, ServerStep DEF abort
  <1>8. ASSUME server_restart PROVE IInv'
    <2>1. conn' \in [Connections -> Connection]
      <3> SUFFICES ASSUME NEW c \in Connections PROVE conn'[c] \in Connection
        BY <1>8 DEF server_restart
      <3>1. conn[c] \in Connection /\ <<>> \in Seq(Messages)
        OBVIOUS
      <3> QED BY <1>8, <3>1 DEF server_restart, Connection, Stages
    <2>2. assigning' \in [Workers -> Requests \cup {None}]
      BY <1>8 DEF server_restart
    <2>3. \A c \in Connections : conn'[c].stage = "closed"
      BY <1>8, <1>0 DEF server_restart, Connection
    <2> QED BY <1>8, <2>1, <2>2, <2>3, ServerStep DEF server_restart
  <1> QED BY <1>1, <1>2, <1>3, <1>4, <1>5, <1>6, <1>7, <1>8

(* Every step of the main coroutine of a worker keeps the invariant.       *)
LEMMA MainIInv ==
    ASSUME IInv, NEW w \in Workers, Main(w)
    PROVE  IInv'
  <1> USE DEF IInv, TypeOK
  <1>0. proc[w] \in Process /\ task[w] \in Task
    OBVIOUS
  <1>L. ASSUME UNCHANGED <<late, faults>>
        PROVE  late' \in [Workers -> 0..MaxFaults] /\ LateCounted'
    BY <1>L DEF LateCounted
  <1>C. \A c \in Connections : conn[c].stage # "closed"
                               => conn[c].worker \in Workers
    BY DEF Connected
  <1>D. Down \in Process /\ [Down EXCEPT !.pc = "connecting"] \in Process
    BY DEF Down, Process, PCs
  <1>1. CASE start(w)
    <2>1. OwnState(w) /\ OthersUnchanged(w) /\ proc' \in [Workers -> Process]
      BY <1>1, <1>0 DEF start, At, Goto, OwnState, OthersUnchanged,
                        LockProtects, Process, PCs
    <2> QED BY <1>1, <1>L, <1>C, <2>1, ClientStep DEF start, server
  <1>2. ASSUME NEW c \in Connections, ws_connect(w, c) PROVE IInv'
    <2>1. OwnState(w) /\ OthersUnchanged(w) /\ proc' \in [Workers -> Process]
      BY <1>2, <1>0 DEF ws_connect, At, OwnState, OthersUnchanged,
                        LockProtects, Process, PCs
    <2>2. conn' \in [Connections -> Connection]
      BY <1>2 DEF ws_connect, Connection, Stages
    <2>3. \A d \in Connections : conn'[d].stage # "closed"
                                 => conn'[d].worker \in Workers
      BY <1>2, <1>C DEF ws_connect
    <2> QED BY <1>2, <1>L, <2>1, <2>2, <2>3, ClientStep DEF ws_connect, server
  <1>3. CASE process_message(w)
    <2> DEFINE c == proc[w].conn
    <2>0. c \in Connections /\ conn[c] \in Connection
      BY <1>3 DEF process_message, At, Connected
    <2>a. \/ proc' = [proc EXCEPT ![w].pc = "lock"]
          \/ proc' = [proc EXCEPT ![w] = [Down EXCEPT !.pc = "connecting"]]
      BY <1>3 DEF process_message, Goto
    <2>b. /\ proc' \in [Workers -> Process]
          /\ proc'[w].pc \in {"lock", "connecting"}
          /\ proc'[w].pc = "lock" => /\ proc'[w].conn = c
                                     /\ proc'[w].answer = proc[w].answer
          /\ proc'[w].pc = "connecting" => proc'[w].answer = None
      <3>1. CASE proc' = [proc EXCEPT ![w].pc = "lock"]
        <4>1. [proc[w] EXCEPT !.pc = "lock"] \in Process
          BY <1>0 DEF Process, PCs
        <4> QED BY <1>0, <3>1, <4>1 DEF Process
      <3>2. CASE proc' = [proc EXCEPT ![w] = [Down EXCEPT !.pc = "connecting"]]
        <4>1. [Down EXCEPT !.pc = "connecting"] \in Process
          BY <1>D DEF Process, PCs, Down
        <4> QED BY <1>0, <3>2, <4>1 DEF Down
      <3> QED BY <2>a, <3>1, <3>2
    <2>c. proc[w].answer = None
      BY <1>3 DEF process_message, At, LockProtects
    <2>1. OwnState(w) /\ OthersUnchanged(w) /\ proc' \in [Workers -> Process]
      BY <1>3, <2>0, <2>a, <2>b, <2>c
         DEF process_message, OwnState, OthersUnchanged, LockProtects
    <2>2. Tail(conn[c].inbox) \in Seq(Messages)
      BY <1>3, <2>0 DEF process_message, Connection
    <2>3. conn' \in {Hangup(w), [conn EXCEPT ![c].inbox = Tail(@)]}
      BY <1>3 DEF process_message
    <2>4. [conn EXCEPT ![c].inbox = Tail(@)] \in [Connections -> Connection]
      BY <2>0, <2>2 DEF Connection
    <2>5. /\ conn' \in [Connections -> Connection]
          /\ \A d \in Connections : /\ conn'[d].stage = conn[d].stage
                                    /\ conn'[d].worker = conn[d].worker
      <3>1. CASE conn' = Hangup(w)
        BY <3>1, HangupTypes
      <3>2. CASE conn' = [conn EXCEPT ![c].inbox = Tail(@)]
        BY <3>2, <2>0, <2>4
      <3> QED BY <2>3, <3>1, <3>2
    <2> QED BY <1>3, <1>L, <1>C, <2>1, <2>5, ClientStep
            DEF process_message, server
  <1>4. CASE reconnect(w)
    <2>1. OwnState(w) /\ OthersUnchanged(w) /\ proc' \in [Workers -> Process]
      BY <1>4, <1>0, <1>D DEF reconnect, At, OwnState, OthersUnchanged,
                              LockProtects, Down
    <2>2. /\ conn' \in [Connections -> Connection]
          /\ \A d \in Connections : conn'[d].stage # "closed"
                                    => conn'[d].worker \in Workers
      BY <1>4, <1>C, HangupTypes DEF reconnect
    <2> QED BY <1>4, <1>L, <2>1, <2>2, ClientStep DEF reconnect, server
  <1>5. CASE acquire(w)
    <2>1. OwnState(w) /\ OthersUnchanged(w) /\ proc' \in [Workers -> Process]
      BY <1>5, <1>0 DEF acquire, At, Goto, OwnState, OthersUnchanged,
                        LockProtects, Connected, Process, PCs
    <2> QED BY <1>5, <1>L, <1>C, <2>1, ClientStep DEF acquire, server
  <1>6. CASE give_up(w)
    <2>1. OwnState(w) /\ OthersUnchanged(w) /\ proc' \in [Workers -> Process]
      BY <1>6, <1>0 DEF give_up, At, Goto, OwnState, OthersUnchanged,
                        LockProtects, Connected, Process, PCs
    <2> QED BY <1>6, <1>L, <1>C, <2>1, ClientStep DEF give_up, server
  <1>7. CASE no_work_request(w)
    <2>1. OwnState(w) /\ OthersUnchanged(w) /\ proc' \in [Workers -> Process]
      BY <1>7, <1>0 DEF no_work_request, At, Goto, OwnState, OthersUnchanged,
                        LockProtects, Connected, Process, PCs
    <2> QED BY <1>7, <1>L, <1>C, <2>1, ClientStep DEF no_work_request, server
  <1>8. CASE execute(w)
    <2>1. PICK refused \in BOOLEAN :
            /\ task' = [task EXCEPT ![w] = [row |-> proc[w].answer,
                                            reporting |-> refused]]
            /\ proc' = [proc EXCEPT ![w].pc = IF refused THEN "refusing"
                                                         ELSE "listening",
                                    ![w].answer = None]
      BY <1>8 DEF execute
    <2>2. proc' \in [Workers -> Process] /\ task' \in [Workers -> Task]
      BY <2>1, <1>0 DEF Process, PCs, Task
    <2>3. OwnState(w) /\ OthersUnchanged(w)
      BY <2>1, <1>8, <1>0 DEF execute, At, OwnState, OthersUnchanged,
                              LockProtects, Connected, Process, Task
    <2> QED BY <1>8, <1>L, <1>C, <2>2, <2>3, ClientStep DEF execute, server
  <1> QED BY <1>1, <1>2, <1>3, <1>4, <1>5, <1>6, <1>7, <1>8 DEF Main

(* A process that exits has nothing left.                                  *)
LEMMA ExitTypes ==
    ASSUME IInv, NEW w \in Workers, Exit(w)
    PROVE  /\ OwnState(w) /\ OthersUnchanged(w)
           /\ proc' \in [Workers -> Process] /\ task' \in [Workers -> Task]
           /\ lock' \subseteq Workers
           /\ conn' \in [Connections -> Connection]
           /\ \A c \in Connections : conn'[c].stage # "closed"
                                     => conn'[c].worker \in Workers
  <1> USE DEF IInv, TypeOK, Exit
  <1>1. Down \in Process /\ [row |-> None, reporting |-> FALSE] \in Task
    BY DEF Down, Process, PCs, Task
  <1>2. proc'[w] = Down /\ task'[w] = [row |-> None, reporting |-> FALSE]
    OBVIOUS
  <1>3. OwnState(w)
    BY <1>2 DEF OwnState, Down
  <1>4. OthersUnchanged(w)
    BY DEF OthersUnchanged
  <1>5. /\ conn' \in [Connections -> Connection]
        /\ \A c \in Connections : conn'[c].stage # "closed"
                                  => conn'[c].worker \in Workers
    BY HangupTypes DEF Connected
  <1> QED BY <1>1, <1>3, <1>4, <1>5

(* Answers, reports and what goes wrong with them keep the invariant.      *)
LEMMA CallIInv ==
    ASSUME IInv, NEW w \in Workers,
           answer(w) \/ Result(w) \/ call_fails(w) \/ answer_late(w)
           \/ completed_again(w) \/ killed(w)
    PROVE  IInv'
  <1> USE DEF IInv, TypeOK
  <1>0. proc[w] \in Process /\ task[w] \in Task /\ late[w] \in Nat
    BY WorkerProtocolAssumption
  <1>L. ASSUME UNCHANGED <<late, faults>>
        PROVE  late' \in [Workers -> 0..MaxFaults] /\ LateCounted'
    BY <1>L DEF LateCounted
  <1>C. \A c \in Connections : conn[c].stage # "closed"
                               => conn[c].worker \in Workers
    BY DEF Connected
  <1>1. CASE answer(w)
    <2>1. PICK given \in Given(w) :
            /\ get_next_for_worker(w, given)
            /\ proc' = [proc EXCEPT ![w].pc = "answered", ![w].answer = given]
      BY <1>1 DEF answer
    <2>2. given \in Requests \cup {None}
      BY <2>1 DEF Given, Owned
    <2>3. proc' \in [Workers -> Process]
      BY <2>1, <2>2, <1>0 DEF Process, PCs
    <2>4. OwnState(w) /\ OthersUnchanged(w)
      BY <2>1, <1>1, <1>0 DEF answer, At, OwnState, OthersUnchanged,
                              LockProtects, Connected, Process
    <2>5. rows' \in [Requests -> Row]
      BY <2>1, GetNextTypes
    <2> QED BY <1>1, <1>L, <1>C, <2>3, <2>4, <2>5, ClientStep DEF answer
  <1>2. CASE send_task_result(w)
    <2>1. task' \in [Workers -> Task]
      BY <1>2, <1>0 DEF send_task_result, Task
    <2>2. OwnState(w) /\ OthersUnchanged(w)
      BY <1>2, <1>0 DEF send_task_result, OwnState, OthersUnchanged,
                        LockProtects, Connected, Task
    <2> QED BY <1>2, <1>L, <1>C, <2>1, <2>2, ClientStep
            DEF send_task_result, server
  <1>3. CASE completed(w)
    <2>1. proc' \in [Workers -> Process] /\ task' \in [Workers -> Task]
      BY <1>3, <1>0 DEF completed, Process, PCs, Task
    <2>2. OwnState(w) /\ OthersUnchanged(w)
      BY <1>3, <1>0 DEF completed, OwnState, OthersUnchanged,
                        LockProtects, Connected, Process, Task
    <2>3. rows' \in [Requests -> Row]
      BY <1>3, CompletedTypes DEF completed
    <2> QED BY <1>3, <1>L, <1>C, <2>1, <2>2, <2>3, ClientStep DEF completed
  <1>4. CASE exit_worker(w)
    <2>1. proc[w].pc # "asking"
      BY <1>4 DEF exit_worker, LockProtects
    <2>2. late' = late
      BY <1>4, <2>1 DEF exit_worker, Outlives, At
    <2>3. late' \in [Workers -> 0..MaxFaults] /\ LateCounted'
      <3>1. faults' \in Nat /\ faults \in Nat /\ faults <= faults'
        BY <1>4, FaultCounts, WorkerProtocolAssumption DEF exit_worker
      <3>2. \A v \in Workers : late[v] \in Nat /\ late[v] <= faults
        BY WorkerProtocolAssumption DEF LateCounted
      <3> QED BY <2>2, <3>1, <3>2 DEF LateCounted
    <2> QED BY <1>4, <2>3, ExitTypes, ClientStep DEF exit_worker, server
  <1>5. CASE call_fails(w)
    <2>1. late' \in [Workers -> 0..MaxFaults] /\ LateCounted'
      BY <1>5, OutlivesCounted DEF call_fails
    <2>2. [Down EXCEPT !.pc = "connecting"] \in Process
      BY DEF Down, Process, PCs
    <2>3. OwnState(w) /\ OthersUnchanged(w) /\ proc' \in [Workers -> Process]
      BY <1>5, <2>2 DEF call_fails, OwnState, OthersUnchanged, LockProtects,
                        Down
    <2>4. /\ conn' \in [Connections -> Connection]
          /\ \A c \in Connections : conn'[c].stage # "closed"
                                    => conn'[c].worker \in Workers
      BY <1>5, <1>C, HangupTypes DEF call_fails
    <2> QED BY <1>5, <2>1, <2>3, <2>4, ClientStep DEF call_fails, server
  <1>6. CASE answer_late(w)
    <2>1. rows' \in [Requests -> Row]
      BY <1>6, GetNextTypes DEF answer_late
    <2>2. \A v \in Workers : late'[v] \in 0..MaxFaults /\ late'[v] <= late[v]
      BY <1>6, <1>0, WorkerProtocolAssumption DEF answer_late
    <2>3. late' \in [Workers -> 0..MaxFaults] /\ LateCounted'
      BY <1>6, <2>2, WorkerProtocolAssumption DEF answer_late, LateCounted
    <2>4. OwnState(w) /\ OthersUnchanged(w)
      BY <1>6 DEF answer_late, OwnState, OthersUnchanged, LockProtects,
                  Connected
    <2> QED BY <1>6, <1>C, <2>1, <2>3, <2>4, ClientStep DEF answer_late
  <1>7. CASE completed_again(w)
    <2>1. rows' \in [Requests -> Row]
      BY <1>7, CompletedTypes DEF completed_again
    <2> QED BY <1>7, <1>C, <2>1, ServerStep DEF completed_again
  <1>8. CASE killed(w)
    <2>1. late' \in [Workers -> 0..MaxFaults] /\ LateCounted'
      BY <1>8, OutlivesCounted DEF killed
    <2> QED BY <1>8, <2>1, ExitTypes, ClientStep DEF killed, server
  <1> QED BY <1>1, <1>2, <1>3, <1>4, <1>5, <1>6, <1>7, <1>8 DEF Result

(* The invariant is inductive.                                             *)
LEMMA NextIInv ==
    ASSUME IInv, [Next]_vars
    PROVE  IInv'
  <1>1. CASE UNCHANGED vars
    BY <1>1 DEF IInv, TypeOK, LockProtects, Connected, LateCounted, vars
  <1>2. CASE Next
    BY <1>2, ConsumerIInv, ServerIInv, MainIInv, CallIInv DEF Next, Trouble
  <1> QED BY <1>1, <1>2

(* The types of the protocol, and that a worker asks, has an answer and    *)
(* executes under its task lock.                                           *)
THEOREM TypeCorrect == Spec => []TypeOK
  <1>1. IInv => TypeOK
    BY DEF IInv
  <1> QED BY <1>1, InitIInv, NextIInv, PTL DEF Spec

-----------------------------------------------------------------------------
(* The refinement.                                                         *)

status == [i \in Requests |-> rows[i].status]
handed == {x \in Workers \X Requests : proc[x[1]].answer = x[2]}
held == {x \in Workers \X Requests : task[x[1]].row = x[2]}

(* The initial state is one of WorkAttempts.                               *)
LEMMA InitRefines == Init => Attempts!Init
  BY WorkerProtocolAssumption DEF Init, Attempts!Init, Down

(* What a step has not changed is not changed in WorkAttempts.             *)
LEMMA KeepsStatus ==
    ASSUME \A i \in Requests : rows'[i].status = rows[i].status
    PROVE  status' = status
  BY DEF status

(* Steps that change no answer hand out nothing.                           *)
LEMMA KeepsHanded ==
    ASSUME \A w \in Workers : proc'[w].answer = proc[w].answer
    PROVE  handed' = handed
  BY DEF handed

(* Steps that change no task of a worker take nothing.                     *)
LEMMA KeepsHeld ==
    ASSUME \A w \in Workers : task'[w].row = task[w].row
    PROVE  held' = held
  BY DEF held

(* Most steps change nothing that WorkAttempts sees.                       *)
LEMMA Stutters ==
    ASSUME \A i \in Requests : rows'[i].status = rows[i].status,
           \A w \in Workers : /\ proc'[w].answer = proc[w].answer
                              /\ task'[w].row = task[w].row
    PROVE  [Attempts!Next]_(Attempts!vars)
  BY KeepsStatus, KeepsHanded, KeepsHeld DEF Attempts!vars, status, handed, held

(* Consumers and passes.                                                   *)
LEMMA ConsumerRefines ==
    ASSUME IInv,
           \/ \E c \in Connections : Consumer(c) \/ connection_lost(c)
           \/ \E w \in Workers : schedule(w) \/ commit(w) \/ rollback(w)
                                \/ enable(w)
           \/ server_restart
    PROVE  [Attempts!Next]_(Attempts!vars)
  <1>1. UNCHANGED <<proc, task>>
    BY DEF Consumer, connection_lost, check_permission, group_add,
           mark_connected, worker_changed, check_busy, disconnect, schedule,
           commit, rollback, enable, server_restart, client
  <1>2. \A i \in Requests : rows'[i].status = rows[i].status
    <2>1. ASSUME NEW w \in Workers, commit(w)
          PROVE  \A i \in Requests : rows'[i].status = rows[i].status
      BY <2>1 DEF commit, IInv, TypeOK, Row
    <2>2. CASE ~\E w \in Workers : commit(w)
      BY <2>2 DEF Consumer, connection_lost, check_permission, group_add,
             mark_connected, worker_changed, check_busy, disconnect, schedule,
             rollback, enable, server_restart, server
    <2> QED BY <2>1, <2>2
  <1> QED BY <1>1, <1>2, Stutters

(* Users and administrators.                                               *)
LEMMA UserRefines ==
    ASSUME IInv,
           \/ \E w \in Workers : disable(w)
           \/ \E i \in Requests : create_work_request(i) \/ abort(i)
    PROVE  Attempts!Next
  <1> USE DEF IInv, TypeOK
  <1>0. handed' = handed /\ held' = held
    BY DEF disable, create_work_request, abort, client, handed, held
  <1>1. ASSUME NEW i \in Requests, create_work_request(i)
        PROVE  Attempts!Create(i)
    <2>1. status[i] = "absent" /\ status' = [status EXCEPT ![i] = "pending"]
      BY <1>1 DEF create_work_request, status, Row
    <2> QED BY <1>0, <2>1 DEF Attempts!Create, status, handed, held
  <1>2. ASSUME NEW i \in Requests, abort(i)
        PROVE  Attempts!Abort(i)
    <2>1. /\ status[i] \in {"pending", "running"}
          /\ status' = [status EXCEPT ![i] = "aborted"]
      BY <1>2 DEF abort, status, Row
    <2> QED BY <1>0, <2>1
            DEF Attempts!Abort, Attempts!InProgress, status, handed, held
  <1>3. ASSUME NEW w \in Workers, disable(w)
        PROVE  Attempts!Requeue
    <2>1. \A i \in Requests :
            \/ status'[i] = status[i]
            \/ status[i] = "running" /\ status'[i] = "pending"
      BY <1>3 DEF disable, Owned, status, Row
    <2> QED BY <1>0, <2>1
            DEF Attempts!Requeue, Attempts!Moved, status, handed, held
  <1> QED BY <1>1, <1>2, <1>3 DEF Attempts!Next

(* What a call for work does to the table.                                 *)
LEMMA GetNextMoves ==
    ASSUME IInv, NEW w \in Workers, NEW given \in Given(w),
           get_next_for_worker(w, given)
    PROVE  \A i \in Requests :
             \/ status'[i] = status[i]
             \/ status[i] = "running" /\ status'[i] = "aborted"
             \/ status[i] = "absent" /\ status'[i] = "pending"
             \/ i = given /\ status[i] = "pending" /\ status'[i] = "running"
  <1> DEFINE lost == IF w \in enabled THEN Owned(w, "running") ELSE {}
  <1>1. PICK retried \in SUBSET {i \in Requests : rows[i].status = "absent"} :
          rows' = [i \in Requests |->
            CASE i \in lost -> [rows[i] EXCEPT !.status = "aborted"]
              [] i \in retried -> [status |-> "pending", worker |-> None]
              [] i = given -> [rows[i] EXCEPT !.status = "running"]
              [] OTHER -> rows[i]]
    BY DEF get_next_for_worker
  <1> SUFFICES ASSUME NEW i \in Requests
               PROVE  \/ status'[i] = status[i]
                      \/ status[i] = "running" /\ status'[i] = "aborted"
                      \/ status[i] = "absent" /\ status'[i] = "pending"
                      \/ /\ i = given /\ status[i] = "pending"
                         /\ status'[i] = "running"
    OBVIOUS
  <1>2. /\ status[i] = rows[i].status /\ status'[i] = rows'[i].status
        /\ rows[i] \in Row
    BY DEF status, IInv, TypeOK
  <1>3. i \in lost => rows[i].status = "running"
    BY DEF Owned
  <1>4. i \in retried => rows[i].status = "absent"
    BY <1>1
  <1>5. i = given => rows[i].status = "pending"
    BY WorkerProtocolAssumption DEF Given, Owned
  <1> HIDE DEF lost
  <1>6. \/ i \in lost /\ rows'[i].status = "aborted"
        \/ i \in retried /\ rows'[i].status = "pending"
        \/ i = given /\ rows'[i].status = "running"
        \/ rows'[i] = rows[i]
    BY <1>1, <1>2, <1>3, <1>4, <1>5 DEF Row
  <1> QED BY <1>2, <1>3, <1>4, <1>5, <1>6

(* A worker that asks has nothing else; the answer of a call that it has   *)
(* given up does not reach it.                                             *)
LEMMA AnswerRefines ==
    ASSUME IInv, NEW w \in Workers, answer(w) \/ answer_late(w)
    PROVE  Attempts!Ask(w)
  <1> USE DEF IInv, TypeOK
  <1>1. PICK given \in Given(w) :
          /\ get_next_for_worker(w, given)
          /\ \/ /\ answer(w)
                /\ proc' = [proc EXCEPT ![w].pc = "answered",
                                        ![w].answer = given]
             \/ answer_late(w)
    BY DEF answer, answer_late
  <1>2. \A i \in Requests :
           \/ status'[i] = status[i]
           \/ status[i] = "running" /\ status'[i] = "aborted"
           \/ status[i] = "absent" /\ status'[i] = "pending"
           \/ i = given /\ status[i] = "pending" /\ status'[i] = "running"
    BY <1>1, GetNextMoves
  <1>3. held' = held
    BY KeepsHeld DEF answer, answer_late
  <1> DEFINE given_out == {i \in Requests : /\ status[i] = "pending"
                                        /\ status'[i] = "running"}
  <1>4. \/ handed' = handed
        \/ /\ handed' = handed \cup ({w} \X given_out)
           /\ \A i \in Requests : <<w, i>> \notin handed \cup held
    <2>1. CASE answer_late(w)
      BY <2>1, KeepsHanded DEF answer_late
    <2>2. CASE answer(w) /\ proc' = [proc EXCEPT ![w].pc = "answered",
                                                 ![w].answer = given]
      <3>1. proc[w].answer = None /\ task[w].row = None
        BY <2>2 DEF answer, At, LockProtects
      <3>2. \A i \in Requests : <<w, i>> \notin handed \cup held
        BY <3>1, WorkerProtocolAssumption DEF handed, held
      <3>3. \A i \in given_out : i = given
        BY <1>2
      <3>4. given \in Requests => given \in given_out
        <4> SUFFICES ASSUME given \in Requests PROVE given \in given_out
          OBVIOUS
        <4>1. w \in enabled /\ given \in Owned(w, "pending")
          BY <1>1, WorkerProtocolAssumption DEF Given
        <4>2. rows[given].status = "pending" /\ rows[given] \in Row
          BY <4>1 DEF Owned
        <4>3. rows'[given].status = "running"
          BY <1>1, <4>2 DEF get_next_for_worker, Owned, Row
        <4> QED BY <4>2, <4>3 DEF status
      <3>5. \A v \in Workers : proc'[v].answer = IF v = w THEN given
                                                 ELSE proc[v].answer
        BY <2>2
      <3>6. \A x \in Workers \X Requests :
              x \in handed' <=> x \in handed \cup ({w} \X given_out)
        BY <3>1, <3>3, <3>4, <3>5, WorkerProtocolAssumption DEF handed
      <3>7. handed' \subseteq Workers \X Requests
            /\ handed \cup ({w} \X given_out) \subseteq Workers \X Requests
        BY DEF handed
      <3>8. handed' = handed \cup ({w} \X given_out)
        <4> HIDE DEF given_out
        <4> QED BY <3>6, <3>7
      <3> QED BY <3>2, <3>8
    <2> QED BY <1>1, <2>1, <2>2
  <1>5. given_out = Attempts!Moved("pending", "running")
    BY DEF Attempts!Moved, status
  <1>6. DOMAIN status' = Requests
    BY DEF status
  <1>7. ASSUME NEW i \in Requests
        PROVE  \/ status'[i] = status[i]
               \/ i \in Attempts!Moved("running", "aborted") \cup given_out
                        \cup Attempts!Moved("absent", "pending")
    BY <1>2 DEF Attempts!Moved, status
  <1>8. \A i, j \in given_out : i = j
    BY <1>2
  <1>9. \/ Attempts!Busy(w) = {} /\ handed' = handed \cup ({w} \X given_out)
        \/ UNCHANGED handed
    BY <1>4 DEF Attempts!Busy, handed, held
  <1> HIDE DEF given_out
  <1> QED BY <1>3, <1>5, <1>6, <1>7, <1>8, <1>9
             DEF Attempts!Ask, status, handed, held

(* The main coroutine: only execute() is seen, as Take.                    *)
LEMMA MainRefines ==
    ASSUME IInv, NEW w \in Workers, Main(w)
    PROVE  [Attempts!Next]_(Attempts!vars)
  <1> USE DEF IInv, TypeOK
  <1>0. proc[w] \in Process
    OBVIOUS
  <1>1. CASE execute(w)
    <2>a. proc[w].answer \in Requests /\ task[w].row = None
      BY <1>1, <1>0 DEF execute, At, Process, LockProtects
    <2>1. PICK i \in Requests : i = proc[w].answer
      BY <2>a
    <2>2. /\ \A v \in Workers : proc'[v].answer = IF v = w THEN None
                                                  ELSE proc[v].answer
          /\ \A v \in Workers : task'[v].row = IF v = w THEN i ELSE task[v].row
      BY <1>1, <2>1 DEF execute
    <2>3. status' = status
      BY <1>1, KeepsStatus DEF execute, server
    <2>4. /\ \A x \in Workers \X Requests :
               x \in handed' <=> x \in handed /\ x # <<w, i>>
          /\ <<w, i>> \in handed
      BY <2>1, <2>2, WorkerProtocolAssumption DEF handed
    <2>5. \A x \in Workers \X Requests :
            x \in held' <=> x \in held \/ x = <<w, i>>
      BY <2>a, <2>1, <2>2, WorkerProtocolAssumption DEF held
    <2>6. handed' = handed \ {<<w, i>>}
      BY <2>4 DEF handed
    <2>7. held' = held \cup {<<w, i>>}
      BY <2>1, <2>5 DEF held
    <2>8. Attempts!Take(w, i)
      BY <2>3, <2>4, <2>6, <2>7 DEF Attempts!Take, status, handed, held
    <2> QED BY <2>1, <2>8 DEF Attempts!Next
  <1>2. CASE ~execute(w)
    <2>1. UNCHANGED <<rows, task>>
      BY <1>2 DEF Main, start, ws_connect, process_message, reconnect,
                  acquire, give_up, no_work_request, server
    <2>2. \A v \in Workers \ {w} : proc'[v] = proc[v]
      BY <1>2 DEF Main, start, ws_connect, process_message, reconnect,
                  acquire, give_up, no_work_request, Goto
    <2>3. proc[w].answer = None
      BY <1>2 DEF Main, start, ws_connect, process_message, reconnect,
                  acquire, give_up, no_work_request, At, LockProtects
    <2>4. proc'[w].answer = None
      <3>1. CASE start(w) \/ \E c \in Connections : ws_connect(w, c)
        BY <1>0, <2>3, <3>1 DEF start, ws_connect, Goto, Down, Process
      <3>2. CASE process_message(w) \/ reconnect(w)
        BY <1>0, <2>3, <3>2 DEF process_message, reconnect, Goto, Down, Process
      <3>3. CASE acquire(w) \/ give_up(w) \/ no_work_request(w)
        BY <1>0, <2>3, <3>3 DEF acquire, give_up, no_work_request, Goto, Down,
                                Process
      <3> QED BY <1>2, <3>1, <3>2, <3>3 DEF Main
    <2> QED BY <2>1, <2>2, <2>3, <2>4, Stutters
  <1> QED BY <1>1, <1>2

(* A worker that loses what it had.                                        *)
LEMMA Forgets ==
    ASSUME IInv, NEW w \in Workers,
           \A i \in Requests : rows'[i].status = rows[i].status,
           \A v \in Workers \ {w} : /\ proc'[v].answer = proc[v].answer
                                    /\ task'[v].row = task[v].row,
           proc'[w].answer = None, task'[w].row = None
    PROVE  Attempts!Next
  <1>1. handed' = {x \in handed : x[1] # w}
    BY WorkerProtocolAssumption DEF handed
  <1>2. held' = {x \in held : x[1] # w}
    BY WorkerProtocolAssumption DEF held
  <1>3. Attempts!Forget(w)
    BY <1>1, <1>2, KeepsStatus DEF Attempts!Forget, status, handed, held
  <1> QED BY <1>3 DEF Attempts!Next

(* Reports, and the ends of calls and processes.                           *)
LEMMA ResultRefines ==
    ASSUME IInv, NEW w \in Workers,
           Result(w) \/ call_fails(w) \/ completed_again(w) \/ killed(w)
    PROVE  [Attempts!Next]_(Attempts!vars)
  <1> USE DEF IInv, TypeOK
  <1>0. proc[w] \in Process /\ task[w] \in Task
    OBVIOUS
  <1>1. CASE send_task_result(w)
    <2>1. \A v \in Workers : task'[v].row = task[v].row
      BY <1>1, <1>0 DEF send_task_result, Task
    <2> QED BY <1>1, <2>1, Stutters DEF send_task_result, server
  <1>2. CASE exit_worker(w) \/ killed(w)
    <2>1. Exit(w) /\ rows' = rows
      BY <1>2 DEF exit_worker, killed, server
    <2>2. proc'[w].answer = None /\ task'[w].row = None
      BY <2>1 DEF Exit, Down
    <2>3. \A v \in Workers \ {w} : proc'[v] = proc[v] /\ task'[v] = task[v]
      BY <2>1 DEF Exit
    <2> QED BY <2>1, <2>2, <2>3, Forgets
  <1>3. CASE call_fails(w)
    <2>1. task[w].row = None
      BY <1>3 DEF call_fails, LockProtects
    <2> QED BY <1>3, <2>1, Forgets DEF call_fails, Down, server
  <1>4. CASE completed(w) \/ completed_again(w)
    <2>a. task[w].row \in Requests /\ proc[w].answer = None
      BY <1>4, <1>0 DEF completed, completed_again, LockProtects, Task
    <2>1. PICK i \in Requests : i = task[w].row
      BY <2>a
    <2>2. /\ \A v \in Workers : proc'[v].answer = proc[v].answer
          /\ \A v \in Workers \ {w} : task'[v].row = task[v].row
          /\ task'[w].row \in {i, None}
      <3>1. CASE completed(w)
        BY <1>0, <2>1, <3>1 DEF completed, client, Process
      <3>2. CASE completed_again(w)
        BY <1>0, <2>1, <3>2 DEF completed_again, client, Process
      <3> QED BY <1>4, <3>1, <3>2
    <2>3. mark_completed(i)
      BY <1>4, <2>1 DEF completed, completed_again
    <2>4. CASE rows[i].status \notin {"pending", "running"}
      <3>1. rows' = rows
        BY <2>3, <2>4 DEF mark_completed
      <3>2. CASE task'[w].row = None
        BY <2>a, <2>2, <3>1, <3>2, Forgets
      <3>3. CASE task'[w].row = i
        BY <2>1, <2>2, <3>1, <3>3, Stutters
      <3> QED BY <2>2, <3>2, <3>3
    <2>5. CASE rows[i].status \in {"pending", "running"}
      <3>1. /\ status' = [status EXCEPT ![i] = "completed"]
            /\ status[i] \in {"pending", "running"}
        BY <2>1, <2>3, <2>5 DEF mark_completed, status, Row
      <3>2. handed' = handed
        BY <2>2, KeepsHanded
      <3>3. <<w, i>> \in held
        BY <2>1 DEF held
      <3>4. held' \in {held, held \ {<<w, i>>}}
        <4>1. CASE task'[w].row = i
          BY <2>1, <2>2, <4>1, KeepsHeld
        <4>2. CASE task'[w].row = None
          <5>1. \A x \in Workers \X Requests :
                  x \in held' <=> x \in held /\ x # <<w, i>>
            BY <2>1, <2>2, <4>2, WorkerProtocolAssumption DEF held
          <5>2. held' = held \ {<<w, i>>}
            BY <5>1 DEF held
          <5> QED BY <5>2
        <4> QED BY <2>2, <4>1, <4>2
      <3>5. Attempts!Record(w, i)
        BY <3>1, <3>2, <3>3, <3>4
           DEF Attempts!Record, Attempts!InProgress, status, handed, held
      <3> QED BY <2>1, <3>5 DEF Attempts!Next
    <2> QED BY <2>4, <2>5
  <1> QED BY <1>1, <1>2, <1>3, <1>4 DEF Result

(* Every step of the protocol is a step of WorkAttempts or changes nothing *)
(* that it sees.                                                           *)
LEMMA StepRefines ==
    ASSUME IInv, [Next]_vars
    PROVE  [Attempts!Next]_(Attempts!vars)
  <1>1. CASE UNCHANGED vars
    BY <1>1, Stutters DEF vars
  <1>2. ASSUME NEW w \in Workers, answer(w) \/ answer_late(w)
        PROVE  Attempts!Next
    BY <1>2, AnswerRefines DEF Attempts!Next
  <1>3. CASE Next
    <2>1. \/ \E c \in Connections : Consumer(c) \/ connection_lost(c)
          \/ \E w \in Workers : schedule(w) \/ commit(w) \/ rollback(w)
                               \/ enable(w)
          \/ server_restart
          \/ \E w \in Workers : disable(w)
          \/ \E i \in Requests : create_work_request(i) \/ abort(i)
          \/ \E w \in Workers : Main(w)
          \/ \E w \in Workers : answer(w) \/ answer_late(w)
          \/ \E w \in Workers : Result(w) \/ call_fails(w)
                               \/ completed_again(w) \/ killed(w)
      BY <1>3 DEF Next, Trouble
    <2> QED BY <2>1, <1>2, ConsumerRefines, UserRefines, MainRefines,
               ResultRefines
  <1> QED BY <1>1, <1>3

(* The protocol of consumers, views and worker processes implements        *)
(* WorkAttempts: whatever is lost, late, repeated or killed, a request is  *)
(* executed at most once for each time it is handed out, by a worker with  *)
(* nothing else to do, and only a worker that has it records its result.   *)
THEOREM Implements == Spec => AttemptsHold
  BY InitIInv, NextIInv, InitRefines, StepRefines, PTL
     DEF Spec, AttemptsHold, Attempts!Spec

==============================================================================
