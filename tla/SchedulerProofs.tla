--------------------------- MODULE SchedulerProofs ---------------------------
(***************************************************************************)
(* Overlapping transactions never give a request in progress to a second   *)
(* worker, for any number of processes, workers and requests.              *)
(***************************************************************************)
EXTENDS Scheduler, TLAPS

(* Positions where the transaction has a request, and a worker, in hand.   *)
HasRow == {"assign", "mark_error", "mark_aborted", "mark_running",
           "mark_completed", "abort"}
HasWorker == {"lock_worker", "query", "assign", "mark_error", "mark_aborted",
              "next", "mark_running"}

(* What a transaction may have written: some rows.                         *)
SomeRows == UNION {[S -> Row] : S \in SUBSET Requests}

InHand ==
    /\ written \in [Procs -> SomeRows]
    /\ \A p \in Procs :
          /\ tx[p].pc \in HasRow => tx[p].row \in Requests
          /\ tx[p].pc \in HasWorker => tx[p].worker \in Workers

(* A transaction that has not begun, or a worker that asks, has given no   *)
(* request to anybody.                                                     *)
NothingGiven ==
    \A p \in Procs :
        /\ At(p, "idle") => DOMAIN written[p] = {}
        /\ tx[p].pc \in {"idle", "mark_aborted", "next"} =>
              \A i \in DOMAIN written[p] :
                 InProgress(written[p][i]) => written[p][i].worker = None

(* Requests do not become absent, and keep their worker while in progress, *)
(* also in what is not yet committed.                                      *)
WrittenKeeps ==
    \A p \in Procs : \A i \in DOMAIN written[p] :
        /\ written[p][i].status = "absent" => rows[i].status = "absent"
        /\ /\ InProgress(rows[i]) /\ rows[i].worker # None
           /\ InProgress(written[p][i])
           => written[p][i].worker = rows[i].worker

(* An object that is about to be saved as running may be stale, but no     *)
(* row, committed or not, has meanwhile been given to another worker.      *)
Reader(p, i) == At(p, "mark_running") /\ tx[p].row = i
StaleAgrees ==
    \A p \in Procs, i \in Requests : Reader(p, i) =>
        LET k == tx[p].read[i].worker
        IN  /\ k # None
            /\ rows[i].status # "absent"
            /\ InProgress(rows[i]) => rows[i].worker = k
            /\ \A q \in Procs :
                  /\ i \in DOMAIN written[q] /\ InProgress(written[q][i])
                     => written[q][i].worker = k
                  /\ Reader(q, i) => tx[q].read[i].worker = k

IInv == TypeOK /\ InHand /\ NothingGiven /\ WrittenKeeps /\ StaleAgrees

-----------------------------------------------------------------------------
(* Tables and transactions.                                                *)

(* The empty function is some rows.                                        *)
LEMMA NoneWritten == <<>> \in SomeRows /\ DOMAIN <<>> = {}
  <1>1. DOMAIN <<>> = {}
    OBVIOUS
  <1>2. <<>> \in [{} -> Row]
    BY <1>1
  <1> QED
    BY <1>1, <1>2 DEF SomeRows

(* One row is some rows.                                                   *)
LEMMA OneRow ==
  ASSUME NEW i \in Requests, NEW row \in Row
  PROVE  /\ One(i, row) \in SomeRows /\ DOMAIN One(i, row) = {i}
         /\ One(i, row)[i] = row
  <1>1. One(i, row) \in [{i} -> Row]
    BY DEF One
  <1>2. {i} \in SUBSET Requests
    OBVIOUS
  <1> QED
    BY <1>1, <1>2 DEF SomeRows, One

(* What is in some rows.                                                   *)
LEMMA RowsOf ==
  ASSUME NEW new \in SomeRows
  PROVE  /\ DOMAIN new \subseteq Requests
         /\ \A i \in DOMAIN new : new[i] \in Row
  <1>1. PICK S \in SUBSET Requests : new \in [S -> Row]
    BY DEF SomeRows
  <1> QED
    BY <1>1

(* A transaction sees a table of rows.                                     *)
LEMMA VisibleType ==
  ASSUME IInv, NEW p \in Procs
  PROVE  /\ Visible(p) \in [Requests -> Row]
         /\ \A i \in Requests :
               /\ i \in DOMAIN written[p] => Visible(p)[i] = written[p][i]
               /\ i \notin DOMAIN written[p] => Visible(p)[i] = rows[i]
  <1>1. written[p] \in SomeRows /\ rows \in [Requests -> Row]
    BY DEF IInv, InHand, TypeOK
  <1>2. \A i \in DOMAIN written[p] : written[p][i] \in Row
    BY <1>1, RowsOf
  <1> QED
    BY <1>1, <1>2 DEF Visible

(* A transaction that remembers nothing is one.                            *)
LEMMA FreshType ==
  ASSUME NEW pc \in PCs
  PROVE  Fresh(pc) \in Tx /\ Fresh(pc).pc = pc
  BY DEF Fresh, Tx, Absent, Row, Statuses

(* Objects that were read are rows.                                        *)
LEMMA ObjectsType ==
  ASSUME NEW table \in [Requests -> Row], NEW S
  PROVE  /\ Objects(table, S) \in [Requests -> Row]
         /\ \A i \in S \cap Requests : Objects(table, S)[i] = table[i]
  BY DEF Objects, Absent, Row, Statuses

(* Only the transaction of p moves, and where it gets to, it has what it   *)
(* needs.                                                                  *)
Moves(p) == tx' = [tx EXCEPT ![p] = tx'[p]]
Ready(p) ==
    /\ tx[p] \in Tx
    /\ tx[p].pc \in HasRow => tx[p].row \in Requests
    /\ tx[p].pc \in HasWorker => tx[p].worker \in Workers
    /\ tx[p].pc \in {"query", "assign", "mark_error"}
          => worker_lock[tx[p].worker] = p
Holds(p) ==
    \A i \in DOMAIN written[p] : written[p][i] \in Row /\ row_lock[i] = p

(* The invariant in parts that follow the variables.                       *)
Base ==
    /\ rows \in [Requests -> Row]
    /\ tx \in [Procs -> Tx]
    /\ row_lock \in [Requests -> Procs \cup {None}]
    /\ worker_lock \in [Workers -> Procs \cup {None}]
    /\ failures \in 0..MaxFailures
    /\ written \in [Procs -> SomeRows]

(* The parts of the invariant.                                             *)
LEMMA Parts ==
  IInv <=> /\ Base /\ NothingGiven /\ WrittenKeeps /\ StaleAgrees
           /\ \A p \in Procs : Ready(p) /\ Holds(p)
  BY DEF IInv, Base, TypeOK, InHand, Ready, Holds

(* The parts of the invariant after a step.                                *)
LEMMA PartsAfter ==
  ASSUME Base', NothingGiven', WrittenKeeps', StaleAgrees',
         \A p \in Procs : Ready(p)' /\ Holds(p)'
  PROVE  IInv'
  BY DEF IInv, Base, TypeOK, InHand, Ready, Holds

-----------------------------------------------------------------------------
(* What save() does to the tables.                                         *)
LEMMA SaveTables ==
  ASSUME IInv, NEW p \in Procs, NEW new \in SomeRows, Save(p, new)
  PROVE  /\ written' \in [Procs -> SomeRows]
         /\ row_lock' \in [Requests -> Procs \cup {None}]
         /\ \A q \in Procs \ {p} : written'[q] = written[q]
         /\ DOMAIN written'[p] = DOMAIN written[p] \cup DOMAIN new
         /\ \A i \in DOMAIN new : written'[p][i] = new[i]
         /\ \A i \in DOMAIN written[p] \ DOMAIN new :
               written'[p][i] = written[p][i]
         /\ \A i \in Requests \ DOMAIN new : row_lock'[i] = row_lock[i]
         /\ \A i \in DOMAIN new : row_lock'[i] = p
         /\ \A i \in DOMAIN new : row_lock[i] \in {None, p}
         /\ \A q \in Procs : Holds(q)'
  <1> DEFINE both == [i \in DOMAIN written[p] \cup DOMAIN new |->
                        IF i \in DOMAIN new THEN new[i] ELSE written[p][i]]
  <1>1. /\ written \in [Procs -> SomeRows]
        /\ row_lock \in [Requests -> Procs \cup {None}]
        /\ \A q \in Procs : Holds(q)
    BY Parts DEF Base
  <1>2. /\ DOMAIN new \subseteq Requests
        /\ \A i \in DOMAIN new : new[i] \in Row
    BY RowsOf
  <1>3. /\ \A q \in Procs : DOMAIN written[q] \subseteq Requests
        /\ \A i \in DOMAIN written[p] : written[p][i] \in Row
    BY <1>1, RowsOf
  <1>4. both \in [DOMAIN written[p] \cup DOMAIN new -> Row]
    BY <1>2, <1>3
  <1>5. both \in SomeRows
    <2>1. DOMAIN written[p] \cup DOMAIN new \in SUBSET Requests
      BY <1>2, <1>3
    <2> QED
      BY <1>4, <2>1 DEF SomeRows
  <1>6. written' = [written EXCEPT ![p] = both]
    BY DEF Save
  <1>7. /\ written' \in [Procs -> SomeRows] /\ written'[p] = both
        /\ \A q \in Procs \ {p} : written'[q] = written[q]
    BY <1>1, <1>5, <1>6
  <1>8. /\ DOMAIN written'[p] = DOMAIN written[p] \cup DOMAIN new
        /\ \A i \in DOMAIN new : written'[p][i] = new[i]
        /\ \A i \in DOMAIN written[p] \ DOMAIN new :
               written'[p][i] = written[p][i]
    BY <1>7
  <1>9. /\ row_lock' \in [Requests -> Procs \cup {None}]
        /\ \A i \in Requests \ DOMAIN new : row_lock'[i] = row_lock[i]
        /\ \A i \in DOMAIN new : row_lock'[i] = p
    BY <1>1, <1>2 DEF Save
  <1>10. \A i \in DOMAIN new : row_lock[i] \in {None, p}
    BY DEF Save, Locked
  <1>11. \A q \in Procs : Holds(q)'
    <2> SUFFICES ASSUME NEW q \in Procs, NEW i \in DOMAIN written'[q]
                 PROVE  written'[q][i] \in Row /\ row_lock'[i] = q
      BY DEF Holds
    <2>1. CASE q = p
      BY <2>1, <1>1, <1>2, <1>3, <1>8, <1>9 DEF Holds
    <2>2. CASE q # p
      <3>1. i \in DOMAIN written[q] /\ written'[q] = written[q]
        BY <2>2, <1>7
      <3>2. written[q][i] \in Row /\ row_lock[i] = q /\ i \in Requests
        BY <3>1, <1>1, <1>3 DEF Holds
      <3>3. i \notin DOMAIN new
        BY <3>2, <2>2, <1>10, SchedulerAssumption
      <3> QED
        BY <3>1, <3>2, <3>3, <1>9
    <2> QED
      BY <2>1, <2>2
  <1> QED
    BY <1>7, <1>8, <1>9, <1>10, <1>11

(* What may be written: a row that is in progress is new, or was given to  *)
(* nobody or to the same worker, or is the object of a mark_running().     *)
GoodNew(p, new) ==
    \A i \in DOMAIN new :
        LET now == Visible(p)[i]
        IN  /\ new[i].status = "absent" => now.status = "absent"
            /\ InProgress(new[i]) =>
                  \/ now.status = "absent"
                  \/ InProgress(now) /\ now.worker \in {None, new[i].worker}
                  \/ Reader(p, i) /\ new[i].worker = tx[p].read[i].worker

(* Nobody comes to read an object for mark_running().                      *)
NoNewReader ==
    \A q \in Procs, i \in Requests :
        Reader(q, i)' => Reader(q, i) /\ tx'[q].read[i] = tx[q].read[i]

(* save() keeps what is in progress with its worker.                       *)
LEMMA SaveKeeps ==
  ASSUME IInv, NEW p \in Procs, NEW new \in SomeRows, Save(p, new),
         GoodNew(p, new), NoNewReader
  PROVE  WrittenKeeps' /\ StaleAgrees'
  <1>1. /\ \A q \in Procs \ {p} : written'[q] = written[q]
        /\ DOMAIN written'[p] = DOMAIN written[p] \cup DOMAIN new
        /\ \A i \in DOMAIN new : written'[p][i] = new[i]
        /\ \A i \in DOMAIN written[p] \ DOMAIN new :
               written'[p][i] = written[p][i]
    BY SaveTables
  <1>2. rows' = rows /\ DOMAIN new \subseteq Requests
    BY RowsOf DEF Save
  <1>3. WrittenKeeps /\ StaleAgrees
    BY DEF IInv
  <1>4. \A i \in Requests :
           /\ i \in DOMAIN written[p] => Visible(p)[i] = written[p][i]
           /\ i \notin DOMAIN written[p] => Visible(p)[i] = rows[i]
    BY VisibleType
  <1>5. \A i \in DOMAIN new :
           /\ Visible(p)[i].status = "absent" => rows[i].status = "absent"
           /\ InProgress(Visible(p)[i]) /\ InProgress(rows[i])
                 /\ rows[i].worker # None
              => Visible(p)[i].worker = rows[i].worker
    BY <1>2, <1>3, <1>4 DEF WrittenKeeps
  <1>6. ASSUME NEW i \in DOMAIN new, InProgress(new[i]),
               InProgress(rows[i]), rows[i].worker # None
        PROVE  new[i].worker = rows[i].worker
    <2>1. rows[i].status # "absent" /\ i \in Requests
      BY <1>2, <1>6 DEF InProgress
    <2>2. Reader(p, i) => tx[p].read[i].worker = rows[i].worker
      BY <2>1, <1>3, <1>6 DEF StaleAgrees
    <2> QED
      BY <2>1, <2>2, <1>5, <1>6 DEF GoodNew
  <1>7. WrittenKeeps'
    <2> SUFFICES ASSUME NEW q \in Procs, NEW i \in DOMAIN written'[q]
                 PROVE
           /\ written'[q][i].status = "absent" => rows[i].status = "absent"
           /\ /\ InProgress(rows[i]) /\ rows[i].worker # None
              /\ InProgress(written'[q][i])
              => written'[q][i].worker = rows[i].worker
      BY <1>2 DEF WrittenKeeps, InProgress
    <2>1. CASE q = p /\ i \in DOMAIN new
      BY <2>1, <1>1, <1>5, <1>6 DEF GoodNew
    <2>2. CASE ~(q = p /\ i \in DOMAIN new)
      BY <2>2, <1>1, <1>3 DEF WrittenKeeps
    <2> QED
      BY <2>1, <2>2
  <1>8. StaleAgrees'
    <2> SUFFICES ASSUME NEW r \in Procs, NEW i \in Requests, Reader(r, i)'
                 PROVE
           LET k == tx'[r].read[i].worker
           IN  /\ k # None
               /\ rows[i].status # "absent"
               /\ InProgress(rows[i]) => rows[i].worker = k
               /\ \A q \in Procs :
                     /\ i \in DOMAIN written'[q] /\ InProgress(written'[q][i])
                        => written'[q][i].worker = k
                     /\ Reader(q, i)' => tx'[q].read[i].worker = k
      BY <1>2 DEF StaleAgrees, InProgress
    <2> DEFINE k == tx[r].read[i].worker
    <2>1. Reader(r, i) /\ tx'[r].read[i].worker = k
      BY DEF NoNewReader
    <2>2. /\ k # None /\ rows[i].status # "absent"
          /\ InProgress(rows[i]) => rows[i].worker = k
          /\ \A q \in Procs :
                /\ i \in DOMAIN written[q] /\ InProgress(written[q][i])
                   => written[q][i].worker = k
                /\ Reader(q, i) => tx[q].read[i].worker = k
      BY <2>1, <1>3 DEF StaleAgrees
    <2>3. \A q \in Procs : Reader(q, i)' => tx'[q].read[i].worker = k
      BY <2>2 DEF NoNewReader
    <2>4. ASSUME i \in DOMAIN new, InProgress(new[i])
          PROVE  new[i].worker = k
      <3>1. InProgress(Visible(p)[i]) => Visible(p)[i].worker = k
        BY <1>4, <2>2
      <3>2. Visible(p)[i].status # "absent"
        BY <1>5, <2>2, <2>4
      <3> QED
        BY <3>1, <3>2, <2>2, <2>4 DEF GoodNew
    <2>5. ASSUME NEW q \in Procs, i \in DOMAIN written'[q],
                 InProgress(written'[q][i])
          PROVE  written'[q][i].worker = k
      <3>1. CASE q = p /\ i \in DOMAIN new
        BY <3>1, <1>1, <2>4, <2>5
      <3>2. CASE ~(q = p /\ i \in DOMAIN new)
        BY <3>2, <1>1, <2>2, <2>5
      <3> QED
        BY <3>1, <3>2
    <2> QED
      BY <2>1, <2>2, <2>3, <2>5
  <1> QED
    BY <1>7, <1>8

-----------------------------------------------------------------------------
(* A transaction that moves disturbs no other.                             *)
LEMMA OthersReady ==
  ASSUME IInv, NEW p \in Procs, Moves(p), Ready(p)', UNCHANGED worker_lock
  PROVE  /\ tx' \in [Procs -> Tx]
         /\ \A q \in Procs \ {p} : tx'[q] = tx[q]
         /\ \A q \in Procs : Ready(q)'
  <1>1. tx \in [Procs -> Tx] /\ \A q \in Procs : Ready(q)
    BY Parts DEF Base
  <1>2. tx'[p] \in Tx
    BY DEF Ready
  <1>3. tx' \in [Procs -> Tx] /\ \A q \in Procs \ {p} : tx'[q] = tx[q]
    BY <1>1, <1>2 DEF Moves
  <1>4. \A q \in Procs \ {p} : Ready(q)'
    BY <1>1, <1>3 DEF Ready
  <1> QED
    BY <1>3, <1>4

(* A step that saves some rows.                                            *)
LEMMA SaveMoves ==
  ASSUME IInv, NEW p \in Procs, NEW new \in SomeRows, Save(p, new),
         GoodNew(p, new), Moves(p), Ready(p)',
         tx'[p].pc \notin {"idle", "mark_running"},
         tx'[p].pc \in {"mark_aborted", "next"} =>
            /\ tx[p].pc = "mark_aborted"
            /\ \A i \in DOMAIN new : InProgress(new[i]) => new[i].worker = None
  PROVE  IInv'
  <1>1. /\ tx' \in [Procs -> Tx]
        /\ \A q \in Procs \ {p} : tx'[q] = tx[q]
        /\ \A q \in Procs : Ready(q)'
    BY OthersReady DEF Save
  <1>2. NoNewReader
    BY <1>1 DEF NoNewReader, Reader, At
  <1>3. WrittenKeeps' /\ StaleAgrees'
    BY <1>2, SaveKeeps
  <1>4. /\ written' \in [Procs -> SomeRows]
        /\ row_lock' \in [Requests -> Procs \cup {None}]
        /\ \A q \in Procs : Holds(q)'
    BY SaveTables
  <1>5. Base'
    <2>1. Base
      BY Parts
    <2> QED
      BY <2>1, <1>1, <1>4 DEF Base, Save
  <1>6. NothingGiven'
    <2>1. /\ \A q \in Procs \ {p} : written'[q] = written[q]
          /\ DOMAIN written'[p] = DOMAIN written[p] \cup DOMAIN new
          /\ \A i \in DOMAIN new : written'[p][i] = new[i]
          /\ \A i \in DOMAIN written[p] \ DOMAIN new :
                written'[p][i] = written[p][i]
      BY SaveTables
    <2>2. NothingGiven
      BY DEF IInv
    <2> SUFFICES ASSUME NEW q \in Procs
                 PROVE
           /\ tx'[q].pc = "idle" => DOMAIN written'[q] = {}
           /\ tx'[q].pc \in {"idle", "mark_aborted", "next"} =>
                 \A i \in DOMAIN written'[q] :
                    InProgress(written'[q][i]) => written'[q][i].worker = None
      BY DEF NothingGiven, At, InProgress
    <2>3. CASE q = p
      BY <2>1, <2>2, <2>3 DEF NothingGiven
    <2>4. CASE q # p
      BY <2>1, <2>2, <2>4, <1>1 DEF NothingGiven, At
    <2> QED
      BY <2>3, <2>4
  <1> QED
    BY <1>1, <1>3, <1>4, <1>5, <1>6, PartsAfter

(* What an object that is to be saved as running must agree with.          *)
Agrees(p) ==
    LET i == tx[p].row
        k == tx[p].read[i].worker
    IN  At(p, "mark_running") =>
          /\ k # None /\ rows[i].status # "absent"
          /\ InProgress(rows[i]) => rows[i].worker = k
          /\ \A q \in Procs :
                /\ i \in DOMAIN written[q] /\ InProgress(written[q][i])
                   => written[q][i].worker = k
                /\ Reader(q, i) => tx[q].read[i].worker = k

(* A step that writes nothing.                                             *)
LEMMA ReadMoves ==
  ASSUME IInv, NEW p \in Procs, Moves(p), Ready(p)', Agrees(p)',
         UNCHANGED <<rows, written, row_lock, worker_lock, failures>>,
         tx'[p].pc # "idle",
         tx'[p].pc \in {"mark_aborted", "next"} =>
            tx[p].pc \in {"idle", "mark_aborted", "next"}
  PROVE  IInv'
  <1>1. /\ tx' \in [Procs -> Tx]
        /\ \A q \in Procs \ {p} : tx'[q] = tx[q]
        /\ \A q \in Procs : Ready(q)'
    BY OthersReady
  <1>2. Base' /\ \A q \in Procs : Holds(q)'
    <2>1. Base /\ \A q \in Procs : Holds(q)
      BY Parts
    <2> QED
      BY <2>1, <1>1 DEF Base, Holds
  <1>3. WrittenKeeps'
    BY DEF IInv, WrittenKeeps, InProgress
  <1>4. NothingGiven'
    <2>1. NothingGiven
      BY DEF IInv
    <2> SUFFICES ASSUME NEW q \in Procs
                 PROVE
           /\ tx'[q].pc = "idle" => DOMAIN written[q] = {}
           /\ tx'[q].pc \in {"idle", "mark_aborted", "next"} =>
                 \A i \in DOMAIN written[q] :
                    InProgress(written[q][i]) => written[q][i].worker = None
      BY DEF NothingGiven, At, InProgress
    <2> QED
      BY <2>1, <1>1 DEF NothingGiven, At
  <1>5. StaleAgrees'
    <2>1. StaleAgrees
      BY DEF IInv
    <2> SUFFICES ASSUME NEW r \in Procs, NEW i \in Requests, Reader(r, i)'
                 PROVE
           LET k == tx'[r].read[i].worker
           IN  /\ k # None
               /\ rows[i].status # "absent"
               /\ InProgress(rows[i]) => rows[i].worker = k
               /\ \A q \in Procs :
                     /\ i \in DOMAIN written[q] /\ InProgress(written[q][i])
                        => written[q][i].worker = k
                     /\ Reader(q, i)' => tx'[q].read[i].worker = k
      BY DEF StaleAgrees, InProgress
    <2>2. CASE r = p
      BY <2>2 DEF Agrees, Reader, At, InProgress
    <2>3. CASE r # p
      <3> DEFINE k == tx[r].read[i].worker
      <3>1. Reader(r, i) /\ tx'[r] = tx[r]
        BY <2>3, <1>1 DEF Reader, At
      <3>2. /\ k # None /\ rows[i].status # "absent"
            /\ InProgress(rows[i]) => rows[i].worker = k
            /\ \A q \in Procs :
                  /\ i \in DOMAIN written[q] /\ InProgress(written[q][i])
                     => written[q][i].worker = k
                  /\ Reader(q, i) => tx[q].read[i].worker = k
        BY <3>1, <2>1 DEF StaleAgrees
      <3>3. Reader(p, i)' => tx'[p].read[i].worker = k
        BY <3>1 DEF Agrees, Reader, At
      <3>4. \A q \in Procs : Reader(q, i)' => tx'[q].read[i].worker = k
        BY <3>2, <3>3, <1>1 DEF Reader, At
      <3> QED
        BY <3>1, <3>2, <3>4
    <2> QED
      BY <2>2, <2>3
  <1> QED
    BY <1>1, <1>2, <1>3, <1>4, <1>5, PartsAfter

(* The end of a transaction, with or without effect.                       *)
LEMMA Ended ==
  ASSUME IInv, NEW p \in Procs, End(p), failures' \in 0..MaxFailures,
         rows' = rows \/ rows' = Visible(p)
  PROVE  IInv'
  <1>1. /\ Base /\ NothingGiven /\ WrittenKeeps /\ StaleAgrees
        /\ \A q \in Procs : Ready(q) /\ Holds(q)
    BY Parts
  <1>2. /\ tx' \in [Procs -> Tx] /\ tx'[p].pc = "idle"
        /\ \A q \in Procs \ {p} : tx'[q] = tx[q]
    <2>1. Fresh("idle") \in Tx /\ Fresh("idle").pc = "idle"
      BY FreshType DEF PCs
    <2> QED
      BY <2>1, <1>1 DEF End, Base
  <1>3. /\ written' \in [Procs -> SomeRows] /\ DOMAIN written'[p] = {}
        /\ \A q \in Procs \ {p} : written'[q] = written[q]
    BY <1>1, NoneWritten DEF End, Base
  <1>4. /\ row_lock' \in [Requests -> Procs \cup {None}]
        /\ \A i \in Requests : row_lock[i] # p => row_lock'[i] = row_lock[i]
    BY <1>1 DEF End, Base
  <1>5. /\ worker_lock' \in [Workers -> Procs \cup {None}]
        /\ \A k \in Workers : worker_lock[k] # p
                              => worker_lock'[k] = worker_lock[k]
    BY <1>1 DEF End, Base
  <1>6. rows' \in [Requests -> Row]
    BY <1>1, VisibleType DEF Base
  <1>7. Base'
    BY <1>2, <1>3, <1>4, <1>5, <1>6 DEF Base
  <1>8. \A q \in Procs : DOMAIN written[q] \subseteq Requests
    BY <1>1, RowsOf DEF Base
  <1>9. \A q \in Procs : Ready(q)' /\ Holds(q)'
    <2>1. Ready(p)' /\ Holds(p)'
      BY <1>2, <1>3 DEF Ready, Holds, HasRow, HasWorker
    <2>2. ASSUME NEW q \in Procs \ {p}
          PROVE  Ready(q)' /\ Holds(q)'
      <3>1. Ready(q) /\ Holds(q) /\ tx'[q] = tx[q] /\ written'[q] = written[q]
        BY <1>1, <1>2, <1>3
      <3>2. Holds(q)'
        BY <3>1, <1>4, <1>8 DEF Holds
      <3>3. Ready(q)'
        BY <3>1, <1>5 DEF Ready, HasWorker
      <3> QED
        BY <3>2, <3>3
    <2> QED
      BY <2>1, <2>2
  <1>10. NothingGiven'
    <2> SUFFICES ASSUME NEW q \in Procs
                 PROVE
           /\ tx'[q].pc = "idle" => DOMAIN written'[q] = {}
           /\ tx'[q].pc \in {"idle", "mark_aborted", "next"} =>
                 \A i \in DOMAIN written'[q] :
                    InProgress(written'[q][i]) => written'[q][i].worker = None
      BY DEF NothingGiven, At, InProgress
    <2> QED
      BY <1>1, <1>2, <1>3 DEF NothingGiven, At
  <1>11. \A i \in Requests :
            \/ rows'[i] = rows[i]
            \/ i \in DOMAIN written[p] /\ rows'[i] = written[p][i]
    BY VisibleType
  <1>12. WrittenKeeps'
    <2> SUFFICES ASSUME NEW q \in Procs, NEW i \in DOMAIN written'[q]
                 PROVE
           /\ written'[q][i].status = "absent" => rows'[i].status = "absent"
           /\ /\ InProgress(rows'[i]) /\ rows'[i].worker # None
              /\ InProgress(written'[q][i])
              => written'[q][i].worker = rows'[i].worker
      BY DEF WrittenKeeps, InProgress
    <2>1. q # p /\ written'[q] = written[q] /\ i \in DOMAIN written[q]
      BY <1>3
    <2>2. i \notin DOMAIN written[p] /\ i \in Requests
      BY <2>1, <1>1, <1>8 DEF Holds
    <2>3. rows'[i] = rows[i]
      BY <2>2, <1>11
    <2> QED
      BY <2>1, <2>3, <1>1 DEF WrittenKeeps
  <1>13. StaleAgrees'
    <2> SUFFICES ASSUME NEW r \in Procs, NEW i \in Requests, Reader(r, i)'
                 PROVE
           LET k == tx'[r].read[i].worker
           IN  /\ k # None
               /\ rows'[i].status # "absent"
               /\ InProgress(rows'[i]) => rows'[i].worker = k
               /\ \A q \in Procs :
                     /\ i \in DOMAIN written'[q] /\ InProgress(written'[q][i])
                        => written'[q][i].worker = k
                     /\ Reader(q, i)' => tx'[q].read[i].worker = k
      BY DEF StaleAgrees, InProgress
    <2> DEFINE k == tx[r].read[i].worker
    <2>1. Reader(r, i) /\ tx'[r] = tx[r]
      BY <1>2 DEF Reader, At
    <2>2. /\ k # None /\ rows[i].status # "absent"
          /\ InProgress(rows[i]) => rows[i].worker = k
          /\ \A q \in Procs :
                /\ i \in DOMAIN written[q] /\ InProgress(written[q][i])
                   => written[q][i].worker = k
                /\ Reader(q, i) => tx[q].read[i].worker = k
      BY <2>1, <1>1 DEF StaleAgrees
    <2>3. /\ rows'[i].status # "absent"
          /\ InProgress(rows'[i]) => rows'[i].worker = k
      BY <2>2, <1>1, <1>11 DEF WrittenKeeps
    <2>4. \A q \in Procs :
             /\ i \in DOMAIN written'[q] /\ InProgress(written'[q][i])
                => written'[q][i].worker = k
             /\ Reader(q, i)' => tx'[q].read[i].worker = k
      BY <2>2, <1>2, <1>3 DEF Reader, At
    <2> QED
      BY <2>1, <2>2, <2>3, <2>4
  <1> QED
    BY <1>7, <1>9, <1>10, <1>12, <1>13, PartsAfter

-----------------------------------------------------------------------------
(* Where transactions go.                                                  *)

(* What the invariant says of a transaction under way.                     *)
LEMMA TxFacts ==
  ASSUME IInv, NEW p \in Procs
  PROVE  /\ tx \in [Procs -> Tx] /\ tx[p] \in Tx /\ Ready(p)
         /\ rows \in [Requests -> Row]
         /\ tx[p].read \in [Requests -> Row]
         /\ tx[p].todo \subseteq Requests
  <1>1. tx \in [Procs -> Tx] /\ Ready(p) /\ rows \in [Requests -> Row]
    BY Parts DEF Base
  <1>2. tx[p] \in Tx
    BY <1>1
  <1>3. tx[p].read \in [Requests -> Row] /\ tx[p].todo \subseteq Requests
    BY <1>2 DEF Tx
  <1> QED
    BY <1>1, <1>2, <1>3

(* A transaction that ends has nothing in hand.                            *)
LEMMA EndingMoves ==
  ASSUME IInv, NEW p \in Procs, Ending(p)
  PROVE  Moves(p) /\ Ready(p)' /\ tx'[p].pc = "commit"
  <1>1. Fresh("commit") \in Tx /\ Fresh("commit").pc = "commit"
    BY FreshType DEF PCs
  <1>2. tx'[p] = Fresh("commit") /\ Moves(p)
    BY TxFacts DEF Ending, Moves
  <1> QED
    BY <1>1, <1>2 DEF Ready, HasRow, HasWorker

(* The loop of a pass that has the lock of its worker.                     *)
LEMMA LoopMoves ==
  ASSUME IInv, NEW p \in Procs, NEW todo \in SUBSET Requests,
         NEW objects \in [Requests -> Row], loop(p, todo, objects),
         tx[p].pc \in {"query", "assign", "mark_error"}, UNCHANGED worker_lock
  PROVE  Moves(p) /\ Ready(p)' /\ tx'[p].pc \in {"assign", "commit"}
  <1>1. CASE todo = {} /\ Ending(p)
    BY <1>1, EndingMoves
  <1>2. ASSUME NEW i \in todo,
               tx' = [tx EXCEPT ![p].pc = "assign", ![p].row = i,
                                ![p].todo = todo \ {i},
                                ![p].read = Objects(objects, todo)]
        PROVE  Moves(p) /\ Ready(p)' /\ tx'[p].pc \in {"assign", "commit"}
    <2>1. Objects(objects, todo) \in [Requests -> Row]
      BY ObjectsType
    <2>2. tx \in [Procs -> Tx] /\ tx[p] \in Tx /\ Ready(p)
      BY TxFacts
    <2>3. /\ tx'[p] = [tx[p] EXCEPT !.pc = "assign", !.row = i,
                                    !.todo = todo \ {i},
                                    !.read = Objects(objects, todo)]
          /\ Moves(p)
      BY <1>2, <2>2 DEF Moves
    <2>4. /\ tx'[p] \in Tx /\ tx'[p].pc = "assign" /\ tx'[p].row = i
          /\ tx'[p].worker = tx[p].worker
      BY <2>1, <2>2, <2>3 DEF Tx, PCs
    <2>5. tx[p].worker \in Workers /\ worker_lock[tx[p].worker] = p
      BY <2>2 DEF Ready, HasWorker
    <2> QED
      BY <2>3, <2>4, <2>5 DEF Ready
  <1> QED
    BY <1>1, <1>2 DEF loop

(* A pass that goes on with the next request.                              *)
LEMMA ContinueMoves ==
  ASSUME IInv, NEW p \in Procs, Continue(p), UNCHANGED worker_lock,
         tx[p].pc \in {"assign", "mark_error"}
  PROVE  Moves(p) /\ Ready(p)' /\ tx'[p].pc \in {"assign", "commit"}
  BY TxFacts, LoopMoves DEF Continue

(* A pass that finds its request to be broken.                             *)
LEMMA ErrorMoves ==
  ASSUME IInv, NEW p \in Procs, At(p, "assign"), Goto(p, "mark_error"),
         UNCHANGED worker_lock
  PROVE  Moves(p) /\ Ready(p)' /\ tx'[p].pc = "mark_error"
  <1>1. tx \in [Procs -> Tx] /\ tx[p] \in Tx /\ Ready(p)
    BY TxFacts
  <1>2. tx'[p] = [tx[p] EXCEPT !.pc = "mark_error"] /\ Moves(p)
    BY <1>1 DEF Goto, Moves
  <1>3. /\ tx'[p] \in Tx /\ tx'[p].pc = "mark_error"
        /\ tx'[p].worker = tx[p].worker /\ tx'[p].row = tx[p].row
    BY <1>1, <1>2 DEF Tx, PCs
  <1> QED
    BY <1>1, <1>2, <1>3 DEF Ready, At, HasRow, HasWorker

(* A transaction that begins.                                              *)
LEMMA BeginInv ==
  ASSUME IInv, NEW p \in Procs, NEW pc \in PCs, NEW k \in Workers \cup {None},
         NEW i \in Requests \cup {None}, NEW todo \in SUBSET Requests,
         Begin(p, pc, k, i, todo),
         pc \notin {"idle", "query", "assign", "mark_error", "mark_running"},
         pc \in HasRow => i \in Requests, pc \in HasWorker => k \in Workers
  PROVE  IInv'
  <1> DEFINE t == [pc |-> pc, worker |-> k, row |-> i, todo |-> todo,
                   read |-> Objects(rows, todo \cup {i})]
  <1>1. tx \in [Procs -> Tx] /\ rows \in [Requests -> Row]
    BY TxFacts
  <1>2. t \in Tx
    BY <1>1, ObjectsType DEF Tx
  <1>3. tx'[p] = t /\ Moves(p)
    BY <1>1 DEF Begin, Moves
  <1>4. Ready(p)'
    BY <1>2, <1>3 DEF Ready
  <1>5. Agrees(p)'
    BY <1>3 DEF Agrees, At
  <1> QED
    BY <1>3, <1>4, <1>5, ReadMoves DEF Begin, At

(* Whoever does not mark_running() next has nothing to agree with.         *)
LEMMA NothingToAgree ==
  ASSUME NEW p \in Procs, tx'[p].pc # "mark_running"
  PROVE  Agrees(p)'
  BY DEF Agrees, At

-----------------------------------------------------------------------------
(* The pass of the scheduler.                                              *)

(* possible_to_schedule() begins a pass.                                   *)
LEMMA PossibleInv ==
  ASSUME IInv, NEW p \in Procs, NEW k \in Workers, possible_to_schedule(p, k)
  PROVE  IInv'
  BY BeginInv DEF possible_to_schedule, PCs, HasRow, HasWorker

(* lock_worker() takes a lock that nobody has.                             *)
LEMMA LockWorkerInv ==
  ASSUME IInv, NEW p \in Procs, lock_worker(p)
  PROVE  IInv'
  <1>1. /\ Base /\ NothingGiven /\ WrittenKeeps /\ StaleAgrees
        /\ \A q \in Procs : Ready(q) /\ Holds(q)
    BY Parts
  <1>2. tx[p].worker \in Workers /\ tx[p] \in Tx /\ tx[p].pc = "lock_worker"
    BY <1>1 DEF lock_worker, At, Ready, HasWorker
  <1>3. /\ tx'[p] = [tx[p] EXCEPT !.pc = "query"]
        /\ \A q \in Procs \ {p} : tx'[q] = tx[q]
    BY <1>1 DEF lock_worker, Goto, Base
  <1>4. tx'[p] \in Tx /\ tx'[p].pc = "query" /\ tx'[p].worker = tx[p].worker
    BY <1>2, <1>3 DEF Tx, PCs
  <1>5. tx' \in [Procs -> Tx]
    BY <1>1, <1>3, <1>4 DEF lock_worker, Goto, Base
  <1>6. /\ worker_lock' \in [Workers -> Procs \cup {None}]
        /\ worker_lock'[tx[p].worker] = p
        /\ \A k \in Workers : worker_lock[k] # None
                              => worker_lock'[k] = worker_lock[k]
    BY <1>1, <1>2 DEF lock_worker, Base
  <1>7. Base'
    BY <1>1, <1>5, <1>6 DEF lock_worker, Base
  <1>8. ASSUME NEW q \in Procs
        PROVE  Ready(q)' /\ Holds(q)'
    <2>1. Holds(q)'
      BY <1>1 DEF Holds, lock_worker
    <2>2. CASE q = p
      BY <2>1, <2>2, <1>2, <1>4, <1>6 DEF Ready, HasRow
    <2>3. CASE q # p
      <3>1. Ready(q) /\ tx'[q] = tx[q] /\ q # None
        BY <2>3, <1>1, <1>3, SchedulerAssumption
      <3> QED
        BY <2>1, <3>1, <1>6 DEF Ready, HasWorker
    <2> QED
      BY <2>2, <2>3
  <1>9. UNCHANGED <<rows, written>>
    BY DEF lock_worker
  <1>10. NothingGiven'
    <2> SUFFICES ASSUME NEW q \in Procs
                 PROVE
           /\ tx'[q].pc = "idle" => DOMAIN written[q] = {}
           /\ tx'[q].pc \in {"idle", "mark_aborted", "next"} =>
                 \A i \in DOMAIN written[q] :
                    InProgress(written[q][i]) => written[q][i].worker = None
      BY <1>9 DEF NothingGiven, At, InProgress
    <2> QED
      BY <1>1, <1>3, <1>4 DEF NothingGiven, At
  <1>11. WrittenKeeps'
    BY <1>1, <1>9 DEF WrittenKeeps, InProgress
  <1>12. \A q \in Procs, i \in Requests :
            /\ Reader(q, i)' <=> Reader(q, i)
            /\ Reader(q, i) => tx'[q] = tx[q]
    BY <1>2, <1>3, <1>4 DEF Reader, At
  <1>13. StaleAgrees'
    BY <1>1, <1>9, <1>12 DEF StaleAgrees, InProgress
  <1> QED
    BY <1>7, <1>8, <1>10, <1>11, <1>13, PartsAfter

(* query() only reads.                                                     *)
LEMMA QueryInv ==
  ASSUME IInv, NEW p \in Procs, query(p)
  PROVE  IInv'
  <1> DEFINE found == {i \in Requests : /\ rows[i].status = "pending"
                                        /\ rows[i].worker = None}
  <1>1. found \in SUBSET Requests /\ rows \in [Requests -> Row]
    BY TxFacts
  <1>2. loop(p, found, rows) /\ tx[p].pc = "query"
    BY DEF query, At
  <1>3. UNCHANGED <<rows, written, row_lock, worker_lock, failures>>
    BY DEF query
  <1>4. Moves(p) /\ Ready(p)' /\ tx'[p].pc \in {"assign", "commit"}
    BY <1>1, <1>2, <1>3, LoopMoves
  <1> QED
    BY <1>3, <1>4, NothingToAgree, ReadMoves

(* A request that cannot be assigned.                                      *)
LEMMA NotAssignedInv ==
  ASSUME IInv, NEW p \in Procs, not_assigned(p)
  PROVE  IInv'
  <1>1. UNCHANGED <<rows, written, row_lock, worker_lock, failures>>
    BY DEF not_assigned
  <1>2. tx[p].pc = "assign" /\ (Goto(p, "mark_error") \/ Continue(p))
    BY DEF not_assigned, At
  <1>3. /\ Moves(p) /\ Ready(p)'
        /\ tx'[p].pc \in {"assign", "commit", "mark_error"}
    BY <1>1, <1>2, ErrorMoves, ContinueMoves DEF At
  <1> QED
    BY <1>1, <1>3, NothingToAgree, ReadMoves

(* A lock that is not to be had.                                           *)
LEMMA NowaitInv ==
  ASSUME IInv, NEW p \in Procs, nowait_fails(p)
  PROVE  IInv'
  BY Ended DEF nowait_fails, IInv, TypeOK

(* locked_assign() reads the row again, under its lock.                    *)
LEMMA LockedAssignInv ==
  ASSUME IInv, NEW p \in Procs, locked_assign(p)
  PROVE  IInv'
  <1> DEFINE i == tx[p].row
             k == tx[p].worker
             now == Visible(p)[i]
  <1>1. tx[p].pc = "assign" /\ i \in Requests /\ k \in Workers
    BY TxFacts DEF locked_assign, At, Ready, HasRow, HasWorker
  <1>2. now \in Row
    BY <1>1, VisibleType
  <1>3. PICK row \in Row :
           /\ Save(p, One(i, row))
           /\ \/ row = now
              \/ now.worker = None /\ row = [now EXCEPT !.worker = k]
              \/ ~InProgress(row) /\ (row.status = "absent" => now.status = "absent")
           /\ \/ Continue(p) \/ Ending(p) \/ Goto(p, "mark_error")
    <2>1. [now EXCEPT !.worker = k] \in Row
      BY <1>1, <1>2 DEF Row
    <2> DEFINE skipped == [status |-> IF InProgress(now) THEN "completed"
                                                         ELSE now.status,
                           worker |-> k]
    <2>2. /\ skipped \in Row /\ ~InProgress(skipped)
          /\ skipped.status = "absent" => now.status = "absent"
      BY <1>1, <1>2 DEF Row, Statuses, InProgress
    <2> HIDE DEF skipped
    <2>3. \/ Continue(p) /\ Save(p, One(i, now))
          \/ /\ now.worker = None /\ Ending(p)
             /\ Save(p, One(i, [now EXCEPT !.worker = k]))
          \/ Goto(p, "mark_error") /\ Save(p, One(i, now))
          \/ Continue(p) /\ Save(p, One(i, skipped))
      BY DEF locked_assign, skipped
    <2> QED
      BY <1>2, <2>1, <2>2, <2>3
  <1>4. UNCHANGED worker_lock
    BY <1>3 DEF Save
  <1>5. /\ Moves(p) /\ Ready(p)'
        /\ tx'[p].pc \in {"assign", "commit", "mark_error"}
    BY <1>1, <1>3, <1>4, ErrorMoves, ContinueMoves, EndingMoves DEF At
  <1>6. /\ One(i, row) \in SomeRows /\ DOMAIN One(i, row) = {i}
        /\ One(i, row)[i] = row
    BY <1>1, OneRow
  <1>7. GoodNew(p, One(i, row))
    <2>1. InProgress(row) => InProgress(now) /\ now.worker \in {None, row.worker}
      BY <1>1, <1>2, <1>3 DEF InProgress, Row
    <2>2. row.status = "absent" => now.status = "absent"
      BY <1>2, <1>3 DEF Row
    <2> QED
      BY <2>1, <2>2, <1>6 DEF GoodNew
  <1> QED
    BY <1>3, <1>5, <1>6, <1>7, SaveMoves

(* An object that ends is saved, whatever its row has become.              *)
LEMMA GoodEnd ==
  ASSUME IInv, NEW p \in Procs, NEW i \in Requests,
         NEW status \in {"completed", "aborted"}
  PROVE  LET row == [tx[p].read[i] EXCEPT !.status = status]
         IN  row \in Row /\ One(i, row) \in SomeRows /\ GoodNew(p, One(i, row))
  <1> DEFINE row == [tx[p].read[i] EXCEPT !.status = status]
  <1>1. tx[p].read[i] \in Row
    BY TxFacts
  <1>2. row \in Row /\ row.status = status
    BY <1>1 DEF Row, Statuses
  <1> HIDE DEF row
  <1>3. /\ One(i, row) \in SomeRows /\ DOMAIN One(i, row) = {i}
        /\ One(i, row)[i] = row
    BY <1>2, OneRow
  <1>4. GoodNew(p, One(i, row))
    BY <1>2, <1>3 DEF GoodNew, InProgress
  <1> QED
    BY <1>2, <1>3, <1>4 DEF row

(* mark_error() saves what the query returned as completed.                *)
LEMMA MarkErrorInv ==
  ASSUME IInv, NEW p \in Procs, mark_error(p)
  PROVE  IInv'
  <1> DEFINE i == tx[p].row
             row == [tx[p].read[i] EXCEPT !.status = "completed"]
  <1>1. tx[p].pc = "mark_error" /\ i \in Requests
    BY TxFacts DEF mark_error, At, Ready, HasRow
  <1>2. Save(p, One(i, row)) /\ Continue(p) /\ UNCHANGED worker_lock
    BY DEF mark_error, Save
  <1>3. One(i, row) \in SomeRows /\ GoodNew(p, One(i, row))
    BY <1>1, GoodEnd
  <1>4. Moves(p) /\ Ready(p)' /\ tx'[p].pc \in {"assign", "commit"}
    BY <1>1, <1>2, ContinueMoves
  <1> QED
    BY <1>2, <1>3, <1>4, SaveMoves

-----------------------------------------------------------------------------
(* The views of workers.                                                   *)

(* get_next_work_request() begins.                                         *)
LEMMA AskInv ==
  ASSUME IInv, NEW p \in Procs, NEW k \in Workers, get_next_work_request(p, k)
  PROVE  IInv'
  <1> DEFINE running == {i \in Active(rows, k) : rows[i].status = "running"}
  <1>1. running \in SUBSET Requests
    BY DEF Active
  <1>2. \/ Begin(p, "next", k, None, {})
        \/ \E i \in running : Begin(p, "mark_aborted", k, i, running \ {i})
    BY DEF get_next_work_request
  <1>3. CASE Begin(p, "next", k, None, {})
    BY <1>3, BeginInv DEF PCs, HasRow, HasWorker
  <1>4. ASSUME NEW i \in running, Begin(p, "mark_aborted", k, i, running \ {i})
        PROVE  IInv'
    <2>1. i \in Requests /\ running \ {i} \in SUBSET Requests
      BY <1>1
    <2> HIDE DEF running
    <2> QED
      BY <1>4, <2>1, BeginInv DEF PCs, HasRow, HasWorker
  <1> QED
    BY <1>2, <1>3, <1>4

(* The next of the lost requests, or the next request.                     *)
LEMMA LostMoves ==
  ASSUME IInv, NEW p \in Procs, lost(p), At(p, "mark_aborted"),
         UNCHANGED worker_lock
  PROVE  Moves(p) /\ Ready(p)' /\ tx'[p].pc \in {"mark_aborted", "next"}
  <1>1. tx \in [Procs -> Tx] /\ tx[p] \in Tx /\ Ready(p)
    BY TxFacts
  <1>2. tx[p].worker \in Workers /\ tx[p].todo \subseteq Requests
    BY <1>1, TxFacts DEF At, Ready, HasWorker
  <1>3. ASSUME NEW i \in tx[p].todo,
               tx' = [tx EXCEPT ![p].pc = "mark_aborted", ![p].row = i,
                                ![p].todo = tx[p].todo \ {i},
                                ![p].read = Objects(@, tx[p].todo)]
        PROVE  Moves(p) /\ Ready(p)' /\ tx'[p].pc \in {"mark_aborted", "next"}
    <2> DEFINE read == Objects(tx[p].read, tx[p].todo)
    <2>1. read \in [Requests -> Row]
      BY TxFacts, ObjectsType
    <2>2. /\ tx'[p] = [tx[p] EXCEPT !.pc = "mark_aborted", !.row = i,
                                    !.todo = tx[p].todo \ {i}, !.read = read]
          /\ Moves(p)
      BY <1>1, <1>3 DEF Moves
    <2> HIDE DEF read
    <2>3. /\ tx'[p] \in Tx /\ tx'[p].pc = "mark_aborted" /\ tx'[p].row = i
          /\ tx'[p].worker = tx[p].worker
      BY <1>1, <1>2, <2>1, <2>2 DEF Tx, PCs
    <2> QED
      BY <1>2, <2>2, <2>3 DEF Ready
  <1>4. CASE tx' = [tx EXCEPT ![p] = [Fresh("next") EXCEPT
                                        !.worker = tx[p].worker]]
    <2>1. Fresh("next") \in Tx /\ Fresh("next").pc = "next"
      BY FreshType DEF PCs
    <2>2. tx'[p] = [Fresh("next") EXCEPT !.worker = tx[p].worker] /\ Moves(p)
      BY <1>1, <1>4 DEF Moves
    <2>3. /\ tx'[p] \in Tx /\ tx'[p].pc = "next"
          /\ tx'[p].worker = tx[p].worker
      BY <1>2, <2>1, <2>2 DEF Tx
    <2> QED
      BY <1>2, <2>2, <2>3 DEF Ready, HasRow
  <1> QED
    BY <1>3, <1>4 DEF lost

(* mark_aborted() and a retry, which creates a row.                        *)
LEMMA MarkAbortedInv ==
  ASSUME IInv, NEW p \in Procs, mark_aborted(p)
  PROVE  IInv'
  <1> DEFINE i == tx[p].row
             aborted == [tx[p].read[i] EXCEPT !.status = "aborted"]
             pending == [Absent EXCEPT !.status = "pending"]
             both(j) == [r \in {i, j} |-> IF r = i THEN aborted ELSE pending]
  <1>1. tx[p].pc = "mark_aborted" /\ i \in Requests
    BY TxFacts DEF mark_aborted, At, Ready, HasRow
  <1>2. /\ aborted \in Row
        /\ One(i, aborted) \in SomeRows /\ GoodNew(p, One(i, aborted))
    BY <1>1, GoodEnd
  <1>3. aborted.status = "aborted"
    <2>1. tx[p].read[i] \in Row
      BY <1>1, TxFacts
    <2> QED
      BY <2>1 DEF Row
  <1>4. pending \in Row /\ pending.worker = None /\ pending.status = "pending"
    BY DEF Absent, Row, Statuses
  <1>5. lost(p)
    BY DEF mark_aborted
  <1>6. \/ Save(p, One(i, aborted))
        \/ \E j \in Requests : /\ Visible(p)[j].status = "absent"
                               /\ Save(p, both(j))
    BY DEF mark_aborted
  <1>7. UNCHANGED worker_lock
    BY <1>6 DEF Save
  <1>8. Moves(p) /\ Ready(p)' /\ tx'[p].pc \in {"mark_aborted", "next"}
    BY <1>1, <1>5, <1>7, LostMoves DEF At
  <1> HIDE DEF aborted, pending
  <1>9. CASE Save(p, One(i, aborted))
    <2>1. DOMAIN One(i, aborted) = {i} /\ One(i, aborted)[i] = aborted
      BY <1>1, <1>2, OneRow
    <2>2. \A r \in DOMAIN One(i, aborted) : ~InProgress(One(i, aborted)[r])
      BY <2>1, <1>3 DEF InProgress
    <2> QED
      BY <1>1, <1>2, <1>8, <1>9, <2>2, SaveMoves
  <1>10. ASSUME NEW j \in Requests, Visible(p)[j].status = "absent",
                Save(p, both(j))
         PROVE  IInv'
    <2>1. both(j) \in [{i, j} -> Row]
      BY <1>2, <1>4
    <2>2. {i, j} \in SUBSET Requests
      BY <1>1
    <2>3. both(j) \in SomeRows
      BY <2>1, <2>2 DEF SomeRows
    <2>4. /\ DOMAIN both(j) = {i, j} /\ both(j)[i] = aborted
          /\ j # i => both(j)[j] = pending
      OBVIOUS
    <2> HIDE DEF both
    <2>5. GoodNew(p, both(j))
      BY <2>4, <1>3, <1>4, <1>10 DEF GoodNew, InProgress
    <2>6. \A r \in DOMAIN both(j) :
             InProgress(both(j)[r]) => both(j)[r].worker = None
      BY <2>4, <1>3, <1>4 DEF InProgress
    <2> QED
      BY <1>1, <1>8, <1>10, <2>3, <2>5, <2>6, SaveMoves
  <1> QED
    BY <1>6, <1>9, <1>10

(* next_pending() reads an object that it will save as running.  It sees   *)
(* a committed row, because it has given no request to anybody.            *)
LEMMA NextPendingInv ==
  ASSUME IInv, NEW p \in Procs, next_pending(p)
  PROVE  IInv'
  <1> DEFINE k == tx[p].worker
             seen == Visible(p)
  <1>1. UNCHANGED <<rows, written, row_lock, worker_lock, failures>>
    BY DEF next_pending
  <1>2. /\ tx[p].pc = "next" /\ k \in Workers
        /\ tx \in [Procs -> Tx] /\ tx[p] \in Tx
    BY TxFacts DEF next_pending, At, Ready, HasWorker
  <1>3. CASE Ending(p)
    BY <1>1, <1>3, EndingMoves, NothingToAgree, ReadMoves
  <1>4. ASSUME NEW i \in Requests, seen[i].status = "pending",
               seen[i].worker = k,
               tx' = [tx EXCEPT ![p].pc = "mark_running", ![p].row = i,
                                ![p].read = Objects(seen, {i})]
        PROVE  IInv'
    <2>1. /\ Objects(seen, {i}) \in [Requests -> Row]
          /\ Objects(seen, {i})[i] = seen[i]
      BY VisibleType, ObjectsType
    <2>2. /\ tx'[p] = [tx[p] EXCEPT !.pc = "mark_running", !.row = i,
                                    !.read = Objects(seen, {i})]
          /\ Moves(p) /\ \A q \in Procs \ {p} : tx'[q] = tx[q]
      BY <1>2, <1>4 DEF Moves
    <2>3. /\ tx'[p] \in Tx /\ tx'[p].pc = "mark_running" /\ tx'[p].row = i
          /\ tx'[p].worker = k /\ tx'[p].read[i] = seen[i]
      BY <1>2, <2>1, <2>2 DEF Tx, PCs
    <2>4. Ready(p)'
      BY <1>2, <2>3 DEF Ready
    <2>5. k # None
      BY <1>2, SchedulerAssumption
    <2>6. rows[i].status = "pending" /\ rows[i].worker = k
      <3>1. NothingGiven
        BY DEF IInv
      <3>2. i \notin DOMAIN written[p]
        BY <3>1, <1>2, <1>4, <2>5, VisibleType DEF NothingGiven, InProgress
      <3> QED
        BY <3>2, <1>4, VisibleType
    <2>7. ASSUME NEW q \in Procs, i \in DOMAIN written[q],
                 InProgress(written[q][i])
          PROVE  written[q][i].worker = k
      BY <2>5, <2>6, <2>7 DEF IInv, WrittenKeeps, InProgress
    <2>8. ASSUME NEW q \in Procs, Reader(q, i)'
          PROVE  tx'[q].read[i].worker = k
      <3>1. CASE q = p
        BY <3>1, <2>3, <1>4
      <3>2. CASE q # p
        BY <3>2, <2>2, <2>6, <2>8 DEF IInv, StaleAgrees, Reader, At, InProgress
      <3> QED
        BY <3>1, <3>2
    <2>9. Agrees(p)'
      <3>1. tx'[p].row = i /\ tx'[p].read[i].worker = k
        BY <1>4, <2>3
      <3>2. rows' = rows /\ written' = written
        BY <1>1
      <3>3. rows[i].status # "absent"
        BY <2>6
      <3> HIDE DEF k, seen
      <3> QED
        BY <2>5, <2>6, <2>7, <2>8, <3>1, <3>2, <3>3 DEF Agrees
    <2> QED
      BY <1>1, <2>2, <2>3, <2>4, <2>9, ReadMoves
  <1> QED
    BY <1>3, <1>4 DEF next_pending, Active

(* mark_running() saves what may be stale.                                 *)
LEMMA MarkRunningInv ==
  ASSUME IInv, NEW p \in Procs, mark_running(p)
  PROVE  IInv'
  <1> DEFINE i == tx[p].row
             row == [tx[p].read[i] EXCEPT !.status = "running"]
  <1>1. tx[p].pc = "mark_running" /\ i \in Requests
    BY TxFacts DEF mark_running, At, Ready, HasRow
  <1>2. Moves(p) /\ Ready(p)' /\ tx'[p].pc = "commit"
    BY EndingMoves DEF mark_running
  <1>3. CASE UNCHANGED <<rows, written, row_lock, worker_lock, failures>>
    BY <1>2, <1>3, NothingToAgree, ReadMoves
  <1>4. CASE Save(p, One(i, row))
    <2>1. tx[p].read[i] \in Row
      BY <1>1, TxFacts
    <2>2. /\ row \in Row /\ row.status = "running"
          /\ row.worker = tx[p].read[i].worker
      BY <2>1 DEF Row, Statuses
    <2> HIDE DEF row
    <2>3. /\ One(i, row) \in SomeRows /\ DOMAIN One(i, row) = {i}
          /\ One(i, row)[i] = row
      BY <1>1, <2>2, OneRow
    <2>4. GoodNew(p, One(i, row))
      BY <1>1, <2>2, <2>3 DEF GoodNew, Reader, At
    <2> QED
      BY <1>2, <1>4, <2>3, <2>4, SaveMoves
  <1> QED
    BY <1>3, <1>4 DEF mark_running

(* A report begins.                                                        *)
LEMMA ReportInv ==
  ASSUME IInv, NEW p \in Procs, NEW k \in Workers, NEW i \in Requests,
         update_work_request_as_completed(p, k, i)
  PROVE  IInv'
  <1>1. PICK pc \in {"mark_completed", "commit"} : Begin(p, pc, k, i, {})
    BY DEF update_work_request_as_completed
  <1>2. pc \in PCs /\ pc \notin HasWorker
    BY DEF PCs, HasWorker
  <1> QED
    BY <1>1, <1>2, BeginInv

(* A result is saved.                                                      *)
LEMMA MarkCompletedInv ==
  ASSUME IInv, NEW p \in Procs, mark_completed(p)
  PROVE  IInv'
  <1> DEFINE i == tx[p].row
             row == [tx[p].read[i] EXCEPT !.status = "completed"]
  <1>1. i \in Requests
    BY TxFacts DEF mark_completed, At, Ready, HasRow
  <1>2. Save(p, One(i, row)) /\ Ending(p)
    BY DEF mark_completed
  <1>3. One(i, row) \in SomeRows /\ GoodNew(p, One(i, row))
    BY <1>1, GoodEnd
  <1>4. Moves(p) /\ Ready(p)' /\ tx'[p].pc = "commit"
    BY <1>2, EndingMoves
  <1> QED
    BY <1>2, <1>3, <1>4, SaveMoves

-----------------------------------------------------------------------------
(* Users.                                                                  *)

(* An abort begins.                                                        *)
LEMMA AbortInv ==
  ASSUME IInv, NEW p \in Procs, NEW i \in Requests, abort(p, i)
  PROVE  IInv'
  BY BeginInv DEF abort, PCs, HasWorker

(* locked_abort() saves a row that is over.                                *)
LEMMA LockedAbortInv ==
  ASSUME IInv, NEW p \in Procs, locked_abort(p)
  PROVE  IInv'
  <1> DEFINE i == tx[p].row
             row == [status |-> "aborted", worker |-> None]
  <1>1. i \in Requests
    BY TxFacts DEF locked_abort, At, Ready, HasRow
  <1>2. Save(p, One(i, row)) /\ Ending(p)
    BY DEF locked_abort
  <1>3. row \in Row /\ row.status = "aborted"
    BY DEF Row, Statuses
  <1> HIDE DEF row
  <1>4. /\ One(i, row) \in SomeRows /\ DOMAIN One(i, row) = {i}
        /\ One(i, row)[i] = row
    BY <1>1, <1>3, OneRow
  <1>5. GoodNew(p, One(i, row))
    BY <1>3, <1>4 DEF GoodNew, InProgress
  <1>6. Moves(p) /\ Ready(p)' /\ tx'[p].pc = "commit"
    BY <1>2, EndingMoves
  <1> QED
    BY <1>2, <1>4, <1>5, <1>6, SaveMoves

(* A new row is of nobody, and nobody has written or read it.              *)
LEMMA CreateInv ==
  ASSUME IInv, NEW i \in Requests, create_work_request(i)
  PROVE  IInv'
  <1>1. /\ Base /\ NothingGiven /\ WrittenKeeps /\ StaleAgrees
        /\ \A q \in Procs : Ready(q) /\ Holds(q)
    BY Parts
  <1>2. UNCHANGED <<written, row_lock, worker_lock, tx, failures>>
    BY DEF create_work_request
  <1>3. /\ rows' \in [Requests -> Row]
        /\ \A j \in Requests \ {i} : rows'[j] = rows[j]
    BY <1>1 DEF create_work_request, Base, Row, Statuses
  <1>4. Base' /\ NothingGiven' /\ \A q \in Procs : Ready(q)' /\ Holds(q)'
    BY <1>1, <1>2, <1>3 DEF Base, NothingGiven, Ready, Holds, At, InProgress
  <1>5. \A q \in Procs : i \notin DOMAIN written[q]
    BY <1>1, SchedulerAssumption DEF Holds, create_work_request
  <1>6. \A q \in Procs : DOMAIN written[q] \subseteq Requests
    BY <1>1, RowsOf DEF Base
  <1>7. WrittenKeeps'
    BY <1>1, <1>2, <1>3, <1>5, <1>6 DEF WrittenKeeps, InProgress
  <1>8. \A q \in Procs : ~Reader(q, i)
    BY <1>1 DEF StaleAgrees, create_work_request
  <1>9. StaleAgrees'
    BY <1>1, <1>2, <1>3, <1>8 DEF StaleAgrees, InProgress, Reader, At
  <1> QED
    BY <1>4, <1>7, <1>9, PartsAfter

-----------------------------------------------------------------------------
(* Initially nothing is there.                                             *)
LEMMA InitIInv == Init => IInv
  <1> SUFFICES ASSUME Init PROVE IInv
    OBVIOUS
  <1>1. Fresh("idle") \in Tx /\ Fresh("idle").pc = "idle"
    BY FreshType DEF PCs
  <1>2. Absent \in Row
    BY DEF Absent, Row, Statuses
  <1>3. Base
    BY <1>1, <1>2, NoneWritten, SchedulerAssumption DEF Init, Base
  <1>4. \A p \in Procs : tx[p].pc = "idle" /\ DOMAIN written[p] = {}
    BY <1>1, NoneWritten DEF Init
  <1>5. \A p \in Procs : Ready(p) /\ Holds(p)
    BY <1>3, <1>4 DEF Base, Ready, Holds, HasRow, HasWorker
  <1>6. NothingGiven /\ WrittenKeeps /\ StaleAgrees
    BY <1>4 DEF NothingGiven, WrittenKeeps, StaleAgrees, Reader, At
  <1> QED
    BY <1>3, <1>5, <1>6, Parts

(* Every step keeps the invariant.                                         *)
LEMMA NextIInv == IInv /\ [Next]_vars => IInv'
  <1> SUFFICES ASSUME IInv, [Next]_vars PROVE IInv'
    OBVIOUS
  <1>1. CASE UNCHANGED vars
    BY <1>1 DEF vars, IInv, TypeOK, InHand, NothingGiven, WrittenKeeps,
                StaleAgrees, Reader, At, InProgress
  <1>2. ASSUME NEW p \in Procs, Step(p)
        PROVE  IInv'
    <2>1. CASE commit(p)
      BY <2>1, Ended DEF commit, IInv, TypeOK
    <2>2. CASE deadlock_detected(p)
      BY <2>2, Ended DEF deadlock_detected, IInv, TypeOK
    <2> QED
      BY <1>2, <2>1, <2>2, LockWorkerInv, QueryInv, NotAssignedInv, NowaitInv,
         LockedAssignInv, MarkErrorInv, MarkAbortedInv, NextPendingInv,
         MarkRunningInv, MarkCompletedInv, LockedAbortInv DEF Step
  <1>3. ASSUME NEW p \in Procs, killed(p)
        PROVE  IInv'
    <2>1. failures' \in 0..MaxFailures
      BY <1>3, SchedulerAssumption DEF killed, IInv, TypeOK
    <2> QED
      BY <1>3, <2>1, Ended DEF killed
  <1>4. ASSUME NEW k \in Workers, Schedule(k) \/ Ask(k) \/ Report(k)
        PROVE  IInv'
    BY <1>4, PossibleInv, AskInv, ReportInv DEF Schedule, Ask, Report
  <1>5. ASSUME NEW i \in Requests,
               create_work_request(i) \/ \E p \in Procs : abort(p, i)
        PROVE  IInv'
    BY <1>5, CreateInv, AbortInv
  <1> QED
    BY <1>1, <1>2, <1>3, <1>4, <1>5 DEF Next

(* Only a commit and a new request change the table, and a commit writes   *)
(* what WrittenKeeps allows.                                               *)
LEMMA StepAssignsOnce ==
  ASSUME IInv, [Next]_vars, NEW i \in Requests, InProgress(rows[i]),
         rows[i].worker # None, InProgress(rows'[i])
  PROVE  rows'[i].worker = rows[i].worker
  <1>1. CASE rows' = rows
    BY <1>1
  <1>2. ASSUME NEW p \in Procs, commit(p)
        PROVE  rows'[i].worker = rows[i].worker
    BY <1>2, VisibleType DEF commit, IInv, WrittenKeeps
  <1>3. ASSUME NEW j \in Requests, create_work_request(j)
        PROVE  rows'[i].worker = rows[i].worker
    <2>1. rows \in [Requests -> Row]
      BY DEF IInv, TypeOK
    <2> QED
      BY <1>3, <2>1 DEF create_work_request, InProgress, Row
  <1>4. ASSUME NEW p \in Procs, Step(p), ~commit(p)
        PROVE  rows' = rows
    BY <1>4 DEF Step, lock_worker, query, not_assigned, nowait_fails,
         locked_assign, mark_error, mark_aborted, next_pending, mark_running,
         mark_completed, locked_abort, deadlock_detected, Save
  <1>5. ASSUME NEW p \in Procs, NEW k \in Workers, NEW j \in Requests,
               \/ killed(p) \/ possible_to_schedule(p, k)
               \/ get_next_work_request(p, k)
               \/ update_work_request_as_completed(p, k, j) \/ abort(p, j)
        PROVE  rows' = rows
    BY <1>5 DEF killed, possible_to_schedule, get_next_work_request,
         update_work_request_as_completed, abort, Begin
  <1>6. ASSUME NEW p \in Procs, killed(p)
        PROVE  rows' = rows
    BY <1>6 DEF killed
  <1>7. ASSUME NEW p \in Procs, NEW j \in Requests, abort(p, j)
        PROVE  rows' = rows
    BY <1>7 DEF abort, Begin
  <1> QED
    BY <1>1, <1>2, <1>3, <1>4, <1>5, <1>6, <1>7
       DEF Next, Schedule, Ask, Report, vars

(* Types, and that nobody writes a row, or passes over the requests for a  *)
(* worker, without its lock.                                               *)
THEOREM TypeCorrect == Spec => []TypeOK
  <1>1. IInv => TypeOK
    BY DEF IInv
  <1> QED
    BY <1>1, InitIInv, NextIInv, PTL DEF Spec

(* A request in progress that was given to a worker stays with it until it *)
(* ends, whatever passes, reports, aborts and lost workers overlap, and    *)
(* whatever stale object is saved.                                         *)
THEOREM GivenOnce == Spec => AssignedOnce
  <1>1. IInv /\ [Next]_vars =>
           [\A i \in Requests :
               InProgress(rows[i]) /\ rows[i].worker # None
                 /\ InProgress(rows'[i])
               => rows'[i].worker = rows[i].worker]_vars
    BY StepAssignsOnce
  <1> QED
    BY <1>1, InitIInv, NextIInv, PTL DEF Spec, AssignedOnce
==============================================================================
