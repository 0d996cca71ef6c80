------------------------- MODULE WorkRequestsProofs -------------------------
(***************************************************************************)
(* The table of work requests stays well-formed, the history of every task *)
(* stays a chain, superseded attempts stay as they are, nothing pending    *)
(* waits for a dependency and no workflow is left running after its last   *)
(* child has ended, whatever the plans, the workers and the bounds are,    *)
(* and, where only children of roots promise artifacts, nobody waits for   *)
(* a superseded attempt: proved for every behaviour of WorkRequests, with  *)
(* rollbacks, half-executed transactions that commit and all cascades.     *)
(***************************************************************************)
EXTENDS WorkRequests, SequenceTheorems, TLAPS

USE DEF None, Delay

IsTable(d) == d \in Seq(Row(Len(d)))

(* The columns no method assigns after the creation of a row.              *)
SameTask(r, q) ==
    q.step = r.step /\ q.parent = r.parent /\ q.supersedes = r.supersedes

(* Table e has the rows of table d, with other values in other columns.    *)
Keeps(d, e) ==
    /\ IsTable(e)
    /\ Len(e) = Len(d)
    /\ \A i \in 1..Len(d) : SameTask(d[i], e[i])

-----------------------------------------------------------------------------
(* Tables.                                                                 *)

(* The rows of a table are rows of a larger one.                           *)
LEMMA RowGrows ==
    ASSUME NEW m \in Nat, NEW n \in Nat, m <= n
    PROVE  Row(m) \subseteq Row(n)
<1>1. 0..m \subseteq 0..n /\ 1..m \subseteq 1..n
  OBVIOUS
<1>2. SUBSET (1..m) \subseteq SUBSET (1..n)
  BY <1>1
<1> QED
  BY <1>1, <1>2 DEF Row

(* A table is a function of its ids.                                       *)
LEMMA TableFacts ==
    ASSUME NEW d, IsTable(d)
    PROVE  /\ Len(d) \in Nat
           /\ DOMAIN d = 1..Len(d)
           /\ \A i \in 1..Len(d) : d[i] \in Row(Len(d))
  BY LenProperties, ElementOfSeq DEF IsTable

(* Writing one column of a row leaves a row of the same task.              *)
LEMMA WriteRow ==
    ASSUME NEW n \in Nat, NEW r \in Row(n)
    PROVE  /\ \A st \in Statuses :
                 LET q == [r EXCEPT !.status = st]
                 IN  q \in Row(n) /\ SameTask(r, q)
           /\ \A res \in Results :
                 LET q == [r EXCEPT !.result = res]
                 IN  q \in Row(n) /\ SameTask(r, q)
           /\ \A deps \in SUBSET (1..n) :
                 LET q == [r EXCEPT !.deps = deps]
                 IN  q \in Row(n) /\ SameTask(r, q)
           /\ \A c \in Nat :
                 LET q == [r EXCEPT !.retry_count = c]
                 IN  q \in Row(n) /\ SameTask(r, q)
           /\ \A k \in Workers \cup {None} :
                 LET q == [r EXCEPT !.worker = k]
                 IN  q \in Row(n) /\ SameTask(r, q)
  BY DEF Row, SameTask

(* A table written row by row.                                             *)
LEMMA KeepsIntro ==
    ASSUME NEW d, NEW e, IsTable(d),
           DOMAIN e = DOMAIN d,
           e = [i \in DOMAIN d |-> e[i]],
           \A i \in DOMAIN d : e[i] \in Row(Len(d)) /\ SameTask(d[i], e[i])
    PROVE  Keeps(d, e)
<1>1. Len(d) \in Nat /\ DOMAIN d = 1..Len(d)
  BY TableFacts
<1>2. e \in [1..Len(d) -> Row(Len(d))]
  BY <1>1
<1>3. e \in Seq(Row(Len(d)))
  BY <1>1, <1>2, SeqDef
<1>4. Len(e) = Len(d)
  BY <1>1, <1>3, LenProperties
<1> QED
  BY <1>1, <1>3, <1>4 DEF Keeps, IsTable

(* A table with one row written.                                           *)
LEMMA WriteTable ==
    ASSUME NEW d, IsTable(d), NEW i, NEW q,
           i \in 1..Len(d) => q \in Row(Len(d)) /\ SameTask(d[i], q)
    PROVE  Keeps(d, [d EXCEPT ![i] = q])
<1> DEFINE e == [d EXCEPT ![i] = q]
<1>1. DOMAIN e = DOMAIN d /\ e = [j \in DOMAIN d |-> e[j]]
  OBVIOUS
<1>2. \A j \in DOMAIN d : e[j] = IF j = i THEN q ELSE d[j]
  OBVIOUS
<1>3. \A j \in DOMAIN d : e[j] \in Row(Len(d)) /\ SameTask(d[j], e[j])
  BY <1>2, TableFacts DEF SameTask
<1> HIDE DEF e
<1>4. Keeps(d, e)
  BY <1>1, <1>3, KeepsIntro
<1> QED
  BY <1>4 DEF e

(* Keeping is a preorder.                                                  *)
LEMMA KeepsReflexive ==
    ASSUME NEW d, IsTable(d)
    PROVE  Keeps(d, d)
  BY DEF Keeps, SameTask

LEMMA KeepsTransitive ==
    ASSUME NEW d, NEW e, NEW f, Keeps(d, e), Keeps(e, f)
    PROVE  Keeps(d, f)
  BY DEF Keeps, SameTask

-----------------------------------------------------------------------------
(* The operators that write the table.                                     *)

(* A new status, result, worker or retry count keeps the table.            *)
LEMMA SetKeeps ==
    ASSUME NEW d, IsTable(d), NEW i, NEW st \in Statuses
    PROVE  Keeps(d, Set(d, i, st))
<1> DEFINE q == [d[i] EXCEPT !.status = st]
<1>1. i \in 1..Len(d) => q \in Row(Len(d)) /\ SameTask(d[i], q)
  BY TableFacts, WriteRow
<1>2. Keeps(d, [d EXCEPT ![i].status = st])
  BY <1>1, WriteTable
<1> QED
  BY <1>2 DEF Set

LEMMA SetResultKeeps ==
    ASSUME NEW d, IsTable(d), NEW i, NEW res \in Results
    PROVE  Keeps(d, [d EXCEPT ![i].result = res])
<1> DEFINE q == [d[i] EXCEPT !.result = res]
<1>1. i \in 1..Len(d) => q \in Row(Len(d)) /\ SameTask(d[i], q)
  BY TableFacts, WriteRow
<1> QED
  BY <1>1, WriteTable

LEMMA SetWorkerKeeps ==
    ASSUME NEW d, IsTable(d), NEW i, NEW k \in Workers \cup {None}
    PROVE  Keeps(d, [d EXCEPT ![i].worker = k])
<1> DEFINE q == [d[i] EXCEPT !.worker = k]
<1>1. i \in 1..Len(d) => q \in Row(Len(d)) /\ SameTask(d[i], q)
  BY TableFacts, WriteRow
<1> QED
  BY <1>1, WriteTable

LEMMA SetRetryCountKeeps ==
    ASSUME NEW d, IsTable(d), NEW i, NEW c \in Nat
    PROVE  Keeps(d, [d EXCEPT ![i].retry_count = c])
<1> DEFINE q == [d[i] EXCEPT !.retry_count = c]
<1>1. i \in 1..Len(d) => q \in Row(Len(d)) /\ SameTask(d[i], q)
  BY TableFacts, WriteRow
<1> QED
  BY <1>1, WriteTable

(* A status and a result at once.                                          *)
LEMMA FinishKeeps ==
    ASSUME NEW d, IsTable(d), NEW i, NEW st \in Statuses, NEW res \in Results
    PROVE  Keeps(d, [d EXCEPT ![i].status = st, ![i].result = res])
<1>1. Keeps(d, Set(d, i, st))
  BY SetKeeps
<1>2. Keeps(Set(d, i, st), [Set(d, i, st) EXCEPT ![i].result = res])
  BY <1>1, SetResultKeeps DEF Keeps
<1>3. Keeps(d, [Set(d, i, st) EXCEPT ![i].result = res])
  BY <1>1, <1>2, KeepsTransitive
<1> QED
  BY <1>3 DEF Set

(* So does mark_pending().                                                 *)
LEMMA MarkPendingKeeps ==
    ASSUME NEW d, IsTable(d), NEW S
    PROVE  Keeps(d, mark_pending(d, S))
<1> DEFINE e == mark_pending(d, S)
<1>1. DOMAIN e = DOMAIN d /\ e = [j \in DOMAIN d |-> e[j]]
  BY DEF mark_pending
<1>2. \A j \in DOMAIN d :
        e[j] = IF j \in S THEN [d[j] EXCEPT !.status = "pending"] ELSE d[j]
  BY DEF mark_pending
<1>3. ASSUME NEW j \in DOMAIN d
      PROVE  e[j] \in Row(Len(d)) /\ SameTask(d[j], e[j])
  <2>1. d[j] \in Row(Len(d)) /\ "pending" \in Statuses
    BY TableFacts DEF Statuses
  <2>2. CASE j \in S
    <3> DEFINE q == [d[j] EXCEPT !.status = "pending"]
    <3>1. q \in Row(Len(d)) /\ SameTask(d[j], q)
      BY <2>1, TableFacts, WriteRow
    <3>2. e[j] = q
      BY <1>2, <2>2
    <3> HIDE DEF q, e
    <3> QED
      BY <3>1, <3>2
  <2>3. CASE j \notin S
    BY <1>2, <2>1, <2>3 DEF SameTask
  <2> QED
    BY <2>2, <2>3
<1> HIDE DEF e
<1>4. Keeps(d, e)
  BY <1>1, <1>3, KeepsIntro
<1> QED
  BY <1>4 DEF e

(* add_dependency writes dependencies on rows that exist, and statuses.    *)
LEMMA AddDependenciesKeeps ==
    ASSUME NEW d, IsTable(d), NEW i, NEW deps \in SUBSET (1..Len(d))
    PROVE  Keeps(d, add_dependencies(d, i, deps))
<1> DEFINE st == IF /\ d[i].status = "pending"
                    /\ Entry(d, i).unblock_strategy = "deps"
                    /\ \E j \in deps : d[j].status # "completed"
                 THEN "blocked" ELSE d[i].status
           q == [d[i] EXCEPT !.deps = d[i].deps \cup deps]
           r == [q EXCEPT !.status = st]
<1>1. ASSUME i \in 1..Len(d)
      PROVE  r \in Row(Len(d)) /\ SameTask(d[i], r)
  <2>1. d[i] \in Row(Len(d)) /\ Len(d) \in Nat
    BY <1>1, TableFacts
  <2>2. d[i].deps \cup deps \in SUBSET (1..Len(d)) /\ st \in Statuses
    BY <2>1 DEF Row, Statuses
  <2>3. q \in Row(Len(d)) /\ SameTask(d[i], q)
    BY <2>1, <2>2, WriteRow
  <2>4. r \in Row(Len(d)) /\ SameTask(q, r)
    <3> HIDE DEF q, st
    <3> QED
      BY <2>1, <2>2, <2>3, WriteRow
  <2> HIDE DEF q, r
  <2> QED
    BY <2>3, <2>4 DEF SameTask
<1>2. Keeps(d, [d EXCEPT ![i] = r])
  <2> HIDE DEF r
  <2> QED
    BY <1>1, WriteTable
<1>3. add_dependencies(d, i, deps) = [d EXCEPT ![i] = r]
  BY DEF add_dependencies
<1> QED
  BY <1>2, <1>3

(* So does the redirection of reverse dependencies to the new attempt.     *)
LEMMA RepointKeeps ==
    ASSUME NEW d, IsTable(d), NEW i, NEW n \in 1..Len(d)
    PROVE  Keeps(d, Repoint(d, i, n))
<1> DEFINE e == Repoint(d, i, n)
           st(j) == IF d[j].status = "pending"
                       /\ Entry(d, j).unblock_strategy = "deps"
                    THEN "blocked" ELSE d[j].status
           q(j) == [d[j] EXCEPT !.deps = (d[j].deps \ {i}) \cup {n}]
           r(j) == [q(j) EXCEPT !.status = st(j)]
<1>1. DOMAIN e = DOMAIN d /\ e = [j \in DOMAIN d |-> e[j]]
  BY DEF Repoint
<1>2. \A j \in DOMAIN d : e[j] = IF i \in d[j].deps THEN r(j) ELSE d[j]
  BY DEF Repoint
<1>3. ASSUME NEW j \in DOMAIN d
      PROVE  e[j] \in Row(Len(d)) /\ SameTask(d[j], e[j])
  <2>1. d[j] \in Row(Len(d)) /\ Len(d) \in Nat
    BY TableFacts
  <2>2. (d[j].deps \ {i}) \cup {n} \in SUBSET (1..Len(d)) /\ st(j) \in Statuses
    BY <2>1 DEF Row, Statuses
  <2>3. q(j) \in Row(Len(d)) /\ SameTask(d[j], q(j))
    BY <2>1, <2>2, WriteRow
  <2>4. r(j) \in Row(Len(d)) /\ SameTask(q(j), r(j))
    <3> HIDE DEF q, st
    <3> QED
      BY <2>1, <2>2, <2>3, WriteRow
  <2>5. e[j] = r(j) \/ e[j] = d[j]
    BY <1>2
  <2> HIDE DEF e, q, r
  <2> QED
    BY <2>1, <2>3, <2>4, <2>5 DEF SameTask
<1> HIDE DEF e
<1>4. Keeps(d, e)
  BY <1>1, <1>3, KeepsIntro
<1> QED
  BY <1>4 DEF e

(* So does a parent that is opened again.                                  *)
LEMMA ReopenKeeps ==
    ASSUME NEW d, IsTable(d), NEW p
    PROVE  Keeps(d, Reopen(d, p))
<1>1. Keeps(d, [d EXCEPT ![p].status = "running", ![p].result = "none"])
  BY FinishKeeps DEF Statuses, Results
<1> QED
  BY <1>1, KeepsReflexive DEF Reopen

(* A table with one more row.                                              *)
LEMMA AppendTable ==
    ASSUME NEW d, IsTable(d), NEW r \in Row(Len(d) + 1)
    PROVE  /\ IsTable(Append(d, r))
           /\ Len(Append(d, r)) = Len(d) + 1
           /\ \A i \in 1..Len(d) : Append(d, r)[i] = d[i]
           /\ Append(d, r)[Len(d) + 1] = r
<1>1. Len(d) \in Nat
  BY TableFacts
<1>2. d \in Seq(Row(Len(d) + 1))
  BY <1>1, RowGrows, SeqMonotonic DEF IsTable
<1> QED
  BY <1>2, AppendProperties DEF IsTable

-----------------------------------------------------------------------------
(* Chains of attempts.                                                     *)

(* Only the creation of a row can break a chain.                           *)
LEMMA KeepsChain ==
    ASSUME NEW d, NEW e, IsTable(d), IsChain(d), Keeps(d, e)
    PROVE  IsChain(e)
<1>1. /\ DOMAIN d = 1..Len(d) /\ DOMAIN e = 1..Len(d)
      /\ Len(d) \in Nat
  BY TableFacts DEF Keeps
<1>2. \A i \in 1..Len(d) : /\ d[i].supersedes \in 0..Len(d)
                           /\ SameTask(d[i], e[i])
  BY TableFacts DEF Keeps, Row
<1> QED
  BY <1>1, <1>2 DEF IsChain, SameTask

(* A first attempt begins a chain of its own.                              *)
LEMMA AppendChain ==
    ASSUME NEW d, IsTable(d), IsChain(d),
           NEW r \in Row(Len(d) + 1), r.supersedes = None
    PROVE  IsChain(Append(d, r))
<1> DEFINE e == Append(d, r)
<1>1. /\ Len(d) \in Nat /\ DOMAIN d = 1..Len(d)
      /\ IsTable(e) /\ DOMAIN e = 1..(Len(d) + 1)
      /\ \A i \in 1..Len(d) : e[i] = d[i]
      /\ e[Len(d) + 1] = r
  BY TableFacts, AppendTable
<1>2. \A i \in 1..Len(d) : d[i].supersedes \in 0..Len(d)
  BY TableFacts DEF Row
<1> HIDE DEF e
<1>3. IsChain(e)
  BY <1>1, <1>2 DEF IsChain
<1> QED
  BY <1>3 DEF e

(* A retry extends the chain of an attempt that has not been superseded.   *)
LEMMA SupersedeChain ==
    ASSUME NEW d, IsTable(d), IsChain(d), NEW i \in 1..Len(d),
           ~Superseded(d, i),
           NEW r \in Row(Len(d) + 1), r.supersedes = i,
           r.step = d[i].step, r.parent = d[i].parent
    PROVE  IsChain(Append(d, r))
<1> DEFINE e == Append(d, r)
<1>1. /\ Len(d) \in Nat /\ DOMAIN d = 1..Len(d)
      /\ IsTable(e) /\ DOMAIN e = 1..(Len(d) + 1)
      /\ \A j \in 1..Len(d) : e[j] = d[j]
      /\ e[Len(d) + 1] = r
  BY TableFacts, AppendTable
<1>2. \A j \in 1..Len(d) : /\ d[j].supersedes \in 0..Len(d)
                           /\ d[j].supersedes # i
  BY <1>1, TableFacts DEF Row, Superseded
<1> HIDE DEF e
<1>3. ASSUME NEW j \in DOMAIN e, e[j].supersedes # None
      PROVE  LET old == e[j].supersedes
             IN  /\ old < j
                 /\ e[old].step = e[j].step
                 /\ e[old].parent = e[j].parent
                 /\ \A k \in DOMAIN e : e[k].supersedes = old => k = j
  <2>1. CASE j = Len(d) + 1
    <3>1. e[j].supersedes = i /\ i < j /\ e[i] = d[i] /\ e[j] = r
      BY <1>1, <2>1
    <3>2. \A k \in DOMAIN e : e[k].supersedes = i => k = j
      <4> SUFFICES ASSUME NEW k \in 1..Len(d), e[k].supersedes = i
                   PROVE  FALSE
        BY <1>1, <2>1
      <4> QED
        BY <1>1, <1>2
    <3> QED
      BY <3>1, <3>2
  <2>2. CASE j \in 1..Len(d)
    <3> DEFINE old == d[j].supersedes
    <3>1. e[j] = d[j] /\ old \in 1..Len(d) /\ e[old] = d[old]
      BY <1>1, <1>2, <1>3, <2>2
    <3>2. /\ old < j /\ d[old].step = d[j].step /\ d[old].parent = d[j].parent
          /\ \A k \in 1..Len(d) : d[k].supersedes = old => k = j
      BY <1>1, <2>2, <3>1 DEF IsChain
    <3>3. \A k \in DOMAIN e : e[k].supersedes = old => k = j
      BY <1>1, <1>2, <2>2, <3>2
    <3> QED
      BY <3>1, <3>2, <3>3
  <2> QED
    BY <1>1, <2>1, <2>2
<1>4. IsChain(e)
  BY <1>3 DEF IsChain
<1> QED
  BY <1>4 DEF e

(* retry_supersede adds the next attempt.                                  *)
LEMMA RetrySupersede ==
    ASSUME NEW d, IsTable(d), IsChain(d), NEW i \in 1..Len(d),
           ~Superseded(d, i), NEW reason
    PROVE  LET e == retry_supersede(d, i, reason)
           IN  IsTable(e) /\ Len(e) = Len(d) + 1 /\ IsChain(e)
<1> DEFINE n == Len(d) + 1
           c == retry_count(d, i, reason)
           r == [d[i] EXCEPT !.status = "blocked", !.result = "none",
                             !.retry_count = c, !.supersedes = i,
                             !.worker = None]
           d1 == Append(d, r)
           d2 == Repoint(d1, i, n)
           d3 == Reopen(d2, d[i].parent)
           S == {n} \cap {j \in DOMAIN d3 : can_be_automatically_unblocked(d3, j)}
<1>1. Len(d) \in Nat /\ n \in Nat /\ d[i] \in Row(Len(d)) /\ d[i] \in Row(n)
  BY TableFacts, RowGrows
<1>2. c \in Nat
  BY <1>1 DEF retry_count, Row
<1>3. r \in Row(n) /\ r.supersedes = i /\ r.step = d[i].step
        /\ r.parent = d[i].parent
  <2> DEFINE r1 == [d[i] EXCEPT !.status = "blocked"]
             r2 == [r1 EXCEPT !.result = "none"]
             r3 == [r2 EXCEPT !.retry_count = c]
             r4 == [r3 EXCEPT !.supersedes = i]
             r5 == [r4 EXCEPT !.worker = None]
  <2>1. r1 \in Row(n) /\ SameTask(d[i], r1)
    BY <1>1, WriteRow DEF Statuses
  <2>2. r2 \in Row(n) /\ SameTask(r1, r2)
    <3> HIDE DEF r1
    <3> QED
      BY <1>1, <2>1, WriteRow DEF Results
  <2>3. r3 \in Row(n) /\ SameTask(r2, r3)
    <3> HIDE DEF r2, c
    <3> QED
      BY <1>1, <1>2, <2>2, WriteRow
  <2>4. r4 \in Row(n) /\ r4.supersedes = i /\ r4.step = r3.step
          /\ r4.parent = r3.parent
    <3>1. i \in 0..n
      BY <1>1
    <3> HIDE DEF r3, n
    <3> QED
      BY <2>3, <3>1 DEF Row
  <2>5. r5 \in Row(n) /\ SameTask(r4, r5)
    <3> HIDE DEF r4
    <3> QED
      BY <1>1, <2>4, WriteRow
  <2>6. r = r5
    OBVIOUS
  <2> HIDE DEF r, r1, r2, r3, r4, r5
  <2> QED
    BY <2>1, <2>2, <2>3, <2>4, <2>5, <2>6 DEF SameTask
<1>4. IsTable(d1) /\ Len(d1) = n /\ IsChain(d1)
  <2> HIDE DEF r
  <2> QED
    BY <1>3, AppendTable, SupersedeChain
<1>5. Keeps(d1, d2)
  <2> HIDE DEF d1
  <2> QED
    BY <1>1, <1>4, RepointKeeps
<1>6. Keeps(d2, d3)
  <2> HIDE DEF d2
  <2> QED
    BY <1>5, ReopenKeeps DEF Keeps
<1>7. Keeps(d3, mark_pending(d3, S))
  <2> HIDE DEF d3, S
  <2> QED
    BY <1>6, MarkPendingKeeps DEF Keeps
<1>8. Keeps(d1, mark_pending(d3, S))
  <2> HIDE DEF d1, d2, d3, S
  <2> QED
    BY <1>5, <1>6, <1>7, KeepsTransitive
<1>9. retry_supersede(d, i, reason) = mark_pending(d3, S)
  BY DEF retry_supersede
<1> HIDE DEF d1, d3, S
<1> QED
  BY <1>4, <1>8, <1>9, KeepsChain DEF Keeps

-----------------------------------------------------------------------------
(* Calls.                                                                  *)

(* A call in a shorter table is one in a longer table.                     *)
LEMMA CallGrows ==
    ASSUME NEW m \in Nat, NEW n \in Nat, m <= n
    PROVE  Call(m) \subseteq Call(n)
<1>1. 0..m \subseteq 0..n /\ 1..m \subseteq 1..n
  OBVIOUS
<1>2. SUBSET (1..m) \subseteq SUBSET (1..n)
  BY <1>1
<1> QED
  BY <1>1, <1>2 DEF Call

(* The frames the methods push.                                            *)
LEMMA FrameIsCall ==
    ASSUME NEW n \in Nat
    PROVE  /\ \A op \in {"mark_aborted", "unblock_reverse_dependencies"},
                 i \in 1..n : Frame(op, i, {}, "") \in Call(n)
           /\ \A i \in 1..n, S \in SUBSET Step :
                Frame("orchestrate", i, S, "") \in Call(n)
           /\ \A i \in 1..n, res \in Results :
                Frame("mark_completed", i, {}, res) \in Call(n)
           /\ \A i \in 1..n, st \in Statuses :
                Frame("process_retry_with_delays", i, {}, st) \in Call(n)
           /\ \A op \in {"retry", "retry_lost"}, i \in 1..n, why \in Reasons :
                Frame(op, i, {}, why) \in Call(n)
           /\ \A p \in 0..n :
                Frame("maybe_finish_workflow", p, {}, "") \in Call(n)
           /\ \A p \in 0..n, S \in SUBSET (1..n), why \in Reasons :
                Frame("retry_each", p, S, why) \in Call(n)
           /\ \A op \in Loops, S \in SUBSET (1..n),
                 arg \in {""} \cup Results \cup Statuses \cup Reasons :
                Frame(op, 0, S, arg) \in Call(n)
           /\ \A k \in Workers :
                [Frame("next_pending", 0, {}, "") EXCEPT !.worker = k]
                    \in Call(n)
<1>1. 1..n \subseteq 0..n /\ 0 \in 0..n
  OBVIOUS
<1>2. \A op \in {"mark_aborted", "unblock_reverse_dependencies"},
         i \in 1..n : Frame(op, i, {}, "") \in Call(n)
  BY <1>1 DEF Frame, Call, Methods, Loops, Ops
<1>3. \A i \in 1..n, S \in SUBSET Step :
        Frame("orchestrate", i, S, "") \in Call(n)
  <2> TAKE i \in 1..n, S \in SUBSET Step
  <2>1. S \in (SUBSET (1..n)) \cup (SUBSET Step) /\ i \in 0..n
    BY <1>1
  <2> QED
    BY <2>1 DEF Frame, Call, Methods, Loops, Ops
<1>4. \A i \in 1..n, res \in Results :
        Frame("mark_completed", i, {}, res) \in Call(n)
  BY <1>1 DEF Frame, Call, Methods, Loops, Ops
<1>5. \A i \in 1..n, st \in Statuses :
        Frame("process_retry_with_delays", i, {}, st) \in Call(n)
  BY <1>1 DEF Frame, Call, Methods, Loops, Ops
<1>6. \A op \in {"retry", "retry_lost"}, i \in 1..n, why \in Reasons :
        Frame(op, i, {}, why) \in Call(n)
  BY <1>1 DEF Frame, Call, Methods, Loops, Ops
<1>7. \A p \in 0..n : Frame("maybe_finish_workflow", p, {}, "") \in Call(n)
  BY <1>1 DEF Frame, Call, Methods, Loops, Ops
<1>8. \A p \in 0..n, S \in SUBSET (1..n), why \in Reasons :
        Frame("retry_each", p, S, why) \in Call(n)
  BY <1>1 DEF Frame, Call, Methods, Loops, Ops
<1>9. \A op \in Loops, S \in SUBSET (1..n),
         arg \in {""} \cup Results \cup Statuses \cup Reasons :
        Frame(op, 0, S, arg) \in Call(n)
  BY <1>1 DEF Frame, Call, Methods, Loops, Ops
<1>10. \A k \in Workers :
        [Frame("next_pending", 0, {}, "") EXCEPT !.worker = k] \in Call(n)
  BY <1>1 DEF Frame, Call, Methods, Loops, Ops
<1> QED
  BY <1>2, <1>3, <1>4, <1>5, <1>6, <1>7, <1>8, <1>9, <1>10

(* Pushing calls.                                                          *)
LEMMA Push ==
    ASSUME NEW S, NEW cs \in Seq(S), NEW a \in S
    PROVE  /\ <<a>> \o cs \in Seq(S)
           /\ \A b \in S : <<a, b>> \o cs \in Seq(S)
           /\ \A b, c \in S : <<a, b, c>> \o cs \in Seq(S)
  BY ConcatProperties

-----------------------------------------------------------------------------
(* The invariant, and the steps of transactions that keep it.              *)

Inv == TypeOK /\ HistoryIsAChain

(* What the type invariant says of the running transaction.                *)
LEMMA InvFacts ==
    ASSUME Inv
    PROVE  /\ IsTable(db) /\ IsChain(db)
           /\ IsTable(committed) /\ IsChain(committed)
           /\ Len(db) \in Nat /\ Len(committed) \in Nat
           /\ Len(committed) <= Len(db) /\ Len(db) <= MaxId
           /\ DOMAIN db = 1..Len(db)
  BY TableFacts DEF Inv, TypeOK, HistoryIsAChain, IsTable

(* Whatever a method wrote, as long as it is a table with the rows there   *)
(* were, and whatever it has yet to call.                                  *)
LEMMA ProceedInv ==
    ASSUME Inv, NEW who \in {"task", "api", "web"},
           NEW d, IsTable(d), IsChain(d), Len(db) <= Len(d), Len(d) <= MaxId,
           NEW cs \in Seq(Call(Len(d))), NEW hooks \in SUBSET (1..Len(d)),
           Proceed(who, d, cs, hooks)
    PROVE  Inv'
<1>1. Len(d) \in Nat
  BY TableFacts
<1>2. MaxId \in Nat
  BY WorkRequestsAssumption
<1>3. CASE cs = <<>>
  <2>1. /\ db' = d /\ committed' = d /\ calls' = <<>> /\ on_commit' = {}
        /\ queued' = queued \cup hooks /\ caller' = "none"
    BY <1>3 DEF Proceed
  <2>2. queued \subseteq 1..Len(d)
    BY <1>1, InvFacts DEF Inv, TypeOK
  <2>3. TypeOK'
    BY <1>1, <1>3, <2>1, <2>2 DEF TypeOK, IsTable, AtRest
  <2>4. HistoryIsAChain'
    BY <2>1 DEF HistoryIsAChain
  <2> QED
    BY <2>3, <2>4 DEF Inv
<1>4. CASE cs # <<>>
  <2>1. /\ db' = d /\ committed' = committed /\ calls' = cs
        /\ on_commit' = hooks /\ queued' = queued /\ caller' = who
    BY <1>4 DEF Proceed
  <2>2. Len(committed) <= Len(d)
    BY <1>1, InvFacts
  <2>3. TypeOK'
    BY <1>1, <1>4, <2>1, <2>2 DEF Inv, TypeOK, IsTable, AtRest
  <2>4. HistoryIsAChain'
    BY <2>1 DEF HistoryIsAChain, Inv
  <2> QED
    BY <2>3, <2>4 DEF Inv
<1> QED
  BY <1>3, <1>4

(* The call a transaction executes next.                                   *)
LEMMA TopFacts ==
    ASSUME Inv, ~AtRest
    PROVE  /\ Top \in Call(Len(db)) /\ Rest \in Seq(Call(Len(db)))
           /\ caller \in {"task", "api", "web"}
           /\ on_commit \in SUBSET (1..Len(db))
           /\ Top.w \in 0..Len(db)
           /\ Top.op \in Methods => Top.w \in 1..Len(db)
           /\ Top.op = "orchestrate" => Top.set \subseteq Step
           /\ Top.op \in Loops \cup {"retry_each"} => Top.set \subseteq 1..Len(db)
           /\ Top.op = "mark_completed" => Top.arg \in Results
           /\ Top.op = "process_retry_with_delays" => Top.arg \in Statuses
           /\ Top.op \in {"retry", "retry_lost", "retry_each"}
                => Top.arg \in Reasons
           /\ Top.arg \in {""} \cup Results \cup Statuses \cup Reasons
<1>1. calls \in Seq(Call(Len(db))) /\ calls # <<>>
  BY DEF Inv, TypeOK, AtRest
<1>2. Top \in Call(Len(db)) /\ Rest \in Seq(Call(Len(db)))
  BY <1>1, HeadTailProperties DEF Top, Rest
<1>3. caller \in {"task", "api", "web"} /\ on_commit \in SUBSET (1..Len(db))
  BY DEF Inv, TypeOK
<1> HIDE DEF Top
<1> QED
  BY <1>2, <1>3 DEF Call

(* A step inside a transaction keeps the invariant if it keeps the table   *)
(* and goes on with calls.                                                 *)
LEMMA ContinueInv ==
    ASSUME Inv, ~AtRest,
           NEW d, IsTable(d), IsChain(d), Len(db) <= Len(d), Len(d) <= MaxId,
           NEW cs \in Seq(Call(Len(d))), Continue(d, cs)
    PROVE  Inv'
<1>1. Len(d) \in Nat /\ Len(db) \in Nat /\ on_commit \in SUBSET (1..Len(db))
  BY TopFacts, TableFacts, InvFacts
<1>2. on_commit \in SUBSET (1..Len(d))
  BY <1>1
<1> QED
  BY <1>2, TopFacts, ProceedInv DEF Continue, ContinueWith

(* A method that creates no row.                                           *)
LEMMA ContinueKeeps ==
    ASSUME Inv, ~AtRest, NEW d, Keeps(db, d),
           NEW cs \in Seq(Call(Len(db))), NEW hooks \in SUBSET (1..Len(db)),
           Continue(d, cs) \/ ContinueWith(d, cs, hooks)
    PROVE  Inv'
<1>1. /\ IsTable(d) /\ Len(d) = Len(db) /\ IsChain(d)
      /\ Len(db) <= Len(d) /\ Len(d) <= MaxId
  BY InvFacts, KeepsChain DEF Keeps
<1> QED
  BY <1>1, TopFacts, ProceedInv DEF Continue, ContinueWith

(* A transaction that begins.                                              *)
LEMMA BeginInv ==
    ASSUME Inv, NEW who \in {"task", "api", "web"}, NEW d, Keeps(db, d),
           NEW cs \in Seq(Call(Len(db))), Begin(who, d, cs)
    PROVE  Inv'
<1>1. /\ IsTable(d) /\ Len(d) = Len(db) /\ IsChain(d)
      /\ Len(db) <= Len(d) /\ Len(d) <= MaxId
  BY InvFacts, KeepsChain DEF Keeps
<1> QED
  BY <1>1, ProceedInv DEF Begin

(* A rollback.                                                             *)
LEMMA RaiseInv ==
    ASSUME Inv, Raise
    PROVE  Inv'
<1>1. TypeOK'
  <2>1. /\ db' = committed /\ committed' = committed /\ calls' = <<>>
        /\ caller' = "none" /\ on_commit' = {} /\ queued' = queued
    BY DEF Raise
  <2>2. /\ IsTable(committed) /\ queued \subseteq 1..Len(committed)
        /\ Len(committed) \in Nat /\ Len(committed) <= MaxId
    BY InvFacts, WorkRequestsAssumption DEF Inv, TypeOK
  <2> QED
    BY <2>1, <2>2 DEF TypeOK, AtRest, IsTable
<1>2. HistoryIsAChain'
  BY DEF Inv, HistoryIsAChain, Raise
<1> QED
  BY <1>1, <1>2 DEF Inv

-----------------------------------------------------------------------------
(* The methods.                                                            *)

LEMMA MarkAborted ==
    ASSUME Inv, mark_aborted
    PROVE  Inv'
<1> DEFINE cs == <<Frame("unblock_reverse_dependencies", Top.w, {}, ""),
                   CallFinish(db[Top.w].parent)>> \o Rest
<1>1. ~AtRest /\ Top.w \in 1..Len(db) /\ Len(db) \in Nat
  BY TopFacts, InvFacts DEF mark_aborted, Methods
<1>2. Keeps(db, Set(db, Top.w, "aborted"))
  BY InvFacts, SetKeeps DEF Statuses
<1>3. db[Top.w].parent \in 0..Len(db)
  BY <1>1, InvFacts, TableFacts DEF Row
<1>4. cs \in Seq(Call(Len(db)))
  BY <1>1, <1>3, TopFacts, FrameIsCall, Push DEF CallFinish
<1>5. Continue(Set(db, Top.w, "aborted"), cs)
  BY DEF mark_aborted
<1> QED
  BY <1>1, <1>2, <1>4, <1>5, ContinueKeeps

LEMMA AbortEach ==
    ASSUME Inv, abort_each
    PROVE  Inv'
<1>1. ~AtRest /\ Top.set \subseteq 1..Len(db) /\ Len(db) \in Nat
  BY TopFacts, InvFacts DEF abort_each, Loops
<1>2. CASE Continue(db, Rest)
  BY <1>1, <1>2, TopFacts, InvFacts, KeepsReflexive, ContinueKeeps
<1>3. ASSUME NEW i \in Top.set,
             Continue(IF Top.arg = "manual" THEN [db EXCEPT ![i].worker = None]
                                            ELSE db,
                      <<CallMarkAborted(i),
                        Frame("abort_each", 0, Top.set \ {i}, Top.arg)>>
                      \o Rest)
      PROVE  Inv'
  <2> DEFINE d == IF Top.arg = "manual" THEN [db EXCEPT ![i].worker = None]
                                        ELSE db
             cs == <<CallMarkAborted(i),
                     Frame("abort_each", 0, Top.set \ {i}, Top.arg)>> \o Rest
  <2>1. Keeps(db, d)
    BY InvFacts, SetWorkerKeeps, KeepsReflexive
  <2>2. /\ CallMarkAborted(i) \in Call(Len(db))
        /\ Frame("abort_each", 0, Top.set \ {i}, Top.arg) \in Call(Len(db))
    BY <1>1, TopFacts, FrameIsCall DEF CallMarkAborted, Loops
  <2>3. cs \in Seq(Call(Len(db)))
    BY <1>1, <2>2, TopFacts, Push
  <2>4. Continue(d, cs)
    BY <1>3
  <2> HIDE DEF d, cs
  <2> QED
    BY <1>1, <2>1, <2>3, <2>4, ContinueKeeps
<1> QED
  BY <1>2, <1>3 DEF abort_each

LEMMA MarkCompleted ==
    ASSUME Inv, mark_completed
    PROVE  Inv'
<1> DEFINE i == Top.w
           p == db[i].parent
           reaction == IF Top.arg \in {"failure", "error"} /\ p # None
                       THEN <<Frame("process_retry_with_delays", i, {},
                                    db[p].status)>>
                       ELSE <<>>
           unblock == Frame("unblock_reverse_dependencies", i, {}, "")
           d == [db EXCEPT ![i].status = "completed", ![i].result = Top.arg]
           cs == <<unblock>> \o reaction \o <<CallFinish(p)>> \o Rest
<1>1. /\ ~AtRest /\ i \in 1..Len(db) /\ Len(db) \in Nat
      /\ Top.arg \in Results
  BY TopFacts, InvFacts DEF mark_completed, Methods
<1>2. CASE Continue(db, Rest)
  BY <1>1, <1>2, TopFacts, InvFacts, KeepsReflexive, ContinueKeeps
<1>3. CASE Continue(d, cs)
  <2>1. Keeps(db, d)
    BY <1>1, InvFacts, FinishKeeps DEF Statuses
  <2>2. p \in 0..Len(db) /\ (p # None => db[p].status \in Statuses)
    <3>1. IsTable(db)
      BY InvFacts
    <3>2. \A j \in 1..Len(db) : db[j] \in Row(Len(db))
      BY <3>1, TableFacts
    <3>3. \A j \in 1..Len(db) : /\ db[j].parent \in 0..Len(db)
                               /\ db[j].status \in Statuses
      BY <3>2 DEF Row
    <3> QED
      BY <1>1, <3>3 DEF None
  <2>3. reaction \in Seq(Call(Len(db)))
    <3> DEFINE f == Frame("process_retry_with_delays", i, {}, db[p].status)
    <3>1. p # None => f \in Call(Len(db))
      <4> HIDE DEF p, i
      <4> QED
        BY <1>1, <2>2, FrameIsCall
    <3> HIDE DEF f
    <3>2. p # None => <<f>> \in Seq(Call(Len(db)))
      BY <3>1
    <3> QED
      BY <3>2, EmptySeq DEF f
  <2>4. /\ <<unblock>> \in Seq(Call(Len(db)))
        /\ <<CallFinish(p)>> \in Seq(Call(Len(db)))
    <3>1. unblock \in Call(Len(db)) /\ CallFinish(p) \in Call(Len(db))
      BY <1>1, <2>2, FrameIsCall DEF CallFinish
    <3> HIDE DEF unblock, p
    <3> QED
      BY <3>1
  <2>5. cs \in Seq(Call(Len(db)))
    <3> HIDE DEF reaction, p, unblock
    <3> QED
      BY <1>1, <2>3, <2>4, TopFacts, ConcatProperties
  <2> HIDE DEF d, cs
  <2> QED
    BY <1>1, <1>3, <2>1, <2>5, ContinueKeeps
<1> QED
  BY <1>2, <1>3 DEF mark_completed

LEMMA UnblockReverseDependencies ==
    ASSUME Inv, unblock_reverse_dependencies
    PROVE  Inv'
<1> DEFINE rdeps == reverse_dependencies(db, Top.w)
           S == {j \in rdeps : can_be_automatically_unblocked(db, j)}
           B == {j \in rdeps : db[j].status = "blocked"}
           cs == <<Frame("abort_each", 0, B, "")>> \o Rest
<1>1. ~AtRest /\ Len(db) \in Nat
  BY InvFacts DEF unblock_reverse_dependencies
<1>2. Keeps(db, mark_pending(db, S)) /\ Keeps(db, db)
  BY InvFacts, MarkPendingKeeps, KeepsReflexive
<1>3. B \in SUBSET (1..Len(db))
  BY InvFacts DEF reverse_dependencies
<1>4. cs \in Seq(Call(Len(db)))
  <2> HIDE DEF B
  <2> QED
    BY <1>1, <1>3, TopFacts, FrameIsCall, Push DEF Loops
<1>5. Continue(mark_pending(db, S), Rest) \/ Continue(db, cs)
  BY DEF unblock_reverse_dependencies
<1> HIDE DEF S, cs
<1> QED
  BY <1>1, <1>2, <1>4, <1>5, TopFacts, ContinueKeeps

(* A table with one more row for a first attempt.                          *)
LEMMA NewRowTable ==
    ASSUME NEW d, IsTable(d), IsChain(d), NEW s \in 0..Steps,
           NEW p \in 0..Len(d), NEW st \in Statuses
    PROVE  LET e == Append(d, NewRow(s, p, st))
           IN  /\ IsTable(e) /\ Len(e) = Len(d) + 1 /\ IsChain(e)
               /\ \A i \in 1..Len(d) : e[i] = d[i]
               /\ e[Len(d) + 1].supersedes = None
<1> DEFINE r == NewRow(s, p, st)
<1>1. Len(d) \in Nat
  BY TableFacts
<1>2. p \in 0..(Len(d) + 1)
  BY <1>1
<1>3. {} \in SUBSET (1..(Len(d) + 1)) /\ 0 \in 0..(Len(d) + 1)
  BY <1>1
<1>4. r \in Row(Len(d) + 1) /\ r.supersedes = None
  BY <1>2, <1>3 DEF NewRow, Row, Results
<1> HIDE DEF r
<1>5. LET e == Append(d, r)
      IN  /\ IsTable(e) /\ Len(e) = Len(d) + 1 /\ IsChain(e)
          /\ \A i \in 1..Len(d) : e[i] = d[i]
          /\ e[Len(d) + 1].supersedes = None
  BY <1>4, AppendTable, AppendChain
<1> QED
  BY <1>5 DEF r

(* Calls left over by a call remain calls when the table grows.            *)
LEMMA RestGrows ==
    ASSUME Inv, ~AtRest, NEW n \in Nat, Len(db) <= n
    PROVE  Rest \in Seq(Call(n))
<1>1. Len(db) \in Nat /\ Rest \in Seq(Call(Len(db)))
  BY TopFacts, InvFacts
<1>2. Call(Len(db)) \subseteq Call(n)
  BY <1>1, CallGrows
<1> QED
  BY <1>1, <1>2, SeqMonotonic

LEMMA ProcessRetryWithDelays ==
    ASSUME Inv, process_retry_with_delays
    PROVE  Inv'
<1> DEFINE i == Top.w
           p == db[i].parent
           n == Len(db)
           d0 == Set(db, p, Top.arg)
           d1 == Append(d0, NewRow(Delay, p, "pending"))
           d2 == retry_supersede(d1, i, "delay")
           d3 == add_dependencies(d2, n + 2, {n + 1})
<1>1. /\ ~AtRest /\ i \in 1..n /\ n \in Nat /\ Top.arg \in Statuses
      /\ p \in 0..n
  <2>1. ~AtRest /\ i \in 1..n /\ n \in Nat /\ Top.arg \in Statuses
    BY TopFacts, InvFacts DEF process_retry_with_delays, Methods
  <2> QED
    BY <2>1, InvFacts, TableFacts DEF Row
<1>2. Keeps(db, d0) /\ IsTable(d0) /\ IsChain(d0) /\ Len(d0) = n
  <2>1. Keeps(db, d0)
    BY <1>1, InvFacts, SetKeeps
  <2> HIDE DEF d0
  <2> QED
    BY <2>1, InvFacts, KeepsChain DEF Keeps
<1>3. /\ IsTable(d1) /\ Len(d1) = n + 1 /\ IsChain(d1)
      /\ \A j \in 1..n : d1[j] = d0[j]
      /\ d1[n + 1].supersedes = None
  <2>1. 0 \in 0..Steps /\ "pending" \in Statuses
    BY WorkRequestsAssumption DEF Statuses
  <2> HIDE DEF d0, p
  <2> QED
    BY <1>1, <1>2, <2>1, NewRowTable
<1>4. CASE Continue(db, Rest)
  BY <1>1, <1>4, TopFacts, InvFacts, KeepsReflexive, ContinueKeeps
<1>5. CASE verify_retry(db, i) /\ Room(2) /\ Continue(d3, Rest)
  <2>1. ~Superseded(db, i)
    BY <1>5 DEF verify_retry
  <2>2. \A j \in 1..n : d1[j].supersedes # i
    BY <1>2, <1>3, <2>1, InvFacts DEF Superseded, Keeps, SameTask
  <2>3. DOMAIN d1 = 1..(n + 1)
    BY <1>3, TableFacts
  <2>4. ~Superseded(d1, i)
    <3> HIDE DEF d1
    <3> QED
      BY <1>1, <1>3, <2>2, <2>3 DEF Superseded
  <2>5. IsTable(d2) /\ Len(d2) = n + 2 /\ IsChain(d2)
    <3> HIDE DEF d1
    <3> QED
      BY <1>1, <1>3, <2>4, RetrySupersede
  <2>6. Keeps(d2, d3)
    <3>1. {n + 1} \in SUBSET (1..Len(d2))
      <4> HIDE DEF d2
      <4> QED
        BY <1>1, <2>5
    <3> HIDE DEF d2
    <3> QED
      BY <2>5, <3>1, AddDependenciesKeeps
  <2>7. IsTable(d3) /\ Len(d3) = n + 2 /\ IsChain(d3)
    <3> HIDE DEF d2, d3
    <3> QED
      BY <2>5, <2>6, KeepsChain DEF Keeps
  <2>8. n <= n + 2 /\ n + 2 <= MaxId /\ Rest \in Seq(Call(n + 2))
    BY <1>1, <1>5, RestGrows DEF Room
  <2> HIDE DEF d3
  <2> QED
    BY <1>1, <1>5, <2>7, <2>8, ContinueInv
<1>6. CASE Raise
  BY <1>6, RaiseInv
<1>7. CASE Room(1) /\ Continue(d1, <<>>)
  <2>1. n <= n + 1 /\ n + 1 <= MaxId /\ <<>> \in Seq(Call(n + 1))
    BY <1>1, <1>7, EmptySeq DEF Room
  <2> HIDE DEF d1
  <2> QED
    BY <1>1, <1>3, <1>7, <2>1, ContinueInv
<1>8. Len(db) + 1 + 1 = n + 2
  BY <1>1
<1> QED
  BY <1>4, <1>5, <1>6, <1>7, <1>8 DEF process_retry_with_delays

(* A method that writes nothing and calls one other method.                *)
LEMMA PushInv ==
    ASSUME Inv, ~AtRest, NEW c \in Call(Len(db)),
           \/ Continue(db, Rest)
           \/ Continue(db, <<c>> \o Rest)
    PROVE  Inv'
<1>1. <<c>> \o Rest \in Seq(Call(Len(db))) /\ Rest \in Seq(Call(Len(db)))
  BY TopFacts, Push
<1> QED
  BY <1>1, TopFacts, InvFacts, KeepsReflexive, ContinueKeeps

LEMMA MaybeFinishWorkflow ==
    ASSUME Inv, maybe_finish_workflow
    PROVE  Inv'
<1> DEFINE p == Top.w
<1>1. ~AtRest /\ p \in 0..Len(db) /\ Len(db) \in Nat
  BY TopFacts, InvFacts DEF maybe_finish_workflow
<1>2. CASE Continue(db, Rest)
  BY <1>1, <1>2, TopFacts, PushInv
<1>3. CASE p # None /\ Continue(db, <<CallMarkAborted(p)>> \o Rest)
  <2>1. p \in 1..Len(db)
    BY <1>1, <1>3
  <2>2. CallMarkAborted(p) \in Call(Len(db))
    BY <1>1, <2>1, FrameIsCall DEF CallMarkAborted
  <2> QED
    BY <1>1, <1>3, <2>2, PushInv
<1>4. CASE /\ p # None /\ FinishResult(db, p) # "aborted"
           /\ Continue(db, <<CallMarkCompleted(p, FinishResult(db, p))>> \o Rest)
  <2>1. p \in 1..Len(db) /\ FinishResult(db, p) \in Results
    BY <1>1, <1>4 DEF FinishResult, Results
  <2>2. CallMarkCompleted(p, FinishResult(db, p)) \in Call(Len(db))
    BY <1>1, <2>1, FrameIsCall DEF CallMarkCompleted
  <2> QED
    BY <1>1, <1>4, <2>2, PushInv
<1> QED
  BY <1>2, <1>3, <1>4 DEF maybe_finish_workflow

(* The except and finally clauses are calls too.                           *)
LEMMA UnwoundIsCalls ==
    ASSUME Inv
    PROVE  Unwound \in Seq(Call(Len(db)))
<1>1. calls \in Seq(Call(Len(db))) /\ Len(db) \in Nat
  BY InvFacts DEF Inv, TypeOK
<1>2. Len(calls) \in Nat /\ DOMAIN calls = 1..Len(calls)
  BY <1>1, LenProperties
<1>3. ASSUME NEW k \in 1..Len(calls)
      PROVE  Handler(calls[k]) \in Call(Len(db))
  <2>1. calls[k] \in Call(Len(db))
    BY <1>1, ElementOfSeq
  <2>2. calls[k].op = "orchestrate" => calls[k].w \in 1..Len(db)
    BY <2>1 DEF Call, Methods
  <2>3. calls[k].op = "orchestrate"
          => CallMarkCompleted(calls[k].w, "error") \in Call(Len(db))
    BY <1>1, <2>2, FrameIsCall DEF CallMarkCompleted, Results
  <2>4. CallFinish(None) \in Call(Len(db))
    <3>1. 0 \in 0..Len(db)
      BY <1>1
    <3> QED
      BY <1>1, <3>1, FrameIsCall DEF CallFinish
  <2> QED
    BY <2>1, <2>3, <2>4 DEF Handler
<1>4. Unwound \in [1..Len(calls) -> Call(Len(db))]
  BY <1>2, <1>3 DEF Unwound
<1> QED
  BY <1>2, <1>4, SeqDef

(* So does one that returns to the caller.                                 *)
LEMMA UnwoundInv ==
    ASSUME Inv, ~AtRest, Continue(db, Unwound)
    PROVE  Inv'
  BY UnwoundIsCalls, TopFacts, InvFacts, KeepsReflexive, ContinueKeeps

(* A retry of one request.                                                 *)
LEMMA SupersedeInv ==
    ASSUME Inv, ~AtRest, NEW i \in 1..Len(db), NEW reason,
           verify_retry(db, i), Room(1),
           Continue(retry_supersede(db, i, reason), Rest)
    PROVE  Inv'
<1> DEFINE d == retry_supersede(db, i, reason)
<1>1. ~Superseded(db, i)
  BY DEF verify_retry
<1>2. IsTable(d) /\ Len(d) = Len(db) + 1 /\ IsChain(d)
  BY <1>1, InvFacts, RetrySupersede
<1>3. /\ Len(db) \in Nat /\ Len(db) <= Len(db) + 1 /\ Len(db) + 1 <= MaxId
      /\ Rest \in Seq(Call(Len(db) + 1))
  BY InvFacts, RestGrows DEF Room
<1> HIDE DEF d
<1> QED
  BY <1>2, <1>3, ContinueInv DEF d

(* What orchestrate() calls.                                               *)
LEMMA OrchestrateIsCall ==
    ASSUME NEW n \in Nat, NEW i \in 1..n, NEW d
    PROVE  CallOrchestrate(d, i) \in Call(n)
<1> DEFINE S == {s \in Step : Type(d, i) = "Workflow" /\ Plan[s].parent = d[i].step}
<1>1. S \in SUBSET Step
  OBVIOUS
<1> HIDE DEF S
<1>2. Frame("orchestrate", i, S, "") \in Call(n)
  BY <1>1, FrameIsCall
<1> QED
  BY <1>2 DEF CallOrchestrate, S

LEMMA Retry ==
    ASSUME Inv, retry
    PROVE  Inv'
<1> DEFINE i == Top.w
           c == retry_count(db, i, Top.arg)
           d == [db EXCEPT ![i].status = "running", ![i].retry_count = c]
           cs == <<CallOrchestrate(db, i),
                   Frame("retry_each", i, {}, Top.arg),
                   CallFinish(i)>> \o Rest
<1>1. /\ ~AtRest /\ i \in 1..Len(db) /\ Len(db) \in Nat /\ Top.arg \in Reasons
  BY TopFacts, InvFacts DEF retry, Methods
<1>2. CASE Raise
  BY <1>2, RaiseInv
<1>3. CASE Continue(db, Unwound)
  BY <1>1, <1>3, UnwoundInv
<1>4. CASE /\ verify_retry(db, i) /\ Room(1)
           /\ Continue(retry_supersede(db, i, Top.arg), Rest)
  BY <1>1, <1>4, SupersedeInv
<1>5. CASE Continue(d, cs)
  <2>1. c \in Nat
    <3>1. db[i] \in Row(Len(db))
      BY <1>1, InvFacts, TableFacts
    <3>2. db[i].retry_count \in Nat
      BY <3>1 DEF Row
    <3> QED
      BY <3>2 DEF retry_count
  <2>2. Keeps(db, Set(db, i, "running"))
    BY InvFacts, SetKeeps DEF Statuses
  <2>3. Keeps(Set(db, i, "running"),
              [Set(db, i, "running") EXCEPT ![i].retry_count = c])
    <3> HIDE DEF c
    <3> QED
      BY <2>1, <2>2, SetRetryCountKeeps DEF Keeps
  <2>4. Keeps(db, [Set(db, i, "running") EXCEPT ![i].retry_count = c])
    BY <2>2, <2>3, KeepsTransitive
  <2>5. Keeps(db, d)
    BY <2>4 DEF Set
  <2>6. /\ CallOrchestrate(db, i) \in Call(Len(db))
        /\ Frame("retry_each", i, {}, Top.arg) \in Call(Len(db))
        /\ CallFinish(i) \in Call(Len(db))
    <3>1. i \in 0..Len(db) /\ {} \in SUBSET (1..Len(db))
      BY <1>1
    <3> QED
      BY <1>1, <3>1, OrchestrateIsCall, FrameIsCall DEF CallFinish
  <2>7. cs \in Seq(Call(Len(db)))
    BY <1>1, <2>6, TopFacts, Push
  <2> HIDE DEF d, cs
  <2> QED
    BY <1>1, <1>5, <2>5, <2>7, TopFacts, ContinueKeeps
<1> QED
  BY <1>2, <1>3, <1>4, <1>5 DEF retry

LEMMA RetryEach ==
    ASSUME Inv, retry_each
    PROVE  Inv'
<1> DEFINE failed == {i \in Children(db, Top.w) : is_aborted_failed(db, i)}
<1>1. /\ ~AtRest /\ Top.set \subseteq 1..Len(db) /\ Len(db) \in Nat
      /\ Top.arg \in Reasons
  BY TopFacts, InvFacts DEF retry_each
<1>2. CASE Continue(db, <<Frame("retry_each", None, failed, Top.arg)>> \o Rest)
  <2>1. failed \in SUBSET (1..Len(db))
    BY InvFacts DEF Children
  <2> HIDE DEF failed
  <2>2. Frame("retry_each", None, failed, Top.arg) \in Call(Len(db))
    <3>1. 0 \in 0..Len(db)
      BY <1>1
    <3> QED
      BY <1>1, <2>1, <3>1, FrameIsCall
  <2> QED
    BY <1>1, <1>2, <2>2, PushInv
<1>3. CASE Continue(db, Rest)
  BY <1>1, <1>3, TopFacts, PushInv
<1>4. ASSUME NEW i \in Top.set,
             Continue(db, <<CallRetry(i, Top.arg),
                            Frame("retry_each", None, Top.set \ {i}, Top.arg)>>
                          \o Rest)
      PROVE  Inv'
  <2>1. /\ CallRetry(i, Top.arg) \in Call(Len(db))
        /\ Frame("retry_each", None, Top.set \ {i}, Top.arg) \in Call(Len(db))
    <3>1. /\ 0 \in 0..Len(db) /\ i \in 1..Len(db)
          /\ Top.set \ {i} \in SUBSET (1..Len(db))
      BY <1>1
    <3> QED
      BY <1>1, <3>1, FrameIsCall DEF CallRetry
  <2>2. <<CallRetry(i, Top.arg),
          Frame("retry_each", None, Top.set \ {i}, Top.arg)>> \o Rest
            \in Seq(Call(Len(db)))
    BY <1>1, <2>1, TopFacts, Push
  <2> QED
    BY <1>1, <1>4, <2>2, TopFacts, InvFacts, KeepsReflexive, ContinueKeeps
<1> QED
  BY <1>2, <1>3, <1>4 DEF retry_each

-----------------------------------------------------------------------------
(* Orchestration.                                                          *)

LEMMA OrchestrateCallback ==
    ASSUME Inv, orchestrate_callback
    PROVE  Inv'
<1>1. ~AtRest /\ Top.w \in 1..Len(db) /\ Len(db) \in Nat
  BY TopFacts, InvFacts DEF orchestrate_callback, Methods
<1>2. CallMarkCompleted(Top.w, "success") \in Call(Len(db))
  BY <1>1, FrameIsCall DEF CallMarkCompleted, Results
<1> QED
  BY <1>1, <1>2, PushInv DEF orchestrate_callback

LEMMA OrchestrateFails ==
    ASSUME Inv, orchestrate_fails
    PROVE  Inv'
  BY RaiseInv, UnwoundInv DEF orchestrate_fails

(* A child that is created, or found.                                      *)
LEMMA EnsureChild ==
    ASSUME NEW d, IsTable(d), IsChain(d), NEW w \in 1..Len(d), NEW s \in Step
    PROVE  LET e == ensure_child(d, w, s)
           IN  /\ IsTable(e) /\ IsChain(e)
               /\ \/ Existing(d, s) # {} /\ Len(e) = Len(d)
                  \/ Existing(d, s) = {} /\ Len(e) = Len(d) + 1
<1> DEFINE st == IF Plan[s].type \in {"Worker", "Wait"} THEN "blocked"
                                                        ELSE "pending"
<1>1. st \in Statuses /\ s \in 0..Steps /\ w \in 0..Len(d)
  <2>1. Steps \in Nat /\ Len(d) \in Nat
    BY WorkRequestsAssumption, TableFacts
  <2> QED
    BY <2>1 DEF Statuses, Step
<1>2. LET e == Append(d, NewRow(s, w, st))
      IN  IsTable(e) /\ Len(e) = Len(d) + 1 /\ IsChain(e)
  <2> HIDE DEF st
  <2> QED
    BY <1>1, NewRowTable
<1>3. CASE Existing(d, s) = {}
  BY <1>2, <1>3 DEF ensure_child
<1>4. CASE Existing(d, s) # {}
  BY <1>4 DEF ensure_child
<1> QED
  BY <1>3, <1>4

(* Dependencies that are added keep the table.                             *)
LEMMA RequiresArtifactsKeeps ==
    ASSUME NEW d, IsTable(d), NEW i, NEW new
    PROVE  Keeps(d, requires_artifacts(d, i, new))
<1> DEFINE deps == UNION {Promised(d, t) : t \in Entry(d, i).deps}
<1>1. deps \in SUBSET (1..Len(d))
  BY TableFacts DEF Promised
<1> HIDE DEF deps
<1>2. Keeps(d, add_dependencies(d, i, deps)) /\ Keeps(d, d)
  BY <1>1, AddDependenciesKeeps, KeepsReflexive
<1> QED
  BY <1>2 DEF requires_artifacts, deps

LEMMA OrchestrateWorkflow ==
    ASSUME Inv, orchestrate_workflow
    PROVE  Inv'
<1> DEFINE w == Top.w
           left(s) == <<Frame("orchestrate", w, Top.set \ {s}, "")>> \o Rest
           ready(d, i) == d[i].status = "pending"
<1>1. /\ ~AtRest /\ w \in 1..Len(db) /\ Len(db) \in Nat
      /\ Top.set \subseteq Step
  BY TopFacts, InvFacts DEF orchestrate_workflow, Methods
<1>2. ASSUME NEW s \in Top.set,
             NEW i \in Existing(ensure_child(db, w, s), s),
             Existing(db, s) = {} => Room(1),
             LET d1 == ensure_child(db, w, s)
                 d2 == requires_artifacts(d1, i, Existing(db, s) = {})
             IN  \/ Continue(IF ready(d2, i) THEN Set(d2, i, "running") ELSE d2,
                             <<CallOrchestrate(d2, i)>> \o left(s))
                 \/ Continue(d2, left(s))
      PROVE  Inv'
  <2> DEFINE d1 == ensure_child(db, w, s)
             d2 == requires_artifacts(d1, i, Existing(db, s) = {})
             d3 == IF ready(d2, i) THEN Set(d2, i, "running") ELSE d2
             n == Len(d1)
  <2>1. s \in Step
    BY <1>1
  <2>2. /\ IsTable(d1) /\ IsChain(d1)
        /\ \/ Existing(db, s) # {} /\ n = Len(db)
           \/ Existing(db, s) = {} /\ n = Len(db) + 1
    BY <1>1, <2>1, InvFacts, EnsureChild
  <2>3. n \in Nat /\ Len(db) <= n /\ n <= MaxId
    <3>1. Existing(db, s) = {} => Len(db) + 1 <= MaxId
      BY <1>2 DEF Room
    <3>2. Len(db) <= MaxId /\ MaxId \in Nat
      BY InvFacts, WorkRequestsAssumption
    <3> HIDE DEF n
    <3> QED
      BY <1>1, <2>2, <3>1, <3>2
  <2>4. i \in 1..n
    <3>1. DOMAIN d1 = 1..n
      BY <2>2, TableFacts
    <3> QED
      BY <3>1 DEF Existing
  <2> HIDE DEF d1
  <2>5. Keeps(d1, d2)
    BY <2>2, RequiresArtifactsKeeps
  <2> HIDE DEF d2
  <2>6. Keeps(d1, d3)
    <3>1. Keeps(d2, Set(d2, i, "running"))
      BY <2>5, SetKeeps DEF Keeps, Statuses
    <3>2. Keeps(d1, Set(d2, i, "running"))
      BY <2>5, <3>1, KeepsTransitive
    <3> QED
      BY <2>5, <3>2
  <2> HIDE DEF d3
  <2>7. /\ IsTable(d2) /\ IsChain(d2) /\ Len(d2) = n
        /\ IsTable(d3) /\ IsChain(d3) /\ Len(d3) = n
    BY <2>2, <2>5, <2>6, KeepsChain DEF Keeps
  <2>8. w \in 1..n /\ Top.set \ {s} \in SUBSET Step
    BY <1>1, <2>3
  <2> HIDE DEF n
  <2>9. left(s) \in Seq(Call(n))
    <3>1. Frame("orchestrate", w, Top.set \ {s}, "") \in Call(n)
      BY <2>3, <2>8, FrameIsCall
    <3>2. Rest \in Seq(Call(n))
      BY <1>1, <2>3, RestGrows
    <3> QED
      BY <3>1, <3>2, Push
  <2>10. <<CallOrchestrate(d2, i)>> \o left(s) \in Seq(Call(n))
    <3>1. CallOrchestrate(d2, i) \in Call(n)
      BY <2>3, <2>4, OrchestrateIsCall
    <3> HIDE DEF left
    <3> QED
      BY <2>9, <3>1, Push
  <2> DEFINE cs == <<CallOrchestrate(d2, i)>> \o left(s)
  <2>11. Continue(d3, cs) \/ Continue(d2, left(s))
    BY <1>2 DEF d1, d2, d3
  <2>12. /\ Len(db) <= Len(d2) /\ Len(d2) <= MaxId
         /\ Len(db) <= Len(d3) /\ Len(d3) <= MaxId
         /\ cs \in Seq(Call(Len(d3))) /\ left(s) \in Seq(Call(Len(d2)))
    BY <2>3, <2>7, <2>9, <2>10
  <2> HIDE DEF cs, left
  <2> QED
    BY <1>1, <2>7, <2>11, <2>12, ContinueInv
<1>3. ASSUME NEW S, Continue(mark_pending(db, S), Rest)
      PROVE  Inv'
  BY <1>1, <1>3, TopFacts, InvFacts, MarkPendingKeeps, ContinueKeeps
<1>4. CASE Continue(db, <<CallMarkCompleted(w, "success")>> \o Rest)
  <2>1. CallMarkCompleted(w, "success") \in Call(Len(db))
    BY <1>1, FrameIsCall DEF CallMarkCompleted, Results
  <2> QED
    BY <1>1, <1>4, <2>1, PushInv
<1> QED
  BY <1>2, <1>3, <1>4 DEF orchestrate_workflow

LEMMA RunWorkflowTask ==
    ASSUME Inv, NEW i \in queued, run_workflow_task(i)
    PROVE  Inv'
<1>1. /\ db' = db /\ committed' = committed /\ on_commit' = on_commit
      /\ calls' = <<CallOrchestrate(db, i)>> /\ caller' = "task"
      /\ queued' = queued \ {i} /\ AtRest
  BY DEF run_workflow_task
<1>2. i \in 1..Len(db) /\ Len(db) \in Nat
  BY <1>1, InvFacts DEF Inv, TypeOK
<1>3. CallOrchestrate(db, i) \in Call(Len(db))
  BY <1>2, OrchestrateIsCall
<1>4. calls' \in Seq(Call(Len(db))) /\ calls' # <<>>
  BY <1>1, <1>3
<1>5. TypeOK'
  BY <1>1, <1>4 DEF Inv, TypeOK, AtRest
<1>6. HistoryIsAChain'
  BY <1>1 DEF Inv, HistoryIsAChain
<1> QED
  BY <1>5, <1>6 DEF Inv

-----------------------------------------------------------------------------
(* The scheduler.                                                          *)

(* A transaction that begins with one call.                                *)
LEMMA BeginOne ==
    ASSUME Inv, NEW c \in Call(Len(db)), NEW who \in {"task", "api", "web"},
           Begin(who, db, <<c>>)
    PROVE  Inv'
<1>1. <<c>> \in Seq(Call(Len(db)))
  OBVIOUS
<1> QED
  BY <1>1, InvFacts, KeepsReflexive, BeginInv

(* A loop over work requests that begins a transaction.                    *)
LEMMA BeginLoop ==
    ASSUME Inv, NEW op \in Loops, NEW S \in SUBSET (1..Len(db)),
           NEW arg \in {""} \cup Results \cup Statuses \cup Reasons,
           NEW who \in {"task", "api", "web"},
           Begin(who, db, <<Frame(op, 0, S, arg)>>)
    PROVE  Inv'
<1>1. Frame(op, 0, S, arg) \in Call(Len(db))
  BY InvFacts, FrameIsCall
<1> QED
  BY <1>1, BeginOne

LEMMA ScheduleInternal ==
    ASSUME Inv, schedule_internal
    PROVE  Inv'
<1>1. Schedulable(db) \in SUBSET (1..Len(db))
  BY InvFacts DEF Schedulable
<1> QED
  BY <1>1, BeginLoop DEF schedule_internal, Loops

LEMMA CompleteDelayTasks ==
    ASSUME Inv, complete_delay_tasks
    PROVE  Inv'
<1>1. PICK S \in SUBSET {i \in DOMAIN db : Type(db, i) = "Wait"
                                         /\ db[i].status = "running"} :
        Begin("task", db, <<Frame("complete_each", 0, S, "")>>)
  BY DEF complete_delay_tasks
<1>2. S \in SUBSET (1..Len(db))
  BY InvFacts
<1> QED
  BY <1>1, <1>2, BeginLoop DEF Loops

LEMMA ScheduleEach ==
    ASSUME Inv, schedule_each
    PROVE  Inv'
<1> DEFINE next(i) == <<Frame("schedule_each", 0, Top.set \ {i}, "")>> \o Rest
<1>1. ~AtRest /\ Top.set \subseteq 1..Len(db) /\ Len(db) \in Nat
  BY TopFacts, InvFacts DEF schedule_each, Loops
<1>2. CASE Continue(db, Rest)
  BY <1>1, <1>2, TopFacts, InvFacts, KeepsReflexive, ContinueKeeps
<1>3. ASSUME NEW i \in Top.set,
             \/ Continue(db, <<CallMarkCompleted(i, "success")>> \o next(i))
             \/ Continue(Set(db, i, "running"), next(i))
             \/ Continue(db, next(i))
             \/ ContinueWith(Set(db, i, "running"), next(i), on_commit \cup {i})
             \/ \E r \in WorkflowRoot(db, i) :
                  ContinueWith(IF db[r].status = "pending"
                               THEN Set(db, r, "running") ELSE db,
                               next(i), on_commit \cup {r})
      PROVE  Inv'
  <2>1. i \in 1..Len(db) /\ Top.set \ {i} \in SUBSET (1..Len(db))
    BY <1>1
  <2>2. next(i) \in Seq(Call(Len(db)))
    <3>1. Frame("schedule_each", 0, Top.set \ {i}, "") \in Call(Len(db))
      BY <1>1, <2>1, FrameIsCall DEF Loops
    <3> QED
      BY <1>1, <3>1, TopFacts, Push
  <2>3. <<CallMarkCompleted(i, "success")>> \o next(i) \in Seq(Call(Len(db)))
    <3>1. CallMarkCompleted(i, "success") \in Call(Len(db))
      BY <1>1, <2>1, FrameIsCall DEF CallMarkCompleted, Results
    <3> HIDE DEF next
    <3> QED
      BY <2>2, <3>1, Push
  <2>4. Keeps(db, db) /\ \A j : Keeps(db, Set(db, j, "running"))
    BY InvFacts, KeepsReflexive, SetKeeps DEF Statuses
  <2>5. \A j \in 1..Len(db) : on_commit \cup {j} \in SUBSET (1..Len(db))
    BY <1>1, TopFacts
  <2>6. WorkflowRoot(db, i) \subseteq 1..Len(db)
    BY InvFacts DEF WorkflowRoot
  <2>7. on_commit \in SUBSET (1..Len(db))
    BY <1>1, TopFacts
  <2> HIDE DEF next
  <2>8. CASE Continue(db, <<CallMarkCompleted(i, "success")>> \o next(i))
    BY <1>1, <2>3, <2>4, <2>7, <2>8, ContinueKeeps
  <2>9. CASE Continue(Set(db, i, "running"), next(i)) \/ Continue(db, next(i))
    BY <1>1, <2>2, <2>4, <2>7, <2>9, ContinueKeeps
  <2>10. CASE ContinueWith(Set(db, i, "running"), next(i), on_commit \cup {i})
    BY <1>1, <2>1, <2>2, <2>4, <2>5, <2>10, ContinueKeeps
  <2>11. ASSUME NEW r \in WorkflowRoot(db, i),
                ContinueWith(IF db[r].status = "pending"
                             THEN Set(db, r, "running") ELSE db,
                             next(i), on_commit \cup {r})
         PROVE  Inv'
    <3> DEFINE d == IF db[r].status = "pending" THEN Set(db, r, "running") ELSE db
    <3>1. Keeps(db, d)
      BY <2>4
    <3>2. on_commit \cup {r} \in SUBSET (1..Len(db))
      BY <2>5, <2>6
    <3>3. ContinueWith(d, next(i), on_commit \cup {r})
      BY <2>11
    <3> HIDE DEF d
    <3> QED
      BY <1>1, <2>2, <3>1, <3>2, <3>3, ContinueKeeps
  <2> QED
    BY <1>3, <2>8, <2>9, <2>10, <2>11
<1> QED
  BY <1>2, <1>3 DEF schedule_each

LEMMA CompleteEach ==
    ASSUME Inv, complete_each
    PROVE  Inv'
<1>1. ~AtRest /\ Top.set \subseteq 1..Len(db) /\ Len(db) \in Nat
  BY TopFacts, InvFacts DEF complete_each, Loops
<1>2. CASE Continue(db, Rest)
  BY <1>1, <1>2, TopFacts, InvFacts, KeepsReflexive, ContinueKeeps
<1>3. ASSUME NEW i \in Top.set,
             Continue(db, <<CallMarkCompleted(i, "success"),
                            Frame("complete_each", 0, Top.set \ {i}, "")>>
                          \o Rest)
      PROVE  Inv'
  <2>1. i \in 1..Len(db) /\ Top.set \ {i} \in SUBSET (1..Len(db))
    BY <1>1
  <2>2. /\ CallMarkCompleted(i, "success") \in Call(Len(db))
        /\ Frame("complete_each", 0, Top.set \ {i}, "") \in Call(Len(db))
    BY <1>1, <2>1, FrameIsCall DEF CallMarkCompleted, Results, Loops
  <2>3. <<CallMarkCompleted(i, "success"),
          Frame("complete_each", 0, Top.set \ {i}, "")>> \o Rest
            \in Seq(Call(Len(db)))
    BY <1>1, <2>2, TopFacts, Push
  <2> QED
    BY <1>1, <1>3, <2>3, TopFacts, InvFacts, KeepsReflexive, ContinueKeeps
<1> QED
  BY <1>2, <1>3 DEF complete_each

LEMMA AssignInv ==
    ASSUME Inv, NEW k \in Workers, Assign(k)
    PROVE  Inv'
<1>1. PICK i \in 1..Len(db) : \/ assign_worker(k, i) \/ assign_skipped(k, i)
                              \/ assign_failed(k, i)
  BY InvFacts DEF Assign
<1>2. Len(db) \in Nat /\ Keeps(db, [db EXCEPT ![i].worker = k])
  BY InvFacts, SetWorkerKeeps
<1>3. /\ CallMarkCompleted(i, "skipped") \in Call(Len(db))
      /\ CallMarkCompleted(i, "error") \in Call(Len(db))
  BY <1>2, FrameIsCall DEF CallMarkCompleted, Results
<1>4. CASE assign_worker(k, i)
  BY <1>2, <1>4, EmptySeq, BeginInv DEF assign_worker
<1>5. CASE assign_skipped(k, i)
  <2> DEFINE c == CallMarkCompleted(i, "skipped")
  <2> HIDE DEF c
  <2>1. c \in Call(Len(db)) /\ Begin("task", [db EXCEPT ![i].worker = k], <<c>>)
    BY <1>3, <1>5 DEF c, assign_skipped
  <2>2. <<c>> \in Seq(Call(Len(db)))
    BY <2>1
  <2> QED
    BY <1>2, <2>1, <2>2, BeginInv
<1>6. CASE assign_failed(k, i)
  BY <1>3, <1>6, BeginOne DEF assign_failed
<1> QED
  BY <1>1, <1>4, <1>5, <1>6

-----------------------------------------------------------------------------
(* The views of workers and users.                                         *)

LEMMA RetryLost ==
    ASSUME Inv, retry_lost
    PROVE  Inv'
<1>1. ~AtRest /\ Top.w \in 1..Len(db)
  BY TopFacts DEF retry_lost, Methods
<1> QED
  BY <1>1, TopFacts, InvFacts, KeepsReflexive, ContinueKeeps, SupersedeInv
     DEF retry_lost

LEMMA NextPending ==
    ASSUME Inv, next_pending
    PROVE  Inv'
<1>1. ~AtRest
  BY DEF next_pending
<1>2. Keeps(db, db) /\ \A i : Keeps(db, Set(db, i, "running"))
  BY InvFacts, KeepsReflexive, SetKeeps DEF Statuses
<1> QED
  BY <1>1, <1>2, TopFacts, ContinueKeeps DEF next_pending

LEMMA GetNextWorkRequest ==
    ASSUME Inv, NEW k \in Workers, get_next_work_request(k)
    PROVE  Inv'
<1> DEFINE c == [Frame("next_pending", 0, {}, "") EXCEPT !.worker = k]
<1>1. c \in Call(Len(db)) /\ Len(db) \in Nat
  BY InvFacts, FrameIsCall
<1>2. CASE Begin("api", db, <<c>>)
  <2> HIDE DEF c
  <2> QED
    BY <1>1, <1>2, BeginOne
<1>3. ASSUME NEW i \in Running(db, k),
             Begin("api", db, <<CallMarkAborted(i),
                                Frame("retry_lost", i, {}, "worker_failed")>>
                              \o <<c>>)
      PROVE  Inv'
  <2> DEFINE a == CallMarkAborted(i)
             b == Frame("retry_lost", i, {}, "worker_failed")
  <2>1. i \in 1..Len(db)
    BY InvFacts DEF Running
  <2>2. a \in Call(Len(db)) /\ b \in Call(Len(db))
    BY <1>1, <2>1, FrameIsCall DEF CallMarkAborted, Reasons
  <2>3. Begin("api", db, <<a, b>> \o <<c>>)
    BY <1>3
  <2> HIDE DEF a, b, c
  <2>4. <<c>> \in Seq(Call(Len(db)))
    BY <1>1
  <2>5. <<a, b>> \o <<c>> \in Seq(Call(Len(db)))
    BY <2>2, <2>4, Push
  <2> QED
    BY <2>3, <2>5, InvFacts, KeepsReflexive, BeginInv
<1> QED
  BY <1>2, <1>3 DEF get_next_work_request

LEMMA ReportsInv ==
    ASSUME Inv, NEW k, NEW statuses, Reports(k, statuses)
    PROVE  Inv'
<1>1. PICK i \in 1..Len(db), res \in Outcomes :
        update_work_request_as_completed(i, res)
  BY InvFacts DEF Reports
<1>2. CallMarkCompleted(i, res) \in Call(Len(db))
  BY InvFacts, FrameIsCall, WorkRequestsAssumption
     DEF CallMarkCompleted, Results, AllOutcomes
<1> QED
  BY <1>1, <1>2, BeginOne DEF update_work_request_as_completed

LEMMA CreateWorkRequest ==
    ASSUME Inv, NEW s \in Step, create_work_request(s)
    PROVE  Inv'
<1> DEFINE d == Append(db, NewRow(s, None, "pending"))
<1>1. Begin("api", d, <<>>) /\ Len(db) + 1 <= MaxId /\ Len(db) \in Nat
  BY InvFacts DEF create_work_request, Room
<1>2. s \in 0..Steps /\ 0 \in 0..Len(db) /\ "pending" \in Statuses
  BY <1>1, WorkRequestsAssumption DEF Step, Statuses
<1>3. IsTable(d) /\ Len(d) = Len(db) + 1 /\ IsChain(d)
  BY <1>2, InvFacts, NewRowTable
<1> HIDE DEF d
<1>4. Len(db) <= Len(d) /\ Len(d) <= MaxId
  BY <1>1, <1>3
<1> QED
  BY <1>1, <1>3, <1>4, EmptySeq, ProceedInv DEF Begin

LEMMA AbortInv ==
    ASSUME Inv, NEW i, abort(i)
    PROVE  Inv'
<1> DEFINE S == {j \in DOMAIN db : i \in Ancestors(db, j) /\ verify_abort(db, j)}
<1>1. S \in SUBSET (1..Len(db))
  BY InvFacts
<1>2. Begin("web", db, <<Frame("abort_each", 0, S, "manual")>>)
  BY DEF abort
<1> HIDE DEF S
<1> QED
  BY <1>1, <1>2, BeginLoop DEF Loops, Reasons

LEMMA UserRetry ==
    ASSUME Inv, NEW i \in 1..Len(db), user_retry(i)
    PROVE  Inv'
<1>1. CallRetry(i, "manual") \in Call(Len(db))
  BY InvFacts, FrameIsCall DEF CallRetry, Reasons
<1> QED
  BY <1>1, BeginOne DEF user_retry

LEMMA ReviewManualUnblock ==
    ASSUME Inv, NEW i \in 1..Len(db), review_manual_unblock(i)
    PROVE  Inv'
<1>1. CASE Begin("web", mark_pending(db, {i}), <<>>)
  BY <1>1, InvFacts, MarkPendingKeeps, EmptySeq, BeginInv
<1>2. CASE Begin("web", db, <<CallMarkAborted(i)>>)
  <2>1. CallMarkAborted(i) \in Call(Len(db))
    BY InvFacts, FrameIsCall DEF CallMarkAborted
  <2> QED
    BY <1>2, <2>1, BeginOne
<1> QED
  BY <1>1, <1>2 DEF review_manual_unblock

-----------------------------------------------------------------------------
(* The theorems.                                                           *)

(* Initially there are no work requests.                                   *)
LEMMA InitInv == Init => Inv
<1> SUFFICES ASSUME Init PROVE Inv
  OBVIOUS
<1>1. /\ db = <<>> /\ committed = <<>> /\ calls = <<>> /\ caller = "none"
      /\ on_commit = {} /\ queued = {}
  BY DEF Init
<1>2. \A S : <<>> \in Seq(S) /\ Len(<<>>) = 0
  BY EmptySeq
<1>3. TypeOK
  BY <1>1, <1>2, WorkRequestsAssumption DEF TypeOK, AtRest
<1>4. DOMAIN db = {}
  BY <1>1
<1>5. HistoryIsAChain
  BY <1>1, <1>4 DEF HistoryIsAChain, IsChain
<1> QED
  BY <1>3, <1>5 DEF Inv

(* Every step keeps the invariant.                                         *)
LEMMA NextInv == Inv /\ [Next]_vars => Inv'
<1> SUFFICES ASSUME Inv, [Next]_vars PROVE Inv'
  OBVIOUS
<1>1. CASE Method
  BY <1>1, MarkAborted, AbortEach, MarkCompleted, UnblockReverseDependencies,
     ProcessRetryWithDelays, MaybeFinishWorkflow, Retry, RetryEach,
     OrchestrateCallback, OrchestrateWorkflow, OrchestrateFails, ScheduleEach,
     CompleteEach, RetryLost, NextPending DEF Method
<1>2. CASE User
  BY <1>2, InvFacts, CreateWorkRequest, AbortInv, UserRetry,
     ReviewManualUnblock DEF User
<1>3. CASE schedule_internal
  BY <1>3, ScheduleInternal
<1>4. CASE \E i \in queued : run_workflow_task(i)
  BY <1>4, RunWorkflowTask
<1>5. CASE complete_delay_tasks
  BY <1>5, CompleteDelayTasks
<1>6. CASE \E k \in Workers : \/ Assign(k) \/ Worker(k)
                             \/ Reports(k, {"completed", "aborted"})
  BY <1>6, AssignInv, GetNextWorkRequest, ReportsInv DEF Worker
<1>7. CASE UNCHANGED vars
  BY <1>7 DEF Inv, TypeOK, HistoryIsAChain, AtRest, vars
<1> QED
  BY <1>1, <1>2, <1>3, <1>4, <1>5, <1>6, <1>7 DEF Next

(* The invariant holds always.                                             *)
LEMMA SpecInv == Spec => []Inv
<1> QED
  BY InitInv, NextInv, PTL DEF Spec

(* Every table any transaction sees or commits is well-formed: no method,  *)
(* cascade, retry or rollback leaves a row, a pending call or a queued     *)
(* Celery task that refers to a work request that does not exist.          *)
THEOREM TypeCorrect == Spec => []TypeOK
<1>1. Inv => TypeOK
  BY DEF Inv
<1> QED
  BY <1>1, SpecInv, PTL

(* However retries by users, by reactions and after lost workers follow    *)
(* each other, the attempts at a task form one chain: _retry_supersede     *)
(* never supersedes the same attempt twice, which the one-to-one field     *)
(* supersedes would refuse.                                                *)
THEOREM OneChain == Spec => []HistoryIsAChain
<1>1. Inv => HistoryIsAChain
  BY DEF Inv
<1> QED
  BY <1>1, SpecInv, PTL

-----------------------------------------------------------------------------
(* What is over stays over.                                                *)

Waiting == {"blocked", "pending"}

(* Attempts are superseded once they are over, and workflows never.        *)
SupersededDone(d) ==
    \A i \in DOMAIN d : Superseded(d, i) =>
        ~InProgress(d, i) /\ Type(d, i) \notin {"Workflow", "Wait"}

(* Parents are workflows that have begun; only worker tasks have a worker; *)
(* nothing depends on a workflow.                                          *)
Related(d) ==
    \A i \in DOMAIN d :
        /\ d[i].parent # None =>
              /\ Type(d, d[i].parent) = "Workflow"
              /\ d[d[i].parent].status \notin Waiting
        /\ d[i].worker # None => Type(d, i) = "Worker"
        /\ \A j \in d[i].deps : Type(d, j) # "Workflow"

(* A workflow is blocked by dependencies only, which roots do not have.    *)
NeedsNothing(d, i) == Plan[d[i].step].parent = 0 \/ Plan[d[i].step].deps = {}
WorkflowsWait(d) ==
    \A i \in DOMAIN d : Type(d, i) = "Workflow" =>
        /\ d[i].parent = None => Plan[d[i].step].parent = 0
        /\ NeedsNothing(d, i) => d[i].deps = {}
        /\ d[i].status = "blocked" => d[i].deps # {}

DependenciesDone(d) ==
    \A i \in DOMAIN d :
        d[i].status = "pending" /\ Entry(d, i).unblock_strategy = "deps"
        => \A j \in d[i].deps : d[j].status = "completed"

Sound(d) == /\ SupersededDone(d) /\ Related(d)
            /\ WorkflowsWait(d) /\ DependenciesDone(d)

(* Table e is a later one than d.                                          *)
Later(d, e) ==
    /\ IsTable(e) /\ Len(d) <= Len(e)
    /\ \A i \in 1..Len(d) :
          /\ SameTask(d[i], e[i])
          /\ e[i].status \in Waiting => d[i].status \in Waiting
          /\ Superseded(d, i) => /\ e[i].status = d[i].status
                                 /\ e[i].result = d[i].result

(* What a row may become when no row is created.                           *)
Allowed(d, e, i) ==
    /\ e[i].worker # None => e[i].worker = d[i].worker \/ Type(d, i) = "Worker"
    /\ Superseded(d, i) => e[i].status = d[i].status /\ e[i].result = d[i].result
    /\ d[i].status = "completed" /\ Type(d, i) # "Workflow"
         => e[i].status = "completed"
    /\ e[i].status \in Waiting => d[i].status \in Waiting
    /\ e[i].status = "pending" /\ Entry(d, i).unblock_strategy = "deps" =>
          \/ d[i].status = "pending" /\ e[i].deps = d[i].deps
          \/ \A j \in e[i].deps : e[j].status = "completed"
    /\ \A j \in e[i].deps : j \in d[i].deps \/ Type(d, j) # "Workflow"
    /\ Type(d, i) = "Workflow" =>
          /\ NeedsNothing(d, i) => e[i].deps = {}
          /\ e[i].status = "blocked" => e[i].deps # {}
Allows(d, e) == Keeps(d, e) /\ \A i \in DOMAIN d : Allowed(d, e, i)

(* What is planned for a row does not change.                              *)
LEMMA SameEntry ==
    ASSUME NEW d, NEW e, NEW i, NEW j, SameTask(d[i], e[j])
    PROVE  /\ Entry(e, j) = Entry(d, i) /\ Type(e, j) = Type(d, i)
           /\ AllowFailure(e, j) = AllowFailure(d, i)
           /\ NeedsNothing(e, j) = NeedsNothing(d, i)
  BY DEF SameTask, Entry, Type, AllowFailure, NeedsNothing

(* Rows of a table: what they refer to is there.                           *)
LEMMA RowFacts ==
    ASSUME NEW d, IsTable(d), NEW i \in DOMAIN d
    PROVE  /\ i \in 1..Len(d) /\ d[i].deps \subseteq DOMAIN d
           /\ d[i].parent # None => d[i].parent \in DOMAIN d
           /\ d[i].status \in Statuses
<1>1. DOMAIN d = 1..Len(d) /\ Len(d) \in Nat /\ d[i] \in Row(Len(d))
  BY TableFacts
<1>2. d[i].parent \in 0..Len(d) /\ d[i].deps \subseteq 1..Len(d)
      /\ d[i].status \in Statuses
  BY <1>1 DEF Row
<1> QED
  BY <1>1, <1>2

(* No row is superseded by writing others.                                 *)
LEMMA SameSuperseded ==
    ASSUME NEW d, NEW e, IsTable(d), Keeps(d, e), NEW i
    PROVE  Superseded(e, i) <=> Superseded(d, i)
<1>1. DOMAIN d = 1..Len(d) /\ DOMAIN e = 1..Len(d)
  BY TableFacts DEF Keeps
<1> QED
  BY <1>1 DEF Superseded, Keeps, SameTask

(* Such changes keep a table sound.                                        *)
LEMMA AllowsSound ==
    ASSUME NEW d, NEW e, IsTable(d), Sound(d), Allows(d, e)
    PROVE  Sound(e) /\ Later(d, e) /\ Keeps(d, e)
<1>1. /\ DOMAIN d = 1..Len(d) /\ DOMAIN e = DOMAIN d /\ Len(e) = Len(d)
      /\ Len(d) \in Nat /\ Keeps(d, e) /\ IsTable(e)
  BY TableFacts DEF Allows, Keeps
<1>2. \A i \in DOMAIN d : SameTask(d[i], e[i]) /\ Allowed(d, e, i)
  BY <1>1 DEF Allows, Keeps
<1>3. \A i \in DOMAIN d : /\ Entry(e, i) = Entry(d, i) /\ Type(e, i) = Type(d, i)
                          /\ NeedsNothing(e, i) = NeedsNothing(d, i)
  BY <1>2, SameEntry
<1>4. \A i : Superseded(e, i) <=> Superseded(d, i)
  BY <1>1, SameSuperseded
<1>5. \A i \in DOMAIN d : /\ d[i].deps \subseteq DOMAIN d
                          /\ e[i].deps \subseteq DOMAIN d
                          /\ d[i].parent # None => d[i].parent \in DOMAIN d
                          /\ e[i].parent = d[i].parent /\ e[i].step = d[i].step
  BY <1>1, <1>2, RowFacts DEF SameTask
<1>6. SupersededDone(e)
  BY <1>1, <1>2, <1>3, <1>4
     DEF Sound, SupersededDone, Allowed, InProgress
<1>7. Related(e)
  <2> SUFFICES ASSUME NEW i \in DOMAIN e
               PROVE  /\ e[i].parent # None =>
                            /\ Type(e, e[i].parent) = "Workflow"
                            /\ e[e[i].parent].status \notin Waiting
                      /\ e[i].worker # None => Type(e, i) = "Worker"
                      /\ \A j \in e[i].deps : Type(e, j) # "Workflow"
    BY DEF Related
  <2>1. e[i].parent # None => /\ Type(e, e[i].parent) = "Workflow"
                              /\ e[e[i].parent].status \notin Waiting
    BY <1>1, <1>2, <1>3, <1>5 DEF Sound, Related, Allowed
  <2>2. e[i].worker # None => Type(e, i) = "Worker"
    BY <1>1, <1>2, <1>3 DEF Sound, Related, Allowed
  <2>3. \A j \in e[i].deps : Type(e, j) # "Workflow"
    BY <1>1, <1>2, <1>3, <1>5 DEF Sound, Related, Allowed
  <2> QED
    BY <2>1, <2>2, <2>3
<1>8. WorkflowsWait(e)
  BY <1>1, <1>2, <1>3, <1>5 DEF Sound, WorkflowsWait, Allowed
<1>9. DependenciesDone(e)
  <2> SUFFICES ASSUME NEW i \in DOMAIN e, NEW j \in e[i].deps,
                      e[i].status = "pending",
                      Entry(e, i).unblock_strategy = "deps"
               PROVE  e[j].status = "completed"
    BY DEF DependenciesDone
  <2>1. CASE d[i].status = "pending" /\ e[i].deps = d[i].deps
    <3>1. d[j].status = "completed" /\ Type(d, j) # "Workflow" /\ j \in DOMAIN d
      BY <1>1, <1>3, <1>5, <2>1 DEF Sound, DependenciesDone, Related
    <3> QED
      BY <1>2, <3>1 DEF Allowed
  <2> QED
    BY <1>1, <1>2, <1>3, <2>1 DEF Allowed
<1>10. Later(d, e)
  BY <1>1, <1>2 DEF Later, Allowed
<1> QED
  BY <1>1, <1>6, <1>7, <1>8, <1>9, <1>10 DEF Sound

(* Later is a preorder.                                                    *)
LEMMA LaterReflexive ==
    ASSUME NEW d, IsTable(d)
    PROVE  Later(d, d)
<1>1. Len(d) \in Nat
  BY TableFacts
<1> QED
  BY <1>1 DEF Later, SameTask

(* What is superseded stays superseded.                                    *)
LEMMA StaysSuperseded ==
    ASSUME NEW d, NEW e, IsTable(d), Later(d, e), NEW i, Superseded(d, i)
    PROVE  Superseded(e, i)
<1>1. /\ DOMAIN d = 1..Len(d) /\ DOMAIN e = 1..Len(e)
      /\ Len(d) \in Nat /\ Len(e) \in Nat /\ Len(d) <= Len(e)
  BY TableFacts DEF Later
<1>2. PICK j \in 1..Len(d) : d[j].supersedes = i
  BY <1>1 DEF Superseded
<1>3. j \in DOMAIN e /\ e[j].supersedes = i
  BY <1>1, <1>2 DEF Later, SameTask
<1> QED
  BY <1>3 DEF Superseded

LEMMA LaterTransitive ==
    ASSUME NEW d, NEW e, NEW f, IsTable(d), Later(d, e), Later(e, f)
    PROVE  Later(d, f)
<1>1. /\ Len(d) \in Nat /\ Len(e) \in Nat /\ Len(f) \in Nat
      /\ Len(d) <= Len(e) /\ Len(e) <= Len(f) /\ IsTable(e) /\ IsTable(f)
  BY TableFacts DEF Later
<1>2. ASSUME NEW i \in 1..Len(d)
      PROVE  /\ SameTask(d[i], f[i])
             /\ f[i].status \in Waiting => d[i].status \in Waiting
             /\ Superseded(d, i) => /\ f[i].status = d[i].status
                                    /\ f[i].result = d[i].result
  <2>1. i \in 1..Len(e)
    BY <1>1
  <2>2. /\ SameTask(d[i], e[i]) /\ SameTask(e[i], f[i])
        /\ f[i].status \in Waiting => e[i].status \in Waiting
        /\ e[i].status \in Waiting => d[i].status \in Waiting
    BY <2>1 DEF Later
  <2>3. Superseded(d, i) => Superseded(e, i)
    BY StaysSuperseded
  <2>4. Superseded(d, i) => /\ f[i].status = d[i].status
                            /\ f[i].result = d[i].result
    BY <2>1, <2>3 DEF Later
  <2> QED
    BY <2>2, <2>4 DEF SameTask
<1> QED
  BY <1>1, <1>2 DEF Later

(* Rows that stay as they are, and writes that end, start or restart one   *)
(* row that is not superseded.                                             *)
LEMMA SameAllowed ==
    ASSUME NEW d, NEW e, IsTable(d), Sound(d), NEW i \in DOMAIN d,
           e[i].deps = d[i].deps, e[i].status = d[i].status,
           e[i].result = d[i].result,
           e[i].worker \in {d[i].worker, None} \/ Type(d, i) = "Worker"
    PROVE  Allowed(d, e, i)
  BY DEF Sound, WorkflowsWait, Allowed

LEMMA SettleAllows ==
    ASSUME NEW d, NEW e, IsTable(d), Sound(d), Keeps(d, e), NEW i,
           \A j \in DOMAIN d : /\ e[j].deps = d[j].deps
                               /\ e[j].worker \in {d[j].worker, None}
                               /\ j # i => /\ e[j].status = d[j].status
                                           /\ e[j].result = d[j].result,
           i \in DOMAIN d => /\ e[i].status \notin Waiting
                             /\ ~Superseded(d, i)
                             /\ Type(d, i) # "Workflow"
                                  /\ d[i].status = "completed"
                                  => e[i].status = "completed"
    PROVE  Allows(d, e)
<1>1. ASSUME NEW j \in DOMAIN d, j # i
      PROVE  Allowed(d, e, j)
  BY <1>1, SameAllowed
<1>2. i \in DOMAIN d => Allowed(d, e, i)
  BY DEF Sound, WorkflowsWait, Allowed, Waiting
<1> QED
  BY <1>1, <1>2 DEF Allows

(* A superseded request is not in progress, a workflow is not superseded.  *)
LEMMA NotSuperseded ==
    ASSUME NEW d, Sound(d), NEW i \in DOMAIN d,
           InProgress(d, i) \/ Type(d, i) \in {"Workflow", "Wait"}
    PROVE  ~Superseded(d, i)
  BY DEF Sound, SupersededDone

LEMMA SetAllows ==
    ASSUME NEW d, IsTable(d), Sound(d), NEW i, NEW st \in Statuses \ Waiting,
           i \in DOMAIN d => /\ ~Superseded(d, i)
                             /\ Type(d, i) # "Workflow"
                                  /\ d[i].status = "completed"
                                  => st = "completed"
    PROVE  Allows(d, Set(d, i, st))
<1> DEFINE e == Set(d, i, st)
<1>1. \A j \in DOMAIN d : /\ e[j].deps = d[j].deps /\ e[j].worker = d[j].worker
                          /\ j # i => e[j] = d[j]
                          /\ e[i].status = st \/ i \notin DOMAIN d
  <2> SUFFICES ASSUME NEW j \in DOMAIN d
               PROVE  /\ e[j].deps = d[j].deps /\ e[j].worker = d[j].worker
                      /\ j # i => e[j] = d[j]
                      /\ e[i].status = st \/ i \notin DOMAIN d
    OBVIOUS
  <2>1. d[j] \in Row(Len(d)) /\ (i \in DOMAIN d => d[i] \in Row(Len(d)))
    BY TableFacts
  <2> QED
    BY <2>1 DEF Set, Row
<1>2. Keeps(d, e)
  BY SetKeeps
<1> HIDE DEF e
<1>3. Allows(d, e)
  BY <1>1, <1>2, SettleAllows
<1> QED
  BY <1>3 DEF e

LEMMA FinishAllows ==
    ASSUME NEW d, IsTable(d), Sound(d), NEW i, NEW st \in Statuses \ Waiting,
           NEW res \in Results,
           i \in DOMAIN d => /\ ~Superseded(d, i)
                             /\ Type(d, i) # "Workflow"
                                  /\ d[i].status = "completed"
                                  => st = "completed"
    PROVE  Allows(d, [d EXCEPT ![i].status = st, ![i].result = res])
<1> DEFINE e == [d EXCEPT ![i].status = st, ![i].result = res]
<1>1. ASSUME NEW j \in DOMAIN d
      PROVE  /\ e[j].deps = d[j].deps /\ e[j].worker = d[j].worker
             /\ j # i => e[j] = d[j]
             /\ e[i].status = st \/ i \notin DOMAIN d
  <2>1. d[j] \in Row(Len(d)) /\ (i \in DOMAIN d => d[i] \in Row(Len(d)))
    BY TableFacts
  <2> QED
    BY <2>1 DEF Row
<1>2. Keeps(d, e)
  BY FinishKeeps
<1> HIDE DEF e
<1>3. Allows(d, e)
  BY <1>1, <1>2, SettleAllows
<1> QED
  BY <1>3 DEF e

(* A worker is assigned a task, or loses it.                               *)
LEMMA SetWorkerAllows ==
    ASSUME NEW d, IsTable(d), Sound(d), NEW i, NEW k \in Workers \cup {None},
           i \in DOMAIN d /\ k # None => Type(d, i) = "Worker"
    PROVE  Allows(d, [d EXCEPT ![i].worker = k])
<1> DEFINE e == [d EXCEPT ![i].worker = k]
<1>1. ASSUME NEW j \in DOMAIN d
      PROVE  Allowed(d, e, j)
  <2>1. d[j] \in Row(Len(d))
    BY TableFacts
  <2>2. /\ e[j].deps = d[j].deps /\ e[j].status = d[j].status
        /\ e[j].result = d[j].result
        /\ e[j].worker \in {d[j].worker, None} \/ Type(d, j) = "Worker"
    BY <2>1 DEF Row
  <2> HIDE DEF e
  <2> QED
    BY <2>2, SameAllowed
<1>2. Keeps(d, e)
  BY SetWorkerKeeps
<1> QED
  BY <1>1, <1>2 DEF Allows

(* mark_pending() of what was blocked, once its dependencies are done.     *)
LEMMA MarkPendingAllows ==
    ASSUME NEW d, IsTable(d), Sound(d), NEW S,
           \A i \in S \cap DOMAIN d :
              /\ d[i].status = "blocked"
              /\ Entry(d, i).unblock_strategy = "deps" =>
                    \A j \in d[i].deps : d[j].status = "completed"
    PROVE  Allows(d, mark_pending(d, S))
<1> DEFINE e == mark_pending(d, S)
<1>1. ASSUME NEW j \in DOMAIN d
      PROVE  /\ e[j].deps = d[j].deps /\ e[j].worker = d[j].worker
             /\ e[j].result = d[j].result
             /\ e[j].status = IF j \in S THEN "pending" ELSE d[j].status
  <2>1. d[j] \in Row(Len(d))
    BY TableFacts
  <2> QED
    BY <2>1 DEF mark_pending, Row
<1>2. Keeps(d, e)
  BY MarkPendingKeeps
<1> HIDE DEF e
<1>3. ASSUME NEW i \in DOMAIN d, i \in S
      PROVE  Allowed(d, e, i)
  <2>1. d[i].status = "blocked" /\ ~Superseded(d, i)
    BY <1>3, NotSuperseded DEF InProgress
  <2>2. ASSUME Entry(d, i).unblock_strategy = "deps", NEW j \in d[i].deps
        PROVE  e[j].status = "completed"
    <3>1. d[j].status = "completed" /\ j \in DOMAIN d
      BY <1>3, <2>2, RowFacts
    <3> QED
      BY <1>1, <3>1
  <2> QED
    BY <1>1, <1>3, <2>1, <2>2 DEF Sound, WorkflowsWait, Allowed, Waiting
<1>4. ASSUME NEW i \in DOMAIN d, i \notin S
      PROVE  Allowed(d, e, i)
  BY <1>1, <1>4, SameAllowed
<1>5. Allows(d, e)
  BY <1>2, <1>3, <1>4 DEF Allows
<1> QED
  BY <1>5 DEF e

(* add_dependency() on something other than a workflow.                    *)
LEMMA AddDependenciesAllows ==
    ASSUME NEW d, IsTable(d), Sound(d), NEW i \in DOMAIN d,
           NEW deps \in SUBSET (1..Len(d)),
           \A j \in deps : Type(d, j) # "Workflow",
           Type(d, i) = "Workflow" /\ NeedsNothing(d, i) => deps = {}
    PROVE  Allows(d, add_dependencies(d, i, deps))
<1> DEFINE e == add_dependencies(d, i, deps)
           waits == /\ d[i].status = "pending"
                    /\ Entry(d, i).unblock_strategy = "deps"
                    /\ \E j \in deps : d[j].status # "completed"
<1>1. ASSUME NEW j \in DOMAIN d
      PROVE  /\ e[j].worker = d[j].worker /\ e[j].result = d[j].result
             /\ j # i => e[j] = d[j]
             /\ e[i].deps = d[i].deps \cup deps
             /\ e[i].status = IF waits THEN "blocked" ELSE d[i].status
  <2>1. d[j] \in Row(Len(d)) /\ d[i] \in Row(Len(d))
    BY TableFacts
  <2> QED
    BY <2>1 DEF add_dependencies, Row
<1>2. Keeps(d, e)
  BY AddDependenciesKeeps
<1> HIDE DEF e
<1>3. ASSUME NEW j \in DOMAIN d, j # i
      PROVE  Allowed(d, e, j)
  BY <1>1, <1>3, SameAllowed
<1>4. Allowed(d, e, i)
  <2>1. d[i].status = "pending" => ~Superseded(d, i)
    BY NotSuperseded DEF InProgress
  <2>2. ASSUME e[i].status = "pending", Entry(d, i).unblock_strategy = "deps",
               NEW j \in e[i].deps
        PROVE  e[j].status = "completed"
    <3>1. d[i].status = "pending" /\ \A k \in deps : d[k].status = "completed"
      BY <1>1, <2>2
    <3>2. d[j].status = "completed"
      BY <1>1, <2>2, <3>1 DEF Sound, DependenciesDone
    <3>3. j \in DOMAIN d
      BY <1>1, TableFacts, RowFacts
    <3>4. j # i
      BY <3>1, <3>2
    <3> QED
      BY <1>1, <3>2, <3>3, <3>4
  <2>3. Type(d, i) = "Workflow" => /\ NeedsNothing(d, i) => e[i].deps = {}
                                   /\ e[i].status = "blocked" => e[i].deps # {}
    BY <1>1 DEF Sound, WorkflowsWait
  <2> QED
    BY <1>1, <2>1, <2>2, <2>3 DEF Allowed, Waiting
<1>5. Allows(d, e)
  BY <1>2, <1>3, <1>4 DEF Allows
<1> QED
  BY <1>5 DEF e

(* The redirection of reverse dependencies to the new attempt.             *)
LEMMA RepointAllows ==
    ASSUME NEW d, IsTable(d), Sound(d), NEW i, NEW n \in 1..Len(d),
           Type(d, n) # "Workflow"
    PROVE  Allows(d, Repoint(d, i, n))
<1> DEFINE e == Repoint(d, i, n)
           waits(j) == /\ d[j].status = "pending"
                       /\ Entry(d, j).unblock_strategy = "deps"
<1>1. ASSUME NEW j \in DOMAIN d
      PROVE  /\ e[j].worker = d[j].worker /\ e[j].result = d[j].result
             /\ i \notin d[j].deps => e[j] = d[j]
             /\ i \in d[j].deps =>
                  /\ e[j].deps = (d[j].deps \ {i}) \cup {n}
                  /\ e[j].status = IF waits(j) THEN "blocked" ELSE d[j].status
  <2>1. d[j] \in Row(Len(d))
    BY TableFacts
  <2> QED
    BY <2>1 DEF Repoint, Row
<1>2. Keeps(d, e)
  BY RepointKeeps
<1> HIDE DEF e
<1>3. ASSUME NEW j \in DOMAIN d
      PROVE  Allowed(d, e, j)
  <2>1. d[j].status = "pending" => ~Superseded(d, j)
    BY NotSuperseded DEF InProgress
  <2>2. CASE i \notin d[j].deps
    BY <1>1, <2>2, SameAllowed
  <2>3. CASE i \in d[j].deps
    <3>1. /\ e[j].worker = d[j].worker /\ e[j].result = d[j].result
          /\ e[j].deps = (d[j].deps \ {i}) \cup {n}
          /\ e[j].status = IF waits(j) THEN "blocked" ELSE d[j].status
      BY <1>1, <2>3
    <3>2. Superseded(d, j) => e[j].status = d[j].status
      BY <2>1, <3>1
    <3>3. d[j].status = "completed" => e[j].status = "completed"
      BY <3>1
    <3>4. e[j].status \in Waiting => d[j].status \in Waiting
      BY <3>1 DEF Waiting
    <3>5. ~(e[j].status = "pending" /\ Entry(d, j).unblock_strategy = "deps")
      BY <3>1
    <3>6. \A k \in e[j].deps : k \in d[j].deps \/ Type(d, k) # "Workflow"
      BY <3>1
    <3>7. e[j].deps # {}
      BY <3>1
    <3>8. Type(d, j) = "Workflow" => ~NeedsNothing(d, j)
      BY <2>3 DEF Sound, WorkflowsWait
    <3> HIDE DEF waits
    <3> QED
      BY <3>1, <3>2, <3>3, <3>4, <3>5, <3>6, <3>7, <3>8 DEF Allowed
  <2> QED
    BY <2>2, <2>3
<1>4. Allows(d, e)
  BY <1>2, <1>3 DEF Allows
<1> QED
  BY <1>4 DEF e

(* A parent that is opened again.                                          *)
LEMMA ReopenAllows ==
    ASSUME NEW d, IsTable(d), Sound(d), NEW p,
           p # None => p \in DOMAIN d /\ Type(d, p) = "Workflow"
    PROVE  Allows(d, Reopen(d, p))
<1>1. Allows(d, d)
  BY SameAllowed, KeepsReflexive DEF Allows
<1>2. ASSUME p # None
      PROVE  Allows(d, [d EXCEPT ![p].status = "running", ![p].result = "none"])
  <2>1. "running" \in Statuses \ Waiting /\ "none" \in Results
    BY DEF Statuses, Waiting, Results
  <2> QED
    BY <1>2, <2>1, NotSuperseded, FinishAllows
<1> QED
  BY <1>1, <1>2 DEF Reopen

(* A row that may be added to a table: a task that waits for others than   *)
(* workflows, in a workflow that has begun, and replaces what is over.     *)
Fits(d, e, r) ==
    LET n == Len(d) + 1
    IN  /\ r \in Row(n)
        /\ e = Append(d, r)
        /\ r.parent # None =>
              /\ r.parent \in DOMAIN d /\ Type(d, r.parent) = "Workflow"
              /\ d[r.parent].status \notin Waiting
        /\ r.supersedes # None =>
              /\ r.supersedes \in DOMAIN d /\ ~InProgress(d, r.supersedes)
              /\ Type(d, r.supersedes) \notin {"Workflow", "Wait"}
        /\ r.worker = None
        /\ \A j \in r.deps : j \in DOMAIN d /\ Type(d, j) # "Workflow"
        /\ r.status = "pending" => r.deps = {}
        /\ Type(e, n) = "Workflow" =>
              /\ r.parent = None => Plan[r.step].parent = 0
              /\ r.deps = {} /\ r.status # "blocked"

LEMMA AppendSound ==
    ASSUME NEW d, NEW e, NEW r, IsTable(d), Sound(d), Fits(d, e, r)
    PROVE  Sound(e) /\ Later(d, e)
<1> DEFINE n == Len(d) + 1
<1>1. /\ Len(d) \in Nat /\ DOMAIN d = 1..Len(d) /\ n \in Nat
      /\ IsTable(e) /\ Len(e) = n /\ DOMAIN e = 1..n
      /\ \A i \in DOMAIN d : e[i] = d[i]
      /\ e[n] = r
  BY TableFacts, AppendTable DEF Fits
<1>2. \A i \in DOMAIN e : i \in DOMAIN d \/ i = n
  BY <1>1
<1>3. \A i \in DOMAIN d : /\ Entry(e, i) = Entry(d, i) /\ Type(e, i) = Type(d, i)
                          /\ NeedsNothing(e, i) = NeedsNothing(d, i)
                          /\ InProgress(e, i) = InProgress(d, i)
                          /\ i \in DOMAIN e /\ i # n
  BY <1>1 DEF Entry, Type, NeedsNothing, InProgress
<1>4. \A i \in DOMAIN d : /\ d[i].deps \subseteq DOMAIN d
                          /\ d[i].parent # None => d[i].parent \in DOMAIN d
                          /\ d[i].supersedes \in 0..Len(d)
  BY <1>1, RowFacts, TableFacts DEF Row
<1>5. ASSUME NEW i \in DOMAIN e, Superseded(e, i)
      PROVE  i \in DOMAIN d /\ (Superseded(d, i) \/ i = r.supersedes)
  <2>1. PICK j \in DOMAIN e : e[j].supersedes = i
    BY <1>5 DEF Superseded
  <2>2. CASE j \in DOMAIN d
    BY <1>1, <1>4, <2>1, <2>2 DEF Superseded
  <2>3. CASE j = n
    BY <1>1, <2>1, <2>3 DEF Fits
  <2> QED
    BY <1>2, <2>2, <2>3
<1> HIDE DEF n
<1>6. SupersededDone(e)
  <2> SUFFICES ASSUME NEW i \in DOMAIN e, Superseded(e, i)
               PROVE  ~InProgress(e, i) /\ Type(e, i) \notin {"Workflow", "Wait"}
    BY DEF SupersededDone
  <2>1. i \in DOMAIN d /\ (Superseded(d, i) \/ i = r.supersedes)
    BY <1>5
  <2>2. ~InProgress(d, i) /\ Type(d, i) \notin {"Workflow", "Wait"}
    <3>1. CASE Superseded(d, i)
      BY <2>1, <3>1 DEF Sound, SupersededDone
    <3>2. CASE i = r.supersedes
      BY <1>1, <2>1, <3>2 DEF Fits
    <3> QED
      BY <2>1, <3>1, <3>2
  <2> QED
    BY <1>3, <2>1, <2>2
<1>7. Related(e)
  <2> SUFFICES ASSUME NEW i \in DOMAIN e
               PROVE  /\ e[i].parent # None =>
                            /\ Type(e, e[i].parent) = "Workflow"
                            /\ e[e[i].parent].status \notin Waiting
                      /\ e[i].worker # None => Type(e, i) = "Worker"
                      /\ \A j \in e[i].deps : Type(e, j) # "Workflow"
    BY DEF Related
  <2>1. CASE i \in DOMAIN d
    BY <1>1, <1>3, <1>4, <2>1 DEF Sound, Related
  <2>2. CASE i = n
    BY <1>1, <1>3, <2>2 DEF Fits
  <2> QED
    BY <1>2, <2>1, <2>2
<1>8. WorkflowsWait(e)
  <2> SUFFICES ASSUME NEW i \in DOMAIN e, Type(e, i) = "Workflow"
               PROVE  /\ e[i].parent = None => Plan[e[i].step].parent = 0
                      /\ NeedsNothing(e, i) => e[i].deps = {}
                      /\ e[i].status = "blocked" => e[i].deps # {}
    BY DEF WorkflowsWait
  <2>1. CASE i \in DOMAIN d
    BY <1>1, <1>3, <2>1 DEF Sound, WorkflowsWait
  <2>2. CASE i = n
    BY <1>1, <2>2 DEF Fits, n
  <2> QED
    BY <1>2, <2>1, <2>2
<1>9. DependenciesDone(e)
  <2> SUFFICES ASSUME NEW i \in DOMAIN e, NEW j \in e[i].deps,
                      e[i].status = "pending",
                      Entry(e, i).unblock_strategy = "deps"
               PROVE  e[j].status = "completed"
    BY DEF DependenciesDone
  <2>1. CASE i \in DOMAIN d
    <3>1. d[j].status = "completed" /\ j \in DOMAIN d
      BY <1>1, <1>3, <1>4, <2>1 DEF Sound, DependenciesDone
    <3> QED
      BY <1>1, <3>1
  <2>2. CASE i = n
    BY <1>1, <2>2 DEF Fits
  <2> QED
    BY <1>2, <2>1, <2>2
<1>10. Later(d, e)
  <2>1. Len(d) <= Len(e)
    BY <1>1 DEF n
  <2> QED
    BY <1>1, <2>1 DEF Later, SameTask
<1> QED
  BY <1>6, <1>7, <1>8, <1>9, <1>10 DEF Sound

(* A first attempt, pending or blocked.                                    *)
LEMMA NewRowFits ==
    ASSUME NEW d, IsTable(d), NEW s \in 0..Steps, NEW p \in 0..Len(d),
           NEW st \in Statuses,
           p # None => /\ Type(d, p) = "Workflow"
                       /\ d[p].status \notin Waiting,
           s # Delay /\ Plan[s].type = "Workflow" =>
              /\ p = None => Plan[s].parent = 0
              /\ st # "blocked"
    PROVE  LET r == NewRow(s, p, st) IN Fits(d, Append(d, r), r)
<1> DEFINE r == NewRow(s, p, st)
           e == Append(d, r)
           n == Len(d) + 1
<1>1. Len(d) \in Nat /\ DOMAIN d = 1..Len(d)
  BY TableFacts
<1>2. p \in 0..n /\ {} \in SUBSET (1..n) /\ 0 \in 0..n
  BY <1>1
<1>3. r \in Row(n)
  BY <1>2 DEF NewRow, Row, Results
<1>4. /\ r.step = s /\ r.parent = p /\ r.deps = {} /\ r.status = st
      /\ r.supersedes = None /\ r.worker = None
  BY DEF NewRow
<1> HIDE DEF r
<1>5. e[n] = r
  BY <1>3, AppendTable
<1> HIDE DEF e
<1>6. Type(e, n) = "Workflow" => s # Delay /\ Plan[s].type = "Workflow"
  BY <1>4, <1>5 DEF Type, Entry, DelayEntry
<1>7. p # None => p \in DOMAIN d
  BY <1>1
<1>8. Fits(d, e, r)
  BY <1>3, <1>4, <1>6, <1>7 DEF Fits, e
<1> QED
  BY <1>8 DEF r, e

(* _retry_supersede of what is over and is neither a workflow nor a delay. *)
Retriable(d, i) ==
    /\ i \in 1..Len(d) /\ ~Superseded(d, i) /\ ~InProgress(d, i)
    /\ Type(d, i) \notin {"Workflow", "Wait"}

LEMMA SupersedeSound ==
    ASSUME NEW d, IsTable(d), IsChain(d), Sound(d), NEW i, Retriable(d, i),
           NEW reason
    PROVE  LET e == retry_supersede(d, i, reason)
               n == Len(d) + 1
           IN  /\ Sound(e) /\ Later(d, e) /\ Len(e) = n
               /\ SameTask([d[i] EXCEPT !.supersedes = i], e[n])
               /\ InProgress(e, n)
<1> DEFINE n == Len(d) + 1
           c == retry_count(d, i, reason)
           r == [d[i] EXCEPT !.status = "blocked", !.result = "none",
                             !.retry_count = c, !.supersedes = i,
                             !.worker = None]
           d1 == Append(d, r)
           d2 == Repoint(d1, i, n)
           d3 == Reopen(d2, d[i].parent)
           S == {n} \cap {j \in DOMAIN d3 : can_be_automatically_unblocked(d3, j)}
           e == mark_pending(d3, S)
<1>1. /\ Len(d) \in Nat /\ n \in Nat /\ d[i] \in Row(Len(d)) /\ d[i] \in Row(n)
      /\ DOMAIN d = 1..Len(d) /\ i \in 1..Len(d)
  BY TableFacts, RowGrows DEF Retriable
<1>2. c \in Nat /\ i \in 0..n
  BY <1>1 DEF retry_count, Row
<1>3. /\ r.step = d[i].step /\ r.parent = d[i].parent /\ r.deps = d[i].deps
      /\ r.status = "blocked" /\ r.supersedes = i /\ r.worker = None
      /\ r \in Row(n)
  <2>1. /\ r.step = d[i].step /\ r.parent = d[i].parent /\ r.deps = d[i].deps
        /\ r.status = "blocked" /\ r.supersedes = i /\ r.worker = None
    BY <1>1 DEF Row
  <2>2. r \in Row(n)
    <3> HIDE DEF n, c
    <3> QED
      BY <1>1, <1>2 DEF Row, Statuses, Results
  <2> QED
    BY <2>1, <2>2
<1> HIDE DEF r
<1>4. /\ IsTable(d1) /\ Len(d1) = n /\ d1[n] = r /\ DOMAIN d1 = 1..n
      /\ \A j \in 1..Len(d) : d1[j] = d[j]
  BY <1>1, <1>3, AppendTable, TableFacts
<1>5. Sound(d1) /\ Later(d, d1)
  <2>1. Type(d1, n) = Type(d, i)
    BY <1>3, <1>4 DEF Type, Entry
  <2>2. \A j \in r.deps : j \in DOMAIN d /\ Type(d, j) # "Workflow"
    BY <1>1, <1>3, RowFacts DEF Sound, Related
  <2>3. r.parent # None =>
              /\ r.parent \in DOMAIN d /\ Type(d, r.parent) = "Workflow"
              /\ d[r.parent].status \notin Waiting
    BY <1>1, <1>3, RowFacts DEF Sound, Related
  <2>4. Fits(d, d1, r)
    BY <1>1, <1>3, <2>1, <2>2, <2>3 DEF Fits, Retriable
  <2> HIDE DEF d1
  <2> QED
    BY <2>4, AppendSound
<1> HIDE DEF d1
<1>6. Type(d1, n) = Type(d, i) /\ Type(d, i) # "Workflow" /\ n \in 1..Len(d1)
  BY <1>1, <1>3, <1>4 DEF Type, Entry, Retriable
<1>7. Sound(d2) /\ Later(d1, d2) /\ Keeps(d1, d2)
  <2> HIDE DEF n
  <2> QED
    BY <1>4, <1>5, <1>6, RepointAllows, AllowsSound
<1>8. d2[n].status = "blocked"
  <2>1. d1[n] \in Row(n) /\ d1[n].status = "blocked" /\ n \in DOMAIN d1
    BY <1>1, <1>3, <1>4
  <2> QED
    BY <2>1 DEF Repoint, Row
<1> HIDE DEF d2
<1>9. /\ IsTable(d2) /\ Len(d2) = n /\ DOMAIN d2 = 1..n
      /\ \A j \in 1..n : SameTask(d1[j], d2[j])
  BY <1>4, <1>7, TableFacts DEF Keeps
<1>10. d[i].parent # None =>
         d[i].parent \in DOMAIN d2 /\ Type(d2, d[i].parent) = "Workflow"
  <2> SUFFICES ASSUME d[i].parent # None
               PROVE  /\ d[i].parent \in DOMAIN d2
                      /\ Type(d2, d[i].parent) = "Workflow"
    OBVIOUS
  <2>1. d[i].parent \in 1..Len(d) /\ Type(d, d[i].parent) = "Workflow"
    BY <1>1, RowFacts DEF Sound, Related
  <2>2. d[i].parent \in DOMAIN d2 /\ SameTask(d[d[i].parent], d2[d[i].parent])
    BY <1>1, <1>4, <1>9, <2>1
  <2> QED
    BY <2>1, <2>2 DEF SameTask, Type, Entry
<1>11. Sound(d3) /\ Later(d2, d3) /\ Keeps(d2, d3)
  BY <1>7, <1>9, <1>10, ReopenAllows, AllowsSound
<1>12. d3[n].status \in {"blocked", "running"}
  <2>1. d2[n] \in Row(n)
    BY <1>1, <1>9, TableFacts
  <2> QED
    BY <1>1, <1>8, <1>9, <2>1 DEF Reopen, Row
<1> HIDE DEF d3
<1>13. IsTable(d3) /\ Len(d3) = n /\ DOMAIN d3 = 1..n
  BY <1>9, <1>11, TableFacts DEF Keeps
<1>14. Sound(e) /\ Later(d3, e) /\ Keeps(d3, e)
  <2>1. \A j \in S \cap DOMAIN d3 :
              /\ d3[j].status = "blocked"
              /\ Entry(d3, j).unblock_strategy = "deps" =>
                    \A k \in d3[j].deps : d3[k].status = "completed"
    BY DEF can_be_automatically_unblocked, can_be_unblocked
  <2> HIDE DEF S
  <2> QED
    BY <1>11, <1>13, <2>1, MarkPendingAllows, AllowsSound
<1>15. InProgress(e, n)
  <2>1. n \in DOMAIN d3 /\ d3[n] \in Row(n)
    BY <1>1, <1>13, TableFacts
  <2>2. e[n].status \in {d3[n].status, "pending"}
    <3> HIDE DEF S
    <3> QED
      BY <2>1 DEF mark_pending, Row
  <2> QED
    BY <1>12, <2>2 DEF InProgress
<1> HIDE DEF S, e
<1>16. Later(d, e)
  BY <1>4, <1>5, <1>7, <1>9, <1>11, <1>13, <1>14, LaterTransitive
<1>17. Len(e) = n
  BY <1>13, <1>14 DEF Keeps
<1>18. SameTask([d[i] EXCEPT !.supersedes = i], e[n])
  <2>1. /\ SameTask(d1[n], d2[n]) /\ SameTask(d2[n], d3[n])
        /\ SameTask(d3[n], e[n]) /\ d1[n] = r
    BY <1>1, <1>4, <1>9, <1>11, <1>13, <1>14 DEF Keeps
  <2>2. SameTask([d[i] EXCEPT !.supersedes = i], r)
    BY <1>1, <1>3 DEF SameTask, Row
  <2> QED
    BY <2>1, <2>2 DEF SameTask
<1>19. e = retry_supersede(d, i, reason)
  BY DEF retry_supersede, e, S, d3, d2, d1, r
<1> QED
  BY <1>14, <1>15, <1>16, <1>17, <1>18, <1>19

-----------------------------------------------------------------------------
(* Tables in which nothing ends and nothing begins, but p0.                *)

Steady(d, e, p0) ==
    \A j \in DOMAIN d :
        /\ InProgress(d, j) => InProgress(e, j)
        /\ e[j].status = "running" => d[j].status = "running" \/ j = p0

LEMMA SteadyTransitive ==
    ASSUME NEW d, NEW e, NEW f, NEW p0, DOMAIN d \subseteq DOMAIN e,
           Steady(d, e, p0), Steady(e, f, p0)
    PROVE  Steady(d, f, p0)
  BY DEF Steady

LEMMA MarkPendingSteady ==
    ASSUME NEW d, IsTable(d), NEW S, NEW p0,
           \A j \in S \cap DOMAIN d : d[j].status = "blocked"
    PROVE  Steady(d, mark_pending(d, S), p0)
<1>1. ASSUME NEW j \in DOMAIN d
      PROVE  mark_pending(d, S)[j].status =
               IF j \in S THEN "pending" ELSE d[j].status
  <2>1. d[j] \in Row(Len(d))
    BY TableFacts
  <2> QED
    BY <2>1 DEF mark_pending, Row
<1> DEFINE e == mark_pending(d, S)
<1> HIDE DEF e
<1>2. Steady(d, e, p0)
  BY <1>1 DEF Steady, InProgress, e
<1> QED
  BY <1>2 DEF e

LEMMA AddDependenciesSteady ==
    ASSUME NEW d, IsTable(d), NEW i, NEW deps, NEW p0
    PROVE  /\ Steady(d, add_dependencies(d, i, deps), p0)
           /\ \A j \in DOMAIN d : InProgress(add_dependencies(d, i, deps), j)
                                    <=> InProgress(d, j)
<1> DEFINE e == add_dependencies(d, i, deps)
<1>1. ASSUME NEW j \in DOMAIN d
      PROVE  \/ e[j].status = d[j].status
             \/ e[j].status = "blocked" /\ d[j].status = "pending"
  <2>1. d[j] \in Row(Len(d))
    BY TableFacts
  <2> QED
    BY <2>1 DEF add_dependencies, Row
<1> HIDE DEF e
<1>2. /\ Steady(d, e, p0)
      /\ \A j \in DOMAIN d : InProgress(e, j) <=> InProgress(d, j)
  BY <1>1 DEF Steady, InProgress
<1> QED
  BY <1>2 DEF e

LEMMA SupersedeSteady ==
    ASSUME NEW d, IsTable(d), NEW i \in 1..Len(d), NEW reason
    PROVE  Steady(d, retry_supersede(d, i, reason), d[i].parent)
<1> DEFINE n == Len(d) + 1
           c == retry_count(d, i, reason)
           r == [d[i] EXCEPT !.status = "blocked", !.result = "none",
                             !.retry_count = c, !.supersedes = i,
                             !.worker = None]
           p == d[i].parent
           d1 == Append(d, r)
           d2 == Repoint(d1, i, n)
           d3 == Reopen(d2, p)
           S == {n} \cap {j \in DOMAIN d3 : can_be_automatically_unblocked(d3, j)}
           e == mark_pending(d3, S)
<1>1. /\ Len(d) \in Nat /\ DOMAIN d = 1..Len(d)
      /\ d[i] \in Row(Len(d)) /\ d[i] \in Row(n) /\ n \in Nat
  BY TableFacts, RowGrows
<1>2. r \in Row(n)
  <2>1. c \in Nat /\ i \in 0..n
    BY <1>1 DEF retry_count, Row
  <2> HIDE DEF n, c
  <2> QED
    BY <1>1, <2>1 DEF Row, Statuses, Results
<1> HIDE DEF r
<1>3. /\ IsTable(d1) /\ DOMAIN d1 = 1..n
      /\ \A j \in DOMAIN d : j \in DOMAIN d1 /\ j # n /\ d1[j] = d[j]
  BY <1>1, <1>2, AppendTable, TableFacts
<1> HIDE DEF d1
<1>4. ASSUME NEW j \in DOMAIN d
      PROVE  \/ d2[j].status = d[j].status
             \/ d2[j].status = "blocked" /\ d[j].status = "pending"
  <2>1. d1[j] \in Row(Len(d1)) /\ j \in DOMAIN d1 /\ d1[j] = d[j]
    BY <1>3, TableFacts
  <2> QED
    BY <2>1 DEF Repoint, Row
<1>5. IsTable(d2) /\ DOMAIN d2 = 1..n
  <2>1. Keeps(d1, d2)
    <3>1. n \in 1..Len(d1)
      BY <1>1, <1>3, TableFacts
    <3> HIDE DEF n
    <3> QED
      BY <1>3, <3>1, RepointKeeps
  <2> HIDE DEF d2
  <2> QED
    BY <1>1, <1>3, <2>1, TableFacts DEF Keeps
<1> HIDE DEF d2
<1>6. /\ DOMAIN d3 = 1..n /\ IsTable(d3)
      /\ \A j \in DOMAIN d :
           d3[j].status = d2[j].status \/ (j = p /\ d3[j].status = "running")
  <2>1. Keeps(d2, d3)
    BY <1>5, ReopenKeeps
  <2>2. ASSUME NEW j \in DOMAIN d
        PROVE  d3[j].status = d2[j].status \/ (j = p /\ d3[j].status = "running")
    <3>1. d2[j] \in Row(Len(d2)) /\ j \in DOMAIN d2
      BY <1>1, <1>5, TableFacts
    <3> HIDE DEF p
    <3> QED
      BY <3>1 DEF Reopen, Row
  <2> HIDE DEF d3
  <2> QED
    BY <1>5, <2>1, <2>2, TableFacts DEF Keeps
<1> HIDE DEF d3
<1>7. ASSUME NEW j \in DOMAIN d
      PROVE  e[j].status = d3[j].status
  <2>1. j \in DOMAIN d3 /\ j \notin S /\ d3[j] \in Row(Len(d3))
    BY <1>1, <1>3, <1>6, TableFacts
  <2> HIDE DEF S
  <2> QED
    BY <2>1 DEF mark_pending
<1> HIDE DEF e, p
<1>8. Steady(d, e, p)
  BY <1>4, <1>6, <1>7 DEF Steady, InProgress
<1>9. e = retry_supersede(d, i, reason)
  BY DEF retry_supersede, e, S, d3, d2, d1, r, p
<1> QED
  BY <1>8, <1>9 DEF p

-----------------------------------------------------------------------------
(* The calls that are left never touch what is over.                       *)

(* The work requests a call aborts or schedules whatever their status is.  *)
Mentions(c) ==
    IF c.op = "mark_aborted" THEN {c.w}
    ELSE IF c.op \in {"abort_each", "schedule_each"} THEN c.set ELSE {}

(* Calls that retry, or that complete something a retry can follow.        *)
Settles(d, c) ==
    \/ c.op \in {"retry", "retry_each", "retry_lost", "orchestrate",
                 "complete_each"}
    \/ /\ c.op \in {"mark_completed", "process_retry_with_delays"}
       /\ Type(d, c.w) = "Worker"

FrameOK(d, c) ==
    /\ c.op = "complete_each" => \A i \in c.set : Type(d, i) = "Wait"
    /\ c.op = "orchestrate" =>
          /\ Type(d, c.w) \in {"Workflow", "Callback"}
          /\ Type(d, c.w) = "Workflow" => d[c.w].status \notin Waiting
          /\ \A s \in c.set : Plan[s].parent # 0
    /\ c.op = "retry_lost" => Type(d, c.w) = "Worker"
    /\ c.op = "process_retry_with_delays" => c.arg \notin Waiting
    /\ \A i \in Mentions(c) :
          /\ ~Superseded(d, i)
          /\ Type(d, i) # "Workflow" => d[i].status # "completed"

(* Call c is executed before call b, of the same transaction.              *)
Over(d, c, b) ==
    /\ c.op # "schedule_each"
    /\ Settles(d, c) => Mentions(b) = {} /\ b.op # "mark_completed"
    /\ c.op = "mark_completed" /\ Type(d, c.w) # "Workflow"
         => c.w \notin Mentions(b)
    /\ /\ c.op \in {"mark_completed", "process_retry_with_delays"}
       /\ Type(d, c.w) = "Worker"
       => b = CallFinish(d[c.w].parent)

Above(d, c, cs) == \A k \in DOMAIN cs : Over(d, c, cs[k])

CallsOK(d, cs) ==
    \A k \in DOMAIN cs :
        /\ FrameOK(d, cs[k])
        /\ \A l \in DOMAIN cs : k < l => Over(d, cs[k], cs[l])

(* What Celery is asked to orchestrate has begun.                          *)
HooksOK(d, S) ==
    \A i \in S : /\ Type(d, i) \in {"Workflow", "Callback"}
                 /\ Type(d, i) = "Workflow" => d[i].status \notin Waiting

(* Sequences, one element at a time.                                       *)
LEMMA PushFacts ==
    ASSUME NEW S, NEW cs \in Seq(S), NEW a
    PROVE  /\ Len(cs) \in Nat /\ DOMAIN cs = 1..Len(cs)
           /\ <<a>> \o cs \in Seq(S \cup {a})
           /\ DOMAIN (<<a>> \o cs) = 1..(Len(cs) + 1)
           /\ (<<a>> \o cs)[1] = a
           /\ \A k \in 1..(Len(cs) + 1) : k # 1 =>
                 /\ k - 1 \in 1..Len(cs)
                 /\ (<<a>> \o cs)[k] = cs[k - 1]
<1> DEFINE T == S \cup {a}
<1>1. Len(cs) \in Nat /\ DOMAIN cs = 1..Len(cs)
  BY LenProperties
<1>2. cs \in Seq(T) /\ a \in T
  BY SeqMonotonic
<1> HIDE DEF T
<1>3. /\ <<a>> \o cs \in Seq(T) /\ Len(<<a>> \o cs) = 1 + Len(cs)
      /\ \A k \in 1..(1 + Len(cs)) :
            (<<a>> \o cs)[k] = IF k <= 1 THEN <<a>>[k] ELSE cs[k - 1]
  BY <1>2, ConcatProperties
<1>4. DOMAIN (<<a>> \o cs) = 1..(Len(cs) + 1)
  BY <1>1, <1>3, LenProperties
<1>5. <<a>> \o cs \in Seq(S \cup {a})
  BY <1>3 DEF T
<1> QED
  BY <1>1, <1>3, <1>4, <1>5

(* Two elements at once.                                                   *)
LEMMA PairFacts ==
    ASSUME NEW S, NEW cs \in Seq(S), NEW a, NEW b
    PROVE  <<a, b>> \o cs = <<a>> \o (<<b>> \o cs)
<1> DEFINE T == S \cup {a, b}
<1>1. cs \in Seq(T) /\ a \in T /\ b \in T
  BY SeqMonotonic
<1> HIDE DEF T
<1>2. /\ <<a>> \in Seq(T) /\ <<b>> \in Seq(T) /\ <<a, b>> \in Seq(T)
      /\ Len(<<a>>) = 1 /\ Len(<<b>>) = 1 /\ Len(<<a, b>>) = 2
      /\ <<a>>[1] = a /\ <<b>>[1] = b /\ <<a, b>>[1] = a /\ <<a, b>>[2] = b
  BY <1>1
<1> DEFINE s == <<a>> \o <<b>>
           t == <<a, b>>
<1>3. /\ s \in Seq(T) /\ Len(s) = 2 /\ s[1] = a /\ s[2] = b
  BY <1>2, ConcatProperties
<1>4. /\ t \in Seq(T) /\ Len(t) = 2 /\ t[1] = a /\ t[2] = b
  BY <1>2
<1> HIDE DEF s, t
<1>5. s = t
  BY <1>3, <1>4, SeqEqual
<1>6. (<<a>> \o <<b>>) \o cs = <<a>> \o (<<b>> \o cs)
  BY <1>1, <1>2, ConcatAssociative
<1> QED
  BY <1>5, <1>6 DEF s, t

(* Three.                                                                  *)
LEMMA TripleFacts ==
    ASSUME NEW S, NEW cs \in Seq(S), NEW a, NEW b, NEW c
    PROVE  <<a, b, c>> \o cs = <<a, b>> \o (<<c>> \o cs)
<1> DEFINE T == S \cup {a, b, c}
<1>1. cs \in Seq(T) /\ a \in T /\ b \in T /\ c \in T
  BY SeqMonotonic
<1> HIDE DEF T
<1>2. /\ <<a, b>> \in Seq(T) /\ <<c>> \in Seq(T) /\ <<a, b, c>> \in Seq(T)
      /\ Len(<<a, b>>) = 2 /\ Len(<<c>>) = 1 /\ Len(<<a, b, c>>) = 3
      /\ <<a, b>>[1] = a /\ <<a, b>>[2] = b /\ <<c>>[1] = c
      /\ <<a, b, c>>[1] = a /\ <<a, b, c>>[2] = b /\ <<a, b, c>>[3] = c
  BY <1>1
<1> DEFINE s == <<a, b>> \o <<c>>
           t == <<a, b, c>>
<1>3. /\ s \in Seq(T) /\ Len(s) = 3 /\ s[1] = a /\ s[2] = b /\ s[3] = c
  BY <1>2, ConcatProperties
<1>4. /\ t \in Seq(T) /\ Len(t) = 3 /\ t[1] = a /\ t[2] = b /\ t[3] = c
  BY <1>2
<1> HIDE DEF s, t
<1>5. s = t
  BY <1>3, <1>4, SeqEqual
<1>6. (<<a, b>> \o <<c>>) \o cs = <<a, b>> \o (<<c>> \o cs)
  BY <1>1, <1>2, ConcatAssociative
<1> QED
  BY <1>5, <1>6 DEF s, t

(* The calls that the end of a request makes.                              *)
LEMMA SpliceFacts ==
    ASSUME NEW S, NEW cs \in Seq(S), NEW a, NEW c, NEW T, NEW r \in Seq(T)
    PROVE  <<a>> \o r \o <<c>> \o cs = <<a>> \o (r \o (<<c>> \o cs))
<1> DEFINE U == S \cup T \cup {a, c}
<1>1. cs \in Seq(U) /\ r \in Seq(U) /\ a \in U /\ c \in U
  BY SeqMonotonic
<1> HIDE DEF U
<1>2. <<a>> \in Seq(U) /\ <<c>> \in Seq(U)
  BY <1>1
<1>3. <<a>> \o r \in Seq(U) /\ <<c>> \o cs \in Seq(U)
  BY <1>1, <1>2, ConcatProperties
<1>4. ((<<a>> \o r) \o <<c>>) \o cs = (<<a>> \o r) \o (<<c>> \o cs)
  BY <1>1, <1>2, <1>3, ConcatAssociative
<1>5. (<<a>> \o r) \o (<<c>> \o cs) = <<a>> \o (r \o (<<c>> \o cs))
  BY <1>1, <1>2, <1>3, ConcatAssociative
<1> QED
  BY <1>4, <1>5

LEMMA PushAbove ==
    ASSUME NEW S, NEW cs \in Seq(S), NEW b, NEW d, NEW c,
           Over(d, c, b), Above(d, c, cs)
    PROVE  Above(d, c, <<b>> \o cs)
  BY PushFacts DEF Above

LEMMA PushOK ==
    ASSUME NEW S, NEW cs \in Seq(S), NEW a, NEW d,
           FrameOK(d, a), Above(d, a, cs), CallsOK(d, cs)
    PROVE  CallsOK(d, <<a>> \o cs)
<1> DEFINE t == <<a>> \o cs
<1>1. /\ Len(cs) \in Nat /\ DOMAIN cs = 1..Len(cs)
      /\ DOMAIN t = 1..(Len(cs) + 1) /\ t[1] = a
      /\ \A k \in 1..(Len(cs) + 1) : k # 1 =>
            k - 1 \in 1..Len(cs) /\ t[k] = cs[k - 1]
  BY PushFacts
<1> HIDE DEF t
<1>2. ASSUME NEW k \in DOMAIN t
      PROVE  FrameOK(d, t[k])
  BY <1>1 DEF CallsOK
<1>3. ASSUME NEW k \in DOMAIN t, NEW l \in DOMAIN t, k < l
      PROVE  Over(d, t[k], t[l])
  <2>1. l # 1 /\ l - 1 \in DOMAIN cs /\ t[l] = cs[l - 1]
    BY <1>1, <1>3
  <2>2. CASE k = 1
    BY <1>1, <2>1, <2>2 DEF Above
  <2>3. CASE k # 1
    <3>1. k - 1 \in DOMAIN cs /\ t[k] = cs[k - 1] /\ k - 1 < l - 1
      BY <1>1, <1>3, <2>3
    <3> QED
      BY <2>1, <3>1 DEF CallsOK
  <2> QED
    BY <2>2, <2>3
<1>4. CallsOK(d, t)
  BY <1>2, <1>3 DEF CallsOK
<1> QED
  BY <1>4 DEF t

LEMMA PopOK ==
    ASSUME NEW S, NEW cs \in Seq(S), cs # <<>>, NEW d, CallsOK(d, cs)
    PROVE  /\ FrameOK(d, Head(cs)) /\ Above(d, Head(cs), Tail(cs))
           /\ CallsOK(d, Tail(cs))
<1>1. /\ Len(cs) \in Nat /\ DOMAIN cs = 1..Len(cs) /\ Len(cs) # 0
      /\ Head(cs) = cs[1]
      /\ Tail(cs) \in Seq(S) /\ Len(Tail(cs)) = Len(cs) - 1
      /\ \A k \in 1..Len(Tail(cs)) : Tail(cs)[k] = cs[k + 1]
  BY LenProperties, HeadTailProperties, EmptySeq
<1>2. DOMAIN Tail(cs) = 1..(Len(cs) - 1)
  BY <1>1, LenProperties
<1>3. \A k \in DOMAIN Tail(cs) :
        k \in Nat /\ k + 1 \in DOMAIN cs /\ 1 < k + 1 /\ Tail(cs)[k] = cs[k + 1]
  BY <1>1, <1>2
<1>4. 1 \in DOMAIN cs
  BY <1>1
<1>5. FrameOK(d, Head(cs)) /\ Above(d, Head(cs), Tail(cs))
  BY <1>1, <1>3, <1>4 DEF CallsOK, Above
<1>6. CallsOK(d, Tail(cs))
  <2> SUFFICES ASSUME NEW k \in DOMAIN Tail(cs)
               PROVE  /\ FrameOK(d, Tail(cs)[k])
                      /\ \A l \in DOMAIN Tail(cs) :
                            k < l => Over(d, Tail(cs)[k], Tail(cs)[l])
    BY DEF CallsOK
  <2>1. FrameOK(d, Tail(cs)[k])
    BY <1>3 DEF CallsOK
  <2>2. ASSUME NEW l \in DOMAIN Tail(cs), k < l
        PROVE  Over(d, Tail(cs)[k], Tail(cs)[l])
    <3>1. k + 1 < l + 1
      BY <1>3, <2>2
    <3> QED
      BY <1>3, <3>1 DEF CallsOK
  <2> QED
    BY <2>1, <2>2
<1> QED
  BY <1>5, <1>6

(* Calls stay in order when the table changes, unless it supersedes or     *)
(* completes what they mention.                                            *)
LEMMA CallsKept ==
    ASSUME NEW d, NEW e, IsTable(d), Later(d, e),
           NEW cs \in Seq(Call(Len(d))), CallsOK(d, cs),
           \A k \in DOMAIN cs : \A i \in Mentions(cs[k]) \cap DOMAIN d :
              /\ Superseded(e, i) => Superseded(d, i)
              /\ Type(d, i) # "Workflow" /\ e[i].status = "completed"
                   => d[i].status = "completed"
    PROVE  CallsOK(e, cs)
<1>1. /\ Len(d) \in Nat /\ DOMAIN d = 1..Len(d)
      /\ \A i \in 1..Len(d) : /\ SameTask(d[i], e[i])
                              /\ e[i].status \in Waiting => d[i].status \in Waiting
  BY TableFacts DEF Later
<1>2. \A i \in 1..Len(d) : Type(e, i) = Type(d, i) /\ e[i].parent = d[i].parent
  BY <1>1 DEF SameTask, Type, Entry
<1>3. ASSUME NEW k \in DOMAIN cs
      PROVE  /\ cs[k] \in Call(Len(d))
             /\ cs[k].op \in Methods => cs[k].w \in 1..Len(d)
             /\ cs[k].op \in Loops => cs[k].set \subseteq 1..Len(d)
             /\ Mentions(cs[k]) \subseteq 1..Len(d)
  <2>1. cs[k] \in Call(Len(d))
    BY ElementOfSeq, LenProperties
  <2>2. /\ cs[k].op \in Methods => cs[k].w \in 1..Len(d)
        /\ cs[k].op \in Loops => cs[k].set \subseteq 1..Len(d)
    BY <2>1 DEF Call
  <2> QED
    BY <2>1, <2>2 DEF Mentions, Methods, Loops
<1>4. ASSUME NEW k \in DOMAIN cs
      PROVE  FrameOK(e, cs[k])
  <2>1. FrameOK(d, cs[k])
    BY DEF CallsOK
  <2>2. cs[k].op = "complete_each" => \A i \in cs[k].set : Type(e, i) = "Wait"
    BY <1>2, <1>3, <2>1 DEF FrameOK, Loops
  <2>3. cs[k].op = "orchestrate" =>
          /\ Type(e, cs[k].w) \in {"Workflow", "Callback"}
          /\ Type(e, cs[k].w) = "Workflow" => e[cs[k].w].status \notin Waiting
          /\ \A s \in cs[k].set : Plan[s].parent # 0
    BY <1>1, <1>2, <1>3, <2>1 DEF FrameOK, Methods
  <2>4. cs[k].op = "retry_lost" => Type(e, cs[k].w) = "Worker"
    BY <1>2, <1>3, <2>1 DEF FrameOK, Methods
  <2>5. \A i \in Mentions(cs[k]) :
          /\ ~Superseded(e, i)
          /\ Type(e, i) # "Workflow" => e[i].status # "completed"
    BY <1>1, <1>2, <1>3, <2>1 DEF FrameOK
  <2> QED
    BY <2>1, <2>2, <2>3, <2>4, <2>5 DEF FrameOK
<1>5. ASSUME NEW k \in DOMAIN cs, NEW l \in DOMAIN cs, k < l
      PROVE  Over(e, cs[k], cs[l])
  <2>1. Over(d, cs[k], cs[l])
    BY <1>5 DEF CallsOK
  <2>2. cs[k].op \in {"mark_completed", "process_retry_with_delays"} =>
          /\ Type(e, cs[k].w) = Type(d, cs[k].w)
          /\ e[cs[k].w].parent = d[cs[k].w].parent
    BY <1>2, <1>3 DEF Methods
  <2> QED
    BY <2>1, <2>2 DEF Over, Settles
<1> QED
  BY <1>4, <1>5 DEF CallsOK

(* Calls that mention nothing.                                             *)
Quiet(cs) ==
    \A k \in DOMAIN cs : Mentions(cs[k]) = {} /\ cs[k].op # "mark_completed"

LEMMA QuietKept ==
    ASSUME NEW d, NEW e, IsTable(d), Later(d, e),
           NEW cs \in Seq(Call(Len(d))), CallsOK(d, cs), Quiet(cs)
    PROVE  CallsOK(e, cs)
  BY CallsKept DEF Quiet

(* Calls of which nothing is asked.                                        *)
Light == {"mark_aborted", "unblock_reverse_dependencies",
          "maybe_finish_workflow", "abort_each", "next_pending"}

LEMMA LightAbove ==
    ASSUME NEW c, c.op \in Light, NEW d, NEW cs
    PROVE  Above(d, c, cs)
  BY DEF Light, Above, Over, Settles

LEMMA LightOver ==
    ASSUME NEW c, c.op \in Light, NEW d
    PROVE  /\ \A b : Over(d, c, b)
           /\ Mentions(c) = {} => FrameOK(d, c)
           /\ c.op \notin {"mark_aborted", "abort_each"} => Mentions(c) = {}
<1>1. c.op \notin {"schedule_each", "retry", "retry_each", "retry_lost",
                  "orchestrate", "complete_each", "mark_completed",
                  "process_retry_with_delays"}
  BY DEF Light
<1> QED
  BY <1>1 DEF Over, Settles, FrameOK, Mentions

(* Calls on top of quiet ones.                                             *)
LEMMA QuietAbove ==
    ASSUME NEW c, NEW d, NEW cs, Quiet(cs), c.op # "schedule_each",
           c.op \in {"mark_completed", "process_retry_with_delays"}
              => Type(d, c.w) # "Worker"
    PROVE  Above(d, c, cs)
  BY DEF Quiet, Above, Over

-----------------------------------------------------------------------------
(* The invariant, and the steps of transactions that keep it.              *)

History ==
    /\ Inv
    /\ Sound(db) /\ Sound(committed) /\ Later(committed, db)
    /\ CallsOK(db, calls)
    /\ HooksOK(db, on_commit) /\ HooksOK(committed, queued)

(* A step keeps it, and what was committed.                                *)
Follows == History' /\ Later(committed, committed')

LEMMA HooksKept ==
    ASSUME NEW d, NEW e, IsTable(d), Later(d, e), NEW S \in SUBSET (1..Len(d)),
           HooksOK(d, S)
    PROVE  HooksOK(e, S)
<1>1. \A i \in S : /\ Type(e, i) = Type(d, i)
                   /\ e[i].status \in Waiting => d[i].status \in Waiting
  BY DEF Later, SameTask, Type, Entry
<1> QED
  BY <1>1 DEF HooksOK

LEMMA ProceedFollows ==
    ASSUME History, Inv', NEW who, NEW d, Sound(d), Later(db, d),
           NEW cs, CallsOK(d, cs), NEW hooks, HooksOK(d, hooks),
           Proceed(who, d, cs, hooks)
    PROVE  Follows
<1>1. /\ IsTable(db) /\ IsTable(committed) /\ Later(committed, committed)
      /\ Later(committed, d) /\ queued \in SUBSET (1..Len(committed))
  BY InvFacts, LaterReflexive, LaterTransitive DEF History, Inv, TypeOK
<1>2. IsTable(d) /\ Later(d, d)
  BY LaterReflexive DEF Later
<1>3. CASE cs = <<>>
  <2>1. /\ db' = d /\ committed' = d /\ calls' = <<>> /\ on_commit' = {}
        /\ queued' = queued \cup hooks
    BY <1>3 DEF Proceed
  <2>2. HooksOK(d, queued)
    BY <1>1, HooksKept DEF History
  <2>3. HooksOK(d, {}) /\ HooksOK(d, queued \cup hooks)
    BY <2>2 DEF HooksOK
  <2> QED
    BY <1>1, <1>2, <1>3, <2>1, <2>3 DEF Follows, History
<1>4. CASE cs # <<>>
  <2>1. /\ db' = d /\ committed' = committed /\ calls' = cs
        /\ on_commit' = hooks /\ queued' = queued
    BY <1>4 DEF Proceed
  <2> QED
    BY <1>1, <2>1 DEF Follows, History
<1> QED
  BY <1>3, <1>4

(* A method that goes on with calls.                                       *)
LEMMA ContinueFollows ==
    ASSUME History, Inv', NEW d, Sound(d), Later(db, d),
           NEW cs, CallsOK(d, cs), Continue(d, cs)
    PROVE  Follows
<1>1. HooksOK(d, on_commit)
  BY InvFacts, HooksKept DEF History, Inv, TypeOK
<1> QED
  BY <1>1, ProceedFollows DEF Continue, ContinueWith

(* A transaction that begins.                                              *)
LEMMA BeginFollows ==
    ASSUME History, Inv', NEW who, NEW d, Sound(d), Later(db, d),
           NEW cs, CallsOK(d, cs), Begin(who, d, cs)
    PROVE  Follows
<1>1. HooksOK(d, {})
  BY DEF HooksOK
<1> QED
  BY <1>1, ProceedFollows DEF Begin

LEMMA RaiseFollows ==
    ASSUME History, Inv', Raise
    PROVE  Follows
<1>1. /\ db' = committed /\ committed' = committed /\ calls' = <<>>
      /\ on_commit' = {} /\ queued' = queued
  BY DEF Raise
<1>2. Later(committed, committed) /\ CallsOK(committed, <<>>)
      /\ HooksOK(committed, {})
  BY InvFacts, LaterReflexive DEF History, CallsOK, HooksOK
<1> QED
  BY <1>1, <1>2 DEF Follows, History

(* The call that is executed, and the ones left.                           *)
LEMMA TopOK ==
    ASSUME History, ~AtRest
    PROVE  /\ IsTable(db) /\ Sound(db) /\ Later(db, db)
           /\ FrameOK(db, Top) /\ Above(db, Top, Rest) /\ CallsOK(db, Rest)
           /\ Rest \in Seq(Call(Len(db)))
           /\ Settles(db, Top) => Quiet(Rest)
<1>1. calls \in Seq(Call(Len(db))) /\ calls # <<>>
  BY DEF History, Inv, TypeOK, AtRest
<1>2. FrameOK(db, Top) /\ Above(db, Top, Rest) /\ CallsOK(db, Rest)
  BY <1>1, PopOK DEF History, Top, Rest
<1>3. Settles(db, Top) => Quiet(Rest)
  BY <1>2 DEF Above, Over, Quiet
<1> QED
  BY <1>2, <1>3, TopFacts, InvFacts, LaterReflexive DEF History

(* They stay in order when nothing they mention completes.                 *)
LEMMA RestKept ==
    ASSUME History, ~AtRest, NEW d, Keeps(db, d), Later(db, d),
           \A i \in DOMAIN db :
              d[i].status = "completed" /\ Type(db, i) # "Workflow" =>
                 \/ db[i].status = "completed"
                 \/ \A k \in DOMAIN Rest : i \notin Mentions(Rest[k])
    PROVE  CallsOK(d, Rest)
<1>1. \A i : Superseded(d, i) <=> Superseded(db, i)
  BY TopOK, SameSuperseded
<1> QED
  BY <1>1, TopOK, CallsKept

(* Pushing two calls.                                                      *)
LEMMA PushTwo ==
    ASSUME NEW S, NEW cs \in Seq(S), NEW a, NEW b, NEW d,
           FrameOK(d, a), FrameOK(d, b), CallsOK(d, cs),
           Over(d, a, b), Above(d, a, cs), Above(d, b, cs)
    PROVE  CallsOK(d, <<a, b>> \o cs)
<1>1. <<b>> \o cs \in Seq(S \cup {b})
  BY PushFacts
<1>2. CallsOK(d, <<b>> \o cs) /\ Above(d, a, <<b>> \o cs)
  BY PushOK, PushAbove
<1>3. CallsOK(d, <<a>> \o (<<b>> \o cs))
  BY <1>1, <1>2, PushOK
<1> QED
  BY <1>3, PairFacts

(* What Set() writes.                                                      *)
LEMMA SetFacts ==
    ASSUME NEW d, IsTable(d), NEW i, NEW st
    PROVE  \A j \in DOMAIN d :
              Set(d, i, st)[j].status = IF j = i THEN st ELSE d[j].status
<1>1. \A j \in DOMAIN d : d[j] \in Row(Len(d))
  BY TableFacts
<1> QED
  BY <1>1 DEF Set, Row

-----------------------------------------------------------------------------
(* The methods.                                                            *)

LEMMA MarkAbortedFollows ==
    ASSUME History, Inv', mark_aborted
    PROVE  Follows
<1> DEFINE d == Set(db, Top.w, "aborted")
           a == Frame("unblock_reverse_dependencies", Top.w, {}, "")
           b == CallFinish(db[Top.w].parent)
<1>1. /\ ~AtRest /\ Top.op = "mark_aborted" /\ Top.w \in DOMAIN db
      /\ Continue(d, <<a, b>> \o Rest) /\ IsTable(db) /\ Sound(db)
  BY TopFacts, InvFacts DEF mark_aborted, Methods, History
<1>2. /\ ~Superseded(db, Top.w)
      /\ Type(db, Top.w) # "Workflow" => db[Top.w].status # "completed"
  BY <1>1, TopOK DEF FrameOK, Mentions
<1>3. Sound(d) /\ Later(db, d) /\ Keeps(db, d)
  <2>1. "aborted" \in Statuses \ Waiting
    BY DEF Statuses, Waiting
  <2> QED
    BY <1>1, <1>2, <2>1, SetAllows, AllowsSound
<1>4. \A i \in DOMAIN db :
        d[i].status = IF i = Top.w THEN "aborted" ELSE db[i].status
  <2>1. IsTable(db)
    BY <1>1
  <2> QED
    BY <2>1, SetFacts
<1>5. /\ a.op = "unblock_reverse_dependencies"
      /\ b.op = "maybe_finish_workflow"
  BY DEF Frame, CallFinish
<1> HIDE DEF a, b, d
<1>6. CallsOK(d, Rest) /\ Rest \in Seq(Call(Len(db)))
  BY <1>1, <1>3, <1>4, RestKept, TopOK
<1>7. a.op \in Light /\ b.op \in Light /\ Mentions(a) = {} /\ Mentions(b) = {}
  BY <1>5 DEF Light, Mentions
<1>8. CallsOK(d, <<a, b>> \o Rest)
  BY <1>6, <1>7, LightOver, LightAbove, PushTwo
<1> QED
  BY <1>1, <1>3, <1>8, ContinueFollows

LEMMA AbortEachFollows ==
    ASSUME History, Inv', abort_each
    PROVE  Follows
<1>1. /\ ~AtRest /\ Top.op = "abort_each" /\ Top.set \subseteq DOMAIN db
      /\ IsTable(db) /\ Sound(db)
  BY TopFacts, InvFacts DEF abort_each, Loops, History
<1>2. CASE Continue(db, Rest)
  BY <1>1, <1>2, TopOK, ContinueFollows
<1>3. ASSUME NEW i \in Top.set,
             Continue(IF Top.arg = "manual" THEN [db EXCEPT ![i].worker = None]
                                            ELSE db,
                      <<CallMarkAborted(i),
                        Frame("abort_each", 0, Top.set \ {i}, Top.arg)>>
                      \o Rest)
      PROVE  Follows
  <2> DEFINE e == [db EXCEPT ![i].worker = None]
             d == IF Top.arg = "manual" THEN e ELSE db
             a == CallMarkAborted(i)
             b == Frame("abort_each", 0, Top.set \ {i}, Top.arg)
  <2>1. Continue(d, <<a, b>> \o Rest)
    BY <1>3
  <2>2. Sound(e) /\ Later(db, e) /\ Keeps(db, e)
    BY <1>1, SetWorkerAllows, AllowsSound
  <2>3. \A j \in DOMAIN db : e[j].status = db[j].status
    <3>1. \A j \in DOMAIN db : db[j] \in Row(Len(db))
      BY <1>1, TableFacts
    <3> QED
      BY <3>1 DEF Row
  <2> HIDE DEF e
  <2>4. /\ Sound(d) /\ Later(db, d) /\ Keeps(db, d)
        /\ \A j \in DOMAIN db : d[j].status = db[j].status
    BY <1>1, <2>2, <2>3, LaterReflexive, KeepsReflexive
  <2>5. /\ a.op = "mark_aborted" /\ a.w = i
        /\ b.op = "abort_each" /\ b.set = Top.set \ {i}
    BY DEF CallMarkAborted, Frame
  <2> HIDE DEF a, b, d
  <2>6. CallsOK(d, Rest) /\ Rest \in Seq(Call(Len(db)))
    BY <1>1, <2>4, RestKept, TopOK
  <2>7. FrameOK(d, a) /\ FrameOK(d, b)
    <3>1. \A j \in Top.set : ~Superseded(db, j)
            /\ (Type(db, j) # "Workflow" => db[j].status # "completed")
      BY <1>1, TopOK DEF FrameOK, Mentions
    <3>2. \A j \in DOMAIN db : Type(d, j) = Type(db, j)
      BY <1>1, <2>4, TableFacts DEF Keeps, SameTask, Type, Entry
    <3>3. \A j : Superseded(d, j) <=> Superseded(db, j)
      BY <1>1, <2>4, SameSuperseded
    <3>4. \A j \in Top.set : ~Superseded(d, j)
            /\ (Type(d, j) # "Workflow" => d[j].status # "completed")
      BY <1>1, <2>4, <3>1, <3>2, <3>3
    <3> QED
      BY <2>5, <3>4 DEF FrameOK, Mentions
  <2>8. a.op \in Light /\ b.op \in Light
    BY <2>5 DEF Light
  <2>9. CallsOK(d, <<a, b>> \o Rest)
    BY <2>6, <2>7, <2>8, LightOver, LightAbove, PushTwo
  <2> QED
    BY <2>1, <2>4, <2>9, ContinueFollows
<1> QED
  BY <1>2, <1>3 DEF abort_each

LEMMA MaybeFinishWorkflowFollows ==
    ASSUME History, Inv', maybe_finish_workflow
    PROVE  Follows
<1> DEFINE p == Top.w
<1>1. /\ ~AtRest /\ p \in 0..Len(db) /\ IsTable(db) /\ Sound(db)
      /\ DOMAIN db = 1..Len(db) /\ Len(db) \in Nat
      /\ Later(db, db) /\ CallsOK(db, Rest) /\ Rest \in Seq(Call(Len(db)))
  BY TopFacts, InvFacts, TopOK DEF maybe_finish_workflow, History
<1>2. CASE Continue(db, Rest)
  BY <1>1, <1>2, ContinueFollows
<1>3. ASSUME p # None, Type(db, p) = "Workflow",
             NEW c, Continue(db, <<c>> \o Rest),
             c.op \in {"mark_aborted", "mark_completed"}, c.w = p
      PROVE  Follows
  <2>1. p \in DOMAIN db
    BY <1>1, <1>3
  <2>2. ~Superseded(db, p)
    BY <1>1, <1>3, <2>1, NotSuperseded
  <2>3. FrameOK(db, c)
    BY <1>3, <2>2 DEF FrameOK, Mentions
  <2>4. Above(db, c, Rest)
    BY <1>3 DEF Above, Over, Settles
  <2>5. CallsOK(db, <<c>> \o Rest)
    BY <1>1, <2>3, <2>4, PushOK
  <2> QED
    BY <1>1, <1>3, <2>5, ContinueFollows
<1>4. /\ CallMarkAborted(p).op = "mark_aborted" /\ CallMarkAborted(p).w = p
      /\ \A res : /\ CallMarkCompleted(p, res).op = "mark_completed"
                  /\ CallMarkCompleted(p, res).w = p
  BY DEF CallMarkAborted, CallMarkCompleted, Frame
<1> HIDE DEF p
<1> QED
  BY <1>2, <1>3, <1>4 DEF maybe_finish_workflow, p

LEMMA MarkCompletedFollows ==
    ASSUME History, Inv', mark_completed
    PROVE  Follows
<1> DEFINE i == Top.w
           p == db[i].parent
           a == Frame("unblock_reverse_dependencies", i, {}, "")
           b == Frame("process_retry_with_delays", i, {}, db[p].status)
           c == CallFinish(p)
           d == [db EXCEPT ![i].status = "completed", ![i].result = Top.arg]
           reaction == IF Top.arg \in {"failure", "error"} /\ p # None
                       THEN <<b>> ELSE <<>>
<1>1. /\ ~AtRest /\ Top.op = "mark_completed" /\ i \in DOMAIN db
      /\ Top.arg \in Results /\ Sound(db) /\ Rest \in Seq(Call(Len(db)))
  BY TopFacts, InvFacts DEF mark_completed, Methods, History
<1>2. IsTable(db)
  BY InvFacts DEF History
<1>3. CASE Continue(db, Rest)
  BY <1>1, <1>3, TopOK, ContinueFollows
<1>4. CASE /\ db[i].status \in {"pending", "running"}
           /\ Continue(d, <<a>> \o reaction \o <<c>> \o Rest)
  <2>1. ~Superseded(db, i)
    BY <1>1, <1>4, NotSuperseded DEF InProgress
  <2>2. Sound(d) /\ Later(db, d) /\ Keeps(db, d)
    <3>1. "completed" \in Statuses \ Waiting
      BY DEF Statuses, Waiting
    <3> QED
      BY <1>1, <1>2, <2>1, <3>1, FinishAllows, AllowsSound
  <2>3. \A j \in DOMAIN db :
          d[j].status = IF j = i THEN "completed" ELSE db[j].status
    <3>1. \A j \in DOMAIN db : db[j] \in Row(Len(db))
      BY <1>2, TableFacts
    <3> QED
      BY <3>1 DEF Row
  <2>4. /\ a.op = "unblock_reverse_dependencies"
        /\ b.op = "process_retry_with_delays" /\ b.w = i /\ b.arg = db[p].status
        /\ c.op = "maybe_finish_workflow"
    BY DEF Frame, CallFinish
  <2>5. Type(d, i) = Type(db, i) /\ d[i].parent = p /\ c = CallFinish(d[i].parent)
    <3> HIDE DEF d
    <3>1. SameTask(db[i], d[i])
      BY <1>1, <1>2, <2>2, TableFacts DEF Keeps
    <3> QED
      BY <3>1 DEF SameTask, Type, Entry
  <2> HIDE DEF a, b, c, d
  <2>6. CallsOK(d, Rest)
    <3>1. Type(db, i) # "Workflow" => \A k \in DOMAIN Rest : i \notin Mentions(Rest[k])
      BY <1>1, TopOK DEF Above, Over
    <3> QED
      BY <1>1, <2>2, <2>3, <3>1, RestKept
  <2>7. /\ a.op \in Light /\ c.op \in Light /\ Mentions(a) = {}
        /\ Mentions(c) = {} /\ Mentions(b) = {}
    BY <2>4 DEF Light, Mentions
  <2>8. CallsOK(d, <<c>> \o Rest) /\ <<c>> \o Rest \in Seq(Call(Len(db)) \cup {c})
    BY <1>1, <2>6, <2>7, LightOver, LightAbove, PushOK, PushFacts
  <2>9. ASSUME p # None
        PROVE  /\ CallsOK(d, <<b>> \o (<<c>> \o Rest))
               /\ <<b>> \o (<<c>> \o Rest) \in Seq(Call(Len(db)) \cup {c} \cup {b})
    <3>1. db[p].status \notin Waiting
      BY <1>1, <2>9 DEF Sound, Related
    <3>2. FrameOK(d, b)
      BY <2>4, <2>7, <3>1 DEF FrameOK
    <3>3. Above(d, b, Rest)
      <4>1. Above(db, Top, Rest)
        BY <1>1, TopOK
      <4> QED
        BY <1>1, <2>4, <2>5, <4>1 DEF Above, Over, Settles
    <3>4. Over(d, b, c)
      BY <2>4, <2>5, <2>7 DEF Over, Settles
    <3> QED
      BY <1>1, <2>8, <3>2, <3>3, <3>4, PushAbove, PushOK, PushFacts
  <2>10. /\ CallsOK(d, <<a>> \o (<<c>> \o Rest))
         /\ p # None => CallsOK(d, <<a>> \o (<<b>> \o (<<c>> \o Rest)))
    BY <2>7, <2>8, <2>9, LightOver, LightAbove, PushOK
  <2>11. CallsOK(d, <<a>> \o reaction \o <<c>> \o Rest)
    <3>1. reaction = <<>> \/ (p # None /\ reaction = <<b>>)
      OBVIOUS
    <3> HIDE DEF reaction, p
    <3>2. reaction \in Seq({b})
      <4>1. <<b>> \in Seq({b}) /\ <<>> \in Seq({b})
        BY EmptySeq
      <4> QED
        BY <3>1, <4>1, Zenon
    <3>3. Rest \in Seq(Call(Len(db)))
      BY <1>1
    <3>4. <<a>> \o reaction \o <<c>> \o Rest
            = <<a>> \o (reaction \o (<<c>> \o Rest))
      <4> DEFINE S == Call(Len(db))
                 T == {b}
      <4>1. Rest \in Seq(S) /\ reaction \in Seq(T)
        BY <3>2, <3>3
      <4> HIDE DEF S, T
      <4> QED
        BY <4>1, SpliceFacts
    <3>5. <<>> \o (<<c>> \o Rest) = <<c>> \o Rest
      BY <2>8, ConcatEmptySeq
    <3> QED
      BY <2>10, <3>1, <3>4, <3>5
  <2> HIDE DEF reaction
  <2> QED
    BY <1>4, <2>2, <2>11, ContinueFollows
<1> QED
  BY <1>3, <1>4 DEF mark_completed

LEMMA UnblockReverseDependenciesFollows ==
    ASSUME History, Inv', unblock_reverse_dependencies
    PROVE  Follows
<1> DEFINE rdeps == reverse_dependencies(db, Top.w)
           S == {j \in rdeps : can_be_automatically_unblocked(db, j)}
           B == {j \in rdeps : db[j].status = "blocked"}
           d == mark_pending(db, S)
           c == Frame("abort_each", 0, B, "")
<1>1. ~AtRest /\ Sound(db) /\ Rest \in Seq(Call(Len(db))) /\ CallsOK(db, Rest)
      /\ Later(db, db)
  BY TopOK, TopFacts DEF unblock_reverse_dependencies, History
<1>2. IsTable(db)
  BY InvFacts DEF History
<1>3. ASSUME Continue(d, Rest) PROVE Follows
  <2>1. Sound(d) /\ Later(db, d) /\ Keeps(db, d)
    <3>1. \A j \in S \cap DOMAIN db :
              /\ db[j].status = "blocked"
              /\ Entry(db, j).unblock_strategy = "deps" =>
                    \A k \in db[j].deps : db[k].status = "completed"
      BY DEF can_be_automatically_unblocked, can_be_unblocked
    <3> HIDE DEF S
    <3> QED
      BY <1>1, <1>2, <3>1, MarkPendingAllows, AllowsSound
  <2>2. \A j \in DOMAIN db : d[j].status \in {"pending", db[j].status}
    <3>1. \A j \in DOMAIN db : db[j] \in Row(Len(db))
      BY <1>2, TableFacts
    <3> HIDE DEF S
    <3> QED
      BY <3>1 DEF mark_pending, Row
  <2> HIDE DEF d
  <2>3. CallsOK(d, Rest)
    BY <1>1, <2>1, <2>2, RestKept
  <2> QED
    BY <1>3, <2>1, <2>3, ContinueFollows
<1>4. ASSUME Continue(db, <<c>> \o Rest) PROVE Follows
  <2>1. c.op = "abort_each" /\ c.set = B
    BY DEF Frame
  <2>2. \A j \in B : ~Superseded(db, j) /\ db[j].status # "completed"
    BY <1>1, NotSuperseded DEF InProgress, reverse_dependencies
  <2> HIDE DEF B, c
  <2>3. c.op \in Light /\ FrameOK(db, c)
    BY <2>1, <2>2 DEF Light, FrameOK, Mentions
  <2>4. CallsOK(db, <<c>> \o Rest)
    BY <1>1, <2>3, LightAbove, PushOK
  <2> QED
    BY <1>1, <1>4, <2>4, ContinueFollows
<1> QED
  BY <1>3, <1>4 DEF unblock_reverse_dependencies

(* The except and finally clauses.                                         *)
LEMMA UnwoundFollows ==
    ASSUME History, Inv', ~AtRest, Continue(db, Unwound)
    PROVE  Follows
<1>1. DOMAIN Unwound = DOMAIN calls
      /\ \A k \in DOMAIN calls : Unwound[k] = Handler(calls[k])
  BY DEF Unwound
<1>2. ASSUME NEW k \in DOMAIN calls
      PROVE  /\ Unwound[k].op \in {"mark_completed", "maybe_finish_workflow"}
             /\ Unwound[k].op = "mark_completed" =>
                  Type(db, Unwound[k].w) \in {"Workflow", "Callback"}
  <2>1. CASE calls[k].op = "orchestrate"
    <3>1. FrameOK(db, calls[k])
      BY DEF History, CallsOK
    <3>2. Unwound[k].op = "mark_completed" /\ Unwound[k].w = calls[k].w
      BY <1>1, <2>1 DEF Handler, CallMarkCompleted, Frame
    <3>3. Type(db, calls[k].w) \in {"Workflow", "Callback"}
      BY <2>1, <3>1 DEF FrameOK
    <3> QED
      BY <3>2, <3>3
  <2>2. CASE calls[k].op # "orchestrate"
    <3>1. CallFinish(None).op = "maybe_finish_workflow"
      BY DEF CallFinish, Frame
    <3>2. Unwound[k].op = "maybe_finish_workflow"
      BY <1>1, <2>2, <3>1 DEF Handler
    <3> QED
      BY <3>2
  <2> QED
    BY <2>1, <2>2
<1>3. \A k \in DOMAIN calls : Mentions(Unwound[k]) = {}
  BY <1>2 DEF Mentions
<1>4. CallsOK(db, Unwound)
  <2> SUFFICES ASSUME NEW k \in DOMAIN calls
               PROVE  /\ FrameOK(db, Unwound[k])
                      /\ \A l \in DOMAIN calls : Over(db, Unwound[k], Unwound[l])
    BY <1>1 DEF CallsOK
  <2>1. FrameOK(db, Unwound[k])
    BY <1>2, <1>3 DEF FrameOK
  <2>2. ASSUME NEW l \in DOMAIN calls
        PROVE  Over(db, Unwound[k], Unwound[l])
    BY <1>2, <1>3 DEF Over, Settles
  <2> QED
    BY <2>1, <2>2
<1> QED
  BY <1>4, TopOK, ContinueFollows

(* What verify_retry() accepts, other than workflows.                      *)
LEMMA VerifiedRetriable ==
    ASSUME NEW d, NEW i \in 1..Len(d), verify_retry(d, i),
           Type(d, i) # "Workflow"
    PROVE  Retriable(d, i)
  BY DEF verify_retry, Retriable, is_aborted_failed, InProgress

(* A retry on top of calls that mention nothing.                           *)
LEMMA SupersedeFollows ==
    ASSUME History, Inv', ~AtRest, NEW i, Retriable(db, i), NEW reason,
           Quiet(Rest), Continue(retry_supersede(db, i, reason), Rest)
    PROVE  Follows
<1> DEFINE d == retry_supersede(db, i, reason)
<1>1. IsTable(db) /\ IsChain(db) /\ Sound(db)
  BY InvFacts DEF History
<1>2. Sound(d) /\ Later(db, d)
  BY <1>1, SupersedeSound
<1>3. Continue(d, Rest)
  OBVIOUS
<1> HIDE DEF d
<1>4. CallsOK(d, Rest)
  BY <1>2, TopOK, QuietKept
<1> QED
  BY <1>2, <1>3, <1>4, ContinueFollows

LEMMA RetryLostFollows ==
    ASSUME History, Inv', retry_lost
    PROVE  Follows
<1>1. ~AtRest /\ Top.op = "retry_lost" /\ Top.w \in 1..Len(db)
  BY TopFacts DEF retry_lost, Methods, History
<1>2. Quiet(Rest) /\ Type(db, Top.w) = "Worker"
  BY <1>1, TopOK DEF Settles, FrameOK
<1>3. CASE Continue(db, Rest)
  BY <1>1, <1>3, TopOK, ContinueFollows
<1>4. CASE /\ verify_retry(db, Top.w)
           /\ Continue(retry_supersede(db, Top.w, Top.arg), Rest)
  BY <1>1, <1>2, <1>4, VerifiedRetriable, SupersedeFollows
<1> QED
  BY <1>3, <1>4 DEF retry_lost

(* The steps of a plan belong to workflows.                                *)
LEMMA OrchestrateOK ==
    ASSUME NEW d, IsTable(d), NEW i \in DOMAIN d, NEW e,
           Type(e, i) = Type(d, i), e[i].step = d[i].step,
           Type(d, i) \in {"Workflow", "Callback"},
           Type(d, i) = "Workflow" => d[i].status \notin Waiting
    PROVE  /\ FrameOK(d, CallOrchestrate(e, i))
           /\ CallOrchestrate(e, i).op = "orchestrate"
           /\ CallOrchestrate(e, i).w = i
           /\ Mentions(CallOrchestrate(e, i)) = {}
<1> DEFINE S == {s \in Step : Type(e, i) = "Workflow" /\ Plan[s].parent = e[i].step}
           c == CallOrchestrate(e, i)
<1>1. c.op = "orchestrate" /\ c.w = i /\ c.set = S
  BY DEF CallOrchestrate, Frame
<1>2. \A s \in S : Plan[s].parent # 0
  <2>1. Type(d, i) = "Workflow" => d[i].step # 0
    BY DEF Type, Entry, DelayEntry
  <2> QED
    BY <2>1
<1> HIDE DEF S, c
<1>3. FrameOK(d, c) /\ Mentions(c) = {}
  BY <1>1, <1>2 DEF FrameOK, Mentions
<1> QED
  BY <1>1, <1>3 DEF c

LEMMA RetryFollows ==
    ASSUME History, Inv', retry
    PROVE  Follows
<1> DEFINE i == Top.w
           n == retry_count(db, i, Top.arg)
           d == [db EXCEPT ![i].status = "running", ![i].retry_count = n]
           a == CallOrchestrate(db, i)
           b == Frame("retry_each", i, {}, Top.arg)
           c == CallFinish(i)
<1>1. /\ ~AtRest /\ Top.op = "retry" /\ i \in 1..Len(db) /\ i \in DOMAIN db
      /\ Sound(db) /\ Rest \in Seq(Call(Len(db)))
  BY TopFacts, InvFacts DEF retry, Methods, History
<1>2. IsTable(db)
  BY InvFacts DEF History
<1>3. Quiet(Rest) /\ CallsOK(db, Rest)
  BY <1>1, TopOK DEF Settles
<1>4. CASE Raise
  BY <1>4, RaiseFollows
<1>5. CASE Continue(db, Unwound)
  BY <1>1, <1>5, UnwoundFollows
<1>6. CASE /\ verify_retry(db, i) /\ Type(db, i) # "Workflow"
           /\ Continue(retry_supersede(db, i, Top.arg), Rest)
  BY <1>1, <1>3, <1>6, VerifiedRetriable, SupersedeFollows
<1>7. CASE /\ Type(db, i) = "Workflow"
           /\ Continue(d, <<a, b, c>> \o Rest)
  <2>1. n \in Nat
    <3>1. db[i].retry_count \in Nat
      BY <1>1, <1>2, TableFacts DEF Row
    <3> QED
      BY <3>1 DEF retry_count
  <2> HIDE DEF n
  <2>2. /\ \A j \in DOMAIN db : /\ d[j].deps = db[j].deps
                                /\ d[j].worker = db[j].worker
                                /\ j # i => d[j] = db[j]
        /\ d[i].status = "running"
    <3>1. \A j \in DOMAIN db : db[j] \in Row(Len(db))
      BY <1>2, TableFacts
    <3> QED
      BY <1>1, <3>1 DEF Row
  <2>3. Keeps(db, d)
    <3>1. Keeps(db, Set(db, i, "running"))
      BY <1>2, SetKeeps DEF Statuses
    <3>2. Keeps(Set(db, i, "running"),
                [Set(db, i, "running") EXCEPT ![i].retry_count = n])
      BY <2>1, <3>1, SetRetryCountKeeps DEF Keeps
    <3>3. Keeps(db, [Set(db, i, "running") EXCEPT ![i].retry_count = n])
      BY <3>1, <3>2, KeepsTransitive
    <3> QED
      BY <3>3 DEF Set
  <2> HIDE DEF d
  <2>4. ~Superseded(db, i)
    BY <1>1, <1>7, NotSuperseded
  <2>5. Allows(db, d)
    BY <1>1, <1>2, <1>7, <2>2, <2>3, <2>4, SettleAllows DEF Waiting
  <2>6. Sound(d) /\ Later(db, d)
    BY <1>1, <1>2, <2>5, AllowsSound
  <2>7. CallsOK(d, Rest)
    BY <1>1, <1>2, <1>3, <2>6, QuietKept
  <2>8. /\ IsTable(d) /\ i \in DOMAIN d /\ Type(db, i) = Type(d, i)
        /\ db[i].step = d[i].step
    BY <1>1, <2>3, TableFacts DEF Keeps, SameTask, Type, Entry
  <2>9. /\ FrameOK(d, a) /\ a.op = "orchestrate" /\ Mentions(a) = {}
    BY <1>7, <2>2, <2>8, OrchestrateOK DEF Waiting
  <2>10. /\ b.op = "retry_each" /\ c.op = "maybe_finish_workflow"
         /\ Mentions(b) = {} /\ Mentions(c) = {}
    BY DEF Frame, CallFinish, Mentions
  <2> HIDE DEF a, b, c
  <2>11. FrameOK(d, b) /\ FrameOK(d, c)
    BY <2>10 DEF FrameOK
  <2>12. /\ Above(d, a, Rest) /\ Above(d, b, Rest) /\ Above(d, c, Rest)
    BY <1>3, <2>9, <2>10, QuietAbove
  <2>13. Over(d, a, b) /\ Over(d, a, c) /\ Over(d, b, c)
    BY <2>9, <2>10 DEF Over
  <2>14. CallsOK(d, <<c>> \o Rest) /\ <<c>> \o Rest \in Seq(Call(Len(db)) \cup {c})
    BY <1>1, <2>7, <2>11, <2>12, PushOK, PushFacts
  <2>15. Above(d, a, <<c>> \o Rest) /\ Above(d, b, <<c>> \o Rest)
    BY <1>1, <2>12, <2>13, PushAbove
  <2>16. CallsOK(d, <<a, b>> \o (<<c>> \o Rest))
    BY <2>9, <2>11, <2>13, <2>14, <2>15, PushTwo
  <2>17. <<a, b, c>> \o Rest = <<a, b>> \o (<<c>> \o Rest)
    BY <1>1, TripleFacts
  <2> QED
    BY <1>7, <2>6, <2>16, <2>17, ContinueFollows
<1> QED
  BY <1>4, <1>5, <1>6, <1>7 DEF retry

LEMMA RetryEachFollows ==
    ASSUME History, Inv', retry_each
    PROVE  Follows
<1>1. /\ ~AtRest /\ Top.op = "retry_each" /\ Later(db, db) /\ Sound(db)
      /\ Rest \in Seq(Call(Len(db))) /\ CallsOK(db, Rest) /\ Quiet(Rest)
  BY TopOK DEF retry_each, Settles
<1>2. \A c : c.op = "retry_each" \/ c.op = "retry" =>
              /\ FrameOK(db, c) /\ Mentions(c) = {} /\ Above(db, c, Rest)
              /\ \A b : b.op = "retry_each" => Over(db, c, b)
  <2> SUFFICES ASSUME NEW c, c.op = "retry_each" \/ c.op = "retry"
               PROVE  /\ FrameOK(db, c) /\ Mentions(c) = {} /\ Above(db, c, Rest)
                      /\ \A b : b.op = "retry_each" => Over(db, c, b)
    OBVIOUS
  <2>1. Mentions(c) = {} /\ \A b : b.op = "retry_each" => Mentions(b) = {}
    BY DEF Mentions
  <2>2. FrameOK(db, c)
    BY <2>1 DEF FrameOK
  <2>3. \A b : b.op = "retry_each" => Over(db, c, b)
    BY <2>1 DEF Over
  <2> QED
    BY <1>1, <2>1, <2>2, <2>3, QuietAbove
<1>3. CASE Continue(db, Rest)
  BY <1>1, <1>3, ContinueFollows
<1>4. ASSUME NEW c, c.op = "retry_each", Continue(db, <<c>> \o Rest)
      PROVE  Follows
  <2>1. CallsOK(db, <<c>> \o Rest)
    BY <1>1, <1>2, <1>4, PushOK
  <2> QED
    BY <1>1, <1>4, <2>1, ContinueFollows
<1>5. ASSUME NEW c, c.op = "retry", NEW b, b.op = "retry_each",
             Continue(db, <<c, b>> \o Rest)
      PROVE  Follows
  <2>1. CallsOK(db, <<c, b>> \o Rest)
    BY <1>1, <1>2, <1>5, PushTwo
  <2> QED
    BY <1>1, <1>5, <2>1, ContinueFollows
<1> DEFINE failed == {i \in Children(db, Top.w) : is_aborted_failed(db, i)}
<1>6. CASE Continue(db, <<Frame("retry_each", None, failed, Top.arg)>> \o Rest)
  <2> DEFINE c == Frame("retry_each", None, failed, Top.arg)
  <2>1. c.op = "retry_each" /\ Continue(db, <<c>> \o Rest)
    BY <1>6 DEF Frame
  <2> HIDE DEF c
  <2> QED
    BY <1>4, <2>1
<1>7. ASSUME NEW i \in Top.set,
             Continue(db, <<CallRetry(i, Top.arg),
                            Frame("retry_each", None, Top.set \ {i}, Top.arg)>>
                          \o Rest)
      PROVE  Follows
  <2> DEFINE c == CallRetry(i, Top.arg)
             b == Frame("retry_each", None, Top.set \ {i}, Top.arg)
  <2>1. c.op = "retry" /\ b.op = "retry_each" /\ Continue(db, <<c, b>> \o Rest)
    BY <1>7 DEF Frame, CallRetry
  <2> HIDE DEF b, c
  <2> QED
    BY <1>5, <2>1
<1> QED
  BY <1>3, <1>6, <1>7 DEF retry_each

-----------------------------------------------------------------------------
(* The reaction to a failure, on tables: a delay, and a retry after it.    *)

Delayed(d, i, st) ==
    Append(Set(d, d[i].parent, st), NewRow(Delay, d[i].parent, "pending"))
Retried(d, i, st) ==
    add_dependencies(retry_supersede(Delayed(d, i, st), i, "delay"),
                     Len(d) + 2, {Len(d) + 1})

LEMMA DelayedFacts ==
    ASSUME NEW d, IsTable(d), IsChain(d), Sound(d), NEW i \in 1..Len(d),
           NEW st \in Statuses \ Waiting
    PROVE  LET e == Delayed(d, i, st)
               n == Len(d)
           IN  /\ IsTable(e) /\ IsChain(e) /\ Sound(e) /\ Later(d, e)
               /\ Len(e) = n + 1 /\ DOMAIN e = 1..(n + 1)
               /\ \A j \in 1..n : e[j].status = IF j = d[i].parent THEN st
                                                ELSE d[j].status
               /\ e[n + 1] = NewRow(Delay, d[i].parent, "pending")
<1> DEFINE p == d[i].parent
           n == Len(d)
           e0 == Set(d, p, st)
           r == NewRow(Delay, p, "pending")
           e == Append(e0, r)
<1>1. /\ n \in Nat /\ DOMAIN d = 1..n /\ p \in 0..n
      /\ p # None => p \in DOMAIN d /\ Type(d, p) = "Workflow"
  <2>1. n \in Nat /\ DOMAIN d = 1..n /\ p \in 0..n
    BY TableFacts DEF Row
  <2> QED
    BY <2>1 DEF Sound, Related
<1>2. e = Delayed(d, i, st)
  BY DEF Delayed
<1> HIDE DEF p
<1>3. Sound(e0) /\ Later(d, e0) /\ Keeps(d, e0)
  <2>1. p \in DOMAIN d => ~Superseded(d, p) /\ Type(d, p) = "Workflow"
    BY <1>1, NotSuperseded
  <2> QED
    BY <1>1, <2>1, SetAllows, AllowsSound
<1>4. \A j \in 1..n : e0[j].status = IF j = p THEN st ELSE d[j].status
  BY <1>1, SetFacts
<1> HIDE DEF e0
<1>5. IsTable(e0) /\ IsChain(e0) /\ Len(e0) = n
  BY <1>3, KeepsChain DEF Keeps
<1>6. p # None => Type(e0, p) = "Workflow" /\ e0[p].status \notin Waiting
  BY <1>1, <1>3, <1>4 DEF Keeps, SameTask, Type, Entry
<1>7. 0 \in 0..Steps /\ "pending" \in Statuses /\ p \in 0..Len(e0)
  BY <1>1, <1>5, WorkRequestsAssumption DEF Statuses
<1>8. Fits(e0, e, r)
  BY <1>5, <1>6, <1>7, NewRowFits
<1>9. IsTable(e) /\ Len(e) = n + 1 /\ IsChain(e)
  BY <1>5, <1>7, NewRowTable
<1>10. \A j \in 1..n : e[j] = e0[j]
  BY <1>5, <1>7, NewRowTable
<1>11. e[n + 1] = r
  <2>1. r \in Row(n + 1)
    BY <1>5, <1>8 DEF Fits
  <2> HIDE DEF r
  <2> QED
    BY <1>5, <2>1, AppendTable
<1> HIDE DEF r
<1>12. Sound(e) /\ Later(e0, e)
  BY <1>3, <1>5, <1>8, AppendSound
<1> HIDE DEF e
<1>13. Later(d, e)
  BY <1>3, <1>5, <1>12, LaterTransitive
<1>14. DOMAIN e = 1..(n + 1)
  BY <1>9, TableFacts
<1> QED
  BY <1>2, <1>4, <1>9, <1>10, <1>11, <1>12, <1>13, <1>14 DEF p, r

LEMMA RetriedFacts ==
    ASSUME NEW d, IsTable(d), IsChain(d), Sound(d), NEW i, Retriable(d, i),
           NEW st \in Statuses \ Waiting
    PROVE  LET e == Delayed(d, i, st)
               g == Retried(d, i, st)
               n == Len(d)
               p == d[i].parent
           IN  /\ Sound(g) /\ Later(d, g) /\ DOMAIN g = 1..(n + 2)
               /\ Steady(e, g, p)
               /\ g[n + 1].parent = p /\ g[n + 2].parent = p
               /\ Type(g, n + 1) = "Wait" /\ Type(g, n + 2) = Type(d, i)
<1> DEFINE e == Delayed(d, i, st)
           n == Len(d)
           p == d[i].parent
           f == retry_supersede(e, i, "delay")
           m == n + 2
           deps == {n + 1}
           g == add_dependencies(f, m, deps)
<1>1. /\ n \in Nat /\ DOMAIN d = 1..n /\ i \in 1..n /\ i \in DOMAIN d
      /\ Type(d, i) \notin {"Workflow", "Wait"} /\ d[i] \in Row(n)
  BY TableFacts DEF Retriable
<1>2. /\ IsTable(e) /\ IsChain(e) /\ Sound(e) /\ Later(d, e)
      /\ Len(e) = n + 1 /\ DOMAIN e = 1..(n + 1)
      /\ \A j \in 1..n : e[j].status = IF j = p THEN st ELSE d[j].status
      /\ e[n + 1] = NewRow(Delay, p, "pending")
  BY <1>1, DelayedFacts
<1>3. g = Retried(d, i, st)
  BY DEF Retried
<1> HIDE DEF e
<1>4. /\ e[n + 1].supersedes = None /\ e[n + 1].step = 0
      /\ e[n + 1].parent = p
  BY <1>2 DEF NewRow
<1>5. \A j \in 1..n : SameTask(d[j], e[j])
  BY <1>2 DEF Later
<1>6. Retriable(e, i) /\ e[i].parent = p /\ Type(e, i) = Type(d, i)
  <2>1. p # i
    <3>1. p # None => Type(d, p) = "Workflow"
      BY <1>1 DEF Sound, Related
    <3> HIDE DEF p
    <3> QED
      BY <1>1, <3>1
  <2>2. e[i].status = d[i].status
    <3> HIDE DEF p
    <3> QED
      BY <1>1, <1>2, <2>1
  <2>3. ~Superseded(e, i)
    <3>1. \A j \in 1..n : e[j].supersedes # i
      BY <1>1, <1>5 DEF Retriable, Superseded, SameTask
    <3>2. e[n + 1].supersedes # i
      BY <1>1, <1>4
    <3> QED
      BY <1>1, <1>2, <3>1, <3>2 DEF Superseded
  <2>4. e[i].parent = p /\ Type(e, i) = Type(d, i)
    BY <1>1, <1>5 DEF SameTask, Type, Entry
  <2>5. i \in 1..Len(e) /\ ~InProgress(e, i)
    BY <1>1, <1>2, <2>2 DEF Retriable, InProgress
  <2> QED
    BY <1>1, <2>3, <2>4, <2>5 DEF Retriable
<1>7. /\ Sound(f) /\ Later(e, f) /\ Len(f) = Len(e) + 1
      /\ SameTask([e[i] EXCEPT !.supersedes = i], f[Len(e) + 1])
  BY <1>2, <1>6, SupersedeSound
<1>8. Steady(e, f, p)
  <2>1. i \in 1..Len(e) /\ e[i].parent = p
    BY <1>6 DEF Retriable
  <2>2. Steady(e, f, e[i].parent)
    BY <1>2, <2>1, SupersedeSteady
  <2> QED
    BY <2>1, <2>2
<1> HIDE DEF f
<1>9. Len(e) + 1 = m /\ Len(f) = m
  BY <1>1, <1>2, <1>7
<1>10. IsTable(f) /\ DOMAIN f = 1..m
  <2>1. IsTable(f)
    BY <1>7 DEF Later
  <2> QED
    BY <1>9, <2>1, TableFacts
<1>11. /\ f[n + 1].parent = p /\ f[m].parent = p
       /\ Type(f, n + 1) = "Wait" /\ Type(f, m) = Type(d, i)
  <2>1. e[i] \in Row(Len(e)) /\ e[i].step = d[i].step
    BY <1>1, <1>2, <1>5, <1>6, TableFacts DEF SameTask, Retriable
  <2>2. f[m].parent = p /\ f[m].step = d[i].step
    <3>1. SameTask([e[i] EXCEPT !.supersedes = i], f[m])
      BY <1>7, <1>9
    <3> QED
      BY <1>6, <2>1, <3>1 DEF SameTask, Row
  <2>3. SameTask(e[n + 1], f[n + 1])
    BY <1>1, <1>2, <1>7 DEF Later
  <2>4. f[n + 1].parent = p /\ f[n + 1].step = 0
    BY <1>4, <2>3 DEF SameTask
  <2> QED
    BY <2>2, <2>4 DEF Type, Entry, DelayEntry
<1>12. Sound(g) /\ Later(f, g) /\ Keeps(f, g) /\ Steady(f, g, p)
  <2>1. /\ deps \in SUBSET (1..Len(f)) /\ m \in DOMAIN f
        /\ \A j \in deps : Type(f, j) # "Workflow"
        /\ Type(f, m) # "Workflow"
    BY <1>1, <1>9, <1>10, <1>11
  <2> HIDE DEF deps, m
  <2>2. Allows(f, g)
    BY <1>7, <1>10, <2>1, AddDependenciesAllows
  <2>3. Steady(f, g, p)
    BY <1>10, AddDependenciesSteady
  <2> HIDE DEF g
  <2> QED
    BY <1>7, <1>10, <2>2, <2>3, AllowsSound
<1> HIDE DEF g
<1>13. Later(d, g)
  BY <1>2, <1>7, <1>10, <1>12, LaterTransitive
<1>14. Steady(e, g, p)
  <2>1. DOMAIN e \subseteq DOMAIN f
    BY <1>1, <1>2, <1>10
  <2> QED
    BY <1>8, <1>12, <2>1, SteadyTransitive
<1>15. /\ DOMAIN g = 1..m
       /\ g[n + 1].parent = p /\ g[m].parent = p
       /\ Type(g, n + 1) = "Wait" /\ Type(g, m) = Type(d, i)
  <2>1. IsTable(g) /\ Len(g) = m /\ \A j \in 1..m : SameTask(f[j], g[j])
    BY <1>9, <1>12 DEF Keeps
  <2>2. DOMAIN g = 1..m
    BY <2>1, TableFacts
  <2>3. SameTask(f[n + 1], g[n + 1]) /\ SameTask(f[m], g[m])
    BY <1>1, <2>1
  <2> HIDE DEF m, p
  <2> QED
    BY <1>11, <2>2, <2>3 DEF SameTask, Type, Entry
<1>16. e = Delayed(d, i, st)
  BY DEF e
<1>17. m = n + 2
  OBVIOUS
<1> HIDE DEF m
<1> QED
  BY <1>3, <1>12, <1>13, <1>14, <1>15, <1>16, <1>17

(* Only worker tasks are retried after delays.                             *)
LEMMA RetriedWorker ==
    ASSUME NEW d, IsTable(d), NEW i \in 1..Len(d),
           d[i].retry_count < Entry(d, i).delays
    PROVE  Type(d, i) = "Worker"
<1>1. d[i].retry_count \in Nat /\ d[i].step \in 0..Steps
  BY TableFacts DEF Row
<1>2. Entry(d, i).delays # 0
  <2>1. CASE Entry(d, i).delays = 0
    BY <1>1, <2>1
  <2> QED
    BY <2>1
<1>3. d[i].step # 0 /\ Entry(d, i) = Plan[d[i].step]
  BY <1>2 DEF Entry, DelayEntry
<1>4. d[i].step \in Step
  BY <1>1, <1>3, WorkRequestsAssumption DEF Step
<1> QED
  BY <1>2, <1>3, <1>4, WorkRequestsAssumption DEF Type

LEMMA ProcessRetryWithDelaysFollows ==
    ASSUME History, Inv', process_retry_with_delays
    PROVE  Follows
<1> DEFINE i == Top.w
           p == db[i].parent
           n == Len(db)
           e == Delayed(db, i, Top.arg)
           g == Retried(db, i, Top.arg)
<1>1. /\ ~AtRest /\ Top.op = "process_retry_with_delays" /\ i \in 1..n
      /\ n \in Nat /\ Top.arg \in Statuses
      /\ Sound(db) /\ Rest \in Seq(Call(n))
  BY TopFacts, InvFacts DEF process_retry_with_delays, Methods, History
<1>2. IsTable(db) /\ IsChain(db)
  BY InvFacts DEF History
<1>3. Top.arg \notin Waiting /\ CallsOK(db, Rest)
  BY <1>1, TopOK DEF FrameOK
<1>4. CASE Continue(db, Rest)
  BY <1>1, <1>4, TopOK, ContinueFollows
<1>5. CASE Raise
  BY <1>5, RaiseFollows
<1>6. CASE Continue(e, <<>>)
  <2>1. Sound(e) /\ Later(db, e) /\ CallsOK(e, <<>>)
    BY <1>1, <1>2, <1>3, DelayedFacts DEF CallsOK
  <2> HIDE DEF e
  <2> QED
    BY <1>6, <2>1, ContinueFollows
<1>7. CASE /\ db[i].retry_count < Entry(db, i).delays /\ verify_retry(db, i)
           /\ Continue(g, Rest)
  <2>1. Type(db, i) = "Worker"
    BY <1>1, <1>2, <1>7, RetriedWorker
  <2>2. Quiet(Rest)
    BY <1>1, <2>1, TopOK DEF Settles
  <2>3. Retriable(db, i)
    BY <1>1, <1>7, <2>1, VerifiedRetriable
  <2>4. Sound(g) /\ Later(db, g)
    BY <1>1, <1>2, <1>3, <2>3, RetriedFacts
  <2> HIDE DEF g
  <2>5. CallsOK(g, Rest)
    BY <1>1, <1>2, <1>3, <2>2, <2>4, QuietKept
  <2> QED
    BY <1>7, <2>4, <2>5, ContinueFollows
<1>8. /\ e = Append(Set(db, p, Top.arg), NewRow(Delay, p, "pending"))
      /\ g = add_dependencies(retry_supersede(e, i, "delay"),
                              Len(db) + 1 + 1, {Len(db) + 1})
  <2>1. Len(db) + 2 = Len(db) + 1 + 1
    BY <1>1
  <2> QED
    BY <2>1 DEF Delayed, Retried
<1> HIDE DEF e, g
<1> QED
  BY <1>4, <1>5, <1>6, <1>7, <1>8 DEF process_retry_with_delays

-----------------------------------------------------------------------------
(* Orchestration.                                                          *)

LEMMA OrchestrateCallbackFollows ==
    ASSUME History, Inv', orchestrate_callback
    PROVE  Follows
<1> DEFINE c == CallMarkCompleted(Top.w, "success")
<1>1. /\ ~AtRest /\ Top.op = "orchestrate" /\ Type(db, Top.w) = "Callback"
      /\ Continue(db, <<c>> \o Rest)
  BY DEF orchestrate_callback
<1>2. /\ Later(db, db) /\ Sound(db) /\ Rest \in Seq(Call(Len(db)))
      /\ CallsOK(db, Rest) /\ Quiet(Rest)
  BY <1>1, TopOK DEF Settles
<1>3. c.op = "mark_completed" /\ c.w = Top.w
  BY DEF CallMarkCompleted, Frame
<1> HIDE DEF c
<1>4. FrameOK(db, c)
  BY <1>3 DEF FrameOK, Mentions
<1>5. Above(db, c, Rest)
  BY <1>1, <1>2, <1>3, QuietAbove
<1>6. CallsOK(db, <<c>> \o Rest)
  BY <1>2, <1>4, <1>5, PushOK
<1> QED
  BY <1>1, <1>2, <1>6, ContinueFollows

LEMMA OrchestrateFailsFollows ==
    ASSUME History, Inv', orchestrate_fails
    PROVE  Follows
  BY RaiseFollows, UnwoundFollows DEF orchestrate_fails

(* A child that is created, or found.                                      *)
LEMMA EnsureChildSound ==
    ASSUME NEW d, IsTable(d), IsChain(d), Sound(d), NEW w \in DOMAIN d,
           NEW s \in Step, Type(d, w) = "Workflow", d[w].status \notin Waiting
    PROVE  LET e == ensure_child(d, w, s) IN Sound(e) /\ Later(d, e)
<1> DEFINE st == IF Plan[s].type \in {"Worker", "Wait"} THEN "blocked"
                                                        ELSE "pending"
           r == NewRow(s, w, st)
<1>1. /\ st \in Statuses /\ s \in 0..Steps /\ w \in 0..Len(d) /\ w # 0
      /\ Plan[s].type = "Workflow" => st # "blocked"
  <2>1. Steps \in Nat /\ Len(d) \in Nat /\ DOMAIN d = 1..Len(d)
    BY WorkRequestsAssumption, TableFacts
  <2> QED
    BY <2>1 DEF Statuses, Step
<1> HIDE DEF st
<1>2. Fits(d, Append(d, r), r)
  BY <1>1, NewRowFits
<1> HIDE DEF r
<1>3. Sound(Append(d, r)) /\ Later(d, Append(d, r))
  BY <1>2, AppendSound
<1>4. ensure_child(d, w, s) = IF Existing(d, s) # {} THEN d ELSE Append(d, r)
  BY DEF ensure_child, r, st
<1> QED
  BY <1>3, <1>4, LaterReflexive

(* Dependencies on the artifacts that tasks have promised.                 *)
LEMMA RequiresArtifactsSound ==
    ASSUME NEW d, IsTable(d), Sound(d), NEW i \in DOMAIN d, NEW new,
           NEW s \in Step, d[i].step = s, Plan[s].parent # 0
    PROVE  LET e == requires_artifacts(d, i, new)
           IN  Sound(e) /\ Later(d, e) /\ Keeps(d, e)
<1> DEFINE deps == UNION {Promised(d, t) : t \in Entry(d, i).deps}
<1>1. deps \in SUBSET (1..Len(d))
  BY TableFacts DEF Promised
<1>2. s # 0 /\ Entry(d, i) = Plan[s] /\ Type(d, i) = Plan[s].type
      /\ (NeedsNothing(d, i) <=> Plan[s].deps = {})
  BY WorkRequestsAssumption DEF Step, Entry, Type, NeedsNothing
<1>3. \A j \in deps : Type(d, j) # "Workflow"
  <2> SUFFICES ASSUME NEW t \in Plan[s].deps, NEW j \in Promised(d, t)
               PROVE  Type(d, j) # "Workflow"
    BY <1>2
  <2>1. Plan[s] \in PlanEntry
    BY WorkRequestsAssumption
  <2>2. t \in Step
    BY <2>1 DEF PlanEntry
  <2>3. t # 0 /\ d[j].step = t /\ Plan[t].type # "Workflow"
    BY <2>2, WorkRequestsAssumption DEF Promised, Step
  <2> QED
    BY <2>3 DEF Type, Entry
<1>4. NeedsNothing(d, i) => deps = {}
  BY <1>2
<1> HIDE DEF deps
<1>5. Allows(d, add_dependencies(d, i, deps))
  BY <1>1, <1>3, <1>4, AddDependenciesAllows
<1>6. LET e == add_dependencies(d, i, deps)
      IN  Sound(e) /\ Later(d, e) /\ Keeps(d, e)
  BY <1>5, AllowsSound
<1> QED
  BY <1>6, LaterReflexive, KeepsReflexive DEF requires_artifacts, deps

LEMMA OrchestrateWorkflowFollows ==
    ASSUME History, Inv', orchestrate_workflow
    PROVE  Follows
<1> DEFINE w == Top.w
           f(s) == Frame("orchestrate", w, Top.set \ {s}, "")
           left(s) == <<f(s)>> \o Rest
           ready(d, i) == d[i].status = "pending"
<1>1. /\ ~AtRest /\ Top.op = "orchestrate" /\ Type(db, w) = "Workflow"
      /\ w \in 1..Len(db) /\ w \in DOMAIN db /\ Len(db) \in Nat
      /\ Top.set \subseteq Step /\ Sound(db)
  BY TopFacts, InvFacts DEF orchestrate_workflow, Methods, History
<1>2. IsTable(db) /\ IsChain(db)
  BY InvFacts DEF History
<1>3. /\ Later(db, db) /\ Rest \in Seq(Call(Len(db)))
      /\ CallsOK(db, Rest) /\ Quiet(Rest)
      /\ db[w].status \notin Waiting /\ \A s \in Top.set : Plan[s].parent # 0
  BY <1>1, TopOK DEF Settles, FrameOK
<1>4. ASSUME NEW s \in Top.set,
             NEW i \in Existing(ensure_child(db, w, s), s),
             LET d1 == ensure_child(db, w, s)
                 d2 == requires_artifacts(d1, i, Existing(db, s) = {})
             IN  \/ /\ Plan[s].type = "Workflow"
                    /\ ready(d2, i) \/ Plan[s].deps = {}
                    /\ Continue(IF ready(d2, i) THEN Set(d2, i, "running") ELSE d2,
                                <<CallOrchestrate(d2, i)>> \o left(s))
                 \/ Continue(d2, left(s))
      PROVE  Follows
  <2> DEFINE d1 == ensure_child(db, w, s)
             d2 == requires_artifacts(d1, i, Existing(db, s) = {})
             d3 == IF ready(d2, i) THEN Set(d2, i, "running") ELSE d2
             c == CallOrchestrate(d2, i)
  <2>1. s \in Step /\ Plan[s].parent # 0
    BY <1>1, <1>3
  <2>2. Sound(d1) /\ Later(db, d1) /\ IsTable(d1)
    <3>1. Sound(d1) /\ Later(db, d1)
      BY <1>1, <1>2, <1>3, <2>1, EnsureChildSound
    <3> QED
      BY <3>1 DEF Later
  <2> HIDE DEF d1
  <2>3. i \in DOMAIN d1 /\ d1[i].step = s
    BY <1>4 DEF Existing, d1
  <2>4. Sound(d2) /\ Later(d1, d2) /\ Keeps(d1, d2)
    BY <2>1, <2>2, <2>3, RequiresArtifactsSound
  <2>5. \/ /\ Plan[s].type = "Workflow"
           /\ ready(d2, i) \/ Plan[s].deps = {}
           /\ Continue(d3, <<c>> \o left(s))
        \/ Continue(d2, left(s))
    BY <1>4 DEF d1
  <2> HIDE DEF d2
  <2>6. /\ IsTable(d2) /\ DOMAIN d2 = DOMAIN d1 /\ i \in DOMAIN d2
        /\ d2[i].step = s /\ Later(db, d2)
    <3>1. IsTable(d2) /\ DOMAIN d2 = DOMAIN d1
      BY <2>2, <2>4, TableFacts DEF Keeps
    <3>2. SameTask(d1[i], d2[i])
      BY <2>2, <2>3, <2>4, TableFacts DEF Keeps
    <3>3. Later(db, d2)
      BY <1>2, <2>2, <2>4, LaterTransitive
    <3> QED
      BY <2>3, <3>1, <3>2, <3>3 DEF SameTask
  <2>7. Sound(d3) /\ Later(d2, d3) /\ Keeps(d2, d3)
    <3>1. CASE ready(d2, i)
      <4>1. ~Superseded(d2, i) /\ "running" \in Statuses \ Waiting
        BY <2>4, <2>6, <3>1, NotSuperseded DEF InProgress, Statuses, Waiting
      <4>2. Sound(Set(d2, i, "running")) /\ Later(d2, Set(d2, i, "running"))
              /\ Keeps(d2, Set(d2, i, "running"))
        BY <2>4, <2>6, <3>1, <4>1, SetAllows, AllowsSound
      <4> QED
        BY <3>1, <4>2
    <3>2. CASE ~ready(d2, i)
      BY <2>4, <2>6, <3>2, LaterReflexive, KeepsReflexive
    <3> QED
      BY <3>1, <3>2
  <2>8. Plan[s].type = "Workflow" /\ (ready(d2, i) \/ Plan[s].deps = {})
          => d3[i].status \notin Waiting
    <3>1. CASE ready(d2, i)
      <4>1. d3[i].status = "running"
        BY <2>6, <3>1, SetFacts
      <4> QED
        BY <4>1 DEF Waiting
    <3>2. CASE ~ready(d2, i)
      <4>1. Type(d2, i) = Plan[s].type
            /\ (Plan[s].deps = {} => NeedsNothing(d2, i))
        BY <2>1, <2>6, WorkRequestsAssumption DEF Type, Entry, NeedsNothing, Step
      <4>2. Plan[s].type = "Workflow" /\ Plan[s].deps = {}
              => d2[i].status # "blocked"
        BY <2>4, <2>6, <4>1 DEF Sound, WorkflowsWait
      <4> QED
        BY <3>2, <4>2 DEF Waiting
    <3> QED
      BY <3>1, <3>2
  <2> HIDE DEF d3
  <2>9. Later(db, d3)
    BY <1>2, <2>6, <2>7, LaterTransitive
  <2>10. /\ f(s).op = "orchestrate" /\ f(s).w = w /\ f(s).set = Top.set \ {s}
    BY DEF Frame
  <2> HIDE DEF f
  <2>11. \A e : Later(db, e) => CallsOK(e, left(s))
    <3> SUFFICES ASSUME NEW e, Later(db, e)
                 PROVE  CallsOK(e, left(s))
      OBVIOUS
    <3>1. CallsOK(e, Rest)
      BY <1>2, <1>3, QuietKept
    <3>2. /\ SameTask(db[w], e[w])
          /\ e[w].status \in Waiting => db[w].status \in Waiting
      <4> HIDE DEF w
      <4> QED
        BY <1>1 DEF Later
    <3>3. Type(e, w) = "Workflow" /\ e[w].status \notin Waiting
      <4> HIDE DEF w
      <4> QED
        BY <1>1, <1>3, <3>2 DEF SameTask, Type, Entry
    <3>4. FrameOK(e, f(s))
      BY <1>3, <2>10, <3>3 DEF FrameOK, Mentions
    <3>5. Above(e, f(s), Rest)
      BY <1>3, <2>10, QuietAbove
    <3> QED
      BY <1>3, <3>1, <3>4, <3>5, PushOK
  <2>12. CASE Continue(d2, left(s))
    <3>1. CallsOK(d2, left(s))
      BY <2>6, <2>11
    <3> HIDE DEF left
    <3> QED
      BY <2>4, <2>6, <2>12, <3>1, ContinueFollows
  <2>13. CASE /\ Plan[s].type = "Workflow"
              /\ ready(d2, i) \/ Plan[s].deps = {}
              /\ Continue(d3, <<c>> \o left(s))
    <3>1. SameTask(d2[i], d3[i]) /\ i \in DOMAIN d3 /\ IsTable(d3)
      BY <2>6, <2>7, TableFacts DEF Keeps
    <3>2. Type(d2, i) = "Workflow"
      BY <2>1, <2>6, <2>13, WorkRequestsAssumption DEF Type, Entry, Step
    <3>3. Type(d3, i) = Type(d2, i) /\ d3[i].step = d2[i].step
      BY <3>1 DEF SameTask, Type, Entry
    <3>4. FrameOK(d3, c) /\ c.op = "orchestrate"
      BY <2>8, <2>13, <3>1, <3>2, <3>3, OrchestrateOK
    <3> HIDE DEF c
    <3>5. Mentions(f(s)) = {} /\ f(s).op # "mark_completed"
      BY <2>10 DEF Mentions
    <3>6. Above(d3, c, Rest)
      BY <1>3, <3>4, QuietAbove
    <3>7. Over(d3, c, f(s))
      BY <3>4, <3>5 DEF Over
    <3>8. Above(d3, c, left(s)) /\ left(s) \in Seq(Call(Len(db)) \cup {f(s)})
      BY <1>3, <3>6, <3>7, PushAbove, PushFacts
    <3>9. CallsOK(d3, left(s))
      BY <2>9, <2>11
    <3> HIDE DEF left
    <3>10. CallsOK(d3, <<c>> \o left(s))
      BY <3>4, <3>8, <3>9, PushOK
    <3> QED
      BY <2>7, <2>9, <2>13, <3>10, ContinueFollows
  <2> QED
    BY <2>5, <2>12, <2>13
<1>5. ASSUME Continue(mark_pending(db, {i \in Children(db, w) :
                                   can_be_automatically_unblocked(db, i)}), Rest)
      PROVE  Follows
  <2> DEFINE S == {i \in Children(db, w) : can_be_automatically_unblocked(db, i)}
             d == mark_pending(db, S)
  <2>1. \A j \in S \cap DOMAIN db :
              /\ db[j].status = "blocked"
              /\ Entry(db, j).unblock_strategy = "deps" =>
                    \A k \in db[j].deps : db[k].status = "completed"
    BY DEF can_be_automatically_unblocked, can_be_unblocked
  <2>2. Continue(d, Rest)
    BY <1>5
  <2> HIDE DEF S
  <2>3. Sound(d) /\ Later(db, d)
    BY <1>1, <1>2, <2>1, MarkPendingAllows, AllowsSound
  <2> HIDE DEF d
  <2>4. CallsOK(d, Rest)
    BY <1>2, <1>3, <2>3, QuietKept
  <2> QED
    BY <2>2, <2>3, <2>4, ContinueFollows
<1>6. ASSUME Continue(db, <<CallMarkCompleted(w, "success")>> \o Rest)
      PROVE  Follows
  <2> DEFINE c == CallMarkCompleted(w, "success")
  <2>1. c.op = "mark_completed" /\ c.w = w /\ Continue(db, <<c>> \o Rest)
    BY <1>6 DEF CallMarkCompleted, Frame
  <2> HIDE DEF c
  <2>2. FrameOK(db, c)
    BY <2>1 DEF FrameOK, Mentions
  <2>3. Above(db, c, Rest)
    BY <1>1, <1>3, <2>1, QuietAbove
  <2>4. CallsOK(db, <<c>> \o Rest)
    BY <1>3, <2>2, <2>3, PushOK
  <2> QED
    BY <1>1, <1>3, <2>1, <2>4, ContinueFollows
<1> QED
  BY <1>4, <1>5, <1>6 DEF orchestrate_workflow

-----------------------------------------------------------------------------
(* The scheduler.                                                          *)

(* A transaction that begins with one call.                                *)
LEMMA SingleOK ==
    ASSUME NEW d, NEW c, FrameOK(d, c)
    PROVE  CallsOK(d, <<c>>)
<1>1. DOMAIN <<c>> = {1} /\ <<c>>[1] = c
  OBVIOUS
<1> QED
  BY <1>1 DEF CallsOK

LEMMA BeginFrame ==
    ASSUME History, Inv', NEW c, FrameOK(db, c), NEW who, Begin(who, db, <<c>>)
    PROVE  Follows
<1>1. CallsOK(db, <<c>>)
  BY SingleOK
<1>2. Sound(db) /\ Later(db, db)
  BY InvFacts, LaterReflexive DEF History
<1> QED
  BY <1>1, <1>2, BeginFollows

LEMMA CompletedFrame ==
    ASSUME NEW d, NEW i, NEW res
    PROVE  /\ FrameOK(d, CallMarkCompleted(i, res))
           /\ CallMarkCompleted(i, res).op = "mark_completed"
           /\ CallMarkCompleted(i, res).w = i
<1> DEFINE c == CallMarkCompleted(i, res)
<1>1. c.op = "mark_completed" /\ c.w = i
  BY DEF CallMarkCompleted, Frame
<1> HIDE DEF c
<1>2. FrameOK(d, c)
  BY <1>1 DEF FrameOK, Mentions
<1> QED
  BY <1>1, <1>2 DEF c

LEMMA ScheduleInternalFollows ==
    ASSUME History, Inv', schedule_internal
    PROVE  Follows
<1> DEFINE S == Schedulable(db)
           c == Frame("schedule_each", 0, S, "")
<1>1. \A i \in S : ~Superseded(db, i) /\ db[i].status # "completed"
  BY NotSuperseded DEF Schedulable, InProgress, History
<1>2. Begin("task", db, <<c>>)
  BY DEF schedule_internal
<1>3. c.op = "schedule_each" /\ c.set = S
  BY DEF Frame
<1> HIDE DEF S, c
<1>4. FrameOK(db, c)
  BY <1>1, <1>3 DEF FrameOK, Mentions
<1> QED
  BY <1>2, <1>4, BeginFrame

LEMMA CompleteDelayTasksFollows ==
    ASSUME History, Inv', complete_delay_tasks
    PROVE  Follows
<1>1. PICK S \in SUBSET {i \in DOMAIN db : Type(db, i) = "Wait"
                                         /\ db[i].status = "running"} :
        Begin("task", db, <<Frame("complete_each", 0, S, "")>>)
  BY DEF complete_delay_tasks
<1> DEFINE c == Frame("complete_each", 0, S, "")
<1>2. c.op = "complete_each" /\ c.set = S /\ Begin("task", db, <<c>>)
  BY <1>1 DEF Frame
<1>3. \A i \in S : Type(db, i) = "Wait"
  OBVIOUS
<1> HIDE DEF c
<1>4. FrameOK(db, c)
  BY <1>2, <1>3 DEF FrameOK, Mentions
<1> QED
  BY <1>2, <1>4, BeginFrame

LEMMA ScheduleEachFollows ==
    ASSUME History, Inv', schedule_each
    PROVE  Follows
<1> DEFINE f(i) == Frame("schedule_each", 0, Top.set \ {i}, "")
           next(i) == <<f(i)>> \o Rest
<1>1. /\ ~AtRest /\ Top.op = "schedule_each" /\ Top.set \subseteq DOMAIN db
      /\ Sound(db) /\ Later(db, db) /\ Rest \in Seq(Call(Len(db)))
      /\ CallsOK(db, Rest)
  BY TopFacts, InvFacts, TopOK DEF schedule_each, Loops, History
<1>2. IsTable(db)
  BY InvFacts DEF History
<1>3. /\ \A i \in Top.set :
            /\ ~Superseded(db, i)
            /\ Type(db, i) # "Workflow" => db[i].status # "completed"
      /\ DOMAIN Rest = {}
  BY <1>1, TopOK DEF FrameOK, Mentions, Above, Over
<1>4. CASE Continue(db, Rest)
  BY <1>1, <1>4, ContinueFollows
<1>5. ASSUME NEW i \in Top.set, NEW d, Later(db, d), Keeps(db, d),
             \A j \in DOMAIN db : d[j].status = "completed"
                                     => db[j].status = "completed"
      PROVE  CallsOK(d, next(i))
  <2>1. f(i).op = "schedule_each" /\ f(i).set = Top.set \ {i}
    BY DEF Frame
  <2>2. \A j : Superseded(d, j) <=> Superseded(db, j)
    BY <1>2, <1>5, SameSuperseded
  <2>3. \A j \in DOMAIN db : Type(d, j) = Type(db, j)
    BY <1>2, <1>5, TableFacts DEF Keeps, SameTask, Type, Entry
  <2>4. \A j \in Top.set :
            /\ ~Superseded(d, j)
            /\ Type(d, j) # "Workflow" => d[j].status # "completed"
    BY <1>1, <1>3, <1>5, <2>2, <2>3
  <2> HIDE DEF f
  <2>5. FrameOK(d, f(i))
    BY <2>1, <2>4 DEF FrameOK, Mentions
  <2>6. Above(d, f(i), Rest) /\ CallsOK(d, Rest)
    BY <1>3 DEF Above, CallsOK
  <2> QED
    BY <1>1, <2>5, <2>6, PushOK
<1>6. \A i \in Top.set : CallsOK(db, next(i))
  BY <1>1, <1>2, <1>5, KeepsReflexive
<1>7. ASSUME NEW i \in Top.set, Type(db, i) = "SyncPoint",
             Continue(db, <<CallMarkCompleted(i, "success")>> \o next(i))
      PROVE  Follows
  <2> DEFINE c == CallMarkCompleted(i, "success")
  <2>1. FrameOK(db, c) /\ c.op = "mark_completed" /\ c.w = i
    BY CompletedFrame
  <2>2. f(i).op = "schedule_each" /\ f(i).set = Top.set \ {i}
    BY DEF Frame
  <2> HIDE DEF c, f
  <2>3. i \notin Mentions(f(i))
    BY <2>2 DEF Mentions
  <2>4. Over(db, c, f(i))
    BY <1>7, <2>1, <2>3 DEF Over, Settles
  <2>5. Above(db, c, Rest)
    BY <1>3 DEF Above
  <2>6. Above(db, c, next(i)) /\ next(i) \in Seq(Call(Len(db)) \cup {f(i)})
    BY <1>1, <2>4, <2>5, PushAbove, PushFacts
  <2>7. CallsOK(db, next(i))
    BY <1>6
  <2>8. Continue(db, <<c>> \o next(i))
    BY <1>7 DEF c
  <2> HIDE DEF next
  <2>9. CallsOK(db, <<c>> \o next(i))
    BY <2>1, <2>6, <2>7, PushOK
  <2> QED
    BY <1>1, <2>8, <2>9, ContinueFollows
<1>8. ASSUME NEW i \in Top.set, Continue(db, next(i))
      PROVE  Follows
  <2>1. CallsOK(db, next(i))
    BY <1>6
  <2> HIDE DEF next
  <2> QED
    BY <1>1, <1>8, <2>1, ContinueFollows
<1>9. ASSUME NEW i \in Top.set, NEW r \in DOMAIN db, ~Superseded(db, r),
             Type(db, r) # "Workflow" => db[r].status # "completed"
      PROVE  LET d == Set(db, r, "running")
             IN  Sound(d) /\ Later(db, d) /\ CallsOK(d, next(i))
                   /\ d[r].status = "running" /\ Type(d, r) = Type(db, r)
  <2> DEFINE d == Set(db, r, "running")
  <2>1. "running" \in Statuses \ Waiting
    BY DEF Statuses, Waiting
  <2>2. Sound(d) /\ Later(db, d) /\ Keeps(db, d)
    BY <1>1, <1>2, <1>9, <2>1, SetAllows, AllowsSound
  <2>3. \A j \in DOMAIN db :
          d[j].status = IF j = r THEN "running" ELSE db[j].status
    BY <1>2, SetFacts
  <2> HIDE DEF d, next
  <2>4. CallsOK(d, next(i))
    BY <1>5, <2>2, <2>3
  <2>5. Type(d, r) = Type(db, r)
    BY <1>2, <2>2, TableFacts DEF Keeps, SameTask, Type, Entry
  <2>6. d[r].status = "running"
    BY <2>3
  <2> QED
    BY <2>2, <2>4, <2>5, <2>6 DEF d
<1>10. HooksOK(db, on_commit) /\ on_commit \in SUBSET (1..Len(db))
  BY DEF History, Inv, TypeOK
<1>11. ASSUME NEW i \in Top.set, Type(db, i) \in {"Wait", "Callback"},
              \/ Continue(Set(db, i, "running"), next(i))
              \/ /\ Type(db, i) = "Callback"
                 /\ ContinueWith(Set(db, i, "running"), next(i), on_commit \cup {i})
       PROVE  Follows
  <2> DEFINE d == Set(db, i, "running")
  <2>1. /\ Sound(d) /\ Later(db, d) /\ CallsOK(d, next(i))
        /\ Type(d, i) = Type(db, i)
    BY <1>1, <1>3, <1>9, <1>11
  <2>2. \/ Continue(d, next(i))
        \/ Type(db, i) = "Callback" /\ ContinueWith(d, next(i), on_commit \cup {i})
    BY <1>11
  <2> HIDE DEF d, next
  <2>3. HooksOK(d, on_commit)
    BY <1>2, <1>10, <2>1, HooksKept
  <2>4. Type(db, i) = "Callback" => HooksOK(d, on_commit \cup {i})
    BY <2>1, <2>3 DEF HooksOK
  <2> QED
    BY <2>1, <2>2, <2>4, ContinueFollows, ProceedFollows DEF ContinueWith
<1>12. ASSUME NEW i \in Top.set, NEW r \in WorkflowRoot(db, i),
              ContinueWith(IF db[r].status = "pending"
                           THEN Set(db, r, "running") ELSE db,
                           next(i), on_commit \cup {r})
       PROVE  Follows
  <2> DEFINE d == IF db[r].status = "pending" THEN Set(db, r, "running") ELSE db
  <2>1. r \in DOMAIN db /\ db[r].parent = None /\ Type(db, r) = "Workflow"
    BY DEF WorkflowRoot
  <2>2. ~Superseded(db, r)
    BY <1>1, <2>1, NotSuperseded
  <2>3. db[r].status # "blocked"
    BY <1>1, <2>1 DEF Sound, WorkflowsWait, NeedsNothing
  <2>4. ContinueWith(d, next(i), on_commit \cup {r})
    BY <1>12
  <2>5. /\ Sound(d) /\ Later(db, d) /\ CallsOK(d, next(i))
        /\ Type(d, r) = "Workflow" /\ d[r].status \notin Waiting
    <3>1. CASE db[r].status = "pending"
      BY <1>9, <2>1, <2>2, <3>1 DEF Waiting
    <3>2. CASE db[r].status # "pending"
      <4>1. d = db /\ db[r].status \notin Waiting /\ CallsOK(db, next(i))
        BY <1>6, <2>3, <3>2 DEF Waiting
      <4> HIDE DEF d, next
      <4> QED
        BY <1>1, <2>1, <4>1
    <3> QED
      BY <3>1, <3>2
  <2> HIDE DEF d, next
  <2>6. HooksOK(d, on_commit)
    BY <1>2, <1>10, <2>5, HooksKept
  <2>7. HooksOK(d, on_commit \cup {r})
    BY <2>5, <2>6 DEF HooksOK
  <2> QED
    BY <2>4, <2>5, <2>7, ProceedFollows DEF ContinueWith
<1> QED
  BY <1>4, <1>7, <1>8, <1>11, <1>12 DEF schedule_each, next

LEMMA CompleteEachFollows ==
    ASSUME History, Inv', complete_each
    PROVE  Follows
<1>1. /\ ~AtRest /\ Top.op = "complete_each" /\ Sound(db) /\ Later(db, db)
      /\ Rest \in Seq(Call(Len(db))) /\ CallsOK(db, Rest) /\ Quiet(Rest)
      /\ \A i \in Top.set : Type(db, i) = "Wait"
  BY TopOK DEF complete_each, Settles, FrameOK
<1>2. CASE Continue(db, Rest)
  BY <1>1, <1>2, ContinueFollows
<1>3. ASSUME NEW i \in Top.set,
             Continue(db, <<CallMarkCompleted(i, "success"),
                            Frame("complete_each", 0, Top.set \ {i}, "")>>
                          \o Rest)
      PROVE  Follows
  <2> DEFINE a == CallMarkCompleted(i, "success")
             b == Frame("complete_each", 0, Top.set \ {i}, "")
  <2>1. FrameOK(db, a) /\ a.op = "mark_completed" /\ a.w = i
    BY CompletedFrame
  <2>2. b.op = "complete_each" /\ b.set = Top.set \ {i}
    BY DEF Frame
  <2>3. Continue(db, <<a, b>> \o Rest)
    BY <1>3
  <2> HIDE DEF a, b
  <2>4. Mentions(b) = {}
    BY <2>2 DEF Mentions
  <2>5. FrameOK(db, b)
    BY <1>1, <2>2, <2>4 DEF FrameOK
  <2>6. Above(db, a, Rest) /\ Above(db, b, Rest)
    BY <1>1, <2>1, <2>2, QuietAbove
  <2>7. Over(db, a, b)
    BY <1>1, <2>1, <2>2, <2>4 DEF Over, Settles
  <2>8. CallsOK(db, <<a, b>> \o Rest)
    BY <1>1, <2>1, <2>5, <2>6, <2>7, PushTwo
  <2> QED
    BY <1>1, <2>3, <2>8, ContinueFollows
<1> QED
  BY <1>2, <1>3 DEF complete_each

LEMMA AssignFollows ==
    ASSUME History, Inv', NEW k \in Workers, Assign(k)
    PROVE  Follows
<1>1. PICK i \in DOMAIN db : \/ assign_worker(k, i) \/ assign_skipped(k, i)
                             \/ assign_failed(k, i)
  BY DEF Assign
<1> DEFINE d == [db EXCEPT ![i].worker = k]
           c(res) == CallMarkCompleted(i, res)
<1>2. IsTable(db) /\ Sound(db) /\ Type(db, i) = "Worker"
  BY <1>1, InvFacts DEF History, assign_worker, assign_skipped, assign_failed,
                        Assignable
<1>3. Sound(d) /\ Later(db, d)
  BY <1>2, SetWorkerAllows, AllowsSound
<1>4. \A e, res : FrameOK(e, c(res))
  BY CompletedFrame
<1> HIDE DEF c
<1>5. CASE assign_worker(k, i)
  <2>1. CallsOK(d, <<>>) /\ Begin("task", d, <<>>)
    BY <1>5 DEF CallsOK, assign_worker
  <2> HIDE DEF d
  <2> QED
    BY <1>3, <2>1, BeginFollows
<1>6. CASE assign_skipped(k, i)
  <2>1. CallsOK(d, <<c("skipped")>>)
    BY <1>4, SingleOK
  <2>2. Begin("task", d, <<c("skipped")>>)
    BY <1>6 DEF assign_skipped, c
  <2> HIDE DEF d
  <2> QED
    BY <1>3, <2>1, <2>2, BeginFollows
<1>7. CASE assign_failed(k, i)
  <2>1. Begin("task", db, <<c("error")>>)
    BY <1>7 DEF assign_failed, c
  <2> QED
    BY <1>4, <2>1, BeginFrame
<1> QED
  BY <1>1, <1>5, <1>6, <1>7

LEMMA RunWorkflowTaskFollows ==
    ASSUME History, Inv', NEW i \in queued, run_workflow_task(i)
    PROVE  Follows
<1> DEFINE c == CallOrchestrate(db, i)
<1>1. /\ db' = db /\ committed' = committed /\ on_commit' = on_commit
      /\ calls' = <<c>> /\ queued' = queued \ {i} /\ AtRest
  BY DEF run_workflow_task
<1>2. IsTable(db) /\ db = committed /\ DOMAIN db = 1..Len(db) /\ i \in DOMAIN db
  BY <1>1, InvFacts DEF History, Inv, TypeOK
<1>3. FrameOK(db, c)
  <2>1. /\ Type(db, i) \in {"Workflow", "Callback"}
        /\ Type(db, i) = "Workflow" => db[i].status \notin Waiting
    BY <1>2 DEF History, HooksOK
  <2> QED
    BY <1>2, <2>1, OrchestrateOK
<1> HIDE DEF c
<1>4. CallsOK(db, <<c>>)
  BY <1>3, SingleOK
<1>5. HooksOK(committed, queued \ {i})
  BY DEF History, HooksOK
<1>6. Later(committed, committed)
  BY <1>2, LaterReflexive
<1> QED
  BY <1>1, <1>4, <1>5, <1>6 DEF Follows, History

-----------------------------------------------------------------------------
(* The views of workers and users.                                         *)

LEMMA NextPendingFollows ==
    ASSUME History, Inv', next_pending
    PROVE  Follows
<1>1. ~AtRest /\ Sound(db) /\ Later(db, db) /\ CallsOK(db, Rest)
  BY TopOK DEF next_pending
<1>2. IsTable(db)
  BY InvFacts DEF History
<1>3. CASE Continue(db, Rest)
  BY <1>1, <1>3, ContinueFollows
<1>4. ASSUME NEW i \in Pending(db, Top.worker), Continue(Set(db, i, "running"), Rest)
      PROVE  Follows
  <2> DEFINE d == Set(db, i, "running")
  <2>1. i \in DOMAIN db /\ db[i].status = "pending"
    BY DEF Pending
  <2>2. ~Superseded(db, i) /\ "running" \in Statuses \ Waiting
    BY <1>1, <2>1, NotSuperseded DEF InProgress, Statuses, Waiting
  <2>3. Sound(d) /\ Later(db, d) /\ Keeps(db, d)
    BY <1>1, <1>2, <2>1, <2>2, SetAllows, AllowsSound
  <2>4. \A j \in DOMAIN db :
          d[j].status = IF j = i THEN "running" ELSE db[j].status
    BY <1>2, SetFacts
  <2>5. Continue(d, Rest)
    BY <1>4
  <2> HIDE DEF d
  <2>6. CallsOK(d, Rest)
    BY <1>1, <2>3, <2>4, RestKept
  <2> QED
    BY <2>3, <2>5, <2>6, ContinueFollows
<1> QED
  BY <1>3, <1>4 DEF next_pending

LEMMA GetNextWorkRequestFollows ==
    ASSUME History, Inv', NEW k \in Workers, get_next_work_request(k)
    PROVE  Follows
<1> DEFINE c == [Frame("next_pending", 0, {}, "") EXCEPT !.worker = k]
<1>1. c.op = "next_pending"
  BY DEF Frame
<1>2. FrameOK(db, c) /\ Mentions(c) = {}
  <2> HIDE DEF c
  <2> QED
    BY <1>1 DEF FrameOK, Mentions
<1>3. IsTable(db) /\ Sound(db) /\ Later(db, db)
  BY InvFacts, LaterReflexive DEF History
<1>4. CASE Begin("api", db, <<c>>)
  <2> HIDE DEF c
  <2> QED
    BY <1>2, <1>4, BeginFrame
<1>5. ASSUME NEW i \in Running(db, k),
             Begin("api", db, <<CallMarkAborted(i),
                                Frame("retry_lost", i, {}, "worker_failed")>>
                              \o <<c>>)
      PROVE  Follows
  <2> DEFINE a == CallMarkAborted(i)
             b == Frame("retry_lost", i, {}, "worker_failed")
  <2>1. i \in DOMAIN db /\ db[i].status = "running" /\ db[i].worker = k
    BY DEF Running
  <2>2. ~Superseded(db, i) /\ Type(db, i) = "Worker"
    <3>1. k # None
      BY WorkRequestsAssumption
    <3> QED
      BY <1>3, <2>1, <3>1, NotSuperseded DEF InProgress, Sound, Related
  <2>3. /\ a.op = "mark_aborted" /\ a.w = i
        /\ b.op = "retry_lost" /\ b.w = i
    BY DEF CallMarkAborted, Frame
  <2>4. Begin("api", db, <<a, b>> \o <<c>>)
    BY <1>5
  <2> HIDE DEF a, b, c
  <2>5. FrameOK(db, a) /\ FrameOK(db, b)
    BY <2>1, <2>2, <2>3 DEF FrameOK, Mentions
  <2>6. CallsOK(db, <<c>>) /\ <<c>> \in Seq({c})
    BY <1>2, SingleOK
  <2>7. a.op \in Light
    BY <2>3 DEF Light
  <2>8. Quiet(<<c>>)
    <3>1. DOMAIN <<c>> = {1} /\ <<c>>[1] = c
      OBVIOUS
    <3> QED
      BY <1>1, <1>2, <3>1 DEF Quiet
  <2>9. Above(db, a, <<c>>) /\ Above(db, b, <<c>>) /\ Over(db, a, b)
    BY <2>3, <2>7, <2>8, LightAbove, LightOver, QuietAbove
  <2>10. CallsOK(db, <<a, b>> \o <<c>>)
    BY <2>5, <2>6, <2>9, PushTwo
  <2> QED
    BY <1>3, <2>4, <2>10, BeginFollows
<1> QED
  BY <1>4, <1>5 DEF get_next_work_request

LEMMA ReportsFollows ==
    ASSUME History, Inv', NEW k, NEW statuses, Reports(k, statuses)
    PROVE  Follows
<1>1. PICK i \in DOMAIN db, res \in Outcomes :
        update_work_request_as_completed(i, res)
  BY DEF Reports
<1> QED
  BY <1>1, CompletedFrame, BeginFrame DEF update_work_request_as_completed

LEMMA CreateWorkRequestFollows ==
    ASSUME History, Inv', NEW s \in Step, create_work_request(s)
    PROVE  Follows
<1> DEFINE r == NewRow(s, None, "pending")
           d == Append(db, r)
<1>1. IsTable(db) /\ Sound(db) /\ Len(db) \in Nat
  BY InvFacts DEF History
<1>2. s \in 0..Steps /\ 0 \in 0..Len(db) /\ "pending" \in Statuses
  BY <1>1, WorkRequestsAssumption DEF Step, Statuses
<1>3. Plan[s].parent = 0 /\ Begin("api", d, <<>>)
  BY DEF create_work_request
<1>4. Fits(db, d, r)
  BY <1>1, <1>2, <1>3, NewRowFits
<1> HIDE DEF d, r
<1>5. Sound(d) /\ Later(db, d) /\ CallsOK(d, <<>>)
  BY <1>1, <1>4, AppendSound DEF CallsOK
<1> QED
  BY <1>3, <1>5, BeginFollows

LEMMA AbortFollows ==
    ASSUME History, Inv', NEW i, abort(i)
    PROVE  Follows
<1> DEFINE S == {j \in DOMAIN db : i \in Ancestors(db, j) /\ verify_abort(db, j)}
           c == Frame("abort_each", 0, S, "manual")
<1>1. \A j \in S : ~Superseded(db, j) /\ db[j].status # "completed"
  BY DEF verify_abort, InProgress
<1>2. Begin("web", db, <<c>>)
  BY DEF abort
<1>3. c.op = "abort_each" /\ c.set = S
  BY DEF Frame
<1> HIDE DEF S, c
<1>4. FrameOK(db, c)
  BY <1>1, <1>3 DEF FrameOK, Mentions
<1> QED
  BY <1>2, <1>4, BeginFrame

LEMMA UserRetryFollows ==
    ASSUME History, Inv', NEW i, user_retry(i)
    PROVE  Follows
<1> DEFINE c == CallRetry(i, "manual")
<1>1. c.op = "retry"
  BY DEF CallRetry, Frame
<1>2. \E who \in {"api", "web"} : Begin(who, db, <<c>>)
  BY DEF user_retry
<1> HIDE DEF c
<1>3. FrameOK(db, c)
  BY <1>1 DEF FrameOK, Mentions
<1> QED
  BY <1>2, <1>3, BeginFrame

LEMMA ReviewManualUnblockFollows ==
    ASSUME History, Inv', NEW i \in DOMAIN db, review_manual_unblock(i)
    PROVE  Follows
<1>1. IsTable(db) /\ Sound(db) /\ db[i].status = "blocked"
      /\ Entry(db, i).unblock_strategy = "manual"
  BY InvFacts DEF History, review_manual_unblock, can_be_unblocked
<1>2. CASE Begin("web", mark_pending(db, {i}), <<>>)
  <2> DEFINE d == mark_pending(db, {i})
  <2>1. Sound(d) /\ Later(db, d) /\ CallsOK(d, <<>>)
    BY <1>1, MarkPendingAllows, AllowsSound DEF CallsOK
  <2>2. Begin("web", d, <<>>)
    BY <1>2
  <2> HIDE DEF d
  <2> QED
    BY <2>1, <2>2, BeginFollows
<1>3. CASE Begin("web", db, <<CallMarkAborted(i)>>)
  <2> DEFINE c == CallMarkAborted(i)
  <2>1. c.op = "mark_aborted" /\ c.w = i /\ Begin("web", db, <<c>>)
    BY <1>3 DEF CallMarkAborted, Frame
  <2>2. ~Superseded(db, i)
    BY <1>1, NotSuperseded DEF InProgress
  <2> HIDE DEF c
  <2>3. FrameOK(db, c)
    BY <1>1, <2>1, <2>2 DEF FrameOK, Mentions
  <2> QED
    BY <2>1, <2>3, BeginFrame
<1> QED
  BY <1>2, <1>3 DEF review_manual_unblock

-----------------------------------------------------------------------------
(* The theorems.                                                           *)

LEMMA InitHistory == Init => History
<1> SUFFICES ASSUME Init PROVE History
  OBVIOUS
<1>1. /\ db = <<>> /\ committed = <<>> /\ calls = <<>>
      /\ on_commit = {} /\ queued = {}
  BY DEF Init
<1>2. Inv
  BY InitInv
<1>3. DOMAIN <<>> = {}
  OBVIOUS
<1>4. Sound(<<>>)
  BY <1>3 DEF Sound, SupersededDone, Related, WorkflowsWait, DependenciesDone
<1>5. Later(<<>>, <<>>)
  BY <1>1, <1>2, InvFacts, LaterReflexive
<1>6. CallsOK(<<>>, <<>>) /\ HooksOK(<<>>, {})
  BY <1>3 DEF CallsOK, HooksOK
<1> QED
  BY <1>1, <1>2, <1>4, <1>5, <1>6 DEF History

LEMMA NextHistory == History /\ [Next]_vars => Follows
<1> SUFFICES ASSUME History, [Next]_vars PROVE Follows
  OBVIOUS
<1>1. Inv'
  BY NextInv DEF History
<1>2. CASE Method
  BY <1>1, <1>2, MarkAbortedFollows, AbortEachFollows, MarkCompletedFollows,
     UnblockReverseDependenciesFollows, ProcessRetryWithDelaysFollows,
     MaybeFinishWorkflowFollows, RetryFollows, RetryEachFollows,
     OrchestrateCallbackFollows, OrchestrateWorkflowFollows,
     OrchestrateFailsFollows, ScheduleEachFollows, CompleteEachFollows,
     RetryLostFollows, NextPendingFollows DEF Method
<1>3. CASE User
  BY <1>1, <1>3, CreateWorkRequestFollows, AbortFollows, UserRetryFollows,
     ReviewManualUnblockFollows DEF User
<1>4. CASE schedule_internal
  BY <1>1, <1>4, ScheduleInternalFollows
<1>5. CASE \E i \in queued : run_workflow_task(i)
  BY <1>1, <1>5, RunWorkflowTaskFollows
<1>6. CASE complete_delay_tasks
  BY <1>1, <1>6, CompleteDelayTasksFollows
<1>7. CASE \E k \in Workers : \/ Assign(k) \/ Worker(k)
                             \/ Reports(k, {"completed", "aborted"})
  BY <1>1, <1>7, AssignFollows, GetNextWorkRequestFollows, ReportsFollows
     DEF Worker
<1>8. CASE UNCHANGED vars
  <2>1. Later(committed, committed)
    BY InvFacts, LaterReflexive DEF History
  <2> QED
    BY <1>1, <1>8, <2>1 DEF Follows, History, vars
<1> QED
  BY <1>2, <1>3, <1>4, <1>5, <1>6, <1>7, <1>8 DEF Next

LEMMA SpecHistory == Spec => []History
<1>1. History /\ [Next]_vars => History'
  BY NextHistory DEF Follows
<1> QED
  BY <1>1, InitHistory, PTL DEF Spec

(* add_dependency, the redirection of dependencies by a retry, delays,     *)
(* unblocking and cascades of aborts, in any order: a request whose        *)
(* unblocking is automatic is never pending before all that it depends on  *)
(* has completed.                                                          *)
THEOREM PendingIsReady == Spec => []PendingDepsDone
<1>1. History => PendingDepsDone
  BY DEF History, Sound, DependenciesDone, PendingDepsDone
<1> QED
  BY <1>1, SpecHistory, PTL

(* No late report, abort, cascade or retry rewrites the status or the      *)
(* result of an attempt that has been superseded.                          *)
THEOREM SupersededKept == Spec => SupersededFrozen
<1> DEFINE Kept == \A i \in DOMAIN committed :
                      Superseded(committed, i) =>
                        /\ committed'[i].status = committed[i].status
                        /\ committed'[i].result = committed[i].result
<1>1. History /\ [Next]_vars => [Kept]_vars
  <2> SUFFICES ASSUME History, [Next]_vars PROVE Kept
    OBVIOUS
  <2>1. Later(committed, committed') /\ DOMAIN committed = 1..Len(committed)
    BY NextHistory, InvFacts, TableFacts DEF Follows, History
  <2> QED
    BY <2>1 DEF Later
<1> QED
  BY <1>1, SpecHistory, PTL DEF Spec, SupersededFrozen

-----------------------------------------------------------------------------
(* No end is missed.  While a transaction is under way, a running workflow *)
(* may be without a child in progress, but then something is left to do    *)
(* that will notice: Owed.  A rollback or a call that drops the others     *)
(* must not lose it: Undoable.  The on_failure reaction saves a status of  *)
(* the parent read earlier, and must not undo its end: Reactions.          *)

Frames(cs) == {cs[k] : k \in DOMAIN cs}

(* Call c will find out that workflow p has ended, or populate it.         *)
Finishes(c, p) ==
    \/ c.op \in {"maybe_finish_workflow", "mark_completed", "mark_aborted"}
       /\ c.w = p
    \/ c.op = "abort_each" /\ p \in c.set
Starts(c, p) == c.op = "orchestrate" /\ c.w = p

(* One of the calls F does, or p has yet to be populated, by one of them   *)
(* or by one of the Celery tasks H.                                        *)
Covered(d, F, H, p) ==
    \/ \E c \in F : Finishes(c, p)
    \/ /\ Children(d, p) = {}
       /\ p \in H \/ \E c \in F : Starts(c, p)

Owed(d, F, H) == \A p \in DOMAIN d : Unfinished(d, p) => Covered(d, F, H, p)

(* Calls that roll back nothing that a Celery task does: they retry        *)
(* nothing, and end nothing that is retried.                               *)
Harmless(d, c) ==
    /\ c.op \notin {"retry", "retry_each", "retry_lost"}
    /\ c.op \in {"mark_completed", "process_retry_with_delays"}
         => Type(d, c.w) # "Worker"

(* Calls that retry after a delay, and calls that may come between the end *)
(* of a request and the reaction to it: they set nothing running.          *)
Reacts(d, c) == c.op = "process_retry_with_delays" /\ Type(d, c.w) = "Worker"
Calm(d, c) ==
    \/ c.op \in {"mark_aborted", "abort_each", "unblock_reverse_dependencies",
                 "maybe_finish_workflow"}
    \/ /\ c.op \in {"mark_completed", "process_retry_with_delays"}
       /\ Type(d, c.w) = "Workflow"

(* The status of the workflow that a reaction saves again is stale only if *)
(* the workflow has ended since.                                           *)
Current(d, c) ==
    d[c.w].parent # None /\ d[d[c.w].parent].status = "running"
      => c.arg = "running"

Reactions(d, F) ==
    \A c \in F :
        /\ Reacts(d, c) => /\ Current(d, c)
                           /\ \A b \in F : Calm(d, b) \/ Reacts(d, b)
        /\ c.op = "next_pending" => c.worker # None

(* The tables a rollback restores owe nothing, unless there can be none.   *)
Undoable ==
    \/ Owed(committed, {}, queued)
    \/ caller = "task" /\ \A c \in Frames(calls) : Harmless(db, c)

Debts ==
    /\ Owed(db, Frames(calls), on_commit \cup queued)
    /\ Reactions(db, Frames(calls))
    /\ Undoable

-----------------------------------------------------------------------------
(* Calls as sets of frames.                                                *)

LEMMA PushFrames ==
    ASSUME NEW T, NEW t \in Seq(T), NEW a
    PROVE  Frames(<<a>> \o t) = {a} \cup Frames(t)
<1> DEFINE u == <<a>> \o t
<1>1. /\ Len(t) \in Nat /\ DOMAIN t = 1..Len(t)
      /\ DOMAIN u = 1..(Len(t) + 1) /\ u[1] = a
      /\ \A k \in 1..(Len(t) + 1) : k # 1 =>
            k - 1 \in 1..Len(t) /\ u[k] = t[k - 1]
  BY PushFacts
<1> HIDE DEF u
<1>2. Frames(u) \subseteq {a} \cup Frames(t)
  BY <1>1 DEF Frames
<1>3. a \in Frames(u)
  BY <1>1 DEF Frames
<1>4. ASSUME NEW k \in DOMAIN t
      PROVE  t[k] \in Frames(u)
  <2>1. k + 1 \in DOMAIN u /\ k + 1 # 1 /\ (k + 1) - 1 = k
    BY <1>1
  <2>2. u[k + 1] = t[k]
    BY <1>1, <2>1
  <2> QED
    BY <2>1, <2>2 DEF Frames
<1>5. Frames(t) \subseteq Frames(u)
  BY <1>4 DEF Frames
<1> QED
  BY <1>2, <1>3, <1>5 DEF u

LEMMA FramesFacts ==
    ASSUME NEW S, NEW cs \in Seq(S)
    PROVE  /\ Frames(<<>>) = {}
           /\ Frames(cs) \subseteq S
           /\ \A a : Frames(<<a>> \o cs) = {a} \cup Frames(cs)
           /\ \A a, b : Frames(<<a, b>> \o cs) = {a, b} \cup Frames(cs)
           /\ \A a, b, c :
                Frames(<<a, b, c>> \o cs) = {a, b, c} \cup Frames(cs)
<1>1. Frames(<<>>) = {}
  BY DEF Frames
<1>2. Frames(cs) \subseteq S
  BY ElementOfSeq, LenProperties DEF Frames
<1>3. ASSUME NEW a, NEW b
      PROVE  Frames(<<a, b>> \o cs) = {a, b} \cup Frames(cs)
  <2>1. <<b>> \o cs \in Seq(S \cup {b})
    BY PushFacts
  <2>2. Frames(<<a>> \o (<<b>> \o cs)) = {a} \cup Frames(<<b>> \o cs)
    BY <2>1, PushFrames
  <2>3. Frames(<<b>> \o cs) = {b} \cup Frames(cs)
    BY PushFrames
  <2>4. <<a, b>> \o cs = <<a>> \o (<<b>> \o cs)
    BY PairFacts
  <2> QED
    BY <2>2, <2>3, <2>4
<1>4. ASSUME NEW a, NEW b, NEW c
      PROVE  Frames(<<a, b, c>> \o cs) = {a, b, c} \cup Frames(cs)
  <2>1. <<c>> \o cs \in Seq(S \cup {c})
    BY PushFacts
  <2>2. <<b>> \o (<<c>> \o cs) \in Seq(S \cup {c} \cup {b})
    BY <2>1, PushFacts
  <2>3. <<a, b>> \o (<<c>> \o cs) = <<a>> \o (<<b>> \o (<<c>> \o cs))
    <3> DEFINE t == <<c>> \o cs
               T == S \cup {c}
    <3>1. t \in Seq(T)
      BY <2>1
    <3> HIDE DEF t, T
    <3>2. <<a, b>> \o t = <<a>> \o (<<b>> \o t)
      BY <3>1, PairFacts
    <3> QED
      BY <3>2 DEF t
  <2>4. /\ Frames(<<a>> \o (<<b>> \o (<<c>> \o cs)))
             = {a} \cup Frames(<<b>> \o (<<c>> \o cs))
        /\ Frames(<<b>> \o (<<c>> \o cs)) = {b} \cup Frames(<<c>> \o cs)
        /\ Frames(<<c>> \o cs) = {c} \cup Frames(cs)
    BY <2>1, <2>2, PushFrames
  <2>5. Frames(<<a, b>> \o (<<c>> \o cs)) = {a} \cup ({b} \cup ({c} \cup Frames(cs)))
    BY <2>3, <2>4
  <2>6. <<a, b, c>> \o cs = <<a, b>> \o (<<c>> \o cs)
    BY TripleFacts
  <2>7. {a} \cup ({b} \cup ({c} \cup Frames(cs))) = {a, b, c} \cup Frames(cs)
    OBVIOUS
  <2> QED
    BY <2>5, <2>6, <2>7
<1> QED
  BY <1>1, <1>2, PushFrames, <1>3, <1>4

(* The frames of the running transaction.                                  *)
LEMMA TopFrames ==
    ASSUME Inv, ~AtRest
    PROVE  /\ Frames(calls) = {Top} \cup Frames(Rest)
           /\ Frames(calls) \subseteq Call(Len(db))
           /\ Rest \in Seq(Call(Len(db)))
<1>1. calls \in Seq(Call(Len(db))) /\ calls # <<>>
  BY DEF Inv, TypeOK, AtRest
<1>2. calls = <<Top>> \o Rest /\ Rest \in Seq(Call(Len(db)))
  BY <1>1, HeadTailProperties DEF Top, Rest
<1> QED
  BY <1>1, <1>2, FramesFacts

(* A call says of a row of a later table what it says of the row.          *)
LEMMA SameKind ==
    ASSUME NEW d, NEW e, IsTable(d), Later(d, e), NEW c \in Call(Len(d))
    PROVE  /\ Harmless(e, c) <=> Harmless(d, c)
           /\ Reacts(e, c) <=> Reacts(d, c)
           /\ Calm(e, c) <=> Calm(d, c)
           /\ c.op \in Methods => c.w \in 1..Len(d)
<1>1. c.op \in Methods => c.w \in 1..Len(d)
  BY DEF Call
<1>2. c.op \in {"mark_completed", "process_retry_with_delays"}
        => Type(e, c.w) = Type(d, c.w)
  BY <1>1 DEF Later, SameTask, Type, Entry, Methods
<1> QED
  BY <1>1, <1>2 DEF Harmless, Reacts, Calm

(* A workflow that is unfinished now was before, unless something began.   *)
LEMMA WasUnfinished ==
    ASSUME NEW d, NEW e, IsTable(d), Later(d, e), NEW p \in DOMAIN d,
           Unfinished(e, p),
           e[p].status = "running" => d[p].status = "running",
           \A i \in DOMAIN d :
              d[i].parent = p /\ InProgress(d, i) => InProgress(e, i)
    PROVE  /\ Unfinished(d, p) /\ Children(d, p) \subseteq Children(e, p)
           /\ Len(e) = Len(d) => Children(e, p) = Children(d, p)
<1>1. /\ Len(d) \in Nat /\ DOMAIN d = 1..Len(d)
      /\ Len(e) \in Nat /\ DOMAIN e = 1..Len(e)
      /\ Len(d) <= Len(e) /\ \A i \in 1..Len(d) : SameTask(d[i], e[i])
  BY TableFacts DEF Later
<1>2. \A i \in DOMAIN d : i \in DOMAIN e /\ e[i].parent = d[i].parent
  BY <1>1 DEF SameTask
<1>3. Type(d, p) = Type(e, p)
  BY <1>1 DEF SameTask, Type, Entry
<1>4. Children(d, p) \subseteq Children(e, p)
  BY <1>2 DEF Children
<1>5. ~has_children_in_progress(d, p)
  BY <1>2, <1>4 DEF Unfinished, has_children_in_progress, Children
<1>6. Len(e) = Len(d) => Children(e, p) = Children(d, p)
  BY <1>1, <1>2 DEF Children
<1> QED
  BY <1>3, <1>4, <1>5, <1>6 DEF Unfinished

-----------------------------------------------------------------------------
(* Steps of transactions.                                                  *)

(* The call on top is replaced by the calls N, and the table by d: they    *)
(* settle what it would have settled, and what the change brings.          *)
Pays(d, N, H) ==
    /\ \A p \in DOMAIN d : Unfinished(d, p) =>
         \/ Covered(d, N, H, p)
         \/ /\ p \in DOMAIN db /\ Unfinished(db, p)
            /\ Children(d, p) \subseteq Children(db, p)
            /\ ~Finishes(Top, p)
            /\ Starts(Top, p) /\ Children(d, p) = {} => \E c \in N : Starts(c, p)
    /\ Harmless(db, Top) => \A c \in N : Harmless(d, c)

(* No reaction is among them, and they do not disturb one.                 *)
Calms(d, N) ==
    /\ \A c \in N : ~Reacts(d, c) /\ (c.op = "next_pending" => c.worker # None)
    /\ Calm(db, Top) =>
         /\ \A c \in N : Calm(d, c)
         /\ \A q \in DOMAIN db : d[q].status = "running" => db[q].status = "running"

LEMMA StepReactions ==
    ASSUME History, Debts, ~AtRest, NEW d, Later(db, d), NEW N, Calms(d, N)
    PROVE  Reactions(d, N \cup Frames(Rest))
<1> DEFINE R == Frames(Rest)
<1>1. /\ Frames(calls) = {Top} \cup R /\ R \subseteq Call(Len(db))
      /\ IsTable(db) /\ DOMAIN db = 1..Len(db) /\ Len(db) \in Nat
      /\ Reactions(db, {Top} \cup R)
  BY TopFrames, InvFacts DEF History, Debts
<1>2. Reacts(db, Top) => \A c \in R : ~Reacts(db, c)
  <2>1. Above(db, Top, Rest)
    BY TopOK
  <2>2. Reacts(db, Top) => \A c \in R : c = CallFinish(db[Top.w].parent)
    BY <2>1 DEF Above, Over, Reacts, Frames
  <2>3. \A p : CallFinish(p).op = "maybe_finish_workflow"
    BY DEF CallFinish, Frame
  <2> QED
    BY <2>2, <2>3 DEF Reacts
<1> HIDE DEF R
<1>3. \A c \in R : /\ Reacts(d, c) <=> Reacts(db, c)
                   /\ Calm(d, c) <=> Calm(db, c)
                   /\ c.op \in Methods => c.w \in 1..Len(db)
  BY <1>1, SameKind
<1>4. ASSUME NEW c \in R, Reacts(d, c)
      PROVE  Current(d, c) /\ \A b \in N \cup R : Calm(d, b) \/ Reacts(d, b)
  <2>1. /\ Reacts(db, c) /\ Current(db, c)
        /\ \A b \in {Top} \cup R : Calm(db, b) \/ Reacts(db, b)
    BY <1>1, <1>3, <1>4 DEF Reactions
  <2>2. Calm(db, Top)
    BY <1>2, <2>1
  <2>3. \A b \in N \cup R : Calm(d, b) \/ Reacts(d, b)
    BY <1>3, <2>1, <2>2 DEF Calms
  <2>4. c.w \in 1..Len(db)
    BY <1>3, <2>1 DEF Reacts, Methods
  <2>5. d[c.w].parent = db[c.w].parent /\ db[c.w].parent \in 0..Len(db)
    <3>1. db[c.w] \in Row(Len(db)) /\ SameTask(db[c.w], d[c.w])
      BY <1>1, <2>4, TableFacts DEF Later
    <3> QED
      BY <3>1 DEF Row, SameTask
  <2>6. Current(d, c)
    <3> SUFFICES ASSUME d[c.w].parent # None, d[d[c.w].parent].status = "running"
                 PROVE  c.arg = "running"
      BY DEF Current
    <3>1. db[c.w].parent \in DOMAIN db
      BY <1>1, <2>5
    <3>2. db[db[c.w].parent].status = "running"
      BY <2>2, <2>5, <3>1 DEF Calms
    <3> QED
      BY <2>1, <2>5, <3>2 DEF Current
  <2> QED
    BY <2>3, <2>6
<1>5. \A c \in R : c.op = "next_pending" => c.worker # None
  BY <1>1 DEF Reactions
<1>6. Reactions(d, N \cup R)
  BY <1>4, <1>5 DEF Reactions, Calms
<1> QED
  BY <1>6 DEF R

LEMMA StepDebts ==
    ASSUME History, Debts, ~AtRest, NEW d, Later(db, d), NEW cs, NEW N, NEW H,
           Frames(cs) = N \cup Frames(Rest), on_commit \subseteq H,
           ContinueWith(d, cs, H), Pays(d, N, H),
           Reactions(d, N \cup Frames(Rest))
    PROVE  Debts'
<1> DEFINE R == Frames(Rest)
<1>1. /\ Frames(calls) = {Top} \cup R /\ R \subseteq Call(Len(db))
      /\ IsTable(db) /\ DOMAIN db = 1..Len(db) /\ Len(db) \in Nat
      /\ Owed(db, {Top} \cup R, on_commit \cup queued)
  BY TopFrames, InvFacts DEF History, Debts
<1>2. /\ db' = d /\ calls' = cs /\ on_commit' \cup queued' = H \cup queued
      /\ cs = <<>> => committed' = d /\ on_commit' = {}
      /\ cs # <<>> => /\ committed' = committed /\ queued' = queued
                      /\ caller' = caller
  BY DEF ContinueWith, Proceed
<1>3. Frames(calls') = N \cup R
  BY <1>2
<1>4. Reactions(db', Frames(calls'))
  BY <1>2, <1>3
<1> HIDE DEF R
<1>5. Owed(d, N \cup R, H \cup queued)
  <2> SUFFICES ASSUME NEW p \in DOMAIN d, Unfinished(d, p)
               PROVE  Covered(d, N \cup R, H \cup queued, p)
    BY DEF Owed
  <2>1. CASE Covered(d, N, H, p)
    BY <2>1 DEF Covered
  <2>2. CASE /\ p \in DOMAIN db /\ Unfinished(db, p)
             /\ Children(d, p) \subseteq Children(db, p)
             /\ ~Finishes(Top, p)
             /\ Starts(Top, p) /\ Children(d, p) = {}
                  => \E c \in N : Starts(c, p)
    <3>1. Covered(db, {Top} \cup R, on_commit \cup queued, p)
      BY <1>1, <2>2 DEF Owed
    <3>2. CASE \E c \in {Top} \cup R : Finishes(c, p)
      BY <2>2, <3>2 DEF Covered
    <3>3. CASE /\ Children(db, p) = {}
               /\ \/ p \in on_commit \cup queued
                  \/ \E c \in {Top} \cup R : Starts(c, p)
      BY <2>2, <3>3 DEF Covered
    <3> QED
      BY <3>1, <3>2, <3>3 DEF Covered
  <2> QED
    BY <2>1, <2>2 DEF Pays
<1>6. Undoable'
  <2>1. CASE cs = <<>>
    <3>1. N \cup R = {}
      BY <2>1, <1>2, <1>3, FramesFacts DEF Frames
    <3>2. H \cup queued = queued'
      BY <1>2, <2>1
    <3>3. Owed(d, {}, queued')
      BY <1>5, <3>1, <3>2
    <3> QED
      BY <1>2, <2>1, <3>3 DEF Undoable
  <2>2. CASE cs # <<>> /\ Owed(committed, {}, queued)
    BY <1>2, <2>2 DEF Undoable
  <2>3. CASE cs # <<>> /\ caller = "task"
             /\ \A c \in {Top} \cup R : Harmless(db, c)
    <3>1. \A c \in R : Harmless(d, c)
      BY <1>1, <2>3, SameKind
    <3>2. \A c \in N \cup R : Harmless(d, c)
      BY <2>3, <3>1 DEF Pays
    <3> QED
      BY <1>2, <1>3, <2>3, <3>2 DEF Undoable
  <2> QED
    BY <1>1, <2>1, <2>2, <2>3 DEF Debts, Undoable
<1>7. Owed(db', Frames(calls'), on_commit' \cup queued')
  BY <1>2, <1>3, <1>5
<1> QED
  BY <1>4, <1>6, <1>7 DEF Debts

(* A method that goes on.                                                  *)
LEMMA ContinueDebts ==
    ASSUME History, Debts, ~AtRest, NEW d, Later(db, d), NEW cs, NEW N,
           Frames(cs) = N \cup Frames(Rest), Continue(d, cs),
           Pays(d, N, on_commit), Calms(d, N)
    PROVE  Debts'
  BY StepReactions, StepDebts DEF Continue

LEMMA PopDebts ==
    ASSUME History, Debts, ~AtRest, NEW d, Later(db, d), Continue(d, Rest),
           Pays(d, {}, on_commit), Calms(d, {})
    PROVE  Debts'
<1>1. Frames(Rest) = {} \cup Frames(Rest)
  OBVIOUS
<1> QED
  BY <1>1, ContinueDebts

LEMMA PushDebts ==
    ASSUME History, Debts, ~AtRest, NEW d, Later(db, d), NEW a, NEW b,
           \/ Continue(d, <<a, b>> \o Rest)
           \/ a = b /\ Continue(d, <<a>> \o Rest),
           Pays(d, {a, b}, on_commit), Calms(d, {a, b})
    PROVE  Debts'
<1>1. /\ Frames(<<a, b>> \o Rest) = {a, b} \cup Frames(Rest)
      /\ Frames(<<a>> \o Rest) = {a} \cup Frames(Rest)
  BY TopFrames, FramesFacts DEF History
<1> QED
  BY <1>1, ContinueDebts

(* A rollback.                                                             *)
LEMMA RaiseDebts ==
    ASSUME History, Debts, ~AtRest, Raise,
           caller = "task" => ~Harmless(db, Top)
    PROVE  Debts'
<1>1. Top \in Frames(calls)
  BY TopFrames DEF History
<1>2. Owed(committed, {}, queued)
  BY <1>1 DEF Debts, Undoable
<1>3. /\ db' = committed /\ committed' = committed /\ Frames(calls') = {}
      /\ on_commit' \cup queued' = queued /\ queued' = queued
  BY DEF Raise, Frames
<1>4. Reactions(committed, {})
  BY DEF Reactions
<1> QED
  BY <1>2, <1>3, <1>4 DEF Debts, Undoable

(* A method that creates no row and begins nothing.                        *)
LEMMA KeptPays ==
    ASSUME History, ~AtRest, NEW d, Keeps(db, d), Later(db, d), NEW N, NEW H,
           Harmless(db, Top) => \A c \in N : Harmless(d, c),
           \A p \in DOMAIN db : Type(db, p) = "Workflow" =>
              \/ d[p].status # "running"
              \/ Covered(d, N, H, p)
              \/ /\ db[p].status = "running"
                 /\ \A i \in DOMAIN db :
                       db[i].parent = p /\ InProgress(db, i) => InProgress(d, i)
                 /\ ~Finishes(Top, p) /\ ~Starts(Top, p)
    PROVE  Pays(d, N, H)
<1>1. /\ IsTable(db) /\ DOMAIN db = 1..Len(db) /\ Len(d) = Len(db)
      /\ DOMAIN d = DOMAIN db
  BY InvFacts, TableFacts DEF History, Keeps
<1> SUFFICES ASSUME NEW p \in DOMAIN d, Unfinished(d, p), ~Covered(d, N, H, p)
             PROVE  /\ p \in DOMAIN db /\ Unfinished(db, p)
                    /\ Children(d, p) \subseteq Children(db, p)
                    /\ ~Finishes(Top, p) /\ ~Starts(Top, p)
  BY DEF Pays
<1>2. p \in DOMAIN db /\ d[p].status = "running" /\ Type(db, p) = "Workflow"
  BY <1>1 DEF Unfinished, Later, SameTask, Type, Entry
<1>3. /\ db[p].status = "running"
      /\ \A i \in DOMAIN db :
            db[i].parent = p /\ InProgress(db, i) => InProgress(d, i)
      /\ ~Finishes(Top, p) /\ ~Starts(Top, p)
  BY <1>2
<1>4. Unfinished(db, p) /\ Children(d, p) = Children(db, p)
  BY <1>1, <1>2, <1>3, WasUnfinished
<1> QED
  BY <1>2, <1>3, <1>4

(* A method that leaves the table alone.                                   *)
LEMMA SamePays ==
    ASSUME History, ~AtRest, NEW N, NEW H,
           Harmless(db, Top) => \A c \in N : Harmless(db, c),
           \A p \in DOMAIN db :
              Unfinished(db, p) => \/ Covered(db, N, H, p)
                                   \/ ~Finishes(Top, p) /\ ~Starts(Top, p)
    PROVE  Pays(db, N, H)
  BY DEF Pays

LEMMA MarkAbortedDebts ==
    ASSUME History, Debts, mark_aborted
    PROVE  Debts'
<1> DEFINE d == Set(db, Top.w, "aborted")
           a == Frame("unblock_reverse_dependencies", Top.w, {}, "")
           b == CallFinish(db[Top.w].parent)
           N == {a, b}
<1>1. /\ ~AtRest /\ Top.op = "mark_aborted" /\ Top.w \in DOMAIN db
      /\ Continue(d, <<a, b>> \o Rest) /\ IsTable(db) /\ Sound(db)
  BY TopFacts, InvFacts DEF mark_aborted, Methods, History
<1>2. Later(db, d) /\ Keeps(db, d)
  <2>1. "aborted" \in Statuses \ Waiting
    BY DEF Statuses, Waiting
  <2>2. ~Superseded(db, Top.w)
        /\ (Type(db, Top.w) # "Workflow" => db[Top.w].status # "completed")
    BY <1>1, TopOK DEF FrameOK, Mentions
  <2> QED
    BY <1>1, <2>1, <2>2, SetAllows, AllowsSound
<1>3. \A i \in DOMAIN db :
        d[i].status = IF i = Top.w THEN "aborted" ELSE db[i].status
  <2>1. IsTable(db)
    BY <1>1
  <2> QED
    BY <2>1, SetFacts
<1>4. /\ a.op = "unblock_reverse_dependencies"
      /\ b.op = "maybe_finish_workflow" /\ b.w = db[Top.w].parent
  BY DEF Frame, CallFinish
<1> HIDE DEF a, b, d
<1>5. Pays(d, N, on_commit)
  <2>1. \A p \in DOMAIN db : Type(db, p) = "Workflow" =>
          \/ d[p].status # "running"
          \/ Covered(d, N, on_commit, p)
          \/ /\ db[p].status = "running"
             /\ \A i \in DOMAIN db :
                   db[i].parent = p /\ InProgress(db, i) => InProgress(d, i)
             /\ ~Finishes(Top, p) /\ ~Starts(Top, p)
    BY <1>1, <1>3, <1>4 DEF Covered, Finishes, Starts, InProgress
  <2>2. \A c \in N : Harmless(d, c)
    BY <1>4 DEF Harmless
  <2> QED
    BY <1>1, <1>2, <2>1, <2>2, KeptPays
<1>6. Calms(d, N)
  BY <1>3, <1>4 DEF Calms, Calm, Reacts
<1> QED
  BY <1>1, <1>2, <1>5, <1>6, PushDebts

LEMMA AbortEachDebts ==
    ASSUME History, Debts, abort_each
    PROVE  Debts'
<1>1. /\ ~AtRest /\ Top.op = "abort_each" /\ Top.set \subseteq DOMAIN db
      /\ IsTable(db) /\ Sound(db) /\ Later(db, db)
  BY TopFacts, InvFacts, TopOK DEF abort_each, Loops, History
<1>2. CASE Top.set = {} /\ Continue(db, Rest)
  <2>1. Pays(db, {}, on_commit)
    BY <1>1, <1>2, SamePays DEF Finishes, Starts
  <2>2. Calms(db, {})
    BY DEF Calms
  <2> QED
    BY <1>1, <1>2, <2>1, <2>2, PopDebts
<1>3. ASSUME NEW i \in Top.set,
             Continue(IF Top.arg = "manual" THEN [db EXCEPT ![i].worker = None]
                                            ELSE db,
                      <<CallMarkAborted(i),
                        Frame("abort_each", 0, Top.set \ {i}, Top.arg)>>
                      \o Rest)
      PROVE  Debts'
  <2> DEFINE e == [db EXCEPT ![i].worker = None]
             d == IF Top.arg = "manual" THEN e ELSE db
             a == CallMarkAborted(i)
             b == Frame("abort_each", 0, Top.set \ {i}, Top.arg)
             N == {a, b}
  <2>1. Continue(d, <<a, b>> \o Rest)
    BY <1>3
  <2>2. Later(db, e) /\ Keeps(db, e)
    BY <1>1, SetWorkerAllows, AllowsSound
  <2>3. \A j \in DOMAIN db : e[j].status = db[j].status
    <3>1. \A j \in DOMAIN db : db[j] \in Row(Len(db))
      BY <1>1, TableFacts
    <3> QED
      BY <3>1 DEF Row
  <2> HIDE DEF e
  <2>4. /\ Later(db, d) /\ Keeps(db, d)
        /\ \A j \in DOMAIN db : d[j].status = db[j].status
    BY <1>1, <2>2, <2>3, KeepsReflexive
  <2>5. /\ a.op = "mark_aborted" /\ a.w = i
        /\ b.op = "abort_each" /\ b.set = Top.set \ {i}
    BY DEF CallMarkAborted, Frame
  <2> HIDE DEF a, b, d
  <2>6. Pays(d, N, on_commit)
    <3>1. \A p \in DOMAIN db : Finishes(Top, p) => \E c \in N : Finishes(c, p)
      BY <1>1, <2>5 DEF Finishes
    <3>2. \A p \in DOMAIN db : Type(db, p) = "Workflow" =>
            \/ d[p].status # "running"
            \/ Covered(d, N, on_commit, p)
            \/ /\ db[p].status = "running"
               /\ \A j \in DOMAIN db :
                     db[j].parent = p /\ InProgress(db, j) => InProgress(d, j)
               /\ ~Finishes(Top, p) /\ ~Starts(Top, p)
      BY <1>1, <2>4, <3>1 DEF Covered, Starts, InProgress
    <3>3. \A c \in N : Harmless(d, c)
      BY <2>5 DEF Harmless
    <3> QED
      BY <1>1, <2>4, <3>2, <3>3, KeptPays
  <2>7. Calms(d, N)
    BY <2>4, <2>5 DEF Calms, Calm, Reacts
  <2> QED
    BY <1>1, <2>1, <2>4, <2>6, <2>7, PushDebts
<1> QED
  BY <1>2, <1>3 DEF abort_each

LEMMA MaybeFinishWorkflowDebts ==
    ASSUME History, Debts, maybe_finish_workflow
    PROVE  Debts'
<1> DEFINE p == Top.w
<1>1. /\ ~AtRest /\ Top.op = "maybe_finish_workflow" /\ p \in 0..Len(db)
      /\ IsTable(db) /\ Later(db, db) /\ DOMAIN db = 1..Len(db)
      /\ Len(db) \in Nat /\ Rest \in Seq(Call(Len(db)))
  BY TopFacts, InvFacts, TopOK DEF maybe_finish_workflow, History
<1>2. CASE /\ \/ p = None \/ Type(db, p) # "Workflow"
              \/ db[p].status # "running" \/ has_children_in_progress(db, p)
           /\ Continue(db, Rest)
  <2>1. Pays(db, {}, on_commit)
    <3>1. \A q \in DOMAIN db : Unfinished(db, q) =>
            ~Finishes(Top, q) /\ ~Starts(Top, q)
      BY <1>1, <1>2 DEF Finishes, Starts, Unfinished
    <3> QED
      BY <1>1, <3>1, SamePays
  <2>2. Calms(db, {})
    BY DEF Calms
  <2> QED
    BY <1>1, <1>2, <2>1, <2>2, PopDebts
<1>3. ASSUME p # None, Type(db, p) = "Workflow",
             NEW c, Continue(db, <<c>> \o Rest),
             c.op \in {"mark_aborted", "mark_completed"}, c.w = p
      PROVE  Debts'
  <2>1. {c, c} = {c}
    OBVIOUS
  <2>2. Pays(db, {c}, on_commit)
    <3>1. \A q \in DOMAIN db :
            \/ Finishes(c, q)
            \/ ~Finishes(Top, q) /\ ~Starts(Top, q)
      BY <1>1, <1>3 DEF Finishes, Starts
    <3>2. Harmless(db, c)
      BY <1>3 DEF Harmless
    <3> QED
      BY <1>1, <3>1, <3>2, SamePays DEF Covered
  <2>3. Calms(db, {c})
    BY <1>3 DEF Calms, Calm, Reacts
  <2> QED
    BY <1>1, <1>3, <2>1, <2>2, <2>3, PushDebts
<1>4. /\ CallMarkAborted(p).op = "mark_aborted" /\ CallMarkAborted(p).w = p
      /\ \A res : /\ CallMarkCompleted(p, res).op = "mark_completed"
                  /\ CallMarkCompleted(p, res).w = p
  BY DEF CallMarkAborted, CallMarkCompleted, Frame
<1> HIDE DEF p
<1> QED
  BY <1>2, <1>3, <1>4 DEF maybe_finish_workflow, p

(* With new children of p0 only, nothing else becomes unfinished.          *)
LEMMA SteadyUnfinished ==
    ASSUME NEW d, NEW e, IsTable(d), Later(d, e), NEW p0, Steady(d, e, p0),
           \A j \in DOMAIN e \ DOMAIN d :
              /\ e[j].parent = p0
              /\ Type(e, j) = "Workflow" => e[j].status # "running",
           p0 # None => \E j \in DOMAIN e : e[j].parent = p0 /\ InProgress(e, j),
           NEW p \in DOMAIN e, Unfinished(e, p)
    PROVE  /\ p \in DOMAIN d /\ p # p0 /\ Unfinished(d, p)
           /\ Children(e, p) = Children(d, p)
<1>1. /\ Len(d) \in Nat /\ DOMAIN d = 1..Len(d) /\ IsTable(e)
      /\ Len(e) \in Nat /\ DOMAIN e = 1..Len(e)
      /\ Len(d) <= Len(e) /\ \A j \in 1..Len(d) : SameTask(d[j], e[j])
  BY TableFacts DEF Later
<1>2. p \in DOMAIN d
  BY DEF Unfinished
<1>3. p # p0
  <2>1. CASE p = p0
    <3>1. p0 # None
      BY <1>1, <2>1
    <3>2. PICK j \in DOMAIN e : e[j].parent = p0 /\ InProgress(e, j)
      BY <3>1
    <3>3. j \in Children(e, p)
      BY <2>1, <3>2 DEF Children
    <3> QED
      BY <3>2, <3>3 DEF Unfinished, has_children_in_progress
  <2> QED
    BY <2>1
<1>4. Unfinished(d, p) /\ Children(d, p) \subseteq Children(e, p)
  <2>1. e[p].status = "running" => d[p].status = "running"
    BY <1>2, <1>3 DEF Steady
  <2>2. \A j \in DOMAIN d :
          d[j].parent = p /\ InProgress(d, j) => InProgress(e, j)
    BY DEF Steady
  <2> QED
    BY <1>2, <2>1, <2>2, WasUnfinished
<1>5. Children(e, p) \subseteq Children(d, p)
  <2>1. \A j \in DOMAIN e : e[j].parent = p => j \in DOMAIN d /\ d[j].parent = p
    BY <1>1, <1>3 DEF SameTask
  <2> QED
    BY <2>1 DEF Children
<1> QED
  BY <1>2, <1>3, <1>4, <1>5

-----------------------------------------------------------------------------
(* The methods that end, unblock and retry.                                *)

LEMMA MarkCompletedDebts ==
    ASSUME History, Debts, mark_completed
    PROVE  Debts'
<1> DEFINE i == Top.w
           p == db[i].parent
           a == Frame("unblock_reverse_dependencies", i, {}, "")
           b == Frame("process_retry_with_delays", i, {}, db[p].status)
           c == CallFinish(p)
           d == [db EXCEPT ![i].status = "completed", ![i].result = Top.arg]
           reaction == IF Top.arg \in {"failure", "error"} /\ p # None
                       THEN <<b>> ELSE <<>>
           cs == <<a>> \o reaction \o <<c>> \o Rest
           N == {a, c} \cup Frames(reaction)
<1>1. /\ ~AtRest /\ Top.op = "mark_completed" /\ i \in DOMAIN db
      /\ Top.arg \in Results /\ Sound(db) /\ Rest \in Seq(Call(Len(db)))
      /\ Later(db, db)
  BY TopFacts, InvFacts, TopOK DEF mark_completed, Methods, History
<1>2. IsTable(db) /\ DOMAIN db = 1..Len(db) /\ Len(db) \in Nat
  BY InvFacts DEF History
<1>3. CASE db[i].status \notin {"pending", "running"} /\ Continue(db, Rest)
  <2>1. \A q \in DOMAIN db : Unfinished(db, q) =>
          ~Finishes(Top, q) /\ ~Starts(Top, q)
    BY <1>1, <1>3 DEF Finishes, Starts, Unfinished
  <2>2. Pays(db, {}, on_commit) /\ Calms(db, {})
    BY <1>1, <2>1, SamePays DEF Calms
  <2> QED
    BY <1>1, <1>3, <2>2, PopDebts
<1>4. CASE db[i].status \in {"pending", "running"} /\ Continue(d, cs)
  <2>1. ~Superseded(db, i)
    BY <1>1, <1>4, NotSuperseded DEF InProgress
  <2>2. Later(db, d) /\ Keeps(db, d)
    <3>1. "completed" \in Statuses \ Waiting
      BY DEF Statuses, Waiting
    <3> QED
      BY <1>1, <1>2, <2>1, <3>1, FinishAllows, AllowsSound
  <2>3. \A j \in DOMAIN db :
          d[j].status = IF j = i THEN "completed" ELSE db[j].status
    <3>1. \A j \in DOMAIN db : db[j] \in Row(Len(db))
      BY <1>2, TableFacts
    <3> QED
      BY <3>1 DEF Row
  <2>4. /\ a.op = "unblock_reverse_dependencies"
        /\ b.op = "process_retry_with_delays" /\ b.w = i /\ b.arg = db[p].status
        /\ c.op = "maybe_finish_workflow" /\ c.w = p
    BY DEF Frame, CallFinish
  <2>5. Type(d, i) = Type(db, i) /\ d[i].parent = p
    <3> HIDE DEF d
    <3>1. SameTask(db[i], d[i])
      BY <1>1, <1>2, <2>2, TableFacts DEF Keeps
    <3> QED
      BY <3>1 DEF SameTask, Type, Entry
  <2>6. p \in 0..Len(db)
    BY <1>1, <1>2, TableFacts DEF Row
  <2>7. reaction = <<>> \/ (p # None /\ reaction = <<b>>)
    OBVIOUS
  <2> HIDE DEF a, b, c, d, reaction, p
  <2>8. /\ Frames(cs) = N \cup Frames(Rest)
        /\ Frames(reaction) \subseteq {b}
    <3>1. reaction \in Seq({b}) /\ Frames(reaction) \subseteq {b}
      <4>1. <<b>> \in Seq({b}) /\ <<>> \in Seq({b})
        BY EmptySeq
      <4>2. reaction \in Seq({b})
        BY <2>7, <4>1, Zenon
      <4> QED
        BY <4>2, FramesFacts
    <3>2. cs = <<a>> \o (reaction \o (<<c>> \o Rest))
      <4> DEFINE S == Call(Len(db))
                 T == {b}
      <4>1. Rest \in Seq(S)
        BY <1>1
      <4>2. reaction \in Seq(T)
        BY <3>1
      <4> HIDE DEF S, T
      <4>3. <<a>> \o reaction \o <<c>> \o Rest
              = <<a>> \o (reaction \o (<<c>> \o Rest))
        BY <4>1, <4>2, SpliceFacts
      <4> QED
        BY <4>3
    <3> DEFINE t == <<c>> \o Rest
               u == <<b>> \o t
    <3>3. t \in Seq(Call(Len(db)) \cup {c})
      BY <1>1, PushFacts
    <3>4. Frames(t) = {c} \cup Frames(Rest)
      BY <1>1, PushFrames
    <3> HIDE DEF t
    <3>5. CASE reaction = <<>>
      <4>1. cs = <<a>> \o t
        BY <3>2, <3>3, <3>5, ConcatEmptySeq DEF t
      <4>2. Frames(<<a>> \o t) = {a} \cup ({c} \cup Frames(Rest))
        BY <3>3, <3>4, PushFrames
      <4>3. Frames(reaction) = {}
        BY <3>5 DEF Frames
      <4> QED
        BY <3>1, <4>1, <4>2, <4>3
    <3>6. CASE reaction = <<b>>
      <4>1. cs = <<a>> \o u
        BY <3>2, <3>6 DEF t
      <4>2. /\ u \in Seq(Call(Len(db)) \cup {c} \cup {b})
            /\ Frames(u) = {b} \cup ({c} \cup Frames(Rest))
        BY <3>3, <3>4, PushFacts, PushFrames
      <4> HIDE DEF u
      <4>3. Frames(<<a>> \o u) = {a} \cup Frames(u)
        BY <4>2, PushFrames
      <4>4. Frames(reaction) = {b}
        BY <3>6 DEF Frames
      <4>5. Frames(cs) = {a} \cup ({b} \cup ({c} \cup Frames(Rest)))
        BY <4>1, <4>2, <4>3
      <4> QED
        BY <3>1, <4>4, <4>5
    <3> QED
      BY <2>7, <3>5, <3>6
  <2>9. Pays(d, N, on_commit)
    <3>1. \A q \in DOMAIN db : Type(db, q) = "Workflow" =>
            \/ d[q].status # "running"
            \/ Covered(d, N, on_commit, q)
            \/ /\ db[q].status = "running"
               /\ \A j \in DOMAIN db :
                     db[j].parent = q /\ InProgress(db, j) => InProgress(d, j)
               /\ ~Finishes(Top, q) /\ ~Starts(Top, q)
      BY <1>1, <2>3, <2>4 DEF Covered, Finishes, Starts, InProgress, p
    <3>2. Harmless(db, Top) => \A x \in N : Harmless(d, x)
      BY <1>1, <2>4, <2>5, <2>8 DEF Harmless
    <3> QED
      BY <1>1, <2>2, <3>1, <3>2, KeptPays
  <2>10. Reactions(d, N \cup Frames(Rest))
    <3>1. CASE Type(db, i) # "Worker"
      <4>1. Calms(d, N)
        <5>1. \A x \in N : ~Reacts(d, x) /\ x.op # "next_pending"
          BY <2>4, <2>5, <2>8, <3>1 DEF Reacts
        <5>2. Calm(db, Top) => \A x \in N : Calm(d, x)
          BY <1>1, <2>4, <2>5, <2>8 DEF Calm
        <5> QED
          BY <2>3, <5>1, <5>2 DEF Calms
      <4> QED
        BY <1>1, <2>2, <4>1, StepReactions
    <3>2. CASE Type(db, i) = "Worker"
      <4>1. \A x \in Frames(Rest) : x.op = "maybe_finish_workflow"
        <5>1. \A x \in Frames(Rest) : x = CallFinish(p)
          BY <1>1, <3>2, TopOK DEF Above, Over, Frames, p
        <5> QED
          BY <2>4, <5>1 DEF c
      <4>2. \A x \in N \cup Frames(Rest) : x = b \/ (Calm(d, x) /\ ~Reacts(d, x))
        BY <2>4, <2>8, <4>1 DEF Calm, Reacts
      <4>3. Reacts(d, b) /\ Current(d, b)
        <5>1. p # None /\ d[p].status = "running" => db[p].status = "running"
          BY <1>2, <2>3, <2>6
        <5> QED
          BY <2>4, <2>5, <3>2, <5>1 DEF Reacts, Current
      <4>4. \A x \in N \cup Frames(Rest) : x.op # "next_pending"
        BY <2>4, <2>8, <4>1
      <4> QED
        BY <4>2, <4>3, <4>4 DEF Reactions
    <3> QED
      BY <3>1, <3>2
  <2>11. ContinueWith(d, cs, on_commit)
    BY <1>4 DEF Continue
  <2> HIDE DEF cs, N
  <2> QED
    BY <1>1, <2>2, <2>8, <2>9, <2>10, <2>11, StepDebts
<1> QED
  BY <1>3, <1>4 DEF mark_completed

(* A method that unblocks, and calls nothing.                              *)
LEMMA SteadyDebts ==
    ASSUME History, Debts, ~AtRest, NEW d, Keeps(db, d), Later(db, d),
           Steady(db, d, None), Continue(d, Rest),
           \A p \in DOMAIN db : /\ ~Finishes(Top, p)
                                /\ Starts(Top, p) => Children(db, p) # {}
    PROVE  Debts'
<1>1. IsTable(db) /\ DOMAIN db = 1..Len(db) /\ DOMAIN d = DOMAIN db
  BY InvFacts, TableFacts DEF History, Keeps
<1>2. ASSUME NEW p \in DOMAIN d, Unfinished(d, p)
      PROVE  p \in DOMAIN db /\ Unfinished(db, p) /\ Children(d, p) = Children(db, p)
  BY <1>1, <1>2, SteadyUnfinished
<1>3. Pays(d, {}, on_commit)
  BY <1>1, <1>2 DEF Pays
<1>4. Calms(d, {})
  <2>1. \A q \in DOMAIN db : q # None
    BY <1>1
  <2> QED
    BY <2>1 DEF Calms, Steady
<1> QED
  BY <1>3, <1>4, PopDebts

LEMMA UnblockReverseDependenciesDebts ==
    ASSUME History, Debts, unblock_reverse_dependencies
    PROVE  Debts'
<1> DEFINE rdeps == reverse_dependencies(db, Top.w)
           S == {j \in rdeps : can_be_automatically_unblocked(db, j)}
           B == {j \in rdeps : db[j].status = "blocked"}
           d == mark_pending(db, S)
           c == Frame("abort_each", 0, B, "")
<1>1. /\ ~AtRest /\ Sound(db) /\ Top.op = "unblock_reverse_dependencies"
      /\ Later(db, db) /\ \A p : ~Finishes(Top, p) /\ ~Starts(Top, p)
  BY TopOK DEF unblock_reverse_dependencies, Finishes, Starts
<1>2. IsTable(db)
  BY InvFacts DEF History
<1>3. ASSUME Continue(d, Rest) PROVE Debts'
  <2>1. \A j \in S \cap DOMAIN db :
            /\ db[j].status = "blocked"
            /\ Entry(db, j).unblock_strategy = "deps" =>
                  \A k \in db[j].deps : db[k].status = "completed"
    BY DEF can_be_automatically_unblocked, can_be_unblocked
  <2> HIDE DEF S
  <2>2. Later(db, d) /\ Keeps(db, d)
    BY <1>1, <1>2, <2>1, MarkPendingAllows, AllowsSound
  <2>3. Steady(db, d, None)
    BY <1>2, <2>1, MarkPendingSteady
  <2> HIDE DEF d
  <2> QED
    BY <1>1, <1>3, <2>2, <2>3, SteadyDebts
<1>4. ASSUME Continue(db, <<c>> \o Rest) PROVE Debts'
  <2>1. c.op = "abort_each" /\ {c, c} = {c}
    BY DEF Frame
  <2> HIDE DEF c
  <2>2. Pays(db, {c}, on_commit)
    BY <1>1, <2>1, SamePays DEF Harmless
  <2>3. Calms(db, {c})
    BY <2>1 DEF Calms, Calm, Reacts
  <2> QED
    BY <1>1, <1>4, <2>1, <2>2, <2>3, PushDebts
<1> QED
  BY <1>3, <1>4 DEF unblock_reverse_dependencies

(* The except and finally clauses finish what the calls would have.        *)
LEMMA UnwoundDebts ==
    ASSUME History, Debts, ~AtRest, Top.op \in {"retry", "orchestrate"},
           Continue(db, Unwound)
    PROVE  Debts'
<1> DEFINE F == Frames(calls)
           G == Frames(Unwound)
<1>1. F = {Top} \cup Frames(Rest) /\ Quiet(Rest)
  BY TopFrames, TopOK DEF History, Settles
<1>2. G = {Handler(c) : c \in F} /\ Unwound # <<>>
  <2>1. DOMAIN Unwound = DOMAIN calls
        /\ \A k \in DOMAIN calls : Unwound[k] = Handler(calls[k])
    BY DEF Unwound
  <2>2. Top \in F
    BY <1>1
  <2>3. DOMAIN calls # {}
    BY <2>2 DEF Frames
  <2> HIDE DEF Unwound
  <2> QED
    BY <2>1, <2>3 DEF Frames
<1>3. /\ db' = db /\ calls' = Unwound /\ caller' = caller
      /\ committed' = committed /\ on_commit' = on_commit /\ queued' = queued
  BY <1>2 DEF Continue, ContinueWith, Proceed
<1>4. \A c \in F : c.op = "orchestrate" => Type(db, c.w) \in {"Workflow", "Callback"}
  BY DEF History, CallsOK, FrameOK, Frames
<1>5. \A c \in Frames(Rest) : Mentions(c) = {} /\ c.op # "mark_completed"
  BY <1>1 DEF Quiet, Frames
<1> HIDE DEF F, G
<1>6. ASSUME NEW c \in F
      PROVE  /\ c.op = "orchestrate" => /\ Handler(c).op = "mark_completed"
                                        /\ Handler(c).w = c.w
             /\ c.op # "orchestrate" => Handler(c).op = "maybe_finish_workflow"
             /\ c.op = "maybe_finish_workflow" => Handler(c) = c
  <2>1. /\ CallMarkCompleted(c.w, "error").op = "mark_completed"
        /\ CallMarkCompleted(c.w, "error").w = c.w
        /\ CallFinish(None).op = "maybe_finish_workflow"
    BY DEF CallMarkCompleted, CallFinish, Frame
  <2> QED
    BY <2>1 DEF Handler
<1>7. \A x \in G : Harmless(db, x) /\ ~Reacts(db, x) /\ x.op # "next_pending"
  BY <1>2, <1>4, <1>6 DEF Harmless, Reacts
<1>8. ASSUME NEW c \in F, NEW p, Finishes(c, p) \/ Starts(c, p)
      PROVE  Finishes(Handler(c), p)
  <2>1. c.op \in {"orchestrate", "maybe_finish_workflow"} /\ c.w = p
    BY <1>1, <1>5, <1>8 DEF Finishes, Starts, Mentions
  <2> QED
    BY <1>6, <2>1 DEF Finishes
<1>9. Owed(db, G, on_commit \cup queued)
  <2> SUFFICES ASSUME NEW p \in DOMAIN db, Unfinished(db, p)
               PROVE  Covered(db, G, on_commit \cup queued, p)
    BY DEF Owed
  <2>1. Covered(db, F, on_commit \cup queued, p)
    BY DEF Debts, Owed, F
  <2> QED
    BY <1>2, <1>8, <2>1 DEF Covered
<1>10. Reactions(db, G)
  BY <1>7 DEF Reactions
<1>11. G = Frames(calls')
  BY <1>3 DEF G
<1>12. Undoable'
  BY <1>3, <1>7, <1>11 DEF Debts, Undoable
<1> QED
  BY <1>3, <1>9, <1>10, <1>11, <1>12 DEF Debts

(* A retry of a task.                                                      *)
LEMMA SupersedeDebts ==
    ASSUME History, Debts, ~AtRest, NEW i, Retriable(db, i), NEW reason,
           Top.op \in {"retry", "retry_lost"},
           Continue(retry_supersede(db, i, reason), Rest)
    PROVE  Debts'
<1> DEFINE d == retry_supersede(db, i, reason)
           n == Len(db) + 1
<1>1. /\ IsTable(db) /\ IsChain(db) /\ Sound(db) /\ i \in 1..Len(db)
      /\ DOMAIN db = 1..Len(db) /\ Len(db) \in Nat /\ db[i] \in Row(Len(db))
  BY InvFacts, TableFacts DEF History, Retriable
<1>2. /\ Later(db, d) /\ Len(d) = n /\ InProgress(d, n)
      /\ SameTask([db[i] EXCEPT !.supersedes = i], d[n])
  BY <1>1, SupersedeSound
<1>3. Steady(db, d, db[i].parent)
  BY <1>1, SupersedeSteady
<1>4. Continue(d, Rest)
  OBVIOUS
<1> HIDE DEF d
<1>5. DOMAIN d = 1..n /\ DOMAIN d \ DOMAIN db = {n} /\ n \in DOMAIN d
  <2>1. IsTable(d)
    BY <1>2 DEF Later
  <2>2. DOMAIN d = 1..Len(d)
    BY <2>1, TableFacts
  <2> QED
    BY <1>1, <1>2, <2>2
<1>6. d[n].parent = db[i].parent /\ Type(d, n) # "Workflow"
  <2>1. d[n].parent = db[i].parent /\ d[n].step = db[i].step
    BY <1>1, <1>2 DEF SameTask, Row
  <2> QED
    BY <2>1 DEF Retriable, Type, Entry
<1> HIDE DEF n
<1>7. ASSUME NEW p \in DOMAIN d, Unfinished(d, p)
      PROVE  /\ p \in DOMAIN db /\ Unfinished(db, p)
             /\ Children(d, p) = Children(db, p)
  BY <1>1, <1>2, <1>3, <1>5, <1>6, <1>7, SteadyUnfinished
<1>8. \A p : ~Finishes(Top, p) /\ ~Starts(Top, p)
  BY DEF Finishes, Starts
<1>9. Pays(d, {}, on_commit)
  BY <1>7, <1>8 DEF Pays
<1>10. Calms(d, {})
  BY DEF Calms, Calm
<1> QED
  BY <1>2, <1>4, <1>9, <1>10, PopDebts

LEMMA RetryLostDebts ==
    ASSUME History, Debts, retry_lost
    PROVE  Debts'
<1>1. /\ ~AtRest /\ Top.op = "retry_lost" /\ Top.w \in 1..Len(db)
      /\ Type(db, Top.w) = "Worker" /\ Later(db, db)
  BY TopFacts, TopOK DEF retry_lost, Methods, History, FrameOK
<1>2. CASE Continue(db, Rest)
  <2>1. Pays(db, {}, on_commit) /\ Calms(db, {})
    BY <1>1, SamePays DEF Finishes, Starts, Calms
  <2> QED
    BY <1>1, <1>2, <2>1, PopDebts
<1>3. CASE /\ verify_retry(db, Top.w)
           /\ Continue(retry_supersede(db, Top.w, Top.arg), Rest)
  BY <1>1, <1>3, VerifiedRetriable, SupersedeDebts
<1> QED
  BY <1>2, <1>3 DEF retry_lost

LEMMA RetryDebts ==
    ASSUME History, Debts, retry
    PROVE  Debts'
<1> DEFINE i == Top.w
           n == retry_count(db, i, Top.arg)
           d == [db EXCEPT ![i].status = "running", ![i].retry_count = n]
           a == CallOrchestrate(db, i)
           b == Frame("retry_each", i, {}, Top.arg)
           c == CallFinish(i)
           N == {a, b, c}
<1>1. /\ ~AtRest /\ Top.op = "retry" /\ i \in 1..Len(db) /\ i \in DOMAIN db
      /\ Sound(db) /\ Rest \in Seq(Call(Len(db)))
  BY TopFacts, InvFacts DEF retry, Methods, History
<1>2. IsTable(db)
  BY InvFacts DEF History
<1>3. ~Harmless(db, Top)
  BY <1>1 DEF Harmless
<1>4. CASE Raise
  BY <1>1, <1>3, <1>4, RaiseDebts
<1>5. CASE Continue(db, Unwound)
  BY <1>1, <1>5, UnwoundDebts
<1>6. CASE /\ verify_retry(db, i) /\ Type(db, i) # "Workflow"
           /\ Continue(retry_supersede(db, i, Top.arg), Rest)
  BY <1>1, <1>6, VerifiedRetriable, SupersedeDebts
<1>7. CASE /\ Type(db, i) = "Workflow"
           /\ Continue(d, <<a, b, c>> \o Rest)
  <2>1. n \in Nat
    <3>1. db[i].retry_count \in Nat
      BY <1>1, <1>2, TableFacts DEF Row
    <3> QED
      BY <3>1 DEF retry_count
  <2> HIDE DEF n
  <2>2. /\ \A j \in DOMAIN db : /\ d[j].deps = db[j].deps
                                /\ d[j].worker = db[j].worker
                                /\ j # i => d[j] = db[j]
        /\ d[i].status = "running"
    <3>1. \A j \in DOMAIN db : db[j] \in Row(Len(db))
      BY <1>2, TableFacts
    <3> QED
      BY <1>1, <3>1 DEF Row
  <2>3. Keeps(db, d)
    <3>1. Keeps(db, Set(db, i, "running"))
      BY <1>2, SetKeeps DEF Statuses
    <3>2. Keeps(Set(db, i, "running"),
                [Set(db, i, "running") EXCEPT ![i].retry_count = n])
      BY <2>1, <3>1, SetRetryCountKeeps DEF Keeps
    <3>3. Keeps(db, [Set(db, i, "running") EXCEPT ![i].retry_count = n])
      BY <3>1, <3>2, KeepsTransitive
    <3> QED
      BY <3>3 DEF Set
  <2> HIDE DEF d
  <2>4. Later(db, d)
    <3>1. ~Superseded(db, i)
      BY <1>1, <1>7, NotSuperseded
    <3>2. Allows(db, d)
      BY <1>1, <1>2, <1>7, <2>2, <2>3, <3>1, SettleAllows DEF Waiting
    <3> QED
      BY <1>1, <1>2, <3>2, AllowsSound
  <2>5. /\ a.op = "orchestrate" /\ b.op = "retry_each"
        /\ c.op = "maybe_finish_workflow" /\ c.w = i
    BY DEF CallOrchestrate, Frame, CallFinish
  <2> HIDE DEF a, b, c
  <2>6. Frames(<<a, b, c>> \o Rest) = N \cup Frames(Rest)
    BY <1>1, FramesFacts
  <2>7. Pays(d, N, on_commit)
    <3>1. \A p \in DOMAIN db : Type(db, p) = "Workflow" =>
            \/ d[p].status # "running"
            \/ Covered(d, N, on_commit, p)
            \/ /\ db[p].status = "running"
               /\ \A j \in DOMAIN db :
                     db[j].parent = p /\ InProgress(db, j) => InProgress(d, j)
               /\ ~Finishes(Top, p) /\ ~Starts(Top, p)
      BY <1>1, <2>2, <2>5 DEF Covered, Finishes, Starts, InProgress
    <3> QED
      BY <1>1, <1>3, <2>3, <2>4, <3>1, KeptPays
  <2>8. Calms(d, N)
    BY <1>1, <2>5 DEF Calms, Calm, Reacts
  <2> HIDE DEF N
  <2> QED
    BY <1>1, <1>7, <2>4, <2>6, <2>7, <2>8, ContinueDebts
<1> QED
  BY <1>4, <1>5, <1>6, <1>7 DEF retry

LEMMA RetryEachDebts ==
    ASSUME History, Debts, retry_each
    PROVE  Debts'
<1>1. /\ ~AtRest /\ Top.op = "retry_each" /\ Later(db, db)
      /\ ~Harmless(db, Top) /\ ~Calm(db, Top)
      /\ \A p : ~Finishes(Top, p) /\ ~Starts(Top, p)
  BY TopOK DEF retry_each, Harmless, Calm, Finishes, Starts
<1>2. CASE Continue(db, Rest)
  <2>1. Pays(db, {}, on_commit) /\ Calms(db, {})
    BY <1>1, SamePays DEF Calms
  <2> QED
    BY <1>1, <1>2, <2>1, PopDebts
<1>3. ASSUME NEW c, NEW b, c.op \in {"retry", "retry_each"}, b.op = "retry_each"
      PROVE  Pays(db, {c, b}, on_commit) /\ Calms(db, {c, b})
  <2>1. Pays(db, {c, b}, on_commit)
    BY <1>1, SamePays
  <2>2. Calms(db, {c, b})
    BY <1>1, <1>3 DEF Calms, Reacts
  <2> QED
    BY <2>1, <2>2
<1> DEFINE failed == {i \in Children(db, Top.w) : is_aborted_failed(db, i)}
<1>4. CASE Continue(db, <<Frame("retry_each", None, failed, Top.arg)>> \o Rest)
  <2> DEFINE c == Frame("retry_each", None, failed, Top.arg)
  <2>1. c.op = "retry_each" /\ Continue(db, <<c>> \o Rest)
    BY <1>4 DEF Frame
  <2> HIDE DEF c
  <2>2. Pays(db, {c, c}, on_commit) /\ Calms(db, {c, c})
    BY <1>3, <2>1
  <2> QED
    BY <1>1, <2>1, <2>2, PushDebts
<1>5. ASSUME NEW i \in Top.set,
             Continue(db, <<CallRetry(i, Top.arg),
                            Frame("retry_each", None, Top.set \ {i}, Top.arg)>>
                          \o Rest)
      PROVE  Debts'
  <2> DEFINE c == CallRetry(i, Top.arg)
             b == Frame("retry_each", None, Top.set \ {i}, Top.arg)
  <2>1. c.op = "retry" /\ b.op = "retry_each" /\ Continue(db, <<c, b>> \o Rest)
    BY <1>5 DEF Frame, CallRetry
  <2> HIDE DEF b, c
  <2>2. Pays(db, {c, b}, on_commit) /\ Calms(db, {c, b})
    BY <1>3, <2>1
  <2> QED
    BY <1>1, <2>1, <2>2, PushDebts
<1> QED
  BY <1>2, <1>4, <1>5 DEF retry_each

(* Nothing becomes unfinished by it, even with a stale parent.             *)
LEMMA DelayedSteady ==
    ASSUME History, Debts, ~AtRest, Reacts(db, Top)
    PROVE  LET e == Delayed(db, Top.w, Top.arg)
               p == db[Top.w].parent
           IN  /\ Top.arg \in Statuses \ Waiting /\ Top.w \in 1..Len(db)
               /\ Steady(db, e, p)
               /\ p # None => p \in DOMAIN db
               /\ \A c \in Frames(Rest) : c.op = "maybe_finish_workflow" /\ c.w = p
<1> DEFINE i == Top.w
           p == db[i].parent
           e == Delayed(db, i, Top.arg)
           n == Len(db)
<1>1. /\ Top.op = "process_retry_with_delays" /\ Type(db, i) = "Worker"
      /\ i \in 1..n /\ n \in Nat /\ DOMAIN db = 1..n /\ Top.arg \in Statuses
      /\ Sound(db) /\ IsTable(db) /\ IsChain(db)
  BY TopFacts, InvFacts DEF Reacts, Methods, History
<1>2. Top.arg \in Statuses \ Waiting
  BY <1>1, TopOK DEF FrameOK
<1>3. \A j \in 1..n : e[j].status = IF j = p THEN Top.arg ELSE db[j].status
  BY <1>1, <1>2, DelayedFacts
<1>4. p # None => p \in DOMAIN db /\ db[p].status \notin Waiting
  BY <1>1, RowFacts DEF Sound, Related
<1>5. p # None /\ InProgress(db, p) => Top.arg = "running"
  <2>1. Current(db, Top)
    BY TopFrames DEF History, Debts, Reactions
  <2>2. p # None => db[p].status \in Statuses
    BY <1>1, <1>4, TableFacts DEF Row
  <2> QED
    BY <1>4, <2>1, <2>2 DEF Current, InProgress, Statuses, Waiting
<1>6. \A c \in Frames(Rest) : c.op = "maybe_finish_workflow" /\ c.w = p
  <2>1. \A c \in Frames(Rest) : c = CallFinish(p)
    BY <1>1, TopOK DEF Above, Over, Frames
  <2>2. CallFinish(p).op = "maybe_finish_workflow" /\ CallFinish(p).w = p
    BY DEF CallFinish, Frame
  <2> HIDE DEF p
  <2> QED
    BY <2>1, <2>2
<1> HIDE DEF e
<1>7. Steady(db, e, p)
  <2> HIDE DEF p
  <2>1. \A j \in DOMAIN db : j # None
    BY <1>1
  <2> QED
    BY <1>1, <1>3, <1>5, <2>1 DEF Steady, InProgress
<1>8. e = Delayed(db, Top.w, Top.arg)
  BY DEF e
<1> QED
  BY <1>1, <1>2, <1>4, <1>6, <1>7, <1>8

LEMMA ProcessRetryWithDelaysDebts ==
    ASSUME History, Debts, process_retry_with_delays
    PROVE  Debts'
<1> DEFINE i == Top.w
           p == db[i].parent
           n == Len(db)
           e == Delayed(db, i, Top.arg)
           g == Retried(db, i, Top.arg)
<1>1. /\ ~AtRest /\ Top.op = "process_retry_with_delays" /\ i \in 1..n
      /\ n \in Nat /\ DOMAIN db = 1..n /\ Sound(db) /\ Later(db, db)
      /\ \A q : ~Finishes(Top, q) /\ ~Starts(Top, q)
  BY TopFacts, InvFacts, TopOK
     DEF process_retry_with_delays, Methods, History, Finishes, Starts
<1>2. IsTable(db) /\ IsChain(db)
  BY InvFacts DEF History
<1>3. CASE Continue(db, Rest)
  <2>1. Pays(db, {}, on_commit) /\ Calms(db, {})
    BY <1>1, SamePays DEF Calms
  <2> QED
    BY <1>1, <1>3, <2>1, PopDebts
<1>4. ASSUME db[i].retry_count < Entry(db, i).delays
      PROVE  Reacts(db, Top)
  BY <1>1, <1>2, <1>4, RetriedWorker DEF Reacts
<1>5. ASSUME Reacts(db, Top)
      PROVE  /\ Top.arg \in Statuses \ Waiting /\ Steady(db, e, p)
             /\ p # None => p \in DOMAIN db
             /\ \A c \in Frames(Rest) :
                  c.op = "maybe_finish_workflow" /\ c.w = p
  BY <1>1, <1>5, DelayedSteady
<1>6. CASE Reacts(db, Top) /\ Raise
  <2>1. ~Harmless(db, Top)
    BY <1>6 DEF Reacts, Harmless
  <2> QED
    BY <1>1, <1>6, <2>1, RaiseDebts
<1>7. ASSUME Reacts(db, Top)
      PROVE  /\ Later(db, e) /\ DOMAIN e = 1..(n + 1)
             /\ e[n + 1].parent = p /\ Type(e, n + 1) = "Wait"
             /\ e[n + 1].status = "pending"
  <2>1. /\ Later(db, e) /\ DOMAIN e = 1..(n + 1)
        /\ e[n + 1] = NewRow(Delay, p, "pending")
    <3>1. IsTable(db)
      BY <1>2
    <3>2. IsChain(db) /\ Sound(db)
      BY <1>1, <1>2
    <3>3. Top.w \in 1..Len(db)
      BY <1>1
    <3>4. Top.arg \in Statuses \ Waiting
      BY <1>5, <1>7
    <3> QED
      BY <3>1, <3>2, <3>3, <3>4, DelayedFacts
  <2> HIDE DEF e
  <2>2. /\ e[n + 1].parent = p /\ e[n + 1].step = 0
        /\ e[n + 1].status = "pending"
    BY <2>1 DEF NewRow
  <2> QED
    BY <2>1, <2>2 DEF Type, Entry, DelayEntry
<1>8. ASSUME Reacts(db, Top), Continue(e, <<>>)
      PROVE  Debts'
  <2>1. /\ db' = e /\ committed' = e /\ calls' = <<>> /\ on_commit' = {}
        /\ queued' = on_commit \cup queued
    BY <1>8 DEF Continue, ContinueWith, Proceed
  <2> HIDE DEF e
  <2>2. ASSUME NEW q \in DOMAIN e, Unfinished(e, q)
        PROVE  /\ q \in DOMAIN db /\ q # p /\ Unfinished(db, q)
               /\ Children(e, q) = Children(db, q)
    <3>1. /\ \A j \in DOMAIN e \ DOMAIN db :
               /\ e[j].parent = p
               /\ Type(e, j) = "Workflow" => e[j].status # "running"
          /\ \E j \in DOMAIN e : e[j].parent = p /\ InProgress(e, j)
      BY <1>1, <1>7, <1>8 DEF InProgress
    <3> HIDE DEF p
    <3> QED
      BY <1>2, <1>5, <1>7, <1>8, <2>2, <3>1, SteadyUnfinished
  <2>3. Owed(e, {}, on_commit \cup queued)
    <3> SUFFICES ASSUME NEW q \in DOMAIN e, Unfinished(e, q)
                 PROVE  Covered(e, {}, on_commit \cup queued, q)
      BY DEF Owed
    <3>1. Covered(db, Frames(calls), on_commit \cup queued, q)
      BY <2>2 DEF Debts, Owed
    <3>2. Frames(calls) = {Top} \cup Frames(Rest)
      BY <1>1, TopFrames DEF History
    <3>3. \A c \in Frames(calls) : ~Finishes(c, q) /\ ~Starts(c, q)
      BY <1>1, <1>5, <1>8, <2>2, <3>2 DEF Finishes, Starts
    <3> QED
      BY <2>2, <3>1, <3>3 DEF Covered
  <2>4. Frames(calls') = {}
    BY <2>1 DEF Frames
  <2>5. Reactions(e, {})
    BY DEF Reactions
  <2>6. on_commit' \cup queued' = on_commit \cup queued
    BY <2>1
  <2> QED
    BY <2>1, <2>3, <2>4, <2>5, <2>6 DEF Debts, Undoable
<1>9. ASSUME Reacts(db, Top), verify_retry(db, i), Continue(g, Rest)
      PROVE  Debts'
  <2>1. Retriable(db, i)
    BY <1>1, <1>9, VerifiedRetriable DEF Reacts
  <2>2. /\ Later(db, g) /\ DOMAIN g = 1..(n + 2) /\ Steady(e, g, p)
        /\ g[n + 1].parent = p /\ g[n + 2].parent = p
        /\ Type(g, n + 1) = "Wait" /\ Type(g, n + 2) = Type(db, i)
    BY <1>1, <1>2, <1>5, <1>9, <2>1, RetriedFacts
  <2> HIDE DEF e, g
  <2>3. Steady(db, g, p) /\ InProgress(g, n + 1)
    <3>1. DOMAIN db \subseteq DOMAIN e /\ n + 1 \in DOMAIN e
      BY <1>1, <1>7, <1>9
    <3>2. InProgress(g, n + 1)
      BY <1>7, <1>9, <2>2, <3>1 DEF Steady, InProgress
    <3> HIDE DEF p
    <3> QED
      BY <1>5, <1>9, <2>2, <3>1, <3>2, SteadyTransitive
  <2>4. ASSUME NEW q \in DOMAIN g, Unfinished(g, q)
        PROVE  /\ q \in DOMAIN db /\ Unfinished(db, q)
               /\ Children(g, q) = Children(db, q)
    <3>1. /\ \A j \in DOMAIN g \ DOMAIN db :
               /\ g[j].parent = p
               /\ Type(g, j) = "Workflow" => g[j].status # "running"
          /\ \E j \in DOMAIN g : g[j].parent = p /\ InProgress(g, j)
      <4>1. \A j \in DOMAIN g \ DOMAIN db : j = n + 1 \/ j = n + 2
        BY <1>1, <2>2
      <4>2. Type(db, i) # "Workflow" /\ n + 1 \in DOMAIN g
        BY <1>1, <1>9, <2>2 DEF Reacts
      <4> QED
        BY <2>2, <2>3, <4>1, <4>2
    <3> HIDE DEF p
    <3> QED
      BY <1>2, <2>2, <2>3, <2>4, <3>1, SteadyUnfinished
  <2>5. Pays(g, {}, on_commit)
    BY <1>1, <2>4 DEF Pays
  <2>6. Calms(g, {})
    BY <1>9 DEF Calms, Calm, Reacts
  <2> QED
    BY <1>1, <1>9, <2>2, <2>5, <2>6, PopDebts
<1>10. /\ e = Append(Set(db, p, Top.arg), NewRow(Delay, p, "pending"))
       /\ g = add_dependencies(retry_supersede(e, i, "delay"),
                               Len(db) + 1 + 1, {Len(db) + 1})
  <2>1. Len(db) + 2 = Len(db) + 1 + 1
    BY <1>1
  <2> QED
    BY <2>1 DEF Delayed, Retried
<1> HIDE DEF e, g
<1> QED
  BY <1>3, <1>4, <1>6, <1>8, <1>9, <1>10 DEF process_retry_with_delays

-----------------------------------------------------------------------------
(* Orchestration.                                                          *)

LEMMA OrchestrateCallbackDebts ==
    ASSUME History, Debts, orchestrate_callback
    PROVE  Debts'
<1> DEFINE c == CallMarkCompleted(Top.w, "success")
<1>1. /\ ~AtRest /\ Top.op = "orchestrate" /\ Type(db, Top.w) = "Callback"
      /\ Continue(db, <<c>> \o Rest)
  BY DEF orchestrate_callback
<1>2. c.op = "mark_completed" /\ c.w = Top.w /\ {c, c} = {c} /\ Later(db, db)
  BY <1>1, TopOK DEF CallMarkCompleted, Frame
<1> HIDE DEF c
<1>3. Pays(db, {c}, on_commit)
  <2>1. \A p : ~Finishes(Top, p)
    BY <1>1 DEF Finishes
  <2>2. \A p : Starts(Top, p) => Finishes(c, p)
    BY <1>2 DEF Finishes, Starts
  <2>3. Harmless(db, c)
    BY <1>1, <1>2 DEF Harmless
  <2> QED
    BY <1>1, <2>1, <2>2, <2>3, SamePays DEF Covered
<1>4. Calms(db, {c})
  BY <1>1, <1>2 DEF Calms, Calm, Reacts
<1> QED
  BY <1>1, <1>2, <1>3, <1>4, PushDebts

LEMMA OrchestrateFailsDebts ==
    ASSUME History, Debts, orchestrate_fails
    PROVE  Debts'
<1>1. ~AtRest /\ Top.op = "orchestrate"
  BY DEF orchestrate_fails
<1>2. CASE caller = "web" /\ Raise
  BY <1>1, <1>2, RaiseDebts
<1>3. CASE Continue(db, Unwound)
  BY <1>1, <1>3, UnwoundDebts
<1> QED
  BY <1>2, <1>3 DEF orchestrate_fails

(* A child that is created is in progress, and one that is found is left   *)
(* in progress.                                                            *)
LEMMA ChildUnfinished ==
    ASSUME NEW d, IsTable(d), IsChain(d), Sound(d), NEW w \in DOMAIN d,
           Type(d, w) = "Workflow", d[w].status \notin Waiting,
           NEW s \in Step, Plan[s].parent # 0, NEW new,
           NEW i \in Existing(ensure_child(d, w, s), s)
    PROVE  LET e == requires_artifacts(ensure_child(d, w, s), i, new)
           IN  \A p \in DOMAIN e : Unfinished(e, p) =>
                  /\ p \in DOMAIN d /\ Unfinished(d, p)
                  /\ Children(e, p) = Children(d, p)
<1> DEFINE n == Len(d) + 1
           st == IF Plan[s].type \in {"Worker", "Wait"} THEN "blocked"
                                                        ELSE "pending"
           r == NewRow(s, w, st)
           d1 == ensure_child(d, w, s)
           e == requires_artifacts(d1, i, new)
           p0 == IF Existing(d, s) = {} THEN w ELSE None
<1>1. /\ Len(d) \in Nat /\ DOMAIN d = 1..Len(d) /\ s \in 0..Steps
      /\ w \in 0..Len(d) /\ st \in Statuses /\ Steps \in Nat
  BY WorkRequestsAssumption, TableFacts DEF Step, Statuses
<1>2. d1 = IF Existing(d, s) # {} THEN d ELSE Append(d, r)
  BY DEF ensure_child
<1>3. Sound(d1) /\ Later(d, d1) /\ IsTable(d1)
  <2>1. Sound(d1) /\ Later(d, d1)
    BY EnsureChildSound
  <2> HIDE DEF d1
  <2> QED
    BY <2>1 DEF Later
<1>4. i \in DOMAIN d1 /\ d1[i].step = s
  BY DEF Existing
<1>5. /\ \A j \in DOMAIN d : j \in DOMAIN d1 /\ d1[j] = d[j]
      /\ p0 = None => DOMAIN d1 = DOMAIN d
      /\ p0 # None => /\ DOMAIN d1 = DOMAIN d \cup {n}
                      /\ d1[n].parent = p0 /\ d1[n].status = st
  <2>1. CASE Existing(d, s) # {}
    BY <1>2, <2>1
  <2>2. CASE Existing(d, s) = {}
    <3>1. r \in Row(n)
      <4>1. Row(Len(d)) \subseteq Row(n)
        BY <1>1, RowGrows
      <4>2. r \in Row(Len(d))
        BY <1>1 DEF NewRow, Row, Results
      <4> QED
        BY <4>1, <4>2
    <3>2. r.parent = w /\ r.status = st
      BY DEF NewRow
    <3> HIDE DEF r, st
    <3>3. /\ IsTable(d1) /\ Len(d1) = n /\ d1[n] = r
          /\ \A j \in 1..Len(d) : d1[j] = d[j]
      BY <1>1, <1>2, <2>2, <3>1, AppendTable
    <3>4. DOMAIN d1 = 1..n /\ w # None
      BY <1>1, <3>3, TableFacts
    <3>5. p0 = w
      BY <2>2
    <3> HIDE DEF d1, p0
    <3>6. DOMAIN d1 = DOMAIN d \cup {n}
      BY <1>1, <3>4
    <3>7. d1[n].parent = w /\ d1[n].status = st
      BY <3>2, <3>3
    <3> HIDE DEF n
    <3> QED
      BY <1>1, <3>3, <3>4, <3>5, <3>6, <3>7
  <2> QED
    BY <2>1, <2>2
<1>6. st \in {"blocked", "pending"}
  OBVIOUS
<1>7. Keeps(d1, e) /\ Later(d1, e)
  <2> HIDE DEF d1
  <2> QED
    BY <1>3, <1>4, RequiresArtifactsSound
<1>8. Steady(d1, e, None)
  <2> DEFINE deps == UNION {Promised(d1, t) : t \in Entry(d1, i).deps}
  <2>1. e = d1 \/ e = add_dependencies(d1, i, deps)
    BY DEF requires_artifacts
  <2>2. Steady(d1, d1, None)
    BY DEF Steady
  <2> HIDE DEF d1, e, deps
  <2>3. Steady(d1, add_dependencies(d1, i, deps), None)
    BY <1>3, AddDependenciesSteady
  <2> QED
    BY <2>1, <2>2, <2>3
<1> HIDE DEF d1, e, p0, st
<1>9. /\ DOMAIN e = DOMAIN d1 /\ \A j \in DOMAIN d1 : SameTask(d1[j], e[j])
  <2>1. DOMAIN d1 = 1..Len(d1) /\ DOMAIN e = 1..Len(e)
    BY <1>3, <1>7, TableFacts DEF Keeps
  <2> QED
    BY <1>7, <2>1 DEF Keeps
<1>10. Steady(d, e, p0)
  <2>1. \A j \in DOMAIN d : j # None
    BY <1>1
  <2> QED
    BY <1>5, <1>8, <2>1 DEF Steady, InProgress
<1>11. /\ \A j \in DOMAIN e \ DOMAIN d :
            e[j].parent = p0 /\ e[j].status # "running"
       /\ p0 # None => \E j \in DOMAIN e : e[j].parent = p0 /\ InProgress(e, j)
  <2>1. CASE p0 = None
    BY <1>5, <1>9, <2>1
  <2>2. CASE p0 # None
    <3>1. n # None /\ n \in DOMAIN d1 /\ \A j \in DOMAIN e \ DOMAIN d : j = n
      BY <1>1, <1>5, <1>9, <2>2
    <3> HIDE DEF n
    <3>2. e[n].parent = p0
      BY <1>5, <1>9, <2>2, <3>1 DEF SameTask
    <3>3. InProgress(e, n) /\ e[n].status # "running"
      BY <1>5, <1>6, <1>8, <2>2, <3>1 DEF Steady, InProgress
    <3> QED
      BY <1>9, <3>1, <3>2, <3>3
  <2> QED
    BY <2>1, <2>2
<1>12. Later(d, e)
  BY <1>3, <1>7, LaterTransitive
<1>13. \A p \in DOMAIN e : Unfinished(e, p) =>
          /\ p \in DOMAIN d /\ Unfinished(d, p)
          /\ Children(e, p) = Children(d, p)
  BY <1>10, <1>11, <1>12, SteadyUnfinished
<1> QED
  BY <1>13 DEF e, d1

LEMMA OrchestrateWorkflowDebts ==
    ASSUME History, Debts, orchestrate_workflow
    PROVE  Debts'
<1> DEFINE w == Top.w
           f(s) == Frame("orchestrate", w, Top.set \ {s}, "")
           left(s) == <<f(s)>> \o Rest
           ready(d, i) == d[i].status = "pending"
<1>1. /\ ~AtRest /\ Top.op = "orchestrate" /\ Type(db, w) = "Workflow"
      /\ w \in DOMAIN db /\ Top.set \subseteq Step /\ Sound(db)
  BY TopFacts, InvFacts DEF orchestrate_workflow, Methods, History
<1>2. IsTable(db) /\ IsChain(db)
  BY InvFacts DEF History
<1>3. /\ Later(db, db) /\ Rest \in Seq(Call(Len(db)))
      /\ db[w].status \notin Waiting /\ \A s \in Top.set : Plan[s].parent # 0
  BY <1>1, TopOK DEF FrameOK
<1>4. ~Calm(db, Top) /\ \A p : ~Finishes(Top, p) /\ (Starts(Top, p) <=> p = w)
  BY <1>1 DEF Calm, Finishes, Starts
<1>5. ASSUME NEW s \in Top.set,
             NEW i \in Existing(ensure_child(db, w, s), s),
             LET d1 == ensure_child(db, w, s)
                 d2 == requires_artifacts(d1, i, Existing(db, s) = {})
             IN  \/ /\ Plan[s].type = "Workflow"
                    /\ ready(d2, i) \/ Plan[s].deps = {}
                    /\ Continue(IF ready(d2, i) THEN Set(d2, i, "running") ELSE d2,
                                <<CallOrchestrate(d2, i)>> \o left(s))
                 \/ Continue(d2, left(s))
      PROVE  Debts'
  <2> DEFINE d1 == ensure_child(db, w, s)
             d2 == requires_artifacts(d1, i, Existing(db, s) = {})
             d3 == IF ready(d2, i) THEN Set(d2, i, "running") ELSE d2
             c == CallOrchestrate(d2, i)
             b == f(s)
  <2>1. s \in Step /\ Plan[s].parent # 0
    BY <1>1, <1>3
  <2>2. Sound(d1) /\ Later(db, d1) /\ IsTable(d1)
    <3>1. Sound(d1) /\ Later(db, d1)
      BY <1>1, <1>2, <1>3, <2>1, EnsureChildSound
    <3> QED
      BY <3>1 DEF Later
  <2>3. \A p \in DOMAIN d2 : Unfinished(d2, p) =>
           /\ p \in DOMAIN db /\ Unfinished(db, p)
           /\ Children(d2, p) = Children(db, p)
    BY <1>1, <1>2, <1>3, <2>1, ChildUnfinished
  <2> HIDE DEF d1
  <2>4. i \in DOMAIN d1 /\ d1[i].step = s
    BY <1>5 DEF Existing, d1
  <2>5. Sound(d2) /\ Later(d1, d2) /\ Keeps(d1, d2)
    BY <2>1, <2>2, <2>4, RequiresArtifactsSound
  <2>6. \/ Continue(d3, <<c>> \o left(s))
        \/ Continue(d2, left(s))
    BY <1>5 DEF d1
  <2> HIDE DEF d2
  <2>7. /\ IsTable(d2) /\ i \in DOMAIN d2 /\ Later(db, d2)
    BY <1>2, <2>2, <2>4, <2>5, TableFacts, LaterTransitive DEF Keeps
  <2>8. /\ b.op = "orchestrate" /\ b.w = w
        /\ c.op = "orchestrate" /\ c.w = i
    BY DEF Frame, CallOrchestrate
  <2> HIDE DEF b, c
  <2>9. CASE Continue(d2, left(s))
    <3>1. Continue(d2, <<b>> \o Rest) /\ {b, b} = {b}
      BY <2>9 DEF b
    <3>2. Pays(d2, {b}, on_commit)
      <4>1. Starts(b, w) /\ Harmless(d2, b)
        BY <2>8 DEF Starts, Harmless
      <4> QED
        BY <1>4, <2>3, <4>1 DEF Pays
    <3>3. Calms(d2, {b})
      BY <1>4, <2>8 DEF Calms, Reacts
    <3> QED
      BY <1>1, <2>7, <3>1, <3>2, <3>3, PushDebts
  <2>10. CASE Continue(d3, <<c>> \o left(s))
    <3>1. <<c>> \o left(s) = <<c, b>> \o Rest
      BY <1>3, PairFacts DEF b
    <3>2. Continue(d3, <<c, b>> \o Rest)
      BY <2>10, <3>1
    <3>3. Later(db, d3) /\ Keeps(d2, d3)
      <4>1. Later(d2, d3) /\ Keeps(d2, d3)
        <5>1. CASE ready(d2, i)
          <6>1. ~Superseded(d2, i) /\ "running" \in Statuses \ Waiting
            BY <2>5, <2>7, <5>1, NotSuperseded DEF InProgress, Statuses, Waiting
          <6>2. /\ Later(d2, Set(d2, i, "running"))
                /\ Keeps(d2, Set(d2, i, "running"))
            BY <2>5, <2>7, <5>1, <6>1, SetAllows, AllowsSound
          <6> QED
            BY <5>1, <6>2
        <5>2. CASE ~ready(d2, i)
          BY <2>7, <5>2, LaterReflexive, KeepsReflexive
        <5> QED
          BY <5>1, <5>2
      <4> HIDE DEF d3
      <4> QED
        BY <1>2, <2>7, <4>1, LaterTransitive
    <3>4. \A j \in DOMAIN d2 :
             d3[j].status = IF j = i /\ ready(d2, i) THEN "running"
                            ELSE d2[j].status
      BY <2>7, SetFacts
    <3> HIDE DEF d3
    <3>5. /\ DOMAIN d3 = DOMAIN d2 /\ Len(d3) = Len(d2)
          /\ \A p : Children(d3, p) = Children(d2, p)
      <4>1. DOMAIN d3 = DOMAIN d2 /\ Len(d3) = Len(d2)
            /\ \A j \in DOMAIN d2 : d3[j].parent = d2[j].parent
        BY <2>7, <3>3, TableFacts DEF Keeps, SameTask
      <4> QED
        BY <4>1 DEF Children
    <3>6. ASSUME NEW p \in DOMAIN d3, Unfinished(d3, p)
          PROVE  \/ Children(d3, p) = {} /\ p = i
                 \/ Unfinished(d2, p)
      <4>1. CASE p = i /\ ready(d2, i)
        <5>1. Children(d2, p) = {}
          <6>1. i # None /\ d2[i].status \in Waiting
            BY <2>7, <4>1, TableFacts DEF Waiting
          <6>2. \A j \in DOMAIN d2 : d2[j].parent # i
            BY <2>5, <6>1 DEF Sound, Related
          <6> QED
            BY <4>1, <6>2 DEF Children
        <5> QED
          BY <3>5, <4>1, <5>1
      <4>2. CASE ~(p = i /\ ready(d2, i))
        <5>1. d3[p].status = d2[p].status
              /\ \A j \in DOMAIN d2 : InProgress(d3, j) <=> InProgress(d2, j)
          BY <3>4, <3>5, <4>2 DEF InProgress
        <5>2. Type(d3, p) = Type(d2, p)
          BY <2>7, <3>3, <3>5, TableFacts DEF Keeps, SameTask, Type, Entry
        <5> QED
          BY <3>5, <3>6, <5>1, <5>2
             DEF Unfinished, has_children_in_progress, Children
      <4> QED
        BY <4>1, <4>2
    <3>7. Pays(d3, {c, b}, on_commit)
      <4>1. Starts(b, w) /\ Starts(c, i) /\ \A x \in {c, b} : Harmless(d3, x)
        BY <2>8 DEF Starts, Harmless
      <4>2. ASSUME NEW p \in DOMAIN d3, Unfinished(d3, p)
            PROVE  \/ Covered(d3, {c, b}, on_commit, p)
                   \/ /\ p \in DOMAIN db /\ Unfinished(db, p)
                      /\ Children(d3, p) = Children(db, p)
        BY <2>3, <3>5, <3>6, <4>1, <4>2 DEF Covered
      <4> QED
        BY <1>4, <4>1, <4>2 DEF Pays
    <3>8. Calms(d3, {c, b})
      BY <1>4, <2>8 DEF Calms, Reacts
    <3> QED
      BY <1>1, <3>2, <3>3, <3>7, <3>8, PushDebts
  <2> QED
    BY <2>6, <2>9, <2>10
<1>6. ASSUME Children(db, w) # {},
             Continue(mark_pending(db, {i \in Children(db, w) :
                                   can_be_automatically_unblocked(db, i)}), Rest)
      PROVE  Debts'
  <2> DEFINE S == {i \in Children(db, w) : can_be_automatically_unblocked(db, i)}
             d == mark_pending(db, S)
  <2>1. \A j \in S \cap DOMAIN db :
              /\ db[j].status = "blocked"
              /\ Entry(db, j).unblock_strategy = "deps" =>
                    \A k \in db[j].deps : db[k].status = "completed"
    BY DEF can_be_automatically_unblocked, can_be_unblocked
  <2>2. Continue(d, Rest)
    BY <1>6
  <2> HIDE DEF S
  <2>3. Later(db, d) /\ Keeps(db, d)
    BY <1>1, <1>2, <2>1, MarkPendingAllows, AllowsSound
  <2>4. Steady(db, d, None)
    BY <1>2, <2>1, MarkPendingSteady
  <2> HIDE DEF d
  <2> QED
    BY <1>1, <1>4, <1>6, <2>2, <2>3, <2>4, SteadyDebts
<1>7. ASSUME Continue(db, <<CallMarkCompleted(w, "success")>> \o Rest)
      PROVE  Debts'
  <2> DEFINE c == CallMarkCompleted(w, "success")
  <2>1. c.op = "mark_completed" /\ c.w = w /\ Continue(db, <<c>> \o Rest)
        /\ {c, c} = {c}
    BY <1>7 DEF CallMarkCompleted, Frame
  <2> HIDE DEF c
  <2>2. Pays(db, {c}, on_commit)
    <3>1. Finishes(c, w) /\ Harmless(db, c)
      BY <1>1, <2>1 DEF Finishes, Harmless
    <3> QED
      BY <1>1, <1>4, <3>1, SamePays DEF Covered
  <2>3. Calms(db, {c})
    BY <1>1, <1>4, <2>1 DEF Calms, Reacts
  <2> QED
    BY <1>1, <1>3, <2>1, <2>2, <2>3, PushDebts
<1> QED
  BY <1>5, <1>6, <1>7 DEF orchestrate_workflow

-----------------------------------------------------------------------------
(* The scheduler, and the methods that set requests running.               *)

LEMMA ScheduleEachDebts ==
    ASSUME History, Debts, schedule_each
    PROVE  Debts'
<1> DEFINE f(i) == Frame("schedule_each", 0, Top.set \ {i}, "")
           next(i) == <<f(i)>> \o Rest
<1>1. /\ ~AtRest /\ Top.op = "schedule_each" /\ Top.set \subseteq DOMAIN db
      /\ Sound(db) /\ Later(db, db) /\ Rest \in Seq(Call(Len(db)))
  BY TopFacts, InvFacts, TopOK DEF schedule_each, Loops, History
<1>2. IsTable(db) /\ DOMAIN db = 1..Len(db)
  BY InvFacts DEF History
<1>3. \A i \in Top.set :
         /\ ~Superseded(db, i)
         /\ Type(db, i) # "Workflow" => db[i].status # "completed"
  BY <1>1, TopOK DEF FrameOK, Mentions
<1>4. ~Calm(db, Top) /\ \A p : ~Finishes(Top, p) /\ ~Starts(Top, p)
  BY <1>1 DEF Calm, Finishes, Starts
<1>5. ASSUME NEW i
      PROVE  /\ Frames(next(i)) = {f(i)} \cup Frames(Rest)
             /\ \A d : /\ Harmless(d, f(i)) /\ ~Reacts(d, f(i))
                       /\ f(i).op # "next_pending"
  <2>1. f(i).op = "schedule_each"
    BY DEF Frame
  <2> HIDE DEF f
  <2> QED
    BY <1>1, <2>1, PushFrames DEF Harmless, Reacts
<1> HIDE DEF f
<1>6. CASE Continue(db, Rest)
  <2>1. Pays(db, {}, on_commit) /\ Calms(db, {})
    BY <1>1, <1>4, SamePays DEF Calms
  <2> QED
    BY <1>1, <1>6, <2>1, PopDebts
<1>7. ASSUME NEW i \in Top.set, Type(db, i) = "SyncPoint",
             Continue(db, <<CallMarkCompleted(i, "success")>> \o next(i))
      PROVE  Debts'
  <2> DEFINE c == CallMarkCompleted(i, "success")
             b == f(i)
  <2>1. c.op = "mark_completed" /\ c.w = i
    BY CompletedFrame
  <2>2. <<c>> \o next(i) = <<c, b>> \o Rest
    BY <1>1, PairFacts
  <2>3. Continue(db, <<c, b>> \o Rest)
    BY <1>7, <2>2
  <2>4. Harmless(db, b) /\ ~Reacts(db, b) /\ b.op # "next_pending"
    BY <1>5
  <2> HIDE DEF b, c
  <2>5. Pays(db, {c, b}, on_commit)
    <3>1. \A x \in {c, b} : Harmless(db, x)
      BY <1>7, <2>1, <2>4 DEF Harmless
    <3> QED
      BY <1>1, <1>4, <3>1, SamePays
  <2>6. Calms(db, {c, b})
    BY <1>4, <2>1, <2>4 DEF Calms, Reacts
  <2> QED
    BY <1>1, <2>3, <2>5, <2>6, PushDebts
<1>8. ASSUME NEW i, NEW H, on_commit \subseteq H, NEW d, Later(db, d),
             Pays(d, {f(i)}, H), ContinueWith(d, next(i), H)
      PROVE  Debts'
  <2>1. Calms(d, {f(i)})
    BY <1>4, <1>5 DEF Calms
  <2>2. Reactions(d, {f(i)} \cup Frames(Rest))
    BY <1>1, <1>8, <2>1, StepReactions
  <2>3. Frames(next(i)) = {f(i)} \cup Frames(Rest)
    BY <1>5
  <2> HIDE DEF next
  <2> QED
    BY <1>1, <1>8, <2>2, <2>3, StepDebts
<1>9. \A i, H : Pays(db, {f(i)}, H)
  BY <1>1, <1>4, <1>5, SamePays
<1>10. ASSUME NEW i, Continue(db, next(i))
       PROVE  Debts'
  BY <1>1, <1>8, <1>9, <1>10 DEF Continue
<1>11. ASSUME NEW r \in DOMAIN db, ~Superseded(db, r),
              Type(db, r) # "Workflow" => db[r].status # "completed",
              NEW H, Type(db, r) = "Workflow" => r \in H /\ db[r].status = "pending"
       PROVE  LET d == Set(db, r, "running")
              IN  Later(db, d) /\ \A i : Pays(d, {f(i)}, H)
  <2> DEFINE d == Set(db, r, "running")
  <2>1. "running" \in Statuses \ Waiting
    BY DEF Statuses, Waiting
  <2>2. Later(db, d) /\ Keeps(db, d)
    BY <1>1, <1>2, <1>11, <2>1, SetAllows, AllowsSound
  <2>3. \A j \in DOMAIN db :
          d[j].status = IF j = r THEN "running" ELSE db[j].status
    <3>1. IsTable(db)
      BY <1>2
    <3> QED
      BY <3>1, SetFacts
  <2> HIDE DEF d
  <2>4. \A j \in DOMAIN db : InProgress(db, j) => InProgress(d, j)
    BY <2>3 DEF InProgress
  <2>5. Type(db, r) = "Workflow" => Children(d, r) = {}
    <3> SUFFICES ASSUME Type(db, r) = "Workflow"
                 PROVE  Children(d, r) = {}
      OBVIOUS
    <3>1. r # None /\ db[r].status \in Waiting
      BY <1>2, <1>11 DEF Waiting
    <3>2. \A j \in DOMAIN db : db[j].parent # r
      BY <1>1, <3>1 DEF Sound, Related
    <3>3. DOMAIN d = DOMAIN db /\ \A j \in DOMAIN db : d[j].parent = db[j].parent
      BY <1>2, <2>2, TableFacts DEF Keeps, SameTask
    <3> QED
      BY <3>2, <3>3 DEF Children
  <2>6. ASSUME NEW i
        PROVE  Pays(d, {f(i)}, H)
    <3>1. \A p \in DOMAIN db : Type(db, p) = "Workflow" =>
            \/ d[p].status # "running"
            \/ Covered(d, {f(i)}, H, p)
            \/ /\ db[p].status = "running"
               /\ \A j \in DOMAIN db :
                     db[j].parent = p /\ InProgress(db, j) => InProgress(d, j)
               /\ ~Finishes(Top, p) /\ ~Starts(Top, p)
      BY <1>4, <1>11, <2>3, <2>4, <2>5 DEF Covered
    <3>2. \A c \in {f(i)} : Harmless(d, c)
      BY <1>5
    <3> QED
      BY <1>1, <2>2, <3>1, <3>2, KeptPays
  <2> QED
    BY <2>2, <2>6 DEF d
<1>12. ASSUME NEW i \in Top.set, Type(db, i) \in {"Wait", "Callback"},
              \/ Continue(Set(db, i, "running"), next(i))
              \/ ContinueWith(Set(db, i, "running"), next(i), on_commit \cup {i})
       PROVE  Debts'
  <2> DEFINE d == Set(db, i, "running")
  <2>1. Later(db, d) /\ \A H : Pays(d, {f(i)}, H)
    BY <1>1, <1>3, <1>11, <1>12
  <2>2. \E H : on_commit \subseteq H /\ ContinueWith(d, next(i), H)
    BY <1>12 DEF Continue
  <2> HIDE DEF d, next
  <2> QED
    BY <1>8, <2>1, <2>2
<1>13. ASSUME NEW i \in Top.set, NEW r \in WorkflowRoot(db, i),
              ContinueWith(IF db[r].status = "pending"
                           THEN Set(db, r, "running") ELSE db,
                           next(i), on_commit \cup {r})
       PROVE  Debts'
  <2> DEFINE d == IF db[r].status = "pending" THEN Set(db, r, "running") ELSE db
             H == on_commit \cup {r}
  <2>1. r \in DOMAIN db /\ Type(db, r) = "Workflow" /\ ~Superseded(db, r)
    BY <1>1, NotSuperseded DEF WorkflowRoot
  <2>2. on_commit \subseteq H /\ r \in H /\ ContinueWith(d, next(i), H)
    BY <1>13
  <2> HIDE DEF H
  <2>3. Later(db, d) /\ Pays(d, {f(i)}, H)
    <3>1. CASE db[r].status = "pending"
      BY <1>11, <2>1, <2>2, <3>1
    <3>2. CASE db[r].status # "pending"
      BY <1>1, <1>9, <3>2
    <3> QED
      BY <3>1, <3>2
  <2> HIDE DEF d, next
  <2> QED
    BY <1>8, <2>2, <2>3
<1> QED
  BY <1>6, <1>7, <1>10, <1>12, <1>13 DEF schedule_each, next, f

LEMMA CompleteEachDebts ==
    ASSUME History, Debts, complete_each
    PROVE  Debts'
<1>1. /\ ~AtRest /\ Top.op = "complete_each" /\ Later(db, db)
      /\ \A i \in Top.set : Type(db, i) = "Wait"
      /\ ~Calm(db, Top) /\ \A p : ~Finishes(Top, p) /\ ~Starts(Top, p)
  BY TopOK DEF complete_each, FrameOK, Calm, Finishes, Starts
<1>2. CASE Continue(db, Rest)
  <2>1. Pays(db, {}, on_commit) /\ Calms(db, {})
    BY <1>1, SamePays DEF Calms
  <2> QED
    BY <1>1, <1>2, <2>1, PopDebts
<1>3. ASSUME NEW i \in Top.set,
             Continue(db, <<CallMarkCompleted(i, "success"),
                            Frame("complete_each", 0, Top.set \ {i}, "")>>
                          \o Rest)
      PROVE  Debts'
  <2> DEFINE a == CallMarkCompleted(i, "success")
             b == Frame("complete_each", 0, Top.set \ {i}, "")
  <2>1. a.op = "mark_completed" /\ a.w = i /\ b.op = "complete_each"
    BY CompletedFrame DEF Frame
  <2>2. Continue(db, <<a, b>> \o Rest)
    BY <1>3
  <2> HIDE DEF a, b
  <2>3. Pays(db, {a, b}, on_commit)
    <3>1. \A x \in {a, b} : Harmless(db, x)
      BY <1>1, <2>1 DEF Harmless
    <3> QED
      BY <1>1, <3>1, SamePays
  <2>4. Calms(db, {a, b})
    BY <1>1, <2>1 DEF Calms, Reacts
  <2> QED
    BY <1>1, <2>2, <2>3, <2>4, PushDebts
<1> QED
  BY <1>2, <1>3 DEF complete_each

LEMMA NextPendingDebts ==
    ASSUME History, Debts, next_pending
    PROVE  Debts'
<1>1. /\ ~AtRest /\ Top.op = "next_pending" /\ Sound(db) /\ Later(db, db)
      /\ Top.worker # None
      /\ ~Calm(db, Top) /\ \A p : ~Finishes(Top, p) /\ ~Starts(Top, p)
  BY TopOK, TopFrames
     DEF next_pending, Calm, Finishes, Starts, Debts, Reactions, History
<1>2. IsTable(db)
  BY InvFacts DEF History
<1>3. CASE Continue(db, Rest)
  <2>1. Pays(db, {}, on_commit) /\ Calms(db, {})
    BY <1>1, SamePays DEF Calms
  <2> QED
    BY <1>1, <1>3, <2>1, PopDebts
<1>4. ASSUME NEW i \in Pending(db, Top.worker), Continue(Set(db, i, "running"), Rest)
      PROVE  Debts'
  <2> DEFINE d == Set(db, i, "running")
  <2>1. i \in DOMAIN db /\ db[i].status = "pending" /\ Type(db, i) = "Worker"
    BY <1>1 DEF Pending, Sound, Related
  <2>2. ~Superseded(db, i) /\ "running" \in Statuses \ Waiting
    BY <1>1, <2>1, NotSuperseded DEF InProgress, Statuses, Waiting
  <2>3. Later(db, d) /\ Keeps(db, d)
    BY <1>1, <1>2, <2>1, <2>2, SetAllows, AllowsSound
  <2>4. \A j \in DOMAIN db :
          d[j].status = IF j = i THEN "running" ELSE db[j].status
    BY <1>2, SetFacts
  <2>5. Continue(d, Rest)
    BY <1>4
  <2> HIDE DEF d
  <2>6. Pays(d, {}, on_commit)
    <3>1. \A p \in DOMAIN db : Type(db, p) = "Workflow" =>
            \/ d[p].status # "running"
            \/ Covered(d, {}, on_commit, p)
            \/ /\ db[p].status = "running"
               /\ \A j \in DOMAIN db :
                     db[j].parent = p /\ InProgress(db, j) => InProgress(d, j)
               /\ ~Finishes(Top, p) /\ ~Starts(Top, p)
      BY <1>1, <2>1, <2>4 DEF InProgress
    <3> QED
      BY <1>1, <2>3, <3>1, KeptPays
  <2>7. Calms(d, {})
    BY <1>1 DEF Calms
  <2> QED
    BY <1>1, <2>3, <2>5, <2>6, <2>7, PopDebts
<1> QED
  BY <1>3, <1>4 DEF next_pending

-----------------------------------------------------------------------------
(* Transactions that begin.                                                *)

LEMMA RestOwed ==
    ASSUME History, Debts, AtRest
    PROVE  /\ Owed(db, {}, queued) /\ db = committed
           /\ IsTable(db) /\ IsChain(db) /\ Sound(db) /\ Later(db, db)
<1>1. db = committed /\ on_commit = {} /\ IsTable(db)
  BY InvFacts DEF History, Inv, TypeOK
<1>2. Frames(calls) = {} /\ on_commit \cup queued = queued
  BY <1>1 DEF AtRest, Frames
<1> QED
  BY <1>1, <1>2, InvFacts, LaterReflexive DEF Debts, History

LEMMA BeginDebts ==
    ASSUME History, Debts, NEW who, NEW d, NEW cs, Begin(who, d, cs),
           Owed(d, {}, queued), Reactions(d, Frames(cs))
    PROVE  Debts'
<1>1. /\ AtRest /\ db' = d /\ calls' = cs /\ on_commit' \cup queued' = queued
      /\ cs = <<>> => committed' = d /\ queued' = queued
      /\ cs # <<>> => committed' = committed /\ queued' = queued
  BY DEF Begin, Proceed
<1>2. Owed(db, {}, queued) /\ db = committed
  BY <1>1, RestOwed
<1>3. Owed(d, Frames(cs), queued)
  BY DEF Owed, Covered
<1>4. Undoable'
  BY <1>1, <1>2 DEF Undoable
<1> QED
  BY <1>1, <1>3, <1>4 DEF Debts

(* With calls that are no reactions.                                       *)
LEMMA BeginCallDebts ==
    ASSUME History, Debts, NEW who, NEW d, NEW c, Begin(who, d, <<c>>),
           Owed(d, {}, queued), ~Reacts(d, c),
           c.op = "next_pending" => c.worker # None
    PROVE  Debts'
<1>1. Frames(<<c>>) = {c}
  BY DEF Frames
<1>2. Reactions(d, {c})
  BY DEF Reactions
<1> DEFINE cs == <<c>>
<1> HIDE DEF cs
<1> QED
  BY <1>1, <1>2, BeginDebts DEF cs

LEMMA SteadyOwed ==
    ASSUME History, Debts, AtRest, NEW d, Later(db, d), Steady(db, d, None),
           \A j \in DOMAIN d \ DOMAIN db :
              d[j].parent = None /\ d[j].status # "running"
    PROVE  Owed(d, {}, queued)
<1>1. Owed(db, {}, queued) /\ IsTable(db)
  BY RestOwed
<1> SUFFICES ASSUME NEW p \in DOMAIN d, Unfinished(d, p)
             PROVE  Covered(d, {}, queued, p)
  BY DEF Owed
<1>2. /\ p \in DOMAIN db /\ Unfinished(db, p)
      /\ Children(d, p) = Children(db, p)
  BY <1>1, SteadyUnfinished
<1> QED
  BY <1>1, <1>2 DEF Owed, Covered

LEMMA CompletedCall ==
    ASSUME NEW d, NEW i, NEW res
    PROVE  LET c == CallMarkCompleted(i, res)
           IN  ~Reacts(d, c) /\ c.op # "next_pending"
  BY CompletedFrame DEF Reacts

LEMMA ScheduleInternalDebts ==
    ASSUME History, Debts, schedule_internal
    PROVE  Debts'
<1> DEFINE c == Frame("schedule_each", 0, Schedulable(db), "")
<1>1. Begin("task", db, <<c>>) /\ AtRest
  BY DEF schedule_internal, Begin
<1>2. c.op = "schedule_each"
  BY DEF Frame
<1> HIDE DEF c
<1>3. Owed(db, {}, queued)
  BY <1>1, RestOwed
<1> QED
  BY <1>1, <1>2, <1>3, BeginCallDebts DEF Reacts

LEMMA CompleteDelayTasksDebts ==
    ASSUME History, Debts, complete_delay_tasks
    PROVE  Debts'
<1>1. PICK S : Begin("task", db, <<Frame("complete_each", 0, S, "")>>)
  BY DEF complete_delay_tasks
<1> DEFINE c == Frame("complete_each", 0, S, "")
<1>2. c.op = "complete_each" /\ Begin("task", db, <<c>>) /\ AtRest
  BY <1>1 DEF Frame, Begin
<1> HIDE DEF c
<1>3. Owed(db, {}, queued)
  BY <1>2, RestOwed
<1> QED
  BY <1>2, <1>3, BeginCallDebts DEF Reacts

LEMMA AssignDebts ==
    ASSUME History, Debts, NEW k \in Workers, Assign(k)
    PROVE  Debts'
<1>1. PICK i \in DOMAIN db : \/ assign_worker(k, i) \/ assign_skipped(k, i)
                             \/ assign_failed(k, i)
  BY DEF Assign
<1> DEFINE d == [db EXCEPT ![i].worker = k]
           c(res) == CallMarkCompleted(i, res)
<1>2. AtRest /\ Type(db, i) = "Worker"
  BY <1>1 DEF assign_worker, assign_skipped, assign_failed, Assignable, Begin
<1>3. IsTable(db) /\ Sound(db) /\ Owed(db, {}, queued)
  BY <1>2, RestOwed
<1>4. Later(db, d) /\ Keeps(db, d)
  BY <1>2, <1>3, SetWorkerAllows, AllowsSound
<1>5. \A j \in DOMAIN db : d[j].status = db[j].status
  <2>1. \A j \in DOMAIN db : db[j] \in Row(Len(db))
    BY <1>3, TableFacts
  <2> QED
    BY <2>1 DEF Row
<1>6. \/ Begin("task", d, <<>>)
      \/ Begin("task", d, <<c("skipped")>>)
      \/ Begin("task", db, <<c("error")>>)
  BY <1>1 DEF assign_worker, assign_skipped, assign_failed
<1>7. \A e, res : ~Reacts(e, c(res)) /\ c(res).op # "next_pending"
  BY CompletedCall
<1> HIDE DEF c, d
<1>8. Owed(d, {}, queued)
  <2>1. DOMAIN d = DOMAIN db
    BY <1>3, <1>4, TableFacts DEF Keeps
  <2>2. Steady(db, d, None)
    BY <1>5 DEF Steady, InProgress
  <2> QED
    BY <1>2, <1>4, <2>1, <2>2, SteadyOwed
<1>9. Reactions(d, Frames(<<>>))
  BY DEF Reactions, Frames
<1> QED
  BY <1>3, <1>6, <1>7, <1>8, <1>9, BeginDebts, BeginCallDebts

LEMMA RunWorkflowTaskDebts ==
    ASSUME History, Debts, NEW i \in queued, run_workflow_task(i)
    PROVE  Debts'
<1> DEFINE c == CallOrchestrate(db, i)
<1>1. /\ db' = db /\ committed' = committed /\ on_commit' = on_commit
      /\ calls' = <<c>> /\ queued' = queued \ {i} /\ AtRest /\ caller' = "task"
  BY DEF run_workflow_task
<1>2. c.op = "orchestrate" /\ c.w = i
  BY DEF CallOrchestrate, Frame
<1> HIDE DEF c
<1>3. Frames(calls') = {c}
  BY <1>1 DEF Frames
<1>4. Owed(db, {}, queued)
  BY <1>1, RestOwed
<1>5. Owed(db, {c}, on_commit' \cup queued')
  <2>1. Starts(c, i)
    BY <1>2 DEF Starts
  <2> QED
    BY <1>1, <1>4, <2>1 DEF Owed, Covered
<1>6. Reactions(db, {c}) /\ Harmless(db, c)
  BY <1>2 DEF Reactions, Reacts, Harmless
<1>7. Undoable'
  BY <1>1, <1>3, <1>6 DEF Undoable
<1> QED
  BY <1>1, <1>3, <1>5, <1>6, <1>7 DEF Debts

LEMMA GetNextWorkRequestDebts ==
    ASSUME History, Debts, NEW k \in Workers, get_next_work_request(k)
    PROVE  Debts'
<1> DEFINE c == [Frame("next_pending", 0, {}, "") EXCEPT !.worker = k]
<1>1. c.op = "next_pending" /\ c.worker = k /\ k # None
  BY WorkRequestsAssumption DEF Frame
<1>2. AtRest
  BY DEF get_next_work_request, Begin
<1>3. Owed(db, {}, queued)
  BY <1>2, RestOwed
<1>4. CASE Begin("api", db, <<c>>)
  <2> HIDE DEF c
  <2> QED
    BY <1>1, <1>3, <1>4, BeginCallDebts DEF Reacts
<1>5. ASSUME NEW i,
             Begin("api", db, <<CallMarkAborted(i),
                                Frame("retry_lost", i, {}, "worker_failed")>>
                              \o <<c>>)
      PROVE  Debts'
  <2> DEFINE a == CallMarkAborted(i)
             b == Frame("retry_lost", i, {}, "worker_failed")
             t == <<c>>
             cs == <<a, b>> \o t
  <2>1. a.op = "mark_aborted" /\ b.op = "retry_lost" /\ Begin("api", db, cs)
    BY <1>5 DEF CallMarkAborted, Frame
  <2> HIDE DEF a, b, c
  <2>2. t \in Seq({c}) /\ Frames(t) = {c}
    BY DEF Frames
  <2> HIDE DEF t
  <2>3. Frames(cs) = {a, b} \cup {c}
    BY <2>2, FramesFacts
  <2>4. Reactions(db, {a, b} \cup {c})
    BY <1>1, <2>1 DEF Reactions, Reacts
  <2> HIDE DEF cs
  <2> QED
    BY <1>3, <2>1, <2>3, <2>4, BeginDebts
<1> QED
  BY <1>4, <1>5 DEF get_next_work_request

LEMMA ReportsDebts ==
    ASSUME History, Debts, NEW k, NEW statuses, Reports(k, statuses)
    PROVE  Debts'
<1>1. PICK i \in DOMAIN db, res \in Outcomes :
        Begin("api", db, <<CallMarkCompleted(i, res)>>)
  BY DEF Reports, update_work_request_as_completed
<1> DEFINE c == CallMarkCompleted(i, res)
<1>2. ~Reacts(db, c) /\ c.op # "next_pending"
  BY CompletedCall
<1>3. Begin("api", db, <<c>>)
  BY <1>1
<1> HIDE DEF c
<1>4. Owed(db, {}, queued)
  BY <1>3, RestOwed DEF Begin
<1> QED
  BY <1>2, <1>3, <1>4, BeginCallDebts

LEMMA CreateWorkRequestDebts ==
    ASSUME History, Debts, NEW s \in Step, create_work_request(s)
    PROVE  Debts'
<1> DEFINE r == NewRow(s, None, "pending")
           d == Append(db, r)
           n == Len(db) + 1
<1>1. Plan[s].parent = 0 /\ Begin("api", d, <<>>) /\ AtRest
  BY DEF create_work_request, Begin
<1>2. IsTable(db) /\ Sound(db)
  BY <1>1, RestOwed
<1>3. Len(db) \in Nat /\ DOMAIN db = 1..Len(db)
  BY <1>2, TableFacts
<1>4. s \in 0..Steps /\ 0 \in 0..Len(db) /\ "pending" \in Statuses
  BY <1>3, WorkRequestsAssumption DEF Step, Statuses
<1>5. Fits(db, d, r)
  BY <1>1, <1>2, <1>4, NewRowFits
<1>6. r.parent = None /\ r.status = "pending"
  BY DEF NewRow
<1> HIDE DEF r
<1>7. Later(db, d)
  BY <1>2, <1>5, AppendSound
<1>8. /\ DOMAIN d = 1..n /\ d[n] = r /\ \A j \in 1..Len(db) : d[j] = db[j]
  <2>1. r \in Row(n)
    BY <1>5 DEF Fits
  <2>2. /\ IsTable(d) /\ Len(d) = n /\ d[n] = r
        /\ \A j \in 1..Len(db) : d[j] = db[j]
    BY <1>2, <2>1, AppendTable
  <2> HIDE DEF d
  <2> QED
    BY <2>2, TableFacts
<1> HIDE DEF d
<1>9. Owed(d, {}, queued)
  <2>1. Steady(db, d, None)
    BY <1>3, <1>8 DEF Steady, InProgress
  <2>2. \A j \in DOMAIN d \ DOMAIN db : j = n
    BY <1>3, <1>8
  <2> QED
    BY <1>1, <1>6, <1>7, <1>8, <2>1, <2>2, SteadyOwed
<1>10. Reactions(d, Frames(<<>>))
  BY DEF Reactions, Frames
<1> QED
  BY <1>1, <1>9, <1>10, BeginDebts

LEMMA AbortDebts ==
    ASSUME History, Debts, NEW i, abort(i)
    PROVE  Debts'
<1> DEFINE S == {j \in DOMAIN db : i \in Ancestors(db, j) /\ verify_abort(db, j)}
           c == Frame("abort_each", 0, S, "manual")
<1>1. Begin("web", db, <<c>>) /\ AtRest
  BY DEF abort, Begin
<1>2. c.op = "abort_each"
  BY DEF Frame
<1> HIDE DEF c
<1>3. Owed(db, {}, queued)
  BY <1>1, RestOwed
<1> QED
  BY <1>1, <1>2, <1>3, BeginCallDebts DEF Reacts

LEMMA UserRetryDebts ==
    ASSUME History, Debts, NEW i, user_retry(i)
    PROVE  Debts'
<1> DEFINE c == CallRetry(i, "manual")
<1>1. c.op = "retry"
  BY DEF CallRetry, Frame
<1>2. AtRest /\ \E who \in {"api", "web"} : Begin(who, db, <<c>>)
  BY DEF user_retry, Begin
<1> HIDE DEF c
<1>3. Owed(db, {}, queued)
  BY <1>2, RestOwed
<1> QED
  BY <1>1, <1>2, <1>3, BeginCallDebts DEF Reacts

LEMMA ReviewManualUnblockDebts ==
    ASSUME History, Debts, NEW i \in DOMAIN db, review_manual_unblock(i)
    PROVE  Debts'
<1>1. AtRest /\ db[i].status = "blocked"
      /\ Entry(db, i).unblock_strategy = "manual"
  BY DEF review_manual_unblock, can_be_unblocked, Begin
<1>2. IsTable(db) /\ Sound(db) /\ Owed(db, {}, queued)
  BY <1>1, RestOwed
<1>3. CASE Begin("web", mark_pending(db, {i}), <<>>)
  <2> DEFINE d == mark_pending(db, {i})
  <2>1. Later(db, d) /\ Keeps(db, d)
    BY <1>1, <1>2, MarkPendingAllows, AllowsSound
  <2>2. Steady(db, d, None)
    BY <1>1, <1>2, MarkPendingSteady
  <2>3. Begin("web", d, <<>>)
    BY <1>3
  <2> HIDE DEF d
  <2>4. DOMAIN d = DOMAIN db
    BY <1>2, <2>1, TableFacts DEF Keeps
  <2>5. Owed(d, {}, queued)
    BY <1>1, <2>1, <2>2, <2>4, SteadyOwed
  <2>6. Reactions(d, Frames(<<>>))
    BY DEF Reactions, Frames
  <2> QED
    BY <2>3, <2>5, <2>6, BeginDebts
<1>4. CASE Begin("web", db, <<CallMarkAborted(i)>>)
  <2> DEFINE c == CallMarkAborted(i)
  <2>1. c.op = "mark_aborted" /\ Begin("web", db, <<c>>)
    BY <1>4 DEF CallMarkAborted, Frame
  <2> HIDE DEF c
  <2> QED
    BY <1>2, <2>1, BeginCallDebts DEF Reacts
<1> QED
  BY <1>3, <1>4 DEF review_manual_unblock

-----------------------------------------------------------------------------
(* The theorem.                                                            *)

LEMMA InitDebts == Init => Debts
<1> SUFFICES ASSUME Init PROVE Debts
  OBVIOUS
<1>1. /\ db = <<>> /\ committed = <<>> /\ Frames(calls) = {}
  BY DEF Init, Frames
<1>2. \A F, H : Owed(<<>>, F, H)
  BY DEF Owed
<1>3. Reactions(db, {})
  BY DEF Reactions
<1> QED
  BY <1>1, <1>2, <1>3 DEF Debts, Undoable

LEMMA NextDebts == History /\ Debts /\ [Next]_vars => Debts'
<1> SUFFICES ASSUME History, Debts, [Next]_vars PROVE Debts'
  OBVIOUS
<1>1. CASE Method
  BY <1>1, MarkAbortedDebts, AbortEachDebts, MarkCompletedDebts,
     UnblockReverseDependenciesDebts, ProcessRetryWithDelaysDebts,
     MaybeFinishWorkflowDebts, RetryDebts, RetryEachDebts,
     OrchestrateCallbackDebts, OrchestrateWorkflowDebts,
     OrchestrateFailsDebts, ScheduleEachDebts, CompleteEachDebts,
     RetryLostDebts, NextPendingDebts DEF Method
<1>2. CASE User
  BY <1>2, CreateWorkRequestDebts, AbortDebts, UserRetryDebts,
     ReviewManualUnblockDebts DEF User
<1>3. CASE schedule_internal
  BY <1>3, ScheduleInternalDebts
<1>4. CASE \E i \in queued : run_workflow_task(i)
  BY <1>4, RunWorkflowTaskDebts
<1>5. CASE complete_delay_tasks
  BY <1>5, CompleteDelayTasksDebts
<1>6. CASE \E k \in Workers : \/ Assign(k) \/ Worker(k)
                             \/ Reports(k, {"completed", "aborted"})
  BY <1>6, AssignDebts, GetNextWorkRequestDebts, ReportsDebts DEF Worker
<1>7. CASE UNCHANGED vars
  BY <1>7 DEF vars, Debts, Undoable
<1> QED
  BY <1>1, <1>2, <1>3, <1>4, <1>5, <1>6, <1>7 DEF Next

LEMMA SpecDebts == Spec => []Debts
<1>1. History /\ Debts /\ [Next]_vars => Debts'
  BY NextDebts
<1> QED
  BY <1>1, InitDebts, SpecHistory, PTL DEF Spec

(* Whatever completes, fails, is aborted, lost, retried or rolled back,    *)
(* and in whatever order: when no transaction is under way, a workflow     *)
(* that is still running has a child in progress, or a Celery task is      *)
(* queued that will populate it.                                           *)
THEOREM EveryEndSeen == Spec => []NoMissedFinish
<1>1. History /\ Debts => NoMissedFinish
  <2> SUFFICES ASSUME History, Debts, AtRest
               PROVE  \A p \in DOMAIN db : Unfinished(db, p) => p \in queued
    BY DEF NoMissedFinish
  <2>1. Owed(db, {}, queued)
    BY RestOwed
  <2> QED
    BY <2>1 DEF Owed, Covered
<1> QED
  BY <1>1, SpecHistory, SpecDebts, PTL

-----------------------------------------------------------------------------
(* Nobody waits for an attempt that was superseded.                        *)

(* Artifacts are only required of the children of root workflows.  Those   *)
(* are the requests whose promises _retry_supersede updates: a sub-workflow *)
(* has no internal collection.                                             *)
RootsPromise ==
    \A s \in Step : \A t \in Plan[s].deps :
        Plan[t].parent # 0 /\ Plan[Plan[t].parent].parent = 0

(* Dependencies are on the last attempt, of requests that are over, too.   *)
UpToDate(d) == \A i \in DOMAIN d : \A j \in d[i].deps : ~Superseded(d, j)

(* Rows are children of the workflow that plans them.                      *)
Placed(d, r) ==
    r.step # Delay =>
       IF Plan[r.step].parent = 0 THEN r.parent = None
       ELSE r.parent # None /\ d[r.parent].step = Plan[r.step].parent
InPlan(d) == UpToDate(d) /\ \A i \in DOMAIN d : Placed(d, d[i])

(* What is left of a populate() is of its workflow.                        *)
Populates(d, c) ==
    c.op = "orchestrate" => \A s \in c.set : Plan[s].parent = d[c.w].step

Promises ==
    /\ InPlan(db) /\ InPlan(committed)
    /\ \A c \in Frames(calls) : Populates(db, c)

-----------------------------------------------------------------------------
(* Tables whose dependencies are kept.                                     *)

SameDeps(d, e) == Keeps(d, e) /\ \A i \in 1..Len(d) : e[i].deps = d[i].deps

LEMMA SameDepsInPlan ==
    ASSUME NEW d, NEW e, IsTable(d), InPlan(d), SameDeps(d, e)
    PROVE  InPlan(e)
<1>1. /\ DOMAIN d = 1..Len(d) /\ DOMAIN e = 1..Len(d)
      /\ \A j : Superseded(e, j) <=> Superseded(d, j)
      /\ \A i \in 1..Len(d) : e[i].deps = d[i].deps /\ SameTask(d[i], e[i])
      /\ \A i \in 1..Len(d) : d[i].parent # None => d[i].parent \in 1..Len(d)
  BY TableFacts, RowFacts, SameSuperseded DEF SameDeps, Keeps
<1>2. UpToDate(e)
  BY <1>1 DEF InPlan, UpToDate
<1>3. \A i \in DOMAIN e : Placed(e, e[i])
  BY <1>1 DEF InPlan, Placed, SameTask
<1> QED
  BY <1>2, <1>3 DEF InPlan

(* New statuses, results, workers and retry counts.                        *)
LEMMA WritesSameDeps ==
    ASSUME NEW d, IsTable(d), NEW i
    PROVE  /\ SameDeps(d, d)
           /\ \A st \in Statuses : SameDeps(d, Set(d, i, st))
           /\ \A st \in Statuses, res \in Results :
                 SameDeps(d, [d EXCEPT ![i].status = st, ![i].result = res])
           /\ \A k \in Workers \cup {None} : SameDeps(d, [d EXCEPT ![i].worker = k])
           /\ \A c \in Nat : SameDeps(d, [d EXCEPT ![i].retry_count = c])
           /\ SameDeps(d, Reopen(d, i))
           /\ \A S : SameDeps(d, mark_pending(d, S))
<1>1. \A j \in 1..Len(d) : j \in DOMAIN d /\ d[j] \in Row(Len(d))
  BY TableFacts
<1>2. SameDeps(d, d)
  BY KeepsReflexive DEF SameDeps
<1>3. ASSUME NEW st \in Statuses
      PROVE  SameDeps(d, Set(d, i, st))
  <2>1. \A j \in 1..Len(d) : Set(d, i, st)[j].deps = d[j].deps
    BY <1>1 DEF Set, Row
  <2> QED
    BY <2>1, SetKeeps DEF SameDeps
<1>4. ASSUME NEW st \in Statuses, NEW res \in Results
      PROVE  SameDeps(d, [d EXCEPT ![i].status = st, ![i].result = res])
  <2> DEFINE e == [d EXCEPT ![i].status = st, ![i].result = res]
  <2>1. \A j \in 1..Len(d) : e[j].deps = d[j].deps
    BY <1>1 DEF Row
  <2>2. Keeps(d, e)
    BY FinishKeeps
  <2> HIDE DEF e
  <2>3. SameDeps(d, e)
    BY <2>1, <2>2 DEF SameDeps
  <2> QED
    BY <2>3 DEF e
<1>5. ASSUME NEW k \in Workers \cup {None}
      PROVE  SameDeps(d, [d EXCEPT ![i].worker = k])
  <2> DEFINE e == [d EXCEPT ![i].worker = k]
  <2>1. \A j \in 1..Len(d) : e[j].deps = d[j].deps
    BY <1>1 DEF Row
  <2>2. Keeps(d, e)
    BY SetWorkerKeeps
  <2> HIDE DEF e
  <2>3. SameDeps(d, e)
    BY <2>1, <2>2 DEF SameDeps
  <2> QED
    BY <2>3 DEF e
<1>6. ASSUME NEW c \in Nat
      PROVE  SameDeps(d, [d EXCEPT ![i].retry_count = c])
  <2> DEFINE e == [d EXCEPT ![i].retry_count = c]
  <2>1. \A j \in 1..Len(d) : e[j].deps = d[j].deps
    BY <1>1 DEF Row
  <2>2. Keeps(d, e)
    BY SetRetryCountKeeps
  <2> HIDE DEF e
  <2>3. SameDeps(d, e)
    BY <2>1, <2>2 DEF SameDeps
  <2> QED
    BY <2>3 DEF e
<1>7. SameDeps(d, Reopen(d, i))
  <2>1. "running" \in Statuses /\ "none" \in Results
    BY DEF Statuses, Results
  <2> QED
    BY <1>2, <1>4, <2>1 DEF Reopen
<1>8. ASSUME NEW S
      PROVE  SameDeps(d, mark_pending(d, S))
  <2>1. \A j \in 1..Len(d) : mark_pending(d, S)[j].deps = d[j].deps
    BY <1>1 DEF mark_pending, Row
  <2> QED
    BY <2>1, MarkPendingKeeps DEF SameDeps
<1> QED
  BY <1>2, <1>3, <1>4, <1>5, <1>6, <1>7, <1>8

(* A row without dependencies, in its place.                               *)
LEMMA AppendInPlan ==
    ASSUME NEW d, IsTable(d), InPlan(d), NEW r \in Row(Len(d) + 1),
           r.deps = {}, r.supersedes = None, Placed(d, r),
           r.parent # None => r.parent \in DOMAIN d
    PROVE  InPlan(Append(d, r))
<1> DEFINE e == Append(d, r)
           n == Len(d) + 1
<1>1. /\ Len(d) \in Nat /\ DOMAIN d = 1..Len(d) /\ DOMAIN e = 1..n
      /\ e[n] = r /\ \A i \in 1..Len(d) : e[i] = d[i]
  BY TableFacts, AppendTable
<1>2. \A i \in 1..Len(d) : /\ d[i].deps \subseteq 1..Len(d)
                           /\ d[i].parent # None => d[i].parent \in 1..Len(d)
  BY <1>1, RowFacts
<1> HIDE DEF e
<1>3. \A j \in 1..Len(d) : Superseded(e, j) <=> Superseded(d, j)
  <2>1. \A k \in 1..n : k \in 1..Len(d) \/ k = n
    BY <1>1
  <2>2. \A k \in 1..Len(d) : k \in 1..n
    BY <1>1
  <2>3. n \in 1..n /\ \A j \in 1..Len(d) : e[n].supersedes # j
    BY <1>1 DEF None
  <2> HIDE DEF n
  <2> QED
    BY <1>1, <2>1, <2>2, <2>3 DEF Superseded
<1>4. UpToDate(e)
  BY <1>1, <1>2, <1>3 DEF InPlan, UpToDate
<1>5. \A i \in 1..Len(d) : Placed(e, e[i])
  BY <1>1, <1>2 DEF InPlan, Placed
<1>6. Placed(e, e[n])
  BY <1>1 DEF Placed
<1>7. InPlan(e)
  BY <1>1, <1>4, <1>5, <1>6 DEF InPlan
<1> QED
  BY <1>7 DEF e

(* Dependencies on attempts that are not superseded.                       *)
LEMMA AddInPlan ==
    ASSUME NEW d, IsTable(d), InPlan(d), NEW i, NEW deps \in SUBSET (1..Len(d)),
           \A j \in deps : ~Superseded(d, j)
    PROVE  InPlan(add_dependencies(d, i, deps))
<1> DEFINE e == add_dependencies(d, i, deps)
<1>1. Keeps(d, e)
  BY AddDependenciesKeeps
<1>2. \A k \in 1..Len(d) : e[k].deps \subseteq d[k].deps \cup deps
  <2>1. \A k \in 1..Len(d) : k \in DOMAIN d /\ d[k] \in Row(Len(d))
    BY TableFacts
  <2> QED
    BY <2>1 DEF add_dependencies, Row
<1> HIDE DEF e
<1>3. /\ DOMAIN d = 1..Len(d) /\ DOMAIN e = 1..Len(d)
      /\ \A j : Superseded(e, j) <=> Superseded(d, j)
      /\ \A k \in 1..Len(d) : SameTask(d[k], e[k])
      /\ \A k \in 1..Len(d) : d[k].parent # None => d[k].parent \in 1..Len(d)
  BY <1>1, TableFacts, RowFacts, SameSuperseded DEF Keeps
<1>4. UpToDate(e)
  BY <1>2, <1>3 DEF InPlan, UpToDate
<1>5. \A k \in DOMAIN e : Placed(e, e[k])
  BY <1>3 DEF InPlan, Placed, SameTask
<1>6. InPlan(e)
  BY <1>4, <1>5 DEF InPlan
<1> QED
  BY <1>6 DEF e

(* A retry takes over all that waited for the old attempt.                 *)
LEMMA SupersedeInPlan ==
    ASSUME NEW d, IsTable(d), InPlan(d), NEW i \in 1..Len(d), NEW reason
    PROVE  LET e == retry_supersede(d, i, reason)
           IN  /\ InPlan(e) /\ IsTable(e) /\ Len(e) = Len(d) + 1
               /\ \A j \in 1..Len(d) :
                     e[j].step = d[j].step
                     /\ (Superseded(e, j) => j = i \/ Superseded(d, j))
<1> DEFINE n == Len(d) + 1
           c == retry_count(d, i, reason)
           r == [d[i] EXCEPT !.status = "blocked", !.result = "none",
                             !.retry_count = c, !.supersedes = i,
                             !.worker = None]
           d1 == Append(d, r)
           d2 == Repoint(d1, i, n)
           d3 == Reopen(d2, d[i].parent)
           S == {n} \cap {j \in DOMAIN d3 : can_be_automatically_unblocked(d3, j)}
           e == mark_pending(d3, S)
<1>1. /\ Len(d) \in Nat /\ n \in Nat /\ d[i] \in Row(Len(d)) /\ d[i] \in Row(n)
      /\ DOMAIN d = 1..Len(d) /\ i # n /\ n \in 1..n /\ n \notin 1..Len(d)
  BY TableFacts, RowGrows
<1>2. /\ r.step = d[i].step /\ r.parent = d[i].parent /\ r.deps = d[i].deps
      /\ r.supersedes = i /\ r \in Row(n)
  <2>1. c \in Nat /\ i \in 0..n
    BY <1>1 DEF retry_count, Row
  <2>2. r \in Row(n)
    <3> HIDE DEF n, c
    <3> QED
      BY <1>1, <2>1 DEF Row, Statuses, Results
  <2> QED
    BY <1>1, <2>2 DEF Row
<1> HIDE DEF r
<1>3. /\ IsTable(d1) /\ Len(d1) = n /\ DOMAIN d1 = 1..n /\ d1[n] = r
      /\ \A j \in 1..Len(d) : d1[j] = d[j]
  BY <1>1, <1>2, AppendTable, TableFacts
<1> HIDE DEF d1
<1>4. \A j \in 1..Len(d) : /\ d[j].deps \subseteq 1..Len(d)
                           /\ d[j].parent # None => d[j].parent \in 1..Len(d)
                           /\ d[j].supersedes \in 0..Len(d)
  BY <1>1, TableFacts, RowFacts DEF Row
<1>5. \A j \in 1..n : Superseded(d1, j) => j = i \/ Superseded(d, j)
  BY <1>1, <1>2, <1>3 DEF Superseded
<1>6. ~Superseded(d, n)
  BY <1>1, <1>4 DEF Superseded
<1>7. /\ Keeps(d1, d2) /\ IsTable(d2) /\ DOMAIN d2 = 1..n
      /\ \A j : Superseded(d2, j) <=> Superseded(d1, j)
      /\ \A j \in 1..n : SameTask(d1[j], d2[j])
  <2>1. Keeps(d1, d2)
    BY <1>1, <1>3, RepointKeeps
  <2> HIDE DEF d2
  <2> QED
    BY <1>3, <2>1, TableFacts, SameSuperseded DEF Keeps
<1>8. \A j \in 1..n : d2[j].deps = IF i \in d1[j].deps
                                   THEN (d1[j].deps \ {i}) \cup {n}
                                   ELSE d1[j].deps
  <2>1. \A j \in 1..n : d1[j] \in Row(n) /\ j \in DOMAIN d1
    BY <1>3, TableFacts
  <2> HIDE DEF n
  <2> QED
    BY <2>1 DEF Repoint, Row
<1> HIDE DEF d2
<1>9. \A j \in 1..n : \A k \in d1[j].deps : k \in 1..Len(d) /\ ~Superseded(d, k)
  <2>1. \A j \in 1..n : j \in 1..Len(d) \/ j = n
    BY <1>1
  <2>2. \A j \in 1..Len(d) : \A k \in d[j].deps : ~Superseded(d, k)
    BY <1>1 DEF InPlan, UpToDate
  <2> QED
    BY <1>2, <1>3, <1>4, <2>1, <2>2
<1>10. UpToDate(d2)
  <2> SUFFICES ASSUME NEW j \in 1..n, NEW k \in d2[j].deps
               PROVE  ~Superseded(d1, k)
    BY <1>7 DEF UpToDate
  <2>1. k = n \/ k \in d1[j].deps \ {i}
    BY <1>8
  <2> QED
    BY <1>1, <1>5, <1>6, <1>9, <2>1
<1>11. \A j \in 1..n : Placed(d1, d1[j])
  <2>1. \A j \in 1..Len(d) : Placed(d1, d1[j])
    BY <1>1, <1>3, <1>4 DEF InPlan, Placed
  <2>2. Placed(d1, r)
    BY <1>1, <1>2, <1>3, <1>4 DEF InPlan, Placed
  <2> QED
    BY <1>1, <1>3, <2>1, <2>2
<1>12. \A j \in 1..n : Placed(d2, d2[j])
  <2>1. \A j \in 1..n : d1[j].parent # None => d1[j].parent \in 1..n
    BY <1>3, RowFacts
  <2> QED
    BY <1>7, <1>11, <2>1 DEF Placed, SameTask
<1>13. InPlan(d2)
  BY <1>7, <1>10, <1>12 DEF InPlan
<1>14. InPlan(d3) /\ Keeps(d2, d3)
  <2>1. SameDeps(d2, d3)
    BY <1>7, WritesSameDeps
  <2> HIDE DEF d3
  <2> QED
    BY <1>7, <1>13, <2>1, SameDepsInPlan DEF SameDeps
<1> HIDE DEF d3
<1>15. InPlan(e) /\ Keeps(d3, e)
  <2>1. IsTable(d3)
    BY <1>14 DEF Keeps
  <2>2. SameDeps(d3, e)
    BY <2>1, WritesSameDeps
  <2> HIDE DEF e
  <2> QED
    BY <1>14, <2>1, <2>2, SameDepsInPlan DEF SameDeps
<1> HIDE DEF e
<1>16. e = retry_supersede(d, i, reason)
  BY DEF retry_supersede, e, S, d3, d2, d1, r
<1>17. \A j \in 1..Len(d) : /\ e[j].step = d[j].step
                            /\ Superseded(e, j) => j = i \/ Superseded(d, j)
  <2>1. Keeps(d2, e)
    BY <1>7, <1>14, <1>15, KeepsTransitive
  <2>2. \A j : Superseded(e, j) <=> Superseded(d2, j)
    BY <1>7, <2>1, SameSuperseded
  <2>3. \A j \in 1..n : e[j].step = d2[j].step
    BY <1>7, <2>1, TableFacts DEF Keeps, SameTask
  <2>4. \A j \in 1..Len(d) : j \in 1..n
    BY <1>1
  <2> HIDE DEF n
  <2> QED
    BY <1>3, <1>5, <1>7, <2>2, <2>3, <2>4 DEF SameTask
<1>18. IsTable(e) /\ Len(e) = n
  BY <1>3, <1>7, <1>14, <1>15 DEF Keeps
<1> QED
  BY <1>15, <1>16, <1>17, <1>18

-----------------------------------------------------------------------------
(* Steps of transactions.                                                  *)

LEMMA ProceedPromises ==
    ASSUME Inv, Promises, NEW who, NEW d, InPlan(d),
           \A i \in 1..Len(db) : d[i].step = db[i].step,
           NEW cs, \A c \in Frames(cs) : c \in Frames(calls) \/ Populates(d, c),
           NEW hooks, Proceed(who, d, cs, hooks)
    PROVE  Promises'
<1>1. /\ db' = d /\ calls' = cs
      /\ committed' = d \/ committed' = committed
  BY DEF Proceed
<1>2. calls \in Seq(Call(Len(db)))
  BY DEF Inv, TypeOK
<1>3. Frames(calls) \subseteq Call(Len(db))
  BY <1>2, FramesFacts
<1>4. ASSUME NEW c \in Frames(calls)
      PROVE  Populates(d, c)
  <2>1. c.op = "orchestrate" => c.w \in 1..Len(db)
    BY <1>3 DEF Call, Methods
  <2>2. Populates(db, c)
    BY DEF Promises
  <2> QED
    BY <2>1, <2>2 DEF Populates
<1>5. InPlan(committed')
  BY <1>1 DEF Promises
<1>6. \A c \in Frames(cs) : Populates(d, c)
  BY <1>4
<1> QED
  BY <1>1, <1>5, <1>6 DEF Promises

(* With calls a, b and c on top of those that are left.                    *)
LEMMA ContinuePromises ==
    ASSUME Inv, Promises, ~AtRest, NEW d, InPlan(d),
           \A i \in 1..Len(db) : d[i].step = db[i].step,
           NEW a, NEW b, Populates(d, a), Populates(d, b),
           \/ Continue(d, Rest)
           \/ \E hooks : ContinueWith(d, Rest, hooks)
           \/ Continue(d, <<a>> \o Rest)
           \/ \E hooks : ContinueWith(d, <<a>> \o Rest, hooks)
           \/ Continue(d, <<a, b>> \o Rest)
    PROVE  Promises'
<1>1. /\ Frames(calls) = {Top} \cup Frames(Rest)
      /\ Frames(<<a>> \o Rest) = {a} \cup Frames(Rest)
      /\ Frames(<<a, b>> \o Rest) = {a, b} \cup Frames(Rest)
  BY TopFrames, FramesFacts
<1>2. ASSUME NEW cs \in {Rest, <<a>> \o Rest, <<a, b>> \o Rest}
      PROVE  \A c \in Frames(cs) : c \in Frames(calls) \/ Populates(d, c)
  BY <1>1
<1>3. PICK cs \in {Rest, <<a>> \o Rest, <<a, b>> \o Rest} :
        \E hooks : Proceed(caller, d, cs, hooks)
  BY DEF Continue, ContinueWith
<1> QED
  BY <1>2, <1>3, ProceedPromises

(* Where dependencies stay, and nothing is populated.                      *)
LEMMA QuietPromises ==
    ASSUME Inv, Promises, ~AtRest, NEW d, SameDeps(db, d), NEW a, NEW b,
           a.op # "orchestrate", b.op # "orchestrate",
           \/ Continue(d, Rest)
           \/ \E hooks : ContinueWith(d, Rest, hooks)
           \/ Continue(d, <<a>> \o Rest)
           \/ \E hooks : ContinueWith(d, <<a>> \o Rest, hooks)
           \/ Continue(d, <<a, b>> \o Rest)
    PROVE  Promises'
<1>1. InPlan(d) /\ \A i \in 1..Len(db) : d[i].step = db[i].step
  BY InvFacts, SameDepsInPlan DEF Promises, SameDeps, Keeps, SameTask
<1>2. Populates(d, a) /\ Populates(d, b)
  BY DEF Populates
<1> QED
  BY <1>1, <1>2, ContinuePromises

(* A transaction that begins.                                              *)
LEMMA BeginPromises ==
    ASSUME Inv, Promises, NEW who, NEW d, SameDeps(db, d), NEW a, NEW b, NEW c,
           {a.op, b.op, c.op} \cap {"orchestrate"} = {},
           \/ Begin(who, d, <<>>) \/ Begin(who, d, <<c>>)
           \/ Begin(who, d, <<a, b>> \o <<c>>)
    PROVE  Promises'
<1>1. InPlan(d) /\ \A i \in 1..Len(db) : d[i].step = db[i].step
  BY InvFacts, SameDepsInPlan DEF Promises, SameDeps, Keeps, SameTask
<1>2. Populates(d, a) /\ Populates(d, b) /\ Populates(d, c)
  BY DEF Populates
<1>3. /\ Frames(<<>>) = {} /\ Frames(<<c>>) = {c} /\ <<c>> \in Seq({c})
  BY DEF Frames
<1>4. Frames(<<a, b>> \o <<c>>) = {a, b} \cup {c}
  <2> DEFINE t == <<c>>
  <2>1. t \in Seq({c}) /\ Frames(t) = {c}
    BY <1>3
  <2> HIDE DEF t
  <2>2. Frames(<<a, b>> \o t) = {a, b} \cup {c}
    BY <2>1, FramesFacts
  <2> QED
    BY <2>2 DEF t
<1>5. ASSUME NEW cs, Frames(cs) \subseteq {a, b, c}, Begin(who, d, cs)
      PROVE  Promises'
  BY <1>1, <1>2, <1>5, ProceedPromises DEF Begin
<1> QED
  BY <1>3, <1>4, <1>5

LEMMA RaisePromises ==
    ASSUME Promises, Raise
    PROVE  Promises'
<1>1. db' = committed /\ committed' = committed /\ Frames(calls') = {}
  BY DEF Raise, Frames
<1> QED
  BY <1>1 DEF Promises

(* The methods.                                                            *)

LEMMA MarkAbortedPromises ==
    ASSUME Inv, Promises, mark_aborted
    PROVE  Promises'
<1> DEFINE a == Frame("unblock_reverse_dependencies", Top.w, {}, "")
           b == CallFinish(db[Top.w].parent)
<1>1. ~AtRest /\ Continue(Set(db, Top.w, "aborted"), <<a, b>> \o Rest)
  BY DEF mark_aborted
<1>2. a.op # "orchestrate" /\ b.op # "orchestrate"
  BY DEF Frame, CallFinish
<1>3. SameDeps(db, Set(db, Top.w, "aborted"))
  BY InvFacts, WritesSameDeps DEF Statuses
<1> HIDE DEF a, b
<1> QED
  BY <1>1, <1>2, <1>3, QuietPromises

LEMMA AbortEachPromises ==
    ASSUME Inv, Promises, abort_each
    PROVE  Promises'
<1> DEFINE a(i) == CallMarkAborted(i)
           b(i) == Frame("abort_each", 0, Top.set \ {i}, Top.arg)
           d(i) == [db EXCEPT ![i].worker = None]
<1>1. /\ ~AtRest
      /\ \/ Continue(db, Rest)
         \/ \E i \in Top.set : \/ Continue(db, <<a(i), b(i)>> \o Rest)
                               \/ Continue(d(i), <<a(i), b(i)>> \o Rest)
  BY DEF abort_each
<1>2. \A i : a(i).op # "orchestrate" /\ b(i).op # "orchestrate"
  BY DEF Frame, CallMarkAborted
<1>3. SameDeps(db, db) /\ \A i : SameDeps(db, d(i))
  BY InvFacts, WritesSameDeps
<1> HIDE DEF a, b, d
<1>4. CASE Continue(db, Rest)
  BY <1>1, <1>2, <1>3, <1>4, QuietPromises
<1>5. ASSUME NEW i, \/ Continue(db, <<a(i), b(i)>> \o Rest)
                    \/ Continue(d(i), <<a(i), b(i)>> \o Rest)
      PROVE  Promises'
  <2> DEFINE x == a(i)
             y == b(i)
             e == d(i)
  <2>1. /\ x.op # "orchestrate" /\ y.op # "orchestrate" /\ SameDeps(db, e)
        /\ Continue(db, <<x, y>> \o Rest) \/ Continue(e, <<x, y>> \o Rest)
    BY <1>2, <1>3, <1>5
  <2> HIDE DEF x, y, e
  <2> QED
    BY <1>1, <1>3, <2>1, QuietPromises
<1> QED
  BY <1>1, <1>4, <1>5

LEMMA MarkCompletedPromises ==
    ASSUME Inv, Promises, mark_completed
    PROVE  Promises'
<1> DEFINE i == Top.w
           p == db[i].parent
           a == Frame("unblock_reverse_dependencies", i, {}, "")
           b == Frame("process_retry_with_delays", i, {}, db[p].status)
           c == CallFinish(p)
           d == [db EXCEPT ![i].status = "completed", ![i].result = Top.arg]
           reaction == IF Top.arg \in {"failure", "error"} /\ p # None
                       THEN <<b>> ELSE <<>>
           cs == <<a>> \o reaction \o <<c>> \o Rest
<1>1. /\ ~AtRest /\ Top.op = "mark_completed" /\ Top.arg \in Results
      /\ Rest \in Seq(Call(Len(db)))
      /\ Continue(db, Rest) \/ Continue(d, cs)
  BY TopFacts DEF mark_completed
<1>2. /\ a.op # "orchestrate" /\ b.op # "orchestrate" /\ c.op # "orchestrate"
  BY DEF Frame, CallFinish
<1>3. SameDeps(db, db) /\ SameDeps(db, d)
  <2>1. "completed" \in Statuses
    BY DEF Statuses
  <2> QED
    BY <1>1, <2>1, InvFacts, WritesSameDeps
<1>4. reaction \in {<<>>, <<b>>}
  OBVIOUS
<1> HIDE DEF a, b, c, d, reaction
<1>5. cs \in {<<a, c>> \o Rest, <<a, b>> \o (<<c>> \o Rest)}
  <2>1. reaction \in Seq({b})
    <3>1. <<b>> \in Seq({b}) /\ <<>> \in Seq({b})
      BY EmptySeq
    <3> QED
      BY <1>4, <3>1, Zenon
  <2>2. cs = <<a>> \o (reaction \o (<<c>> \o Rest))
    <3> DEFINE S == Call(Len(db))
               T == {b}
    <3>1. Rest \in Seq(S) /\ reaction \in Seq(T)
      BY <1>1, <2>1
    <3> HIDE DEF S, T
    <3>2. <<a>> \o reaction \o <<c>> \o Rest
            = <<a>> \o (reaction \o (<<c>> \o Rest))
      BY <3>1, SpliceFacts
    <3> QED
      BY <3>2
  <2> DEFINE t == <<c>> \o Rest
             S == Call(Len(db)) \cup {c}
  <2>3. t \in Seq(S)
    BY <1>1, PushFacts
  <2>4. <<a, c>> \o Rest = <<a>> \o t
    BY <1>1, PairFacts
  <2> HIDE DEF t, S
  <2>5. /\ <<a, b>> \o t = <<a>> \o (<<b>> \o t)
        /\ <<>> \o t = t
    BY <2>3, PairFacts, ConcatEmptySeq
  <2> QED
    BY <1>4, <2>2, <2>4, <2>5 DEF t
<1>6. CASE Continue(db, Rest)
  BY <1>1, <1>2, <1>3, <1>6, QuietPromises
<1>7. CASE Continue(d, <<a, c>> \o Rest)
  <2> HIDE DEF cs
  <2> QED
    BY <1>1, <1>2, <1>3, <1>7, QuietPromises
<1>8. CASE Continue(d, <<a, b>> \o (<<c>> \o Rest))
  <2> DEFINE t == <<c>> \o Rest
             ct == <<a, b>> \o t
  <2>1. t \in Seq(Call(Len(db)) \cup {c}) /\ Frames(t) = {c} \cup Frames(Rest)
    BY <1>1, PushFacts, FramesFacts
  <2>2. Proceed(caller, d, ct, on_commit)
    BY <1>8 DEF Continue, ContinueWith
  <2> HIDE DEF t
  <2>3. Frames(ct) = {a, b} \cup Frames(t)
    BY <2>1, FramesFacts
  <2>4. InPlan(d) /\ \A j \in 1..Len(db) : d[j].step = db[j].step
    BY <1>3, InvFacts, SameDepsInPlan DEF Promises, SameDeps, Keeps, SameTask
  <2>5. Frames(Rest) \subseteq Frames(calls)
    BY <1>1, TopFrames
  <2>6. \A x \in Frames(ct) : x \in Frames(calls) \/ Populates(d, x)
    BY <1>2, <2>1, <2>3, <2>5 DEF Populates
  <2> HIDE DEF ct
  <2> QED
    BY <2>2, <2>4, <2>6, ProceedPromises
<1> QED
  BY <1>1, <1>5, <1>6, <1>7, <1>8

LEMMA UnblockReverseDependenciesPromises ==
    ASSUME Inv, Promises, unblock_reverse_dependencies
    PROVE  Promises'
<1> DEFINE rdeps == reverse_dependencies(db, Top.w)
           S == {j \in rdeps : can_be_automatically_unblocked(db, j)}
           a == Frame("abort_each", 0, {j \in rdeps : db[j].status = "blocked"}, "")
<1>1. /\ ~AtRest
      /\ \/ Continue(mark_pending(db, S), Rest)
         \/ Continue(db, <<a>> \o Rest)
  BY DEF unblock_reverse_dependencies
<1>2. a.op # "orchestrate"
  BY DEF Frame
<1> HIDE DEF S, a
<1>3. SameDeps(db, db) /\ SameDeps(db, mark_pending(db, S))
  BY InvFacts, WritesSameDeps
<1> QED
  BY <1>1, <1>2, <1>3, QuietPromises

LEMMA MaybeFinishWorkflowPromises ==
    ASSUME Inv, Promises, maybe_finish_workflow
    PROVE  Promises'
<1> DEFINE a == CallMarkAborted(Top.w)
           b == CallMarkCompleted(Top.w, FinishResult(db, Top.w))
<1>1. /\ ~AtRest
      /\ \/ Continue(db, Rest) \/ Continue(db, <<a>> \o Rest)
         \/ Continue(db, <<b>> \o Rest)
  BY DEF maybe_finish_workflow
<1>2. a.op # "orchestrate" /\ b.op # "orchestrate"
  BY DEF Frame, CallMarkAborted, CallMarkCompleted
<1>3. SameDeps(db, db)
  BY InvFacts, WritesSameDeps
<1> HIDE DEF a, b
<1> QED
  BY <1>1, <1>2, <1>3, QuietPromises

(* The except and finally clauses populate nothing.                        *)
LEMMA UnwoundPromises ==
    ASSUME Inv, Promises, ~AtRest, Continue(db, Unwound)
    PROVE  Promises'
<1>1. DOMAIN Unwound = DOMAIN calls
      /\ \A k \in DOMAIN calls : Unwound[k] = Handler(calls[k])
  BY DEF Unwound
<1>2. \A c : Handler(c).op # "orchestrate"
  BY DEF Handler, CallMarkCompleted, CallFinish, Frame
<1>3. \A c \in Frames(Unwound) : c.op # "orchestrate"
  <2> HIDE DEF Unwound
  <2> QED
    BY <1>1, <1>2 DEF Frames
<1>4. Proceed(caller, db, Unwound, on_commit)
  BY DEF Continue, ContinueWith
<1> QED
  BY <1>3, <1>4, ProceedPromises DEF Promises, Populates

(* A retry of any other request than a workflow.                           *)
LEMMA SupersedePromises ==
    ASSUME Inv, Promises, ~AtRest, NEW i \in 1..Len(db), NEW reason,
           Continue(retry_supersede(db, i, reason), Rest)
    PROVE  Promises'
<1> DEFINE d == retry_supersede(db, i, reason)
<1>1. InPlan(d) /\ \A j \in 1..Len(db) : d[j].step = db[j].step
  BY InvFacts, SupersedeInPlan DEF Promises
<1>2. Continue(d, Rest) /\ \A x \in Frames(Rest) : x \in Frames(calls)
  BY TopFrames
<1> HIDE DEF d
<1> QED
  BY <1>1, <1>2, ProceedPromises DEF Continue, ContinueWith

LEMMA RetryLostPromises ==
    ASSUME Inv, Promises, retry_lost
    PROVE  Promises'
<1>1. ~AtRest /\ Top.w \in 1..Len(db) /\ SameDeps(db, db)
  BY TopFacts, InvFacts, WritesSameDeps DEF retry_lost, Methods
<1>2. CASE Continue(db, Rest)
  <2>1. CallFinish(None).op # "orchestrate"
    BY DEF CallFinish, Frame
  <2> QED
    BY <1>1, <1>2, <2>1, QuietPromises
<1>3. CASE Continue(retry_supersede(db, Top.w, Top.arg), Rest)
  BY <1>1, <1>3, SupersedePromises
<1> QED
  BY <1>2, <1>3 DEF retry_lost

(* What a call of orchestrate has to populate.                             *)
LEMMA OrchestratePopulates ==
    ASSUME NEW d, NEW e, NEW i, e[i].step = d[i].step
    PROVE  Populates(e, CallOrchestrate(d, i))
  BY DEF Populates, CallOrchestrate, Frame

LEMMA RetryPromises ==
    ASSUME Inv, Promises, retry
    PROVE  Promises'
<1> DEFINE i == Top.w
           n == retry_count(db, i, Top.arg)
           d == [db EXCEPT ![i].status = "running", ![i].retry_count = n]
           a == CallOrchestrate(db, i)
           b == Frame("retry_each", i, {}, Top.arg)
           c == CallFinish(i)
           cs == <<a, b, c>> \o Rest
<1>1. /\ ~AtRest /\ i \in 1..Len(db) /\ i \in DOMAIN db
      /\ IsTable(db) /\ Rest \in Seq(Call(Len(db)))
  BY TopFacts, InvFacts DEF retry, Methods
<1>2. CASE Raise
  BY <1>2, RaisePromises
<1>3. CASE Continue(db, Unwound)
  BY <1>1, <1>3, UnwoundPromises
<1>4. CASE Continue(retry_supersede(db, i, Top.arg), Rest)
  BY <1>1, <1>4, SupersedePromises
<1>5. CASE Continue(d, cs)
  <2>1. SameDeps(db, d)
    <3>1. n \in Nat
      BY <1>1, TableFacts DEF retry_count, Row
    <3> DEFINE d0 == Set(db, i, "running")
    <3>2. SameDeps(db, d0)
      BY <1>1, WritesSameDeps DEF Statuses
    <3>3. d = [d0 EXCEPT ![i].retry_count = n]
      BY DEF Set
    <3> HIDE DEF d0, n
    <3>4. SameDeps(d0, [d0 EXCEPT ![i].retry_count = n])
      <4>1. IsTable(d0)
        BY <3>2 DEF SameDeps, Keeps
      <4> QED
        BY <3>1, <4>1, WritesSameDeps
    <3>5. Keeps(db, [d0 EXCEPT ![i].retry_count = n])
      BY <1>1, <3>2, <3>4, KeepsTransitive DEF SameDeps
    <3>6. Len(d0) = Len(db)
      BY <3>2 DEF SameDeps, Keeps
    <3> HIDE DEF d
    <3> QED
      BY <3>2, <3>3, <3>4, <3>5, <3>6 DEF SameDeps
  <2> HIDE DEF d
  <2>2. InPlan(d) /\ \A j \in 1..Len(db) : d[j].step = db[j].step
    BY <1>1, <2>1, SameDepsInPlan DEF Promises, SameDeps, Keeps, SameTask
  <2>3. Populates(d, a)
    BY <1>1, <2>2, OrchestratePopulates
  <2>4. Populates(d, b) /\ Populates(d, c)
    BY DEF Populates, Frame, CallFinish
  <2> DEFINE t == <<c>> \o Rest
  <2> HIDE DEF a, b, c
  <2>5. /\ t \in Seq(Call(Len(db)) \cup {c}) /\ Frames(t) = {c} \cup Frames(Rest)
        /\ cs = <<a, b>> \o t
    BY <1>1, PushFacts, FramesFacts, TripleFacts
  <2> HIDE DEF t
  <2>6. Frames(cs) = {a, b, c} \cup Frames(Rest)
    <3>1. Frames(<<a, b>> \o t) = {a, b} \cup Frames(t)
      BY <2>5, FramesFacts
    <3> QED
      BY <2>5, <3>1
  <2> HIDE DEF cs
  <2>7. \A x \in Frames(cs) : x \in Frames(calls) \/ Populates(d, x)
    BY <1>1, <2>3, <2>4, <2>6, TopFrames
  <2>8. Proceed(caller, d, cs, on_commit)
    BY <1>5 DEF Continue, ContinueWith
  <2> QED
    BY <2>2, <2>7, <2>8, ProceedPromises
<1> HIDE DEF d, cs
<1>6. \/ Raise \/ Continue(db, Unwound) \/ Continue(d, cs)
      \/ Continue(retry_supersede(db, i, Top.arg), Rest)
  BY DEF retry, d, cs, a, b, c, n
<1> QED
  BY <1>2, <1>3, <1>4, <1>5, <1>6

LEMMA RetryEachPromises ==
    ASSUME Inv, Promises, retry_each
    PROVE  Promises'
<1> DEFINE a(S) == Frame("retry_each", None, S, Top.arg)
           b(i) == CallRetry(i, Top.arg)
<1>1. /\ ~AtRest
      /\ \/ Continue(db, Rest)
         \/ \E S : Continue(db, <<a(S)>> \o Rest)
         \/ \E i, S : Continue(db, <<b(i), a(S)>> \o Rest)
  BY DEF retry_each
<1>2. \A i, S : a(S).op # "orchestrate" /\ b(i).op # "orchestrate"
  BY DEF Frame, CallRetry
<1>3. SameDeps(db, db)
  BY InvFacts, WritesSameDeps
<1> HIDE DEF a, b
<1>4. CASE Continue(db, Rest)
  BY <1>1, <1>2, <1>3, <1>4, QuietPromises
<1>5. ASSUME NEW i, NEW S, \/ Continue(db, <<a(S)>> \o Rest)
                           \/ Continue(db, <<b(i), a(S)>> \o Rest)
      PROVE  Promises'
  <2> DEFINE x == a(S)
             y == b(i)
  <2>1. /\ x.op # "orchestrate" /\ y.op # "orchestrate"
        /\ Continue(db, <<x>> \o Rest) \/ Continue(db, <<y, x>> \o Rest)
    BY <1>2, <1>5
  <2> HIDE DEF x, y
  <2> QED
    BY <1>1, <1>3, <2>1, QuietPromises
<1> QED
  BY <1>1, <1>4, <1>5

(* A row that a method creates, in its place.                              *)
LEMMA NewRowInPlan ==
    ASSUME NEW d, IsTable(d), InPlan(d), NEW s \in 0..Steps,
           NEW p \in 0..Len(d), NEW st \in Statuses,
           s # Delay => IF Plan[s].parent = 0 THEN p = None
                        ELSE p # None /\ d[p].step = Plan[s].parent
    PROVE  LET e == Append(d, NewRow(s, p, st))
           IN  /\ InPlan(e) /\ IsTable(e) /\ Len(e) = Len(d) + 1
               /\ \A j \in 1..Len(d) : e[j] = d[j]
               /\ ~Superseded(e, Len(d) + 1)
<1> DEFINE r == NewRow(s, p, st)
           n == Len(d)
           e == Append(d, r)
<1>1. n \in Nat /\ DOMAIN d = 1..n /\ p \in 0..(n + 1)
  BY TableFacts
<1>2. {} \in SUBSET (1..(n + 1)) /\ 0 \in 0..(n + 1)
  BY <1>1
<1>3. /\ r.step = s /\ r.parent = p /\ r.deps = {} /\ r.supersedes = None
      /\ r \in Row(n + 1)
  <2>1. r \in Row(n + 1)
    BY <1>1, <1>2 DEF NewRow, Row, Results, None
  <2> QED
    BY <2>1 DEF NewRow
<1> HIDE DEF r
<1>4. Placed(d, r) /\ (r.parent # None => r.parent \in DOMAIN d)
  BY <1>1, <1>3 DEF Placed, None
<1>5. InPlan(e)
  BY <1>3, <1>4, AppendInPlan
<1>6. /\ IsTable(e) /\ Len(e) = n + 1 /\ \A j \in 1..n : e[j] = d[j]
      /\ e[n + 1] = r
  BY <1>3, AppendTable
<1> HIDE DEF e
<1>7. ~Superseded(e, n + 1)
  <2>1. DOMAIN e = 1..(n + 1) /\ \A j \in 1..n : d[j].supersedes \in 0..n
    BY <1>6, TableFacts DEF Row
  <2>2. \A j \in 1..n : d[j].supersedes # n + 1
    BY <1>1, <2>1
  <2>3. None # n + 1 /\ \A j \in 1..(n + 1) : j \in 1..n \/ j = n + 1
    BY <1>1 DEF None
  <2> HIDE DEF n
  <2> QED
    BY <1>3, <1>6, <2>1, <2>2, <2>3 DEF Superseded
<1> QED
  BY <1>5, <1>6, <1>7 DEF e, r

(* The delay of a retry, and the retry that waits for it.                  *)
LEMMA DelayedInPlan ==
    ASSUME NEW d, IsTable(d), InPlan(d), NEW i \in 1..Len(d),
           NEW st \in Statuses
    PROVE  LET e == Delayed(d, i, st)
           IN  /\ InPlan(e) /\ IsTable(e) /\ Len(e) = Len(d) + 1
               /\ \A j \in 1..Len(d) : e[j].step = d[j].step
               /\ ~Superseded(e, Len(d) + 1)
<1> DEFINE p == d[i].parent
           n == Len(d)
           e0 == Set(d, p, st)
           e == Append(e0, NewRow(Delay, p, "pending"))
<1>1. p \in 0..n /\ DOMAIN d = 1..n
  BY TableFacts DEF Row
<1>2. SameDeps(d, e0)
  BY WritesSameDeps
<1>3. e = Delayed(d, i, st)
  BY DEF Delayed
<1> HIDE DEF p, e0
<1>4. /\ InPlan(e0) /\ IsTable(e0) /\ Len(e0) = n
      /\ \A j \in 1..n : e0[j].step = d[j].step
  BY <1>1, <1>2, SameDepsInPlan DEF SameDeps, Keeps, SameTask
<1>5. Delay \in 0..Steps /\ "pending" \in Statuses /\ p \in 0..Len(e0)
  BY <1>1, <1>4, WorkRequestsAssumption DEF Delay, Statuses
<1>6. /\ InPlan(e) /\ IsTable(e) /\ Len(e) = n + 1
      /\ \A j \in 1..n : e[j] = e0[j]
      /\ ~Superseded(e, n + 1)
  <2>1. Delay # Delay => IF Plan[Delay].parent = 0 THEN p = None
                         ELSE p # None /\ e0[p].step = Plan[Delay].parent
    OBVIOUS
  <2> HIDE DEF n
  <2>2. LET f == Append(e0, NewRow(Delay, p, "pending"))
        IN  /\ InPlan(f) /\ IsTable(f) /\ Len(f) = Len(e0) + 1
            /\ \A j \in 1..Len(e0) : f[j] = e0[j]
            /\ ~Superseded(f, Len(e0) + 1)
    BY <1>4, <1>5, <2>1, NewRowInPlan
  <2> QED
    BY <1>4, <2>2
<1> HIDE DEF e
<1> QED
  BY <1>3, <1>4, <1>6

LEMMA RetriedInPlan ==
    ASSUME NEW d, IsTable(d), InPlan(d), NEW i \in 1..Len(d),
           NEW st \in Statuses
    PROVE  LET g == Retried(d, i, st)
           IN  InPlan(g) /\ \A j \in 1..Len(d) : g[j].step = d[j].step
<1> DEFINE n == Len(d)
           e == Delayed(d, i, st)
           f == retry_supersede(e, i, "delay")
           g == add_dependencies(f, n + 2, {n + 1})
<1>1. /\ n \in Nat /\ i # n + 1 /\ i \in 1..(n + 1) /\ n + 1 \in 1..(n + 1)
      /\ n + 1 \in 1..(n + 2) /\ \A j \in 1..n : j \in 1..(n + 1) /\ j \in 1..(n + 2)
  BY TableFacts
<1>2. /\ InPlan(e) /\ IsTable(e) /\ Len(e) = n + 1
      /\ \A j \in 1..n : e[j].step = d[j].step
      /\ ~Superseded(e, n + 1)
  BY DelayedInPlan
<1>3. g = Retried(d, i, st)
  BY DEF Retried
<1> HIDE DEF e
<1>4. /\ InPlan(f) /\ IsTable(f) /\ Len(f) = n + 2
      /\ \A j \in 1..(n + 1) : f[j].step = e[j].step
      /\ ~Superseded(f, n + 1)
  <2>1. /\ InPlan(f) /\ IsTable(f) /\ Len(f) = n + 1 + 1
        /\ \A j \in 1..(n + 1) :
              f[j].step = e[j].step
              /\ (Superseded(f, j) => j = i \/ Superseded(e, j))
    BY <1>1, <1>2, SupersedeInPlan
  <2> QED
    BY <1>1, <1>2, <2>1
<1> HIDE DEF f
<1>5. InPlan(g) /\ Keeps(f, g)
  <2>1. {n + 1} \in SUBSET (1..Len(f)) /\ \A j \in {n + 1} : ~Superseded(f, j)
    BY <1>1, <1>4
  <2> QED
    BY <1>4, <2>1, AddInPlan, AddDependenciesKeeps
<1> HIDE DEF g
<1>6. \A j \in 1..n : g[j].step = d[j].step
  <2>1. \A j \in 1..n : SameTask(f[j], g[j])
    BY <1>1, <1>4, <1>5, TableFacts DEF Keeps
  <2> QED
    BY <1>1, <1>2, <1>4, <2>1 DEF SameTask
<1> QED
  BY <1>3, <1>5, <1>6

LEMMA ProcessRetryWithDelaysPromises ==
    ASSUME Inv, Promises, process_retry_with_delays
    PROVE  Promises'
<1> DEFINE i == Top.w
           d == Delayed(db, i, Top.arg)
           g == Retried(db, i, Top.arg)
<1>1. /\ ~AtRest /\ i \in 1..Len(db) /\ Top.arg \in Statuses
      /\ IsTable(db) /\ InPlan(db)
  BY TopFacts, InvFacts DEF process_retry_with_delays, Methods, Promises
<1>2. \/ Continue(db, Rest) \/ Raise \/ Continue(d, <<>>)
      \/ Continue(g, Rest)
  <2>1. /\ d = Append(Set(db, db[i].parent, Top.arg),
                      NewRow(Delay, db[i].parent, "pending"))
        /\ g = add_dependencies(retry_supersede(d, i, "delay"),
                                Len(db) + 1 + 1, {Len(db) + 1})
    <3>1. Len(db) + 1 + 1 = Len(db) + 2
      BY InvFacts
    <3> QED
      BY <3>1 DEF Delayed, Retried
  <2> HIDE DEF d, g
  <2> QED
    BY <2>1 DEF process_retry_with_delays
<1> HIDE DEF i
<1>3. CASE Continue(db, Rest)
  <2>1. CallFinish(None).op # "orchestrate" /\ SameDeps(db, db)
    BY <1>1, WritesSameDeps DEF CallFinish, Frame
  <2> QED
    BY <1>1, <1>3, <2>1, QuietPromises
<1>4. CASE Raise
  BY <1>4, RaisePromises
<1>5. CASE Continue(d, <<>>)
  <2>1. InPlan(d) /\ \A j \in 1..Len(db) : d[j].step = db[j].step
    BY <1>1, DelayedInPlan
  <2>2. Frames(<<>>) = {}
    BY DEF Frames
  <2> HIDE DEF d
  <2> QED
    BY <1>5, <2>1, <2>2, ProceedPromises DEF Continue, ContinueWith
<1>6. CASE Continue(g, Rest)
  <2>1. InPlan(g) /\ \A j \in 1..Len(db) : g[j].step = db[j].step
    BY <1>1, RetriedInPlan
  <2>2. \A x \in Frames(Rest) : x \in Frames(calls)
    BY <1>1, TopFrames
  <2> HIDE DEF g
  <2> QED
    BY <1>6, <2>1, <2>2, ProceedPromises DEF Continue, ContinueWith
<1> HIDE DEF d, g
<1> QED
  BY <1>2, <1>3, <1>4, <1>5, <1>6

LEMMA OrchestrateCallbackPromises ==
    ASSUME Inv, Promises, orchestrate_callback
    PROVE  Promises'
<1> DEFINE a == CallMarkCompleted(Top.w, "success")
<1>1. ~AtRest /\ Continue(db, <<a>> \o Rest)
  BY DEF orchestrate_callback
<1>2. a.op # "orchestrate" /\ SameDeps(db, db)
  BY InvFacts, WritesSameDeps DEF CallMarkCompleted, Frame
<1> HIDE DEF a
<1> QED
  BY <1>1, <1>2, QuietPromises

LEMMA OrchestrateFailsPromises ==
    ASSUME Inv, Promises, orchestrate_fails
    PROVE  Promises'
  BY RaisePromises, UnwoundPromises DEF orchestrate_fails

LEMMA EnsureChildInPlan ==
    ASSUME NEW d, IsTable(d), InPlan(d), NEW w \in 1..Len(d), NEW s \in Step,
           Plan[s].parent # 0, Plan[s].parent = d[w].step
    PROVE  LET e == ensure_child(d, w, s)
           IN  /\ InPlan(e) /\ IsTable(e) /\ Len(d) <= Len(e)
               /\ \A j \in 1..Len(d) : e[j] = d[j]
<1> DEFINE st == IF Plan[s].type \in {"Worker", "Wait"} THEN "blocked"
                                                        ELSE "pending"
           f == Append(d, NewRow(s, w, st))
<1>1. st \in Statuses /\ s \in 0..Steps /\ w \in 0..Len(d) /\ w # 0
  <2>1. Steps \in Nat /\ Len(d) \in Nat
    BY WorkRequestsAssumption, TableFacts
  <2> QED
    BY <2>1 DEF Statuses, Step
<1>2. Len(d) \in Nat /\ Len(d) <= Len(d) /\ Len(d) <= Len(d) + 1
  BY TableFacts
<1>3. ensure_child(d, w, s) = IF Existing(d, s) # {} THEN d ELSE f
  BY DEF ensure_child
<1>4. IF Plan[s].parent = 0 THEN w = None
      ELSE w # None /\ d[w].step = Plan[s].parent
  BY <1>1 DEF None
<1> HIDE DEF st
<1>5. /\ InPlan(f) /\ IsTable(f) /\ Len(f) = Len(d) + 1
      /\ \A j \in 1..Len(d) : f[j] = d[j]
  BY <1>1, <1>4, NewRowInPlan
<1> HIDE DEF f
<1> QED
  BY <1>2, <1>3, <1>5

(* What is required is the last attempt at it.                             *)
LEMMA PromisedIsLast ==
    ASSUME RootsPromise, NEW d, IsTable(d), InPlan(d), NEW s \in Step,
           NEW t \in Plan[s].deps, NEW j \in Promised(d, t)
    PROVE  ~Superseded(d, j)
<1> DEFINE p == d[j].parent
<1>1. /\ j \in DOMAIN d /\ d[j].step = t
      /\ p # None /\ d[p].parent = None => ~Superseded(d, j)
  BY DEF Promised
<1>2. t \in Step /\ Plan[t].parent \in 0..Steps
  BY WorkRequestsAssumption DEF PlanEntry
<1>3. Plan[t].parent # 0 /\ Plan[Plan[t].parent].parent = 0
  BY DEF RootsPromise
<1>4. t # Delay
  BY <1>2 DEF Step, Delay
<1>5. p # None /\ d[p].step = Plan[t].parent
  BY <1>1, <1>3, <1>4 DEF InPlan, Placed
<1>6. p \in DOMAIN d
  BY <1>1, <1>5, RowFacts
<1> HIDE DEF p
<1>7. d[p].step # Delay
  BY <1>3, <1>5 DEF Delay
<1>8. d[p].parent = None
  BY <1>3, <1>5, <1>6, <1>7 DEF InPlan, Placed
<1> QED
  BY <1>1, <1>5, <1>8

LEMMA RequiresArtifactsInPlan ==
    ASSUME RootsPromise, NEW d, IsTable(d), InPlan(d), NEW i \in DOMAIN d,
           NEW new, NEW s \in Step, d[i].step = s
    PROVE  LET e == requires_artifacts(d, i, new) IN InPlan(e) /\ Keeps(d, e)
<1> DEFINE deps == UNION {Promised(d, t) : t \in Entry(d, i).deps}
<1>1. deps \in SUBSET (1..Len(d))
  BY TableFacts DEF Promised
<1>2. Entry(d, i) = Plan[s]
  BY WorkRequestsAssumption DEF Step, Entry, Delay
<1>3. \A j \in deps : ~Superseded(d, j)
  BY <1>2, PromisedIsLast
<1> HIDE DEF deps
<1>4. /\ InPlan(add_dependencies(d, i, deps))
      /\ Keeps(d, add_dependencies(d, i, deps)) /\ Keeps(d, d)
  BY <1>1, <1>3, AddInPlan, AddDependenciesKeeps, KeepsReflexive
<1> QED
  BY <1>4 DEF requires_artifacts, deps

LEMMA OrchestrateWorkflowPromises ==
    ASSUME RootsPromise, Inv, Promises, orchestrate_workflow
    PROVE  Promises'
<1> DEFINE w == Top.w
           f(s) == Frame("orchestrate", w, Top.set \ {s}, "")
           left(s) == <<f(s)>> \o Rest
           ready(d, i) == d[i].status = "pending"
<1>1. /\ ~AtRest /\ Type(db, w) = "Workflow" /\ w \in 1..Len(db)
      /\ Top.set \subseteq Step /\ Rest \in Seq(Call(Len(db)))
      /\ IsTable(db) /\ InPlan(db) /\ Len(db) \in Nat
  BY TopFacts, InvFacts DEF orchestrate_workflow, Methods, Promises
<1>2. \A s \in Top.set : Plan[s].parent = db[w].step /\ Plan[s].parent # 0
  <2>1. Top.op = "orchestrate" /\ Populates(db, Top)
    BY <1>1, TopFrames DEF orchestrate_workflow, Promises
  <2>2. db[w].step # 0
    BY <1>1 DEF Type, Entry, DelayEntry, Delay
  <2> QED
    BY <2>1, <2>2 DEF Populates
<1>3. ASSUME NEW s \in Top.set,
             NEW i \in Existing(ensure_child(db, w, s), s),
             LET d1 == ensure_child(db, w, s)
                 d2 == requires_artifacts(d1, i, Existing(db, s) = {})
             IN  \/ Continue(IF ready(d2, i) THEN Set(d2, i, "running") ELSE d2,
                             <<CallOrchestrate(d2, i)>> \o left(s))
                 \/ Continue(d2, left(s))
      PROVE  Promises'
  <2> DEFINE d1 == ensure_child(db, w, s)
             d2 == requires_artifacts(d1, i, Existing(db, s) = {})
             d3 == IF ready(d2, i) THEN Set(d2, i, "running") ELSE d2
             c == CallOrchestrate(d2, i)
             g == f(s)
  <2>1. /\ InPlan(d1) /\ IsTable(d1) /\ Len(db) <= Len(d1)
        /\ \A j \in 1..Len(db) : d1[j] = db[j]
    BY <1>1, <1>2, EnsureChildInPlan
  <2>2. i \in DOMAIN d1 /\ d1[i].step = s /\ s \in Step
    BY <1>1, <1>3 DEF Existing
  <2>3. Continue(d3, <<c>> \o (<<g>> \o Rest)) \/ Continue(d2, <<g>> \o Rest)
    BY <1>3
  <2> HIDE DEF d1
  <2>4. InPlan(d2) /\ Keeps(d1, d2)
    BY <2>1, <2>2, RequiresArtifactsInPlan
  <2> HIDE DEF d2
  <2>5. SameDeps(d2, d3)
    <3>1. IsTable(d2)
      BY <2>4 DEF Keeps
    <3>2. SameDeps(d2, d2) /\ SameDeps(d2, Set(d2, i, "running"))
      BY <3>1, WritesSameDeps DEF Statuses
    <3> QED
      BY <3>2
  <2> HIDE DEF d3
  <2>6. InPlan(d3) /\ Keeps(d2, d3)
    <3>1. IsTable(d2)
      BY <2>4 DEF Keeps
    <3> QED
      BY <2>4, <2>5, <3>1, SameDepsInPlan DEF SameDeps
  <2>7. \A j \in DOMAIN d1 : d2[j].step = d1[j].step /\ d3[j].step = d2[j].step
    <3>1. Len(d2) = Len(d1) /\ DOMAIN d1 = 1..Len(d1)
      BY <2>1, <2>4, TableFacts DEF Keeps
    <3> QED
      BY <2>4, <2>6, <3>1 DEF Keeps, SameTask
  <2>8. \A j \in 1..Len(db) : d2[j].step = db[j].step /\ d3[j].step = db[j].step
    <3>1. \A j \in 1..Len(db) : j \in DOMAIN d1
      BY <1>1, <2>1, TableFacts
    <3> QED
      BY <2>1, <2>7, <3>1
  <2>9. Populates(d2, g) /\ Populates(d3, g)
    <3>1. g.w = w /\ g.set = Top.set \ {s}
      BY DEF Frame
    <3> HIDE DEF g, w
    <3> QED
      BY <1>1, <1>2, <2>8, <3>1 DEF Populates
  <2>10. Populates(d3, c)
    BY <2>2, <2>7, OrchestratePopulates
  <2> HIDE DEF c, g
  <2>11. <<c, g>> \o Rest = <<c>> \o (<<g>> \o Rest)
    BY <1>1, PairFacts
  <2>12. CASE Continue(d2, <<g>> \o Rest)
    BY <1>1, <2>4, <2>8, <2>9, <2>12, ContinuePromises
  <2>13. CASE Continue(d3, <<c, g>> \o Rest)
    BY <1>1, <2>6, <2>8, <2>9, <2>10, <2>13, ContinuePromises
  <2> QED
    BY <2>3, <2>11, <2>12, <2>13
<1>4. ASSUME NEW S, Continue(mark_pending(db, S), Rest)
      PROVE  Promises'
  <2>1. CallFinish(None).op # "orchestrate" /\ SameDeps(db, mark_pending(db, S))
    BY <1>1, WritesSameDeps DEF CallFinish, Frame
  <2> QED
    BY <1>1, <1>4, <2>1, QuietPromises
<1>5. ASSUME Continue(db, <<CallMarkCompleted(w, "success")>> \o Rest)
      PROVE  Promises'
  <2> DEFINE a == CallMarkCompleted(w, "success")
  <2>1. a.op # "orchestrate" /\ SameDeps(db, db) /\ Continue(db, <<a>> \o Rest)
    BY <1>1, <1>5, WritesSameDeps DEF CallMarkCompleted, Frame
  <2> HIDE DEF a
  <2> QED
    BY <1>1, <2>1, QuietPromises
<1> QED
  BY <1>3, <1>4, <1>5 DEF orchestrate_workflow

LEMMA ScheduleEachPromises ==
    ASSUME Inv, Promises, schedule_each
    PROVE  Promises'
<1> DEFINE f(i) == Frame("schedule_each", 0, Top.set \ {i}, "")
           c(i) == CallMarkCompleted(i, "success")
<1>1. /\ ~AtRest /\ IsTable(db) /\ Rest \in Seq(Call(Len(db)))
      /\ SameDeps(db, db)
  BY TopFacts, InvFacts, WritesSameDeps DEF schedule_each
<1>2. \A i : f(i).op # "orchestrate" /\ c(i).op # "orchestrate"
  BY DEF Frame, CallMarkCompleted
<1>3. \A i : SameDeps(db, Set(db, i, "running"))
  BY <1>1, WritesSameDeps DEF Statuses
<1>4. ASSUME NEW i, NEW d, SameDeps(db, d),
             \/ Continue(d, Rest) \/ Continue(d, <<f(i)>> \o Rest)
             \/ \E hooks : ContinueWith(d, <<f(i)>> \o Rest, hooks)
             \/ Continue(d, <<c(i)>> \o (<<f(i)>> \o Rest))
      PROVE  Promises'
  <2> DEFINE g == f(i)
             h == c(i)
  <2>1. /\ g.op # "orchestrate" /\ h.op # "orchestrate"
        /\ \/ Continue(d, Rest) \/ Continue(d, <<g>> \o Rest)
           \/ \E hooks : ContinueWith(d, <<g>> \o Rest, hooks)
           \/ Continue(d, <<h>> \o (<<g>> \o Rest))
    BY <1>2, <1>4
  <2> HIDE DEF f, c, g, h
  <2>2. <<h, g>> \o Rest = <<h>> \o (<<g>> \o Rest)
    BY <1>1, PairFacts
  <2> QED
    BY <1>1, <1>4, <2>1, <2>2, QuietPromises
<1>5. CASE Continue(db, Rest)
  BY <1>1, <1>4, <1>5
<1>6. ASSUME NEW i \in Top.set,
             \/ Continue(db, <<c(i)>> \o (<<f(i)>> \o Rest))
             \/ Continue(Set(db, i, "running"), <<f(i)>> \o Rest)
             \/ Continue(db, <<f(i)>> \o Rest)
             \/ ContinueWith(Set(db, i, "running"), <<f(i)>> \o Rest,
                             on_commit \cup {i})
             \/ \E r \in WorkflowRoot(db, i) :
                   ContinueWith(IF db[r].status = "pending"
                                THEN Set(db, r, "running") ELSE db,
                                <<f(i)>> \o Rest, on_commit \cup {r})
      PROVE  Promises'
  <2> HIDE DEF f, c
  <2>1. CASE \/ Continue(db, <<c(i)>> \o (<<f(i)>> \o Rest))
             \/ Continue(db, <<f(i)>> \o Rest)
    BY <1>1, <1>4, <2>1
  <2>2. CASE \/ Continue(Set(db, i, "running"), <<f(i)>> \o Rest)
             \/ ContinueWith(Set(db, i, "running"), <<f(i)>> \o Rest,
                             on_commit \cup {i})
    BY <1>3, <1>4, <2>2
  <2>3. ASSUME NEW r, ContinueWith(IF db[r].status = "pending"
                                   THEN Set(db, r, "running") ELSE db,
                                   <<f(i)>> \o Rest, on_commit \cup {r})
        PROVE  Promises'
    <3> DEFINE d == IF db[r].status = "pending"
                    THEN Set(db, r, "running") ELSE db
    <3>1. SameDeps(db, d) /\ ContinueWith(d, <<f(i)>> \o Rest, on_commit \cup {r})
      BY <1>1, <1>3, <2>3
    <3> HIDE DEF d
    <3> QED
      BY <1>4, <3>1
  <2> QED
    BY <1>6, <2>1, <2>2, <2>3
<1> QED
  BY <1>5, <1>6 DEF schedule_each

LEMMA CompleteEachPromises ==
    ASSUME Inv, Promises, complete_each
    PROVE  Promises'
<1> DEFINE a(i) == CallMarkCompleted(i, "success")
           b(i) == Frame("complete_each", 0, Top.set \ {i}, "")
<1>1. /\ ~AtRest /\ SameDeps(db, db)
      /\ \/ Continue(db, Rest)
         \/ \E i \in Top.set : Continue(db, <<a(i), b(i)>> \o Rest)
  BY InvFacts, WritesSameDeps DEF complete_each
<1>2. \A i : a(i).op # "orchestrate" /\ b(i).op # "orchestrate"
  BY DEF Frame, CallMarkCompleted
<1> HIDE DEF a, b
<1>3. CASE Continue(db, Rest)
  BY <1>1, <1>2, <1>3, QuietPromises
<1>4. ASSUME NEW i, Continue(db, <<a(i), b(i)>> \o Rest)
      PROVE  Promises'
  <2> DEFINE x == a(i)
             y == b(i)
  <2>1. /\ x.op # "orchestrate" /\ y.op # "orchestrate"
        /\ Continue(db, <<x, y>> \o Rest)
    BY <1>2, <1>4
  <2> HIDE DEF x, y
  <2> QED
    BY <1>1, <2>1, QuietPromises
<1> QED
  BY <1>1, <1>3, <1>4

LEMMA NextPendingPromises ==
    ASSUME Inv, Promises, next_pending
    PROVE  Promises'
<1>1. /\ ~AtRest /\ SameDeps(db, db)
      /\ \A i : SameDeps(db, Set(db, i, "running"))
      /\ CallFinish(None).op # "orchestrate"
  BY InvFacts, WritesSameDeps DEF next_pending, Statuses, CallFinish, Frame
<1>2. CASE Continue(db, Rest)
  BY <1>1, <1>2, QuietPromises
<1>3. ASSUME NEW i, Continue(Set(db, i, "running"), Rest)
      PROVE  Promises'
  BY <1>1, <1>3, QuietPromises
<1> QED
  BY <1>2, <1>3 DEF next_pending

-----------------------------------------------------------------------------
(* Transactions that begin.                                                *)

(* With at most one call.                                                  *)
LEMMA BeginCallPromises ==
    ASSUME Inv, Promises, NEW who, NEW d, SameDeps(db, d), NEW c,
           c.op # "orchestrate", Begin(who, d, <<>>) \/ Begin(who, d, <<c>>)
    PROVE  Promises'
  BY BeginPromises

LEMMA ScheduleInternalPromises ==
    ASSUME Inv, Promises, schedule_internal
    PROVE  Promises'
<1> DEFINE c == Frame("schedule_each", 0, Schedulable(db), "")
<1>1. Begin("task", db, <<c>>) /\ c.op # "orchestrate" /\ SameDeps(db, db)
  BY InvFacts, WritesSameDeps DEF schedule_internal, Frame
<1> HIDE DEF c
<1> QED
  BY <1>1, BeginCallPromises

LEMMA CompleteDelayTasksPromises ==
    ASSUME Inv, Promises, complete_delay_tasks
    PROVE  Promises'
<1>1. PICK S : Begin("task", db, <<Frame("complete_each", 0, S, "")>>)
  BY DEF complete_delay_tasks
<1> DEFINE c == Frame("complete_each", 0, S, "")
<1>2. Begin("task", db, <<c>>) /\ c.op # "orchestrate" /\ SameDeps(db, db)
  BY <1>1, InvFacts, WritesSameDeps DEF Frame
<1> HIDE DEF c
<1> QED
  BY <1>2, BeginCallPromises

LEMMA AssignPromises ==
    ASSUME Inv, Promises, NEW k \in Workers, Assign(k)
    PROVE  Promises'
<1>1. PICK i \in DOMAIN db : \/ assign_worker(k, i) \/ assign_skipped(k, i)
                             \/ assign_failed(k, i)
  BY DEF Assign
<1> DEFINE d == [db EXCEPT ![i].worker = k]
           a == CallMarkCompleted(i, "skipped")
           b == CallMarkCompleted(i, "error")
<1>2. a.op # "orchestrate" /\ b.op # "orchestrate"
  BY DEF CallMarkCompleted, Frame
<1>3. SameDeps(db, d) /\ SameDeps(db, db)
  BY InvFacts, WritesSameDeps
<1>4. \/ Begin("task", d, <<>>) \/ Begin("task", d, <<a>>)
      \/ Begin("task", db, <<b>>)
  BY <1>1 DEF assign_worker, assign_skipped, assign_failed
<1> HIDE DEF a, b, d
<1> QED
  BY <1>2, <1>3, <1>4, BeginCallPromises

LEMMA RunWorkflowTaskPromises ==
    ASSUME Inv, Promises, NEW i \in queued, run_workflow_task(i)
    PROVE  Promises'
<1> DEFINE c == CallOrchestrate(db, i)
<1>1. db' = db /\ committed' = committed /\ calls' = <<c>>
  BY DEF run_workflow_task
<1>2. Populates(db, c)
  BY OrchestratePopulates
<1> HIDE DEF c
<1>3. Frames(calls') = {c}
  BY <1>1 DEF Frames
<1> QED
  BY <1>1, <1>2, <1>3 DEF Promises, Populates

LEMMA GetNextWorkRequestPromises ==
    ASSUME Inv, Promises, NEW k \in Workers, get_next_work_request(k)
    PROVE  Promises'
<1> DEFINE c == [Frame("next_pending", 0, {}, "") EXCEPT !.worker = k]
           a(i) == CallMarkAborted(i)
           b(i) == Frame("retry_lost", i, {}, "worker_failed")
<1>1. /\ c.op # "orchestrate"
      /\ \A i : a(i).op # "orchestrate" /\ b(i).op # "orchestrate"
  BY DEF Frame, CallMarkAborted
<1>2. SameDeps(db, db)
  BY InvFacts, WritesSameDeps
<1>3. \/ Begin("api", db, <<c>>)
      \/ \E i \in Running(db, k) : Begin("api", db, <<a(i), b(i)>> \o <<c>>)
  BY DEF get_next_work_request
<1> HIDE DEF a, b, c
<1>4. CASE Begin("api", db, <<c>>)
  BY <1>1, <1>2, <1>4, BeginCallPromises
<1>5. ASSUME NEW i, Begin("api", db, <<a(i), b(i)>> \o <<c>>)
      PROVE  Promises'
  <2> DEFINE x == a(i)
             y == b(i)
  <2>1. /\ {x.op, y.op, c.op} \cap {"orchestrate"} = {}
        /\ Begin("api", db, <<x, y>> \o <<c>>)
    BY <1>1, <1>5
  <2> HIDE DEF x, y
  <2> QED
    BY <1>2, <2>1, BeginPromises
<1> QED
  BY <1>3, <1>4, <1>5

LEMMA ReportsPromises ==
    ASSUME Inv, Promises, NEW k, NEW statuses, Reports(k, statuses)
    PROVE  Promises'
<1>1. PICK i \in DOMAIN db, res \in Outcomes :
        Begin("api", db, <<CallMarkCompleted(i, res)>>)
  BY DEF Reports, update_work_request_as_completed
<1> DEFINE c == CallMarkCompleted(i, res)
<1>2. Begin("api", db, <<c>>) /\ c.op # "orchestrate" /\ SameDeps(db, db)
  BY <1>1, InvFacts, WritesSameDeps DEF CallMarkCompleted, Frame
<1> HIDE DEF c
<1> QED
  BY <1>2, BeginCallPromises

LEMMA CreateWorkRequestPromises ==
    ASSUME Inv, Promises, NEW s \in Step, create_work_request(s)
    PROVE  Promises'
<1> DEFINE d == Append(db, NewRow(s, None, "pending"))
<1>1. Plan[s].parent = 0 /\ Begin("api", d, <<>>)
  BY DEF create_work_request
<1>2. s \in 0..Steps /\ None \in 0..Len(db) /\ "pending" \in Statuses
  BY InvFacts, WorkRequestsAssumption DEF Step, Statuses, None
<1>3. IF Plan[s].parent = 0 THEN None = None
      ELSE None # None /\ db[None].step = Plan[s].parent
  BY <1>1
<1>4. InPlan(d) /\ \A j \in 1..Len(db) : d[j] = db[j]
  BY <1>2, <1>3, InvFacts, NewRowInPlan DEF Promises
<1> HIDE DEF d
<1>5. Frames(<<>>) = {}
  BY DEF Frames
<1> QED
  BY <1>1, <1>4, <1>5, ProceedPromises DEF Begin

LEMMA AbortPromises ==
    ASSUME Inv, Promises, NEW i, abort(i)
    PROVE  Promises'
<1>1. PICK S : Begin("web", db, <<Frame("abort_each", 0, S, "manual")>>)
  BY DEF abort
<1> DEFINE c == Frame("abort_each", 0, S, "manual")
<1>2. Begin("web", db, <<c>>) /\ c.op # "orchestrate" /\ SameDeps(db, db)
  BY <1>1, InvFacts, WritesSameDeps DEF Frame
<1> HIDE DEF c
<1> QED
  BY <1>2, BeginCallPromises

LEMMA UserRetryPromises ==
    ASSUME Inv, Promises, NEW i, user_retry(i)
    PROVE  Promises'
<1> DEFINE c == CallRetry(i, "manual")
<1>1. c.op # "orchestrate" /\ SameDeps(db, db)
  BY InvFacts, WritesSameDeps DEF CallRetry, Frame
<1>2. \E who \in {"api", "web"} : Begin(who, db, <<c>>)
  BY DEF user_retry
<1> HIDE DEF c
<1> QED
  BY <1>1, <1>2, BeginCallPromises

LEMMA ReviewManualUnblockPromises ==
    ASSUME Inv, Promises, NEW i \in DOMAIN db, review_manual_unblock(i)
    PROVE  Promises'
<1> DEFINE d == mark_pending(db, {i})
           c == CallMarkAborted(i)
<1>1. c.op # "orchestrate" /\ SameDeps(db, db) /\ SameDeps(db, d)
  BY InvFacts, WritesSameDeps DEF CallMarkAborted, Frame
<1>2. Begin("web", d, <<>>) \/ Begin("web", db, <<c>>)
  BY DEF review_manual_unblock
<1> HIDE DEF c, d
<1> QED
  BY <1>1, <1>2, BeginCallPromises

-----------------------------------------------------------------------------
(* The theorem.                                                            *)

LEMMA InitPromises == Init => Promises
<1> SUFFICES ASSUME Init PROVE Promises
  OBVIOUS
<1>1. /\ db = <<>> /\ committed = <<>> /\ Frames(calls) = {}
  BY DEF Init, Frames
<1>2. InPlan(<<>>)
  BY DEF InPlan, UpToDate
<1> QED
  BY <1>1, <1>2 DEF Promises

LEMMA NextPromises ==
    ASSUME RootsPromise
    PROVE  Inv /\ Promises /\ [Next]_vars => Promises'
<1> SUFFICES ASSUME Inv, Promises, [Next]_vars PROVE Promises'
  OBVIOUS
<1>1. CASE Method
  BY <1>1, MarkAbortedPromises, AbortEachPromises, MarkCompletedPromises,
     UnblockReverseDependenciesPromises, ProcessRetryWithDelaysPromises,
     MaybeFinishWorkflowPromises, RetryPromises, RetryEachPromises,
     OrchestrateCallbackPromises, OrchestrateWorkflowPromises,
     OrchestrateFailsPromises, ScheduleEachPromises, CompleteEachPromises,
     RetryLostPromises, NextPendingPromises DEF Method
<1>2. CASE User
  BY <1>2, CreateWorkRequestPromises, AbortPromises, UserRetryPromises,
     ReviewManualUnblockPromises DEF User
<1>3. CASE schedule_internal
  BY <1>3, ScheduleInternalPromises
<1>4. CASE \E i \in queued : run_workflow_task(i)
  BY <1>4, RunWorkflowTaskPromises
<1>5. CASE complete_delay_tasks
  BY <1>5, CompleteDelayTasksPromises
<1>6. CASE \E k \in Workers : \/ Assign(k) \/ Worker(k)
                             \/ Reports(k, {"completed", "aborted"})
  BY <1>6, AssignPromises, GetNextWorkRequestPromises, ReportsPromises
     DEF Worker
<1>7. CASE UNCHANGED vars
  BY <1>7 DEF vars, Promises
<1> QED
  BY <1>1, <1>2, <1>3, <1>4, <1>5, <1>6, <1>7 DEF Next

(* A retry, whether a user, a delay or a lost worker is the reason for it, *)
(* takes over all that waited for the attempt it supersedes, and what is   *)
(* populated later waits for the last attempt: no request that is left to  *)
(* run depends on a superseded one.  For plans that only require artifacts *)
(* of the children of root workflows.                                      *)
THEOREM NoneStale ==
    ASSUME RootsPromise
    PROVE  Spec => []NoStaleDependency
<1>1. Inv /\ Promises /\ [Next]_vars => Promises'
  BY NextPromises
<1>2. Promises => NoStaleDependency
  BY DEF Promises, InPlan, UpToDate, NoStaleDependency
<1> QED
  BY <1>1, <1>2, InitPromises, SpecInv, PTL DEF Spec
=============================================================================
