------------------------- MODULE ArchiveServingProofs -------------------------
(***************************************************************************)
(* What an archive serves: one content for each name in pool/, and, of     *)
(* each suite, generations of indexes that follow each other and list what *)
(* there was at their time.                                                *)
(***************************************************************************)
EXTENDS ArchivesProofs, FiniteSetTheorems, NaturalsInduction,
        WellFoundedInduction

(* A transaction that removes items replaces active ones, which nobody     *)
(* else replaces, by removed ones.                                         *)
SameItem(i, j) ==
    i.suite = j.suite /\ i.artifact = j.artifact /\ i.created = j.created
Replacing(p) ==
    /\ tx[p].minus.items \subseteq Active(db.items)
    /\ \A q \in Procs \ {p} : tx[q].minus.items \cap tx[p].minus.items = {}
    /\ \A i \in tx[p].minus.items :
          \E j \in tx[p].plus.items : SameItem(i, j) /\ j.removed # None
    /\ \A j \in tx[p].plus.items \ Active(tx[p].plus.items) :
          \E i \in tx[p].minus.items : SameItem(i, j)
Replaced == \A p \in Procs : Replacing(p)

(* Times identify items.                                                   *)
ItemsDiffer ==
    /\ \A i, j \in db.items : i.created = j.created => i = j
    /\ \A p \in Procs :
          /\ \A i, j \in tx[p].plus.items : i.created = j.created => i = j
          /\ \A i \in Active(tx[p].plus.items),
                j \in db.items \cup OthersPlus(p, "items") :
                i.created # j.created

-----------------------------------------------------------------------------
(* The pool.                                                               *)

(* No two constraints of a collection disagree, but for one that is being  *)
(* deleted.                                                                *)
Agree(rows, others) == ~Conflict(rows, others)
Agreed ==
    /\ Agree(db.constraints, db.constraints)
    /\ \A p \in Procs :
          /\ Agree(tx[p].plus.constraints, tx[p].plus.constraints)
          /\ Agree(tx[p].plus.constraints,
                   (db.constraints \ tx[p].minus.constraints)
                     \cup OthersPlus(p, "constraints"))

(* Constraints are deleted with their items, or of items that are counted  *)
(* as unguarded.                                                           *)
DeletedWith ==
    \A p \in Procs : \A c \in tx[p].minus.constraints :
        c.item \in unguarded \cup Created(tx[p].minus.items)

HasConstraints(collection, i, rows) ==
    \A f \in Files[i.artifact] :
        [collection |-> collection, item |-> i.created, file |-> f] \in rows
Joining(p, s) == Active(Of(tx[p].plus.members, s)) # {}
Joined(s) == Active(Of(db.members, s)) # {}
Safe(items) == {i \in Active(items) : i.created \notin unguarded}

(* An item has the constraints of its suite and, if the suite is in the    *)
(* archive, those of the archive; a suite that joins brings them.          *)
ItemsHeld ==
    \A i \in Safe(db.items) :
        /\ HasConstraints(i.suite, i, db.constraints)
        /\ Joined(i.suite) => HasConstraints(Archive, i, db.constraints)
        /\ \A p \in Procs : Joining(p, i.suite) =>
              HasConstraints(Archive, i, tx[p].plus.constraints)
NewHeld ==
    \A p \in Procs : \A i \in Safe(tx[p].plus.items) :
        /\ HasConstraints(i.suite, i, tx[p].plus.constraints)
        /\ Joined(i.suite) => HasConstraints(Archive, i, tx[p].plus.constraints)
        /\ \A q \in Procs : ~Joining(q, i.suite)

PInv == Replaced /\ ItemsDiffer /\ Agreed /\ DeletedWith /\ ItemsHeld /\ NewHeld

-----------------------------------------------------------------------------
(* Generations of indexes.                                                 *)

(* They follow each other, and the last one is active.                     *)
Before(g, h) == g.removed # None /\ g.removed <= h.created
Chain(rows) ==
    /\ \A g, h \in rows : g # h /\ g.created <= h.created => Before(g, h)
    /\ \A g \in rows : g.removed = None \/ g.removed > g.created
    /\ rows # {} => Active(rows) # {}

(* A task is in one place, and nobody else has written its generation.     *)
Same(g, k) == g.suite = k.suite /\ g.created = k.at
Owned(p, k) ==
    /\ k \notin tasks /\ k.at <= clock
    /\ \A q \in Procs \ {p} : k \notin tx[q].task
    /\ \A g \in db.indexes \cup OthersPlus(p, "indexes") : ~Same(g, k)
TasksDiffer ==
    /\ \A k \in tasks : k.at <= clock /\ \A g \in Written : ~Same(g, k)
    /\ \A g \in Written : g.created <= clock
    /\ \A p \in Procs : \A k \in tx[p].task : Owned(p, k)

(* A transaction has one task, or writes no indexes.                       *)
Tasked(p) ==
    /\ \A k, l \in tx[p].task : k = l
    /\ \A g \in tx[p].plus.indexes \cup tx[p].minus.indexes :
          \E k \in tx[p].task : k.suite = g.suite
    /\ \A k \in tx[p].task :
          IF tx[p].pc = "generate"
          THEN /\ tx[p].plus.indexes = {} /\ tx[p].minus.indexes = {}
               /\ k.suite \in index_lock
          ELSE Of(tx[p].plus.indexes, k.suite) # {}
OneTask == \A p \in Procs : Tasked(p)

(* The lock keeps tasks of one suite apart until they have written, and    *)
(* doubled is about what it does not cover.                                *)
Apart ==
    \A p, q \in Procs : \A k \in tx[p].task, l \in tx[q].task :
        /\ k.suite = l.suite
        /\ \/ k.suite \notin doubled
           \/ tx[p].pc = "generate" /\ tx[q].pc = "generate"
        => p = q

(* What a task has found when it started is still the last generation      *)
(* before its own, if it is still there.                                   *)
Finding(p, k) ==
    /\ \A t, u \in tx[p].previous : t = u
    /\ \A t \in tx[p].previous : t < k.at
    /\ \A g \in Of(db.indexes, k.suite) : g.created < k.at =>
          /\ \A t \in tx[p].previous : g.created <= t
          /\ g.created \notin tx[p].previous =>
                g.removed # None /\ g.removed <= k.at

(* What it has written fits in.                                            *)
After(p) == (db.indexes \ tx[p].minus.indexes) \cup tx[p].plus.indexes
Fitting(p, k) ==
    /\ Chain(Of(After(p), k.suite))
    /\ tx[p].minus.indexes \subseteq db.indexes
    /\ \A g \in tx[p].plus.indexes :
          \/ g.created = k.at
          \/ \E o \in tx[p].minus.indexes :
                g.suite = o.suite /\ g.created = o.created /\ g.listed = o.listed
    /\ \A o \in tx[p].minus.indexes :
          /\ o.created < k.at
          /\ \A g \in Of(db.indexes, k.suite) :
                g.created < k.at => g.created <= o.created
Generating ==
    \A p \in Procs : \A k \in tx[p].task : k.suite \notin doubled =>
        IF tx[p].pc = "generate" THEN Finding(p, k) ELSE Fitting(p, k)
Chains == \A s \in Suites \ doubled : Chain(Of(db.indexes, s))

GInv == TasksDiffer /\ OneTask /\ Apart /\ Generating /\ Chains

(* A generation lists what there was at its time, if it did not miss it.   *)
Listed ==
    \A g \in Written :
        \/ <<g.suite, g.created>> \in missed
        \/ g.listed = Created(active_at(Of(db.items, g.suite), g.created))

SInv == IInv /\ PInv /\ GInv /\ Listed

-----------------------------------------------------------------------------
(* Rows and times.                                                         *)

(* What transactions have written has its type, and times are numbers.     *)
LEMMA TxFacts ==
  ASSUME TypeOK
  PROVE  /\ db.items \subseteq Item /\ db.indexes \subseteq Index
         /\ db.constraints \subseteq Constraint /\ db.members \subseteq Member
         /\ \A p \in Procs :
               /\ tx[p] \in Tx /\ tx[p].task \subseteq Task
               /\ tx[p].previous \subseteq Time
               /\ tx[p].plus.items \subseteq Item
               /\ tx[p].minus.items \subseteq Item
               /\ tx[p].plus.members \subseteq Member
               /\ tx[p].plus.constraints \subseteq Constraint
               /\ tx[p].plus.indexes \subseteq Index
               /\ tx[p].minus.indexes \subseteq Index
         /\ clock \in Int /\ Time \subseteq Int
  BY ArchivesAssumption DEF TypeOK, Tx, Rows, Time

(* A closed transaction has written nothing.                               *)
LEMMA ClosedNothing ==
  /\ \A t \in Tables : Closed.plus[t] = {} /\ Closed.minus[t] = {}
  /\ Closed.plus.items = {} /\ Closed.minus.items = {}
  /\ Closed.plus.members = {} /\ Closed.minus.members = {}
  /\ Closed.plus.constraints = {} /\ Closed.minus.constraints = {}
  /\ Closed.plus.indexes = {} /\ Closed.minus.indexes = {}
  /\ Closed.task = {} /\ Closed.previous = {} /\ Closed.pc = "closed"
  BY DEF Closed, NoRows, Tables

(* Conflicts are mutual, and smaller sets have fewer.                      *)
LEMMA AgreeFacts ==
  ASSUME NEW rows, NEW others, Agree(rows, others)
  PROVE  /\ Agree(others, rows)
         /\ \A few \in SUBSET rows, some \in SUBSET others : Agree(few, some)
  BY DEF Agree, Conflict

-----------------------------------------------------------------------------
(* The pool: transactions that begin.                                      *)

(* A transaction keeps the invariant if what it deletes are active items,  *)
(* replaced by removed ones, with their constraints, and if the items that *)
(* it adds, and those of a suite that joins, have theirs.                  *)
LEMMA BeginPInv ==
  ASSUME IInv, PInv, NEW p \in Procs, NEW old \in Rows, NEW new \in Rows,
         Begin(p, old, new), unguarded \subseteq unguarded',
         old.items \subseteq Active(db.items),
         \A i \in old.items :
            \E j \in new.items : SameItem(i, j) /\ j.removed # None,
         \A j \in new.items \ Active(new.items) :
            \E i \in old.items : SameItem(i, j),
         \A i, j \in new.items : i.created = j.created => i = j,
         \A i \in Active(new.items) : i.created = clock + 1,
         Agree(new.constraints, new.constraints),
         \A c \in old.constraints : c.item \in unguarded' \cup Created(old.items),
         \A s : Active(Of(new.members, s)) # {} =>
            /\ \A i \in Safe(db.items) : i.suite = s =>
                  HasConstraints(Archive, i, new.constraints)
            /\ \A q \in Procs \ {p} : \A i \in Active(tx[q].plus.items) :
                  i.suite = s => i.created \in unguarded',
         \A i \in Active(new.items) : i.created \notin unguarded' =>
            /\ HasConstraints(i.suite, i, new.constraints)
            /\ Joined(i.suite) => HasConstraints(Archive, i, new.constraints)
            /\ \A q \in Procs \ {p} : ~Joining(q, i.suite)
            /\ Active(Of(new.members, i.suite)) = {}
  PROVE  PInv'
  <1> TypeOK /\ Pool
    BY DEF IInv
  <1>1. /\ tx'[p].plus = new /\ tx'[p].minus = old
        /\ \A q \in Procs \ {p} : tx'[q] = tx[q]
        /\ clock' = clock + 1 /\ db' = db
    BY BeginAll
  <1>2. tx[p] = Closed
    BY DEF Begin, ClosedEmpty, Pool
  <1>3. \A t \in Tables : tx[p].plus[t] = {} /\ tx[p].minus[t] = {}
    BY <1>2, ClosedNothing
  <1>4. "items" \in Tables /\ "constraints" \in Tables
    BY DEF Tables
  <1>5. /\ OthersPlus(p, "items")' = OthersPlus(p, "items")
        /\ OthersPlus(p, "constraints")' = OthersPlus(p, "constraints")
        /\ \A q \in Procs \ {p} :
              /\ OthersPlus(q, "items")' = OthersPlus(q, "items") \cup new.items
              /\ OthersPlus(q, "constraints")'
                    = OthersPlus(q, "constraints") \cup new.constraints
    <2>1. ASSUME NEW t \in Tables
          PROVE  /\ OthersPlus(p, t)' = OthersPlus(p, t)
                 /\ \A q \in Procs \ {p} :
                       OthersPlus(q, t)' = OthersPlus(q, t) \cup new[t]
      BY <1>1, <1>3 DEF OthersPlus
    <2> QED
      BY <1>4, <2>1
  <1>6. Replaced'
    <2>1. \A q \in Procs \ {p} : tx[q].minus.items \cap old.items = {}
      BY <1>4 DEF Begin, OthersMinus
    <2>2. Replacing(p)'
      BY <1>1, <2>1 DEF Replacing
    <2>3. ASSUME NEW q \in Procs \ {p} PROVE Replacing(q)'
      BY <1>1, <2>1 DEF PInv, Replaced, Replacing
    <2> QED
      BY <2>2, <2>3 DEF Replaced
  <1>7. ItemsDiffer'
    <2>1. \A q \in Procs :
             \A j \in db.items \cup OthersPlus(p, "items") \cup tx[q].plus.items :
                j.created \in Int /\ j.created <= clock
      BY TxFacts DEF Pool, TimesPassed, AllItems, OthersPlus, Item
    <2>2. \A j \in db.items \cup OthersPlus(p, "items") : j.created # clock + 1
      BY <2>1, TxFacts
    <2>3. \A i \in Active(new.items), j \in db.items \cup OthersPlus(p, "items") :
             i.created # j.created
      BY <2>2
    <2>4. ASSUME NEW q \in Procs \ {p}, NEW i \in Active(tx[q].plus.items),
                 NEW j \in new.items
          PROVE  i.created # j.created
      <3>1. i \in tx[q].plus.items
        BY DEF Active
      <3>2. CASE j \in Active(new.items)
        BY <2>1, <3>1, <3>2, TxFacts
      <3>3. CASE j \notin Active(new.items)
        <4>1. PICK o \in old.items : SameItem(o, j)
          BY <3>3
        <4>2. o \in db.items
          BY DEF Active
        <4> QED
          BY <4>1, <4>2 DEF PInv, ItemsDiffer, SameItem
      <3> QED
        BY <3>2, <3>3
    <2> QED
      BY <1>1, <1>5, <2>3, <2>4 DEF PInv, ItemsDiffer
  <1>8. Agreed'
    <2>1. Agree(new.constraints, (db.constraints \ old.constraints)
                                    \cup OthersPlus(p, "constraints"))
      BY DEF Begin, Agree
    <2>2. ASSUME NEW q \in Procs \ {p}
          PROVE  Agree(tx[q].plus.constraints,
                       (db.constraints \ tx[q].minus.constraints)
                         \cup (OthersPlus(q, "constraints") \cup new.constraints))
      <3>1. tx[q].plus.constraints \subseteq OthersPlus(p, "constraints")
        BY <1>4 DEF OthersPlus
      <3>2. Agree(tx[q].plus.constraints, new.constraints)
        BY <2>1, <3>1 DEF Agree, Conflict
      <3> QED
        BY <3>2 DEF PInv, Agreed, Agree, Conflict
    <2>3. ASSUME NEW q \in Procs
          PROVE  Agree(tx'[q].plus.constraints,
                       (db.constraints \ tx'[q].minus.constraints)
                         \cup OthersPlus(q, "constraints")')
      <3>1. CASE q = p
        BY <1>1, <1>5, <2>1, <3>1
      <3>2. CASE q # p
        BY <1>1, <1>5, <2>2, <3>2
      <3> QED
        BY <3>1, <3>2
    <2>4. Agree(db.constraints, db.constraints)
      BY DEF PInv, Agreed
    <2>5. ASSUME NEW q \in Procs
          PROVE  Agree(tx'[q].plus.constraints, tx'[q].plus.constraints)
      <3>1. CASE q = p
        BY <1>1, <3>1
      <3>2. CASE q # p
        BY <1>1, <3>2 DEF PInv, Agreed
      <3> QED
        BY <3>1, <3>2
    <2> QED
      BY <1>1, <2>3, <2>4, <2>5 DEF Agreed
  <1>9. DeletedWith'
    BY <1>1 DEF PInv, DeletedWith
  <1>10. Safe(db.items)' \subseteq Safe(db.items)
    BY <1>1 DEF Safe
  <1>11. /\ \A s : Joined(s)' = Joined(s)
         /\ \A q \in Procs \ {p} : \A s : Joining(q, s)' = Joining(q, s)
         /\ \A s : Joining(p, s)' = (Active(Of(new.members, s)) # {})
    BY <1>1 DEF Joined, Joining
  <1>12. ItemsHeld'
    <2> SUFFICES ASSUME NEW i \in Safe(db.items)'
                 PROVE  /\ HasConstraints(i.suite, i, db.constraints)
                        /\ Joined(i.suite)' =>
                              HasConstraints(Archive, i, db.constraints)
                        /\ \A q \in Procs : Joining(q, i.suite)' =>
                              HasConstraints(Archive, i, tx'[q].plus.constraints)
      BY <1>1 DEF ItemsHeld, HasConstraints
    <2>1. i \in Safe(db.items)
      BY <1>10
    <2>2. /\ HasConstraints(i.suite, i, db.constraints)
          /\ Joined(i.suite) => HasConstraints(Archive, i, db.constraints)
          /\ \A q \in Procs : Joining(q, i.suite) =>
                HasConstraints(Archive, i, tx[q].plus.constraints)
      BY <2>1 DEF PInv, ItemsHeld
    <2>3. ASSUME NEW q \in Procs, Joining(q, i.suite)'
          PROVE  HasConstraints(Archive, i, tx'[q].plus.constraints)
      <3>1. CASE q = p
        <4>1. Active(Of(new.members, i.suite)) # {}
          BY <1>11, <2>3, <3>1
        <4> QED
          BY <1>1, <2>1, <3>1, <4>1
      <3>2. CASE q # p
        BY <1>1, <1>11, <2>2, <2>3, <3>2
      <3> QED
        BY <3>1, <3>2
    <2> QED
      BY <1>11, <2>2, <2>3
  <1>13. NewHeld'
    <2> SUFFICES ASSUME NEW q \in Procs, NEW i \in Active(tx'[q].plus.items),
                        i.created \notin unguarded'
                 PROVE  /\ HasConstraints(i.suite, i, tx'[q].plus.constraints)
                        /\ Joined(i.suite)' =>
                              HasConstraints(Archive, i, tx'[q].plus.constraints)
                        /\ \A r \in Procs : ~Joining(r, i.suite)'
      BY DEF NewHeld, HasConstraints, Safe
    <2>1. CASE q = p
      <3>1. /\ HasConstraints(i.suite, i, new.constraints)
            /\ Joined(i.suite) => HasConstraints(Archive, i, new.constraints)
            /\ \A r \in Procs \ {p} : ~Joining(r, i.suite)
            /\ Active(Of(new.members, i.suite)) = {}
        BY <1>1, <2>1
      <3>2. /\ Joined(i.suite)' = Joined(i.suite)
            /\ \A r \in Procs \ {p} : Joining(r, i.suite)' = Joining(r, i.suite)
            /\ ~Joining(p, i.suite)'
        BY <1>11, <3>1
      <3> QED
        BY <1>1, <2>1, <3>1, <3>2
    <2>2. CASE q # p
      <3>1. i \in Safe(tx[q].plus.items) /\ i \in Active(tx[q].plus.items)
        BY <1>1, <2>2 DEF Safe
      <3> QED
        BY <1>1, <1>11, <2>2, <3>1 DEF PInv, NewHeld
    <2> QED
      BY <2>1, <2>2
  <1> QED
    BY <1>6, <1>7, <1>8, <1>9, <1>12, <1>13 DEF PInv

(* Removed versions of active items that there are.                        *)
LEMMA RemovedItems ==
  ASSUME TypeOK, ItemsDiffer, clock < MaxClock, NEW gone \in SUBSET db.items
  PROVE  /\ \A i \in gone :
               \E j \in Remove(gone, Now) : SameItem(i, j) /\ j.removed # None
         /\ \A j \in Remove(gone, Now) :
               j.removed # None /\ \E i \in gone : SameItem(i, j)
         /\ \A i, j \in Remove(gone, Now) : i.created = j.created => i = j
  <1> DEFINE out(i) == [i EXCEPT !.removed = Now]
  <1>1. Now # None /\ gone \subseteq Item
    BY NowType, TxFacts
  <1>2. \A i \in gone : SameItem(i, out(i)) /\ out(i).removed = Now
    BY <1>1 DEF SameItem, Item
  <1>3. Remove(gone, Now) = {out(i) : i \in gone}
    BY DEF Remove
  <1>4. ASSUME NEW i \in gone, NEW j \in gone, out(i).created = out(j).created
        PROVE  out(i) = out(j)
    <2>1. i.created = j.created
      BY <1>2, <1>4 DEF SameItem
    <2> QED
      BY <2>1 DEF ItemsDiffer
  <1> HIDE DEF out
  <1> QED
    BY <1>1, <1>2, <1>3, <1>4

(* add_artifact() makes the constraints of its item, or the item is one    *)
(* that unguarded counts.                                                  *)
LEMMA AddArtifactPInv ==
  ASSUME IInv, PInv, NEW p \in Procs, NEW s \in Suites, NEW a \in Artifacts,
         NEW replace \in BOOLEAN, add_artifact(p, s, a, replace)
  PROVE  PInv'
  <1> TypeOK /\ ItemsDiffer
    BY DEF IInv, PInv
  <1> DEFINE old == OldRows(s, a, replace)
             new == NewRows(s, a, replace)
             gone == Gone(s, a, replace)
             item == [suite |-> s, artifact |-> a, created |-> Now,
                      removed |-> None]
  <1>1. /\ clock < MaxClock /\ gone \in SUBSET db.items
        /\ old \in Rows /\ new \in Rows /\ Begin(p, old, new)
    BY AddArtifactBegins
  <1>2. /\ gone \subseteq Active(db.items)
        /\ Now = clock + 1 /\ clock \in Int
    BY <1>1, NowType, TxFacts DEF Gone, Active, Of
  <1>3. /\ old.items = gone /\ old.constraints = DroppedWith(s, gone)
        /\ new.items = Remove(gone, Now) \cup {item}
        /\ new.constraints = make_constraints(s, a) /\ new.members = {}
    BY DEF OldRows, NewRows, NoRows, Tables
  <1>4. /\ \A i \in gone :
              \E j \in Remove(gone, Now) : SameItem(i, j) /\ j.removed # None
        /\ \A j \in Remove(gone, Now) :
              j.removed # None /\ \E i \in gone : SameItem(i, j)
        /\ \A i, j \in Remove(gone, Now) : i.created = j.created => i = j
    BY <1>1, RemovedItems
  <1>5. Active(new.items) = {item}
    BY <1>3, <1>4 DEF Active
  <1>6. \A j \in Remove(gone, Now) : j.created # item.created
    <2>1. \A i \in gone : i.created \in Int /\ i.created <= clock
      BY <1>1, TxFacts DEF IInv, Pool, TimesPassed, AllItems, Item
    <2> QED
      BY <1>2, <1>4, <2>1 DEF SameItem
  <1>7. \A i, j \in new.items : i.created = j.created => i = j
    BY <1>3, <1>4, <1>6
  <1>8. Agree(new.constraints, new.constraints)
    BY <1>3, ArchivesAssumption DEF Agree, Conflict, make_constraints
  <1>9. \A c \in old.constraints : c.item \in Created(old.items)
    BY <1>3 DEF DroppedWith
  <1>10. \A t : Active(Of(new.members, t)) = {}
    BY <1>3 DEF Active, Of
  <1>11. /\ HasConstraints(s, item, new.constraints)
         /\ Joined(s) => HasConstraints(Archive, item, new.constraints)
    BY <1>3 DEF HasConstraints, make_constraints, Joined
  <1>12. /\ unguarded \subseteq unguarded'
         /\ Now \notin unguarded' => \A q \in Procs \ {p} : ~Joining(q, s)
    <2>1. \A q \in Procs \ {p} : Joining(q, s) =>
             Active(Of(OthersPlus(p, "members"), s)) # {}
      BY DEF Joining, OthersPlus, Active, Of
    <2>2. unguarded' = IF Active(Of(OthersPlus(p, "members"), s)) # {}
                       THEN unguarded \cup {Now} ELSE unguarded
      BY DEF add_artifact
    <2> QED
      BY <2>1, <2>2
  <1>13. item.suite = s /\ item.created = Now
    OBVIOUS
  <1>14. \A j \in new.items \ Active(new.items) :
            \E i \in old.items : SameItem(i, j)
    BY <1>3, <1>4, <1>5
  <1> HIDE DEF old, new, gone, item
  <1>15. \A i \in Active(new.items) :
            /\ i.created = clock + 1
            /\ i.created \notin unguarded' =>
                  /\ HasConstraints(i.suite, i, new.constraints)
                  /\ Joined(i.suite) =>
                        HasConstraints(Archive, i, new.constraints)
                  /\ \A q \in Procs \ {p} : ~Joining(q, i.suite)
                  /\ Active(Of(new.members, i.suite)) = {}
    BY <1>2, <1>5, <1>10, <1>11, <1>12, <1>13
  <1>16. /\ old.items \subseteq Active(db.items)
         /\ \A i \in old.items :
               \E j \in new.items : SameItem(i, j) /\ j.removed # None
    BY <1>2, <1>3, <1>4
  <1> QED
    BY <1>1, <1>7, <1>8, <1>9, <1>10, <1>12, <1>14, <1>15, <1>16, BeginPInv

(* remove_item() deletes the constraints of its item only.                 *)
LEMMA RemoveItemPInv ==
  ASSUME IInv, PInv, NEW p \in Procs, NEW i \in Active(db.items),
         remove_item(p, i)
  PROVE  PInv'
  <1> TypeOK /\ ItemsDiffer
    BY DEF IInv, PInv
  <1> DEFINE old == RemovedOld(i)
             new == RemovedNew(i)
  <1>1. i \in db.items
    BY DEF Active
  <1>2. /\ clock < MaxClock /\ old \in Rows /\ new \in Rows
        /\ Begin(p, old, new) /\ UNCHANGED unguarded
    BY <1>1, RemoveItemBegins DEF remove_item
  <1>3. /\ old.items = {i} /\ old.constraints = DroppedWith(i.suite, {i})
        /\ new.items = Remove({i}, Now) /\ new.constraints = {}
        /\ new.members = {}
    BY DEF RemovedOld, RemovedNew, NoRows, Tables
  <1>4. /\ \A k \in {i} :
              \E j \in Remove({i}, Now) : SameItem(k, j) /\ j.removed # None
        /\ \A j \in Remove({i}, Now) :
              j.removed # None /\ \E k \in {i} : SameItem(k, j)
        /\ \A k, j \in Remove({i}, Now) : k.created = j.created => k = j
    BY <1>1, <1>2, RemovedItems
  <1> HIDE DEF old, new
  <1>5. /\ \A k \in old.items :
              \E j \in new.items : SameItem(k, j) /\ j.removed # None
        /\ \A j \in new.items :
              j.removed # None /\ \E k \in old.items : SameItem(k, j)
        /\ \A k, j \in new.items : k.created = j.created => k = j
    BY <1>3, <1>4
  <1>6. Active(new.items) = {}
    BY <1>5 DEF Active
  <1>7. Agree(new.constraints, new.constraints)
    BY <1>3 DEF Agree, Conflict
  <1>8. \A c \in old.constraints : c.item \in Created(old.items)
    BY <1>3 DEF DroppedWith
  <1>9. \A s : Active(Of(new.members, s)) = {}
    BY <1>3 DEF Active, Of
  <1>10. old.items \subseteq Active(db.items)
    BY <1>3
  <1> QED
    BY <1>2, <1>5, <1>6, <1>7, <1>8, <1>9, <1>10, BeginPInv

(* A suite that joins brings a copy of the constraints of its items.       *)
LEMMA AddCollectionPInv ==
  ASSUME IInv, PInv, NEW p \in Procs, NEW s \in Suites, add_collection(p, s)
  PROVE  PInv'
  <1> TypeOK
    BY DEF IInv
  <1> DEFINE new == MemberRows(s)
  <1>1. new \in Rows /\ Begin(p, NoRows, new) /\ NoRows \in Rows
    BY AddCollectionBegins, ClosedType
  <1>2. /\ NoRows.items = {} /\ NoRows.constraints = {}
        /\ new.items = {} /\ new.constraints = CopiedConstraints(s)
        /\ new.members = {[suite |-> s, created |-> Now, removed |-> None]}
    BY DEF MemberRows, NoRows, Tables
  <1>3. db.constraints \subseteq Constraint
    BY TxFacts
  <1>4. \A c \in new.constraints :
           \E d \in db.constraints : d.collection = s /\ c.file = d.file
    BY <1>2, <1>3 DEF CopiedConstraints, Constraint
  <1>5. Agree(new.constraints, new.constraints)
    BY <1>4 DEF PInv, Agreed, Agree, Conflict
  <1>6. Active(new.items) = {} /\ \A t : Active(Of(new.members, t)) # {} => t = s
    BY <1>2 DEF Active, Of
  <1>7. ASSUME NEW i \in Safe(db.items), i.suite = s
        PROVE  HasConstraints(Archive, i, new.constraints)
    <2>1. HasConstraints(s, i, db.constraints)
      BY <1>7 DEF PInv, ItemsHeld
    <2> SUFFICES ASSUME NEW f \in Files[i.artifact]
                 PROVE  [collection |-> Archive, item |-> i.created, file |-> f]
                           \in new.constraints
      BY DEF HasConstraints
    <2> DEFINE c == [collection |-> s, item |-> i.created, file |-> f]
    <2>2. c \in db.constraints /\ c.collection = s
      BY <2>1 DEF HasConstraints
    <2>3. [c EXCEPT !.collection = Archive]
             = [collection |-> Archive, item |-> i.created, file |-> f]
      OBVIOUS
    <2> HIDE DEF c
    <2> QED
      BY <1>2, <2>2, <2>3 DEF CopiedConstraints
  <1>8. /\ unguarded \subseteq unguarded'
        /\ \A q \in Procs \ {p} : \A i \in Active(tx[q].plus.items) :
              i.suite = s => i.created \in unguarded'
    BY DEF add_collection, Created, Of, OthersPlus, Active
  <1> HIDE DEF new
  <1> QED
    BY <1>1, <1>2, <1>5, <1>6, <1>7, <1>8, BeginPInv DEF Active

(* remove_collection() deletes the copies of the constraints of its suite. *)
LEMMA RemoveCollectionPInv ==
  ASSUME IInv, PInv, NEW p \in Procs, NEW s \in Suites, remove_collection(p, s)
  PROVE  PInv'
  <1> TypeOK
    BY DEF IInv
  <1> DEFINE old == LeavingOld(s)
             new == LeavingNew(s)
             items == Created(Of(db.items, s))
  <1>1. /\ old \in Rows /\ new \in Rows /\ Begin(p, old, new)
        /\ clock < MaxClock
    BY RemoveCollectionBegins
  <1>2. /\ old.items = {} /\ new.items = {} /\ new.constraints = {}
        /\ new.members = Remove(Active(Of(db.members, s)), Now)
        /\ \A c \in old.constraints : Archive \in may_reuse /\ c.item \in items
    BY DEF LeavingOld, LeavingNew, NoRows, Tables
  <1>3. \A m \in new.members : m.removed # None
    BY <1>1, <1>2, NowType, TxFacts DEF Remove, Member, Active, Of
  <1>4. \A t : Active(Of(new.members, t)) = {}
    BY <1>3 DEF Active, Of
  <1>5. unguarded' = IF Archive \in may_reuse THEN unguarded \cup items
                                              ELSE unguarded
    BY DEF remove_collection
  <1>6. Active(new.items) = {} /\ Agree(new.constraints, new.constraints)
    BY <1>2 DEF Active, Agree, Conflict
  <1> HIDE DEF old, new, items
  <1> QED
    BY <1>1, <1>2, <1>4, <1>5, <1>6, BeginPInv

-----------------------------------------------------------------------------
(* The pool: the other steps.                                              *)

(* Steps that commit nothing of this, and that give up what transactions   *)
(* have written, or leave it.                                              *)
LEMMA QuietPInv ==
  ASSUME IInv, PInv, UNCHANGED unguarded,
         db'.members = db.members, db'.constraints = db.constraints,
         db'.items \subseteq db.items, Active(db.items) \subseteq db'.items,
         \A p \in Procs :
            \/ tx'[p] = Closed
            \/ /\ tx'[p].plus.items = tx[p].plus.items
               /\ tx'[p].minus.items = tx[p].minus.items
               /\ tx'[p].plus.members = tx[p].plus.members
               /\ tx'[p].plus.constraints = tx[p].plus.constraints
               /\ tx'[p].minus.constraints = tx[p].minus.constraints
  PROVE  PInv'
  <1>1. \A p \in Procs :
           /\ tx'[p].plus.items \subseteq tx[p].plus.items
           /\ tx'[p].minus.items \subseteq tx[p].minus.items
           /\ tx'[p].plus.members \subseteq tx[p].plus.members
           /\ tx'[p].plus.constraints \subseteq tx[p].plus.constraints
    BY ClosedNothing
  <1>2. \A p \in Procs :
           /\ OthersPlus(p, "items")' \subseteq OthersPlus(p, "items")
           /\ OthersPlus(p, "constraints")' \subseteq OthersPlus(p, "constraints")
    BY <1>1 DEF OthersPlus
  <1>3. Active(db'.items) = Active(db.items)
    BY DEF Active
  <1>4. Replaced'
    <2> SUFFICES ASSUME NEW p \in Procs PROVE Replacing(p)'
      BY DEF Replaced
    <2>1. Replacing(p)
      BY DEF PInv, Replaced
    <2>2. CASE tx'[p] = Closed
      BY <2>2, ClosedNothing DEF Replacing
    <2>3. CASE /\ tx'[p].plus.items = tx[p].plus.items
               /\ tx'[p].minus.items = tx[p].minus.items
      BY <1>1, <1>3, <2>1, <2>3 DEF Replacing
    <2> QED
      BY <2>2, <2>3
  <1>5. ItemsDiffer'
    BY <1>1, <1>2 DEF PInv, ItemsDiffer, Active
  <1>6. Agreed'
    <2>1. Agree(db.constraints, db.constraints)
      BY DEF PInv, Agreed
    <2>2. ASSUME NEW p \in Procs
          PROVE  /\ Agree(tx'[p].plus.constraints, tx'[p].plus.constraints)
                 /\ Agree(tx'[p].plus.constraints,
                          (db.constraints \ tx'[p].minus.constraints)
                            \cup OthersPlus(p, "constraints")')
      <3>1. CASE tx'[p] = Closed
        BY <3>1, ClosedNothing DEF Agree, Conflict
      <3>2. CASE /\ tx'[p].plus.constraints = tx[p].plus.constraints
                 /\ tx'[p].minus.constraints = tx[p].minus.constraints
        BY <1>2, <3>2 DEF PInv, Agreed, Agree, Conflict
      <3> QED
        BY <3>1, <3>2
    <2> QED
      BY <2>1, <2>2 DEF Agreed
  <1>7. DeletedWith'
    <2> SUFFICES ASSUME NEW p \in Procs, NEW c \in tx'[p].minus.constraints
                 PROVE  c.item \in unguarded \cup Created(tx'[p].minus.items)
      BY DEF DeletedWith
    <2>1. /\ tx'[p].minus.items = tx[p].minus.items
          /\ tx'[p].minus.constraints = tx[p].minus.constraints
      BY ClosedNothing
    <2> QED
      BY <2>1 DEF PInv, DeletedWith
  <1>8. \A s : /\ Joined(s)' = Joined(s)
               /\ \A p \in Procs : Joining(p, s)' =>
                     /\ Joining(p, s)
                     /\ tx'[p].plus.constraints = tx[p].plus.constraints
    BY ClosedNothing DEF Joined, Joining, Active, Of
  <1>9. ItemsHeld'
    <2> SUFFICES ASSUME NEW i \in Safe(db.items)
                 PROVE  /\ HasConstraints(i.suite, i, db.constraints)
                        /\ Joined(i.suite)' =>
                              HasConstraints(Archive, i, db.constraints)
                        /\ \A p \in Procs : Joining(p, i.suite)' =>
                              HasConstraints(Archive, i, tx'[p].plus.constraints)
      BY <1>3 DEF ItemsHeld, HasConstraints, Safe
    <2> QED
      BY <1>8 DEF PInv, ItemsHeld
  <1>10. NewHeld'
    <2> SUFFICES ASSUME NEW p \in Procs, NEW i \in Safe(tx'[p].plus.items)
                 PROVE  /\ HasConstraints(i.suite, i, tx'[p].plus.constraints)
                        /\ Joined(i.suite)' =>
                              HasConstraints(Archive, i, tx'[p].plus.constraints)
                        /\ \A q \in Procs : ~Joining(q, i.suite)'
      BY DEF NewHeld, HasConstraints, Safe
    <2>1. /\ i \in Safe(tx[p].plus.items)
          /\ tx'[p].plus.constraints = tx[p].plus.constraints
      BY ClosedNothing DEF Safe, Active
    <2> QED
      BY <1>8, <2>1 DEF PInv, NewHeld
  <1> QED
    BY <1>4, <1>5, <1>6, <1>7, <1>9, <1>10 DEF PInv

(* A commit deletes constraints of items that it removes, or that are      *)
(* counted, and no others.                                                 *)
LEMMA CommitPInv ==
  ASSUME IInv, PInv, NEW p \in Procs, commit(p)
  PROVE  PInv'
  <1> TypeOK
    BY DEF IInv
  <1>1. /\ tx'[p] = Closed /\ \A q \in Procs \ {p} : tx'[q] = tx[q]
        /\ UNCHANGED unguarded
    BY DEF commit, TypeOK
  <1>2. /\ db'.items = (db.items \ tx[p].minus.items) \cup tx[p].plus.items
        /\ db'.constraints = (db.constraints \ tx[p].minus.constraints)
                                \cup tx[p].plus.constraints
        /\ db'.members = (db.members \ tx[p].minus.members)
                                \cup tx[p].plus.members
    BY DEF commit, Tables
  <1>3. /\ Closed.plus.items = {} /\ Closed.plus.constraints = {}
        /\ Closed.minus.items = {} /\ Closed.minus.constraints = {}
        /\ Closed.plus.members = {}
    BY ClosedNothing
  <1>4. \A q \in Procs \ {p} :
           /\ OthersPlus(q, "items")' \cup tx[p].plus.items
                 \subseteq OthersPlus(q, "items")
           /\ OthersPlus(q, "constraints")' \cup tx[p].plus.constraints
                 \subseteq OthersPlus(q, "constraints")
    BY <1>1, <1>3 DEF OthersPlus
  <1>5. \A j \in tx[p].plus.items :
           j \in Active(tx[p].plus.items)
           \/ \E i \in tx[p].minus.items : SameItem(i, j)
    BY DEF PInv, Replaced, Replacing
  <1>6. tx[p].minus.items \subseteq Active(db.items)
        /\ tx[p].minus.items \subseteq db.items
    BY DEF PInv, Replaced, Replacing, Active
  <1>7. Replaced'
    <2>1. Replacing(p)'
      BY <1>1, <1>3 DEF Replacing
    <2>2. ASSUME NEW q \in Procs \ {p} PROVE Replacing(q)'
      <3>1. Replacing(q)
        BY DEF PInv, Replaced
      <3>2. tx[q].minus.items \subseteq Active(db'.items)
        BY <1>2, <3>1 DEF Replacing, Active
      <3> QED
        BY <1>1, <1>3, <3>1, <3>2 DEF Replacing
    <2> QED
      BY <2>1, <2>2 DEF Replaced
  <1>8. ItemsDiffer'
    <2>1. ASSUME NEW i \in tx[p].plus.items, NEW j \in db.items \ tx[p].minus.items
          PROVE  i.created # j.created
      <3>1. CASE i \in Active(tx[p].plus.items)
        BY <3>1 DEF PInv, ItemsDiffer
      <3>2. ASSUME NEW o \in tx[p].minus.items, SameItem(o, i)
            PROVE  i.created # j.created
        BY <1>6, <3>2 DEF PInv, ItemsDiffer, SameItem
      <3> QED
        BY <1>5, <3>1, <3>2
    <2>2. \A i, j \in db'.items : i.created = j.created => i = j
      BY <1>2, <2>1 DEF PInv, ItemsDiffer
    <2>3. ASSUME NEW q \in Procs \ {p}, NEW i \in Active(tx[q].plus.items),
                 NEW j \in db'.items \cup OthersPlus(q, "items")'
          PROVE  i.created # j.created
      BY <1>2, <1>4 DEF PInv, ItemsDiffer
    <2> QED
      BY <1>1, <1>3, <2>2, <2>3 DEF PInv, ItemsDiffer, Active
  <1>9. Agreed'
    <2> DEFINE stay == db.constraints \ tx[p].minus.constraints
               plus == tx[p].plus.constraints
    <2>1. /\ Agree(stay, stay) /\ Agree(plus, plus) /\ Agree(plus, stay)
      BY DEF PInv, Agreed, Agree, Conflict
    <2>2. Agree(db'.constraints, db'.constraints)
      BY <1>2, <2>1 DEF Agree, Conflict
    <2>3. ASSUME NEW q \in Procs \ {p}
          PROVE  /\ Agree(tx[q].plus.constraints, tx[q].plus.constraints)
                 /\ Agree(tx[q].plus.constraints,
                          (db'.constraints \ tx[q].minus.constraints)
                            \cup OthersPlus(q, "constraints")')
      <3>1. (db'.constraints \ tx[q].minus.constraints)
               \cup OthersPlus(q, "constraints")'
            \subseteq (db.constraints \ tx[q].minus.constraints)
                         \cup OthersPlus(q, "constraints")
        BY <1>2, <1>4
      <3> QED
        BY <3>1, AgreeFacts DEF PInv, Agreed
    <2>4. \A rows : Agree({}, rows)
      BY DEF Agree, Conflict
    <2> QED
      BY <1>1, <1>3, <2>2, <2>3, <2>4 DEF Agreed
  <1>10. DeletedWith'
    BY <1>1, <1>3 DEF PInv, DeletedWith
  <1>11. \A s : /\ Joined(s)' => Joined(s) \/ Joining(p, s)
                /\ ~Joining(p, s)'
                /\ \A q \in Procs \ {p} : Joining(q, s)' = Joining(q, s)
    BY <1>1, <1>2, <1>3 DEF Joined, Joining, Active, Of
  <1>12. ItemsHeld'
    <2> SUFFICES ASSUME NEW i \in Safe(db'.items)
                 PROVE  /\ HasConstraints(i.suite, i, db'.constraints)
                        /\ Joined(i.suite)' =>
                              HasConstraints(Archive, i, db'.constraints)
                        /\ \A q \in Procs \ {p} : Joining(q, i.suite) =>
                              HasConstraints(Archive, i, tx[q].plus.constraints)
      BY <1>1, <1>11 DEF ItemsHeld, HasConstraints, Safe
    <2>1. CASE i \in tx[p].plus.items
      <3>1. i \in Safe(tx[p].plus.items)
        BY <2>1 DEF Safe, Active
      <3> QED
        BY <1>2, <1>11, <3>1 DEF PInv, NewHeld, HasConstraints
    <2>2. CASE i \notin tx[p].plus.items
      <3>1. i \in Safe(db.items) /\ i \in db.items /\ i \notin tx[p].minus.items
        BY <1>2, <2>2 DEF Safe, Active
      <3>2. ASSUME NEW collection, HasConstraints(collection, i, db.constraints)
            PROVE  HasConstraints(collection, i, db'.constraints)
        <4> SUFFICES ASSUME NEW f \in Files[i.artifact]
                     PROVE  [collection |-> collection, item |-> i.created,
                             file |-> f] \notin tx[p].minus.constraints
          BY <1>2, <3>2 DEF HasConstraints
        <4>1. i.created \notin Created(tx[p].minus.items)
          BY <1>6, <3>1 DEF PInv, ItemsDiffer, Created
        <4>2. i.created \notin unguarded
          BY DEF Safe
        <4> QED
          BY <4>1, <4>2 DEF PInv, DeletedWith
      <3>3. HasConstraints(i.suite, i, db'.constraints)
        BY <3>1, <3>2 DEF PInv, ItemsHeld
      <3>4. Joined(i.suite)' => HasConstraints(Archive, i, db'.constraints)
        <4>1. CASE Joined(i.suite)
          BY <3>1, <3>2, <4>1 DEF PInv, ItemsHeld
        <4>2. CASE Joining(p, i.suite)
          BY <1>2, <3>1, <4>2 DEF PInv, ItemsHeld, HasConstraints
        <4> QED
          BY <1>11, <4>1, <4>2
      <3> QED
        BY <3>1, <3>3, <3>4 DEF PInv, ItemsHeld
    <2> QED
      BY <2>1, <2>2
  <1>13. NewHeld'
    <2> SUFFICES ASSUME NEW q \in Procs \ {p}, NEW i \in Safe(tx[q].plus.items)
                 PROVE  /\ HasConstraints(i.suite, i, tx[q].plus.constraints)
                        /\ Joined(i.suite)' =>
                              HasConstraints(Archive, i, tx[q].plus.constraints)
                        /\ \A r \in Procs : ~Joining(r, i.suite)'
      BY <1>1, <1>3 DEF NewHeld, HasConstraints, Safe, Active
    <2> QED
      BY <1>11 DEF PInv, NewHeld
  <1> QED
    BY <1>7, <1>8, <1>9, <1>10, <1>12, <1>13 DEF PInv

-----------------------------------------------------------------------------
(* Chains of generations.                                                  *)

(* Generations that are removed can be forgotten.                          *)
LEMMA ChainFewer ==
  ASSUME NEW rows, NEW few \in SUBSET rows, Chain(rows),
         Active(rows) \subseteq few
  PROVE  Chain(few)
  <1>1. Active(few) = Active(rows)
    BY DEF Active
  <1> QED
    BY <1>1 DEF Chain, Before

(* One that is active is the last one.                                     *)
LEMMA ActiveLast ==
  ASSUME NEW rows \in SUBSET Index, Chain(rows), NEW g \in Active(rows),
         NEW h \in rows
  PROVE  h.created <= g.created
  <1>1. g.created \in Int /\ h.created \in Int /\ g \in rows /\ g.removed = None
    BY ArchivesAssumption DEF Active, Index, Time
  <1> QED
    BY <1>1 DEF Chain, Before

(* Times identify generations.                                             *)
LEMMA ChainDiffer ==
  ASSUME NEW rows \in SUBSET Index, Chain(rows), NEW g \in rows, NEW h \in rows,
         g.created = h.created
  PROVE  g = h
  <1>1. /\ g.created \in Int /\ h.created \in Int
        /\ g.removed \in Int /\ h.removed \in Int
    BY ArchivesAssumption DEF Index, Time
  <1> QED
    BY <1>1 DEF Chain, Before, None

(* No two are in force at one time.                                        *)
LEMMA ChainOne ==
  ASSUME NEW rows \in SUBSET Index, Chain(rows), NEW t \in Time,
         NEW g \in active_at(rows, t), NEW h \in active_at(rows, t)
  PROVE  g = h
  <1>1. /\ g.created \in Int /\ h.created \in Int /\ t \in Int
        /\ g.removed \in Int /\ h.removed \in Int /\ g \in rows /\ h \in rows
    BY ArchivesAssumption DEF active_at, Index, Time
  <1>2. CASE g.created <= h.created
    BY <1>1, <1>2 DEF Chain, Before, active_at
  <1>3. CASE h.created <= g.created
    BY <1>1, <1>3 DEF Chain, Before, active_at
  <1> QED
    BY <1>1, <1>2, <1>3

(* Some times have a latest one.                                           *)
LEMMA LatestOf ==
  ASSUME NEW times \in SUBSET Time, times # {}
  PROVE  \E t \in times : \A u \in times : u <= t
  <1> DEFINE R == OpToRel(<, Nat)
             left == {MaxClock - t : t \in times}
  <1>1. MaxClock \in Nat /\ \A t \in times : t \in Int /\ t <= MaxClock
    BY ArchivesAssumption DEF Time
  <1>2. left \in SUBSET Nat /\ left # {}
    BY <1>1
  <1>3. PICK n \in left : \A k \in left : ~(<<k, n>> \in R)
    BY <1>2, NatLessThanWellFounded, WFMin
  <1>4. \A k \in Nat : k < n => <<k, n>> \in R
    BY <1>2, Zenon DEF OpToRel
  <1>5. \A k \in left : ~(k < n)
    BY <1>2, <1>3, <1>4, Zenon
  <1>6. PICK t \in times : n = MaxClock - t
    BY <1>3
  <1>7. ASSUME NEW u \in times PROVE u <= t
    <2>1. ~(MaxClock - u < MaxClock - t)
      BY <1>5, <1>6
    <2> QED
      BY <1>1, <2>1
  <1> QED
    BY <1>7

-----------------------------------------------------------------------------
(* Generations: steps of transactions.                                     *)

(* Steps that are not about indexes.                                       *)
SameIndexes(p) ==
    /\ tx'[p].task = tx[p].task /\ tx'[p].previous = tx[p].previous
    /\ tx'[p].plus.indexes = tx[p].plus.indexes
    /\ tx'[p].minus.indexes = tx[p].minus.indexes
    /\ tx[p].task # {} => tx'[p].pc = tx[p].pc

(* Steps that leave indexes, tasks and locks alone.                        *)
LEMMA QuietGInv ==
  ASSUME GInv, TypeOK, TypeOK', clock <= clock',
         UNCHANGED <<tasks, index_lock, doubled>>,
         db'.indexes = db.indexes, \A p \in Procs : SameIndexes(p)
  PROVE  GInv'
  <1>1. /\ Written' = Written
        /\ \A p \in Procs : OthersPlus(p, "indexes")' = OthersPlus(p, "indexes")
    BY DEF Written, OthersPlus, SameIndexes
  <1>2. /\ \A g \in Written : g.created \in Int
        /\ \A k \in tasks : k.at \in Int
        /\ \A p \in Procs : \A k \in tx[p].task : k.at \in Int
        /\ clock \in Int /\ clock' \in Int
    BY TxFacts, WrittenType, ArchivesAssumption DEF TypeOK, Task, Index, Time
  <1>3. TasksDiffer'
    BY <1>1, <1>2 DEF GInv, TasksDiffer, Owned, SameIndexes
  <1>4. OneTask'
    BY DEF GInv, OneTask, Tasked, SameIndexes
  <1>5. Apart'
    BY DEF GInv, Apart, SameIndexes
  <1>6. Generating'
    <2> SUFFICES ASSUME NEW p \in Procs, NEW k \in tx[p].task,
                        k.suite \notin doubled
                 PROVE  IF tx[p].pc = "generate" THEN Finding(p, k)'
                                                 ELSE Fitting(p, k)'
      BY DEF Generating, SameIndexes
    <2>1. /\ Finding(p, k)' <=> Finding(p, k)
          /\ Fitting(p, k)' <=> Fitting(p, k)
      <3>1. /\ tx'[p].previous = tx[p].previous
            /\ tx'[p].plus.indexes = tx[p].plus.indexes
            /\ tx'[p].minus.indexes = tx[p].minus.indexes
        BY DEF SameIndexes
      <3> QED
        BY <3>1 DEF Finding, Fitting, After
    <2> QED
      BY <2>1 DEF GInv, Generating
  <1>7. Chains'
    BY DEF GInv, Chains
  <1> QED
    BY <1>3, <1>4, <1>5, <1>6, <1>7 DEF GInv

(* A transaction that begins writes no indexes.                            *)
LEMMA BeginGInv ==
  ASSUME IInv, GInv, TypeOK', NEW p \in Procs, NEW old \in Rows, NEW new \in Rows,
         Begin(p, old, new), old.indexes = {}, new.indexes = {}
  PROVE  GInv'
  <1> TypeOK
    BY DEF IInv
  <1>1. tx[p] = Closed
    BY DEF Begin, IInv, Pool, ClosedEmpty
  <1>2. /\ tx'[p] = [Closed EXCEPT !.pc = "open", !.plus = new, !.minus = old]
        /\ \A q \in Procs \ {p} : tx'[q] = tx[q]
    BY DEF Begin, TypeOK
  <1>3. /\ tx'[p].plus = new /\ tx'[p].minus = old
        /\ tx'[p].task = {} /\ tx'[p].previous = {}
    BY <1>2, ClosedType DEF Tx, Closed
  <1>4. \A q \in Procs : SameIndexes(q)
    BY <1>1, <1>2, <1>3, ClosedNothing DEF SameIndexes
  <1>5. clock <= clock' /\ UNCHANGED <<db, tasks, index_lock, doubled>>
    BY TxFacts, NowType DEF Begin
  <1> QED
    BY <1>4, <1>5, QuietGInv

(* Tasks that are created are new.                                         *)
LEMMA PopulateGInv ==
  ASSUME IInv, GInv, NEW force \in BOOLEAN, populate(force)
  PROVE  GInv'
  <1> TypeOK
    BY DEF IInv
  <1>1. /\ UNCHANGED <<db, tx, index_lock, doubled>> /\ clock' = clock + 1
        /\ \A k \in tasks' : k \in tasks \/ k.at = clock + 1
    BY NowType DEF populate, history
  <1>2. /\ Written' = Written
        /\ \A p \in Procs : OthersPlus(p, "indexes")' = OthersPlus(p, "indexes")
    BY <1>1 DEF Written, OthersPlus
  <1>3. /\ \A g \in Written : g.created \in Int
        /\ \A k \in tasks : k.at \in Int
        /\ \A p \in Procs : \A k \in tx[p].task : k.at \in Int
        /\ clock \in Int
    BY TxFacts, WrittenType DEF TypeOK, Task, Index
  <1>4. TasksDiffer'
    BY <1>1, <1>2, <1>3 DEF GInv, TasksDiffer, Owned, Same
  <1>5. OneTask' /\ Apart' /\ Chains'
    BY <1>1 DEF GInv, OneTask, Tasked, Apart, Chains
  <1>6. Generating'
    BY <1>1 DEF GInv, Generating, Finding, Fitting, After
  <1> QED
    BY <1>4, <1>5, <1>6 DEF GInv

(* A task that starts finds the last generation before its own.            *)
LEMMA StartGInv ==
  ASSUME IInv, GInv, NEW p \in Procs, NEW k \in tasks, start_generation(p, k)
  PROVE  GInv'
  <1> TypeOK
    BY DEF IInv
  <1> DEFINE s == k.suite
             older == {t \in Created(Of(db.indexes, s)) : t < k.at}
             previous == {t \in older : \A u \in older : u <= t}
  <1>1. /\ UNCHANGED <<db, clock>> /\ tasks' = tasks \ {k} /\ s \notin index_lock
        /\ index_lock' = index_lock \cup {s} /\ doubled \subseteq doubled'
        /\ Of(OthersPlus(p, "indexes"), s) # {} => s \in doubled'
    BY DEF start_generation
  <1>2. tx[p] = Closed
    BY DEF start_generation, IInv, Pool, ClosedEmpty
  <1>3. /\ tx'[p] = [Closed EXCEPT !.pc = "generate", !.task = {k},
                                   !.previous = previous]
        /\ \A q \in Procs \ {p} : tx'[q] = tx[q]
    BY DEF start_generation, TypeOK
  <1>4. /\ tx'[p].pc = "generate" /\ tx'[p].task = {k}
        /\ tx'[p].previous = previous
        /\ tx'[p].plus.indexes = {} /\ tx'[p].minus.indexes = {}
    <2> HIDE DEF previous
    <2> QED
      BY <1>3, ClosedType, ClosedNothing DEF Tx
  <1>5. tx[p].plus.indexes = {} /\ tx[p].task = {}
    BY <1>2, ClosedNothing
  <1>6. /\ k \in Task /\ s \in Suites /\ k.at \in Int
        /\ older \subseteq Time /\ Of(db.indexes, s) \subseteq Index
    BY TxFacts DEF TypeOK, Task, Created, Of, Index
  <1> HIDE DEF s, previous
  <1>7. /\ Written' = Written
        /\ \A q \in Procs : OthersPlus(q, "indexes")' = OthersPlus(q, "indexes")
    <2>1. \A q \in Procs : tx'[q].plus.indexes = tx[q].plus.indexes
      BY <1>3, <1>4, <1>5
    <2> QED
      BY <1>1, <2>1 DEF Written, OthersPlus
  <1>8. TasksDiffer'
    <2>1. \A q \in Procs : db.indexes \cup OthersPlus(q, "indexes") \subseteq Written
      BY DEF Written, OthersPlus
    <2>2. /\ k.at <= clock /\ \A g \in Written : ~Same(g, k)
          /\ \A q \in Procs : k \notin tx[q].task
      BY DEF GInv, TasksDiffer, Owned
    <2>3. /\ \A l \in tasks' : l.at <= clock /\ \A g \in Written : ~Same(g, l)
          /\ \A g \in Written : g.created <= clock
      BY <1>1 DEF GInv, TasksDiffer
    <2>4. ASSUME NEW q \in Procs \ {p}, NEW l \in tx[q].task
          PROVE  Owned(q, l)'
      <3>1. l # k /\ Owned(q, l)
        BY <2>2 DEF GInv, TasksDiffer
      <3> QED
        BY <1>1, <1>3, <1>4, <1>7, <3>1 DEF Owned, Same
    <2>5. Owned(p, k)'
      BY <1>1, <1>3, <1>7, <2>1, <2>2 DEF Owned, Same
    <2> QED
      BY <1>1, <1>3, <1>4, <1>7, <2>3, <2>4, <2>5 DEF TasksDiffer, Same
  <1>9. OneTask'
    <2>1. Tasked(p)'
      BY <1>1, <1>4 DEF Tasked, s
    <2>2. ASSUME NEW q \in Procs \ {p} PROVE Tasked(q)'
      <3>1. Tasked(q)
        BY DEF GInv, OneTask
      <3> QED
        BY <1>1, <1>3, <3>1 DEF Tasked
    <2> QED
      BY <2>1, <2>2 DEF OneTask
  <1>10. ASSUME NEW q \in Procs \ {p}, NEW l \in tx[q].task, l.suite = s
         PROVE  tx[q].pc # "generate" /\ s \in doubled'
    <2>1. tx[q].pc # "generate"
      BY <1>1, <1>10 DEF GInv, OneTask, Tasked
    <2>2. Of(tx[q].plus.indexes, s) # {}
      BY <1>10, <2>1 DEF GInv, OneTask, Tasked
    <2>3. Of(OthersPlus(p, "indexes"), s) # {}
      BY <2>2 DEF OthersPlus, Of
    <2> QED
      BY <1>1, <2>1, <2>3
  <1>11. Apart'
    <2> SUFFICES ASSUME NEW q \in Procs, NEW r \in Procs, q # r,
                        NEW j \in tx'[q].task, NEW l \in tx'[r].task,
                        j.suite = l.suite,
                        \/ j.suite \notin doubled'
                        \/ tx'[q].pc = "generate" /\ tx'[r].pc = "generate"
                 PROVE  FALSE
      BY DEF Apart
    <2>1. CASE q = p
      BY <1>3, <1>4, <1>10, <2>1 DEF s
    <2>2. CASE r = p
      BY <1>3, <1>4, <1>10, <2>2 DEF s
    <2>3. CASE q # p /\ r # p
      BY <1>1, <1>3, <2>3 DEF GInv, Apart
    <2> QED
      BY <2>1, <2>2, <2>3
  <1>12. ASSUME s \notin doubled
         PROVE  Finding(p, k)'
    <2>1. Chain(Of(db.indexes, s))
      BY <1>6, <1>12 DEF GInv, Chains
    <2>2. older # {} => previous # {}
      BY <1>6, LatestOf DEF previous
    <2>3. /\ \A t, u \in previous : t = u /\ t < k.at
          /\ \A t \in previous : \A u \in older : u <= t
      <3>1. older \subseteq Int
        BY <1>6, ArchivesAssumption DEF Time
      <3> QED
        BY <3>1 DEF previous
    <2>4. ASSUME NEW g \in Of(db.indexes, s), g.created < k.at,
                 g.created \notin previous
          PROVE  g.removed # None /\ g.removed <= k.at
      <3>1. g.created \in older
        BY <2>4 DEF Created
      <3>2. PICK t \in previous : TRUE
        BY <2>2, <3>1
      <3>3. t \in older /\ t < k.at /\ g.created <= t
        BY <2>3, <3>1, <3>2 DEF previous
      <3>4. PICK h \in Of(db.indexes, s) : h.created = t
        BY <3>3 DEF Created
      <3>5. g.removed # None /\ g.removed <= t
        BY <2>1, <2>4, <3>3, <3>4 DEF Chain, Before
      <3>6. g.removed \in Int /\ t \in Int
        BY <1>6, <3>3, ArchivesAssumption DEF Index, Time
      <3> QED
        BY <1>6, <3>3, <3>5, <3>6
    <2>5. \A g \in Of(db.indexes, s) : g.created < k.at => g.created \in older
      BY DEF Created
    <2> HIDE DEF older
    <2> QED
      BY <1>1, <1>4, <2>3, <2>4, <2>5 DEF Finding, s
  <1>13. Generating'
    <2>1. ASSUME NEW q \in Procs \ {p}, NEW l \in tx[q].task,
                 l.suite \notin doubled
          PROVE  IF tx'[q].pc = "generate" THEN Finding(q, l)' ELSE Fitting(q, l)'
      <3>1. tx'[q] = tx[q]
        BY <1>3
      <3>2. Finding(q, l)' <=> Finding(q, l)
        BY <1>1, <3>1 DEF Finding
      <3>3. Fitting(q, l)' <=> Fitting(q, l)
        BY <1>1, <3>1 DEF Fitting, After
      <3>4. IF tx[q].pc = "generate" THEN Finding(q, l) ELSE Fitting(q, l)
        BY <2>1 DEF GInv, Generating
      <3> QED
        BY <3>1, <3>2, <3>3, <3>4
    <2>2. ASSUME NEW q \in Procs, NEW l \in tx'[q].task, l.suite \notin doubled'
          PROVE  IF tx'[q].pc = "generate" THEN Finding(q, l)' ELSE Fitting(q, l)'
      <3>1. l.suite \notin doubled
        BY <1>1, <2>2
      <3>2. CASE q = p
        <4>1. l = k /\ tx'[q].pc = "generate"
          BY <1>4, <2>2, <3>2
        <4>2. s \notin doubled
          BY <3>1, <4>1 DEF s
        <4>3. Finding(p, k)'
          BY <1>12, <4>2
        <4> QED
          BY <3>2, <4>1, <4>3
      <3>3. CASE q # p
        <4>1. l \in tx[q].task
          BY <1>3, <2>2, <3>3
        <4> QED
          BY <2>1, <3>1, <3>3, <4>1
      <3> QED
        BY <3>2, <3>3
    <2> QED
      BY <2>2 DEF Generating
  <1>14. Chains'
    BY <1>1 DEF GInv, Chains
  <1> QED
    BY <1>8, <1>9, <1>11, <1>13, <1>14 DEF GInv

(* A generation that is put between the one that was found and the next    *)
(* one makes a chain again.                                                *)
LEMMA Inserted ==
  ASSUME NEW rows \in SUBSET Index, Chain(rows),
         NEW at \in Time, NEW previous \in SUBSET Time,
         NEW n \in Index, n.created = at,
         \A t, u \in previous : t = u, \A t \in previous : t < at,
         \A g \in rows : g.created # at,
         \A g \in rows : g.created < at =>
            /\ \A t \in previous : g.created <= t
            /\ g.created \notin previous => g.removed # None /\ g.removed <= at,
         IF \E g \in rows : g.created > at
         THEN /\ \E g \in rows : n.removed = g.created /\ g.created > at
              /\ \A g \in rows : g.created > at => n.removed <= g.created
         ELSE n.removed = None
  PROVE  Chain((rows \ {g \in rows : g.created \in previous})
                 \cup (Remove({g \in rows : g.created \in previous}, at)
                         \cup {n}))
  <1> DEFINE old == {g \in rows : g.created \in previous}
             out(g) == [g EXCEPT !.removed = at]
             stay == rows \ old
  <1>1. /\ at \in Int /\ at >= 0
        /\ \A g \in rows \cup {n} : g.created \in Int /\ g.removed \in Int
        /\ \A t \in previous : t \in Int
        /\ \A g \in rows \cup {n} : g.created >= 0 /\ g.removed >= 0
    BY ArchivesAssumption DEF Index, Time
  <1>2. /\ Remove(old, at) = {out(g) : g \in old}
        /\ \A g \in old : /\ out(g).created = g.created /\ out(g).removed = at
                          /\ g.created < at /\ g \in rows
    BY DEF Remove, Index
  <1>3. \A g, h \in old : g = h
    BY ChainDiffer
  <1>4. at # None \/ old = {}
    BY <1>1, <1>2 DEF None
  <1>5. \A g \in stay, h \in stay : g # h /\ g.created <= h.created => Before(g, h)
    BY DEF Chain
  <1>6. ASSUME NEW g \in old, NEW h \in stay
        PROVE  /\ g.created <= h.created => Before(out(g), h)
               /\ h.created <= g.created => Before(h, out(g))
    <2>1. g # h /\ h.created \notin previous /\ g.created \in previous
      OBVIOUS
    <2>2. ASSUME g.created <= h.created PROVE Before(out(g), h)
      <3>1. h.created # g.created
        BY <2>1
      <3>2. ~(h.created < at)
        BY <1>1, <2>1, <2>2, <3>1
      <3> HIDE DEF out, old
      <3> QED
        BY <1>1, <1>2, <1>4, <3>2 DEF Before
    <2>3. ASSUME h.created <= g.created PROVE Before(h, out(g))
      <3>1. Before(h, g)
        BY <2>1, <2>3 DEF Chain
      <3> HIDE DEF out
      <3> QED
        BY <1>2, <3>1 DEF Before
    <2> QED
      BY <2>2, <2>3
  <1>7. ASSUME NEW g \in stay
        PROVE  /\ g.created <= at => Before(g, n)
               /\ at <= g.created => Before(n, g)
    <2>1. g.created \notin previous /\ g.created # at
      OBVIOUS
    <2>2. g.created <= at => Before(g, n)
      BY <1>1, <2>1 DEF Before
    <2>3. at <= g.created => Before(n, g)
      BY <1>1, <2>1 DEF Before, None
    <2> QED
      BY <2>2, <2>3
  <1>8. \A g \in old : Before(out(g), n) /\ ~(at <= g.created)
    <2> HIDE DEF out, old
    <2> QED
      BY <1>1, <1>2, <1>4 DEF Before
  <1>9. /\ \A g \in stay : g.removed = None \/ g.removed > g.created
        /\ \A g \in old : out(g).removed > out(g).created
        /\ n.removed = None \/ n.removed > n.created
    <2>1. \A g \in stay : g.removed = None \/ g.removed > g.created
      BY DEF Chain
    <2>2. n.removed = None \/ n.removed > n.created
      BY <1>1
    <2>3. \A g \in old : out(g).removed > out(g).created
      <3> HIDE DEF out, old
      <3> QED
        BY <1>1, <1>2
    <2> QED
      BY <2>1, <2>2, <2>3
  <1>10. n.removed = None \/ Active(stay) # {}
    <2>1. CASE \E g \in rows : g.created > at
      <3>1. PICK h \in rows : h.created > at
        BY <2>1
      <3>2. PICK g \in rows : g.removed = None
        BY <3>1 DEF Chain, Active
      <3>3. h.created <= g.created
        BY <3>2, ActiveLast DEF Active
      <3>4. g \notin old
        BY <1>1, <1>2, <3>1, <3>3
      <3> QED
        BY <3>2, <3>4 DEF Active
    <2>2. CASE ~\E g \in rows : g.created > at
      BY <2>2
    <2> QED
      BY <2>1, <2>2
  <1>11. Chain(stay \cup (Remove(old, at) \cup {n}))
    <2> DEFINE all == stay \cup (Remove(old, at) \cup {n})
    <2> HIDE DEF out, old, stay
    <2>1. \A g \in all : g \in stay \/ g = n \/ \E o \in old : g = out(o)
      BY <1>2
    <2>2. ASSUME NEW g \in all, NEW h \in all, g # h, g.created <= h.created
          PROVE  Before(g, h)
      <3>1. CASE g \in stay
        BY <1>2, <1>5, <1>6, <1>7, <2>1, <2>2, <3>1
      <3>2. CASE g = n
        BY <1>2, <1>7, <1>8, <2>1, <2>2, <3>2
      <3>3. CASE \E o \in old : g = out(o)
        BY <1>2, <1>3, <1>6, <1>8, <2>1, <2>2, <3>3
      <3> QED
        BY <2>1, <3>1, <3>2, <3>3
    <2>3. \A g \in all : g.removed = None \/ g.removed > g.created
      BY <1>9, <2>1
    <2>4. Active(all) # {}
      BY <1>10 DEF Active
    <2> QED
      BY <2>2, <2>3, <2>4 DEF Chain
  <1> QED
    BY <1>11

(* A task that writes its generation.                                      *)
LEMMA WriteGInv ==
  ASSUME IInv, GInv, TypeOK', NEW p \in Procs, NEW k \in tx[p].task,
         write_indexes(p, k)
  PROVE  GInv'
  <1> TypeOK
    BY DEF IInv
  <1> DEFINE s == k.suite
             old == supersede_older_items(p, k)
             listed == Created(active_at(Of(db.items, s), k.at))
             row(newer) == [suite |-> s, created |-> k.at, removed |-> newer,
                            listed |-> listed]
             plus(newer) == Remove(old, k.at) \cup {row(newer)}
  <1>1. PICK newer \in find_newer_item(k) :
           tx' = [tx EXCEPT ![p].pc = "open", ![p].minus.indexes = old,
                            ![p].plus.indexes = plus(newer)]
    BY DEF write_indexes
  <1> DEFINE n == row(newer)
  <1>2. /\ UNCHANGED <<db, tasks, clock, doubled>> /\ tx[p].pc = "generate"
        /\ index_lock' = index_lock \ {s}
    BY DEF write_indexes, history
  <1>3. /\ k \in Task /\ s \in Suites /\ k.at \in Time /\ k.at \in Int
        /\ tx[p] \in Tx /\ tx[p].previous \in SUBSET Time
        /\ Of(db.indexes, s) \in SUBSET Index /\ listed \in SUBSET Time
    BY TxFacts DEF Task, Of, Index, Created, active_at, Item
  <1>4. newer \in Time
    <2>1. None \in Time
      BY ArchivesAssumption DEF None, Time
    <2> QED
      BY <1>3, <2>1 DEF find_newer_item, Created, Index
  <1>5. /\ n \in Index /\ n.suite = s /\ n.created = k.at /\ n.removed = newer
    BY <1>3, <1>4 DEF Index
  <1> HIDE DEF listed, row
  <1>6. /\ tx'[p].pc = "open" /\ tx'[p].task = tx[p].task
        /\ tx'[p].minus.indexes = old /\ tx'[p].plus.indexes = plus(newer)
        /\ \A q \in Procs \ {p} : tx'[q] = tx[q]
    BY <1>1, <1>3 DEF TypeOK, Tx, Rows
  <1>7. /\ old = {g \in Of(db.indexes, s) : g.created \in tx[p].previous}
        /\ old \subseteq db.indexes /\ old \subseteq Index
        /\ \A g \in old : g.suite = s
    BY <1>3 DEF supersede_older_items, Of
  <1>8. Tasked(p) /\ Owned(p, k) /\ \A l \in tx[p].task : l = k
    BY DEF GInv, OneTask, TasksDiffer, Tasked
  <1>9. tx[p].plus.indexes = {} /\ tx[p].minus.indexes = {}
    BY <1>2, <1>8 DEF Tasked
  <1> HIDE DEF old
  <1>10. \A g \in Remove(old, k.at) : \E o \in old :
            /\ g.suite = o.suite /\ g.created = o.created /\ g.listed = o.listed
    BY <1>7 DEF Remove, Index
  <1> HIDE DEF s, n, plus
  <1>11. /\ Written' = Written \cup plus(newer)
         /\ OthersPlus(p, "indexes")' = OthersPlus(p, "indexes")
         /\ \A q \in Procs \ {p} : OthersPlus(q, "indexes")'
               = OthersPlus(q, "indexes") \cup plus(newer)
    BY <1>2, <1>6, <1>9 DEF Written, OthersPlus
  <1>12. \A g \in plus(newer) :
            \/ g = n
            \/ \E o \in old : /\ g.suite = o.suite /\ g.created = o.created
                              /\ g.listed = o.listed
    BY <1>10 DEF plus, n
  <1>13. \A l \in Task : Same(n, l) => l = k
    <2>1. \A l \in Task : l.suite = k.suite /\ l.at = k.at => l = k
      BY <1>3 DEF Task
    <2> QED
      BY <1>5, <2>1 DEF Same, s
  <1>14. \A g \in plus(newer), l \in Task :
            l # k /\ Same(g, l) => \E o \in db.indexes : Same(o, l)
    BY <1>7, <1>12, <1>13 DEF Same
  <1>15. TasksDiffer'
    <2>1. /\ tasks \subseteq Task /\ k \notin tasks /\ k.at <= clock
          /\ \A q \in Procs : tx[q].task \subseteq Task
          /\ db.indexes \subseteq Written
      BY <1>8, TxFacts DEF Owned, TypeOK, Written
    <2>2. \A l \in tasks : l.at <= clock /\ \A g \in Written' : ~Same(g, l)
      BY <1>11, <1>14, <2>1 DEF GInv, TasksDiffer
    <2>3. \A g \in Written' : g.created <= clock
      BY <1>5, <1>7, <1>11, <1>12, <2>1 DEF GInv, TasksDiffer
    <2>4. Owned(p, k)'
      BY <1>2, <1>6, <1>8, <1>11 DEF Owned, Same
    <2>5. ASSUME NEW q \in Procs \ {p}, NEW l \in tx[q].task PROVE Owned(q, l)'
      <3>1. Owned(q, l) /\ l # k /\ l \in Task
        BY <1>8, <2>1 DEF GInv, TasksDiffer, Owned
      <3>2. \A g \in plus(newer) : ~Same(g, l)
        BY <1>14, <3>1 DEF Owned
      <3> QED
        BY <1>2, <1>6, <1>11, <3>1, <3>2 DEF Owned, Same
    <2> QED
      BY <1>2, <1>6, <1>8, <2>2, <2>3, <2>4, <2>5 DEF TasksDiffer, Same
  <1>16. OneTask'
    <2>1. Tasked(p)'
      <3>1. n \in plus(newer) /\ n.suite = k.suite
        BY <1>5 DEF plus, n, s
      <3>2. \A g \in plus(newer) \cup old : g.suite = k.suite
        BY <1>5, <1>7, <1>12 DEF s
      <3> QED
        BY <1>6, <1>8, <3>1, <3>2 DEF Tasked, Of
    <2>2. ASSUME NEW q \in Procs \ {p} PROVE Tasked(q)'
      <3>1. Tasked(q)
        BY DEF GInv, OneTask
      <3>2. \A l \in tx[q].task : tx[q].pc = "generate" => l.suite # s
        BY <1>2 DEF GInv, Apart, s
      <3> QED
        BY <1>2, <1>6, <3>1, <3>2 DEF Tasked
    <2> QED
      BY <2>1, <2>2 DEF OneTask
  <1>17. Apart'
    BY <1>2, <1>6 DEF GInv, Apart
  <1>18. ASSUME s \notin doubled
         PROVE  Fitting(p, k)'
    <2> DEFINE rows == Of(db.indexes, s)
    <2>1. Finding(p, k) /\ Chain(rows)
      BY <1>2, <1>3, <1>18 DEF GInv, Generating, Chains, s
    <2>2. \A g \in rows : g.created # k.at
      BY <1>8 DEF Owned, Same, Of, s
    <2>3. IF \E g \in rows : g.created > k.at
          THEN /\ \E g \in rows : newer = g.created /\ g.created > k.at
               /\ \A g \in rows : g.created > k.at => newer <= g.created
          ELSE newer = None
      BY DEF find_newer_item, Created, s
    <2>4. Of(After(p)', s) = (rows \ old) \cup plus(newer)
      <3>1. \A g \in plus(newer) : g.suite = s
        BY <1>5, <1>7, <1>12
      <3> QED
        BY <1>2, <1>6, <3>1 DEF After, Of
    <2>5. Chain((rows \ old) \cup plus(newer))
      <3>1. /\ \A t, u \in tx[p].previous : t = u
            /\ \A t \in tx[p].previous : t < k.at
            /\ \A g \in rows : g.created < k.at =>
                  /\ \A t \in tx[p].previous : g.created <= t
                  /\ g.created \notin tx[p].previous =>
                        g.removed # None /\ g.removed <= k.at
        BY <2>1 DEF Finding, s
      <3> DEFINE found == {g \in rows : g.created \in tx[p].previous}
      <3>2. old = found /\ plus(newer) = Remove(old, k.at) \cup {n}
        BY <1>7 DEF plus, n
      <3>3. rows \in SUBSET Index
        BY <1>3
      <3>4. Chain((rows \ found) \cup (Remove(found, k.at) \cup {n}))
        <4> HIDE DEF rows
        <4> QED
          BY <1>3, <1>5, <2>1, <2>2, <2>3, <3>1, <3>3, Inserted
      <3> HIDE DEF found
      <3> QED
        BY <3>2, <3>4
    <2>6. \A o \in old : /\ o.created < k.at
                         /\ \A g \in rows : g.created < k.at =>
                               g.created <= o.created
      BY <1>7, <2>1 DEF Finding, s
    <2> QED
      BY <1>2, <1>5, <1>6, <1>7, <1>12, <2>4, <2>5, <2>6 DEF Fitting, s
  <1>19. Generating'
    <2>1. ASSUME NEW q \in Procs \ {p}, NEW l \in tx[q].task,
                 l.suite \notin doubled
          PROVE  IF tx'[q].pc = "generate" THEN Finding(q, l)' ELSE Fitting(q, l)'
      <3>1. tx'[q] = tx[q]
        BY <1>6
      <3>2. Finding(q, l)' <=> Finding(q, l)
        BY <1>2, <3>1 DEF Finding
      <3>3. Fitting(q, l)' <=> Fitting(q, l)
        BY <1>2, <3>1 DEF Fitting, After
      <3>4. IF tx[q].pc = "generate" THEN Finding(q, l) ELSE Fitting(q, l)
        BY <2>1 DEF GInv, Generating
      <3> QED
        BY <3>1, <3>2, <3>3, <3>4
    <2>2. ASSUME NEW q \in Procs, NEW l \in tx'[q].task, l.suite \notin doubled'
          PROVE  IF tx'[q].pc = "generate" THEN Finding(q, l)' ELSE Fitting(q, l)'
      <3>1. l.suite \notin doubled
        BY <1>2, <2>2
      <3>2. CASE q = p
        <4>1. l = k /\ tx'[q].pc # "generate"
          BY <1>6, <1>8, <2>2, <3>2
        <4>2. s \notin doubled
          BY <3>1, <4>1 DEF s
        <4>3. Fitting(p, k)'
          BY <1>18, <4>2
        <4> QED
          BY <3>2, <4>1, <4>3
      <3>3. CASE q # p
        <4>1. l \in tx[q].task
          BY <1>6, <2>2, <3>3
        <4> QED
          BY <2>1, <3>1, <3>3, <4>1
      <3> QED
        BY <3>2, <3>3
    <2> QED
      BY <2>2 DEF Generating
  <1>20. Chains'
    BY <1>2 DEF GInv, Chains
  <1> QED
    BY <1>15, <1>16, <1>17, <1>19, <1>20 DEF GInv

(* What a transaction writes is about the suite of its task.               *)
LEMMA OtherSuites ==
  ASSUME GInv, NEW p \in Procs, NEW s, \A k \in tx[p].task : k.suite # s
  PROVE  Of(After(p), s) = Of(db.indexes, s)
  <1>1. \A g \in tx[p].plus.indexes \cup tx[p].minus.indexes : g.suite # s
    BY DEF GInv, OneTask, Tasked
  <1> QED
    BY <1>1 DEF After, Of

(* Nothing that a task depends on changes if the generations of its suite  *)
(* do not, or only removed ones, which it does not replace, are forgotten. *)
LEMMA KeepGenerating ==
  ASSUME TypeOK, GInv, NEW p \in Procs, NEW k \in tx[p].task,
         k.suite \notin doubled, tx'[p] = tx[p],
         Of(db'.indexes, k.suite) \subseteq Of(db.indexes, k.suite),
         Active(Of(db.indexes, k.suite)) \subseteq db'.indexes,
         Of(tx[p].minus.indexes, k.suite) \cap Of(db.indexes, k.suite)
            \subseteq db'.indexes
  PROVE  IF tx'[p].pc = "generate" THEN Finding(p, k)' ELSE Fitting(p, k)'
  <1> DEFINE s == k.suite
             minus == tx[p].minus.indexes
             plus == tx[p].plus.indexes
  <1>1. CASE tx[p].pc = "generate"
    <2>1. Finding(p, k)
      BY <1>1 DEF GInv, Generating
    <2> QED
      BY <1>1, <2>1 DEF Finding
  <1>2. CASE tx[p].pc # "generate"
    <2>1. Fitting(p, k)
      BY <1>2 DEF GInv, Generating
    <2>2. \A g \in plus \cup minus : g.suite = s
      BY DEF GInv, OneTask, Tasked
    <2>3. minus \subseteq db'.indexes
      BY <2>1, <2>2 DEF Fitting, Of
    <2>4. Chain(Of(After(p)', s))
      <3>1. Of(After(p)', s) \subseteq Of(After(p), s)
        BY DEF After, Of
      <3>2. Active(Of(After(p), s)) \subseteq Of(After(p)', s)
        BY DEF After, Of, Active
      <3> QED
        BY <2>1, <3>1, <3>2, ChainFewer DEF Fitting
    <2> QED
      BY <1>2, <2>1, <2>3, <2>4 DEF Fitting
  <1> QED
    BY <1>1, <1>2

(* A commit.                                                               *)
LEMMA CommitGInv ==
  ASSUME IInv, GInv, TypeOK', NEW p \in Procs, commit(p)
  PROVE  GInv'
  <1> TypeOK
    BY DEF IInv
  <1>1. /\ tx'[p] = Closed /\ \A q \in Procs \ {p} : tx'[q] = tx[q]
        /\ UNCHANGED <<tasks, clock, index_lock, doubled>> /\ tx[p].pc = "open"
        /\ db'.indexes = After(p)
    BY DEF commit, TypeOK, Tables, After
  <1>2. /\ Closed.plus.indexes = {} /\ Closed.minus.indexes = {}
        /\ Closed.task = {}
    BY ClosedNothing
  <1>3. /\ Written' \subseteq Written
        /\ \A q \in Procs \ {p} : db'.indexes \cup OthersPlus(q, "indexes")'
               \subseteq db.indexes \cup OthersPlus(q, "indexes")
    BY <1>1, <1>2 DEF Written, OthersPlus, After
  <1>4. TasksDiffer'
    <2>1. ASSUME NEW q \in Procs \ {p}, NEW l \in tx[q].task PROVE Owned(q, l)'
      <3>1. Owned(q, l)
        BY DEF GInv, TasksDiffer
      <3> QED
        BY <1>1, <1>2, <1>3, <3>1 DEF Owned, Same
    <2>2. /\ \A k \in tasks : k.at <= clock /\ \A g \in Written' : ~Same(g, k)
          /\ \A g \in Written' : g.created <= clock
      BY <1>3 DEF GInv, TasksDiffer
    <2> QED
      BY <1>1, <1>2, <2>1, <2>2 DEF TasksDiffer, Same
  <1>5. OneTask'
    BY <1>1, <1>2 DEF GInv, OneTask, Tasked
  <1>6. Apart'
    BY <1>1, <1>2 DEF GInv, Apart
  <1>7. Generating'
    <2>1. ASSUME NEW q \in Procs \ {p}, NEW l \in tx[q].task,
                 l.suite \notin doubled
          PROVE  IF tx'[q].pc = "generate" THEN Finding(q, l)' ELSE Fitting(q, l)'
      <3>1. \A k \in tx[p].task : k.suite # l.suite
        BY <2>1 DEF GInv, Apart
      <3>2. Of(db'.indexes, l.suite) = Of(db.indexes, l.suite)
        BY <1>1, <3>1, OtherSuites
      <3> QED
        BY <1>1, <2>1, <3>2, KeepGenerating DEF Of, Active
    <2> QED
      BY <1>1, <1>2, <2>1 DEF Generating
  <1>8. Chains'
    <2> SUFFICES ASSUME NEW s \in Suites \ doubled
                 PROVE  Chain(Of(After(p), s))
      BY <1>1 DEF Chains
    <2>1. CASE \E k \in tx[p].task : k.suite = s
      BY <1>1, <2>1 DEF GInv, Generating, Fitting
    <2>2. CASE ~\E k \in tx[p].task : k.suite = s
      <3>1. Of(After(p), s) = Of(db.indexes, s)
        BY <2>2, OtherSuites
      <3> QED
        BY <3>1 DEF GInv, Chains
    <2> QED
      BY <2>1, <2>2
  <1> QED
    BY <1>4, <1>5, <1>6, <1>7, <1>8 DEF GInv

(* A task that is given up can be run again, as if it had not been.        *)
LEMMA RollbackGInv ==
  ASSUME IInv, GInv, NEW p \in Procs, rollback(p)
  PROVE  GInv'
  <1> TypeOK
    BY DEF IInv
  <1>1. /\ tx'[p] = Closed /\ \A q \in Procs \ {p} : tx'[q] = tx[q]
        /\ UNCHANGED <<db, clock, doubled>> /\ tasks' = tasks \cup tx[p].task
        /\ index_lock' = IF tx[p].pc = "generate"
                         THEN index_lock \ {k.suite : k \in tx[p].task}
                         ELSE index_lock
    BY DEF rollback, TypeOK, history
  <1>2. /\ Closed.plus.indexes = {} /\ Closed.minus.indexes = {}
        /\ Closed.task = {}
    BY ClosedNothing
  <1>3. /\ Written' = db.indexes \cup OthersPlus(p, "indexes")
        /\ Written' \subseteq Written
        /\ \A q \in Procs \ {p} :
              OthersPlus(q, "indexes")' \subseteq OthersPlus(q, "indexes")
    BY <1>1, <1>2 DEF Written, OthersPlus
  <1>4. TasksDiffer'
    <2>1. ASSUME NEW q \in Procs \ {p}, NEW l \in tx[q].task PROVE Owned(q, l)'
      <3>1. Owned(q, l) /\ l \notin tx[p].task
        BY DEF GInv, TasksDiffer, Owned
      <3> QED
        BY <1>1, <1>2, <1>3, <3>1 DEF Owned, Same
    <2>2. \A k \in tx[p].task : k.at <= clock /\ \A g \in Written' : ~Same(g, k)
      BY <1>3 DEF GInv, TasksDiffer, Owned
    <2>3. /\ \A k \in tasks' : k.at <= clock /\ \A g \in Written' : ~Same(g, k)
          /\ \A g \in Written' : g.created <= clock
      BY <1>1, <1>3, <2>2 DEF GInv, TasksDiffer
    <2> QED
      BY <1>1, <1>2, <2>1, <2>3 DEF TasksDiffer, Same
  <1>5. OneTask'
    <2>1. Tasked(p)'
      BY <1>1, <1>2 DEF Tasked
    <2>2. ASSUME NEW q \in Procs \ {p} PROVE Tasked(q)'
      <3>1. Tasked(q)
        BY DEF GInv, OneTask
      <3>2. \A l \in tx[q].task : tx[q].pc = "generate" /\ tx[p].pc = "generate"
               => \A k \in tx[p].task : k.suite # l.suite
        BY DEF GInv, Apart
      <3> QED
        BY <1>1, <3>1, <3>2 DEF Tasked
    <2> QED
      BY <2>1, <2>2 DEF OneTask
  <1>6. Apart'
    BY <1>1, <1>2 DEF GInv, Apart
  <1>7. Generating'
    <2>1. ASSUME NEW q \in Procs \ {p}, NEW l \in tx[q].task,
                 l.suite \notin doubled
          PROVE  IF tx'[q].pc = "generate" THEN Finding(q, l)' ELSE Fitting(q, l)'
      BY <1>1, <2>1, KeepGenerating DEF Of, Active
    <2> QED
      BY <1>1, <1>2, <2>1 DEF Generating
  <1>8. Chains'
    BY <1>1 DEF GInv, Chains
  <1> QED
    BY <1>4, <1>5, <1>6, <1>7, <1>8 DEF GInv

(* What expires.                                                           *)
LEMMA DropFacts ==
  ASSUME TypeOK, NEW s \in Suites, NEW before, drop_metadata(s, before)
  PROVE  /\ UNCHANGED <<workspace, tx, index_lock, tasks, clock, unguarded, doubled>>
         /\ db'.members = db.members /\ db'.constraints = db.constraints
         /\ db'.items = db.items \ Expired(s, before).items
         /\ db'.indexes = db.indexes \ Expired(s, before).indexes
         /\ Active(db.items) \subseteq db'.items
         /\ Active(db.indexes) \subseteq db'.indexes
         /\ \A p \in Procs : tx[p].minus.indexes \cap db.indexes \subseteq db'.indexes
  <1>1. /\ Expired(s, before).members = {} /\ Expired(s, before).constraints = {}
        /\ Expired(s, before).items
              = {r \in Of(db.items, s) : r.removed \in 1 .. before}
        /\ Expired(s, before).indexes
              = {r \in Of(db.indexes, s) : r.removed \in 1 .. before}
    BY DEF Expired, NoRows, Tables
  <1>2. None \notin 1 .. before
    BY DEF None
  <1>3. /\ db'.members = db.members \ Expired(s, before).members
        /\ db'.constraints = db.constraints \ Expired(s, before).constraints
        /\ db'.items = db.items \ Expired(s, before).items
        /\ db'.indexes = db.indexes \ Expired(s, before).indexes
        /\ \A p \in Procs : Expired(s, before).indexes \cap tx[p].minus.indexes = {}
    BY DEF drop_metadata, Tables
  <1>4. /\ \A r \in Expired(s, before).items : r.removed # None
        /\ \A r \in Expired(s, before).indexes : r.removed # None
    BY <1>1, <1>2
  <1> QED
    BY <1>1, <1>3, <1>4 DEF drop_metadata, Active

(* Indexes that expire leave a chain.                                      *)
LEMMA DropGInv ==
  ASSUME IInv, GInv, NEW s \in Suites, NEW before, drop_metadata(s, before)
  PROVE  GInv'
  <1> TypeOK
    BY DEF IInv
  <1>1. /\ UNCHANGED <<tx, index_lock, tasks, clock, doubled>>
        /\ db'.indexes \subseteq db.indexes
        /\ Active(db.indexes) \subseteq db'.indexes
        /\ \A p \in Procs : tx[p].minus.indexes \cap db.indexes \subseteq db'.indexes
    BY DropFacts
  <1>2. /\ Written' \subseteq Written
        /\ \A q \in Procs : OthersPlus(q, "indexes")' = OthersPlus(q, "indexes")
    BY <1>1 DEF Written, OthersPlus
  <1>3. TasksDiffer'
    <2>1. ASSUME NEW q \in Procs, NEW l \in tx[q].task PROVE Owned(q, l)'
      <3>1. Owned(q, l)
        BY DEF GInv, TasksDiffer
      <3> QED
        BY <1>1, <1>2, <3>1 DEF Owned, Same
    <2> QED
      BY <1>1, <1>2, <2>1 DEF GInv, TasksDiffer, Same
  <1>4. OneTask' /\ Apart'
    BY <1>1 DEF GInv, OneTask, Tasked, Apart
  <1>5. Generating'
    <2>1. ASSUME NEW q \in Procs, NEW l \in tx[q].task, l.suite \notin doubled
          PROVE  IF tx'[q].pc = "generate" THEN Finding(q, l)' ELSE Fitting(q, l)'
      <3>1. /\ Of(db'.indexes, l.suite) \subseteq Of(db.indexes, l.suite)
            /\ Active(Of(db.indexes, l.suite)) \subseteq db'.indexes
            /\ Of(tx[q].minus.indexes, l.suite) \cap Of(db.indexes, l.suite)
                  \subseteq db'.indexes
        BY <1>1 DEF Of, Active
      <3> QED
        BY <1>1, <2>1, <3>1, KeepGenerating
    <2> QED
      BY <1>1, <2>1 DEF Generating
  <1>6. Chains'
    <2> SUFFICES ASSUME NEW t \in Suites \ doubled
                 PROVE  Chain(Of(db'.indexes, t))
      BY <1>1 DEF Chains
    <2>1. /\ Of(db'.indexes, t) \subseteq Of(db.indexes, t)
          /\ Active(Of(db.indexes, t)) \subseteq Of(db'.indexes, t)
      BY <1>1 DEF Of, Active
    <2> QED
      BY <2>1, ChainFewer DEF GInv, Chains
  <1> QED
    BY <1>3, <1>4, <1>5, <1>6 DEF GInv

-----------------------------------------------------------------------------
(* What generations list.                                                  *)

(* Steps that change no items, and write no generation.                    *)
LEMMA QuietListed ==
  ASSUME Listed, db'.items = db.items, Written' \subseteq Written,
         missed \subseteq missed'
  PROVE  Listed'
  BY DEF Listed

(* A generation that is written lists what is active at its time.          *)
LEMMA WriteListed ==
  ASSUME IInv, GInv, Listed, NEW p \in Procs, NEW k \in tx[p].task,
         write_indexes(p, k)
  PROVE  Listed'
  <1> TypeOK
    BY DEF IInv
  <1> DEFINE old == supersede_older_items(p, k)
             listed == Created(active_at(Of(db.items, k.suite), k.at))
             row(newer) == [suite |-> k.suite, created |-> k.at,
                            removed |-> newer, listed |-> listed]
             plus(newer) == Remove(old, k.at) \cup {row(newer)}
  <1>1. PICK newer :
           tx' = [tx EXCEPT ![p].pc = "open", ![p].minus.indexes = old,
                            ![p].plus.indexes = plus(newer)]
    BY DEF write_indexes
  <1>2. UNCHANGED <<db, missed>>
    BY DEF write_indexes, history
  <1>3. old \subseteq db.indexes /\ old \subseteq Index
    BY TxFacts DEF supersede_older_items, Of
  <1>4. \A g \in Remove(old, k.at) : \E o \in db.indexes :
           g.suite = o.suite /\ g.created = o.created /\ g.listed = o.listed
    BY <1>3 DEF Remove, Index
  <1>5. /\ row(newer).suite = k.suite /\ row(newer).created = k.at
        /\ row(newer).listed = listed
    OBVIOUS
  <1> HIDE DEF old, listed, row
  <1>6. /\ tx'[p].plus.indexes = plus(newer)
        /\ \A q \in Procs \ {p} : tx'[q] = tx[q]
    <2> HIDE DEF plus
    <2> QED
      BY <1>1, TxFacts DEF TypeOK, Tx, Rows
  <1>7. Written' \subseteq Written \cup plus(newer)
    BY <1>2, <1>6 DEF Written
  <1>8. ASSUME NEW g \in plus(newer)
        PROVE  \/ <<g.suite, g.created>> \in missed
               \/ g.listed = Created(active_at(Of(db.items, g.suite), g.created))
    <2>1. CASE g = row(newer)
      BY <1>5, <2>1 DEF listed
    <2>2. CASE g \in Remove(old, k.at)
      BY <1>4, <2>2 DEF Listed, Written
    <2> QED
      BY <2>1, <2>2
  <1> HIDE DEF plus
  <1> QED
    BY <1>2, <1>7, <1>8 DEF Listed

(* A change that is committed after a generation is later than it, or the  *)
(* generation has missed it.                                               *)
LEMMA CommitListed ==
  ASSUME IInv, PInv, Listed, NEW p \in Procs, commit(p)
  PROVE  Listed'
  <1> TypeOK
    BY DEF IInv
  <1>1. /\ tx'[p] = Closed /\ \A q \in Procs \ {p} : tx'[q] = tx[q]
        /\ db'.items = (db.items \ tx[p].minus.items) \cup tx[p].plus.items
        /\ db'.indexes = After(p)
        /\ missed' = missed \cup TooEarlyFor(tx[p].plus.items)
    BY DEF commit, TypeOK, Tables, After
  <1>2. Written' \subseteq Written
    BY <1>1, ClosedNothing DEF Written, After
  <1> SUFFICES ASSUME NEW g \in Written,
                      <<g.suite, g.created>> \notin missed'
               PROVE  g.listed =
                        Created(active_at(Of(db'.items, g.suite), g.created))
    BY <1>2 DEF Listed
  <1> DEFINE s == g.suite
             at == g.created
  <1>3. g.listed = Created(active_at(Of(db.items, s), at))
    BY <1>1 DEF Listed
  <1>4. ASSUME NEW i \in tx[p].plus.items, i.suite = s
        PROVE  at < IF i.removed = None THEN i.created ELSE i.removed
    <2>1. <<s, at>> \notin TooEarlyFor(tx[p].plus.items)
      BY <1>1
    <2>2. ~(at >= IF i.removed = None THEN i.created ELSE i.removed)
      BY <1>4, <2>1 DEF TooEarlyFor, Of
    <2>3. i.created \in Int /\ i.removed \in Int /\ at \in Int
      BY TxFacts, WrittenType DEF Item, Index
    <2> QED
      BY <2>2, <2>3
  <1>5. at \in Int /\ \A i \in db.items \cup tx[p].plus.items :
                          i.created \in Int /\ i.removed \in Int
    BY TxFacts, WrittenType DEF Item, Index
  <1>6. Replacing(p)
    BY DEF PInv, Replaced
  <1>7. ASSUME NEW i \in active_at(Of(db.items, s), at)
        PROVE  i.created \in Created(active_at(Of(db'.items, s), at))
    <2>1. CASE i \in tx[p].minus.items
      <3>1. PICK j \in tx[p].plus.items : SameItem(i, j) /\ j.removed # None
        BY <1>6, <2>1 DEF Replacing
      <3>2. j.suite = s /\ j.created = i.created /\ j.created <= at
        BY <1>7, <3>1 DEF SameItem, active_at, Of
      <3>3. j.removed > at
        BY <1>4, <1>5, <3>1, <3>2
      <3>4. j \in active_at(Of(db'.items, s), at)
        BY <1>1, <3>2, <3>3 DEF active_at, Of
      <3> QED
        BY <3>2, <3>4 DEF Created
    <2>2. CASE i \notin tx[p].minus.items
      BY <1>1, <2>2 DEF Created, active_at, Of
    <2> QED
      BY <2>1, <2>2
  <1>8. ASSUME NEW j \in active_at(Of(db'.items, s), at)
        PROVE  j.created \in Created(active_at(Of(db.items, s), at))
    <2>1. CASE j \in tx[p].plus.items
      <3>1. j.suite = s /\ j.created <= at
        BY DEF active_at, Of
      <3>2. j.removed # None
        BY <1>4, <1>5, <2>1, <3>1
      <3>3. PICK i \in tx[p].minus.items : SameItem(i, j)
        BY <1>6, <2>1, <3>2 DEF Replacing, Active
      <3>4. i \in db.items /\ i.removed = None
        BY <1>6 DEF Replacing, Active
      <3>5. i \in active_at(Of(db.items, s), at) /\ i.created = j.created
        BY <3>1, <3>3, <3>4 DEF SameItem, active_at, Of
      <3> QED
        BY <3>5 DEF Created
    <2>2. CASE j \notin tx[p].plus.items
      BY <1>1, <2>2 DEF Created, active_at, Of
    <2> QED
      BY <2>1, <2>2
  <1> HIDE DEF s, at
  <1>9. Created(active_at(Of(db.items, s), at))
           = Created(active_at(Of(db'.items, s), at))
    BY <1>7, <1>8 DEF Created
  <1> QED
    BY <1>3, <1>9 DEF s, at

(* An item that is forgotten was removed before a generation, or counts as *)
(* missed by it.                                                           *)
LEMMA DropListed ==
  ASSUME IInv, Listed, NEW s \in Suites, NEW before, drop_metadata(s, before)
  PROVE  Listed'
  <1> TypeOK
    BY DEF IInv
  <1> DEFINE gone == Expired(s, before).items
  <1>1. /\ UNCHANGED tx /\ db'.indexes \subseteq db.indexes
        /\ db'.items = db.items \ gone
        /\ missed' = missed \cup
              {<<s, g.created>> : g \in {h \in Of(Written, s) :
                                   \E i \in gone : i.removed > h.created}}
    BY DropFacts DEF drop_metadata
  <1>2. gone = {r \in Of(db.items, s) : r.removed \in 1 .. before}
    BY DEF Expired, NoRows, Tables
  <1>3. \A i \in gone : i.suite = s /\ i.removed # None
    BY <1>2 DEF Of, None
  <1>4. Written' \subseteq Written
    BY <1>1 DEF Written
  <1> HIDE DEF gone
  <1> SUFFICES ASSUME NEW g \in Written,
                      <<g.suite, g.created>> \notin missed'
               PROVE  g.listed =
                        Created(active_at(Of(db'.items, g.suite), g.created))
    BY <1>4 DEF Listed
  <1>5. g.listed = Created(active_at(Of(db.items, g.suite), g.created))
    BY <1>1 DEF Listed
  <1>6. \A i \in gone : g.suite = s => ~(i.removed > g.created)
    BY <1>1 DEF Of
  <1>7. active_at(Of(db'.items, g.suite), g.created)
           = active_at(Of(db.items, g.suite), g.created)
    BY <1>1, <1>3, <1>6 DEF active_at, Of
  <1> QED
    BY <1>5, <1>7

-----------------------------------------------------------------------------
(* The invariant holds at the start.                                       *)
LEMMA InitSInv == Init => SInv
  <1> SUFFICES ASSUME Init PROVE SInv
    OBVIOUS
  <1>1. IInv
    BY InitIInv
  <1>2. /\ NoRows.items = {} /\ NoRows.constraints = {} /\ NoRows.indexes = {}
    BY DEF NoRows, Tables
  <1>3. /\ db.items = {} /\ db.constraints = {} /\ db.indexes = {}
        /\ tasks = {} /\ \A p \in Procs : tx[p] = Closed
    BY <1>2 DEF Init
  <1>4. Replaced /\ ItemsDiffer
    BY <1>3, ClosedNothing DEF Replaced, Replacing, ItemsDiffer, Active
  <1>5. Agreed /\ DeletedWith
    BY <1>3, ClosedNothing DEF Agreed, DeletedWith, Agree, Conflict
  <1>6. ItemsHeld /\ NewHeld
    BY <1>3, ClosedNothing DEF ItemsHeld, NewHeld, Safe, Active
  <1>7. Written = {}
    BY <1>3, ClosedNothing DEF Written
  <1>8. TasksDiffer /\ OneTask /\ Apart /\ Generating
    BY <1>3, <1>7, ClosedNothing
       DEF TasksDiffer, OneTask, Tasked, Apart, Generating
  <1>9. Chains
    BY <1>3 DEF Chains, Chain, Of
  <1>10. Listed
    BY <1>7 DEF Listed
  <1> QED
    BY <1>1, <1>4, <1>5, <1>6, <1>8, <1>9, <1>10 DEF SInv, PInv, GInv

(* Transactions that begin.                                                *)
LEMMA BeginSInv ==
  ASSUME SInv, TypeOK', NEW p \in Procs,
         \/ \E s \in Suites, a \in Artifacts, replace \in BOOLEAN :
               add_artifact(p, s, a, replace)
         \/ \E i \in Active(db.items) : remove_item(p, i)
         \/ \E s \in Suites : add_collection(p, s) \/ remove_collection(p, s)
  PROVE  PInv' /\ GInv' /\ Listed'
  <1> TypeOK /\ IInv /\ PInv /\ GInv
    BY DEF SInv, IInv
  <1>1. PInv'
    BY AddArtifactPInv, RemoveItemPInv, AddCollectionPInv, RemoveCollectionPInv
  <1>2. \E old, new \in Rows : /\ Begin(p, old, new)
                               /\ old.indexes = {} /\ new.indexes = {}
    <2>1. ASSUME NEW s \in Suites, NEW a \in Artifacts, NEW replace \in BOOLEAN,
                 add_artifact(p, s, a, replace)
          PROVE  \E old, new \in Rows : /\ Begin(p, old, new)
                                        /\ old.indexes = {} /\ new.indexes = {}
      <3>1. /\ OldRows(s, a, replace).indexes = {}
            /\ NewRows(s, a, replace).indexes = {}
        BY DEF OldRows, NewRows, NoRows, Tables
      <3> QED
        BY <2>1, <3>1, AddArtifactBegins
    <2>2. ASSUME NEW i \in Active(db.items), remove_item(p, i)
          PROVE  \E old, new \in Rows : /\ Begin(p, old, new)
                                        /\ old.indexes = {} /\ new.indexes = {}
      <3>1. RemovedOld(i).indexes = {} /\ RemovedNew(i).indexes = {}
        BY DEF RemovedOld, RemovedNew, NoRows, Tables
      <3> QED
        BY <2>2, <3>1, RemoveItemBegins DEF Active
    <2>3. ASSUME NEW s \in Suites, add_collection(p, s)
          PROVE  \E old, new \in Rows : /\ Begin(p, old, new)
                                        /\ old.indexes = {} /\ new.indexes = {}
      <3>1. NoRows.indexes = {} /\ MemberRows(s).indexes = {}
        BY DEF MemberRows, NoRows, Tables
      <3> QED
        BY <2>3, <3>1, AddCollectionBegins, ClosedType
    <2>4. ASSUME NEW s \in Suites, remove_collection(p, s)
          PROVE  \E old, new \in Rows : /\ Begin(p, old, new)
                                        /\ old.indexes = {} /\ new.indexes = {}
      <3>1. LeavingOld(s).indexes = {} /\ LeavingNew(s).indexes = {}
        BY DEF LeavingOld, LeavingNew, NoRows, Tables
      <3> QED
        BY <2>4, <3>1, RemoveCollectionBegins
    <2> QED
      BY <2>1, <2>2, <2>3, <2>4
  <1>3. PICK old \in Rows, new \in Rows :
           Begin(p, old, new) /\ old.indexes = {} /\ new.indexes = {}
    BY <1>2
  <1>4. GInv'
    BY <1>3, BeginGInv
  <1>5. Listed'
    <2>1. /\ tx'[p].plus = new /\ \A q \in Procs \ {p} : tx'[q] = tx[q]
          /\ db' = db
      BY <1>3, BeginAll
    <2>2. UNCHANGED missed
      BY <1>3 DEF Begin
    <2>3. Written' \subseteq Written
      BY <1>3, <2>1 DEF Written
    <2> QED
      BY <2>1, <2>2, <2>3, QuietListed DEF SInv
  <1> QED
    BY <1>1, <1>4, <1>5

(* Tasks that are created and started.                                     *)
LEMMA TaskSInv ==
  ASSUME SInv, \/ \E force \in BOOLEAN : populate(force)
               \/ \E p \in Procs : \E k \in tasks : start_generation(p, k)
  PROVE  PInv' /\ GInv' /\ Listed'
  <1> TypeOK /\ IInv /\ PInv /\ GInv
    BY DEF SInv, IInv
  <1>1. GInv'
    BY PopulateGInv, StartGInv
  <1>2. UNCHANGED <<db, unguarded, missed>>
    BY DEF populate, start_generation, history
  <1>3. \A p \in Procs : tx'[p].plus = tx[p].plus /\ tx'[p].minus = tx[p].minus
    <2>1. CASE UNCHANGED tx
      BY <2>1
    <2>2. ASSUME NEW p \in Procs, NEW k \in tasks, start_generation(p, k)
          PROVE  \A q \in Procs :
                    tx'[q].plus = tx[q].plus /\ tx'[q].minus = tx[q].minus
      <3>1. tx[p] = Closed
        BY <2>2 DEF start_generation, IInv, Pool, ClosedEmpty
      <3>2. PICK previous :
               tx' = [tx EXCEPT ![p] = [Closed EXCEPT !.pc = "generate",
                                  !.task = {k}, !.previous = previous]]
        BY <2>2 DEF start_generation
      <3>3. tx'[p].plus = Closed.plus /\ tx'[p].minus = Closed.minus
        BY <3>2 DEF TypeOK, Closed
      <3> QED
        BY <3>1, <3>2, <3>3 DEF TypeOK
    <2> QED
      BY <2>1, <2>2 DEF populate
  <1>4. PInv'
    BY <1>2, <1>3, QuietPInv DEF Active
  <1>5. Written' \subseteq Written
    BY <1>2, <1>3 DEF Written
  <1> QED
    BY <1>1, <1>2, <1>4, <1>5, QuietListed DEF SInv

(* Indexes that are written.                                               *)
LEMMA WriteSInv ==
  ASSUME SInv, TypeOK', NEW p \in Procs, NEW k \in tx[p].task,
         write_indexes(p, k)
  PROVE  PInv' /\ GInv' /\ Listed'
  <1> TypeOK /\ IInv /\ PInv /\ GInv
    BY DEF SInv, IInv
  <1>1. GInv' /\ Listed'
    BY WriteGInv, WriteListed DEF SInv
  <1>2. PICK old, index :
           tx' = [tx EXCEPT ![p].pc = "open", ![p].minus.indexes = old,
                            ![p].plus.indexes = index]
    BY DEF write_indexes
  <1>3. /\ tx'[p].plus.items = tx[p].plus.items
        /\ tx'[p].minus.items = tx[p].minus.items
        /\ tx'[p].plus.members = tx[p].plus.members
        /\ tx'[p].plus.constraints = tx[p].plus.constraints
        /\ tx'[p].minus.constraints = tx[p].minus.constraints
        /\ \A q \in Procs \ {p} : tx'[q] = tx[q]
    BY <1>2 DEF TypeOK, Tx, Rows
  <1>4. UNCHANGED <<db, unguarded>>
    BY DEF write_indexes, history
  <1>5. PInv'
    BY <1>3, <1>4, QuietPInv DEF Active
  <1> QED
    BY <1>1, <1>5

(* Transactions that end, and items that expire.                           *)
LEMMA EndSInv ==
  ASSUME SInv, TypeOK', \/ \E p \in Procs : commit(p) \/ rollback(p)
                        \/ \E s \in Suites, before \in 1 .. clock :
                              drop_metadata(s, before)
  PROVE  PInv' /\ GInv' /\ Listed'
  <1> TypeOK /\ IInv /\ PInv /\ GInv /\ Listed
    BY DEF SInv, IInv
  <1>1. ASSUME NEW p \in Procs, commit(p) PROVE PInv' /\ GInv' /\ Listed'
    BY <1>1, CommitPInv, CommitGInv, CommitListed
  <1>2. ASSUME NEW p \in Procs, rollback(p) PROVE PInv' /\ GInv' /\ Listed'
    <2>1. /\ tx'[p] = Closed /\ \A q \in Procs \ {p} : tx'[q] = tx[q]
          /\ UNCHANGED <<db, unguarded, missed>>
      BY <1>2 DEF rollback, history, TypeOK
    <2>2. PInv'
      BY <2>1, QuietPInv DEF Active
    <2>3. Written' \subseteq Written
      BY <2>1, ClosedNothing DEF Written
    <2> QED
      BY <1>2, <2>1, <2>2, <2>3, RollbackGInv, QuietListed
  <1>3. ASSUME NEW s \in Suites, NEW before, drop_metadata(s, before)
        PROVE  PInv' /\ GInv' /\ Listed'
    <2>1. /\ UNCHANGED <<tx, unguarded>>
          /\ db'.members = db.members /\ db'.constraints = db.constraints
          /\ db'.items \subseteq db.items /\ Active(db.items) \subseteq db'.items
      BY <1>3, DropFacts
    <2>2. PInv'
      BY <2>1, QuietPInv
    <2> QED
      BY <1>3, <2>2, DropGInv, DropListed
  <1> QED
    BY <1>1, <1>2, <1>3

(* Every step keeps it.                                                    *)
LEMMA NextSInv == SInv /\ [Next]_vars => SInv'
  <1> SUFFICES ASSUME SInv, [Next]_vars PROVE SInv'
    OBVIOUS
  <1>1. IInv' /\ TypeOK' /\ TypeOK
    BY NextIInv DEF SInv, IInv
  <1>2. PInv' /\ GInv' /\ Listed'
    <2>1. ASSUME NEW p \in Procs,
                 \/ \E s \in workspace.suites, a \in Artifacts,
                       replace \in BOOLEAN : add_artifact(p, s, a, replace)
                 \/ \E i \in Active(db.items) : remove_item(p, i)
                 \/ \E s \in workspace.suites :
                       add_collection(p, s) \/ remove_collection(p, s)
          PROVE  PInv' /\ GInv' /\ Listed'
      BY <1>1, <2>1, WorkspaceType, BeginSInv
    <2>2. ASSUME NEW s \in workspace.suites, NEW before \in 1 .. clock,
                 drop_metadata(s, before)
          PROVE  PInv' /\ GInv' /\ Listed'
      BY <1>1, <2>2, WorkspaceType, EndSInv
    <2>3. CASE UNCHANGED vars
      <3>1. UNCHANGED <<db, tx, tasks, clock, index_lock, unguarded, missed,
                        doubled>>
        BY <2>3 DEF vars, history
      <3>2. PInv'
        BY <3>1, QuietPInv DEF SInv, Active
      <3>3. GInv'
        BY <1>1, <3>1, TxFacts, QuietGInv DEF SInv, SameIndexes
      <3>4. Listed'
        BY <3>1, QuietListed DEF SInv, Written
      <3> QED
        BY <3>2, <3>3, <3>4
    <2> QED
      BY <1>1, <2>1, <2>2, <2>3, TaskSInv, WriteSInv, EndSInv DEF Next
  <1> QED
    BY <1>1, <1>2 DEF SInv

-----------------------------------------------------------------------------
(* Results.                                                                *)

(* Constraints of one name agree, and so do the items that hold them.      *)
LEMMA OneContentServed == SInv => PoolServed
  <1> SUFFICES ASSUME SInv,
                      NEW i \in Active(db.items), i.created \notin unguarded,
                      Active(Of(db.members, i.suite)) # {},
                      NEW j \in Active(db.items), j.created \notin unguarded,
                      Active(Of(db.members, j.suite)) # {},
                      NEW f \in Files[i.artifact], NEW g \in Files[j.artifact],
                      f[1] = g[1]
               PROVE  f = g
    BY DEF PoolServed
  <1> DEFINE c == [collection |-> Archive, item |-> i.created, file |-> f]
             d == [collection |-> Archive, item |-> j.created, file |-> g]
  <1>1. c \in db.constraints /\ d \in db.constraints
    BY DEF SInv, PInv, ItemsHeld, Safe, Joined, HasConstraints
  <1> QED
    BY <1>1 DEF SInv, PInv, Agreed, Agree, Conflict

(* Generations in the table are a chain.                                   *)
LEMMA ChainServed == SInv => IndexChain
  <1> SUFFICES ASSUME SInv, NEW s \in Suites \ doubled
               PROVE  /\ \A t \in Time :
                            Cardinality(active_at(Of(db.indexes, s), t)) <= 1
                      /\ Of(db.indexes, s) # {} => Active(Of(db.indexes, s)) # {}
    BY DEF IndexChain
  <1> DEFINE rows == Of(db.indexes, s)
  <1>1. Chain(rows) /\ rows \in SUBSET Index
    BY TxFacts DEF SInv, IInv, GInv, Chains, Of
  <1> HIDE DEF rows
  <1>2. ASSUME NEW t \in Time PROVE Cardinality(active_at(rows, t)) <= 1
    <2>1. CASE active_at(rows, t) = {}
      BY <2>1, FS_EmptySet
    <2>2. ASSUME NEW g \in active_at(rows, t)
          PROVE  Cardinality(active_at(rows, t)) <= 1
      <3>1. active_at(rows, t) = {g}
        BY <1>1, ChainOne
      <3> QED
        BY <3>1, FS_Singleton
    <2> QED
      BY <2>1, <2>2
  <1> QED
    BY <1>1, <1>2 DEF Chain, rows

(* The last generation of a suite that is not stale is of its last change. *)
LEMMA ListedServed == SInv => StaleOrListed
  <1> SUFFICES ASSUME SInv, NEW s \in Suites,
                      NEW g \in Active(Of(db.indexes, s)),
                      ~Stale(s), s \notin doubled,
                      <<s, g.created>> \notin missed
               PROVE  g.listed = Created(Active(Of(db.items, s)))
    BY DEF StaleOrListed
  <1>1. /\ Chain(Of(db.indexes, s)) /\ Of(db.indexes, s) \in SUBSET Index
        /\ Of(db.items, s) \in SUBSET Item
    BY TxFacts DEF SInv, IInv, GInv, Chains, Of
  <1>2. g \in db.indexes /\ g \in Of(db.indexes, s) /\ g.suite = s
    BY DEF Active, Of
  <1>3. g.listed = Created(active_at(Of(db.items, s), g.created))
    BY <1>2 DEF SInv, Listed, Written
  <1>4. \A h \in Of(db.indexes, s) : h.created <= g.created
    BY <1>1, ActiveLast
  <1>5. /\ \A h \in Of(db.indexes, s) : h.created \in Int
        /\ \A i \in Of(db.items, s) : i.created \in Int /\ i.removed \in Int
    BY <1>1, ArchivesAssumption DEF Index, Item, Time
  <1>6. \A i \in Of(db.items, s) : i.created <= g.created /\ i.removed <= g.created
    <2> SUFFICES ASSUME NEW i \in Of(db.items, s)
                 PROVE  i.created <= g.created /\ i.removed <= g.created
      OBVIOUS
    <2>1. /\ \E h \in Of(db.indexes, s) : ~(i.created > h.created)
          /\ \E h \in Of(db.indexes, s) : ~(i.removed > h.created)
      BY DEF Stale
    <2> QED
      BY <1>2, <1>4, <1>5, <2>1
  <1>7. active_at(Of(db.items, s), g.created) = Active(Of(db.items, s))
    BY <1>2, <1>5, <1>6 DEF active_at, Active
  <1> QED
    BY <1>3, <1>7

(* Times before the time of a generation are not changed by it.            *)
Stable(s, t) ==
    \/ Served(s, t) = {} \/ Served(s, t)' \subseteq Served(s, t)
    \/ \E p \in Procs : \E k \in tx[p].task : k.suite = s /\ k.at <= t

(* Nothing is replaced where no generation is added.                       *)
LEMMA FewerStable ==
  ASSUME NEW s, NEW t, Of(db'.indexes, s) \subseteq Of(db.indexes, s)
  PROVE  Stable(s, t)
  BY DEF Stable, Served, active_at

(* A generation that is added replaces what was served only after its      *)
(* time.                                                                   *)
LEMMA CommitStable ==
  ASSUME SInv, NEW s \in Suites \ doubled, NEW t \in 1 .. clock,
         NEW p \in Procs, commit(p)
  PROVE  Stable(s, t)
  <1> TypeOK /\ GInv
    BY DEF SInv, IInv
  <1>1. db'.indexes = After(p) /\ tx[p].pc = "open"
    BY DEF commit, Tables, After
  <1>2. CASE ~\E k \in tx[p].task : k.suite = s
    <2>1. Of(After(p), s) = Of(db.indexes, s)
      BY <1>2, OtherSuites
    <2> QED
      BY <1>1, <2>1, FewerStable
  <1>3. ASSUME NEW k \in tx[p].task, k.suite = s, ~(k.at <= t),
               Served(s, t) # {}
        PROVE  Served(s, t)' \subseteq Served(s, t)
    <2> DEFINE rows == Of(db.indexes, s)
    <2>1. Fitting(p, k) /\ Chain(rows) /\ rows \in SUBSET Index
      BY <1>1, <1>3, TxFacts DEF GInv, Generating, Chains, Of
    <2>2. /\ t \in Int /\ k.at \in Int
          /\ \A g \in rows \cup tx[p].plus.indexes :
                g.created \in Int /\ g.removed \in Int
      BY <2>1, TxFacts, ArchivesAssumption DEF Index, Task, Time
    <2>3. PICK h \in rows : h \in active_at(rows, t)
      BY <1>3 DEF Served, active_at
    <2> SUFFICES ASSUME NEW g \in active_at(Of(After(p), s), t)
                 PROVE  g.listed \in Served(s, t)
      BY <1>1 DEF Served
    <2>4. CASE g \in db.indexes
      BY <2>4 DEF Served, active_at, Of
    <2>5. CASE g \in tx[p].plus.indexes
      <3>1. g.created <= t /\ g.created # k.at
        BY <1>3, <2>2, <2>5 DEF active_at
      <3>2. PICK o \in tx[p].minus.indexes :
               g.suite = o.suite /\ g.created = o.created /\ g.listed = o.listed
        BY <2>1, <2>5, <3>1 DEF Fitting
      <3>3. o \in rows /\ o.created <= t
        BY <2>1, <3>1, <3>2 DEF Fitting, Of, active_at
      <3>4. h.created <= t /\ h.created < k.at /\ (h.removed = None \/ h.removed > t)
        BY <1>3, <2>2, <2>3 DEF active_at
      <3>5. h.created <= o.created
        BY <1>3, <2>1, <3>2, <3>4 DEF Fitting
      <3>6. h = o
        BY <2>1, <2>2, <3>3, <3>4, <3>5 DEF Chain, Before
      <3> QED
        BY <2>3, <3>2, <3>6 DEF Served
    <2> QED
      BY <2>4, <2>5 DEF active_at, Of, After
  <1> QED
    BY <1>2, <1>3 DEF Stable

(* Only a commit adds generations.                                         *)
LEMMA StepStable ==
  ASSUME SInv, [Next]_vars, NEW s \in Suites \ doubled, NEW t \in 1 .. clock
  PROVE  Stable(s, t)
  <1> TypeOK
    BY DEF SInv, IInv
  <1>1. ASSUME UNCHANGED db PROVE Stable(s, t)
    BY <1>1, FewerStable
  <1>2. ASSUME NEW r \in workspace.suites, NEW before \in 1 .. clock,
               drop_metadata(r, before)
        PROVE  Stable(s, t)
    <2>1. db'.indexes \subseteq db.indexes
      BY <1>2, WorkspaceType, DropFacts
    <2> QED
      BY <2>1, FewerStable DEF Of
  <1>3. \/ UNCHANGED db \/ \E p \in Procs : commit(p)
        \/ \E r \in workspace.suites, before \in 1 .. clock :
              drop_metadata(r, before)
    <2>1. ASSUME NEW p, NEW old, NEW new, Begin(p, old, new)
          PROVE  UNCHANGED db
      BY <2>1 DEF Begin
    <2>2. ASSUME NEW p, NEW r, NEW a, NEW replace, add_artifact(p, r, a, replace)
          PROVE  UNCHANGED db
      BY <2>1, <2>2 DEF add_artifact
    <2>3. ASSUME NEW p, NEW i, remove_item(p, i)
          PROVE  UNCHANGED db
      BY <2>1, <2>3 DEF remove_item
    <2>4. ASSUME NEW p, NEW r, add_collection(p, r)
          PROVE  UNCHANGED db
      BY <2>1, <2>4 DEF add_collection
    <2>5. ASSUME NEW p, NEW r, remove_collection(p, r)
          PROVE  UNCHANGED db
      BY <2>1, <2>5 DEF remove_collection
    <2>6. ASSUME \/ \E force \in BOOLEAN : populate(force)
                 \/ \E p \in Procs : \E k \in tasks : start_generation(p, k)
                 \/ \E p \in Procs : \E k \in tx[p].task : write_indexes(p, k)
                 \/ \E p \in Procs : rollback(p)
          PROVE  UNCHANGED db
      BY <2>6 DEF populate, start_generation, write_indexes, rollback
    <2>7. CASE UNCHANGED vars
      BY <2>7 DEF vars
    <2> QED
      BY <2>2, <2>3, <2>4, <2>5, <2>6, <2>7 DEF Next
  <1> QED
    BY <1>1, <1>2, <1>3, CommitStable

(* For any suites, packages, processes and length of history: two packages *)
(* of suites of an archive, whose constraints some transaction saw or      *)
(* made, have no file of one name with two contents.  do_add_artifact() of *)
(* debian_suite.py and do_add_collection() of debian_archive.py leave no   *)
(* other gap than the ones that unguarded counts.                          *)
THEOREM PoolServedKept == Spec => []PoolServed
  BY InitSInv, NextSInv, OneContentServed, PTL DEF Spec

(* In whatever order the tasks of a suite run, fail and are run again, its *)
(* generations of indexes do not overlap and the last one is in force,     *)
(* unless two of them were in transactions that overlapped.                *)
THEOREM IndexChainKept == Spec => []IndexChain
  BY InitSInv, NextSInv, ChainServed, PTL DEF Spec

(* A suite that _find_stale_suite_names() does not find has indexes of     *)
(* exactly the packages that it has, but for generations that overlapped,  *)
(* and changes that were committed, or forgotten, too late to be seen.     *)
THEOREM ListedKept == Spec => []StaleOrListed
  BY InitSInv, NextSInv, ListedServed, PTL DEF Spec

(* What SuiteFileView serves for a time in the past may expire, but is not *)
(* replaced, save by a generation whose time is not after that one.        *)
THEOREM SnapshotsKept == Spec => SnapshotStable
  <1>1. SInv /\ [Next]_vars =>
           [\A s \in Suites \ doubled, t \in 1 .. clock :
               \/ Served(s, t) = {} \/ Served(s, t)' \subseteq Served(s, t)
               \/ \E p \in Procs : \E k \in tx[p].task :
                     k.suite = s /\ k.at <= t]_vars
    BY StepStable DEF Stable
  <1> QED
    BY <1>1, InitSInv, NextSInv, PTL DEF Spec, SnapshotStable
===============================================================================
