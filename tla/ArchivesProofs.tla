---------------------------- MODULE ArchivesProofs ----------------------------
(***************************************************************************)
(* A name in the pool of a suite that does not reuse versions has one      *)
(* content, for any suites, packages, processes and length of history.     *)
(***************************************************************************)
EXTENDS Archives, TLAPS

(* Rows that are committed, or may be.                                     *)
AllItems == db.items \cup UNION {tx[p].plus.items : p \in Procs}
AllConstraints ==
    db.constraints \cup UNION {tx[p].plus.constraints : p \in Procs}

Guarded(s) == s \notin may_reuse /\ Archive \notin may_reuse
Held(s, f, rows) == \E c \in rows : c.collection = s /\ c.file = f

(* Nothing is from the future, so that a new item is new.                  *)
TimesPassed ==
    /\ \A i \in AllItems : i.created <= clock
    /\ \A c \in AllConstraints : c.item <= clock

(* A constraint of a suite is about an item of the suite: what is deleted  *)
(* with the items of one suite is not what protects another.               *)
OwnItems ==
    \A c \in AllConstraints, i \in AllItems :
        c.item = i.created /\ c.collection \in Suites => c.collection = i.suite

(* Only constraints that may be deleted are deleted.                       *)
DeletedReused ==
    \A p \in Procs : \A c \in tx[p].minus.constraints :
        c.collection \in Suites => ~Guarded(c.collection)

(* The constraints that stay agree, also with those not yet committed.     *)
OneContent ==
    \A c, d \in AllConstraints :
        /\ c.collection = d.collection /\ c.collection \in Suites
        /\ Guarded(c.collection) /\ c.file[1] = d.file[1]
        => c.file = d.file

(* Files that were published have their constraint, and those that are     *)
(* about to be have it in the same transaction.                            *)
PublishedHeld ==
    \A s \in Suites, f \in File :
        <<s, f>> \in published /\ Guarded(s) => Held(s, f, db.constraints)
ItemsPublished ==
    \A i \in db.items : \A f \in Files[i.artifact] : <<i.suite, f>> \in published
PendingHeld ==
    \A p \in Procs : \A i \in tx[p].plus.items : \A f \in Files[i.artifact] :
        Guarded(i.suite) =>
            Held(i.suite, f, db.constraints \cup tx[p].plus.constraints)

ClosedEmpty == \A p \in Procs : tx[p].pc = "closed" => tx[p] = Closed

Pool == /\ TimesPassed /\ OwnItems /\ DeletedReused /\ OneContent
        /\ PublishedHeld /\ ItemsPublished /\ PendingHeld /\ ClosedEmpty
IInv == TypeOK /\ Pool

-----------------------------------------------------------------------------
(* Types.                                                                  *)

(* No rows are rows, and a closed transaction is a transaction.            *)
LEMMA ClosedType == NoRows \in Rows /\ Closed \in Tx
  BY DEF NoRows, Rows, Tables, Closed, Tx

(* Rows with some items and constraints, or members and constraints.       *)
LEMMA RowsType ==
  ASSUME NEW items \in SUBSET Item, NEW members \in SUBSET Member,
         NEW constraints \in SUBSET Constraint
  PROVE  /\ [NoRows EXCEPT !.items = items] \in Rows
         /\ [NoRows EXCEPT !.items = items, !.constraints = constraints] \in Rows
         /\ [NoRows EXCEPT !.members = members] \in Rows
         /\ [NoRows EXCEPT !.members = members, !.constraints = constraints]
               \in Rows
  BY DEF NoRows, Rows, Tables

(* Removed rows are rows.                                                  *)
LEMMA RemoveType ==
  ASSUME NEW at \in Time
  PROVE  /\ \A rows \in SUBSET Item : Remove(rows, at) \in SUBSET Item
         /\ \A rows \in SUBSET Member : Remove(rows, at) \in SUBSET Member
         /\ \A rows \in SUBSET Index : Remove(rows, at) \in SUBSET Index
  BY DEF Remove, Item, Member, Index

(* The clock has room for another event.                                   *)
LEMMA NowType ==
  ASSUME TypeOK, clock < MaxClock
  PROVE  Now \in Time /\ Now = clock + 1 /\ Now # None
  BY ArchivesAssumption DEF TypeOK, Now, Time, None

(* The workspace is as its constant says.                                  *)
LEMMA WorkspaceType ==
  ASSUME TypeOK
  PROVE  /\ workspace.suites \subseteq Suites
         /\ may_reuse \subseteq Suites \cup {Archive}
  BY ArchivesAssumption DEF TypeOK, may_reuse

(* A transaction that begins leaves everything typed.                      *)
LEMMA BeginType ==
  ASSUME TypeOK, NEW p \in Procs, NEW old \in Rows, NEW new \in Rows,
         Begin(p, old, new), unguarded' \in SUBSET Time
  PROVE  TypeOK'
  <1>1. [Closed EXCEPT !.pc = "open", !.plus = new, !.minus = old] \in Tx
    BY ClosedType DEF Tx
  <1>2. tx' \in [Procs -> Tx]
    BY <1>1 DEF Begin, TypeOK
  <1>3. clock' \in Time
    BY NowType DEF Begin
  <1> QED
    BY <1>2, <1>3 DEF Begin, TypeOK

(* The constraints of a new item are constraints.                          *)
LEMMA ConstraintsType ==
  ASSUME TypeOK, clock < MaxClock, NEW s \in Suites
  PROVE  /\ \A a \in Artifacts : make_constraints(s, a) \in SUBSET Constraint
         /\ CopiedConstraints(s) \in SUBSET Constraint
         /\ \A items : DroppedWith(s, items) \in SUBSET Constraint
  <1>1. db.constraints \in SUBSET Constraint
    BY DEF TypeOK, Rows
  <1>2. \A a \in Artifacts : make_constraints(s, a) \in SUBSET Constraint
    BY NowType DEF make_constraints, Constraint, File
  <1>3. CopiedConstraints(s) \in SUBSET Constraint
    BY <1>1 DEF CopiedConstraints, Constraint
  <1>4. \A items : DroppedWith(s, items) \in SUBSET Constraint
    BY <1>1 DEF DroppedWith
  <1> QED
    BY <1>2, <1>3, <1>4

(* What add_artifact() writes.                                             *)
LEMMA AddArtifactRows ==
  ASSUME TypeOK, clock < MaxClock, NEW s \in Suites, NEW a \in Artifacts,
         NEW gone \in SUBSET db.items
  PROVE  /\ [NoRows EXCEPT !.items = gone,
                           !.constraints = DroppedWith(s, gone)] \in Rows
         /\ [NoRows EXCEPT
               !.items = Remove(gone, Now) \cup
                  {[suite |-> s, artifact |-> a, created |-> Now,
                    removed |-> None]},
               !.constraints = make_constraints(s, a)] \in Rows
  <1>1. gone \in SUBSET Item
    BY DEF TypeOK, Rows
  <1>2. Remove(gone, Now) \cup
           {[suite |-> s, artifact |-> a, created |-> Now, removed |-> None]}
        \in SUBSET Item
    <2>1. None \in Time
      BY ArchivesAssumption DEF None, Time
    <2> QED
      BY <1>1, <2>1, NowType, RemoveType DEF Item
  <1> QED
    BY <1>1, <1>2, RowsType, ConstraintsType

(* add_artifact() replaces the active item of the name, if it is told to.  *)
Gone(s, a, replace) ==
    IF replace
    THEN Active({i \in Of(db.items, s) : NameOf[i.artifact] = NameOf[a]})
    ELSE {}
OldRows(s, a, replace) ==
    [NoRows EXCEPT !.items = Gone(s, a, replace),
                   !.constraints = DroppedWith(s, Gone(s, a, replace))]
NewRows(s, a, replace) ==
    [NoRows EXCEPT
       !.items = Remove(Gone(s, a, replace), Now) \cup
          {[suite |-> s, artifact |-> a, created |-> Now, removed |-> None]},
       !.constraints = make_constraints(s, a)]

(* It is a transaction that begins.                                        *)
LEMMA AddArtifactBegins ==
  ASSUME TypeOK, NEW p \in Procs, NEW s \in Suites, NEW a \in Artifacts,
         NEW replace \in BOOLEAN, add_artifact(p, s, a, replace)
  PROVE  /\ clock < MaxClock
         /\ Gone(s, a, replace) \in SUBSET db.items
         /\ OldRows(s, a, replace) \in Rows
         /\ NewRows(s, a, replace) \in Rows
         /\ Begin(p, OldRows(s, a, replace), NewRows(s, a, replace))
         /\ unguarded' \in SUBSET Time
  <1>1. Begin(p, OldRows(s, a, replace), NewRows(s, a, replace))
    BY DEF add_artifact, OldRows, NewRows, Gone
  <1>2. clock < MaxClock
    BY <1>1 DEF Begin
  <1>3. Gone(s, a, replace) \in SUBSET db.items
    BY DEF Gone, Active, Of
  <1>4. OldRows(s, a, replace) \in Rows /\ NewRows(s, a, replace) \in Rows
    BY <1>2, <1>3, AddArtifactRows DEF OldRows, NewRows
  <1>5. unguarded' \in SUBSET Time
    BY <1>2, NowType DEF add_artifact, TypeOK
  <1> QED
    BY <1>1, <1>2, <1>3, <1>4, <1>5

(* What remove_item() writes.                                              *)
RemovedOld(i) ==
    [NoRows EXCEPT !.items = {i}, !.constraints = DroppedWith(i.suite, {i})]
RemovedNew(i) == [NoRows EXCEPT !.items = Remove({i}, Now)]

(* It is a transaction that begins.                                        *)
LEMMA RemoveItemBegins ==
  ASSUME TypeOK, NEW p \in Procs, NEW i \in db.items, remove_item(p, i)
  PROVE  /\ clock < MaxClock
         /\ RemovedOld(i) \in Rows /\ RemovedNew(i) \in Rows
         /\ Begin(p, RemovedOld(i), RemovedNew(i))
         /\ unguarded' \in SUBSET Time
  <1>1. Begin(p, RemovedOld(i), RemovedNew(i))
    BY DEF remove_item, RemovedOld, RemovedNew
  <1>2. clock < MaxClock
    BY <1>1 DEF Begin
  <1>3. {i} \in SUBSET Item /\ i.suite \in Suites
    BY DEF TypeOK, Rows, Item
  <1>4. RemovedOld(i) \in Rows
    BY <1>2, <1>3, RowsType, ConstraintsType DEF RemovedOld
  <1>5. RemovedNew(i) \in Rows
    BY <1>2, <1>3, NowType, RemoveType, RowsType DEF RemovedNew
  <1>6. unguarded' \in SUBSET Time
    BY DEF remove_item, TypeOK
  <1> QED
    BY <1>1, <1>2, <1>4, <1>5, <1>6

(* What add_collection() writes.                                           *)
MemberRows(s) ==
    [NoRows EXCEPT
       !.members = {[suite |-> s, created |-> Now, removed |-> None]},
       !.constraints = CopiedConstraints(s)]

(* It is a transaction that begins.                                        *)
LEMMA AddCollectionBegins ==
  ASSUME TypeOK, NEW p \in Procs, NEW s \in Suites, add_collection(p, s)
  PROVE  /\ clock < MaxClock
         /\ MemberRows(s) \in Rows
         /\ Begin(p, NoRows, MemberRows(s))
         /\ unguarded' \in SUBSET Time
  <1>1. Begin(p, NoRows, MemberRows(s))
    BY DEF add_collection, MemberRows
  <1>2. clock < MaxClock
    BY <1>1 DEF Begin
  <1>3. None \in Time
    BY ArchivesAssumption DEF None, Time
  <1>4. {[suite |-> s, created |-> Now, removed |-> None]} \in SUBSET Member
    BY <1>2, <1>3, NowType DEF Member
  <1>5. MemberRows(s) \in Rows
    BY <1>2, <1>4, RowsType, ConstraintsType DEF MemberRows
  <1>6. Created(Of(OthersPlus(p, "items"), s)) \in SUBSET Time
    <2>1. \A q \in Procs : tx[q].plus["items"] \in SUBSET Item
      BY DEF TypeOK, Tx, Rows
    <2>2. OthersPlus(p, "items") \in SUBSET Item
      BY <2>1 DEF OthersPlus
    <2> QED
      BY <2>2 DEF Created, Of, Item
  <1>7. unguarded' \in SUBSET Time
    BY <1>6 DEF add_collection, TypeOK
  <1> QED
    BY <1>1, <1>2, <1>5, <1>7

(* What remove_collection() writes.                                        *)
LeavingOld(s) ==
    [NoRows EXCEPT
       !.members = Active(Of(db.members, s)),
       !.constraints = {c \in db.constraints :
          Archive \in may_reuse /\ c.item \in Created(Of(db.items, s))}]
LeavingNew(s) ==
    [NoRows EXCEPT !.members = Remove(Active(Of(db.members, s)), Now)]

(* It is a transaction that begins.                                        *)
LEMMA RemoveCollectionBegins ==
  ASSUME TypeOK, NEW p \in Procs, NEW s \in Suites, remove_collection(p, s)
  PROVE  /\ clock < MaxClock
         /\ LeavingOld(s) \in Rows /\ LeavingNew(s) \in Rows
         /\ Begin(p, LeavingOld(s), LeavingNew(s))
         /\ unguarded' \in SUBSET Time
  <1>1. Begin(p, LeavingOld(s), LeavingNew(s))
    BY DEF remove_collection, LeavingOld, LeavingNew
  <1>2. clock < MaxClock
    BY <1>1 DEF Begin
  <1>3. /\ Active(Of(db.members, s)) \in SUBSET Member
        /\ db.constraints \in SUBSET Constraint
        /\ Created(Of(db.items, s)) \in SUBSET Time
    BY DEF TypeOK, Rows, Active, Of, Created, Item
  <1>4. LeavingOld(s) \in Rows
    BY <1>3, RowsType DEF LeavingOld
  <1>5. LeavingNew(s) \in Rows
    BY <1>2, <1>3, NowType, RemoveType, RowsType DEF LeavingNew
  <1>6. unguarded' \in SUBSET Time
    BY <1>3 DEF remove_collection, TypeOK
  <1> QED
    BY <1>1, <1>2, <1>4, <1>5, <1>6

(* Generations that are written are generations.                           *)
LEMMA WrittenType ==
  ASSUME TypeOK
  PROVE  Written \in SUBSET Index
  BY DEF TypeOK, Written, Tx, Rows

(* The other actions.                                                      *)
LEMMA PopulateType ==
  ASSUME TypeOK, NEW force \in BOOLEAN, populate(force)
  PROVE  TypeOK'
  <1>1. Now \in Time
    BY NowType DEF populate
  <1>2. tasks' \in SUBSET Task
    BY <1>1, WorkspaceType DEF populate, Task, TypeOK
  <1> QED
    BY <1>1, <1>2 DEF populate, TypeOK, history

(* A generation that starts.                                               *)
LEMMA StartType ==
  ASSUME TypeOK, NEW p \in Procs, NEW k \in tasks, start_generation(p, k)
  PROVE  TypeOK'
  <1>1. k \in Task /\ k.suite \in Suites
    BY DEF TypeOK, Task
  <1>2. Created(Of(db.indexes, k.suite)) \in SUBSET Time
    BY DEF TypeOK, Rows, Index, Created, Of
  <1> DEFINE older == {t \in Created(Of(db.indexes, k.suite)) : t < k.at}
             previous == {t \in older : \A u \in older : u <= t}
  <1>3. previous \in SUBSET Time
    BY <1>2
  <1> HIDE DEF previous
  <1>4. [Closed EXCEPT !.pc = "generate", !.task = {k},
                       !.previous = previous] \in Tx
    BY <1>1, <1>3, ClosedType DEF Tx
  <1>5. tx' \in [Procs -> Tx]
    BY <1>4 DEF start_generation, TypeOK, previous
  <1> QED
    BY <1>1, <1>5 DEF start_generation, TypeOK

(* Indexes that are written.                                               *)
LEMMA WriteType ==
  ASSUME TypeOK, NEW p \in Procs, NEW k \in tx[p].task, write_indexes(p, k)
  PROVE  TypeOK'
  <1>1. k \in Task /\ k.suite \in Suites /\ k.at \in Time /\ tx[p] \in Tx
    BY DEF TypeOK, Task, Tx
  <1>2. db.indexes \in SUBSET Index /\ db.items \in SUBSET Item
    BY DEF TypeOK, Rows
  <1> DEFINE old == supersede_older_items(p, k)
             listed == Created(active_at(Of(db.items, k.suite), k.at))
  <1>3. old \in SUBSET Index /\ Remove(old, k.at) \in SUBSET Index
    BY <1>1, <1>2, RemoveType DEF supersede_older_items, Of
  <1>4. listed \in SUBSET Time
    BY <1>2 DEF Created, active_at, Of, Item
  <1>5. find_newer_item(k) \in SUBSET Time
    <2>1. None \in Time
      BY ArchivesAssumption DEF None, Time
    <2>2. Created(Of(db.indexes, k.suite)) \in SUBSET Time
      BY <1>2 DEF Created, Of, Index
    <2> QED
      BY <2>1, <2>2 DEF find_newer_item
  <1> HIDE DEF old, listed
  <1>6. PICK newer \in find_newer_item(k) :
           tx' = [tx EXCEPT ![p].pc = "open",
                   ![p].minus.indexes = old,
                   ![p].plus.indexes = Remove(old, k.at) \cup
                      {[suite |-> k.suite, created |-> k.at,
                        removed |-> newer, listed |-> listed]}]
    BY DEF write_indexes, old, listed
  <1>7. Remove(old, k.at) \cup {[suite |-> k.suite, created |-> k.at,
                                 removed |-> newer, listed |-> listed]}
        \in SUBSET Index
    BY <1>1, <1>3, <1>4, <1>5 DEF Index
  <1>8. tx' \in [Procs -> Tx]
    BY <1>1, <1>3, <1>6, <1>7 DEF TypeOK, Tx, Rows
  <1> QED
    BY <1>8 DEF write_indexes, TypeOK, history

(* A commit.                                                               *)
LEMMA CommitType ==
  ASSUME TypeOK, NEW p \in Procs, commit(p)
  PROVE  TypeOK'
  <1>1. tx[p] \in Tx /\ tx[p].plus \in Rows /\ tx[p].minus \in Rows /\ db \in Rows
    BY DEF TypeOK, Tx
  <1>2. db' \in Rows
    BY <1>1 DEF commit, Rows, Tables
  <1>3. tx' \in [Procs -> Tx]
    BY ClosedType DEF commit, TypeOK
  <1>4. published' \in SUBSET (Suites \X File)
    BY <1>1 DEF commit, TypeOK, Rows, Item, File
  <1>5. missed' \in SUBSET (Suites \X Time)
    <2>1. TooEarlyFor(tx[p].plus.items) \in SUBSET (Suites \X Time)
      BY WrittenType DEF TooEarlyFor, Index
    <2> QED
      BY <2>1 DEF commit, TypeOK
  <1> QED
    BY <1>2, <1>3, <1>4, <1>5 DEF commit, TypeOK

(* A transaction that is given up.                                         *)
LEMMA RollbackType ==
  ASSUME TypeOK, NEW p \in Procs, rollback(p)
  PROVE  TypeOK'
  <1>1. tx' \in [Procs -> Tx]
    BY ClosedType DEF rollback, TypeOK
  <1>2. tasks' \in SUBSET Task
    BY DEF rollback, TypeOK, Tx
  <1>3. index_lock' \in SUBSET Suites
    BY DEF rollback, TypeOK
  <1> QED
    BY <1>1, <1>2, <1>3 DEF rollback, TypeOK, history

(* What expires.                                                           *)
LEMMA DropType ==
  ASSUME TypeOK, NEW s \in Suites, NEW before, drop_metadata(s, before)
  PROVE  TypeOK'
  <1>1. db' \in Rows
    BY DEF drop_metadata, TypeOK, Rows, Tables
  <1>2. missed' \in SUBSET (Suites \X Time)
    BY WrittenType DEF drop_metadata, TypeOK, Of, Index
  <1> QED
    BY <1>1, <1>2 DEF drop_metadata, TypeOK

(* Every step leaves everything typed.                                     *)
LEMMA NextType ==
  ASSUME TypeOK, [Next]_vars
  PROVE  TypeOK'
  <1>1. ASSUME NEW p \in Procs, NEW s \in workspace.suites,
               NEW a \in Artifacts, NEW replace \in BOOLEAN,
               add_artifact(p, s, a, replace)
        PROVE  TypeOK'
    BY <1>1, WorkspaceType, AddArtifactBegins, BeginType
  <1>2. ASSUME NEW p \in Procs, NEW i \in Active(db.items), remove_item(p, i)
        PROVE  TypeOK'
    BY <1>2, RemoveItemBegins, BeginType DEF Active
  <1>3. ASSUME NEW p \in Procs, NEW s \in workspace.suites, add_collection(p, s)
        PROVE  TypeOK'
    BY <1>3, WorkspaceType, ClosedType, AddCollectionBegins, BeginType
  <1>4. ASSUME NEW p \in Procs, NEW s \in workspace.suites,
               remove_collection(p, s)
        PROVE  TypeOK'
    BY <1>4, WorkspaceType, RemoveCollectionBegins, BeginType
  <1>5. ASSUME NEW s \in workspace.suites, NEW before \in 1 .. clock,
               drop_metadata(s, before)
        PROVE  TypeOK'
    BY <1>5, WorkspaceType, DropType
  <1>6. CASE UNCHANGED vars
    BY <1>6 DEF vars, history, TypeOK
  <1> QED
    BY <1>1, <1>2, <1>3, <1>4, <1>5, <1>6, PopulateType, StartType, WriteType,
       CommitType, RollbackType DEF Next

-----------------------------------------------------------------------------
(* The pool.                                                               *)

(* What there is after a transaction begins was there, or is new.          *)
LEMMA BeginAll ==
  ASSUME TypeOK, NEW p \in Procs, NEW old \in Rows, NEW new \in Rows,
         Begin(p, old, new)
  PROVE  /\ tx'[p].pc = "open" /\ tx'[p].plus = new /\ tx'[p].minus = old
         /\ \A q \in Procs \ {p} : tx'[q] = tx[q]
         /\ AllItems' \subseteq AllItems \cup new.items
         /\ AllConstraints' \subseteq AllConstraints \cup new.constraints
         /\ clock' = clock + 1 /\ db' = db /\ published' = published
         /\ may_reuse' = may_reuse
  <1>1. /\ clock' = clock + 1 /\ db' = db /\ published' = published
        /\ may_reuse' = may_reuse
    BY NowType DEF Begin, may_reuse
  <1>2. /\ tx'[p].pc = "open" /\ tx'[p].plus = new /\ tx'[p].minus = old
        /\ \A q \in Procs \ {p} : tx'[q] = tx[q]
    <2>1. tx'[p] = [Closed EXCEPT !.pc = "open", !.plus = new, !.minus = old]
      BY DEF Begin, TypeOK
    <2> QED
      BY <2>1, ClosedType DEF Begin, TypeOK, Tx
  <1> QED
    BY <1>1, <1>2 DEF AllItems, AllConstraints

(* A transaction keeps the invariant if it deletes constraints only where  *)
(* versions may be reused, and its items are those there are, or have the  *)
(* time of the transaction and constraints for their files.                *)
LEMMA BeginPool ==
  ASSUME IInv, NEW p \in Procs, NEW old \in Rows, NEW new \in Rows,
         Begin(p, old, new),
         \A c \in old.constraints :
            c.collection \in Suites => ~Guarded(c.collection),
         \A i \in new.items :
            \/ i.created = clock + 1
            \/ \E j \in db.items : /\ i.created = j.created /\ i.suite = j.suite
                                   /\ i.artifact = j.artifact,
         \A c \in new.constraints :
            /\ c.item <= clock + 1
            /\ c.collection \in Suites => c.item = clock + 1,
         \A c \in new.constraints, i \in new.items :
            c.collection \in Suites /\ i.created = clock + 1
            => c.collection = i.suite,
         \A c, d \in new.constraints :
            c.collection = d.collection /\ c.file[1] = d.file[1]
            /\ c.collection \in Suites => c.file = d.file,
         \A i \in new.items : \A f \in Files[i.artifact] :
            i.created = clock + 1 => Held(i.suite, f, new.constraints)
  PROVE  Pool'
  <1> TypeOK /\ Pool
    BY DEF IInv
  <1>1. /\ tx'[p].pc = "open" /\ tx'[p].plus = new /\ tx'[p].minus = old
        /\ \A q \in Procs \ {p} : tx'[q] = tx[q]
        /\ AllItems' \subseteq AllItems \cup new.items
        /\ AllConstraints' \subseteq AllConstraints \cup new.constraints
        /\ clock' = clock + 1 /\ db' = db /\ published' = published
        /\ may_reuse' = may_reuse
    BY BeginAll
  <1>2. \A s : Guarded(s)' <=> Guarded(s)
    BY <1>1 DEF Guarded
  <1>3. clock \in Int /\ db.items \subseteq AllItems
        /\ \A i \in AllItems : i \in Item /\ i.created \in Int
    BY ArchivesAssumption DEF TypeOK, Time, AllItems, Tx, Rows, Item
  <1>4. /\ \A c \in AllConstraints : c \in Constraint /\ c.item \in Int
        /\ \A c \in new.constraints : c.item \in Int
        /\ \A i \in new.items : i.suite \in Suites /\ i.artifact \in Artifacts
    BY ArchivesAssumption
       DEF TypeOK, Time, AllConstraints, Tx, Rows, Constraint, Item
  <1>5. TimesPassed'
    BY <1>1, <1>3, <1>4 DEF TimesPassed, Pool
  <1>6. OwnItems'
    <2> SUFFICES ASSUME NEW c \in AllConstraints \cup new.constraints,
                        NEW i \in AllItems \cup new.items,
                        c.item = i.created, c.collection \in Suites
                 PROVE  c.collection = i.suite
      BY <1>1 DEF OwnItems
    <2>1. CASE c \in AllConstraints /\ i \in AllItems
      BY <2>1 DEF OwnItems, Pool
    <2>2. CASE c \in AllConstraints /\ i \in new.items
      BY <2>2, <1>3, <1>4 DEF OwnItems, TimesPassed, Pool
    <2>3. CASE c \in new.constraints /\ i \in AllItems
      BY <2>3, <1>3, <1>4 DEF TimesPassed, Pool
    <2>4. CASE c \in new.constraints /\ i \in new.items
      BY <2>4, <1>3, <1>4 DEF TimesPassed, Pool
    <2> QED
      BY <2>1, <2>2, <2>3, <2>4
  <1>7. DeletedReused'
    BY <1>1, <1>2 DEF DeletedReused, Pool
  <1>8. OneContent'
    <2>1. \A c \in new.constraints, d \in AllConstraints :
             /\ c.collection = d.collection /\ c.collection \in Suites
             /\ Guarded(c.collection) /\ c.file[1] = d.file[1]
             => c.file = d.file
      <3> SUFFICES ASSUME NEW c \in new.constraints, NEW d \in AllConstraints,
                          c.collection = d.collection, c.collection \in Suites,
                          Guarded(c.collection), c.file[1] = d.file[1]
                   PROVE  c.file = d.file
        OBVIOUS
      <3>1. tx[p] = Closed
        BY DEF Begin, ClosedEmpty, Pool
      <3>2. tx[p].plus.constraints = {}
        BY <3>1 DEF Closed, NoRows, Tables
      <3>3. d \in db.constraints \cup OthersPlus(p, "constraints")
        BY <3>2 DEF AllConstraints, OthersPlus
      <3>4. d \notin old.constraints
        OBVIOUS
      <3> QED
        BY <3>3, <3>4 DEF Begin, Conflict
    <2> QED
      BY <1>1, <1>2, <2>1 DEF OneContent, Pool
  <1>9. PublishedHeld' /\ ItemsPublished'
    BY <1>1, <1>2 DEF PublishedHeld, ItemsPublished, Held, Pool
  <1>10. PendingHeld'
    <2>1. ASSUME NEW i \in new.items, NEW f \in Files[i.artifact],
                 Guarded(i.suite)
          PROVE  Held(i.suite, f, db.constraints \cup new.constraints)
      <3>1. CASE i.created = clock + 1
        BY <3>1 DEF Held
      <3>2. CASE \E j \in db.items : /\ i.created = j.created
                                     /\ i.suite = j.suite
                                     /\ i.artifact = j.artifact
        <4>1. <<i.suite, f>> \in published
          BY <3>2 DEF ItemsPublished, Pool
        <4>2. f \in File
          BY <1>4 DEF File
        <4> QED
          BY <1>4, <2>1, <4>1, <4>2 DEF PublishedHeld, Held, Pool
      <3> QED
        BY <3>1, <3>2
    <2>2. ASSUME NEW q \in Procs, NEW i \in tx'[q].plus.items,
                 NEW f \in Files[i.artifact], Guarded(i.suite)
          PROVE  Held(i.suite, f, db.constraints \cup tx'[q].plus.constraints)
      <3>1. CASE q = p
        BY <1>1, <2>1, <2>2, <3>1
      <3>2. CASE q # p
        BY <1>1, <2>2, <3>2 DEF PendingHeld, Pool
      <3> QED
        BY <3>1, <3>2
    <2> QED
      BY <1>1, <1>2, <2>2 DEF PendingHeld, Held
  <1>11. ClosedEmpty'
    BY <1>1 DEF ClosedEmpty, Pool
  <1> QED
    BY <1>5, <1>6, <1>7, <1>8, <1>9, <1>10, <1>11 DEF Pool

(* Removed rows are the rows there were, at another time.                  *)
LEMMA RemovedSame ==
  ASSUME NEW rows \in SUBSET Item, NEW at, NEW i \in Remove(rows, at)
  PROVE  \E j \in rows : /\ i.created = j.created /\ i.suite = j.suite
                         /\ i.artifact = j.artifact
  BY DEF Remove, Item

(* What is deleted with the items of a suite is its own.                   *)
LEMMA DroppedReused ==
  ASSUME IInv, NEW s \in Suites, NEW items \in SUBSET Of(db.items, s),
         NEW c \in DroppedWith(s, items), c.collection \in Suites
  PROVE  ~Guarded(c.collection)
  <1>1. s \in may_reuse /\ c \in db.constraints /\ c.item \in Created(items)
    BY DEF DroppedWith
  <1>2. PICK i \in items : c.item = i.created
    BY <1>1 DEF Created
  <1>3. c.collection = i.suite /\ i.suite = s
    BY <1>1, <1>2 DEF IInv, Pool, OwnItems, AllItems, AllConstraints, Of
  <1> QED
    BY <1>1, <1>3 DEF Guarded

(* Packages that are added have their constraints.                         *)
LEMMA AddArtifactPool ==
  ASSUME IInv, NEW p \in Procs, NEW s \in Suites, NEW a \in Artifacts,
         NEW replace \in BOOLEAN, add_artifact(p, s, a, replace)
  PROVE  Pool'
  <1> TypeOK
    BY DEF IInv
  <1> DEFINE old == OldRows(s, a, replace)
             new == NewRows(s, a, replace)
             gone == Gone(s, a, replace)
             item == [suite |-> s, artifact |-> a, created |-> Now,
                      removed |-> None]
  <1>1. /\ clock < MaxClock /\ gone \in SUBSET db.items
        /\ old \in Rows /\ new \in Rows /\ Begin(p, old, new)
    BY AddArtifactBegins
  <1>2. /\ gone \in SUBSET Of(db.items, s) /\ gone \in SUBSET Item
        /\ Now = clock + 1 /\ clock \in Int
    BY <1>1, NowType, ArchivesAssumption DEF Gone, Active, Of, TypeOK, Rows, Time
  <1>3. /\ old.constraints = DroppedWith(s, gone)
        /\ new.items = Remove(gone, Now) \cup {item}
        /\ new.constraints = make_constraints(s, a)
    BY DEF OldRows, NewRows, NoRows, Tables
  <1>4. \A c \in old.constraints :
           c.collection \in Suites => ~Guarded(c.collection)
    BY <1>2, <1>3, DroppedReused
  <1>5. \A i \in Remove(gone, Now) :
           \E j \in db.items : /\ i.created = j.created /\ i.suite = j.suite
                               /\ i.artifact = j.artifact
    BY <1>1, <1>2, RemovedSame
  <1>6. \A i \in Remove(gone, Now) : i.created <= clock /\ i.created \in Int
    BY <1>5, ArchivesAssumption
       DEF IInv, Pool, TimesPassed, AllItems, TypeOK, Rows, Item, Time
  <1>7. \A c \in new.constraints :
           /\ c.item = clock + 1 /\ c.collection \in {s, Archive}
           /\ c.file \in Files[a]
    BY <1>2, <1>3 DEF make_constraints
  <1>8. \A c \in new.constraints, i \in new.items :
           c.collection \in Suites /\ i.created = clock + 1
           => c.collection = i.suite
    BY <1>2, <1>3, <1>6, <1>7, ArchivesAssumption
  <1>9. \A c, d \in new.constraints :
           c.collection = d.collection /\ c.file[1] = d.file[1]
           /\ c.collection \in Suites => c.file = d.file
    BY <1>7, ArchivesAssumption
  <1>10. \A f \in Files[a] : Held(s, f, new.constraints)
    <2> SUFFICES ASSUME NEW f \in Files[a] PROVE Held(s, f, new.constraints)
      OBVIOUS
    <2>1. [collection |-> s, item |-> Now, file |-> f] \in new.constraints
      BY <1>3 DEF make_constraints
    <2> QED
      BY <2>1 DEF Held
  <1>11. \A i \in new.items : \A f \in Files[i.artifact] :
            i.created = clock + 1 => Held(i.suite, f, new.constraints)
    BY <1>2, <1>3, <1>6, <1>10
  <1>12. /\ \A i \in new.items :
              \/ i.created = clock + 1
              \/ \E j \in db.items : /\ i.created = j.created
                                     /\ i.suite = j.suite
                                     /\ i.artifact = j.artifact
         /\ \A c \in new.constraints :
              /\ c.item <= clock + 1
              /\ c.collection \in Suites => c.item = clock + 1
    BY <1>2, <1>3, <1>5, <1>7
  <1> HIDE DEF old, new
  <1> QED
    BY <1>1, <1>4, <1>8, <1>9, <1>11, <1>12, BeginPool

(* Packages that are removed take only constraints of their suite along.   *)
LEMMA RemoveItemPool ==
  ASSUME IInv, NEW p \in Procs, NEW i \in db.items, remove_item(p, i)
  PROVE  Pool'
  <1> TypeOK
    BY DEF IInv
  <1> DEFINE old == RemovedOld(i)
             new == RemovedNew(i)
  <1>1. old \in Rows /\ new \in Rows /\ Begin(p, old, new)
    BY RemoveItemBegins
  <1>2. /\ {i} \in SUBSET Item /\ i.suite \in Suites
        /\ {i} \in SUBSET Of(db.items, i.suite)
    BY DEF TypeOK, Rows, Item, Of
  <1>3. /\ old.constraints = DroppedWith(i.suite, {i})
        /\ new.items = Remove({i}, Now) /\ new.constraints = {}
    BY DEF RemovedOld, RemovedNew, NoRows, Tables
  <1>4. \A c \in old.constraints :
           c.collection \in Suites => ~Guarded(c.collection)
    BY <1>2, <1>3, DroppedReused
  <1>5. \A r \in new.items : r.created = i.created /\ r.suite = i.suite
                              /\ r.artifact = i.artifact
    BY <1>2, <1>3, RemovedSame
  <1>6. i.created <= clock /\ i.created \in Int /\ clock \in Int
    BY ArchivesAssumption
       DEF IInv, Pool, TimesPassed, AllItems, TypeOK, Rows, Item, Time
  <1> HIDE DEF old, new
  <1>7. \A r \in new.items : r.created # clock + 1
    BY <1>5, <1>6
  <1> QED
    BY <1>1, <1>3, <1>4, <1>5, <1>7, BeginPool

(* A suite that is added writes constraints of the archive only.           *)
LEMMA AddCollectionPool ==
  ASSUME IInv, NEW p \in Procs, NEW s \in Suites, add_collection(p, s)
  PROVE  Pool'
  <1> TypeOK
    BY DEF IInv
  <1> DEFINE new == MemberRows(s)
  <1>1. new \in Rows /\ Begin(p, NoRows, new) /\ NoRows \in Rows
    BY AddCollectionBegins, ClosedType
  <1>2. /\ NoRows.constraints = {}
        /\ new.items = {} /\ new.constraints = CopiedConstraints(s)
    BY DEF MemberRows, NoRows, Tables
  <1>3. db.constraints \in SUBSET Constraint /\ clock \in Int
        /\ \A d \in db.constraints : d.item <= clock /\ d.item \in Int
    BY ArchivesAssumption
       DEF IInv, Pool, TimesPassed, AllConstraints, TypeOK, Rows, Constraint, Time
  <1>4. \A c \in new.constraints : c.collection = Archive /\ c.item <= clock + 1
    BY <1>2, <1>3 DEF CopiedConstraints, Constraint
  <1> HIDE DEF new
  <1> QED
    BY <1>1, <1>2, <1>4, ArchivesAssumption, BeginPool

(* One that is removed deletes only where the archive reuses versions.     *)
LEMMA RemoveCollectionPool ==
  ASSUME IInv, NEW p \in Procs, NEW s \in Suites, remove_collection(p, s)
  PROVE  Pool'
  <1> TypeOK
    BY DEF IInv
  <1> DEFINE old == LeavingOld(s)
             new == LeavingNew(s)
  <1>1. old \in Rows /\ new \in Rows /\ Begin(p, old, new)
    BY RemoveCollectionBegins
  <1>2. /\ new.items = {} /\ new.constraints = {}
        /\ \A c \in old.constraints : Archive \in may_reuse
    BY DEF LeavingOld, LeavingNew, NoRows, Tables
  <1>3. \A c \in old.constraints : ~Guarded(c.collection)
    BY <1>2 DEF Guarded
  <1> HIDE DEF old, new
  <1> QED
    BY <1>1, <1>2, <1>3, BeginPool

(* Steps that add no item and no constraint, and delete nothing of what is *)
(* committed and guarded.                                                  *)
LEMMA QuietPool ==
  ASSUME IInv, TypeOK', AllItems' \subseteq AllItems,
         AllConstraints' \subseteq AllConstraints,
         clock <= clock', may_reuse' = may_reuse
  PROVE  TimesPassed' /\ OwnItems' /\ OneContent'
  <1>1. \A s : Guarded(s)' <=> Guarded(s)
    BY DEF Guarded
  <1>2. /\ clock \in Int /\ clock' \in Int
        /\ \A i \in AllItems : i.created \in Int
        /\ \A c \in AllConstraints : c.item \in Int
    BY ArchivesAssumption
       DEF IInv, TypeOK, AllItems, AllConstraints, Tx, Rows, Item, Constraint, Time
  <1>3. TimesPassed'
    BY <1>2 DEF IInv, Pool, TimesPassed
  <1>4. OwnItems'
    BY DEF IInv, Pool, OwnItems
  <1>5. OneContent'
    BY <1>1 DEF IInv, Pool, OneContent
  <1> QED
    BY <1>3, <1>4, <1>5

(* update_suites writes none of this.                                      *)
LEMMA PopulatePool ==
  ASSUME IInv, TypeOK', NEW force \in BOOLEAN, populate(force)
  PROVE  Pool'
  <1>1. /\ UNCHANGED <<db, tx, published>> /\ may_reuse' = may_reuse
        /\ clock <= clock'
    BY ArchivesAssumption
       DEF populate, history, may_reuse, Now, IInv, TypeOK, Time
  <1>2. TimesPassed' /\ OwnItems' /\ OneContent'
    BY <1>1, QuietPool DEF AllItems, AllConstraints
  <1> QED
    BY <1>1, <1>2 DEF IInv, Pool, DeletedReused, PublishedHeld, ItemsPublished,
                      PendingHeld, ClosedEmpty, Held, Guarded

(* Steps of a process that leave the items and constraints that it has     *)
(* written, or have none any more, with the table as it is.                *)
LEMMA TxPool ==
  ASSUME IInv, TypeOK', NEW p \in Procs,
         UNCHANGED <<workspace, db, clock, published>>,
         \A q \in Procs \ {p} : tx'[q] = tx[q],
         \/ tx'[p] = Closed
         \/ /\ tx'[p].pc # "closed"
            /\ tx'[p].plus.items = tx[p].plus.items
            /\ tx'[p].plus.constraints = tx[p].plus.constraints
            /\ tx'[p].minus.constraints = tx[p].minus.constraints
  PROVE  Pool'
  <1>1. may_reuse' = may_reuse /\ \A s : Guarded(s)' <=> Guarded(s)
    BY DEF may_reuse, Guarded
  <1>2. /\ Closed.plus.items = {} /\ Closed.plus.constraints = {}
        /\ Closed.minus.constraints = {}
    BY DEF Closed, NoRows, Tables
  <1>3. \A q \in Procs :
           /\ tx'[q].plus.items \subseteq tx[q].plus.items
           /\ tx'[q].plus.constraints \subseteq tx[q].plus.constraints
           /\ tx'[q].minus.constraints \subseteq tx[q].minus.constraints
           /\ tx'[q].plus.items # {}
              => tx'[q].plus.constraints = tx[q].plus.constraints
    BY <1>2
  <1>4. TimesPassed' /\ OwnItems' /\ OneContent'
    <2>1. AllItems' \subseteq AllItems /\ AllConstraints' \subseteq AllConstraints
      BY <1>3 DEF AllItems, AllConstraints
    <2>2. clock <= clock'
      BY ArchivesAssumption DEF IInv, TypeOK, Time
    <2> QED
      BY <1>1, <2>1, <2>2, QuietPool
  <1>5. DeletedReused'
    BY <1>1, <1>3 DEF IInv, Pool, DeletedReused
  <1>6. PublishedHeld' /\ ItemsPublished'
    BY <1>1 DEF IInv, Pool, PublishedHeld, ItemsPublished, Held
  <1>7. PendingHeld'
    BY <1>1, <1>3 DEF IInv, Pool, PendingHeld, Held
  <1>8. ClosedEmpty'
    BY DEF IInv, Pool, ClosedEmpty
  <1> QED
    BY <1>4, <1>5, <1>6, <1>7, <1>8 DEF Pool

(* Neither does a generation that starts,                                  *)
LEMMA StartPool ==
  ASSUME IInv, TypeOK', NEW p \in Procs, NEW k \in tasks, start_generation(p, k)
  PROVE  Pool'
  <1>1. tx[p] = Closed
    BY DEF start_generation, IInv, Pool, ClosedEmpty
  <1>2. /\ tx'[p].pc = "generate" /\ tx'[p].plus = NoRows /\ tx'[p].minus = NoRows
        /\ \A q \in Procs \ {p} : tx'[q] = tx[q]
    BY DEF start_generation, IInv, TypeOK, Closed
  <1>3. /\ tx'[p].plus.items = tx[p].plus.items
        /\ tx'[p].plus.constraints = tx[p].plus.constraints
        /\ tx'[p].minus.constraints = tx[p].minus.constraints
    BY <1>1, <1>2 DEF Closed
  <1>4. UNCHANGED <<workspace, db, clock, published>>
    BY DEF start_generation
  <1>5. tx'[p].pc # "closed"
    BY <1>2
  <1> QED
    BY <1>2, <1>3, <1>4, <1>5, TxPool

(* nor one that writes its indexes.                                        *)
LEMMA WritePool ==
  ASSUME IInv, TypeOK', NEW p \in Procs, NEW k \in tx[p].task,
         write_indexes(p, k)
  PROVE  Pool'
  <1>1. PICK old, index :
           tx' = [tx EXCEPT ![p].pc = "open", ![p].minus.indexes = old,
                            ![p].plus.indexes = index]
    BY DEF write_indexes
  <1>2. /\ tx'[p].pc = "open"
        /\ tx'[p].plus.items = tx[p].plus.items
        /\ tx'[p].plus.constraints = tx[p].plus.constraints
        /\ tx'[p].minus.constraints = tx[p].minus.constraints
        /\ \A q \in Procs \ {p} : tx'[q] = tx[q]
    <2>1. tx \in [Procs -> Tx] /\ tx[p] \in Tx
      BY DEF IInv, TypeOK
    <2>2. tx[p].plus \in Rows /\ tx[p].minus \in Rows
      BY <2>1 DEF Tx
    <2>3. \A q \in Procs \ {p} : tx'[q] = tx[q]
      BY <1>1, <2>1
    <2>4. tx'[p] = [tx[p] EXCEPT !.pc = "open",
                      !.minus = [tx[p].minus EXCEPT !.indexes = old],
                      !.plus = [tx[p].plus EXCEPT !.indexes = index]]
      BY <1>1, <2>1
    <2>5. /\ tx'[p].pc = "open"
          /\ tx'[p].minus = [tx[p].minus EXCEPT !.indexes = old]
          /\ tx'[p].plus = [tx[p].plus EXCEPT !.indexes = index]
      BY <2>1, <2>4 DEF Tx
    <2> QED
      BY <2>2, <2>3, <2>5 DEF Rows
  <1> QED
    BY <1>2, TxPool DEF write_indexes, history

(* What is given up was never there.                                       *)
LEMMA RollbackPool ==
  ASSUME IInv, TypeOK', NEW p \in Procs, rollback(p)
  PROVE  Pool'
  <1>1. tx'[p] = Closed /\ \A q \in Procs \ {p} : tx'[q] = tx[q]
    BY DEF rollback, IInv, TypeOK
  <1> QED
    BY <1>1, TxPool DEF rollback, history

(* A commit publishes files whose constraints it keeps or adds.            *)
LEMMA CommitPool ==
  ASSUME IInv, TypeOK', NEW p \in Procs, commit(p)
  PROVE  Pool'
  <1> TypeOK /\ Pool
    BY DEF IInv
  <1>1. /\ tx'[p] = Closed /\ \A q \in Procs \ {p} : tx'[q] = tx[q]
        /\ clock' = clock /\ may_reuse' = may_reuse
        /\ \A s : Guarded(s)' <=> Guarded(s)
    BY DEF commit, TypeOK, may_reuse, Guarded
  <1>2. /\ db'.items = (db.items \ tx[p].minus.items) \cup tx[p].plus.items
        /\ db'.constraints = (db.constraints \ tx[p].minus.constraints)
                                \cup tx[p].plus.constraints
    BY DEF commit, Tables
  <1>3. /\ Closed.plus.items = {} /\ Closed.plus.constraints = {}
        /\ Closed.minus.constraints = {} /\ Closed.pc = "closed"
    BY DEF Closed, NoRows, Tables
  <1>4. /\ published \subseteq published'
        /\ \A s \in Suites, f \in File :
              <<s, f>> \in published' =>
                 \/ <<s, f>> \in published
                 \/ \E i \in tx[p].plus.items : s = i.suite /\ f \in Files[i.artifact]
        /\ \A i \in tx[p].plus.items : \A f \in Files[i.artifact] :
              <<i.suite, f>> \in published'
    BY DEF commit
  <1>5. TimesPassed' /\ OwnItems' /\ OneContent'
    <2>1. AllItems' \subseteq AllItems /\ AllConstraints' \subseteq AllConstraints
      BY <1>1, <1>2, <1>3 DEF AllItems, AllConstraints
    <2>2. clock <= clock'
      BY <1>1, ArchivesAssumption DEF TypeOK, Time
    <2> QED
      BY <1>1, <2>1, <2>2, QuietPool
  <1>6. DeletedReused'
    BY <1>1, <1>3 DEF Pool, DeletedReused
  <1>7. \A c \in db.constraints \cup tx[p].plus.constraints :
           c.collection \in Suites /\ Guarded(c.collection) => c \in db'.constraints
    BY <1>2 DEF Pool, DeletedReused
  <1>8. PublishedHeld'
    BY <1>1, <1>4, <1>7 DEF Pool, PublishedHeld, PendingHeld, Held
  <1>9. ItemsPublished'
    BY <1>2, <1>4 DEF Pool, ItemsPublished
  <1>10. PendingHeld'
    <2> SUFFICES ASSUME NEW q \in Procs \ {p}, NEW i \in tx[q].plus.items,
                        NEW f \in Files[i.artifact], Guarded(i.suite)
                 PROVE  Held(i.suite, f, db'.constraints \cup tx[q].plus.constraints)
      BY <1>1, <1>3 DEF PendingHeld, Held
    <2>1. i.suite \in Suites
      BY DEF TypeOK, Tx, Rows, Item
    <2>2. PICK c \in db.constraints \cup tx[q].plus.constraints :
             c.collection = i.suite /\ c.file = f
      BY DEF Pool, PendingHeld, Held
    <2>3. c \in db'.constraints \cup tx[q].plus.constraints
      BY <1>7, <2>1, <2>2
    <2> QED
      BY <2>2, <2>3 DEF Held
  <1>11. ClosedEmpty'
    BY <1>1 DEF Pool, ClosedEmpty
  <1> QED
    BY <1>5, <1>6, <1>8, <1>9, <1>10, <1>11 DEF Pool

(* Items expire, and their constraints stay.                               *)
LEMMA DropPool ==
  ASSUME IInv, TypeOK', NEW s \in Suites, NEW before, drop_metadata(s, before)
  PROVE  Pool'
  <1>1. /\ UNCHANGED <<tx, clock, published>> /\ may_reuse' = may_reuse
        /\ db'.items \subseteq db.items /\ db'.constraints = db.constraints
    BY DEF drop_metadata, may_reuse, Expired, NoRows, Tables
  <1>2. TimesPassed' /\ OwnItems' /\ OneContent'
    <2>1. AllItems' \subseteq AllItems /\ AllConstraints' \subseteq AllConstraints
      BY <1>1 DEF AllItems, AllConstraints
    <2>2. clock <= clock'
      BY <1>1, ArchivesAssumption DEF IInv, TypeOK, Time
    <2> QED
      BY <1>1, <2>1, <2>2, QuietPool
  <1> QED
    BY <1>1, <1>2 DEF IInv, Pool, DeletedReused, PublishedHeld, ItemsPublished,
                      PendingHeld, ClosedEmpty, Held, Guarded

-----------------------------------------------------------------------------
(* The invariant holds at the start.                                       *)
LEMMA InitIInv == Init => IInv
  <1> SUFFICES ASSUME Init PROVE IInv
    OBVIOUS
  <1>1. TypeOK
    BY ClosedType, ArchivesAssumption DEF Init, TypeOK, Time
  <1>2. /\ Closed.plus.items = {} /\ Closed.plus.constraints = {}
        /\ Closed.minus.constraints = {}
        /\ NoRows.items = {} /\ NoRows.constraints = {}
    BY DEF Closed, NoRows, Tables
  <1>3. AllItems = {} /\ AllConstraints = {}
    BY <1>2 DEF Init, AllItems, AllConstraints
  <1>4. Pool
    BY <1>2, <1>3 DEF Init, Pool, TimesPassed, OwnItems, DeletedReused, OneContent,
       PublishedHeld, ItemsPublished, PendingHeld, ClosedEmpty
  <1> QED
    BY <1>1, <1>4 DEF IInv

(* Every step keeps it.                                                    *)
LEMMA NextIInv == IInv /\ [Next]_vars => IInv'
  <1> SUFFICES ASSUME IInv, [Next]_vars PROVE IInv'
    OBVIOUS
  <1> TypeOK /\ TypeOK'
    BY NextType DEF IInv
  <1>1. ASSUME NEW p \in Procs, NEW s \in workspace.suites,
               NEW a \in Artifacts, NEW replace \in BOOLEAN,
               add_artifact(p, s, a, replace)
        PROVE  Pool'
    BY <1>1, WorkspaceType, AddArtifactPool
  <1>2. ASSUME NEW p \in Procs, NEW i \in Active(db.items), remove_item(p, i)
        PROVE  Pool'
    BY <1>2, RemoveItemPool DEF Active
  <1>3. ASSUME NEW p \in Procs, NEW s \in workspace.suites, add_collection(p, s)
        PROVE  Pool'
    BY <1>3, WorkspaceType, AddCollectionPool
  <1>4. ASSUME NEW p \in Procs, NEW s \in workspace.suites,
               remove_collection(p, s)
        PROVE  Pool'
    BY <1>4, WorkspaceType, RemoveCollectionPool
  <1>5. ASSUME NEW s \in workspace.suites, NEW before \in 1 .. clock,
               drop_metadata(s, before)
        PROVE  Pool'
    BY <1>5, WorkspaceType, DropPool
  <1>6. ASSUME UNCHANGED vars PROVE Pool'
    BY <1>6 DEF vars, history, IInv, Pool, TimesPassed, OwnItems, DeletedReused,
       OneContent, PublishedHeld, ItemsPublished, PendingHeld, ClosedEmpty,
       AllItems, AllConstraints, Held, Guarded, may_reuse
  <1>7. ASSUME NEW force \in BOOLEAN, populate(force) PROVE Pool'
    BY <1>7, PopulatePool
  <1>8. ASSUME NEW p \in Procs, NEW k \in tasks, start_generation(p, k)
        PROVE  Pool'
    BY <1>8, StartPool
  <1>9. ASSUME NEW p \in Procs, NEW k \in tx[p].task, write_indexes(p, k)
        PROVE  Pool'
    BY <1>9, WritePool
  <1>10. ASSUME NEW p \in Procs, commit(p) \/ rollback(p) PROVE Pool'
    BY <1>10, CommitPool, RollbackPool
  <1>11. Pool'
    BY <1>1, <1>2, <1>3, <1>4, <1>5, <1>6, <1>7, <1>8, <1>9, <1>10 DEF Next
  <1> QED
    BY <1>11 DEF IInv

(* It implies that the pool has one content for each name.                 *)
LEMMA IInvPoolHistory == IInv => PoolHistory
  <1> SUFFICES ASSUME IInv, NEW x \in published, NEW y \in published,
                      x[1] = y[1], x[2][1] = y[2][1],
                      {x[1], Archive} \cap may_reuse = {}
               PROVE  x = y
    BY DEF PoolHistory
  <1>1. PICK s \in Suites, f \in File : x = <<s, f>>
    BY DEF IInv, TypeOK
  <1>2. PICK g \in File : y = <<s, g>>
    BY <1>1 DEF IInv, TypeOK
  <1>3. Guarded(s) /\ f[1] = g[1]
    BY <1>1, <1>2 DEF Guarded
  <1>4. Held(s, f, db.constraints) /\ Held(s, g, db.constraints)
    BY <1>1, <1>2, <1>3 DEF IInv, Pool, PublishedHeld
  <1>5. f = g
    BY <1>3, <1>4 DEF IInv, Pool, OneContent, Held, AllConstraints
  <1> QED
    BY <1>1, <1>2, <1>5

(* Every variable of the model has its type in every reachable state.      *)
THEOREM TypeCorrect == Spec => []TypeOK
  <1>1. IInv => TypeOK
    BY DEF IInv
  <1> QED
    BY <1>1, InitIInv, NextIInv, PTL DEF Spec

(* In a suite that does not reuse versions, in an archive that does not,   *)
(* a name in pool/ never gets a second content: not by packages that are   *)
(* replaced or removed, nor by items that expire, suites that leave the    *)
(* archive and come back, or transactions that do not see each other       *)
(* (do_add_artifact() and do_remove_item() of debian_suite.py).            *)
THEOREM PoolKept == Spec => []PoolHistory
  BY InitIInv, NextIInv, IInvPoolHistory, PTL DEF Spec
===============================================================================
