-------------------------- MODULE FileStoresProofs --------------------------
(***************************************************************************)
(* Three results about the files and their stores.  The clean-up of        *)
(* expired and of incomplete artifacts never takes away the target of a    *)
(* relation; every variable has its type, the sizes of stores included;    *)
(* and every file of a complete artifact can be downloaded, unless a       *)
(* process fails between writing to a store and committing.                *)
(***************************************************************************)
EXTENDS FileStores, FiniteSetTheorems, WellFoundedInduction, TLAPS

-----------------------------------------------------------------------------
(* Relations.  Stores and sizes do not matter for them.                    *)

(* The tables that matter, and records that have the fields they should.   *)
Fields(r, like) == r = [k \in DOMAIN like |-> r[k]]
Shape ==
    /\ artifact \in [Artifacts -> {"absent", "present", "deleted"}]
    /\ fia \in [Artifacts -> [Files -> {"none", "incomplete", "complete"}]]
    /\ relations \subseteq Artifacts \X Artifacts
    /\ tx = [p \in Procs |-> tx[p]] /\ \A p \in Procs : Fields(tx[p], Idle)
    /\ Fields(vac, VacIdle)

(* What is related is complete, also if the relation is not committed yet. *)
Whole(a) == a \in Artifacts /\ artifact[a] = "present" /\ Complete(a)
RelatedWhole ==
    /\ \A q \in relations : Whole(q[1]) /\ Whole(q[2])
    /\ \A p \in Procs : tx[p].op = "relate" =>
          Whole(tx[p].art) /\ Whole(tx[p].target)

(* Hence the clean-up of incomplete artifacts never finds a relation that  *)
(* it would remove with them.                                              *)
NoneFound == vac.rels = {}

IInv == Shape /\ RelatedWhole /\ NoneFound

Kept == \A q \in relations :
           artifact'[q[1]] = "present" => artifact'[q[2]] = "present"

-----------------------------------------------------------------------------
(* Records.                                                                *)

(* What the fields of transactions are.                                    *)
LEMMA TxFields ==
  /\ DOMAIN Idle = {"op", "art", "target", "todo", "done", "file", "store", "adds"}
  /\ Idle.op = "idle" /\ Fields(Idle, Idle)
  BY DEF Idle, Fields

(* What the fields of the vacuum job are.                                  *)
LEMMA VacFields ==
  /\ DOMAIN VacIdle = {"pc", "back", "scope", "scopes", "stores", "store",
                       "files", "source", "left", "excess", "arts", "rels",
                       "adds", "dels"}
  /\ VacIdle.rels = {} /\ Fields(VacIdle, VacIdle)
  BY DEF VacIdle, Fields

-----------------------------------------------------------------------------
(* Steps that leave artifacts and relations alone.                         *)

VacOK(v) == Fields(v, VacIdle) /\ v.rels = {}

(* The vacuum job sweeps the stores for files that nothing refers to.      *)
LEMMA VacuumSteps ==
  ASSUME VacOK(vac), vacuum \/ sweep_list \/ sweep_db \/ sweep_remove \/ vacuum_commit
  PROVE  VacOK(vac') /\ UNCHANGED <<db, tx>>
  <1>1. CASE vacuum
    BY <1>1, VacFields DEF vacuum, VacStep, VacKeep, VacOK, Fields
  <1>2. CASE sweep_list
    BY <1>2, VacFields DEF sweep_list, VacStep, VacKeep, VacOK, Fields
  <1>3. CASE sweep_db
    BY <1>3, VacFields DEF sweep_db, VacStep, VacKeep, VacOK, Fields
  <1>4. CASE sweep_remove
    BY <1>4, VacFields DEF sweep_remove, VacStep, VacKeep, VacOK, Fields
  <1>5. CASE vacuum_commit
    BY <1>5, VacFields DEF vacuum_commit, VacOK, Fields
  <1> QED
    BY <1>1, <1>2, <1>3, <1>4, <1>5

(* The vacuum job goes to another scope, store or policy.                  *)
LEMMA ScopeSteps ==
  ASSUME VacOK(vac),
         \/ next_scope
         \/ \E pc \in {"populate", "drain", "limit"} :
               next_store(pc, vac.scope) \/ next_policy(pc)
  PROVE  VacOK(vac') /\ UNCHANGED <<db, tx>>
  <1>1. CASE next_scope
    <2>1. CASE vac.scopes = {}
      BY <1>1, <2>1, VacFields DEF next_scope, VacStep, VacKeep, VacOK, Fields
    <2>2. CASE vac.scopes # {}
      <3>1. UNCHANGED <<db, tx>>
        BY <1>1, <2>2 DEF next_scope, VacStep, VacKeep
      <3>2. ASSUME NEW c, NEW scopes, NEW st
            PROVE  VacOK([vac EXCEPT !.pc = "populate", !.scope = c,
                            !.scopes = scopes, !.store = None, !.files = {},
                            !.stores = st])
        BY VacFields DEF VacOK, Fields
      <3>3. PICK c \in vac.scopes :
               VacStep([vac EXCEPT !.pc = "populate", !.scope = c,
                          !.scopes = @ \ {c}, !.store = None, !.files = {},
                          !.stores = PolicyStores(c, LAMBDA q : q.populate)])
        BY <1>1, <2>2 DEF next_scope, PolicyStores
      <3> DEFINE scopes == vac.scopes \ {c}
                 st == PolicyStores(c, LAMBDA q : q.populate)
      <3>4. vac' = [vac EXCEPT !.pc = "populate", !.scope = c,
                      !.scopes = scopes, !.store = None, !.files = {},
                      !.stores = st]
        BY <3>3 DEF VacStep, PolicyStores
      <3> HIDE DEF scopes, st, VacOK
      <3> QED
        BY <3>1, <3>2, <3>4
    <2> QED
      BY <2>1, <2>2
  <1>2. ASSUME NEW pc \in {"populate", "drain", "limit"}, next_store(pc, vac.scope)
        PROVE  VacOK(vac') /\ UNCHANGED <<db, tx>>
    <2>1. UNCHANGED <<db, tx>>
      BY <1>2 DEF next_store, VacStep, VacKeep
    <2>2. ASSUME NEW s, NEW st, NEW files, NEW source, NEW left
          PROVE  VacOK([vac EXCEPT !.stores = st, !.store = s, !.files = files,
                                   !.source = source, !.left = left])
      BY VacFields DEF VacOK, Fields
    <2>3. PICK s \in vac.stores :
             VacStep([vac EXCEPT !.stores = @ \ {s}, !.store = s,
               !.files = {f \in FilesIn(vac.scope) :
                            (<<s, f>> \in in_store) <=> (pc # "populate")},
               !.source = [f \in Files |->
                  IF pc # "populate" \/ Sources(s, f) = {} THEN None
                  ELSE CHOOSE r \in Sources(s, f) : TRUE],
               !.left = IF pc = "limit" THEN vac.excess[s] ELSE 0])
      BY <1>2 DEF next_store
    <2> DEFINE st == vac.stores \ {s}
               files == {f \in FilesIn(vac.scope) :
                           (<<s, f>> \in in_store) <=> (pc # "populate")}
               source == [f \in Files |->
                  IF pc # "populate" \/ Sources(s, f) = {} THEN None
                  ELSE CHOOSE r \in Sources(s, f) : TRUE]
               left == IF pc = "limit" THEN vac.excess[s] ELSE 0
    <2>4. vac' = [vac EXCEPT !.stores = st, !.store = s, !.files = files,
                             !.source = source, !.left = left]
      BY <2>3 DEF VacStep
    <2> HIDE DEF st, files, source, left, VacOK
    <2> QED
      BY <2>1, <2>2, <2>4
  <1>3. ASSUME NEW pc \in {"populate", "drain", "limit"}, next_policy(pc)
        PROVE  VacOK(vac') /\ UNCHANGED <<db, tx>>
    <2>1. UNCHANGED <<db, tx>>
      BY <1>3 DEF next_policy, VacStep, VacKeep
    <2>2. ASSUME NEW st, NEW source, NEW excess, NEW left, NEW next
          PROVE  /\ VacOK([vac EXCEPT !.pc = next, !.source = source,
                                      !.stores = st])
                 /\ VacOK([vac EXCEPT !.pc = next, !.excess = excess,
                                      !.stores = st])
                 /\ VacOK([vac EXCEPT !.pc = next, !.left = left,
                                      !.excess = excess])
      BY VacFields DEF VacOK, Fields
    <2> HIDE DEF VacOK
    <2>3. CASE pc = "populate"
      <3> DEFINE st == PolicyStores(vac.scope, LAMBDA q : q.drain)
      <3>1. vac' = [vac EXCEPT !.pc = "drain", !.source = VacIdle.source,
                               !.stores = st]
        BY <1>3, <2>3 DEF next_policy, PolicyStores, VacStep
      <3> HIDE DEF st
      <3> QED
        BY <2>1, <2>2, <3>1
    <2>4. CASE pc = "drain"
      <3> DEFINE st == {s \in DOMAIN Policy[vac.scope] : Excess(s) > 0}
                 excess == [s \in Stores |-> Excess(s)]
      <3>1. vac' = [vac EXCEPT !.pc = "limit", !.excess = excess, !.stores = st]
        BY <1>3, <2>4 DEF next_policy, VacStep
      <3> HIDE DEF st, excess
      <3> QED
        BY <2>1, <2>2, <3>1
    <2>5. CASE pc = "limit"
      BY <1>3, <2>1, <2>2, <2>5 DEF next_policy, VacStep
    <2> QED
      BY <2>1, <2>3, <2>4, <2>5
  <1> QED
    BY <1>1, <1>2, <1>3

(* The vacuum job that copies and drains.                                  *)
LEMMA FileSteps ==
  ASSUME VacOK(vac), NEW f \in Files, populate_file(f) \/ drain_file(f)
  PROVE  VacOK(vac') /\ UNCHANGED <<db, tx>>
  <1>1. \A new : VacOK(new) => VacOK([new EXCEPT !.files = new.files \ {f}])
    BY VacFields DEF VacOK, Fields
  <1>2. VacOK(Drained(f)) /\ VacOK([vac EXCEPT !.files = {}])
    BY VacFields DEF Drained, VacOK, Fields
  <1>3. ASSUME NEW adds, NEW dels, NEW new, VacOK(new), Move(f, adds, dels, new)
        PROVE  VacOK(vac') /\ UNCHANGED <<db, tx>>
    BY <1>3, VacFields DEF Move, VacKeep, VacOK, Fields
  <1>4. ASSUME NEW new, VacOK(new), VacStep(new)
        PROVE  VacOK(vac') /\ UNCHANGED <<db, tx>>
    BY <1>4 DEF VacStep, VacKeep
  <1>5. CASE populate_file(f)
    BY <1>1, <1>2, <1>3, <1>4, <1>5 DEF populate_file, Skip
  <1>6. CASE drain_file(f)
    BY <1>1, <1>2, <1>3, <1>4, <1>6 DEF drain_file, Skip
  <1> QED
    BY <1>5, <1>6

(* A process that has no relation to commit, or one between two whole      *)
(* artifacts.                                                              *)
TxOK(t) == /\ Fields(t, Idle)
           /\ t.op = "relate" => Whole(t.art) /\ Whole(t.target)

(* The parts of the invariant.                                             *)
LEMMA InvFacts ==
  ASSUME IInv
  PROVE  /\ Shape /\ VacOK(vac) /\ \A p \in Procs : TxOK(tx[p])
         /\ \A q \in relations : Whole(q[1]) /\ Whole(q[2])
  BY DEF IInv, Shape, RelatedWhole, NoneFound, VacOK, TxOK

(* A step that changes neither artifacts nor relations.                    *)
LEMMA Quiet ==
  ASSUME IInv, UNCHANGED <<artifact, fia, relations>>, VacOK(vac'),
         tx' = [p \in Procs |-> tx'[p]], \A p \in Procs : TxOK(tx'[p])
  PROVE  IInv' /\ Kept
  <1>1. \A a : Whole(a)' <=> Whole(a)
    BY DEF Whole, Complete
  <1>2. Shape'
    BY InvFacts DEF Shape, VacOK, TxOK
  <1>3. RelatedWhole'
    BY <1>1, InvFacts DEF RelatedWhole, TxOK
  <1>4. NoneFound'
    BY DEF VacOK, NoneFound
  <1>5. Kept
    BY InvFacts DEF Kept, Whole
  <1> QED
    BY <1>2, <1>3, <1>4, <1>5 DEF IInv

(* Steps that leave artifacts and relations alone keep everything.         *)
LEMMA VacuumQuiet ==
  ASSUME IInv, VacOK(vac'), UNCHANGED <<db, tx>>
  PROVE  IInv' /\ Kept
  BY Quiet, InvFacts DEF db, Shape

(* A step of the transaction of p.                                         *)
LEMMA TxQuiet ==
  ASSUME IInv, NEW p \in Procs, NEW new, TxOK(new),
         tx' = [tx EXCEPT ![p] = new],
         UNCHANGED <<artifact, fia, relations, vac>>
  PROVE  IInv' /\ Kept
  BY Quiet, InvFacts DEF Shape

(* A transaction that begins.                                              *)
LEMMA BeginQuiet ==
  ASSUME IInv, NEW p \in Procs, NEW new, TxOK(new), Begin(p, new)
  PROVE  IInv' /\ Kept
  BY TxQuiet DEF Begin, db

(* Requests before they commit.                                            *)
LEMMA Requests ==
  ASSUME IInv, NEW p \in Procs, NEW a \in Artifacts,
         \/ post(p, a) \/ create_from_local_artifact(p, a)
         \/ \E f \in Files : put(p, a, f)
         \/ \E b \in Artifacts : copy_artifact(p, a, b) \/ perform_create(p, a, b)
  PROVE  IInv' /\ Kept
  <1>1. CASE post(p, a)
    BY <1>1, BeginQuiet, TxFields DEF post, TxOK, Fields
  <1>2. CASE create_from_local_artifact(p, a)
    BY <1>2, BeginQuiet, TxFields DEF create_from_local_artifact, TxOK, Fields
  <1>3. ASSUME NEW f \in Files, put(p, a, f)
        PROVE  IInv' /\ Kept
    BY <1>3, BeginQuiet, TxFields DEF put, TxOK, Fields
  <1>4. ASSUME NEW b \in Artifacts, copy_artifact(p, a, b)
        PROVE  IInv' /\ Kept
    BY <1>4, BeginQuiet, TxFields DEF copy_artifact, TxOK, Fields
  <1>5. ASSUME NEW b \in Artifacts, perform_create(p, a, b)
        PROVE  IInv' /\ Kept
    BY <1>5, BeginQuiet, TxFields DEF perform_create, TxOK, Fields, Whole
  <1> QED
    BY <1>1, <1>2, <1>3, <1>4, <1>5

(* The store is chosen and the contents are added.                         *)
LEMMA Uploads ==
  ASSUME IInv, NEW p \in Procs, upload_file_backend(p) \/ add_file(p)
  PROVE  IInv' /\ Kept
  <1>1. TxOK(tx[p]) /\ tx = [q \in Procs |-> tx[q]]
    BY InvFacts DEF Shape
  <1>3. CASE upload_file_backend(p)
    <2> DEFINE copied(f) == [tx[p] EXCEPT !.todo = @ \ {f}, !.done = @ \cup {f}]
               chosen(f, s) == [tx[p] EXCEPT !.file = f, !.store = s]
    <2>1. PICK f, s :
             \/ tx' = [tx EXCEPT ![p].todo = @ \ {f}, ![p].done = @ \cup {f}]
             \/ tx' = [tx EXCEPT ![p].file = f, ![p].store = s]
      BY <1>3, Zenon DEF upload_file_backend
    <2>3. \/ tx' = [tx EXCEPT ![p] = copied(f)]
          \/ tx' = [tx EXCEPT ![p] = chosen(f, s)]
      BY <1>1, <2>1
    <2>2. TxOK(copied(f)) /\ TxOK(chosen(f, s))
      BY <1>1, TxFields DEF TxOK, Fields
    <2> HIDE DEF copied, chosen
    <2> QED
      BY <1>3, <2>2, <2>3, TxQuiet DEF upload_file_backend, db
  <1>4. CASE add_file(p)
    <2> DEFINE new(f, adds) ==
                 [tx[p] EXCEPT !.file = None, !.store = None, !.todo = @ \ {f},
                               !.done = @ \cup {f}, !.adds = adds]
    <2>1. PICK f, adds : tx' = [tx EXCEPT ![p] = new(f, adds)]
      <3> DEFINE s == tx[p].store
                 file == tx[p].file
                 created == <<s, file>> \notin in_store
                 adds == IF created THEN tx[p].adds \cup {<<s, file>>}
                                    ELSE tx[p].adds
      <3>1. tx' = [tx EXCEPT ![p].file = None, ![p].store = None,
                             ![p].todo = @ \ {file}, ![p].done = @ \cup {file},
                             ![p].adds = IF created THEN @ \cup {<<s, file>>}
                                                    ELSE @]
        BY <1>4 DEF add_file
      <3>2. tx' = [tx EXCEPT ![p] = new(file, adds)]
        BY <3>1
      <3> QED
        BY <3>2
    <2>2. TxOK(new(f, adds))
      BY <1>1, TxFields DEF TxOK, Fields
    <2> HIDE DEF new
    <2> QED
      BY <1>4, <2>1, <2>2, TxQuiet DEF add_file, db
  <1> QED
    BY <1>3, <1>4

(* Requests that fail.                                                     *)
LEMMA RollsBack ==
  ASSUME IInv, NEW p \in Procs, rolled_back(p) \/ killed(p)
  PROVE  IInv' /\ Kept
  <1>1. TxOK(Idle)
    BY TxFields DEF TxOK
  <1> QED
    BY <1>1, TxQuiet DEF rolled_back, killed, db

(* What the vacuum job finds is only a list.                               *)
LEMMA OtherVacuum ==
  ASSUME IInv, find_incomplete \/ vacuum_killed
  PROVE  IInv' /\ Kept
  <1>1. VacOK(VacIdle)
    BY VacFields DEF VacOK
  <1>2. CASE vacuum_killed
    BY <1>1, <1>2, VacuumQuiet DEF vacuum_killed
  <1>3. CASE find_incomplete
    <2> DEFINE old == {a \in Artifacts : /\ artifact[a] = "present" /\ age[a] >= 1
                                         /\ ~Complete(a) /\ items[a] = "none"}
               rels == {q \in relations : Touches(q, old)}
    <2>1. rels = {}
      BY InvFacts DEF Touches, Whole
    <2> HIDE DEF rels
    <2>2. VacOK([VacIdle EXCEPT !.pc = "delete_incomplete", !.arts = old,
                                !.rels = rels])
      BY <2>1, VacFields DEF VacOK, Fields
    <2>3. VacOK(vac') /\ UNCHANGED <<db, tx>>
      BY <1>1, <1>3, <2>2 DEF find_incomplete, VacStep, VacKeep, rels
    <2> QED
      BY <2>3, VacuumQuiet
  <1> QED
    BY <1>2, <1>3

(* Collection items, the files of expired artifacts, and time.             *)
LEMMA OtherSteps ==
  ASSUME IInv, NEW d, NEW a,
         \/ add_item(a) \/ remove_item(a) \/ delete_expired(d)
         \/ delete_files \/ expire_gives_up \/ day
  PROVE  IInv' /\ Kept
  <1>1. UNCHANGED <<artifact, fia, relations, tx, vac>>
    BY DEF add_item, remove_item, SetItem, delete_expired, delete_files,
           expire_gives_up, day, db
  <1> QED
    BY <1>1, Quiet, InvFacts DEF Shape

(* Files are deleted from stores only.                                     *)
LEMMA FilesDeleted ==
  ASSUME IInv, delete_files_commit
  PROVE  IInv' /\ Kept
  <1>1. VacOK(vac)
    BY InvFacts
  <1>2. \A files : VacOK([vac EXCEPT !.files = files])
    BY <1>1, VacFields DEF VacOK, Fields
  <1>3. VacOK(vac') /\ UNCHANGED <<db, tx>>
    BY <1>1, <1>2 DEF delete_files_commit
  <1> QED
    BY <1>3, VacuumQuiet

-----------------------------------------------------------------------------
(* Steps that make artifacts or relations, or delete them.                 *)

(* A request that commits adds an artifact, or a relation between two that *)
(* are whole.                                                              *)
LEMMA Commits ==
  ASSUME IInv, NEW p \in Procs, commit(p)
  PROVE  IInv' /\ Kept
  <1> DEFINE a == tx[p].art
             b == tx[p].target
             files == [f \in Files |->
                         IF f \in tx[p].done THEN "complete"
                         ELSE IF f \in FilesOf[a] /\ fia[a][f] = "none"
                              THEN "incomplete" ELSE fia[a][f]]
  <1>1. /\ Shape /\ \A q \in Procs : TxOK(tx[q])
        /\ \A q \in relations : Whole(q[1]) /\ Whole(q[2])
    BY InvFacts
  <1>2. tx' = [tx EXCEPT ![p] = Idle] /\ UNCHANGED vac
    BY DEF commit
  <1>3. /\ artifact' \in [Artifacts -> {"absent", "present", "deleted"}]
        /\ fia' \in [Artifacts -> [Files -> {"none", "incomplete", "complete"}]]
        /\ \A k \in Artifacts : artifact[k] = "present" => artifact'[k] = "present"
        /\ \A k \in Artifacts : Complete(k) => Complete(k)'
    <2>1. CASE tx[p].op = "relate"
      BY <1>1, <2>1 DEF commit, Shape, Complete
    <2>2. CASE tx[p].op # "relate"
      <3>1. /\ artifact' = [artifact EXCEPT ![a] = "present"]
            /\ fia' = [fia EXCEPT ![a] = files]
        BY <2>2 DEF commit
      <3>2. a \in Artifacts =>
               /\ files \in [Files -> {"none", "incomplete", "complete"}]
               /\ \A f \in Files : fia[a][f] = "complete" => files[f] = "complete"
        BY <1>1 DEF Shape
      <3>3. \A k \in Artifacts : FilesOf[k] \subseteq Files
        BY FileStoresAssumption
      <3> HIDE DEF files
      <3> QED
        BY <1>1, <3>1, <3>2, <3>3 DEF Shape, Complete
    <2> QED
      BY <2>1, <2>2
  <1>4. \A k : Whole(k) => Whole(k)'
    BY <1>3 DEF Whole
  <1>5. \A q \in relations' : /\ Whole(q[1])' /\ Whole(q[2])'
                              /\ q \in Artifacts \X Artifacts
    <2>1. \/ relations' = relations
          \/ tx[p].op = "relate" /\ relations' = relations \cup {<<a, b>>}
      BY DEF commit
    <2>2. tx[p].op = "relate" => Whole(a) /\ Whole(b)
      BY <1>1 DEF TxOK
    <2> QED
      BY <1>1, <1>4, <2>1, <2>2 DEF Shape, Whole
  <1>6. Shape'
    BY <1>1, <1>2, <1>3, <1>5, TxFields DEF Shape
  <1>7. RelatedWhole'
    <2>1. \A q \in Procs : tx'[q] = tx[q] \/ tx'[q] = Idle
      BY <1>1, <1>2 DEF Shape
    <2> QED
      BY <1>1, <1>4, <1>5, <2>1, TxFields DEF RelatedWhole, TxOK
  <1>8. Kept /\ NoneFound'
    BY <1>1, <1>2, <1>3 DEF Kept, Whole, IInv, NoneFound
  <1> QED
    BY <1>6, <1>7, <1>8 DEF IInv

(* What deleting artifacts leaves.                                         *)
LEMMA Deleted ==
  ASSUME Shape, NEW gone, DeleteArtifacts(gone)
  PROVE  /\ artifact' \in [Artifacts -> {"absent", "present", "deleted"}]
         /\ fia' \in [Artifacts -> [Files -> {"none", "incomplete", "complete"}]]
         /\ \A a : Whole(a) /\ a \notin gone => Whole(a)'
         /\ \A a \in Artifacts : artifact'[a] = "present" => a \notin gone
  <1>1. /\ artifact' \in [Artifacts -> {"absent", "present", "deleted"}]
        /\ fia' \in [Artifacts -> [Files -> {"none", "incomplete", "complete"}]]
        /\ \A a \in Artifacts : artifact'[a] = "present" => a \notin gone
    BY DEF DeleteArtifacts, Shape
  <1>2. ASSUME NEW a, Whole(a), a \notin gone
        PROVE  Whole(a)'
    <2>1. a \in Artifacts /\ artifact'[a] = artifact[a] /\ fia'[a] = fia[a]
      BY <1>2 DEF DeleteArtifacts, Whole
    <2> QED
      BY <1>2, <2>1 DEF Whole, Complete
  <1> QED
    BY <1>1, <1>2

(* An artifact that is incomplete is in no relation.                       *)
LEMMA IncompleteDeleted ==
  ASSUME IInv, delete_incomplete
  PROVE  IInv' /\ Kept
  <1> DEFINE refused == \/ \E a \in vac.arts : items[a] # "none"
                        \/ \E q \in relations : Touches(q, vac.arts)
             gone == IF refused THEN {} ELSE vac.arts
  <1>1. /\ Shape /\ VacOK(vac) /\ \A p \in Procs : TxOK(tx[p])
        /\ \A q \in relations : Whole(q[1]) /\ Whole(q[2])
    BY InvFacts
  <1>2. relations \ vac.rels = relations
    BY <1>1 DEF VacOK
  <1>3. /\ DeleteArtifacts(gone) /\ UNCHANGED <<relations, tx>>
        /\ vac' = VacIdle
        /\ \A p \in Procs : {tx[p].art, tx[p].target} \cap vac.arts = {}
    BY <1>2 DEF delete_incomplete
  <1>4. \A q \in relations : q[1] \notin gone /\ q[2] \notin gone
    BY DEF Touches
  <1>5. \A p \in Procs : tx[p].art \notin gone /\ tx[p].target \notin gone
    BY <1>3
  <1> HIDE DEF gone
  <1>6. \A a : Whole(a) /\ a \notin gone => Whole(a)'
    BY <1>1, <1>3, Deleted
  <1>7. RelatedWhole'
    BY <1>1, <1>3, <1>4, <1>5, <1>6 DEF RelatedWhole, TxOK
  <1>8. Shape' /\ NoneFound'
    BY <1>1, <1>3, Deleted, VacFields DEF Shape, NoneFound
  <1>9. Kept
    BY <1>3, <1>7 DEF Kept, RelatedWhole, Whole
  <1> QED
    BY <1>7, <1>8, <1>9 DEF IInv

(* What is kept leads only to what is kept.                                *)
LEMMA MarkedClosed ==
  ASSUME NEW left, NEW q \in relations,
         q \in Artifacts \X Artifacts,
         artifact[q[1]] = "present", artifact[q[2]] = "present",
         q[1] \in mark_to_keep(left) \/ q[1] \notin exp.expired
  PROVE  q[2] \in mark_to_keep(left)
  <1> DEFINE Present == {a \in Artifacts : artifact[a] = "present"}
             roots == {a \in Present : a \notin exp.expired \/ left[a] # "none"}
             Closed(K) == /\ roots \subseteq K
                          /\ \A r \in relations : r[1] \in K => r[2] \in K
  <1>1. mark_to_keep(left) =
          {a \in Present : \A K \in SUBSET Present : Closed(K) => a \in K}
    BY DEF mark_to_keep
  <1>2. q[1] \in Present /\ q[2] \in Present
    OBVIOUS
  <1>3. ASSUME NEW K \in SUBSET Present, Closed(K)
        PROVE  q[2] \in K
    <2>1. q[1] \in K
      BY <1>1, <1>2, <1>3
    <2> QED
      BY <1>3, <2>1
  <1> QED
    BY <1>1, <1>2, <1>3

(* mark_to_keep() keeps what is related to what it keeps.                  *)
LEMMA Swept ==
  ASSUME IInv, sweep
  PROVE  IInv' /\ Kept
  <1>1. /\ Shape /\ VacOK(vac) /\ \A p \in Procs : TxOK(tx[p])
        /\ \A q \in relations : Whole(q[1]) /\ Whole(q[2])
        /\ \A p \in Procs : tx[p].op = "idle"
    BY InvFacts DEF sweep, CanLockTables
  <1>2. UNCHANGED <<tx, vac>>
    BY DEF sweep
  <1>3. CASE UNCHANGED db
    BY <1>1, <1>2, <1>3, VacuumQuiet
  <1>4. ASSUME NEW left, NEW gone,
               gone = {a \in exp.expired : artifact[a] = "present"}
                        \ mark_to_keep(left),
               DeleteArtifacts(gone),
               relations' = {q \in relations : ~Touches(q, gone)}
        PROVE  IInv' /\ Kept
    <2>1. \A q \in relations' :
             q \in relations /\ q[1] \notin gone /\ q[2] \notin gone
      BY <1>4 DEF Touches
    <2>2. RelatedWhole'
      BY <1>1, <1>2, <1>4, <2>1, Deleted DEF RelatedWhole
    <2>3. Shape' /\ NoneFound'
      BY <1>1, <1>2, <1>4, <2>1, Deleted DEF Shape, NoneFound, VacOK
    <2>4. ASSUME NEW q \in relations, artifact'[q[1]] = "present"
          PROVE  artifact'[q[2]] = "present"
      <3>1. /\ q \in Artifacts \X Artifacts
            /\ artifact[q[1]] = "present" /\ artifact[q[2]] = "present"
        BY <1>1 DEF Whole, Shape
      <3>2. q[1] \notin gone
        BY <1>1, <1>4, <2>4, <3>1, Deleted
      <3>3. q[2] \in mark_to_keep(left)
        BY <1>4, <3>1, <3>2, MarkedClosed
      <3>4. q[2] \notin gone
        BY <1>4, <3>3
      <3> QED
        BY <1>4, <3>1, <3>4 DEF DeleteArtifacts
    <2> QED
      BY <2>2, <2>3, <2>4 DEF IInv, Kept
  <1> QED
    BY <1>3, <1>4 DEF sweep

-----------------------------------------------------------------------------
(* Initially there are no artifacts.                                       *)
LEMMA InitIInv == Init => IInv
  <1> SUFFICES ASSUME Init PROVE IInv
    OBVIOUS
  <1>1. Shape
    BY TxFields, VacFields DEF Init, Shape
  <1>2. RelatedWhole /\ NoneFound
    BY TxFields, VacFields DEF Init, RelatedWhole, NoneFound
  <1> QED
    BY <1>1, <1>2 DEF IInv

(* Every step keeps the invariant and the targets of relations.            *)
LEMMA StepKeeps == IInv /\ [Next]_vars => IInv' /\ Kept
  <1> SUFFICES ASSUME IInv, [Next]_vars
               PROVE  IInv' /\ Kept
    OBVIOUS
  <1>1. VacOK(vac)
    BY InvFacts
  <1>2. ASSUME NEW p \in Procs, Request(p)
        PROVE  IInv' /\ Kept
    BY <1>2, Requests, Uploads, RollsBack, Commits DEF Request
  <1>3. CASE Vacuum
    <2>1. CASE find_incomplete \/ delete_incomplete
      BY <2>1, OtherVacuum, IncompleteDeleted
    <2>2. CASE ~(find_incomplete \/ delete_incomplete)
      BY <1>1, <1>3, <2>2, VacuumSteps, ScopeSteps, FileSteps, VacuumQuiet
         DEF Vacuum
    <2> QED
      BY <2>1, <2>2
  <1>4. CASE vacuum
    BY <1>1, <1>4, VacuumSteps, VacuumQuiet
  <1>5. CASE Expire
    BY <1>5, Swept, FilesDeleted, OtherSteps DEF Expire
  <1>6. CASE UNCHANGED vars
    BY <1>1, <1>6, VacuumQuiet DEF vars
  <1> QED
    BY <1>2, <1>3, <1>4, <1>5, <1>6, OtherVacuum, OtherSteps DEF Next

(* For every set of artifacts, relations of any shape and length, any      *)
(* number of processes that die, and both daily jobs at once: a step that  *)
(* leaves an artifact leaves the targets of its relations.  _mark_to_keep()*)
(* follows chains to their end, and what _delete_incomplete_old_artifacts()*)
(* deletes is never related to anything.                                   *)
THEOREM TargetsOutlive == Spec => TargetsKept
  <1>1. IInv /\ [Next]_vars =>
           [\A q \in relations :
               artifact'[q[1]] = "present" => artifact'[q[2]] = "present"]_vars
    BY StepKeeps DEF Kept
  <1>2. IInv /\ [Next]_vars => IInv'
    BY StepKeeps
  <1> QED
    BY <1>1, <1>2, InitIInv, PTL DEF Spec, TargetsKept

-----------------------------------------------------------------------------
(* Type correctness.  The size of a store is a sum over its files.  The sum *)
(* is a recursive function over the sets of files; that there is one, and  *)
(* that its values are numbers, follows from the least number of files for *)
(* which it would be otherwise.                                            *)

(* A set of numbers that is not empty has a least one.                     *)
LEMMA LeastNumber ==
  ASSUME NEW N \in SUBSET Nat, N # {}
  PROVE  \E n \in N : \A k \in N : n <= k
  <1> DEFINE R == OpToRel(<, Nat)
  <1>1. PICK n \in N : \A k \in N : ~(<<k, n>> \in R)
    BY NatLessThanWellFounded, WFMin
  <1>2. \A k \in Nat : k < n => <<k, n>> \in R
    BY Zenon DEF OpToRel
  <1>3. \A k \in N : ~(k < n)
    BY <1>1, <1>2, Zenon
  <1> QED
    BY <1>3

(* What the sum of the sizes of s is, given those of its subsets.          *)
Pick(s) == CHOOSE f \in s : TRUE
Sum(sum, s) == IF s = {} THEN 0 ELSE Size[Pick(s)] + sum[s \ {Pick(s)}]

LEMMA SumUnfolds ==
  ASSUME NEW S
  PROVE  MapThenSumSet(LAMBDA f : Size[f], S)
           = (CHOOSE sum : sum = [s \in SUBSET S |-> Sum(sum, s)])[S]
  BY DEF MapThenSumSet, MapThenFoldSet, Sum, Pick

(* A sum over subsets of size n follows from that over smaller ones, so    *)
(* that there is one over all of them.                                     *)
LEMMA SumExists ==
  ASSUME NEW S \in SUBSET Files, IsFiniteSet(S), Size \in [Files -> Nat]
  PROVE  \E sum : sum = [s \in SUBSET S |-> Sum(sum, s)]
  <1> DEFINE Upto(n, sum) ==
               \A s \in SUBSET S : Cardinality(s) <= n => sum[s] = Sum(sum, s)
             Found(n) == \E sum : sum = [s \in SUBSET S |-> sum[s]] /\ Upto(n, sum)
             N == {n \in Nat : ~Found(n)}
  <1>1. \A s \in SUBSET S : IsFiniteSet(s) /\ Cardinality(s) \in Nat
    BY FS_Subset, FS_CardinalityType
  <1>2. Found(0)
    <2> DEFINE zero == [s \in SUBSET S |-> 0]
    <2>1. ASSUME NEW s \in SUBSET S, Cardinality(s) <= 0
          PROVE  zero[s] = Sum(zero, s)
      <3>1. s = {}
        BY <1>1, <2>1, FS_EmptySet
      <3> QED
        BY <3>1 DEF Sum
    <2>2. zero = [s \in SUBSET S |-> zero[s]]
      OBVIOUS
    <2> HIDE DEF zero
    <2> QED
      BY <2>1, <2>2
  <1>3. ASSUME NEW n \in Nat, Found(n)
        PROVE  Found(n + 1)
    <2>1. PICK sum : sum = [s \in SUBSET S |-> sum[s]] /\ Upto(n, sum)
      BY <1>3
    <2> DEFINE next == [s \in SUBSET S |-> Sum(sum, s)]
    <2>2. ASSUME NEW s \in SUBSET S, Cardinality(s) <= n + 1
          PROVE  Sum(sum, s) = Sum(next, s)
      <3>1. CASE s = {}
        BY <3>1 DEF Sum
      <3>2. CASE s # {}
        <4> DEFINE left == s \ {Pick(s)}
        <4>1. Pick(s) \in s
          BY <3>2 DEF Pick
        <4>2. left \in SUBSET S /\ Cardinality(left) <= n
          BY <1>1, <2>2, <4>1, FS_RemoveElement
        <4>3. sum[left] = next[left]
          BY <2>1, <4>2
        <4> QED
          BY <3>2, <4>3 DEF Sum
      <3> QED
        BY <3>1, <3>2
    <2>3. Upto(n + 1, next)
      BY <2>2
    <2>4. next = [s \in SUBSET S |-> next[s]]
      OBVIOUS
    <2> HIDE DEF next, Upto
    <2> QED
      BY <2>3, <2>4
  <1>4. N = {}
    <2> SUFFICES ASSUME N # {} PROVE FALSE
      OBVIOUS
    <2>1. N \in SUBSET Nat
      OBVIOUS
    <2> HIDE DEF N, Found
    <2>2. PICK n \in N : \A k \in N : n <= k
      BY <2>1, LeastNumber
    <2>3. n \in Nat /\ ~Found(n) /\ \A k \in Nat : ~Found(k) => n <= k
      BY <2>2 DEF N
    <2>4. n # 0
      BY <1>2, <2>3
    <2>5. n - 1 \in Nat /\ Found(n - 1)
      BY <2>3, <2>4
    <2> QED
      BY <1>3, <2>3, <2>5
  <1>5. Cardinality(S) \in Nat
    BY <1>1
  <1>6. PICK sum : sum = [s \in SUBSET S |-> sum[s]] /\ Upto(Cardinality(S), sum)
    BY <1>4, <1>5
  <1>7. \A s \in SUBSET S : sum[s] = Sum(sum, s)
    BY <1>6, FS_Subset
  <1> QED
    BY <1>6, <1>7

(* The sizes of files add up to a number.                                  *)
LEMMA SumType ==
  ASSUME NEW S \in SUBSET Files, IsFiniteSet(S), Size \in [Files -> Nat]
  PROVE  MapThenSumSet(LAMBDA f : Size[f], S) \in Nat
  <1> DEFINE sum == CHOOSE g : g = [s \in SUBSET S |-> Sum(g, s)]
             N == {n \in Nat : \E s \in SUBSET S :
                                  Cardinality(s) = n /\ sum[s] \notin Nat}
  <1>1. sum = [s \in SUBSET S |-> Sum(sum, s)]
    BY SumExists
  <1>2. \A s \in SUBSET S : IsFiniteSet(s) /\ Cardinality(s) \in Nat
    BY FS_Subset, FS_CardinalityType
  <1> HIDE DEF sum
  <1>3. N = {}
    <2> SUFFICES ASSUME N # {} PROVE FALSE
      OBVIOUS
    <2>1. PICK n \in N : \A k \in N : n <= k
      BY LeastNumber
    <2>2. PICK s \in SUBSET S : Cardinality(s) = n /\ sum[s] \notin Nat
      OBVIOUS
    <2>3. sum[s] = Sum(sum, s)
      BY <1>1
    <2>4. s # {}
      BY <2>2, <2>3 DEF Sum
    <2> DEFINE left == s \ {Pick(s)}
    <2>5. Pick(s) \in s
      BY <2>4 DEF Pick
    <2>6. left \in SUBSET S /\ Cardinality(left) = n - 1 /\ n \in Nat
      BY <1>2, <2>2, <2>5, FS_RemoveElement
    <2>7. Cardinality(left) \in Nat
      BY <1>2, <2>6
    <2>8. sum[left] \in Nat
      BY <2>1, <2>6, <2>7
    <2>9. Size[Pick(s)] \in Nat
      BY <2>5
    <2> QED
      BY <2>2, <2>3, <2>4, <2>8, <2>9 DEF Sum
  <1>4. Cardinality(S) \in Nat /\ S \in SUBSET S
    BY <1>2
  <1>5. sum[S] \in Nat
    BY <1>3, <1>4
  <1> QED
    BY <1>5, SumUnfolds DEF sum

Writing == {"post", "put", "local", "copy"}
Policies == {"populate", "drain", "limit"}

(* The stores that a scope downloads from, those that have a limit, and    *)
(* those that a scope takes files away from.                               *)
Read(c) == {s \in DOMAIN Policy[c] : ~Policy[c][s].write_only}
Limited(s) == max_size[s] # None \/ soft_max_size[s] # None
Movable(c, s) == Policy[c][s].drain \/ Limited(s)

(* A request has the artifacts that it needs, and one that is about to add *)
(* a file does so to a store that its scope downloads from.                *)
Request_OK(t) ==
    /\ t \in Tx
    /\ t.op \in Writing \cup {"relate"} => t.art \in Artifacts
    /\ t.op \in {"copy", "relate"} => t.target \in Artifacts
    /\ t.todo # {} \/ t.file # None => t.op \in Writing
    /\ t.file # None => t.store \in Read(Scope(t.art))
    /\ t.op = "idle" => t.adds = {}

(* The vacuum job goes through the stores of a scope, and moves files only *)
(* away from those that it drains or that have a limit.                    *)
Phase(v) == IF v.pc = "commit" THEN v.back ELSE v.pc
Vacuum_OK(v) ==
    /\ v \in Vac
    /\ v.pc = "commit" => v.back \in Policies
    /\ v.pc # "commit" => v.adds = {} /\ v.dels = {}
    /\ v.pc \in {"sweep_db", "sweep_remove"} => v.store \in Stores
    /\ Phase(v) \in Policies =>
          /\ v.scope \in Scopes /\ v.stores \subseteq DOMAIN Policy[v.scope]
          /\ v.files # {} => v.store \in DOMAIN Policy[v.scope]
    /\ Phase(v) \in {"drain", "limit"} =>
          /\ \A s \in v.stores : Movable(v.scope, s)
          /\ v.files # {} => Movable(v.scope, v.store)

Typed == TypeOK /\ (\A p \in Procs : Request_OK(tx[p])) /\ Vacuum_OK(vac)

(* Scopes have policies for stores.                                        *)
LEMMA Configured ==
  /\ \A c \in Scopes : DOMAIN Policy[c] \subseteq Stores /\ Read(c) \subseteq Stores
  /\ \A a \in Artifacts : Scope(a) \in Scopes /\ FilesOf[a] \subseteq Files
  /\ \A s \in Stores : /\ max_size[s] \in Nat \cup {None}
                       /\ soft_max_size[s] \in Nat \cup {None}
  /\ None \notin Nat \cup Stores \cup Files \cup Artifacts \cup Scopes
  BY FileStoresAssumption DEF Read, Scope

(* The size of a store is a number, and so is what it has too much.        *)
LEMMA ExcessType ==
  ASSUME NEW s \in Stores
  PROVE  Excess(s) \in Nat /\ (Excess(s) > 0 => Limited(s))
  <1> DEFINE held == {f \in Files : <<s, f>> \in in_store}
             total == total_size(in_store, s)
             limits == {soft_max_size[s], max_size[s]} \ {None}
             over == {0} \cup {total - l : l \in limits}
  <1>1. total \in Nat
    <2>1. held \in SUBSET Files /\ IsFiniteSet(held)
      BY FileStoresAssumption, FS_Subset
    <2> HIDE DEF held
    <2>2. MapThenSumSet(LAMBDA f : Size[f], held) \in Nat
      BY <2>1, FileStoresAssumption, SumType
    <2> QED
      BY <2>2 DEF total_size, held
  <1>2. limits \subseteq Nat
    BY Configured
  <1> HIDE DEF total
  <1>3. \E x \in over : \A y \in over : x >= y
    <2> DEFINE a == soft_max_size[s]
               b == max_size[s]
    <2>1. a \in Nat \cup {None} /\ b \in Nat \cup {None} /\ None \notin Nat
      BY Configured
    <2>2. \A y \in over : \/ y = 0
                          \/ a # None /\ y = total - a
                          \/ b # None /\ y = total - b
      OBVIOUS
    <2>3. /\ 0 \in over /\ (a # None => total - a \in over)
          /\ b # None => total - b \in over
      OBVIOUS
    <2> HIDE DEF over, a, b
    <2> DEFINE x == IF a = None THEN 0 ELSE IF total - a > 0 THEN total - a ELSE 0
               z == IF b = None THEN x ELSE IF total - b > x THEN total - b ELSE x
    <2>4. z \in over /\ \A y \in over : z >= y
      BY <1>1, <2>1, <2>2, <2>3
    <2> QED
      BY <2>4
  <1>4. Excess(s) = CHOOSE x \in over : \A y \in over : x >= y
    BY DEF Excess, Max, total
  <1> HIDE DEF over
  <1>5. Excess(s) \in over /\ \A y \in over : Excess(s) >= y
    BY <1>3, <1>4
  <1>6. over \subseteq Int /\ 0 \in over
    <2>1. \A l \in limits : total - l \in Int
      BY <1>1, <1>2
    <2> HIDE DEF limits
    <2> QED
      BY <2>1 DEF over
  <1>7. Excess(s) \in Nat
    <2>1. Excess(s) \in Int /\ Excess(s) >= 0
      BY <1>5, <1>6
    <2> HIDE DEF over, total
    <2> QED
      BY <2>1
  <1>8. ASSUME Excess(s) > 0
        PROVE  Limited(s)
    <2>1. limits # {}
      BY <1>5, <1>8 DEF over
    <2> QED
      BY <2>1 DEF Limited
  <1> QED
    BY <1>7, <1>8

(* The parts of the type invariant.                                        *)
Contents == [Stores -> [Files -> {"none", "new", "old"}]]
LEMMA TypedFacts ==
  ASSUME Typed
  PROVE  /\ in_store \subseteq Stores \X Files /\ content \in Contents
         /\ tx \in [Procs -> Tx] /\ \A p \in Procs : Request_OK(tx[p])
         /\ vac \in Vac /\ Vacuum_OK(vac) /\ exp \in Exp
  BY DEF Typed, TypeOK, Contents

(* A step of the vacuum job alone.                                         *)
LEMMA VacuumTyped ==
  ASSUME Typed, Vacuum_OK(vac'), content' \in Contents,
         UNCHANGED <<in_store, db, time, tx, exp, crashes>>
  PROVE  Typed'
  <1>1. TypeOK'
    BY DEF Typed, TypeOK, Vacuum_OK, Contents, db, time
  <1>2. \A p \in Procs : Request_OK(tx'[p])
    BY DEF Typed
  <1> QED
    BY <1>1, <1>2 DEF Typed

LEMMA VacStepTyped ==
  ASSUME Typed, NEW new, Vacuum_OK(new), VacStep(new)
  PROVE  Typed'
  BY VacuumTyped, TypedFacts DEF VacStep, VacKeep

(* An idle job.                                                            *)
LEMMA VacIdleTyped == Vacuum_OK(VacIdle) /\ VacIdle \in Vac
  <1>1. VacIdle \in Vac
    BY Configured DEF VacIdle, Vac, VacPCs
  <1>2. VacIdle.pc = "idle" /\ VacIdle.adds = {} /\ VacIdle.dels = {}
    BY DEF VacIdle
  <1> QED
    BY <1>1, <1>2 DEF Vacuum_OK, Phase, Policies

(* The sweep of the stores.                                                *)
LEMMA SweepTyped ==
  ASSUME Typed, vacuum \/ sweep_list \/ sweep_db \/ sweep_remove
  PROVE  Typed'
  <1> USE DEF Phase, Policies
  <1>1. CASE vacuum
    <2> DEFINE new == [VacIdle EXCEPT !.pc = "sweep_list", !.stores = Stores]
    <2>1. new \in Vac
      BY VacIdleTyped DEF Vac, VacPCs
    <2>2. new.pc = "sweep_list" /\ new.adds = {} /\ new.dels = {}
      BY DEF VacIdle
    <2> HIDE DEF new
    <2>3. Vacuum_OK(new)
      BY <2>1, <2>2 DEF Vacuum_OK
    <2>4. VacStep(new)
      BY <1>1 DEF vacuum, new
    <2> QED
      BY <2>3, <2>4, VacStepTyped
  <1>2. CASE sweep_list
    <2>1. /\ vac \in Vac /\ vac.pc = "sweep_list" /\ vac.adds = {} /\ vac.dels = {}
          /\ vac.stores \subseteq Stores
      BY <1>2, TypedFacts DEF sweep_list, Vacuum_OK, Vac
    <2>2. CASE vac.stores = {}
      <3> DEFINE new == [vac EXCEPT !.pc = "scope", !.store = None, !.scopes = Scopes]
      <3>1. new \in Vac
        <4>1. "scope" \in VacPCs
          BY DEF VacPCs
        <4> QED
          BY <2>1, <4>1 DEF Vac
      <3>2. new.pc = "scope" /\ new.adds = {} /\ new.dels = {}
        BY <2>1 DEF Vac
      <3> HIDE DEF new
      <3>3. Vacuum_OK(new)
        BY <3>1, <3>2 DEF Vacuum_OK
      <3>4. VacStep(new)
        BY <1>2, <2>2 DEF sweep_list, new
      <3> QED
        BY <3>3, <3>4, VacStepTyped
    <2>3. ASSUME NEW s \in vac.stores, NEW files \in SUBSET Files,
                 VacStep([vac EXCEPT !.pc = "sweep_db", !.store = s, !.files = files])
          PROVE  Typed'
      <3> DEFINE new == [vac EXCEPT !.pc = "sweep_db", !.store = s, !.files = files]
      <3>1. new \in Vac
        <4>1. "sweep_db" \in VacPCs
          BY DEF VacPCs
        <4> QED
          BY <2>1, <4>1 DEF Vac
      <3>2. new.pc = "sweep_db" /\ new.adds = {} /\ new.dels = {} /\ new.store = s
        BY <2>1 DEF Vac
      <3>3. VacStep(new)
        BY <2>3
      <3> HIDE DEF new
      <3>4. Vacuum_OK(new)
        BY <2>1, <3>1, <3>2 DEF Vacuum_OK
      <3> QED
        BY <3>3, <3>4, VacStepTyped
    <2>4. CASE vac.stores # {}
      <3>1. PICK s \in vac.stores :
               VacStep([vac EXCEPT !.pc = "sweep_db", !.store = s,
                          !.files = {f \in Files : content[s][f] = "old"}])
        BY <1>2, <2>4 DEF sweep_list
      <3> DEFINE files == {f \in Files : content[s][f] = "old"}
      <3>2. files \in SUBSET Files
        OBVIOUS
      <3>3. VacStep([vac EXCEPT !.pc = "sweep_db", !.store = s, !.files = files])
        BY <3>1
      <3> HIDE DEF files
      <3> QED
        BY <2>3, <3>2, <3>3
    <2> QED
      BY <2>2, <2>4
  <1>3. CASE sweep_db
    <2> DEFINE files == {f \in vac.files : <<vac.store, f>> \notin in_store}
               new == [vac EXCEPT !.pc = "sweep_remove",
                         !.stores = vac.stores \ {vac.store}, !.files = files]
    <2>1. /\ vac \in Vac /\ vac.pc = "sweep_db" /\ vac.adds = {} /\ vac.dels = {}
          /\ vac.store \in Stores /\ vac.stores \subseteq Stores
          /\ vac.files \subseteq Files
      BY <1>3, TypedFacts DEF sweep_db, Vacuum_OK, Vac
    <2>2. files \in SUBSET Files
      BY <2>1
    <2>3. VacStep(new)
      BY <1>3 DEF sweep_db
    <2> HIDE DEF files
    <2>4. /\ new \in Vac /\ new.pc = "sweep_remove"
          /\ new.adds = {} /\ new.dels = {} /\ new.store = vac.store
      BY <2>1, <2>2 DEF Vac, VacPCs
    <2> HIDE DEF new
    <2>5. Vacuum_OK(new)
      BY <2>1, <2>4 DEF Vacuum_OK
    <2> QED
      BY <2>3, <2>5, VacStepTyped
  <1>4. CASE sweep_remove
    <2>1. /\ vac \in Vac /\ vac.pc = "sweep_remove" /\ vac.adds = {} /\ vac.dels = {}
          /\ vac.store \in Stores /\ vac.files \subseteq Files
      BY <1>4, TypedFacts DEF sweep_remove, Vacuum_OK, Vac
    <2>2. CASE vac.files = {}
      <3> DEFINE new == [vac EXCEPT !.pc = "sweep_list"]
      <3>1. /\ new \in Vac /\ new.pc = "sweep_list" /\ new.adds = {} /\ new.dels = {}
        BY <2>1 DEF VacPCs, Vac
      <3>2. VacStep(new)
        BY <1>4, <2>2 DEF sweep_remove
      <3> HIDE DEF new
      <3>3. Vacuum_OK(new)
        BY <3>1 DEF Vacuum_OK
      <3> QED
        BY <3>2, <3>3, VacStepTyped
    <2>3. CASE vac.files # {}
      <3>1. PICK f \in vac.files :
               /\ content' = [content EXCEPT ![vac.store][f] = "none"]
               /\ vac' = [vac EXCEPT !.files = @ \ {f}]
               /\ UNCHANGED VacKeep
        BY <1>4, <2>3 DEF sweep_remove
      <3>2. content' \in Contents
        BY <2>1, <3>1, TypedFacts DEF Contents
      <3>3. /\ vac' \in Vac /\ vac'.pc = "sweep_remove" /\ vac'.adds = {}
            /\ vac'.dels = {} /\ vac'.store = vac.store
        BY <2>1, <3>1 DEF Vac
      <3>4. Vacuum_OK(vac')
        BY <2>1, <3>3 DEF Vacuum_OK
      <3> QED
        BY <3>1, <3>2, <3>4, VacuumTyped DEF VacKeep
    <2> QED
      BY <2>2, <2>3
  <1> QED
    BY <1>1, <1>2, <1>3, <1>4

(* The vacuum job goes to the next scope.                                  *)
LEMMA ScopeTyped ==
  ASSUME Typed, next_scope
  PROVE  Typed'
  <1> USE DEF Phase, Policies
  <1>1. /\ vac \in Vac /\ vac.pc = "scope" /\ vac.adds = {} /\ vac.dels = {}
        /\ vac.scopes \subseteq Scopes
    BY TypedFacts DEF next_scope, Vacuum_OK, Vac
  <1>2. CASE vac.scopes = {}
    <2> DEFINE new == [vac EXCEPT !.pc = "incomplete", !.scope = None]
    <2>1. /\ new \in Vac /\ new.pc = "incomplete" /\ new.adds = {} /\ new.dels = {}
      BY <1>1 DEF Vac, VacPCs
    <2>2. VacStep(new)
      BY <1>2 DEF next_scope
    <2> HIDE DEF new
    <2>3. Vacuum_OK(new)
      BY <2>1 DEF Vacuum_OK
    <2> QED
      BY <2>2, <2>3, VacStepTyped
  <1>3. CASE vac.scopes # {}
    <2>1. PICK c \in vac.scopes :
             VacStep([vac EXCEPT !.pc = "populate", !.scope = c,
                        !.scopes = @ \ {c}, !.store = None, !.files = {},
                        !.stores = PolicyStores(c, LAMBDA q : q.populate)])
      BY <1>3 DEF next_scope, PolicyStores
    <2> DEFINE st == PolicyStores(c, LAMBDA q : q.populate)
               new == [vac EXCEPT !.pc = "populate", !.scope = c,
                         !.scopes = vac.scopes \ {c}, !.store = None,
                         !.files = {}, !.stores = st]
    <2>2. st \subseteq DOMAIN Policy[c] /\ st \subseteq Stores /\ c \in Scopes
      BY <1>1, Configured DEF PolicyStores
    <2>3. VacStep(new)
      BY <2>1 DEF PolicyStores
    <2> HIDE DEF st
    <2>4. /\ new \in Vac /\ new.pc = "populate" /\ new.adds = {} /\ new.dels = {}
          /\ new.scope = c /\ new.stores = st /\ new.files = {}
      <3>1. new \in Vac
        <4>1. "populate" \in VacPCs
          BY DEF VacPCs
        <4> QED
          BY <1>1, <2>2, <4>1 DEF Vac
      <3>2. new.pc = "populate" /\ new.adds = {} /\ new.dels = {}
        BY <1>1 DEF Vac
      <3>3. new.scope = c /\ new.stores = st /\ new.files = {}
        BY <1>1 DEF Vac
      <3> QED
        BY <3>1, <3>2, <3>3
    <2> HIDE DEF new
    <2>5. Vacuum_OK(new)
      BY <2>2, <2>4 DEF Vacuum_OK
    <2> QED
      BY <2>3, <2>5, VacStepTyped
  <1> QED
    BY <1>2, <1>3

(* The next store, with the files to move from it or to it.                *)
LEMMA StoreTyped ==
  ASSUME Typed, NEW pc \in Policies, next_store(pc, vac.scope)
  PROVE  Typed'
  <1>1. /\ vac \in Vac /\ Vacuum_OK(vac) /\ vac.pc = pc
        /\ vac.adds = {} /\ vac.dels = {}
    BY TypedFacts DEF next_store, Vacuum_OK, Policies
  <1>2. /\ vac.scope \in Scopes /\ vac.stores \subseteq DOMAIN Policy[vac.scope]
        /\ pc \in {"drain", "limit"} => \A s \in vac.stores : Movable(vac.scope, s)
        /\ vac.stores \subseteq Stores
    BY <1>1, Configured DEF Vacuum_OK, Phase, Policies
  <1>3. PICK s \in vac.stores :
           VacStep([vac EXCEPT !.stores = @ \ {s}, !.store = s,
             !.files = {f \in FilesIn(vac.scope) :
                          (<<s, f>> \in in_store) <=> (pc # "populate")},
             !.source = [f \in Files |->
                IF pc # "populate" \/ Sources(s, f) = {} THEN None
                ELSE CHOOSE r \in Sources(s, f) : TRUE],
             !.left = IF pc = "limit" THEN vac.excess[s] ELSE 0])
    BY DEF next_store
  <1> DEFINE files == {f \in FilesIn(vac.scope) :
                         (<<s, f>> \in in_store) <=> (pc # "populate")}
             source == [f \in Files |->
                IF pc # "populate" \/ Sources(s, f) = {} THEN None
                ELSE CHOOSE r \in Sources(s, f) : TRUE]
             left == IF pc = "limit" THEN vac.excess[s] ELSE 0
             st == vac.stores \ {s}
             new == [vac EXCEPT !.stores = st, !.store = s, !.files = files,
                                !.source = source, !.left = left]
  <1>4. files \subseteq Files /\ left \in Int /\ st \subseteq vac.stores
    BY <1>1, <1>2 DEF FilesIn, Vac
  <1>5. source \in [Files -> Stores \cup {None}]
    BY DEF Sources
  <1>6. VacStep(new)
    BY <1>3
  <1> HIDE DEF files, source, left, st
  <1>7. /\ new \in Vac /\ new.pc = pc /\ new.adds = {} /\ new.dels = {}
        /\ new.scope = vac.scope /\ new.stores = st /\ new.store = s
    BY <1>1, <1>2, <1>4, <1>5 DEF Vac
  <1> HIDE DEF new
  <1>8. Vacuum_OK(new)
    BY <1>2, <1>4, <1>7 DEF Vacuum_OK, Phase, Policies
  <1> QED
    BY <1>6, <1>8, VacStepTyped

(* The next policy: what is drained, and what has too much.                *)
LEMMA PolicyTyped ==
  ASSUME Typed, NEW pc \in Policies, next_policy(pc)
  PROVE  Typed'
  <1> USE DEF Phase, Policies
  <1>1. /\ vac \in Vac /\ vac.pc = pc /\ vac.files = {} /\ vac.scope \in Scopes
        /\ vac.adds = {} /\ vac.dels = {}
    BY TypedFacts DEF next_policy, Vacuum_OK
  <1>2. DOMAIN Policy[vac.scope] \subseteq Stores
    BY <1>1, Configured
  <1>3. CASE pc = "populate"
    <2> DEFINE st == PolicyStores(vac.scope, LAMBDA q : q.drain)
               new == [vac EXCEPT !.pc = "drain", !.source = VacIdle.source,
                                  !.stores = st]
    <2>1. VacStep(new)
      BY <1>3 DEF next_policy, PolicyStores
    <2>2. /\ st \subseteq DOMAIN Policy[vac.scope]
          /\ \A s \in st : Movable(vac.scope, s)
      BY DEF PolicyStores, Movable
    <2> HIDE DEF st
    <2>3. VacIdle.source \in [Files -> Stores \cup {None}]
      BY DEF VacIdle
    <2>4. /\ new \in Vac /\ new.pc = "drain" /\ new.adds = {} /\ new.dels = {}
          /\ new.scope = vac.scope /\ new.stores = st /\ new.files = {}
      <3>1. new \in Vac
        <4>1. "drain" \in VacPCs
          BY DEF VacPCs
        <4> QED
          BY <1>1, <1>2, <2>2, <2>3, <4>1 DEF Vac
      <3>2. new.pc = "drain" /\ new.adds = {} /\ new.dels = {}
        BY <1>1 DEF Vac
      <3>3. new.scope = vac.scope /\ new.stores = st /\ new.files = {}
        BY <1>1, <1>2 DEF Vac
      <3> QED
        BY <3>1, <3>2, <3>3
    <2> HIDE DEF new
    <2>5. Vacuum_OK(new)
      BY <1>1, <2>2, <2>4 DEF Vacuum_OK
    <2> QED
      BY <2>1, <2>5, VacStepTyped
  <1>4. CASE pc = "drain"
    <2> DEFINE st == {s \in DOMAIN Policy[vac.scope] : Excess(s) > 0}
               excess == [s \in Stores |-> Excess(s)]
               new == [vac EXCEPT !.pc = "limit", !.excess = excess, !.stores = st]
    <2>1. VacStep(new)
      BY <1>4 DEF next_policy
    <2>2. /\ st \subseteq DOMAIN Policy[vac.scope] /\ excess \in [Stores -> Nat]
          /\ \A s \in st : Movable(vac.scope, s)
      BY <1>2, ExcessType DEF Movable
    <2> HIDE DEF st, excess
    <2>3. /\ new \in Vac /\ new.pc = "limit" /\ new.adds = {} /\ new.dels = {}
          /\ new.scope = vac.scope /\ new.stores = st /\ new.files = {}
      <3>1. new \in Vac
        <4>1. "limit" \in VacPCs
          BY DEF VacPCs
        <4> QED
          BY <1>1, <1>2, <2>2, <4>1 DEF Vac
      <3>2. new.pc = "limit" /\ new.adds = {} /\ new.dels = {}
        BY <1>1 DEF Vac
      <3>3. new.scope = vac.scope /\ new.stores = st /\ new.files = {}
        BY <1>1, <1>2 DEF Vac
      <3> QED
        BY <3>1, <3>2, <3>3
    <2> HIDE DEF new
    <2>4. Vacuum_OK(new)
      BY <1>1, <2>2, <2>3 DEF Vacuum_OK
    <2> QED
      BY <2>1, <2>4, VacStepTyped
  <1>5. CASE pc = "limit"
    <2> DEFINE none == VacIdle.excess
               zero == 0
               new == [vac EXCEPT !.pc = "scope", !.left = zero, !.excess = none]
    <2>1. VacStep(new)
      BY <1>5 DEF next_policy
    <2>2. none \in [Stores -> Nat] /\ zero \in Int
      BY DEF VacIdle
    <2> HIDE DEF none, zero
    <2>3. /\ new \in Vac /\ new.pc = "scope" /\ new.adds = {} /\ new.dels = {}
      BY <1>1, <2>2 DEF Vac, VacPCs
    <2> HIDE DEF new
    <2>4. Vacuum_OK(new)
      BY <2>3 DEF Vacuum_OK
    <2> QED
      BY <2>1, <2>4, VacStepTyped
  <1> QED
    BY <1>3, <1>4, <1>5

(* A file is moved, or not.                                                *)
LEMMA MoveTyped ==
  ASSUME Typed, vac.pc \in Policies, NEW f \in Files,
         NEW adds \in SUBSET (Stores \X Files), NEW dels \in SUBSET (Stores \X Files),
         NEW new, new \in {[vac EXCEPT !.files = vac.files \ {f}], Drained(f)},
         f \in vac.files, Move(f, adds, dels, new)
  PROVE  Typed'
  <1> USE DEF Phase, Policies
  <1>1. /\ vac \in Vac /\ Vacuum_OK(vac) /\ Size[f] \in Nat
        /\ vac.files \subseteq Files /\ vac.left \in Int
    BY TypedFacts, FileStoresAssumption DEF Vac
  <1>2. PICK left, files :
           /\ left \in Int /\ files \subseteq vac.files
           /\ new = [vac EXCEPT !.left = left, !.files = files]
    <2>1. CASE new = [vac EXCEPT !.files = vac.files \ {f}]
      <3>1. new = [vac EXCEPT !.left = vac.left, !.files = vac.files \ {f}]
        BY <1>1, <2>1 DEF Vac
      <3> QED
        BY <1>1, <3>1
    <2>2. CASE new = Drained(f)
      <3> DEFINE left == vac.left - Size[f]
                 l == IF vac.pc = "limit" THEN left ELSE vac.left
                 files == IF vac.pc = "limit" /\ left <= 0 THEN {}
                          ELSE vac.files \ {f}
      <3>1. new = [vac EXCEPT !.left = l, !.files = files]
        BY <2>2 DEF Drained
      <3>2. l \in Int /\ files \subseteq vac.files
        BY <1>1
      <3> QED
        BY <3>1, <3>2
    <2> QED
      BY <2>1, <2>2
  <1>3. vac' = [vac EXCEPT !.left = left, !.files = files, !.pc = "commit",
                           !.back = vac.pc, !.adds = adds, !.dels = dels]
    BY <1>2 DEF Move
  <1>4. /\ vac' \in Vac /\ vac'.pc = "commit" /\ vac'.back = vac.pc
        /\ vac'.scope = vac.scope /\ vac'.stores = vac.stores
        /\ vac'.store = vac.store /\ vac'.files = files
    <2>1. vac' \in Vac
      <3>1. vac.pc \in VacPCs /\ "commit" \in VacPCs
        BY <1>1 DEF Vac, VacPCs
      <3>2. files \in SUBSET Files /\ left \in Int
        BY <1>1, <1>2
      <3> QED
        BY <1>1, <1>3, <3>1, <3>2 DEF Vac
    <2>2. /\ vac'.pc = "commit" /\ vac'.back = vac.pc /\ vac'.scope = vac.scope
          /\ vac'.stores = vac.stores
      BY <1>1, <1>3 DEF Vac
    <2>3. vac'.store = vac.store /\ vac'.files = files
      BY <1>1, <1>3 DEF Vac
    <2> QED
      BY <2>1, <2>2, <2>3
  <1>5. Vacuum_OK(vac')
    BY <1>1, <1>2, <1>4 DEF Vacuum_OK
  <1>6. content' \in Contents
    <2>1. content \in Contents
      BY TypedFacts
    <2> QED
      BY <2>1 DEF Move, Contents
  <1> QED
    BY <1>5, <1>6, VacuumTyped DEF Move, VacKeep

(* The job leaves a file, or those that are left.                          *)
LEMMA SkipTyped ==
  ASSUME Typed, vac.pc \in Policies, NEW files \in SUBSET vac.files,
         VacStep([vac EXCEPT !.files = files])
  PROVE  Typed'
  <1> DEFINE new == [vac EXCEPT !.files = files]
  <1>1. vac \in Vac /\ Vacuum_OK(vac)
    BY TypedFacts
  <1>2. /\ new \in Vac /\ new.pc = vac.pc /\ new.back = vac.back
        /\ new.adds = vac.adds /\ new.dels = vac.dels /\ new.scope = vac.scope
        /\ new.stores = vac.stores /\ new.store = vac.store /\ new.files = files
    BY <1>1 DEF Vac
  <1>3. VacStep(new)
    OBVIOUS
  <1> HIDE DEF new
  <1>4. Vacuum_OK(new)
    BY <1>1, <1>2 DEF Vacuum_OK, Phase, Policies
  <1> QED
    BY <1>3, <1>4, VacStepTyped

(* Files are copied to the stores that are populated, and taken away from  *)
(* those that are drained.                                                 *)
LEMMA FileTyped ==
  ASSUME Typed, NEW f \in Files, populate_file(f) \/ drain_file(f)
  PROVE  Typed'
  <1>1. /\ vac.pc \in Policies /\ f \in vac.files /\ vac \in Vac
    BY TypedFacts DEF populate_file, drain_file, Policies
  <1>2. /\ vac.store \in Stores /\ vac.scope \in Scopes
        /\ DOMAIN Policy[vac.scope] \subseteq Stores
    BY <1>1, TypedFacts, Configured DEF Vacuum_OK, Phase, Policies
  <1> DEFINE s == vac.store
             rest == [vac EXCEPT !.files = vac.files \ {f}]
  <1>3. Skip(f) => Typed'
    BY <1>1, SkipTyped DEF Skip
  <1>4. VacStep([vac EXCEPT !.files = {}]) => Typed'
    BY <1>1, SkipTyped
  <1>5. \A r \in Stores : Move(f, {<<r, f>>} \ in_store, {<<s, f>>}, Drained(f))
                            => Typed'
    BY <1>1, <1>2, MoveTyped
  <1>6. Move(f, {}, {<<s, f>>} \cap in_store, Drained(f)) => Typed'
    BY <1>1, <1>2, MoveTyped
  <1>7. Move(f, {<<s, f>>} \ in_store, {}, rest) => Typed'
    BY <1>1, <1>2, MoveTyped
  <1>8. CASE populate_file(f)
    BY <1>3, <1>4, <1>7, <1>8 DEF populate_file
  <1>9. CASE drain_file(f)
    <2>1. DrainTargets(vac.scope, s, f) \subseteq Stores
      BY <1>2 DEF DrainTargets, First, upload_file_stores
    <2> QED
      BY <1>3, <1>5, <1>6, <1>9, <2>1 DEF drain_file
  <1> QED
    BY <1>8, <1>9

(* The job commits what it has moved, dies, or looks for artifacts.        *)
LEMMA JobTyped ==
  ASSUME Typed, vacuum_commit \/ vacuum_killed \/ find_incomplete
  PROVE  Typed'
  <1> USE DEF Phase, Policies
  <1>1. vac \in Vac /\ Vacuum_OK(vac)
    BY TypedFacts
  <1>2. CASE vacuum_commit
    <2>1. vac' = [vac EXCEPT !.pc = vac.back, !.back = "idle", !.adds = {}, !.dels = {}]
      BY <1>2 DEF vacuum_commit
    <2>2. vac.pc = "commit" /\ vac.back \in Policies
      BY <1>1, <1>2 DEF vacuum_commit, Vacuum_OK
    <2>3. /\ vac' \in Vac /\ vac'.pc = vac.back /\ vac'.adds = {} /\ vac'.dels = {}
          /\ vac'.scope = vac.scope /\ vac'.stores = vac.stores
          /\ vac'.store = vac.store /\ vac'.files = vac.files
      BY <1>1, <2>1, <2>2 DEF Vac, VacPCs
    <2>4. Vacuum_OK(vac')
      BY <1>1, <2>2, <2>3 DEF Vacuum_OK
    <2>5. in_store' \subseteq Stores \X Files
      BY <1>1, <1>2, TypedFacts DEF vacuum_commit, Vac
    <2>6. TypeOK'
      BY <1>2, <2>3, <2>5 DEF vacuum_commit, Typed, TypeOK, db, time
    <2> QED
      BY <1>2, <2>4, <2>6 DEF vacuum_commit, Typed
  <1>3. CASE vacuum_killed
    <2>1. crashes' \in 0 .. MaxCrashes
      BY <1>3, FileStoresAssumption DEF vacuum_killed, Typed, TypeOK
    <2>2. TypeOK'
      BY <1>3, <2>1, VacIdleTyped DEF vacuum_killed, Typed, TypeOK, db, time
    <2> QED
      BY <1>3, <2>2, VacIdleTyped DEF vacuum_killed, Typed
  <1>4. CASE find_incomplete
    <2> DEFINE old == {a \in Artifacts : /\ artifact[a] = "present" /\ age[a] >= 1
                                         /\ ~Complete(a) /\ items[a] = "none"}
               rels == {q \in relations : Touches(q, old)}
               new == [VacIdle EXCEPT !.pc = "delete_incomplete", !.arts = old,
                                      !.rels = rels]
    <2>1. VacStep(VacIdle) \/ VacStep(new)
      BY <1>4 DEF find_incomplete
    <2>2. old \subseteq Artifacts /\ rels \subseteq Artifacts \X Artifacts
      BY DEF Typed, TypeOK
    <2> HIDE DEF old, rels
    <2>3. new \in Vac
      BY <2>2, VacIdleTyped DEF Vac, VacPCs
    <2>4. new.pc = "delete_incomplete" /\ new.adds = {} /\ new.dels = {}
      BY DEF VacIdle
    <2> HIDE DEF new
    <2>5. Vacuum_OK(new)
      BY <2>3, <2>4 DEF Vacuum_OK
    <2> QED
      BY <2>1, <2>5, VacIdleTyped, VacStepTyped
  <1> QED
    BY <1>2, <1>3, <1>4

(* A step of the transaction of p, which does not commit.                  *)
LEMMA TxTyped ==
  ASSUME Typed, NEW p \in Procs, NEW new, Request_OK(new),
         tx' = [tx EXCEPT ![p] = new], content' \in Contents,
         crashes' \in 0 .. MaxCrashes,
         UNCHANGED <<in_store, db, time, vac, exp>>
  PROVE  Typed'
  <1>1. tx' \in [Procs -> Tx] /\ \A q \in Procs : Request_OK(tx'[q])
    BY TypedFacts DEF Request_OK
  <1> QED
    BY <1>1 DEF Typed, TypeOK, Contents, db, time

(* An idle process.                                                        *)
LEMMA IdleTyped == Request_OK(Idle) /\ Idle \in Tx
  <1>1. Idle \in Tx
    BY Configured DEF Idle, Tx, Ops
  <1>2. Idle.op = "idle" /\ Idle.todo = {} /\ Idle.file = None /\ Idle.adds = {}
    BY DEF Idle
  <1> QED
    BY <1>1, <1>2 DEF Request_OK, Writing

(* A transaction begins.                                                   *)
LEMMA BeginTyped ==
  ASSUME Typed, NEW p \in Procs, NEW new, Request_OK(new), Begin(p, new)
  PROVE  Typed'
  <1>1. content \in Contents /\ crashes \in 0 .. MaxCrashes
    BY DEF Typed, TypeOK, Contents
  <1> QED
    BY <1>1, TxTyped DEF Begin

(* What requests begin with.                                               *)
LEMMA NewRequests ==
  ASSUME NEW a \in Artifacts, NEW b \in Artifacts,
         NEW todo \in SUBSET Files, NEW done \in SUBSET Files
  PROVE  /\ \A op \in {"post", "put", "local"} :
               /\ Request_OK([Idle EXCEPT !.op = op, !.art = a, !.todo = todo])
               /\ Request_OK([Idle EXCEPT !.op = op, !.art = a, !.todo = todo,
                                          !.done = done])
         /\ Request_OK([Idle EXCEPT !.op = "copy", !.art = a, !.target = b,
                                    !.todo = todo])
         /\ Request_OK([Idle EXCEPT !.op = "relate", !.art = a, !.target = b])
  <1>1. ASSUME NEW t \in Tx, t.op \in Writing \cup {"relate"}, t.art \in Artifacts,
               t.op \in {"copy", "relate"} => t.target \in Artifacts,
               t.file = None, t.op = "relate" => t.todo = {}
        PROVE  Request_OK(t)
    <2>1. t.op # "idle" /\ (t.op # "relate" => t.op \in Writing)
      BY <1>1 DEF Writing
    <2> QED
      BY <1>1, <2>1 DEF Request_OK
  <1>2. ASSUME NEW op \in {"post", "put", "local"}
        PROVE  /\ Request_OK([Idle EXCEPT !.op = op, !.art = a, !.todo = todo])
               /\ Request_OK([Idle EXCEPT !.op = op, !.art = a, !.todo = todo,
                                          !.done = done])
    <2> DEFINE t == [Idle EXCEPT !.op = op, !.art = a, !.todo = todo]
               u == [Idle EXCEPT !.op = op, !.art = a, !.todo = todo, !.done = done]
    <2>1. op \in Ops /\ op \in Writing /\ op \notin {"copy", "relate"}
      BY DEF Ops, Writing
    <2>2. t \in Tx
      BY <2>1, IdleTyped DEF Tx
    <2>3. u \in Tx
      BY <2>1, IdleTyped DEF Tx
    <2>4. t.op = op /\ t.art = a /\ t.file = None
      BY DEF Idle
    <2>5. u.op = op /\ u.art = a /\ u.file = None
      BY DEF Idle
    <2> HIDE DEF t, u
    <2>6. Request_OK(t) /\ Request_OK(u)
      BY <1>1, <2>1, <2>2, <2>3, <2>4, <2>5
    <2> QED
      BY <2>6 DEF t, u
  <1>3. Request_OK([Idle EXCEPT !.op = "copy", !.art = a, !.target = b, !.todo = todo])
    <2> DEFINE t == [Idle EXCEPT !.op = "copy", !.art = a, !.target = b, !.todo = todo]
    <2>1. "copy" \in Ops /\ "copy" \in Writing
      BY DEF Ops, Writing
    <2>2. t \in Tx
      BY <2>1, IdleTyped DEF Tx
    <2>3. t.op = "copy" /\ t.art = a /\ t.target = b /\ t.file = None
      BY DEF Idle
    <2> HIDE DEF t
    <2>4. Request_OK(t)
      BY <1>1, <2>1, <2>2, <2>3
    <2> QED
      BY <2>4 DEF t
  <1>4. Request_OK([Idle EXCEPT !.op = "relate", !.art = a, !.target = b])
    <2> DEFINE t == [Idle EXCEPT !.op = "relate", !.art = a, !.target = b]
    <2>1. t \in Tx
      BY IdleTyped DEF Tx, Ops
    <2>2. t.op = "relate" /\ t.art = a /\ t.target = b
      BY DEF Idle
    <2>3. t.todo = {} /\ t.file = None
      BY DEF Idle
    <2> HIDE DEF t
    <2>4. Request_OK(t)
      BY <1>1, <2>1, <2>2, <2>3
    <2> QED
      BY <2>4 DEF t
  <1> QED
    BY <1>2, <1>3, <1>4

(* The requests, and the tasks of the server, before they add a file.      *)
LEMMA RequestTyped ==
  ASSUME Typed, NEW p \in Procs, NEW a \in Artifacts,
         \/ post(p, a) \/ create_from_local_artifact(p, a)
         \/ \E f \in Files : put(p, a, f)
         \/ \E b \in Artifacts : copy_artifact(p, a, b) \/ perform_create(p, a, b)
  PROVE  Typed'
  <1>1. FilesOf[a] \subseteq Files /\ {} \subseteq Files
    BY Configured
  <1>2. CASE post(p, a)
    <2> DEFINE needed == {f \in FilesOf[a] : file_needs_upload(WorkspaceOf[a], f)}
               todo == needed \cap Empty
               done == FilesOf[a] \ needed
    <2>1. Begin(p, [Idle EXCEPT !.op = "post", !.art = a, !.todo = todo,
                                !.done = done])
      BY <1>2 DEF post
    <2>2. todo \in SUBSET Files /\ done \in SUBSET Files
      BY <1>1
    <2> HIDE DEF todo, done
    <2> QED
      BY <2>1, <2>2, NewRequests, BeginTyped
  <1>3. CASE create_from_local_artifact(p, a)
    <2> DEFINE new == [Idle EXCEPT !.op = "local", !.art = a, !.todo = FilesOf[a]]
    <2>1. Begin(p, new)
      BY <1>3 DEF create_from_local_artifact
    <2>2. Request_OK(new)
      BY <1>1, NewRequests
    <2> HIDE DEF new
    <2> QED
      BY <2>1, <2>2, BeginTyped
  <1>4. ASSUME NEW f \in Files, put(p, a, f)
        PROVE  Typed'
    <2> DEFINE new == [Idle EXCEPT !.op = "put", !.art = a, !.todo = {f}]
    <2>1. Begin(p, new)
      BY <1>4 DEF put
    <2>2. Request_OK(new)
      <3>1. {f} \in SUBSET Files
        OBVIOUS
      <3> QED
        BY <3>1, NewRequests
    <2> HIDE DEF new
    <2> QED
      BY <2>1, <2>2, BeginTyped
  <1>5. ASSUME NEW b \in Artifacts, copy_artifact(p, a, b)
        PROVE  Typed'
    <2> DEFINE new == [Idle EXCEPT !.op = "copy", !.art = b, !.target = a,
                                   !.todo = FilesOf[a]]
    <2>1. Begin(p, new)
      BY <1>5 DEF copy_artifact
    <2>2. Request_OK(new)
      BY <1>1, NewRequests
    <2> HIDE DEF new
    <2> QED
      BY <2>1, <2>2, BeginTyped
  <1>6. ASSUME NEW b \in Artifacts, perform_create(p, a, b)
        PROVE  Typed'
    <2> DEFINE new == [Idle EXCEPT !.op = "relate", !.art = a, !.target = b]
    <2>1. Begin(p, new)
      BY <1>6 DEF perform_create
    <2>2. Request_OK(new)
      BY <1>1, NewRequests
    <2> HIDE DEF new
    <2> QED
      BY <2>1, <2>2, BeginTyped
  <1> QED
    BY <1>2, <1>3, <1>4, <1>5, <1>6

(* The store of the next file is chosen.                                   *)
LEMMA ChosenTyped ==
  ASSUME Typed, NEW p \in Procs, upload_file_backend(p)
  PROVE  Typed'
  <1> DEFINE t == tx[p]
             c == Scope(t.art)
             copied(f) == [t EXCEPT !.todo = @ \ {f}, !.done = @ \cup {f}]
             chosen(f, s) == [t EXCEPT !.file = f, !.store = s]
  <1>1. t \in Tx /\ Request_OK(t) /\ tx \in [Procs -> Tx]
    BY TypedFacts
  <1>2. PICK f \in t.todo :
           \/ tx' = [tx EXCEPT ![p].todo = @ \ {f}, ![p].done = @ \cup {f}]
           \/ \E s \in First(c, upload_file_stores(Sees(p), c, f, FALSE, FALSE)) :
                tx' = [tx EXCEPT ![p].file = f, ![p].store = s]
    BY Zenon DEF upload_file_backend
  <1>3. /\ t.op \in Writing /\ t.art \in Artifacts /\ f \in Files
        /\ t.file = None
    BY <1>1 DEF upload_file_backend, Request_OK, Tx
  <1>4. c \in Scopes /\ Read(c) \subseteq Stores
    BY <1>3, Configured
  <1>5. content \in Contents /\ crashes \in 0 .. MaxCrashes
    BY DEF Typed, TypeOK, Contents
  <1>6. CASE tx' = [tx EXCEPT ![p].todo = @ \ {f}, ![p].done = @ \cup {f}]
    <2>1. tx' = [tx EXCEPT ![p] = copied(f)]
      BY <1>1, <1>6
    <2>2. /\ copied(f) \in Tx /\ copied(f).op = t.op /\ copied(f).art = t.art
          /\ copied(f).target = t.target /\ copied(f).file = None
          /\ copied(f).adds = t.adds
      BY <1>1, <1>3 DEF Tx
    <2> HIDE DEF copied
    <2>3. Request_OK(copied(f))
      BY <1>1, <1>3, <2>2 DEF Request_OK
    <2> QED
      BY <1>5, <2>1, <2>3, TxTyped DEF upload_file_backend
  <1>7. ASSUME NEW s \in First(c, upload_file_stores(Sees(p), c, f, FALSE, FALSE)),
               tx' = [tx EXCEPT ![p].file = f, ![p].store = s]
        PROVE  Typed'
    <2>1. s \in Read(c)
      BY DEF First, upload_file_stores, Read
    <2>2. tx' = [tx EXCEPT ![p] = chosen(f, s)]
      BY <1>1, <1>7
    <2>3. /\ chosen(f, s) \in Tx /\ chosen(f, s).op = t.op
          /\ chosen(f, s).art = t.art /\ chosen(f, s).target = t.target
          /\ chosen(f, s).store = s /\ chosen(f, s).adds = t.adds
      BY <1>1, <1>3, <1>4, <2>1 DEF Tx
    <2> HIDE DEF chosen
    <2>4. Request_OK(chosen(f, s))
      BY <1>1, <1>3, <2>1, <2>3 DEF Request_OK
    <2> QED
      BY <1>5, <2>2, <2>4, TxTyped DEF upload_file_backend
  <1> QED
    BY <1>2, <1>6, <1>7

(* The file is added, the request fails, or the process dies.              *)
LEMMA AddTyped ==
  ASSUME Typed, NEW p \in Procs, add_file(p) \/ rolled_back(p) \/ killed(p)
  PROVE  Typed'
  <1>1. tx[p] \in Tx /\ Request_OK(tx[p]) /\ tx \in [Procs -> Tx]
    BY TypedFacts
  <1>2. content \in Contents /\ crashes \in 0 .. MaxCrashes
    BY DEF Typed, TypeOK, Contents
  <1>3. CASE add_file(p)
    <2> DEFINE t == tx[p]
               s == t.store
               f == t.file
               created == <<s, f>> \notin in_store
               adds == IF created THEN t.adds \cup {<<s, f>>} ELSE t.adds
               new == [t EXCEPT !.file = None, !.store = None,
                                !.todo = t.todo \ {f}, !.done = t.done \cup {f},
                                !.adds = adds]
    <2>1. /\ f # None /\ t.op \in Writing /\ t.art \in Artifacts
          /\ s \in Read(Scope(t.art))
      BY <1>1, <1>3 DEF add_file, Request_OK
    <2>2. s \in Stores /\ f \in Files
      BY <1>1, <2>1, Configured DEF Tx
    <2>3. tx' = [tx EXCEPT ![p] = new]
      BY <1>1, <1>3 DEF add_file
    <2>4. adds \subseteq Stores \X Files
      BY <1>1, <2>2 DEF Tx
    <2>5. content' \in Contents
      BY <1>2, <1>3, <2>2 DEF add_file, Contents
    <2> HIDE DEF adds
    <2>6. /\ new \in Tx /\ new.op = t.op /\ new.art = t.art
          /\ new.target = t.target /\ new.file = None
      BY <1>1, <2>2, <2>4 DEF Tx
    <2> HIDE DEF new
    <2>7. Request_OK(new)
      BY <1>1, <2>1, <2>6 DEF Request_OK, Writing
    <2> QED
      BY <1>2, <1>3, <2>3, <2>5, <2>7, TxTyped DEF add_file
  <1>4. CASE rolled_back(p)
    BY <1>2, <1>4, IdleTyped, TxTyped DEF rolled_back
  <1>5. CASE killed(p)
    <2>1. crashes' \in 0 .. MaxCrashes
      BY <1>2, <1>5, FileStoresAssumption DEF killed
    <2> QED
      BY <1>2, <1>5, <2>1, IdleTyped, TxTyped DEF killed
  <1> QED
    BY <1>3, <1>4, <1>5

(* The request commits.                                                    *)
LEMMA CommitTyped ==
  ASSUME Typed, NEW p \in Procs, commit(p)
  PROVE  Typed'
  <1> DEFINE t == tx[p]
             a == t.art
  <1>1. t \in Tx /\ Request_OK(t) /\ tx \in [Procs -> Tx]
    BY TypedFacts
  <1>2. t.op # "idle" => a \in Artifacts
    BY <1>1 DEF Request_OK, Tx, Ops, Writing
  <1>3. in_store' \subseteq Stores \X Files
    BY <1>1, TypedFacts DEF commit, Tx
  <1>4. /\ artifact' \in [Artifacts -> {"absent", "present", "deleted"}]
        /\ fia' \in [Artifacts -> [Files -> {"none", "incomplete", "complete"}]]
        /\ relations' \subseteq Artifacts \X Artifacts
    <2>1. /\ artifact \in [Artifacts -> {"absent", "present", "deleted"}]
          /\ fia \in [Artifacts -> [Files -> {"none", "incomplete", "complete"}]]
          /\ relations \subseteq Artifacts \X Artifacts
      BY DEF Typed, TypeOK
    <2>2. CASE t.op = "relate"
      <3>1. a \in Artifacts /\ t.target \in Artifacts
        BY <1>1, <2>2 DEF Request_OK
      <3> QED
        BY <2>1, <2>2, <3>1 DEF commit
    <2>3. CASE t.op # "relate"
      <3> DEFINE files == [f \in Files |->
                             IF f \in t.done THEN "complete"
                             ELSE IF f \in FilesOf[a] /\ fia[a][f] = "none"
                                  THEN "incomplete" ELSE fia[a][f]]
      <3>1. /\ artifact' = [artifact EXCEPT ![a] = "present"]
            /\ fia' = [fia EXCEPT ![a] = files] /\ UNCHANGED relations
        BY <2>3 DEF commit
      <3>2. a \in Artifacts
        BY <1>2 DEF commit
      <3>3. files \in [Files -> {"none", "incomplete", "complete"}]
        BY <2>1, <3>2
      <3> HIDE DEF files
      <3> QED
        BY <2>1, <3>1, <3>2, <3>3
    <2> QED
      BY <2>2, <2>3
  <1>5. tx' \in [Procs -> Tx] /\ \A q \in Procs : Request_OK(tx'[q])
    BY <1>1, TypedFacts, IdleTyped DEF commit
  <1> QED
    BY <1>3, <1>4, <1>5 DEF commit, Typed, TypeOK, time

(* Artifacts are deleted.                                                  *)
LEMMA DeletedTyped ==
  ASSUME Typed, NEW gone, DeleteArtifacts(gone)
  PROVE  /\ artifact' \in [Artifacts -> {"absent", "present", "deleted"}]
         /\ fia' \in [Artifacts -> [Files -> {"none", "incomplete", "complete"}]]
  BY DEF Typed, TypeOK, DeleteArtifacts

(* Those that are incomplete, by the vacuum job.                           *)
LEMMA IncompleteTyped ==
  ASSUME Typed, delete_incomplete
  PROVE  Typed'
  <1>1. \E gone : DeleteArtifacts(gone)
    BY DEF delete_incomplete
  <1>2. relations' \subseteq Artifacts \X Artifacts
    BY DEF delete_incomplete, Typed, TypeOK
  <1> QED
    BY <1>1, <1>2, DeletedTyped, VacIdleTyped
       DEF delete_incomplete, Typed, TypeOK, time

(* delete_expired, items, and days.                                        *)
LEMMA ExpireTyped ==
  ASSUME Typed,
         \/ \E d \in DryRuns : delete_expired(d)
         \/ sweep \/ delete_files \/ delete_files_commit \/ expire_gives_up
  PROVE  Typed'
  <1>1. exp \in Exp /\ ExpIdle \in Exp
    BY TypedFacts DEF Exp, ExpIdle
  <1>2. ASSUME NEW d \in DryRuns, delete_expired(d)
        PROVE  Typed'
    <2>1. exp' \in Exp
      BY <1>2, FileStoresAssumption DEF delete_expired, Exp
    <2> QED
      BY <1>2, <2>1 DEF delete_expired, Typed, TypeOK, db, time
  <1>3. CASE sweep
    <2>1. exp' \in Exp
      BY <1>1, <1>3 DEF sweep, Exp
    <2>2. /\ artifact' \in [Artifacts -> {"absent", "present", "deleted"}]
          /\ fia' \in [Artifacts -> [Files -> {"none", "incomplete", "complete"}]]
          /\ relations' \subseteq Artifacts \X Artifacts
          /\ items' \in [Artifacts -> {"none", "active", "removed"}]
      <3>1. CASE UNCHANGED db
        BY <3>1 DEF Typed, TypeOK, db
      <3>2. ASSUME NEW dropped, NEW gone, DeleteArtifacts(gone),
                   relations' = {q \in relations : ~Touches(q, gone)},
                   items' = [a \in Artifacts |-> IF a \in dropped THEN "none"
                                                 ELSE items[a]]
            PROVE  /\ artifact' \in [Artifacts -> {"absent", "present", "deleted"}]
                   /\ fia' \in [Artifacts ->
                                  [Files -> {"none", "incomplete", "complete"}]]
                   /\ relations' \subseteq Artifacts \X Artifacts
                   /\ items' \in [Artifacts -> {"none", "active", "removed"}]
        BY <3>2, DeletedTyped DEF Typed, TypeOK
      <3> QED
        BY <1>3, <3>1, <3>2 DEF sweep
    <2> QED
      BY <1>3, <2>1, <2>2 DEF sweep, Typed, TypeOK, time
  <1>4. CASE delete_files
    <2>1. exp' \in Exp
      BY <1>1, <1>4 DEF delete_files, Exp
    <2>2. content' \in Contents
      BY <1>4, TypedFacts DEF delete_files, Contents
    <2> QED
      BY <1>4, <2>1, <2>2 DEF delete_files, Typed, TypeOK, Contents, db, time
  <1>5. CASE delete_files_commit
    <2> DEFINE files == vac.files \ {q[2] : q \in Orphans}
    <2>1. vac \in Vac /\ Vacuum_OK(vac) /\ vac.files \subseteq Files
      BY TypedFacts DEF Vac
    <2>2. vac' = vac \/ vac' = [vac EXCEPT !.files = files]
      BY <1>5 DEF delete_files_commit
    <2>3. files \in SUBSET vac.files
      OBVIOUS
    <2> HIDE DEF files
    <2>4. ASSUME vac' = [vac EXCEPT !.files = files]
          PROVE  /\ vac' \in Vac /\ vac'.pc = vac.pc /\ vac'.back = vac.back
                 /\ vac'.adds = vac.adds /\ vac'.dels = vac.dels
                 /\ vac'.scope = vac.scope /\ vac'.stores = vac.stores
                 /\ vac'.store = vac.store /\ vac'.files = files
      BY <2>1, <2>3, <2>4 DEF Vac
    <2>5. Vacuum_OK(vac')
      BY <2>1, <2>2, <2>3, <2>4 DEF Vacuum_OK, Phase, Policies
    <2>6. vac' \in Vac
      BY <2>5 DEF Vacuum_OK
    <2>7. TypeOK'
      BY <1>1, <1>5, <2>6 DEF delete_files_commit, Typed, TypeOK, db, time
    <2> QED
      BY <1>5, <2>5, <2>7 DEF delete_files_commit, Typed
  <1>6. CASE expire_gives_up
    <2>1. crashes' \in 0 .. MaxCrashes
      BY <1>6, FileStoresAssumption DEF expire_gives_up, Typed, TypeOK
    <2> QED
      BY <1>1, <1>6, <2>1 DEF expire_gives_up, Typed, TypeOK, db, time
  <1> QED
    BY <1>2, <1>3, <1>4, <1>5, <1>6

(* Collection items, and days.                                             *)
LEMMA ElseTyped ==
  ASSUME Typed, \/ \E a \in Retained : add_item(a) \/ remove_item(a)
                \/ day
  PROVE  Typed'
  <1>1. ASSUME NEW a \in Retained, add_item(a) \/ remove_item(a)
        PROVE  Typed'
    BY <1>1 DEF add_item, remove_item, SetItem, Typed, TypeOK, time
  <1>2. CASE day
    <2>1. age' \in [Artifacts -> 0 .. 2] /\ days' \in 0 .. MaxDays
      BY <1>2, FileStoresAssumption DEF day, Typed, TypeOK
    <2>2. content' \in Contents
      BY <1>2, TypedFacts DEF day, Contents
    <2> QED
      BY <1>2, <2>1, <2>2 DEF day, Typed, TypeOK, Contents, db
  <1> QED
    BY <1>1, <1>2

(* At the start there are no transactions and no jobs.                     *)
LEMMA InitTyped == Init => Typed
  <1> SUFFICES ASSUME Init PROVE Typed
    OBVIOUS
  <1>1. TypeOK
    <2> DEFINE given == UNION {FilesOf[a] : a \in Given}
    <2>1. given \subseteq Files /\ GivenIn \in Stores
      BY FileStoresAssumption
    <2>2. /\ in_store = {GivenIn} \X given
          /\ content = [s \in Stores |-> [f \in Files |->
                          IF s = GivenIn /\ f \in given THEN "old" ELSE "none"]]
      BY DEF Init
    <2> HIDE DEF given
    <2>3. in_store \subseteq Stores \X Files /\ content \in Contents
      BY <2>1, <2>2 DEF Contents
    <2>4. tx \in [Procs -> Tx] /\ vac \in Vac /\ exp \in Exp
      BY IdleTyped, VacIdleTyped DEF Init, Exp, ExpIdle
    <2>5. /\ artifact \in [Artifacts -> {"absent", "present", "deleted"}]
          /\ fia \in [Artifacts -> [Files -> {"none", "incomplete", "complete"}]]
          /\ relations \subseteq Artifacts \X Artifacts
          /\ items \in [Artifacts -> {"none", "active", "removed"}]
          /\ age \in [Artifacts -> 0 .. 2]
      BY DEF Init
    <2>6. days \in 0 .. MaxDays /\ crashes \in 0 .. MaxCrashes
      BY FileStoresAssumption DEF Init
    <2> QED
      BY <2>3, <2>4, <2>5, <2>6 DEF TypeOK, Contents
  <1>2. \A p \in Procs : Request_OK(tx[p])
    BY IdleTyped DEF Init
  <1>3. Vacuum_OK(vac)
    BY VacIdleTyped DEF Init
  <1> QED
    BY <1>1, <1>2, <1>3 DEF Typed

(* Every step keeps the types.                                             *)
LEMMA StepTyped == Typed /\ [Next]_vars => Typed'
  <1> SUFFICES ASSUME Typed, [Next]_vars
               PROVE  Typed'
    OBVIOUS
  <1>1. ASSUME NEW p \in Procs, Request(p)
        PROVE  Typed'
    <2>1. CASE upload_file_backend(p) \/ add_file(p) \/ rolled_back(p)
                \/ commit(p) \/ killed(p)
      BY <2>1, ChosenTyped, AddTyped, CommitTyped
    <2>2. CASE ~(upload_file_backend(p) \/ add_file(p) \/ rolled_back(p)
                  \/ commit(p) \/ killed(p))
      BY <1>1, <2>2, RequestTyped DEF Request
    <2> QED
      BY <2>1, <2>2
  <1>2. CASE Vacuum
    BY <1>2, SweepTyped, ScopeTyped, StoreTyped, PolicyTyped, FileTyped,
       JobTyped, IncompleteTyped DEF Vacuum, Policies
  <1>3. CASE vacuum \/ vacuum_killed
    BY <1>3, SweepTyped, JobTyped
  <1>4. CASE UNCHANGED vars
    BY <1>4 DEF Typed, TypeOK, vars, db, time
  <1> QED
    BY <1>1, <1>2, <1>3, <1>4, ExpireTyped, ElseTyped DEF Next, Expire

(* Every variable keeps its type for any number of processes, scopes,      *)
(* stores, artifacts and finitely many files, also when daily jobs overlap *)
(* and processes die; and the vacuum job never has more to remove from a   *)
(* store than a natural number, the excess over its limits.                *)
THEOREM TypeCorrect == Spec => []TypeOK
  <1>1. Typed => TypeOK
    BY DEF Typed
  <1> QED
    BY <1>1, InitTyped, StepTyped, PTL DEF Spec

-----------------------------------------------------------------------------
(* Files that can be downloaded.                                           *)

(* Three things that take files away although nobody fails, and that the   *)
(* settings exclude: daily jobs that overlap; artifacts that are there at  *)
(* the start and that their scope does not download from the store they    *)
(* are in; and a store of two scopes that one of them drains, or that has  *)
(* a limit: _drain_file() asks only what the scope of the policy can       *)
(* download.                                                               *)
Settled ==
    /\ ~Overlap
    /\ \A a \in Given : GivenIn \in Read(Scope(a))
    /\ \A c, d \in Scopes : \A s \in DOMAIN Policy[c] \cap DOMAIN Policy[d] :
          c # d => ~Movable(c, s)

(* The rows as they will be when the vacuum job has committed, and those   *)
(* whose contents delete_expired has just removed.                         *)
Rows == (in_store \cup vac.adds) \ vac.dels
Doomed == IF exp.pc = "removing" THEN Orphans ELSE {}
Has(c, f) == \E s \in Read(c) : <<s, f>> \in Rows
Will_have(p, f) ==
    \E s \in Read(Scope(tx[p].art)) : <<s, f>> \in Rows \cup tx[p].adds

(* Nobody else writes rows of a store to which rows are added.             *)
Locked ==
    /\ \A p \in Procs : \A q \in tx[p].adds : q \notin in_store
    /\ \A p, r \in Procs : \A q \in tx[p].adds, k \in tx[r].adds :
          q[1] = k[1] => p = r
    /\ \A p \in Procs : \A q \in tx[p].adds, k \in vac.adds \cup vac.dels :
          q[1] # k[1]
    /\ \A q \in vac.adds : q \notin in_store

(* Rows have contents, and contents have rows.                             *)
Backed ==
    /\ \A q \in Rows \ Doomed : content[q[1]][q[2]] # "none"
    /\ \A p \in Procs : \A q \in tx[p].adds : content[q[1]][q[2]] = "new"
Clean ==
    \A s \in Stores, f \in Files : content[s][f] # "none" =>
       <<s, f>> \in Rows \ Doomed \/ \E p \in Procs : <<s, f>> \in tx[p].adds

(* The sweep therefore finds nothing to remove.                            *)
NothingSwept ==
    /\ vac.pc = "sweep_db" => \A f \in vac.files : <<vac.store, f>> \in in_store
    /\ vac.pc = "sweep_remove" => vac.files = {}

(* The daily jobs do not meet, and the one that locks tables is alone.     *)
Alone ==
    /\ vac.pc = "idle" \/ exp.pc = "idle"
    /\ exp.pc = "removing" => \A p \in Procs : tx[p].op = "idle"

(* What a scope can download it will be able to download when the vacuum   *)
(* job has committed; it can download all files that are complete, and     *)
(* those that a request has found or added.                                *)
Stored ==
    /\ \A c \in Scopes, f \in Files :
          (\E s \in Read(c) : <<s, f>> \in in_store) => Has(c, f)
    /\ \A a \in Artifacts, f \in Files : fia[a][f] = "complete" => Has(Scope(a), f)
    /\ \A p \in Procs : tx[p].op \in Writing =>
          \A f \in tx[p].done : Will_have(p, f)

Safe == /\ Typed /\ Locked /\ Backed /\ Clean /\ NothingSwept /\ Alone /\ Stored

(* What the tables and the stores say.                                     *)
Consistent == Locked /\ Backed /\ Clean /\ Stored

(* A step that changes neither rows nor contents.                          *)
LEMMA SameRows ==
  ASSUME Safe, UNCHANGED <<in_store, content, fia, tx>>,
         Rows' = Rows, Doomed' = Doomed,
         vac'.adds \subseteq vac.adds, vac'.dels \subseteq vac.dels
  PROVE  Consistent'
  <1>1. Rows' = Rows
    OBVIOUS
  <1>2. Locked'
    BY DEF Safe, Locked
  <1>3. Backed' /\ Clean'
    BY <1>1 DEF Safe, Backed, Clean
  <1>4. \A c, f : Has(c, f)' <=> Has(c, f)
    BY <1>1 DEF Has
  <1>5. \A p, f : Will_have(p, f)' <=> Will_have(p, f)
    BY <1>1 DEF Will_have
  <1>6. Stored'
    BY <1>4, <1>5 DEF Safe, Stored
  <1> QED
    BY <1>2, <1>3, <1>6 DEF Consistent

(* A step of the transaction of p that adds no row.                        *)
LEMMA SameAdds ==
  ASSUME Safe, NEW p \in Procs, NEW new, tx' = [tx EXCEPT ![p] = new],
         UNCHANGED <<in_store, content, fia, vac, exp>>,
         new.adds = tx[p].adds,
         new.op \in Writing =>
            \A f \in new.done : \E s \in Read(Scope(new.art)) :
               <<s, f>> \in Rows \cup new.adds
  PROVE  Consistent'
  <1>1. Rows' = Rows /\ Doomed' = Doomed
    BY DEF Rows, Doomed, Orphans
  <1>2. /\ tx'[p] = new
        /\ \A r \in Procs : tx'[r].adds = tx[r].adds /\ (r # p => tx'[r] = tx[r])
    BY TypedFacts DEF Safe
  <1>3. Locked'
    BY <1>2 DEF Safe, Locked
  <1>4. Backed' /\ Clean'
    BY <1>1, <1>2 DEF Safe, Backed, Clean
  <1>5. \A c, f : Has(c, f)' <=> Has(c, f)
    BY <1>1 DEF Has
  <1>6. \A r \in Procs : tx'[r].op \in Writing =>
           \A f \in tx'[r].done : Will_have(r, f)'
    BY <1>1, <1>2 DEF Will_have, Safe, Stored
  <1>7. Stored'
    BY <1>5, <1>6 DEF Safe, Stored
  <1> QED
    BY <1>3, <1>4, <1>7 DEF Consistent

(* Rows of a store that nobody has locked.                                 *)
LEMMA Unlocked ==
  ASSUME NEW S, StoreRowFree(S)
  PROVE  /\ \A p \in Procs : \A q \in tx[p].adds : q[1] \notin S
         /\ \A k \in vac.adds \cup vac.dels : k[1] \notin S
  BY DEF StoreRowFree

(* The parts of the invariant.                                             *)
LEMMA SafeFacts ==
  ASSUME Safe
  PROVE  /\ Typed /\ Locked /\ Backed /\ Clean /\ NothingSwept /\ Alone /\ Stored
         /\ vac \in Vac /\ Vacuum_OK(vac) /\ tx \in [Procs -> Tx]
         /\ \A p \in Procs : tx[p] \in Tx /\ Request_OK(tx[p])
  BY TypedFacts DEF Safe, Request_OK

(* The vacuum job goes on without moving anything.                         *)
LEMMA JobAside ==
  ASSUME Safe, UNCHANGED <<in_store, content, db, time, tx, exp, crashes>>,
         vac'.adds = vac.adds, vac'.dels = vac.dels, Typed',
         vac'.pc # "idle" => exp.pc = "idle", NothingSwept'
  PROVE  Safe'
  <1>1. Doomed' = Doomed
    BY DEF Doomed, Orphans, db
  <1>2. Consistent'
    BY <1>1, SameRows DEF db, Rows
  <1>3. Alone'
    BY DEF Safe, Alone
  <1> QED
    BY <1>2, <1>3 DEF Safe, Consistent

(* The sweep lists what is old, which has rows.                            *)
LEMMA SweepSafe ==
  ASSUME Settled, Safe, vacuum \/ sweep_list \/ sweep_db \/ sweep_remove
  PROVE  Safe'
  <1>1. Typed' /\ vac \in Vac /\ Vacuum_OK(vac)
    BY SafeFacts, SweepTyped
  <1>2. vac.pc # "commit" /\ vac.adds = {} /\ vac.dels = {}
    BY <1>1 DEF vacuum, sweep_list, sweep_db, sweep_remove, Vacuum_OK
  <1>3. CASE vacuum
    <2> DEFINE new == [VacIdle EXCEPT !.pc = "sweep_list", !.stores = Stores]
    <2>1. vac' = new /\ exp.pc = "idle"
      BY <1>3 DEF vacuum, VacStep, Settled
    <2>2. new.adds = {} /\ new.dels = {} /\ new.pc = "sweep_list"
      BY DEF VacIdle
    <2> HIDE DEF new
    <2> QED
      BY <1>1, <1>2, <1>3, <2>1, <2>2, JobAside
         DEF vacuum, VacStep, VacKeep, NothingSwept
  <1>4. ASSUME vac.pc # "idle"
        PROVE  exp.pc = "idle"
    BY <1>4 DEF Safe, Alone
  <1>5. CASE sweep_list
    <2>1. vac.pc = "sweep_list" /\ UNCHANGED <<content, VacKeep>>
      BY <1>5 DEF sweep_list, VacStep
    <2>2. CASE vac.stores = {}
      <3>1. vac' = [vac EXCEPT !.pc = "scope", !.store = None, !.scopes = Scopes]
        BY <1>5, <2>2 DEF sweep_list, VacStep
      <3>2. vac'.adds = {} /\ vac'.dels = {} /\ vac'.pc = "scope"
        BY <1>1, <1>2, <3>1 DEF Vac
      <3> QED
        BY <1>1, <1>2, <1>4, <2>1, <3>2, JobAside DEF VacKeep, NothingSwept
    <2>3. CASE vac.stores # {}
      <3>1. PICK s \in vac.stores :
               vac' = [vac EXCEPT !.pc = "sweep_db", !.store = s,
                          !.files = {f \in Files : content[s][f] = "old"}]
        BY <1>5, <2>3 DEF sweep_list, VacStep
      <3> DEFINE files == {f \in Files : content[s][f] = "old"}
      <3>2. ASSUME NEW f \in files
            PROVE  <<s, f>> \in in_store
        <4>1. s \in Stores /\ content[s][f] = "old"
          BY <1>1 DEF Vac
        <4>2. <<s, f>> \in Rows \/ \E p \in Procs : <<s, f>> \in tx[p].adds
          BY <4>1 DEF Safe, Clean
        <4>3. \A p \in Procs : <<s, f>> \notin tx[p].adds
          BY <4>1 DEF Safe, Backed
        <4> QED
          BY <1>2, <4>2, <4>3 DEF Rows
      <3>3. vac' = [vac EXCEPT !.pc = "sweep_db", !.store = s, !.files = files]
        BY <3>1
      <3> HIDE DEF files
      <3>4. /\ vac'.adds = {} /\ vac'.dels = {} /\ vac'.pc = "sweep_db"
            /\ vac'.store = s /\ vac'.files = files
        BY <1>1, <1>2, <3>3 DEF Vac
      <3>5. NothingSwept'
        BY <2>1, <3>2, <3>4 DEF NothingSwept, VacKeep
      <3> QED
        BY <1>1, <1>2, <1>4, <2>1, <3>4, <3>5, JobAside DEF VacKeep
    <2> QED
      BY <2>2, <2>3
  <1>6. CASE sweep_db
    <2> DEFINE files == {f \in vac.files : <<vac.store, f>> \notin in_store}
    <2>1. /\ vac.pc = "sweep_db" /\ UNCHANGED <<content, VacKeep>>
          /\ vac' = [vac EXCEPT !.pc = "sweep_remove",
                       !.stores = vac.stores \ {vac.store}, !.files = files]
      BY <1>6 DEF sweep_db, VacStep
    <2>2. files = {}
      BY <2>1 DEF Safe, NothingSwept
    <2> HIDE DEF files
    <2>3. /\ vac'.adds = {} /\ vac'.dels = {} /\ vac'.pc = "sweep_remove"
          /\ vac'.files = {}
      BY <1>1, <1>2, <2>1, <2>2 DEF Vac
    <2> QED
      BY <1>1, <1>2, <1>4, <2>1, <2>3, JobAside DEF VacKeep, NothingSwept
  <1>7. CASE sweep_remove
    <2>1. vac.pc = "sweep_remove" /\ vac.files = {}
      BY <1>7 DEF sweep_remove, Safe, NothingSwept
    <2>2. vac' = [vac EXCEPT !.pc = "sweep_list"] /\ UNCHANGED <<content, VacKeep>>
      BY <1>7, <2>1 DEF sweep_remove, VacStep
    <2>3. vac'.adds = {} /\ vac'.dels = {} /\ vac'.pc = "sweep_list"
      BY <1>1, <1>2, <2>2 DEF Vac
    <2> QED
      BY <1>1, <1>2, <1>4, <2>1, <2>2, <2>3, JobAside DEF VacKeep, NothingSwept
  <1> QED
    BY <1>3, <1>5, <1>6, <1>7

(* Another scope, store or policy.                                         *)
LEMMA ScopeSafe ==
  ASSUME Safe, \/ next_scope
               \/ \E pc \in Policies : next_store(pc, vac.scope) \/ next_policy(pc)
  PROVE  Safe'
  <1>1. Typed' /\ vac \in Vac /\ Vacuum_OK(vac)
    BY SafeFacts, ScopeTyped, StoreTyped, PolicyTyped
  <1>2. /\ vac.pc \in Policies \cup {"scope"} /\ vac.adds = {} /\ vac.dels = {}
        /\ UNCHANGED <<content, VacKeep>>
    BY <1>1 DEF next_scope, next_store, next_policy, Vacuum_OK, Policies, VacStep
  <1>3. exp.pc = "idle"
    BY <1>2 DEF Safe, Alone, Policies
  <1>4. /\ vac'.pc \in Policies \cup {"scope", "incomplete"}
        /\ vac'.adds = {} /\ vac'.dels = {}
    <2>1. CASE next_scope
      <3>1. CASE vac.scopes = {}
        <4>1. vac' = [vac EXCEPT !.pc = "incomplete", !.scope = None]
          BY <2>1, <3>1 DEF next_scope, VacStep
        <4>2. vac'.pc = "incomplete"
          BY <1>1, <4>1 DEF Vac
        <4>3. vac'.adds = vac.adds /\ vac'.dels = vac.dels
          BY <1>1, <4>1 DEF Vac
        <4> QED
          BY <1>2, <4>2, <4>3
      <3>2. CASE vac.scopes # {}
        <4>1. PICK c, st : vac' = [vac EXCEPT !.pc = "populate", !.scope = c,
                                     !.scopes = vac.scopes \ {c}, !.store = None,
                                     !.files = {}, !.stores = st]
          BY <2>1, <3>2 DEF next_scope, VacStep, PolicyStores
        <4>2. vac'.pc = "populate"
          BY <1>1, <4>1 DEF Vac
        <4>3. vac'.adds = vac.adds /\ vac'.dels = vac.dels
          BY <1>1, <4>1 DEF Vac
        <4> QED
          BY <1>2, <4>2, <4>3 DEF Policies
      <3> QED
        BY <3>1, <3>2
    <2>2. ASSUME NEW pc \in Policies, next_store(pc, vac.scope)
          PROVE  vac'.pc = vac.pc /\ vac'.adds = {} /\ vac'.dels = {}
      BY <1>1, <1>2, <2>2 DEF next_store, VacStep, Vac
    <2>3. ASSUME NEW pc \in Policies, next_policy(pc)
          PROVE  /\ vac'.pc \in {"drain", "limit", "scope"}
                 /\ vac'.adds = {} /\ vac'.dels = {}
      <3>1. CASE pc = "populate"
        <4>1. PICK st, source : vac' = [vac EXCEPT !.pc = "drain",
                                          !.source = source, !.stores = st]
          BY <2>3, <3>1 DEF next_policy, VacStep, PolicyStores
        <4> QED
          BY <1>1, <1>2, <4>1 DEF Vac
      <3>2. CASE pc = "drain"
        <4>1. PICK st, excess : vac' = [vac EXCEPT !.pc = "limit",
                                          !.excess = excess, !.stores = st]
          BY <2>3, <3>2 DEF next_policy, VacStep
        <4> QED
          BY <1>1, <1>2, <4>1 DEF Vac
      <3>3. CASE pc = "limit"
        <4>1. PICK left, excess : vac' = [vac EXCEPT !.pc = "scope",
                                            !.left = left, !.excess = excess]
          BY <2>3, <3>3 DEF next_policy, VacStep
        <4> QED
          BY <1>1, <1>2, <4>1 DEF Vac
      <3> QED
        BY <3>1, <3>2, <3>3 DEF Policies
    <2> QED
      BY <1>2, <2>1, <2>2, <2>3 DEF Policies
  <1> QED
    BY <1>1, <1>2, <1>3, <1>4, JobAside DEF VacKeep, NothingSwept, Policies

(* A file is added to stores and removed from others, and whoever could    *)
(* download it still can.                                                  *)
LEMMA MoveSafe ==
  ASSUME Safe, vac.pc \in Policies, NEW f \in Files,
         NEW adds \in SUBSET (Stores \X Files), NEW dels,
         \A q \in adds \cup dels : q[2] = f /\ q = <<q[1], q[2]>>,
         \A q \in adds : q \notin in_store /\ q \notin dels,
         \A c \in Scopes : (\E s \in Read(c) : <<s, f>> \in in_store) =>
            \E s \in Read(c) : <<s, f>> \in (in_store \cup adds) \ dels,
         NEW new, new \in {[vac EXCEPT !.files = vac.files \ {f}], Drained(f)},
         Move(f, adds, dels, new), Typed'
  PROVE  Safe'
  <1> DEFINE S == {q[1] : q \in adds \cup dels}
             after == (in_store \cup adds) \ dels
  <1>1. /\ vac \in Vac /\ vac.adds = {} /\ vac.dels = {} /\ exp.pc = "idle"
        /\ content \in Contents
    BY SafeFacts, TypedFacts DEF Vacuum_OK, Alone, Policies
  <1>2. Rows = in_store /\ Doomed = {}
    BY <1>1 DEF Rows, Doomed
  <1>3. vac'.pc = "commit" /\ vac'.adds = adds /\ vac'.dels = dels
    <2>1. PICK left, files : new = [vac EXCEPT !.left = left, !.files = files]
      <3>1. [vac EXCEPT !.files = vac.files \ {f}]
              = [vac EXCEPT !.left = vac.left, !.files = vac.files \ {f}]
        BY <1>1 DEF Vac
      <3> QED
        BY <3>1 DEF Drained
    <2> QED
      BY <1>1, <2>1 DEF Move, Vac
  <1>4. /\ UNCHANGED <<in_store, db, time, tx, exp, crashes>>
        /\ content' = [s \in Stores |-> [content[s] EXCEPT ![f] =
                         IF <<s, f>> \in adds THEN "new"
                         ELSE IF <<s, f>> \in dels THEN "none" ELSE @]]
    BY DEF Move, VacKeep
  <1>5. \A p \in Procs : \A q \in tx[p].adds : q[1] \notin S
    BY Unlocked DEF Move
  <1>6. Rows' = after /\ Doomed' = {}
    BY <1>1, <1>3, <1>4 DEF Rows, Doomed
  <1>7. \A s \in Stores, g \in Files :
           /\ <<s, g>> \in adds => content'[s][g] = "new"
           /\ <<s, g>> \notin adds /\ <<s, g>> \in dels => content'[s][g] = "none"
           /\ <<s, g>> \notin adds /\ <<s, g>> \notin dels =>
                content'[s][g] = content[s][g]
    BY <1>1, <1>4 DEF Contents
  <1>8. Locked'
    BY <1>3, <1>4, <1>5 DEF Safe, Locked
  <1>9. Backed'
    <2>1. ASSUME NEW q \in after
          PROVE  content'[q[1]][q[2]] # "none"
      <3>1. in_store \subseteq Stores \X Files
        BY SafeFacts, TypedFacts
      <3>2. q[1] \in Stores /\ q[2] \in Files /\ q = <<q[1], q[2]>>
        BY <3>1
      <3>3. q \in in_store => content[q[1]][q[2]] # "none"
        BY <1>2 DEF Safe, Backed
      <3> QED
        BY <1>7, <3>2, <3>3
    <2>2. ASSUME NEW p \in Procs, NEW q \in tx[p].adds
          PROVE  content'[q[1]][q[2]] = "new"
      <3>1. q[1] \in Stores /\ q[2] \in Files /\ q = <<q[1], q[2]>>
        BY SafeFacts DEF Tx
      <3>2. q \notin adds /\ q \notin dels
        BY <1>5
      <3>3. content[q[1]][q[2]] = "new"
        BY DEF Safe, Backed
      <3> QED
        BY <1>7, <3>1, <3>2, <3>3
    <2> QED
      BY <1>4, <1>6, <2>1, <2>2 DEF Backed
  <1>10. Clean'
    <2>1. ASSUME NEW s \in Stores, NEW g \in Files, content'[s][g] # "none"
          PROVE  <<s, g>> \in after \/ \E p \in Procs : <<s, g>> \in tx[p].adds
      <3>1. CASE <<s, g>> \in adds
        BY <3>1
      <3>2. CASE <<s, g>> \notin adds
        <4>1. <<s, g>> \notin dels /\ content[s][g] # "none"
          BY <1>7, <2>1, <3>2
        <4> QED
          BY <1>2, <4>1 DEF Safe, Clean
      <3> QED
        BY <3>1, <3>2
    <2> QED
      BY <1>4, <1>6, <2>1 DEF Clean
  <1>11. \A c \in Scopes, g \in Files :
            (\E s \in Read(c) : <<s, g>> \in in_store) =>
               \E s \in Read(c) : <<s, g>> \in after
    <2>1. ASSUME NEW g, g # f, NEW s, <<s, g>> \in in_store
          PROVE  <<s, g>> \in after
      BY <2>1
    <2> QED
      BY <2>1
  <1> HIDE DEF after
  <1>12. Stored'
    <2>1. \A c \in Scopes, g \in Files : Has(c, g) => Has(c, g)'
      BY <1>2, <1>6, <1>11 DEF Has
    <2>2. \A c \in Scopes, g \in Files :
             (\E s \in Read(c) : <<s, g>> \in in_store) => Has(c, g)'
      BY <1>6, <1>11 DEF Has
    <2>3. ASSUME NEW p \in Procs, tx[p].op \in Writing, NEW g \in tx[p].done
          PROVE  Will_have(p, g)'
      <3>1. g \in Files /\ Scope(tx[p].art) \in Scopes
        BY <2>3, SafeFacts, Configured DEF Request_OK, Tx
      <3>2. PICK s \in Read(Scope(tx[p].art)) :
               <<s, g>> \in in_store \cup tx[p].adds
        BY <1>2, <2>3 DEF Safe, Stored, Will_have
      <3>3. CASE <<s, g>> \in in_store
        BY <1>4, <1>6, <1>11, <3>1, <3>2, <3>3 DEF Will_have
      <3>4. CASE <<s, g>> \in tx[p].adds
        BY <1>4, <3>2, <3>4 DEF Will_have
      <3> QED
        BY <3>2, <3>3, <3>4
    <2>4. \A a \in Artifacts : Scope(a) \in Scopes
      BY Configured
    <2> QED
      BY <1>4, <2>1, <2>2, <2>3, <2>4 DEF Safe, Stored, db
  <1>13. NothingSwept' /\ Alone'
    BY <1>1, <1>3, <1>4 DEF NothingSwept, Alone
  <1> QED
    BY <1>8, <1>9, <1>10, <1>12, <1>13 DEF Safe

(* A file is left where it is.                                             *)
LEMMA SkipSafe ==
  ASSUME Safe, vac.pc \in Policies, NEW files,
         VacStep([vac EXCEPT !.files = files]), Typed'
  PROVE  Safe'
  <1>1. vac \in Vac /\ exp.pc = "idle"
    BY SafeFacts DEF Alone, Policies
  <1>2. vac'.pc = vac.pc /\ vac'.adds = vac.adds /\ vac'.dels = vac.dels
    BY <1>1 DEF VacStep, Vac
  <1> QED
    BY <1>1, <1>2, JobAside DEF VacStep, VacKeep, NothingSwept, Policies

(* Population and drain.                                                   *)
LEMMA FileSafe ==
  ASSUME Settled, Safe, NEW f \in Files, populate_file(f) \/ drain_file(f)
  PROVE  Safe'
  <1> DEFINE s == vac.store
             c == vac.scope
             rest == [vac EXCEPT !.files = vac.files \ {f}]
  <1>1. /\ vac.pc \in Policies /\ f \in vac.files /\ vac \in Vac
        /\ Vacuum_OK(vac) /\ Typed'
    BY SafeFacts, FileTyped DEF populate_file, drain_file, Policies
  <1>2. /\ s \in DOMAIN Policy[c] /\ c \in Scopes /\ s \in Stores
        /\ vac.pc \in {"drain", "limit"} => Movable(c, s)
        /\ vac.adds = {} /\ vac.dels = {}
    BY <1>1, Configured DEF Vacuum_OK, Phase, Policies
  <1>3. CASE populate_file(f)
    <2>1. ASSUME Move(f, {<<s, f>>} \ in_store, {}, rest)
          PROVE  Safe'
      <3> DEFINE adds == {<<s, f>>} \ in_store
      <3>1. /\ adds \in SUBSET (Stores \X Files)
            /\ \A q \in adds \cup {} : q[2] = f /\ q = <<q[1], q[2]>>
            /\ \A q \in adds : q \notin in_store /\ q \notin {}
            /\ \A d \in Scopes : (\E r \in Read(d) : <<r, f>> \in in_store) =>
                  \E r \in Read(d) : <<r, f>> \in (in_store \cup adds) \ {}
        BY <1>2
      <3>2. Move(f, adds, {}, rest)
        BY <2>1
      <3> HIDE DEF adds
      <3> QED
        BY <1>1, <3>1, <3>2, MoveSafe
    <2> QED
      BY <1>1, <1>3, <2>1, SkipSafe DEF populate_file, Skip
  <1>4. CASE drain_file(f)
    <2>1. vac.pc \in {"drain", "limit"} /\ Movable(c, s)
      BY <1>2, <1>4 DEF drain_file
    <2>2. ASSUME NEW d \in Scopes, NEW r \in Read(d), <<r, f>> \in in_store,
                 d # c
          PROVE  r # s
      BY <1>2, <2>1, <2>2 DEF Settled, Read
    <2>3. CASE download_file_stores(c, f) \ {s} # {}
      <3> DEFINE dels == {<<s, f>>} \cap in_store
      <3>1. Move(f, {}, dels, Drained(f))
        BY <1>4, <2>3 DEF drain_file
      <3>2. PICK r \in Read(c) : r # s /\ <<r, f>> \in in_store
        BY <2>3 DEF download_file_stores, Read
      <3>3. \A d \in Scopes : (\E k \in Read(d) : <<k, f>> \in in_store) =>
               \E k \in Read(d) : <<k, f>> \in (in_store \cup {}) \ dels
        BY <2>2, <3>2
      <3>4. /\ {} \in SUBSET (Stores \X Files)
            /\ \A q \in {} \cup dels : q[2] = f /\ q = <<q[1], q[2]>>
            /\ \A q \in {} : q \notin in_store /\ q \notin dels
        OBVIOUS
      <3> HIDE DEF dels
      <3> QED
        BY <1>1, <3>1, <3>3, <3>4, MoveSafe
    <2>4. CASE download_file_stores(c, f) \ {s} = {}
      <3>1. ASSUME NEW r \in DrainTargets(c, s, f),
                   Move(f, {<<r, f>>} \ in_store, {<<s, f>>}, Drained(f))
            PROVE  Safe'
        <4> DEFINE adds == {<<r, f>>} \ in_store
                   dels == {<<s, f>>}
        <4>1. r \in Read(c) /\ r # s /\ r \in Stores
          BY <1>2, Configured DEF DrainTargets, First, upload_file_stores, Read
        <4>2. <<r, f>> \in (in_store \cup adds) \ dels
          BY <4>1
        <4>3. \A d \in Scopes : (\E k \in Read(d) : <<k, f>> \in in_store) =>
                 \E k \in Read(d) : <<k, f>> \in (in_store \cup adds) \ dels
          BY <2>2, <4>1, <4>2
        <4>4. /\ adds \in SUBSET (Stores \X Files)
              /\ \A q \in adds \cup dels : q[2] = f /\ q = <<q[1], q[2]>>
              /\ \A q \in adds : q \notin in_store /\ q \notin dels
          BY <4>1
        <4>5. Move(f, adds, dels, Drained(f))
          BY <3>1
        <4> HIDE DEF adds, dels
        <4> QED
          BY <1>1, <4>3, <4>4, <4>5, MoveSafe
      <3> QED
        BY <1>1, <1>4, <2>4, <3>1, SkipSafe DEF drain_file, Skip
    <2> QED
      BY <2>3, <2>4
  <1> QED
    BY <1>3, <1>4

(* Whoever has written to a store commits: a request is not rolled back    *)
(* after it has added a row, and neither daily job dies while it commits.  *)
WritesLast ==
    /\ \A p \in Procs : tx[p].adds # {} /\ tx'[p] = Idle => tx[p].adds \subseteq in_store'
    /\ vac.pc = "commit" /\ vac'.pc # "commit" =>
          vac.adds \subseteq in_store' /\ vac.dels \cap in_store' = {}
    /\ exp.pc = "removing" /\ exp'.pc = "idle" => Orphans \cap in_store' = {}

(* The vacuum job commits.                                                 *)
LEMMA VacuumCommitSafe ==
  ASSUME Safe, vacuum_commit
  PROVE  Safe'
  <1>1. /\ Typed' /\ vac \in Vac /\ vac.pc = "commit" /\ vac.back \in Policies
        /\ exp.pc = "idle"
    BY SafeFacts, JobTyped DEF vacuum_commit, Vacuum_OK, Alone
  <1>2. /\ vac'.pc = vac.back /\ vac'.adds = {} /\ vac'.dels = {}
        /\ in_store' = Rows /\ UNCHANGED <<content, db, tx, exp>>
    BY <1>1 DEF vacuum_commit, Vac, Rows
  <1>3. Rows' = Rows /\ Doomed = {} /\ Doomed' = {}
    BY <1>1, <1>2 DEF Rows, Doomed
  <1>4. Locked'
    <2>1. \A p \in Procs : \A q \in tx[p].adds : q \notin Rows
      BY DEF Safe, Locked, Rows
    <2> QED
      BY <1>2, <2>1 DEF Safe, Locked
  <1>5. Backed' /\ Clean'
    BY <1>2, <1>3 DEF Safe, Backed, Clean
  <1>6. \A c, f : Has(c, f)' <=> Has(c, f)
    BY <1>3 DEF Has
  <1>7. \A p, f : Will_have(p, f)' <=> Will_have(p, f)
    BY <1>2, <1>3 DEF Will_have
  <1>8. \A c, f : (\E s \in Read(c) : <<s, f>> \in in_store') => Has(c, f)'
    BY <1>2, <1>3 DEF Has
  <1>9. Stored'
    BY <1>2, <1>6, <1>7, <1>8 DEF Safe, Stored, db
  <1>10. NothingSwept' /\ Alone'
    BY <1>1, <1>2 DEF NothingSwept, Alone, Policies
  <1> QED
    BY <1>1, <1>4, <1>5, <1>9, <1>10 DEF Safe

(* It dies, but not while it commits, or looks for incomplete artifacts.   *)
LEMMA JobSafe ==
  ASSUME Safe, vacuum_killed \/ find_incomplete, WritesLast
  PROVE  Safe'
  <1>1. Typed' /\ vac \in Vac /\ Vacuum_OK(vac)
    BY SafeFacts, JobTyped
  <1>2. VacIdle.pc = "idle" /\ VacIdle.adds = {} /\ VacIdle.dels = {}
    BY DEF VacIdle
  <1>3. CASE vacuum_killed
    <2>1. vac' = VacIdle /\ UNCHANGED <<in_store, content, db, time, tx, exp>>
      BY <1>3 DEF vacuum_killed
    <2>2. Rows' = Rows
      <3>1. CASE vac.pc # "commit"
        BY <1>1, <1>2, <2>1, <3>1 DEF Vacuum_OK, Rows
      <3>2. CASE vac.pc = "commit"
        <4>1. vac.adds \subseteq in_store /\ vac.dels \cap in_store = {}
          BY <1>2, <2>1, <3>2 DEF WritesLast
        <4> QED
          BY <1>2, <2>1, <4>1 DEF Rows
      <3> QED
        BY <3>1, <3>2
    <2>3. Doomed' = Doomed
      BY <2>1 DEF Doomed, Orphans, db
    <2>4. Consistent'
      BY <1>2, <2>1, <2>2, <2>3, SameRows DEF db
    <2>5. NothingSwept' /\ Alone'
      BY <1>2, <2>1 DEF NothingSwept, Alone, Safe
    <2> QED
      BY <1>1, <2>4, <2>5 DEF Safe, Consistent
  <1>4. CASE find_incomplete
    <2>1. /\ vac.pc = "incomplete" /\ vac.adds = {} /\ vac.dels = {}
          /\ UNCHANGED <<content, VacKeep>>
      BY <1>1, <1>4 DEF find_incomplete, Vacuum_OK, VacStep
    <2>2. PICK old, rels :
             vac' \in {VacIdle, [VacIdle EXCEPT !.pc = "delete_incomplete",
                                                !.arts = old, !.rels = rels]}
      BY <1>4 DEF find_incomplete, VacStep
    <2>3. /\ vac'.pc \in {"idle", "delete_incomplete"}
          /\ vac'.adds = {} /\ vac'.dels = {}
      BY <1>2, <2>2 DEF VacIdle
    <2> QED
      BY <1>1, <2>1, <2>3, JobAside DEF VacKeep, NothingSwept, Safe, Alone
  <1> QED
    BY <1>3, <1>4

(* A step of a request that adds no row.                                   *)
LEMMA TxSafe ==
  ASSUME Safe, NEW p \in Procs, NEW new, tx' = [tx EXCEPT ![p] = new],
         UNCHANGED <<in_store, content, fia, vac, exp>>, Typed',
         new.adds = tx[p].adds,
         new.op # "idle" => exp.pc # "removing",
         new.op \in Writing =>
            \A f \in new.done : \E s \in Read(Scope(new.art)) :
               <<s, f>> \in Rows \cup new.adds
  PROVE  Safe'
  <1>1. Consistent'
    BY SameAdds
  <1>2. Alone'
    BY SafeFacts DEF Alone
  <1>3. NothingSwept'
    BY DEF Safe, NothingSwept
  <1> QED
    BY <1>1, <1>2, <1>3 DEF Safe, Consistent

(* A request begins; it needs no upload of what can be downloaded.         *)
LEMMA BeginSafe ==
  ASSUME Safe, NEW p \in Procs, NEW new, Begin(p, new), Typed', new.adds = {},
         new.op \in Writing => \A f \in new.done : Has(Scope(new.art), f)
  PROVE  Safe'
  <1>1. /\ tx' = [tx EXCEPT ![p] = new] /\ tx[p].op = "idle"
        /\ UNCHANGED <<in_store, content, fia, vac, exp>> /\ exp.pc # "removing"
    BY DEF Begin, TablesFree, db
  <1>2. tx[p].adds = {}
    BY <1>1, SafeFacts DEF Request_OK
  <1>3. new.op \in Writing =>
           \A f \in new.done : \E s \in Read(Scope(new.art)) :
              <<s, f>> \in Rows \cup new.adds
    BY DEF Has
  <1> QED
    BY <1>1, <1>2, <1>3, TxSafe

(* Each kind of request begins.                                            *)
LEMMA RequestSafe ==
  ASSUME Safe, NEW p \in Procs, NEW a \in Artifacts,
         \/ post(p, a) \/ create_from_local_artifact(p, a)
         \/ \E f \in Files : put(p, a, f)
         \/ \E b \in Artifacts : copy_artifact(p, a, b) \/ perform_create(p, a, b)
  PROVE  Safe'
  <1>1. Typed'
    BY SafeFacts, RequestTyped
  <1>2. Idle.adds = {} /\ Idle.done = {}
    BY DEF Idle
  <1>3. CASE post(p, a)
    <2> DEFINE needed == {f \in FilesOf[a] : file_needs_upload(WorkspaceOf[a], f)}
               new == [Idle EXCEPT !.op = "post", !.art = a,
                                   !.todo = needed \cap Empty,
                                   !.done = FilesOf[a] \ needed]
    <2>1. Begin(p, new)
      BY <1>3 DEF post
    <2>2. \A f \in FilesOf[a] \ needed : Has(Scope(a), f)
      <3>1. \A f \in FilesOf[a] \ needed : download_file_stores(Scope(a), f) # {}
        BY DEF file_needs_upload, Scope
      <3>2. \A f \in FilesOf[a] \ needed :
               \E s \in Read(Scope(a)) : <<s, f>> \in in_store
        BY <3>1 DEF download_file_stores, Read
      <3> QED
        BY <3>2, Configured DEF Safe, Stored
    <2>3. new.adds = {} /\ new.art = a /\ new.done = FilesOf[a] \ needed
      BY DEF Idle
    <2> HIDE DEF new
    <2> QED
      BY <1>1, <2>1, <2>2, <2>3, BeginSafe
  <1>5. ASSUME NEW new, Begin(p, new), new.adds = {}, new.done = {}
        PROVE  Safe'
    BY <1>1, <1>5, BeginSafe
  <1>6. CASE create_from_local_artifact(p, a)
    BY <1>2, <1>5, <1>6 DEF create_from_local_artifact, Idle
  <1>7. ASSUME NEW f \in Files, put(p, a, f)
        PROVE  Safe'
    BY <1>2, <1>5, <1>7 DEF put, Idle
  <1>8. ASSUME NEW b \in Artifacts, copy_artifact(p, a, b)
        PROVE  Safe'
    BY <1>2, <1>5, <1>8 DEF copy_artifact, Idle
  <1>9. ASSUME NEW b \in Artifacts, perform_create(p, a, b)
        PROVE  Safe'
    BY <1>2, <1>5, <1>9 DEF perform_create, Idle
  <1> QED
    BY <1>3, <1>6, <1>7, <1>8, <1>9

(* The store of the next file is chosen, or the file is there.             *)
LEMMA ChosenSafe ==
  ASSUME Safe, NEW p \in Procs, upload_file_backend(p)
  PROVE  Safe'
  <1> DEFINE t == tx[p]
             c == Scope(t.art)
             copied(f) == [t EXCEPT !.todo = t.todo \ {f}, !.done = t.done \cup {f}]
             chosen(f, s) == [t EXCEPT !.file = f, !.store = s]
  <1>1. /\ Typed' /\ t \in Tx /\ Request_OK(t) /\ tx \in [Procs -> Tx]
        /\ UNCHANGED <<in_store, content, fia, vac, exp>>
    BY SafeFacts, ChosenTyped DEF upload_file_backend, db
  <1>2. PICK f \in t.todo :
           \/ /\ download_file_stores(c, f) # {}
              /\ tx' = [tx EXCEPT ![p].todo = @ \ {f}, ![p].done = @ \cup {f}]
           \/ \E s : tx' = [tx EXCEPT ![p].file = f, ![p].store = s]
    BY Zenon DEF upload_file_backend
  <1>3. t.op \in Writing /\ t.art \in Artifacts /\ f \in Files
    BY <1>1, <1>2 DEF Request_OK, Tx
  <1>4. exp.pc # "removing"
    BY <1>3 DEF Safe, Alone, Writing
  <1>5. \A g \in t.done : Will_have(p, g)
    BY <1>3 DEF Safe, Stored
  <1>6. CASE /\ download_file_stores(c, f) # {}
             /\ tx' = [tx EXCEPT ![p].todo = @ \ {f}, ![p].done = @ \cup {f}]
    <2>1. tx' = [tx EXCEPT ![p] = copied(f)]
      BY <1>1, <1>6
    <2>2. /\ copied(f).op = t.op /\ copied(f).art = t.art
          /\ copied(f).adds = t.adds /\ copied(f).done = t.done \cup {f}
      BY <1>1 DEF Tx
    <2>3. \E s \in Read(c) : <<s, f>> \in Rows
      <3>1. \E s \in Read(c) : <<s, f>> \in in_store
        BY <1>6 DEF download_file_stores, Read
      <3>2. c \in Scopes
        BY <1>3, Configured
      <3> QED
        BY <1>3, <3>1, <3>2 DEF Safe, Stored, Has
    <2> HIDE DEF copied
    <2> QED
      BY <1>1, <1>4, <1>5, <2>1, <2>2, <2>3, TxSafe DEF Will_have
  <1>7. ASSUME NEW s, tx' = [tx EXCEPT ![p].file = f, ![p].store = s]
        PROVE  Safe'
    <2>1. tx' = [tx EXCEPT ![p] = chosen(f, s)]
      BY <1>1, <1>7
    <2>2. /\ chosen(f, s).op = t.op /\ chosen(f, s).art = t.art
          /\ chosen(f, s).adds = t.adds /\ chosen(f, s).done = t.done
      BY <1>1 DEF Tx
    <2> HIDE DEF chosen
    <2> QED
      BY <1>1, <1>4, <1>5, <2>1, <2>2, TxSafe DEF Will_have
  <1> QED
    BY <1>2, <1>6, <1>7

(* A request that has added nothing fails.                                 *)
LEMMA FailSafe ==
  ASSUME Safe, NEW p \in Procs, rolled_back(p) \/ killed(p), WritesLast
  PROVE  Safe'
  <1>1. /\ Typed' /\ tx' = [tx EXCEPT ![p] = Idle]
        /\ UNCHANGED <<in_store, content, fia, vac, exp>>
    BY SafeFacts, AddTyped DEF rolled_back, killed, db
  <1>2. tx'[p] = Idle
    BY <1>1, SafeFacts
  <1>3. tx[p].adds = {}
    <2>1. tx[p].adds # {} => tx[p].adds \subseteq in_store
      BY <1>1, <1>2 DEF WritesLast
    <2> QED
      BY <2>1 DEF Safe, Locked
  <1>4. Idle.op = "idle" /\ Idle.adds = {} /\ "idle" \notin Writing
    BY DEF Idle, Writing
  <1> QED
    BY <1>1, <1>3, <1>4, TxSafe

(* The row and the contents of a file are added.                           *)
LEMMA AddSafe ==
  ASSUME Safe, NEW p \in Procs, add_file(p)
  PROVE  Safe'
  <1> DEFINE t == tx[p]
             s == t.store
             f == t.file
             c == Scope(t.art)
             created == <<s, f>> \notin in_store
             adds == IF created THEN t.adds \cup {<<s, f>>} ELSE t.adds
             new == [t EXCEPT !.file = None, !.store = None, !.todo = t.todo \ {f},
                              !.done = t.done \cup {f}, !.adds = adds]
  <1>1. /\ Typed' /\ t \in Tx /\ Request_OK(t) /\ tx \in [Procs -> Tx]
        /\ UNCHANGED <<in_store, fia, vac, exp>> /\ content \in Contents
    BY SafeFacts, TypedFacts, AddTyped DEF add_file, db
  <1>2. /\ f # None /\ t.op \in Writing /\ t.art \in Artifacts /\ s \in Read(c)
    BY <1>1 DEF add_file, Request_OK
  <1>3. c \in Scopes /\ s \in Stores /\ f \in Files
    BY <1>1, <1>2, Configured DEF Tx
  <1>4. tx' = [tx EXCEPT ![p] = new]
    BY <1>1 DEF add_file
  <1>5. /\ new.op = t.op /\ new.art = t.art /\ new.done = t.done \cup {f}
        /\ new.adds = adds
    BY <1>1 DEF Tx
  <1> HIDE DEF new
  <1>6. /\ tx'[p] = new /\ \A r \in Procs : r # p => tx'[r] = tx[r]
    BY <1>1, <1>4
  <1>7. \A r \in Procs : \A q \in tx'[r].adds :
           \/ q \in tx[r].adds
           \/ created /\ r = p /\ q = <<s, f>>
    BY <1>5, <1>6
  <1>8. /\ created => content' = [content EXCEPT ![s][f] = "new"]
        /\ ~created => content' = content
    BY DEF add_file
  <1>9. /\ \A r \in Procs : \A q \in tx[r].adds : q[1] # s
        /\ \A k \in vac.adds \cup vac.dels : k[1] # s
    BY Unlocked DEF add_file
  <1>10. \A r \in Stores, g \in Files :
            /\ content'[r][g] # content[r][g] =>
                  created /\ r = s /\ g = f /\ content'[r][g] = "new"
            /\ created /\ r = s /\ g = f => content'[r][g] = "new"
    BY <1>1, <1>3, <1>8 DEF Contents
  <1>11. Rows' = Rows /\ exp.pc # "removing" /\ Doomed = {} /\ Doomed' = {}
    BY <1>1, <1>2 DEF Rows, Doomed, Safe, Alone, Writing
  <1>12. Locked'
    <2>1. \A r \in Procs : \A q \in tx'[r].adds : q \notin in_store
      BY <1>7 DEF Safe, Locked
    <2>2. ASSUME NEW r \in Procs, NEW o \in Procs, NEW q \in tx'[r].adds,
                 NEW k \in tx'[o].adds, q[1] = k[1]
          PROVE  r = o
      <3>1. CASE q \in tx[r].adds /\ k \in tx[o].adds
        BY <2>2, <3>1 DEF Safe, Locked
      <3>2. CASE ~(q \in tx[r].adds /\ k \in tx[o].adds)
        BY <1>7, <1>9, <2>2, <3>2
      <3> QED
        BY <3>1, <3>2
    <2>3. \A r \in Procs : \A q \in tx'[r].adds, k \in vac.adds \cup vac.dels :
             q[1] # k[1]
      BY <1>7, <1>9 DEF Safe, Locked
    <2> QED
      BY <1>1, <2>1, <2>2, <2>3 DEF Safe, Locked
  <1>13. Backed'
    <2>1. ASSUME NEW q \in Rows
          PROVE  content'[q[1]][q[2]] # "none"
      <3>1. q[1] \in Stores /\ q[2] \in Files /\ content[q[1]][q[2]] # "none"
        BY <1>11, SafeFacts, TypedFacts DEF Rows, Vac, Safe, Backed
      <3> QED
        BY <1>10, <3>1
    <2>2. ASSUME NEW r \in Procs, NEW q \in tx'[r].adds
          PROVE  content'[q[1]][q[2]] = "new"
      <3>1. CASE q \in tx[r].adds
        <4>1. q[1] \in Stores /\ q[2] \in Files /\ content[q[1]][q[2]] = "new"
          BY <3>1, SafeFacts DEF Tx, Safe, Backed
        <4> QED
          BY <1>10, <4>1
      <3>2. CASE created /\ q = <<s, f>>
        BY <1>3, <1>10, <3>2
      <3> QED
        BY <1>7, <3>1, <3>2
    <2> QED
      BY <1>11, <2>1, <2>2 DEF Backed
  <1>14. \A r \in Procs : tx[r].adds \subseteq tx'[r].adds
    BY <1>5, <1>6
  <1>15. Clean'
    <2>1. ASSUME NEW r \in Stores, NEW g \in Files, content'[r][g] # "none"
          PROVE  <<r, g>> \in Rows \/ \E o \in Procs : <<r, g>> \in tx'[o].adds
      <3>1. CASE content'[r][g] = content[r][g]
        BY <1>14, <2>1, <3>1 DEF Safe, Clean
      <3>2. CASE content'[r][g] # content[r][g]
        <4>1. created /\ r = s /\ g = f
          BY <1>10, <3>2
        <4> QED
          BY <1>5, <1>6, <4>1
      <3> QED
        BY <3>1, <3>2
    <2> QED
      BY <1>11, <2>1 DEF Clean
  <1>16. Stored'
    <2>1. \A d, g : Has(d, g)' <=> Has(d, g)
      BY <1>11 DEF Has
    <2>2. ASSUME NEW r \in Procs, tx'[r].op \in Writing, NEW g \in tx'[r].done
          PROVE  Will_have(r, g)'
      <3>1. /\ tx'[r].op = tx[r].op /\ tx'[r].art = tx[r].art
            /\ g \in tx[r].done \/ (r = p /\ g = f)
        <4>1. CASE r = p
          BY <1>5, <1>6, <2>2, <4>1
        <4>2. CASE r # p
          BY <1>6, <2>2, <4>2
        <4> QED
          BY <4>1, <4>2
      <3>2. CASE g \in tx[r].done
        <4>1. Will_have(r, g)
          BY <2>2, <3>1, <3>2 DEF Safe, Stored
        <4> QED
          BY <1>11, <1>14, <3>1, <4>1 DEF Will_have
      <3>3. CASE r = p /\ g = f
        <4>1. CASE created
          BY <1>2, <1>5, <1>6, <3>3, <4>1 DEF Will_have
        <4>2. CASE ~created
          <5>1. Has(c, f)
            BY <1>2, <1>3, <4>2 DEF Safe, Stored
          <5> QED
            BY <1>5, <1>6, <1>11, <3>3, <5>1 DEF Will_have, Has
        <4> QED
          BY <4>1, <4>2
      <3> QED
        BY <3>1, <3>2, <3>3
    <2> QED
      BY <1>1, <2>1, <2>2 DEF Safe, Stored
  <1>17. NothingSwept' /\ Alone'
    BY <1>1, <1>11 DEF Safe, NothingSwept, Alone
  <1> QED
    BY <1>1, <1>12, <1>13, <1>15, <1>16, <1>17 DEF Safe

(* A request commits its rows, and the artifact that has the files.        *)
LEMMA CommitSafe ==
  ASSUME Safe, NEW p \in Procs, commit(p)
  PROVE  Safe'
  <1> DEFINE t == tx[p]
             a == t.art
  <1>1. /\ Typed' /\ t \in Tx /\ Request_OK(t) /\ tx \in [Procs -> Tx]
        /\ tx' = [tx EXCEPT ![p] = Idle] /\ in_store' = in_store \cup t.adds
        /\ UNCHANGED <<content, vac, exp>> /\ t.op # "idle"
    BY SafeFacts, CommitTyped DEF commit
  <1>2. tx'[p] = Idle /\ \A r \in Procs : r # p => tx'[r] = tx[r]
    BY <1>1
  <1>3. Idle.op \notin Writing /\ Idle.op = "idle" /\ Idle.adds = {}
    BY DEF Idle, Writing
  <1>4. Rows' = Rows \cup t.adds
    <2>1. \A q \in t.adds : q \notin vac.dels
      BY DEF Safe, Locked
    <2> QED
      BY <1>1, <2>1 DEF Rows
  <1>5. exp.pc # "removing" /\ Doomed = {} /\ Doomed' = {}
    BY <1>1 DEF Doomed, Safe, Alone
  <1>6. \A b \in Artifacts, f \in Files : fia'[b][f] = "complete" =>
           \/ fia[b][f] = "complete"
           \/ t.op \in Writing /\ b = a /\ f \in t.done
    <2>1. CASE t.op = "relate"
      BY <2>1 DEF commit
    <2>2. CASE t.op # "relate"
      <3>1. t.op \in Writing
        BY <1>1, <2>2 DEF Tx, Ops, Writing
      <3>2. fia' = [fia EXCEPT ![a] = [f \in Files |->
                         IF f \in t.done THEN "complete"
                         ELSE IF f \in FilesOf[a] /\ @[f] = "none"
                              THEN "incomplete" ELSE @[f]]]
        BY <2>2 DEF commit
      <3>3. a \in Artifacts /\ fia \in [Artifacts -> [Files -> {"none", "incomplete", "complete"}]]
        BY <1>1, <3>1 DEF Request_OK, Safe, Typed, TypeOK
      <3> QED
        BY <3>1, <3>2, <3>3
    <2> QED
      BY <2>1, <2>2
  <1>7. Locked'
    <2>1. \A r \in Procs : \A q \in tx'[r].adds : q \in tx[r].adds /\ r # p
      BY <1>2, <1>3
    <2>2. \A r \in Procs : \A q \in tx'[r].adds : q \notin in_store'
      BY <1>1, <2>1 DEF Safe, Locked
    <2>3. \A q \in vac.adds : q \notin in_store'
      BY <1>1 DEF Safe, Locked
    <2> QED
      BY <1>1, <2>1, <2>2, <2>3 DEF Safe, Locked
  <1>8. Backed'
    <2>1. \A q \in Rows' : content[q[1]][q[2]] # "none"
      BY <1>4, <1>5 DEF Safe, Backed
    <2>2. \A r \in Procs : \A q \in tx'[r].adds : content[q[1]][q[2]] = "new"
      BY <1>2, <1>3 DEF Safe, Backed
    <2> QED
      BY <1>1, <1>5, <2>1, <2>2 DEF Backed
  <1>9. Clean'
    BY <1>1, <1>2, <1>4, <1>5 DEF Safe, Clean
  <1>10. Stored'
    <2>1. \A c, f : Has(c, f) => Has(c, f)'
      BY <1>4 DEF Has
    <2>2. ASSUME NEW c \in Scopes, NEW f \in Files,
                 NEW s \in Read(c), <<s, f>> \in in_store'
          PROVE  Has(c, f)'
      <3>1. CASE <<s, f>> \in in_store
        BY <2>1, <3>1 DEF Safe, Stored
      <3>2. CASE <<s, f>> \in t.adds
        BY <1>4, <3>2 DEF Has
      <3> QED
        BY <1>1, <2>2, <3>1, <3>2
    <2>3. ASSUME NEW b \in Artifacts, NEW f \in Files, fia'[b][f] = "complete"
          PROVE  Has(Scope(b), f)'
      <3>1. CASE fia[b][f] = "complete"
        BY <2>1, <3>1 DEF Safe, Stored
      <3>2. CASE t.op \in Writing /\ b = a /\ f \in t.done
        <4>1. Will_have(p, f)
          BY <3>2 DEF Safe, Stored
        <4> QED
          BY <1>4, <3>2, <4>1 DEF Will_have, Has
      <3> QED
        BY <1>6, <2>3, <3>1, <3>2
    <2>4. ASSUME NEW r \in Procs, tx'[r].op \in Writing, NEW f \in tx'[r].done
          PROVE  Will_have(r, f)'
      <3>1. r # p /\ tx'[r] = tx[r]
        BY <1>2, <1>3, <2>4
      <3>2. Will_have(r, f)
        BY <2>4, <3>1 DEF Safe, Stored
      <3> QED
        BY <1>4, <3>1, <3>2 DEF Will_have
    <2> QED
      BY <2>2, <2>3, <2>4 DEF Stored
  <1>11. NothingSwept' /\ Alone'
    BY <1>1, <1>5 DEF Safe, NothingSwept, Alone
  <1> QED
    BY <1>1, <1>7, <1>8, <1>9, <1>10, <1>11 DEF Safe

(* A step that writes no row and no contents, while none are removed; some *)
(* artifacts may go.                                                       *)
LEMMA FewerSafe ==
  ASSUME Safe, UNCHANGED <<in_store, content, tx>>, Typed',
         Rows' = Rows, Doomed = {}, Doomed' = {},
         vac'.adds \subseteq vac.adds, vac'.dels \subseteq vac.dels,
         \A a \in Artifacts, f \in Files :
            fia'[a][f] = "complete" => fia[a][f] = "complete",
         NothingSwept', Alone'
  PROVE  Safe'
  <1>1. Rows' = Rows
    OBVIOUS
  <1>2. Locked'
    BY DEF Safe, Locked
  <1>3. Backed' /\ Clean'
    BY <1>1 DEF Safe, Backed, Clean
  <1>4. \A c, f : Has(c, f)' <=> Has(c, f)
    BY <1>1 DEF Has
  <1>5. \A p, f : Will_have(p, f)' <=> Will_have(p, f)
    BY <1>1 DEF Will_have
  <1>6. Stored'
    BY <1>4, <1>5 DEF Safe, Stored
  <1> QED
    BY <1>2, <1>3, <1>6 DEF Safe

(* Deleted artifacts have no files.                                        *)
LEMMA FewerComplete ==
  ASSUME Safe, NEW gone, DeleteArtifacts(gone)
  PROVE  \A a \in Artifacts, f \in Files :
            fia'[a][f] = "complete" => fia[a][f] = "complete"
  <1> SUFFICES ASSUME NEW a \in Artifacts, NEW f \in Files, fia'[a][f] = "complete"
               PROVE  fia[a][f] = "complete"
    OBVIOUS
  <1>1. fia'[a] = IF a \in gone THEN [g \in Files |-> "none"] ELSE fia[a]
    BY DEF DeleteArtifacts
  <1> QED
    BY <1>1

(* The vacuum job deletes incomplete artifacts.                            *)
LEMMA IncompleteSafe ==
  ASSUME Safe, delete_incomplete
  PROVE  Safe'
  <1>1. /\ vac.pc = "delete_incomplete" /\ vac' = VacIdle /\ exp.pc = "idle"
        /\ UNCHANGED <<in_store, content, tx, exp>> /\ vac.adds = {} /\ vac.dels = {}
    BY SafeFacts DEF delete_incomplete, Alone, Vacuum_OK
  <1>2. VacIdle.pc = "idle" /\ VacIdle.adds = {} /\ VacIdle.dels = {}
    BY DEF VacIdle
  <1>3. \A a \in Artifacts, f \in Files :
           fia'[a][f] = "complete" => fia[a][f] = "complete"
    BY FewerComplete DEF delete_incomplete
  <1>4. Typed'
    BY SafeFacts, IncompleteTyped
  <1>5. Rows' = Rows /\ Doomed = {} /\ Doomed' = {}
    BY <1>1, <1>2 DEF Rows, Doomed
  <1>6. NothingSwept' /\ Alone'
    BY <1>1, <1>2 DEF NothingSwept, Alone
  <1> QED
    BY <1>1, <1>2, <1>3, <1>4, <1>5, <1>6, FewerSafe

(* delete_expired removes contents that no artifact has, then their rows.  *)
LEMMA RemovingSafe ==
  ASSUME Safe, delete_files \/ delete_files_commit
  PROVE  Safe'
  <1>1. /\ exp.pc \in {"swept", "removing"} /\ vac.pc = "idle"
        /\ vac.adds = {} /\ vac.dels = {} /\ Typed'
    BY SafeFacts, ExpireTyped DEF delete_files, delete_files_commit, Alone, Vacuum_OK
  <1>2. vac' = vac /\ UNCHANGED <<tx, fia>>
    BY <1>1 DEF delete_files, delete_files_commit, db
  <1>3. \A p \in Procs : tx[p].op = "idle" /\ tx[p].adds = {}
    <2>1. \A p \in Procs : tx[p].op = "idle"
      BY <1>1 DEF delete_files, delete_files_commit, CanLockTables, Safe, Alone
    <2> QED
      BY <2>1, SafeFacts DEF Request_OK
  <1>4. Rows = in_store /\ Rows' = in_store'
    BY <1>1, <1>2 DEF Rows
  <1>5. Locked'
    BY <1>1, <1>2, <1>3 DEF Locked
  <1>6. NothingSwept' /\ Alone'
    BY <1>1, <1>2, <1>3 DEF NothingSwept, Alone
  <1>7. in_store \subseteq Stores \X Files /\ content \in Contents /\ exp \in Exp
    BY SafeFacts, TypedFacts
  <1>8. CASE delete_files
    <2>1. /\ exp.pc = "swept" /\ exp'.pc = "removing" /\ UNCHANGED in_store
          /\ content' = [s \in Stores |-> [f \in Files |->
                           IF <<s, f>> \in Orphans THEN "none" ELSE content[s][f]]]
      BY <1>7, <1>8 DEF delete_files, Exp
    <2>2. Doomed = {} /\ Doomed' = Orphans
      BY <1>2, <2>1 DEF Doomed, Orphans
    <2>3. Backed'
      <3>1. ASSUME NEW q \in in_store \ Orphans
            PROVE  content'[q[1]][q[2]] # "none"
        <4>1. content[q[1]][q[2]] # "none"
          BY <1>4, <2>2 DEF Safe, Backed
        <4>2. q[1] \in Stores /\ q[2] \in Files /\ q = <<q[1], q[2]>>
          BY <1>7
        <4> QED
          BY <2>1, <4>1, <4>2
      <3> QED
        BY <1>2, <1>3, <1>4, <2>1, <2>2, <3>1 DEF Backed
    <2>4. Clean'
      <3>1. ASSUME NEW s \in Stores, NEW f \in Files, content'[s][f] # "none"
            PROVE  <<s, f>> \in in_store \ Orphans
        <4>1. <<s, f>> \notin Orphans /\ content[s][f] # "none"
          BY <2>1, <3>1
        <4> QED
          BY <1>3, <1>4, <4>1 DEF Safe, Clean
      <3> QED
        BY <1>4, <2>1, <2>2, <3>1 DEF Clean
    <2>5. \A c, f : Has(c, f)' <=> Has(c, f)
      BY <1>4, <2>1 DEF Has
    <2>6. Stored'
      BY <1>2, <1>3, <2>1, <2>5 DEF Safe, Stored, Writing
    <2> QED
      BY <1>1, <1>5, <1>6, <2>3, <2>4, <2>6 DEF Safe
  <1>9. CASE delete_files_commit
    <2>1. /\ exp.pc = "removing" /\ exp'.pc = "idle" /\ UNCHANGED content
          /\ in_store' = in_store \ Orphans
      BY <1>9 DEF delete_files_commit, ExpIdle
    <2>2. Doomed = Orphans /\ Doomed' = {}
      BY <2>1 DEF Doomed
    <2>3. Backed' /\ Clean'
      BY <1>2, <1>3, <1>4, <2>1, <2>2 DEF Safe, Backed, Clean
    <2>4. Stored'
      <3>1. ASSUME NEW a \in Artifacts, NEW f \in Files, fia[a][f] = "complete"
            PROVE  Has(Scope(a), f)'
        <4>1. PICK s \in Read(Scope(a)) : <<s, f>> \in in_store
          BY <1>4, <3>1 DEF Safe, Stored, Has
        <4>2. <<s, f>> \notin Orphans
          BY <3>1 DEF Orphans
        <4> QED
          BY <1>4, <2>1, <4>1, <4>2 DEF Has
      <3>2. \A c \in Scopes, f \in Files :
               (\E s \in Read(c) : <<s, f>> \in in_store') => Has(c, f)'
        BY <1>4 DEF Has
      <3> QED
        BY <1>2, <1>3, <3>1, <3>2 DEF Stored, Writing
    <2> QED
      BY <1>1, <1>5, <1>6, <2>3, <2>4 DEF Safe
  <1> QED
    BY <1>8, <1>9

(* delete_expired begins, deletes artifacts, or gives up.                  *)
LEMMA ExpireSafe ==
  ASSUME Settled, Safe, WritesLast,
         \/ \E d \in DryRuns : delete_expired(d)
         \/ sweep \/ expire_gives_up
  PROVE  Safe'
  <1>1. Typed' /\ exp \in Exp
    BY SafeFacts, ExpireTyped, TypedFacts
  <1>2. UNCHANGED <<in_store, content, tx, vac>>
    BY DEF delete_expired, sweep, expire_gives_up
  <1>3. Rows' = Rows /\ NothingSwept'
    BY <1>2, SafeFacts DEF Rows, NothingSwept
  <1>4. CASE \E d \in DryRuns : delete_expired(d)
    <2>1. /\ exp.pc = "idle" /\ exp'.pc = "begun" /\ vac.pc = "idle"
          /\ UNCHANGED fia
      BY <1>4 DEF delete_expired, Settled, db
    <2>2. Doomed = {} /\ Doomed' = {} /\ Alone'
      BY <1>2, <2>1 DEF Doomed, Alone
    <2> QED
      BY <1>1, <1>2, <1>3, <2>1, <2>2, FewerSafe
  <1>5. CASE sweep
    <2>1. exp.pc = "begun" /\ exp'.pc = "swept"
      BY <1>1, <1>5 DEF sweep, Exp
    <2>2. Doomed = {} /\ Doomed' = {} /\ Alone'
      BY <1>2, <2>1, SafeFacts DEF Doomed, Alone
    <2>3. \A a \in Artifacts, f \in Files :
             fia'[a][f] = "complete" => fia[a][f] = "complete"
      <3>1. UNCHANGED fia \/ \E gone : DeleteArtifacts(gone)
        BY <1>5 DEF sweep, db
      <3> QED
        BY <3>1, FewerComplete
    <2> QED
      BY <1>1, <1>2, <1>3, <2>2, <2>3, FewerSafe
  <1>6. CASE expire_gives_up
    <2>1. exp'.pc = "idle" /\ UNCHANGED fia
      BY <1>6 DEF expire_gives_up, ExpIdle, db
    <2>2. Doomed = {}
      <3>1. exp.pc = "removing" => Orphans \cap in_store = {}
        BY <1>2, <2>1 DEF WritesLast
      <3> QED
        BY <3>1 DEF Doomed, Orphans
    <2>3. Doomed' = {} /\ Alone'
      BY <2>1 DEF Doomed, Alone
    <2> QED
      BY <1>1, <1>2, <1>3, <2>1, <2>2, <2>3, FewerSafe
  <1> QED
    BY <1>4, <1>5, <1>6

(* A step that neither transactions nor jobs take: contents grow old.      *)
LEMMA ElseSafe ==
  ASSUME Safe, \/ \E a \in Retained : add_item(a) \/ remove_item(a)
               \/ day \/ UNCHANGED vars
  PROVE  Safe'
  <1>1. Typed' /\ content \in Contents
    <2>1. UNCHANGED vars => Typed'
      BY SafeFacts DEF Typed, TypeOK, vars, db, time
    <2> QED
      BY <2>1, SafeFacts, ElseTyped, TypedFacts
  <1>2. UNCHANGED <<in_store, fia, tx, vac, exp>>
    BY DEF add_item, remove_item, SetItem, day, vars, db
  <1>3. Rows' = Rows /\ Doomed' = Doomed
    BY <1>2 DEF Rows, Doomed, Orphans
  <1>4. NothingSwept' /\ Alone'
    BY <1>2, SafeFacts DEF NothingSwept, Alone
  <1>5. CASE UNCHANGED content
    BY <1>1, <1>2, <1>3, <1>4, <1>5, SameRows DEF Safe, Consistent
  <1>6. CASE day
    <2>1. \A p \in Procs : tx[p].adds = {}
      BY <1>6, SafeFacts DEF day, Request_OK
    <2>2. \A s \in Stores, f \in Files :
             content'[s][f] = "none" <=> content[s][f] = "none"
      BY <1>6 DEF day
    <2>3. Rows \subseteq Stores \X Files
      <3>1. in_store \subseteq Stores \X Files /\ vac.adds \subseteq Stores \X Files
        BY SafeFacts, TypedFacts DEF Vac
      <3> QED
        BY <3>1 DEF Rows
    <2>4. Backed'
      <3>1. \A q \in Rows \ Doomed : q[1] \in Stores /\ q[2] \in Files
        BY <2>3
      <3>2. \A q \in Rows \ Doomed : content'[q[1]][q[2]] # "none"
        BY <2>2, <3>1 DEF Safe, Backed
      <3> QED
        BY <1>2, <1>3, <2>1, <3>2 DEF Backed
    <2>5. Clean'
      BY <1>2, <1>3, <2>2 DEF Safe, Clean
    <2>6. \A c, f : Has(c, f)' <=> Has(c, f)
      BY <1>3 DEF Has
    <2>7. \A p, f : Will_have(p, f)' <=> Will_have(p, f)
      BY <1>2, <1>3 DEF Will_have
    <2>8. Locked' /\ Stored'
      BY <1>2, <2>6, <2>7, SafeFacts DEF Locked, Stored
    <2> QED
      BY <1>1, <1>4, <2>4, <2>5, <2>8 DEF Safe
  <1> QED
    BY <1>5, <1>6 DEF add_item, remove_item, SetItem, vars

(* The artifacts there are at the start have their files in a store.       *)
LEMMA InitSafe ==
  ASSUME Settled, Init
  PROVE  Safe
  <1> DEFINE given == UNION {FilesOf[a] : a \in Given}
  <1>1. /\ in_store = {GivenIn} \X given
        /\ content = [s \in Stores |-> [f \in Files |->
                        IF s = GivenIn /\ f \in given THEN "old" ELSE "none"]]
        /\ tx = [p \in Procs |-> Idle] /\ vac = VacIdle /\ exp = ExpIdle
    BY DEF Init
  <1>2. given \subseteq Files /\ GivenIn \in Stores /\ Given \subseteq Artifacts
    BY FileStoresAssumption
  <1>3. \A a \in Given : \A f \in FilesOf[a] : f \in given
    OBVIOUS
  <1>4. \A a \in Artifacts, f \in Files :
           fia[a][f] = "complete" => a \in Given /\ f \in FilesOf[a]
    BY DEF Init
  <1> HIDE DEF given
  <1>5. /\ VacIdle.pc = "idle" /\ VacIdle.adds = {} /\ VacIdle.dels = {}
        /\ Idle.op = "idle" /\ Idle.adds = {} /\ ExpIdle.pc = "idle"
    BY DEF VacIdle, Idle, ExpIdle
  <1>6. /\ \A p \in Procs : tx[p].op = "idle" /\ tx[p].adds = {}
        /\ vac.pc = "idle" /\ vac.adds = {} /\ vac.dels = {} /\ exp.pc = "idle"
    BY <1>1, <1>5
  <1>7. Rows = in_store /\ Doomed = {}
    BY <1>6 DEF Rows, Doomed
  <1>8. Locked /\ NothingSwept /\ Alone
    BY <1>6 DEF Locked, NothingSwept, Alone
  <1>9. Backed
    BY <1>1, <1>2, <1>6, <1>7 DEF Backed
  <1>10. Clean
    BY <1>1, <1>2, <1>7 DEF Clean
  <1>11. Stored
    <2>1. \A c \in Scopes, f \in Files :
             (\E s \in Read(c) : <<s, f>> \in in_store) => Has(c, f)
      BY <1>7 DEF Has
    <2>2. ASSUME NEW a \in Artifacts, NEW f \in Files, fia[a][f] = "complete"
          PROVE  Has(Scope(a), f)
      <3>1. GivenIn \in Read(Scope(a)) /\ <<GivenIn, f>> \in in_store
        BY <1>1, <1>3, <1>4, <2>2 DEF Settled
      <3> QED
        BY <1>7, <3>1 DEF Has
    <2> QED
      BY <1>6, <2>1, <2>2 DEF Stored, Writing
  <1> QED
    BY <1>8, <1>9, <1>10, <1>11, InitTyped DEF Safe

(* Every step keeps the files.                                             *)
LEMMA StepSafe ==
  ASSUME Settled, Safe, [Next]_vars, WritesLast
  PROVE  Safe'
  <1>1. ASSUME NEW p \in Procs, Request(p)
        PROVE  Safe'
    <2>1. CASE upload_file_backend(p) \/ add_file(p) \/ rolled_back(p)
                \/ commit(p) \/ killed(p)
      BY <2>1, ChosenSafe, AddSafe, FailSafe, CommitSafe
    <2>2. CASE ~(upload_file_backend(p) \/ add_file(p) \/ rolled_back(p)
                  \/ commit(p) \/ killed(p))
      BY <1>1, <2>2, RequestSafe DEF Request
    <2> QED
      BY <2>1, <2>2
  <1>2. CASE Vacuum
    <2>1. ASSUME NEW f \in Files, populate_file(f) \/ drain_file(f)
          PROVE  Safe'
      BY <2>1, FileSafe
    <2>2. CASE \/ sweep_list \/ sweep_db \/ sweep_remove
      BY <2>2, SweepSafe
    <2>3. CASE \/ next_scope
               \/ \E pc \in Policies : next_store(pc, vac.scope) \/ next_policy(pc)
      BY <2>3, ScopeSafe
    <2>4. CASE vacuum_commit \/ find_incomplete \/ delete_incomplete
      BY <2>4, VacuumCommitSafe, JobSafe, IncompleteSafe
    <2> QED
      BY <1>2, <2>1, <2>2, <2>3, <2>4 DEF Vacuum, Policies
  <1>3. CASE vacuum \/ vacuum_killed
    BY <1>3, SweepSafe, JobSafe
  <1>4. CASE Expire \/ expire_gives_up \/ \E d \in DryRuns : delete_expired(d)
    BY <1>4, ExpireSafe, RemovingSafe DEF Expire
  <1> QED
    BY <1>1, <1>2, <1>3, <1>4, ElseSafe DEF Next

(* What is safe can be downloaded.                                         *)
LEMMA SafeAvailable ==
  ASSUME Safe
  PROVE  FileAvailable /\ PendingHasContent
  <1>1. ASSUME NEW a \in Artifacts, NEW f \in Files, fia[a][f] = "complete"
        PROVE  Available(a, f)
    <2>1. PICK s \in Read(Scope(a)) : <<s, f>> \in Rows
      BY <1>1 DEF Safe, Stored, Has
    <2>2. <<s, f>> \notin Doomed
      BY <1>1 DEF Doomed, Orphans
    <2>3. content[s][f] # "none"
      BY <2>1, <2>2 DEF Safe, Backed
    <2> QED
      BY <2>1, <2>3 DEF Available, Read, Rows
  <1>2. PendingHasContent
    BY DEF PendingHasContent, Safe, Backed
  <1> QED
    BY <1>1, <1>2 DEF FileAvailable

(* If whoever writes to a store commits, every file of a complete artifact *)
(* can be downloaded at every moment, whatever uploads, moves between      *)
(* stores, sweeps and deletions go on: file_needs_upload() finds a file    *)
(* only where it stays, moves leave every scope a store to read from, and  *)
(* the sweep finds nothing to remove.                                      *)
THEOREM FilesKept ==
  ASSUME Settled
  PROVE  Spec /\ [][WritesLast]_vars => []FileAvailable
  <1>1. Init => Safe
    BY InitSafe
  <1>2. Safe /\ [Next]_vars /\ [WritesLast]_vars => Safe'
    <2>1. Safe /\ UNCHANGED vars => Safe'
      BY ElseSafe
    <2> QED
      BY <2>1, StepSafe
  <1>3. Safe => FileAvailable
    BY SafeAvailable
  <1> QED
    BY <1>1, <1>2, <1>3, PTL DEF Spec

(* Under the same conditions contents whose row is yet to be committed     *)
(* stay until it is.                                                       *)
THEOREM PendingKept ==
  ASSUME Settled
  PROVE  Spec /\ [][WritesLast]_vars => []PendingHasContent
  <1>1. Init => Safe
    BY InitSafe
  <1>2. Safe /\ [Next]_vars /\ [WritesLast]_vars => Safe'
    <2>1. Safe /\ UNCHANGED vars => Safe'
      BY ElseSafe
    <2> QED
      BY <2>1, StepSafe
  <1>3. Safe => PendingHasContent
    BY SafeAvailable
  <1> QED
    BY <1>1, <1>2, <1>3, PTL DEF Spec
=============================================================================
