----------------------------- MODULE FileStores -----------------------------
(***************************************************************************)
(* Files, the stores that keep their contents, and the artifacts that need *)
(* them: uploads (server/views/artifacts.py), server tasks that make or    *)
(* copy artifacts, and the two daily jobs, vacuum_storage and              *)
(* delete_expired.                                                         *)
(*                                                                         *)
(* The database is transactional, the stores are not: what a transaction   *)
(* writes to the database is seen at its commit, what it does to a store   *)
(* is seen at once and stays when it is rolled back.  Inserting or         *)
(* deleting a FileInStore row runs a trigger that updates the total size   *)
(* of the store, and so locks the row of the store until the commit.       *)
(* Time is a number of days: artifacts and contents age.                   *)
(***************************************************************************)
EXTENDS Integers, FiniteSets, FiniteSetsExt

CONSTANTS
    Procs,      \* web server threads and Celery workers
    Scopes, Workspaces, Stores, Files,
    Artifacts,  \* bound: the artifacts there may ever be
    ScopeOf,    \* the scope of each workspace
    WorkspaceOf,\* the workspace of each artifact
    FilesOf,    \* the files of each artifact
    Empty,      \* the files of size 0
    Size,       \* the size of each file
    Expires,    \* the artifacts whose expiration_delay is not 0
    Policy,     \* FileStoreInScope: for each scope, a policy for each store
    max_size, soft_max_size,    \* of each store, None when there is no limit
    Relatable,  \* bound: the pairs of artifacts that may be related
    Retained,   \* bound: the artifacts that may become items of a collection
    Given,      \* the artifacts that are there at the start, a day old
    GivenIn,    \* the store that has all their files
    DryRuns,    \* whether delete_expired may be run with --dry-run, without
    Overlap,    \* whether a daily job may start before the other has ended: the
                \* timers are "deliberately offset"
    MaxDays,    \* bound: days
    MaxCrashes, \* bound: processes that die or lose their connection
    None

PolicyType ==
    [upload_priority: Nat, download_priority: Nat, populate: BOOLEAN,
     drain: BOOLEAN, drain_to: Stores \cup {None}, read_only: BOOLEAN,
     write_only: BOOLEAN]

ASSUME FileStoresAssumption ==
    /\ ScopeOf \in [Workspaces -> Scopes]
    /\ WorkspaceOf \in [Artifacts -> Workspaces]
    /\ FilesOf \in [Artifacts -> SUBSET Files] /\ IsFiniteSet(Files)
    /\ Size \in [Files -> Nat]
    /\ Empty = {f \in Files : Size[f] = 0}
    /\ Expires \subseteq Artifacts
    /\ \A c \in Scopes : \E S \in SUBSET Stores : Policy[c] \in [S -> PolicyType]
    \* CheckConstraint consistent_populate
    /\ \A c \in Scopes : \A s \in DOMAIN Policy[c] :
          Policy[c][s].populate => ~Policy[c][s].drain /\ ~Policy[c][s].read_only
    /\ max_size \in [Stores -> Nat \cup {None}]
    /\ soft_max_size \in [Stores -> Nat \cup {None}]
    /\ Relatable \subseteq Artifacts \X Artifacts /\ \A q \in Relatable : q[1] # q[2]
    /\ Retained \subseteq Artifacts
    /\ Given \subseteq Artifacts /\ GivenIn \in Stores
    /\ \A a \in Given : GivenIn \in DOMAIN Policy[ScopeOf[WorkspaceOf[a]]]
    /\ DryRuns \subseteq BOOLEAN /\ Overlap \in BOOLEAN
    /\ MaxDays \in Nat /\ MaxCrashes \in Nat
    /\ None \notin Nat \cup Stores \cup Files \cup Artifacts \cup Scopes

VARIABLES
    in_store,   \* FileInStore: pairs of a store and a file, committed
    content,    \* what each store has of each file: nothing, new or over a day
    artifact,   \* the life of each artifact
    fia,        \* FileInArtifact: nothing, incomplete or complete
    relations,  \* ArtifactRelation: pairs of an artifact and a target
    items,      \* CollectionItem, in a collection that retains artifacts: of
                \* each artifact none, an active one or a removed one
    age,        \* how many days old an artifact is, up to 2
    tx,         \* the transaction of each process
    vac,        \* the vacuum_storage command
    exp,        \* the delete_expired command
    days, crashes

db == <<artifact, fia, relations, items>>
time == <<age, days>>
vars == <<in_store, content, db, time, tx, vac, exp, crashes>>

-----------------------------------------------------------------------------
(* Transactions.  An open one keeps delete_expired, which locks the tables *)
(* in ACCESS EXCLUSIVE MODE, from starting; while that one removes files   *)
(* nobody else can read the tables.                                        *)

Ops == {"idle", "post", "put", "local", "copy", "relate"}
Tx == [op: Ops, art: Artifacts \cup {None}, target: Artifacts \cup {None},
       todo: SUBSET Files, done: SUBSET Files,
       file: Files \cup {None}, store: Stores \cup {None},
       adds: SUBSET (Stores \X Files)]
Idle == [op |-> "idle", art |-> None, target |-> None, todo |-> {},
         done |-> {}, file |-> None, store |-> None, adds |-> {}]

VacPCs == {"idle", "sweep_list", "sweep_db", "sweep_remove", "scope",
           "populate", "drain", "limit", "commit", "incomplete",
           "delete_incomplete"}
Vac == [pc: VacPCs, back: VacPCs, scope: Scopes \cup {None}, scopes: SUBSET Scopes,
        stores: SUBSET Stores, store: Stores \cup {None}, files: SUBSET Files,
        source: [Files -> Stores \cup {None}], left: Int, excess: [Stores -> Nat],
        arts: SUBSET Artifacts, rels: SUBSET (Artifacts \X Artifacts),
        adds: SUBSET (Stores \X Files), dels: SUBSET (Stores \X Files)]
VacIdle == [pc |-> "idle", back |-> "idle", scope |-> None, scopes |-> {},
            stores |-> {}, store |-> None, files |-> {},
            source |-> [f \in Files |-> None], left |-> 0,
            excess |-> [s \in Stores |-> 0], arts |-> {}, rels |-> {},
            adds |-> {}, dels |-> {}]

Exp == [pc: {"idle", "begun", "swept", "removing"},
        expired: SUBSET Artifacts, dry_run: BOOLEAN]
ExpIdle == [pc |-> "idle", expired |-> {}, dry_run |-> FALSE]

TablesFree == exp.pc # "removing"
(* The transaction of the vacuum that is open has read the locked tables.  *)
VacuumOpen ==
    \/ vac.pc \in {"sweep_remove", "commit", "delete_incomplete"}
    \/ vac.pc \in {"sweep_list", "sweep_db"} /\ vac.stores # Stores
CanLockTables == ~VacuumOpen /\ \A p \in Procs : tx[p].op = "idle"

(* The trigger of FileInStore locks the row of the store.                  *)
StoreRowFree(S) ==
    /\ \A p \in Procs : {q[1] : q \in tx[p].adds} \cap S = {}
    /\ {q[1] : q \in vac.adds \cup vac.dels} \cap S = {}

-----------------------------------------------------------------------------
(* debusine/db/models/scopes.py                                            *)

total_size(rows, s) == MapThenSumSet(LAMBDA f : Size[f],
                                     {f \in Files : <<s, f>> \in rows})
Over(limit, size) == limit # None /\ limit < size

(* rows are those that the transaction sees.                               *)
upload_file_stores(rows, c, f, enforce_soft_limits, include_write_only) ==
    {s \in DOMAIN Policy[c] :
       LET size == total_size(rows, s) + Size[f] IN
       /\ ~Policy[c][s].read_only
       /\ ~Over(max_size[s], size)
       /\ enforce_soft_limits => ~Over(soft_max_size[s], size)
       /\ include_write_only \/ ~Policy[c][s].write_only}

download_file_stores(c, f) ==
    {s \in DOMAIN Policy[c] : ~Policy[c][s].write_only /\ <<s, f>> \in in_store}

(* Those that come first in the order of the query: any of them may.       *)
First(c, S) ==
    {s \in S : \A r \in S : Policy[c][r].upload_priority
                               <= Policy[c][s].upload_priority}
(* Workspace.file_needs_upload()                                           *)
file_needs_upload(w, f) ==
    \/ download_file_stores(ScopeOf[w], f) = {}
    \/ ~\E a \in Artifacts : WorkspaceOf[a] = w /\ fia[a][f] = "complete"

-----------------------------------------------------------------------------
(* Requests and server tasks.  Each is one transaction; the files it still *)
(* has to add to a store are tx[p].todo.                                   *)

Scope(a) == ScopeOf[WorkspaceOf[a]]
Sees(p) == in_store \cup tx[p].adds
Begin(p, new) ==
    /\ tx[p].op = "idle" /\ TablesFree
    /\ tx' = [tx EXCEPT ![p] = new]
    /\ UNCHANGED <<in_store, content, db, time, vac, exp, crashes>>

(* An artifact is named by one request only.                               *)
Unused(a) == artifact[a] = "absent" /\ \A p \in Procs : tx[p].art # a
Complete(a) == \A f \in FilesOf[a] : fia[a][f] = "complete"

(* ArtifactView.post(): empty files are stored at once.                    *)
post(p, a) ==
    LET needed == {f \in FilesOf[a] : file_needs_upload(WorkspaceOf[a], f)} IN
    /\ Unused(a)
    /\ Begin(p, [Idle EXCEPT !.op = "post", !.art = a,
                             !.todo = needed \cap Empty,
                             !.done = FilesOf[a] \ needed])

(* UploadFileView.put(), with the last bytes of a file; the hash is right. *)
put(p, a, f) ==
    /\ artifact[a] = "present" /\ fia[a][f] = "incomplete"
    \* A second request waits for the row of the FileUpload.
    /\ \A q \in Procs : ~(tx[q].op = "put" /\ tx[q].art = a
                           /\ f \in tx[q].todo \cup tx[q].done)
    /\ Begin(p, [Idle EXCEPT !.op = "put", !.art = a, !.todo = {f}])

(* create_from_local_artifact() and ArtifactForm.save().                   *)
create_from_local_artifact(p, a) ==
    /\ Unused(a)
    /\ Begin(p, [Idle EXCEPT !.op = "local", !.art = a, !.todo = FilesOf[a]])

(* CopyCollectionItems.copy_artifact(): b becomes a copy of a.             *)
copy_artifact(p, a, b) ==
    /\ artifact[a] = "present" /\ Complete(a)
    /\ Unused(b) /\ FilesOf[b] = FilesOf[a]
    /\ Begin(p, [Idle EXCEPT !.op = "copy", !.art = b, !.target = a,
                             !.todo = FilesOf[a]])

(* ArtifactRelationsView.perform_create()                                  *)
perform_create(p, a, b) ==
    /\ <<a, b>> \in Relatable \ relations
    /\ artifact[a] = "present" /\ artifact[b] = "present"
    /\ Complete(a) /\ Complete(b)
    /\ Begin(p, [Idle EXCEPT !.op = "relate", !.art = a, !.target = b])

(* The store of the next file is chosen by the sizes of the moment; a copy *)
(* adds nothing when the target scope has the file.                        *)
upload_file_backend(p) ==
    /\ tx[p].file = None
    /\ \E f \in tx[p].todo :
         LET c == Scope(tx[p].art) IN
         IF tx[p].op = "copy" /\ download_file_stores(c, f) # {}
         THEN tx' = [tx EXCEPT ![p].todo = @ \ {f}, ![p].done = @ \cup {f}]
         ELSE \E s \in First(c, upload_file_stores(Sees(p), c, f, FALSE, FALSE)) :
                /\ tx[p].op = "copy" =>
                     download_file_stores(Scope(tx[p].target), f) # {}
                /\ tx' = [tx EXCEPT ![p].file = f, ![p].store = s]
    /\ UNCHANGED <<in_store, content, db, time, vac, exp, crashes>>

(* Mutant: the contents in the store are not checked.                      *)
add_file_unchecked(p) ==
    LET f == tx[p].file
        s == tx[p].store
    IN
    /\ f # None /\ StoreRowFree({s})
    /\ UNCHANGED content
    /\ tx' = [tx EXCEPT ![p].file = None, ![p].store = None,
                        ![p].todo = @ \ {f}, ![p].done = @ \cup {f},
                        ![p].adds = @ \cup {<<s, f>>}]
    /\ UNCHANGED <<in_store, db, time, vac, exp, crashes>>

(* FileBackendInterface.add_file(): the row, then the contents; if the     *)
(* row is there, the contents are compared.                                *)
add_file(p) ==
    LET f == tx[p].file
        s == tx[p].store
        created == <<s, f>> \notin in_store
    IN
    /\ f # None /\ StoreRowFree({s})
    /\ created \/ content[s][f] # "none"
    /\ content' = IF created THEN [content EXCEPT ![s][f] = "new"] ELSE content
    /\ tx' = [tx EXCEPT ![p].file = None, ![p].store = None,
                        ![p].todo = @ \ {f}, ![p].done = @ \cup {f},
                        ![p].adds = IF created THEN @ \cup {<<s, f>>} ELSE @]
    /\ UNCHANGED <<in_store, db, time, vac, exp, crashes>>

(* No store, no contents to compare with, or nothing to copy from: the     *)
(* request is answered with an error and rolled back.                      *)
rolled_back(p) ==
    /\ \/ /\ tx[p].file # None
          /\ <<tx[p].store, tx[p].file>> \in in_store
          /\ content[tx[p].store][tx[p].file] = "none"
       \/ \E f \in tx[p].todo :
            /\ tx[p].file = None
            /\ \/ upload_file_stores(Sees(p), Scope(tx[p].art), f, FALSE, FALSE) = {}
               \/ /\ tx[p].op = "copy"
                  /\ download_file_stores(Scope(tx[p].target), f) = {}
            /\ tx[p].op = "copy" => download_file_stores(Scope(tx[p].art), f) = {}
    /\ tx' = [tx EXCEPT ![p] = Idle]
    /\ UNCHANGED <<in_store, content, db, time, vac, exp, crashes>>

commit(p) ==
    LET a == tx[p].art IN
    /\ tx[p].op # "idle" /\ tx[p].todo = {} /\ tx[p].file = None
    /\ in_store' = in_store \cup tx[p].adds
    /\ IF tx[p].op = "relate"
       THEN /\ relations' = relations \cup {<<a, tx[p].target>>}
            /\ UNCHANGED <<artifact, fia>>
       ELSE /\ artifact' = [artifact EXCEPT ![a] = "present"]
            /\ fia' = [fia EXCEPT ![a] = [f \in Files |->
                         IF f \in tx[p].done THEN "complete"
                         ELSE IF f \in FilesOf[a] /\ @[f] = "none"
                              THEN "incomplete" ELSE @[f]]]
            /\ UNCHANGED relations
    /\ tx' = [tx EXCEPT ![p] = Idle]
    /\ UNCHANGED <<content, items, time, vac, exp, crashes>>

(* The process or its connection dies: what it put in stores stays.        *)
killed(p) ==
    /\ tx[p].op # "idle" /\ crashes < MaxCrashes
    /\ crashes' = crashes + 1
    /\ tx' = [tx EXCEPT ![p] = Idle]
    /\ UNCHANGED <<in_store, content, db, time, vac, exp>>

(* A collection with retains_artifacts gets an item, and removes it: the   *)
(* item keeps its artifact until drop_full_history().                      *)
SetItem(a, from, to) ==
    /\ TablesFree /\ artifact[a] = "present"
    /\ items[a] \in from
    /\ items' = [items EXCEPT ![a] = to]
    /\ UNCHANGED <<in_store, content, artifact, fia, relations, time, tx, vac,
                   exp, crashes>>
add_item(a) == SetItem(a, {"none", "removed"}, "active")
remove_item(a) == SetItem(a, {"active"}, "removed")

(* An artifact is deleted with its FileInArtifact rows.                    *)
DeleteArtifacts(gone) ==
    /\ artifact' = [a \in Artifacts |-> IF a \in gone THEN "deleted" ELSE artifact[a]]
    /\ fia' = [a \in Artifacts |-> IF a \in gone THEN [f \in Files |-> "none"] ELSE fia[a]]

-----------------------------------------------------------------------------
(* debusine/server/management/commands/vacuum_storage.py, one at a time.   *)
(* Files, stores and scopes are taken in any order.                        *)

VacKeep == <<in_store, db, time, tx, exp, crashes>>
VacStep(new) == vac' = new /\ UNCHANGED <<content, VacKeep>>

vacuum ==
    /\ vac.pc = "idle" /\ (Overlap \/ exp.pc = "idle")
    /\ VacStep([VacIdle EXCEPT !.pc = "sweep_list", !.stores = Stores])

(* _delete_unreferenced_files(), for one store after the other: what the   *)
(* store has that is over a day old; what of it the database knows; the    *)
(* rest is removed, an entry at a time.                                    *)
sweep_list ==
    /\ vac.pc = "sweep_list"
    /\ IF vac.stores = {}
       THEN VacStep([vac EXCEPT !.pc = "scope", !.store = None,
                                !.scopes = Scopes])
       ELSE \E s \in vac.stores :
              VacStep([vac EXCEPT !.pc = "sweep_db", !.store = s,
                         !.files = {f \in Files : content[s][f] = "old"}])

sweep_db ==
    /\ vac.pc = "sweep_db" /\ TablesFree
    /\ VacStep([vac EXCEPT !.pc = "sweep_remove",
                  !.stores = @ \ {vac.store},
                  !.files = {f \in @ : <<vac.store, f>> \notin in_store}])

sweep_remove ==
    /\ vac.pc = "sweep_remove"
    /\ IF vac.files = {}
       THEN VacStep([vac EXCEPT !.pc = "sweep_list"])
       ELSE \E f \in vac.files :
              /\ content' = [content EXCEPT ![vac.store][f] = "none"]
              /\ vac' = [vac EXCEPT !.files = @ \ {f}]
              /\ UNCHANGED VacKeep

(* _apply_storage_policies(): for each scope populate, drain, then limit.  *)
PolicyStores(c, P(_)) == {s \in DOMAIN Policy[c] : P(Policy[c][s])}
(* Mutant: what is left below a limit counts as well.                      *)
Excess_signed(s) == LET limits == {soft_max_size[s], max_size[s]} \ {None} IN
    IF limits = {} THEN 0 ELSE Max({total_size(in_store, s) - l : l \in limits})

(* How much a store is over its limits; 0 when it is not.                  *)
Excess(s) == Max({0} \cup {total_size(in_store, s) - l :
                             l \in {soft_max_size[s], max_size[s]} \ {None}})

next_scope ==
    /\ vac.pc = "scope"
    /\ IF vac.scopes = {}
       THEN VacStep([vac EXCEPT !.pc = "incomplete", !.scope = None])
       ELSE \E c \in vac.scopes :
              VacStep([vac EXCEPT !.pc = "populate", !.scope = c,
                         !.scopes = @ \ {c}, !.store = None, !.files = {},
                         !.stores = PolicyStores(c, LAMBDA q : q.populate)])

(* The files of the artifacts of a scope.                                  *)
FilesIn(c) == {f \in Files : \E a \in Artifacts : Scope(a) = c /\ fia[a][f] # "none"}

(* Where populate may copy a file from: a store of any scope.              *)
Sources(s, f) ==
    {r \in Stores \ {s} : /\ <<r, f>> \in in_store
                          /\ \A c \in Scopes : r \in DOMAIN Policy[c] =>
                                               ~Policy[c][r].write_only}

(* The loop over the stores of one policy.  The files and, for populate,   *)
(* where to download them from are queried once for each store.            *)
next_store(pc, c) ==
    /\ vac.pc = pc /\ vac.files = {} /\ vac.stores # {} /\ TablesFree
    /\ \E s \in vac.stores :
         /\ VacStep([vac EXCEPT !.stores = @ \ {s}, !.store = s,
              !.files = {f \in FilesIn(c) : (<<s, f>> \in in_store) <=> (pc # "populate")},
              !.source = [f \in Files |->
                 IF pc # "populate" \/ Sources(s, f) = {} THEN None
                 ELSE CHOOSE r \in Sources(s, f) : TRUE],
              !.left = IF pc = "limit" THEN vac.excess[s] ELSE 0])

next_policy(pc) ==
    /\ vac.pc = pc /\ vac.files = {} /\ vac.stores = {}
    /\ VacStep(
         CASE pc = "populate" ->
                [vac EXCEPT !.pc = "drain", !.source = VacIdle.source,
                   !.stores = PolicyStores(vac.scope, LAMBDA q : q.drain)]
           [] pc = "drain" ->
                [vac EXCEPT !.pc = "limit",
                   !.excess = [s \in Stores |-> Excess(s)],
                   !.stores = {s \in DOMAIN Policy[vac.scope] : Excess(s) > 0}]
           [] pc = "limit" ->
                [vac EXCEPT !.pc = "scope", !.left = 0, !.excess = VacIdle.excess])

(* Mutant: all the files of a store are one transaction.                   *)
Move_all(f, adds, dels, new) ==
    /\ content' = [s \in Stores |-> [content[s] EXCEPT ![f] =
                     IF <<s, f>> \in adds THEN "new"
                     ELSE IF <<s, f>> \in dels THEN "none" ELSE @]]
    /\ vac' = [new EXCEPT !.pc = IF new.files = {} THEN "commit" ELSE @, !.back = vac.pc,
                          !.adds = @ \cup adds, !.dels = @ \cup dels]
    /\ UNCHANGED VacKeep

(* One file is one transaction; the command goes on after its commit.      *)
Move(f, adds, dels, new) ==
    /\ StoreRowFree({q[1] : q \in adds \cup dels})
    /\ content' = [s \in Stores |-> [content[s] EXCEPT ![f] =
                     IF <<s, f>> \in adds THEN "new"
                     ELSE IF <<s, f>> \in dels THEN "none" ELSE @]]
    /\ vac' = [new EXCEPT !.pc = "commit", !.back = vac.pc,
                          !.adds = adds, !.dels = dels]
    /\ UNCHANGED VacKeep
Skip(f) == VacStep([vac EXCEPT !.files = @ \ {f}])

(* _apply_populate_policy() for a file: population stops at the limit.     *)
populate_file(f) ==
    /\ vac.pc = "populate" /\ f \in vac.files /\ TablesFree
    /\ LET s == vac.store
           c == vac.scope
           r == vac.source[f]
       IN
       IF r = None THEN Skip(f)
       ELSE IF s \notin upload_file_stores(in_store, c, f, TRUE, TRUE)
       THEN VacStep([vac EXCEPT !.files = {}])
       ELSE /\ content[r][f] # "none"
            /\ Move(f, {<<s, f>>} \ in_store, {}, [vac EXCEPT !.files = @ \ {f}])

(* _drain_file(): removed when the scope can download it elsewhere, moved  *)
(* when another store accepts it, left otherwise.                          *)
DrainTargets(c, s, f) ==
    First(c, {r \in upload_file_stores(in_store, c, f, TRUE, FALSE) \ {s} :
                Policy[c][s].drain_to \in {None, r}})
Drained(f) ==
    LET left == vac.left - Size[f] IN
    [vac EXCEPT !.left = IF vac.pc = "limit" THEN left ELSE @,
                !.files = IF vac.pc = "limit" /\ left <= 0 THEN {} ELSE @ \ {f}]
(* Mutant: the file is removed whether or not it can be downloaded         *)
(* elsewhere.                                                              *)
drain_file_always(f) ==
    /\ vac.pc \in {"drain", "limit"} /\ f \in vac.files /\ TablesFree
    /\ Move(f, {}, {<<vac.store, f>>} \cap in_store, Drained(f))

(* Mutant: a file is copied to the target and stays in the store.          *)
drain_file_copied(f) ==
    /\ vac.pc \in {"drain", "limit"} /\ f \in vac.files /\ TablesFree
    /\ LET s == vac.store
           c == vac.scope
       IN
       IF download_file_stores(c, f) \ {s} # {} \/ DrainTargets(c, s, f) = {}
       THEN Skip(f)
       ELSE /\ content[s][f] # "none"
            /\ \E r \in DrainTargets(c, s, f) :
                 Move(f, {<<r, f>>} \ in_store, {}, Drained(f))

drain_file(f) ==
    /\ vac.pc \in {"drain", "limit"} /\ f \in vac.files /\ TablesFree
    /\ LET s == vac.store
           c == vac.scope
       IN
       IF download_file_stores(c, f) \ {s} # {}
       THEN Move(f, {}, {<<s, f>>} \cap in_store, Drained(f))
       ELSE IF DrainTargets(c, s, f) = {} THEN Skip(f)
       ELSE /\ content[s][f] # "none"
            /\ \E r \in DrainTargets(c, s, f) :
                 Move(f, {<<r, f>>} \ in_store, {<<s, f>>}, Drained(f))

vacuum_commit ==
    /\ vac.pc = "commit"
    /\ in_store' = (in_store \cup vac.adds) \ vac.dels
    /\ vac' = [vac EXCEPT !.pc = vac.back, !.back = "idle", !.adds = {}, !.dels = {}]
    /\ UNCHANGED <<content, db, time, tx, exp, crashes>>

(* The command dies; it also does when it finds no contents to copy.       *)
NothingToCopy(f) ==
    \/ /\ vac.pc = "populate" /\ vac.source[f] # None
       /\ content[vac.source[f]][f] = "none"
    \/ /\ vac.pc \in {"drain", "limit"} /\ content[vac.store][f] = "none"
       /\ download_file_stores(vac.scope, f) \ {vac.store} = {}
       /\ DrainTargets(vac.scope, vac.store, f) # {}
vacuum_killed ==
    /\ \/ vac.pc # "idle" /\ crashes < MaxCrashes /\ crashes' = crashes + 1
       \/ (\E f \in vac.files : NothingToCopy(f)) /\ UNCHANGED crashes
    /\ vac' = VacIdle
    /\ UNCHANGED <<in_store, content, db, time, tx, exp>>

(* _delete_incomplete_old_artifacts(): the artifacts and their relations   *)
(* are found, then their rows are deleted, after waiting for the requests  *)
(* that have locked them.  If one has meanwhile become an item or part of  *)
(* a new relation, the database refuses and the command dies.              *)
Touches(q, S) == {q[1], q[2]} \cap S # {}
find_incomplete ==
    /\ vac.pc = "incomplete" /\ TablesFree
    /\ LET old == {a \in Artifacts : /\ artifact[a] = "present" /\ age[a] >= 1
                                     /\ ~Complete(a) /\ items[a] = "none"}
       IN VacStep(IF old = {} THEN VacIdle
                  ELSE [VacIdle EXCEPT !.pc = "delete_incomplete", !.arts = old,
                          !.rels = {q \in relations : Touches(q, old)}])

delete_incomplete ==
    LET kept == relations \ vac.rels
        refused == \/ \E a \in vac.arts : items[a] # "none"
                   \/ \E q \in kept : Touches(q, vac.arts)
        gone == IF refused THEN {} ELSE vac.arts
    IN
    /\ vac.pc = "delete_incomplete"
    /\ \A p \in Procs : {tx[p].art, tx[p].target} \cap vac.arts = {}
    /\ DeleteArtifacts(gone)
    /\ relations' = IF refused THEN relations ELSE kept
    /\ vac' = VacIdle
    /\ UNCHANGED <<in_store, content, items, time, tx, exp, crashes>>

-----------------------------------------------------------------------------
(* debusine/server/management/commands/delete_expired.py: the artifacts,   *)
(* with the tables locked, then the files in another transaction.          *)

delete_expired(dry_run) ==
    /\ exp.pc = "idle" /\ (Overlap \/ vac.pc = "idle")
    /\ exp' = [pc |-> "begun", dry_run |-> dry_run,
               expired |-> {a \in Expires : age[a] = 2}]
    /\ UNCHANGED <<in_store, content, db, time, tx, vac, crashes>>

(* Mutant: only the direct targets are kept.                               *)
mark_to_keep_direct(kept_items) ==
    LET roots == {a \in Artifacts : /\ artifact[a] = "present"
                                    /\ a \notin exp.expired \/ kept_items[a] # "none"}
    IN roots \cup {q[2] : q \in {q \in relations : q[1] \in roots}}

(* _mark_to_keep(): what has not expired, what a collection retains, and   *)
(* all they lead to: the least set with those that relations do not leave. *)
mark_to_keep(kept_items) ==
    LET Present == {a \in Artifacts : artifact[a] = "present"}
        roots == {a \in Present : a \notin exp.expired \/ kept_items[a] # "none"}
        Closed(K) == roots \subseteq K /\ \A q \in relations : q[1] \in K => q[2] \in K
    IN {a \in Present : \A K \in SUBSET Present : Closed(K) => a \in K}

(* The items removed long enough ago lose their artifact; then _sweep().   *)
sweep ==
    /\ exp.pc = "begun" /\ CanLockTables
    /\ \E dropped \in SUBSET {a \in Artifacts : items[a] = "removed"} :
         LET left == [a \in Artifacts |-> IF a \in dropped THEN "none" ELSE items[a]]
             gone == {a \in exp.expired : artifact[a] = "present"} \ mark_to_keep(left)
         IN
         IF exp.dry_run THEN UNCHANGED db
         ELSE /\ DeleteArtifacts(gone)
              /\ relations' = {q \in relations : ~Touches(q, gone)}
              /\ items' = left
    /\ exp' = [exp EXCEPT !.pc = "swept"]
    /\ UNCHANGED <<in_store, content, time, tx, vac, crashes>>

(* _delete_files_from_stores(): contents first, then the commit.           *)
Orphans == {q \in in_store : \A a \in Artifacts : fia[a][q[2]] = "none"}
delete_files ==
    /\ exp.pc = "swept" /\ CanLockTables
    /\ content' = [s \in Stores |-> [f \in Files |->
                     IF <<s, f>> \in Orphans THEN "none" ELSE content[s][f]]]
    /\ exp' = [exp EXCEPT !.pc = "removing"]
    /\ UNCHANGED <<in_store, db, time, tx, vac, crashes>>

delete_files_commit ==
    /\ exp.pc = "removing"
    /\ in_store' = in_store \ Orphans
    /\ exp' = ExpIdle
    \* refresh_from_db() will not find the rows of these files.
    /\ vac' = IF vac.pc \in {"populate", "drain", "limit"}
              THEN [vac EXCEPT !.files = @ \ {q[2] : q \in Orphans}] ELSE vac
    /\ UNCHANGED <<content, db, time, tx, crashes>>

(* LockTableFailed, or the command dies.                                   *)
expire_gives_up ==
    /\ \/ exp.pc \in {"begun", "swept"} /\ ~CanLockTables /\ UNCHANGED crashes
       \/ exp.pc # "idle" /\ crashes < MaxCrashes /\ crashes' = crashes + 1
    /\ exp' = ExpIdle
    /\ UNCHANGED <<in_store, content, db, time, tx, vac>>

-----------------------------------------------------------------------------
(* A day passes; no request takes that long.                               *)
day ==
    /\ days < MaxDays
    /\ \A p \in Procs : tx[p].op = "idle"
    /\ days' = days + 1
    /\ age' = [a \in Artifacts |-> IF artifact[a] = "present" /\ age[a] < 2
                                  THEN age[a] + 1 ELSE age[a]]
    /\ content' = [s \in Stores |-> [f \in Files |->
                     IF content[s][f] = "new" THEN "old" ELSE content[s][f]]]
    /\ UNCHANGED <<in_store, db, tx, vac, exp, crashes>>

Init ==
    /\ LET given == UNION {FilesOf[a] : a \in Given} IN
       /\ in_store = {GivenIn} \X given
       /\ content = [s \in Stores |-> [f \in Files |->
                       IF s = GivenIn /\ f \in given THEN "old" ELSE "none"]]
    /\ artifact = [a \in Artifacts |-> IF a \in Given THEN "present" ELSE "absent"]
    /\ fia = [a \in Artifacts |-> [f \in Files |->
                IF a \in Given /\ f \in FilesOf[a] THEN "complete" ELSE "none"]]
    /\ relations = {}
    /\ items = [a \in Artifacts |-> "none"]
    /\ age = [a \in Artifacts |-> IF a \in Given THEN 1 ELSE 0]
    /\ tx = [p \in Procs |-> Idle]
    /\ vac = VacIdle /\ exp = ExpIdle
    /\ days = 0 /\ crashes = 0

Request(p) ==
    \/ \E a \in Artifacts : post(p, a) \/ create_from_local_artifact(p, a)
    \/ \E a \in Artifacts : \E f \in Files : put(p, a, f)
    \/ \E a, b \in Artifacts : copy_artifact(p, a, b) \/ perform_create(p, a, b)
    \/ upload_file_backend(p) \/ add_file(p) \/ rolled_back(p)
    \/ commit(p) \/ killed(p)
Vacuum ==
    \/ sweep_list \/ sweep_db \/ sweep_remove \/ next_scope
    \/ \E pc \in {"populate", "drain", "limit"} :
         next_store(pc, vac.scope) \/ next_policy(pc)
    \/ \E f \in Files : populate_file(f) \/ drain_file(f)
    \/ vacuum_commit \/ find_incomplete \/ delete_incomplete
Expire == sweep \/ delete_files \/ delete_files_commit

Next ==
    \/ \E p \in Procs : Request(p)
    \/ \E a \in Retained : add_item(a) \/ remove_item(a)
    \/ vacuum \/ Vacuum \/ vacuum_killed
    \/ \E d \in DryRuns : delete_expired(d)
    \/ Expire \/ expire_gives_up
    \/ day

Spec == Init /\ [][Next]_vars

-----------------------------------------------------------------------------
(* Every variable has its type, transactions and daily jobs included.      *)
TypeOK ==
    /\ in_store \subseteq Stores \X Files
    /\ content \in [Stores -> [Files -> {"none", "new", "old"}]]
    /\ artifact \in [Artifacts -> {"absent", "present", "deleted"}]
    /\ fia \in [Artifacts -> [Files -> {"none", "incomplete", "complete"}]]
    /\ relations \subseteq Artifacts \X Artifacts
    /\ items \in [Artifacts -> {"none", "active", "removed"}]
    /\ age \in [Artifacts -> 0..2]
    /\ tx \in [Procs -> Tx] /\ vac \in Vac /\ exp \in Exp
    /\ days \in 0..MaxDays /\ crashes \in 0..MaxCrashes

(* A store that the scope reads from has the file, in the database and in  *)
(* fact.  While a move between stores is being committed the rows are      *)
(* those it leaves: until then the database still names the store that has *)
(* lost the file.                                                          *)
Available(a, f) ==
    \E s \in DOMAIN Policy[Scope(a)] :
       /\ ~Policy[Scope(a)][s].write_only
       /\ <<s, f>> \in (in_store \cup vac.adds) \ vac.dels
       /\ content[s][f] # "none"

(* Every file of a complete artifact can be downloaded                     *)
(* (file_needs_upload(): "This requires each file to be in one of its      *)
(* stores").  Uploads that find the contents there, moves between stores,  *)
(* and both daily jobs must agree.                                         *)
FileAvailable ==
    \A a \in Artifacts : \A f \in Files : fia[a][f] = "complete" => Available(a, f)

(* A process that dies loses one file at most, the one that was being      *)
(* moved or whose upload it left behind: vacuum_storage handles "each file *)
(* in a separate transaction", and delete_expired, which removes many in   *)
(* one, only those that nobody needs.  (A drained store that still takes   *)
(* uploads is another matter: rows that a dead delete_expired leaves in    *)
(* the other store are then taken for copies.)                             *)
OneLostPerCrash ==
    Cardinality({f \in Files : \E a \in Artifacts :
                   fia[a][f] = "complete" /\ ~Available(a, f)}) <= crashes

(* What a transaction has not committed is not lost either: contents whose *)
(* row is about to be committed are there.                                 *)
PendingHasContent ==
    \A p \in Procs : \A q \in tx[p].adds : content[q[1]][q[2]] # "none"

(* The target of a relation outlives the artifact that refers to it:       *)
(* delete_expired keeps it however long the chain, and the clean-up of     *)
(* incomplete artifacts never meets one.                                   *)
TargetsKept ==
    [][\A q \in relations :
         artifact'[q[1]] = "present" => artifact'[q[2]] = "present"]_vars

(* A store that is drained and read-only ends up empty ("to prepare for    *)
(* removing the file store").                                              *)
DrainedForGood ==
    \A c \in Scopes : \A s \in DOMAIN Policy[c] :
       Policy[c][s].drain => <>[](\A f \in Files : <<s, f>> \notin in_store)

(* The jobs are started again and again by their timers, and systemd does  *)
(* not stop them; requests come to an end.                                 *)
Fairness ==
    /\ SF_vars(vacuum) /\ WF_vars(Vacuum)
    /\ SF_vars(\E d \in DryRuns : delete_expired(d)) /\ SF_vars(Expire)
    /\ \A p \in Procs : WF_vars(upload_file_backend(p) \/ add_file(p)
                                  \/ rolled_back(p) \/ commit(p))
FairSpec == Spec /\ Fairness
=============================================================================
