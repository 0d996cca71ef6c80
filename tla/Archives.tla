------------------------------- MODULE Archives -------------------------------
(***************************************************************************)
(* Package repositories: the collections debian:suite and debian:archive   *)
(* (debusine/server/collections/debian_suite.py, debian_archive.py), the   *)
(* workflow update_suites that finds suites whose indexes are out of date, *)
(* and the task that generates indexes.                                    *)
(*                                                                         *)
(* Items are never changed, only created and removed, each at a time, so   *)
(* that the repository can be served as of any time in the past.  What     *)
(* keeps two contents from having one name in pool/ is a table of          *)
(* constraints, which outlive items, and which are made by transactions    *)
(* that do not see each other.                                             *)
(*                                                                         *)
(* A transaction holds one operation.  One that would break a constraint   *)
(* is cancelled, and changes nothing; one that meets a row, a name or a    *)
(* key that another open transaction has written waits for it.             *)
(***************************************************************************)
EXTENDS Integers, FiniteSets

CONSTANTS
    Procs,      \* processes with a transaction each
    Suites, Archive,
    Artifacts,  \* source and binary packages
    NameOf,     \* the name of the item of each of them: package_version
    Files,      \* the files of each: pairs of a name in pool/ and a content
    Workspaces, \* the workspaces to consider: records of their suites, the
                \* collections with may_reuse_versions, and whether they have
                \* a workflow update_suites
    MaxClock    \* bound: events that have a time

ASSUME ArchivesAssumption ==
    /\ Archive \notin Suites
    /\ Workspaces \subseteq [suites: SUBSET Suites, updated: BOOLEAN,
                             may_reuse: SUBSET (Suites \cup {Archive})]
    /\ \A a \in Artifacts : \A f, g \in Files[a] : f[1] = g[1] => f = g
    /\ MaxClock \in Nat

VARIABLES
    workspace,  \* the one that this is about
    db,         \* the committed rows
    tx,         \* what each process has written, and not yet committed
    index_lock, \* suites whose advisory lock is held
    tasks,      \* tasks generatesuiteindexes that wait to be run
    clock,
    \* what has happened, for the properties:
    published,  \* pairs of a suite and a file that was ever in it
    unguarded,  \* items in the archive that have no constraint there
    missed,     \* generations that a change was too late, or too old, for
    doubled     \* suites with two generations whose transactions overlapped

history == <<published, unguarded, missed, doubled>>
vars == <<workspace, db, tx, index_lock, tasks, clock, history>>

Time == 0 .. MaxClock
None == 0       \* removed_at is NULL
may_reuse == workspace.may_reuse
File == UNION {Files[a] : a \in Artifacts}
Tables == {"items", "members", "constraints", "indexes"}

(* An item is known by the time at which it was created, which no other    *)
(* has.  A generation of indexes is one row; listed are the items that it  *)
(* names.                                                                  *)
Item == [suite: Suites, artifact: Artifacts, created: Time, removed: Time]
Member == [suite: Suites, created: Time, removed: Time]
Constraint == [collection: Suites \cup {Archive}, item: Time, file: File]
Index == [suite: Suites, created: Time, removed: Time, listed: SUBSET Time]
Task == [suite: Suites, at: Time]

Rows == [items: SUBSET Item, members: SUBSET Member,
         constraints: SUBSET Constraint, indexes: SUBSET Index]
Tx == [pc: {"closed", "open", "generate"}, plus: Rows, minus: Rows,
       task: SUBSET Task, previous: SUBSET Time]

NoRows == [t \in Tables |-> {}]
Closed == [pc |-> "closed", plus |-> NoRows, minus |-> NoRows,
           task |-> {}, previous |-> {}]

-----------------------------------------------------------------------------
Now == clock + 1
Active(rows) == {r \in rows : r.removed = None}
active_at(rows, at) ==
    {r \in rows : r.created <= at /\ (r.removed = None \/ r.removed > at)}
Of(rows, s) == {r \in rows : r.suite = s}
Created(rows) == {r.created : r \in rows}

(* Mutant: one later.                                                      *)
Remove_after(rows, at) == {[r EXCEPT !.removed = at + 1] : r \in rows}

Remove(rows, at) == {[r EXCEPT !.removed = at] : r \in rows}

(* What the other open transactions have inserted and deleted.             *)
OthersPlus(p, t) == UNION {tx[q].plus[t] : q \in Procs \ {p}}
OthersMinus(p, t) == UNION {tx[q].minus[t] : q \in Procs \ {p}}

(* The exclusion constraint: one value for each collection and key.        *)
Conflict(new, rows) ==
    \E c \in new, d \in rows :
        c.collection = d.collection /\ c.file[1] = d.file[1] /\ c.file # d.file

(* p opens a transaction that deletes the rows old, and inserts new.       *)
Begin(p, old, new) ==
    /\ tx[p].pc = "closed" /\ clock < MaxClock
    /\ \A t \in Tables : old[t] \cap OthersMinus(p, t) = {}
    /\ ~Conflict(new.constraints, (db.constraints \ old.constraints)
                                    \cup OthersPlus(p, "constraints"))
    /\ tx' = [tx EXCEPT ![p] =
                [Closed EXCEPT !.pc = "open", !.plus = new, !.minus = old]]
    /\ clock' = Now
    /\ UNCHANGED <<workspace, db, index_lock, tasks, published, missed, doubled>>

(* The suite's do_remove_item(): constraints go with an item only where    *)
(* versions may be reused, those of the archive as well.                   *)
DroppedWith(s, items) ==
    IF s \in may_reuse
    THEN {c \in db.constraints : c.item \in Created(items)} ELSE {}

make_constraints(s, a) ==
    [collection: {s} \cup (IF Active(Of(db.members, s)) # {}
                           THEN {Archive} ELSE {}),
     item: {Now}, file: Files[a]]

(* do_add_artifact() of a source or binary package.                        *)
add_artifact(p, s, a, replace) ==
    LET same == {i \in Of(db.items, s) : NameOf[i.artifact] = NameOf[a]}
        gone == IF replace THEN Active(same) ELSE {}
        item == [suite |-> s, artifact |-> a, created |-> Now, removed |-> None]
    IN  /\ Active(same) \subseteq gone
        /\ \A i \in Active(OthersPlus(p, "items")) :
              ~(i.suite = s /\ NameOf[i.artifact] = NameOf[a])
        /\ Begin(p, [NoRows EXCEPT !.items = gone,
                                   !.constraints = DroppedWith(s, gone)],
                    [NoRows EXCEPT !.items = Remove(gone, Now) \cup {item},
                                   !.constraints = make_constraints(s, a)])
        /\ unguarded' = IF Active(Of(OthersPlus(p, "members"), s)) # {}
                        THEN unguarded \cup {Now} ELSE unguarded

remove_item(p, i) ==
    /\ Begin(p, [NoRows EXCEPT !.items = {i},
                               !.constraints = DroppedWith(i.suite, {i})],
                [NoRows EXCEPT !.items = Remove({i}, Now)])
    /\ UNCHANGED unguarded

(* Mutant: of the packages that the archive has an active suite for only.  *)
CopiedConstraints_active(s) ==
    {[c EXCEPT !.collection = Archive] :
        c \in {d \in db.constraints :
                 d.collection = s /\ Active(Of(db.members, s)) # {}}}

(* The archive's do_add_collection() copies the constraints that it sees.  *)
CopiedConstraints(s) ==
    {[c EXCEPT !.collection = Archive] :
        c \in {d \in db.constraints : d.collection = s}}

add_collection(p, s) ==
    /\ Active(Of(db.members \cup OthersPlus(p, "members"), s)) = {}
    /\ Begin(p, NoRows,
             [NoRows EXCEPT
                !.members = {[suite |-> s, created |-> Now, removed |-> None]},
                !.constraints = CopiedConstraints(s)])
    /\ unguarded' = unguarded \cup Created(Of(OthersPlus(p, "items"), s))

(* The archive's do_remove_item(): where the archive may reuse versions,   *)
(* it deletes every constraint of the suite's items.                       *)
remove_collection(p, s) ==
    LET reuse == Archive \in may_reuse
        items == Created(Of(db.items, s))
        member == Active(Of(db.members, s))
    IN  /\ member # {}
        /\ Begin(p, [NoRows EXCEPT
                       !.members = member,
                       !.constraints = {c \in db.constraints :
                                          reuse /\ c.item \in items}],
                    [NoRows EXCEPT !.members = Remove(member, Now)])
        /\ unguarded' = IF reuse THEN unguarded \cup items ELSE unguarded

-----------------------------------------------------------------------------
(* Mutant: only additions count.                                           *)
Stale_created(s) ==
    \E r \in Of(db.items, s) \cup Of(db.indexes, s) :
       \A g \in Of(db.indexes, s) : r.created > g.created

(* _find_stale_suite_names(): an item, index or package, that was created  *)
(* or removed after the latest Release, if there is one.                   *)
Stale(s) ==
    \E r \in Of(db.items, s) \cup Of(db.indexes, s) :
       \/ \A g \in Of(db.indexes, s) : r.created > g.created
       \/ \A g \in Of(db.indexes, s) : r.removed > g.created

(* populate() of update_suites: one task for each stale suite.             *)
populate(force) ==
    LET stale == {s \in workspace.suites : force \/ Stale(s)}
    IN  /\ workspace.updated /\ stale # {} /\ clock < MaxClock
        /\ tasks' = tasks \cup {[suite |-> s, at |-> Now] : s \in stale}
        /\ clock' = Now
        /\ UNCHANGED <<workspace, db, tx, index_lock, history>>

(* _execute(): the task takes the lock of its suite, or fails, which is a  *)
(* step that changes nothing; it finds the generation before its own.      *)
start_generation(p, task) ==
    LET older == {t \in Created(Of(db.indexes, task.suite)) : t < task.at}
    IN  /\ tx[p].pc = "closed" /\ task.suite \notin index_lock
        /\ index_lock' = index_lock \cup {task.suite}
        /\ tasks' = tasks \ {task}
        /\ tx' = [tx EXCEPT ![p] =
                    [Closed EXCEPT !.pc = "generate", !.task = {task},
                       !.previous = {t \in older : \A u \in older : u <= t}]]
        /\ doubled' = IF Of(OthersPlus(p, "indexes"), task.suite) # {}
                      THEN doubled \cup {task.suite} ELSE doubled
        /\ UNCHANGED <<workspace, db, clock, published, unguarded, missed>>

(* Mutant: every generation that is older.                                 *)
supersede_older_items_all(p, task) ==
    {r \in Of(db.indexes, task.suite) : r.created < task.at}

(* The rows of the generation that was found.                              *)
supersede_older_items(p, task) ==
    {r \in Of(db.indexes, task.suite) : r.created \in tx[p].previous}

(* Mutant: the newest one.                                                 *)
find_newer_item_last(task) ==
    LET newer == {t \in Created(Of(db.indexes, task.suite)) : t > task.at}
    IN  IF newer = {} THEN {None} ELSE {t \in newer : \A u \in newer : u <= t}

(* When the earliest generation that is newer than the task's begins.      *)
find_newer_item(task) ==
    LET newer == {t \in Created(Of(db.indexes, task.suite)) : t > task.at}
    IN  IF newer = {} THEN {None} ELSE {t \in newer : \A u \in newer : t <= u}

(* ... removes it as of the time of its own, lists the packages that were  *)
(* active then, adds indexes that end where the next generation begins,    *)
(* and gives the lock back, with all of this still to be committed.        *)
write_indexes(p, task) ==
    LET old == supersede_older_items(p, task)
        listed == Created(active_at(Of(db.items, task.suite), task.at))
        others == (Of(db.indexes, task.suite) \ old)
                    \cup Of(OthersPlus(p, "indexes"), task.suite)
    IN  /\ tx[p].pc = "generate"
        /\ old \cap OthersMinus(p, "indexes") = {}
        /\ \E newer \in find_newer_item(task) :
              /\ newer = None => Active(others) = {}
              /\ tx' = [tx EXCEPT ![p].pc = "open",
                   ![p].minus.indexes = old,
                   ![p].plus.indexes = Remove(old, task.at) \cup
                      {[suite |-> task.suite, created |-> task.at,
                        removed |-> newer, listed |-> listed]}]
        /\ index_lock' = index_lock \ {task.suite}
        /\ UNCHANGED <<workspace, db, tasks, clock, history>>

-----------------------------------------------------------------------------
(* Generations that have been written, committed or not.                   *)
Written == db.indexes \cup UNION {tx[p].plus.indexes : p \in Procs}

(* Those that were written before a change of theirs was committed.        *)
TooEarlyFor(items) ==
    {<<g.suite, g.created>> :
       g \in {h \in Written : \E i \in Of(items, h.suite) :
                 h.created >= IF i.removed = None THEN i.created ELSE i.removed}}

commit(p) ==
    /\ tx[p].pc = "open"
    /\ db' = [t \in Tables |-> (db[t] \ tx[p].minus[t]) \cup tx[p].plus[t]]
    /\ tx' = [tx EXCEPT ![p] = Closed]
    /\ published' = published \cup
          UNION {{i.suite} \X Files[i.artifact] : i \in tx[p].plus.items}
    /\ missed' = missed \cup TooEarlyFor(tx[p].plus.items)
    /\ UNCHANGED <<workspace, index_lock, tasks, clock, unguarded, doubled>>

(* An error, or the death of the process: its lock is released as well,    *)
(* and a task can be run again.                                            *)
rollback(p) ==
    /\ tx[p].pc # "closed"
    /\ tx' = [tx EXCEPT ![p] = Closed]
    /\ tasks' = tasks \cup tx[p].task
    /\ index_lock' = IF tx[p].pc = "generate"
                     THEN index_lock \ {k.suite : k \in tx[p].task}
                     ELSE index_lock
    /\ UNCHANGED <<workspace, db, clock, history>>

(* Mutant: constraints have a foreign key to their item.                   *)
Expired_cascade(s, before) ==
    LET items == {r \in Of(db.items, s) : r.removed \in 1 .. before}
    IN  [NoRows EXCEPT
           !.items = items,
           !.constraints = {c \in db.constraints : c.item \in Created(items)},
           !.indexes = {r \in Of(db.indexes, s) : r.removed \in 1 .. before}]

(* delete_expired: what was removed long ago is deleted; the constraints   *)
(* name their items by a bare number, and stay.                            *)
Expired(s, before) ==
    [NoRows EXCEPT
       !.items = {r \in Of(db.items, s) : r.removed \in 1 .. before},
       !.indexes = {r \in Of(db.indexes, s) : r.removed \in 1 .. before}]

drop_metadata(s, before) ==
    LET old == Expired(s, before)
    IN  /\ old # NoRows
        /\ \A p \in Procs, t \in Tables : old[t] \cap tx[p].minus[t] = {}
        /\ db' = [t \in Tables |-> db[t] \ old[t]]
        /\ missed' = missed \cup
              {<<s, g.created>> :
                 g \in {h \in Of(Written, s) :
                          \E i \in old.items : i.removed > h.created}}
        /\ UNCHANGED <<workspace, tx, index_lock, tasks, clock, published,
                       unguarded, doubled>>

-----------------------------------------------------------------------------
Init ==
    /\ workspace \in Workspaces
    /\ db = NoRows
    /\ tx = [p \in Procs |-> Closed]
    /\ index_lock = {} /\ tasks = {} /\ clock = 0
    /\ published = {} /\ unguarded = {} /\ missed = {} /\ doubled = {}

Next ==
    \/ \E p \in Procs, s \in workspace.suites, a \in Artifacts, replace \in BOOLEAN :
          add_artifact(p, s, a, replace)
    \/ \E p \in Procs : \E i \in Active(db.items) : remove_item(p, i)
    \/ \E p \in Procs, s \in workspace.suites : add_collection(p, s)
    \/ \E p \in Procs, s \in workspace.suites : remove_collection(p, s)
    \/ \E force \in BOOLEAN : populate(force)
    \/ \E p \in Procs : \E k \in tasks : start_generation(p, k)
    \/ \E p \in Procs : \E k \in tx[p].task : write_indexes(p, k)
    \/ \E p \in Procs : commit(p)
    \/ \E p \in Procs : rollback(p)
    \/ \E s \in workspace.suites, before \in 1 .. clock : drop_metadata(s, before)

Spec == Init /\ [][Next]_vars

-----------------------------------------------------------------------------
(* Every variable has its type.                                            *)
TypeOK ==
    /\ workspace \in Workspaces
    /\ db \in Rows
    /\ tx \in [Procs -> Tx]
    /\ index_lock \subseteq Suites /\ tasks \subseteq Task /\ clock \in Time
    /\ published \subseteq Suites \X File /\ unguarded \subseteq Time
    /\ missed \subseteq Suites \X Time /\ doubled \subseteq Suites

(* Where versions are not to be reused, neither in the suite nor in the    *)
(* archive, a name in pool/ has had one content for all the history of the *)
(* suite: also after the package was removed and its item expired          *)
(* (debian_suite.py:117-234; the responses are cached for a year).         *)
PoolHistory ==
    \A x, y \in published :
        x[1] = y[1] /\ x[2][1] = y[2][1] /\ {x[1], Archive} \cap may_reuse = {}
          => x = y

(* The suites of an archive serve one content for each name in pool/,      *)
(* whatever the order in which packages were added to suites and suites to *)
(* the archive, save for items whose constraints a transaction could not   *)
(* see or has deleted (PoolFileView, web/archives/views.py:217-224).       *)
PoolServed ==
    LET served == {i \in Active(db.items) : /\ i.created \notin unguarded
                                            /\ Active(Of(db.members, i.suite)) # {}}
    IN  \A i, j \in served : \A f \in Files[i.artifact], g \in Files[j.artifact] :
           f[1] = g[1] => f = g

(* The generations of a suite do not overlap in time, in whatever order    *)
(* their tasks have run, and one of them is in force, unless two ran in    *)
(* transactions that overlapped (generate_suite_indexes.py:890-921).       *)
IndexChain ==
    \A s \in Suites \ doubled :
        /\ \A t \in Time : Cardinality(active_at(Of(db.indexes, s), t)) <= 1
        /\ Of(db.indexes, s) # {} => Active(Of(db.indexes, s)) # {}

(* A suite that update_suites leaves alone has indexes that list exactly   *)
(* the packages that it has (update_suites.py:50-125), unless a change was *)
(* committed after the generation whose time is later than the change, or  *)
(* was forgotten before any generation.                                    *)
StaleOrListed ==
    \A s \in Suites : \A g \in Active(Of(db.indexes, s)) :
        \/ Stale(s) \/ s \in doubled \/ <<s, g.created>> \in missed
        \/ g.listed = Created(Active(Of(db.items, s)))

(* What the repository serves for a time in the past never turns into      *)
(* something else: it may expire, and a generation may change the times    *)
(* from its own on (SuiteFileView, web/archives/views.py:126-149), if no   *)
(* two of them have overlapped.                                            *)
Served(s, t) == {g.listed : g \in active_at(Of(db.indexes, s), t)}
SnapshotStable ==
    [][\A s \in Suites \ doubled, t \in 1 .. clock :
          \/ Served(s, t) = {} \/ Served(s, t)' \subseteq Served(s, t)
          \/ \E p \in Procs : \E k \in tx[p].task : k.suite = s /\ k.at <= t]_vars
===============================================================================
