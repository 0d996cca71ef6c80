----------------------- MODULE WorkRequestsSuccessProofs ---------------------
(***************************************************************************)
(* A workflow that has completed with success has no child that failed, or *)
(* has still to run, in every behaviour of WorkRequests, for every plan    *)
(* without sub-workflows: populate(), the cascades that end a workflow and *)
(* those that run it again, and the Celery tasks that populate it again.   *)
(***************************************************************************)
EXTENDS WorkRequestsProofs

USE DEF None, Delay

Flat == \A s \in Step : Plan[s].type = "Workflow" => Plan[s].parent = 0

Won(d, p) ==
    /\ Type(d, p) = "Workflow"
    /\ d[p].status = "completed" /\ d[p].result = "success"

(* It could not be populated, and cannot be retried.                       *)
Closed(d, p) == d[p].status = "completed" /\ d[p].result = "error"

(* All that a workflow consists of was created, unless none of the Celery  *)
(* tasks S is there to populate it again.                                  *)
Filled(d, p) ==
    \A s \in Step : Plan[s].parent = d[p].step => Existing(d, s) # {}
Whole(d, S, p) == p \in S => Filled(d, p)
Safe(d, S, p) == Whole(d, S, p) \/ Closed(d, p)

(* No reason for its workflow not to have succeeded.                       *)
Fair(d, i) ==
    \/ Superseded(d, i) \/ AllowFailure(d, i)
    \/ d[i].status = "completed" /\ d[i].result \in {"success", "skipped"}

Active == {"pending", "running"}

(* The children of what has ended well wait forever, or have ended well,   *)
(* or were allowed to fail; those of what is about to have completed.      *)
Deserved(d, p) ==
    \A i \in Children(d, p) : d[i].status \notin Active /\ Fair(d, i)
Done(d, p) ==
    /\ Deserved(d, p)
    /\ \A i \in Children(d, p) : Superseded(d, i) \/ d[i].status = "completed"

Rooted(d) == \A p \in DOMAIN d : Type(d, p) = "Workflow" => d[p].parent = None
Earned(d) == \A p \in DOMAIN d : Won(d, p) => Deserved(d, p)

(* While workflow q is being populated.                                    *)
Honest(d, S, q) ==
    /\ Rooted(d) /\ Earned(d)
    /\ \A p \in DOMAIN d : Type(d, p) = "Workflow" =>
          /\ Won(d, p) => Whole(d, S, p)
          /\ p # q /\ Children(d, p) # {} => Safe(d, S, p)

(* Calls that are only ever the next one, and those that populate, or note *)
(* that populate() has raised.                                             *)
Heads(d, c) ==
    c.op \in {"orchestrate", "mark_completed"} /\ Type(d, c.w) = "Workflow"
Fills(d, c) == Heads(d, c) /\ (c.op = "mark_completed" => c.arg = "error")
Populating(d, cs) ==
    IF cs # <<>> /\ Fills(d, Head(cs)) THEN Head(cs).w ELSE None

(* The requests Celery is, or may be, asked to orchestrate.                *)
Scheduled(cs) == {i \in Id : \E c \in Frames(cs) : c.op = "schedule_each" /\ i \in c.set}
Sent == queued \cup on_commit \cup Scheduled(calls)

Tells(d, c, S, q) ==
    /\ /\ c.op = "maybe_finish_workflow" /\ c.w \notin {None, q}
       /\ Type(d, c.w) = "Workflow"
       => Safe(d, S, c.w)
    /\ Reacts(d, c) =>
          LET p == d[c.w].parent
          IN  /\ p # None
              /\ IF c.arg = "completed"
                 THEN /\ d[p].result # "success"
                      /\ d[p].result = "error" => Closed(d, p)
                 ELSE ~Closed(d, p)
    /\ c.op = "schedule_each" =>
          \A i \in c.set : d[i].parent # None => ~Won(d, d[i].parent)
    /\ \A i \in Mentions(c) : Type(d, i) = "Workflow" => ~Closed(d, i)
    /\ c.op = "orchestrate" /\ Type(d, c.w) = "Workflow" =>
          /\ \A s \in c.set : Plan[s].parent = d[c.w].step
          /\ \A s \in Step \ c.set :
                Plan[s].parent = d[c.w].step => Existing(d, s) # {}
          /\ c.w \in S => d[c.w].status = "running"
          /\ Won(d, c.w) => Filled(d, c.w)
    /\ c.op = "mark_completed" /\ Type(d, c.w) = "Workflow" =>
          /\ c.arg = "success" => Done(d, c.w) /\ Whole(d, S, c.w)
          /\ c.arg = "error" /\ c.w \in S => d[c.w].status = "running"

(* Nothing below what is populating aborts, schedules or reacts.           *)
Still(d, c) == Mentions(c) = {} /\ ~Reacts(d, c)
Shape(d, cs) ==
    cs # <<>> => \A c \in Frames(Tail(cs)) :
                    ~Heads(d, c) /\ (Fills(d, Head(cs)) => Still(d, c))

Honesty ==
    /\ Honest(db, Sent, Populating(db, calls))
    /\ Honest(committed, queued, None)
    /\ Shape(db, calls)
    /\ \A c \in Frames(calls) : Tells(db, c, Sent, Populating(db, calls))

-----------------------------------------------------------------------------
(* Tables in which no workflow is won, or closed, that was not before.     *)

Fares(d, e) ==
    /\ IsTable(e) /\ Len(d) <= Len(e)
    /\ \A j \in 1..Len(d) :
          /\ SameTask(d[j], e[j])
          /\ Type(d, j) = "Workflow" =>
                /\ Won(e, j) => Won(d, j)
                /\ Closed(e, j) <=> Closed(d, j)
                /\ e[j].result \in {d[j].result, "none"}
          /\ d[j].parent # None /\ Won(e, d[j].parent) =>
                /\ e[j].status \in Active => d[j].status \in Active
                /\ Fair(d, j) => Fair(e, j)
    /\ \A n \in (Len(d) + 1)..Len(e) :
          /\ Type(e, n) = "Workflow" => e[n].parent = None /\ ~Won(e, n)
          /\ e[n].parent # None /\ Won(e, e[n].parent) =>
                e[n].status \notin Active /\ Fair(e, n)

(* What makes rows do so, when no row is created.                          *)
Mild(d, e, j) ==
    \/ e[j].status = d[j].status /\ e[j].result = d[j].result
    \/ /\ Type(d, j) = "Workflow" /\ d[j].parent = None
       /\ ~Closed(d, j) /\ ~Closed(e, j) /\ ~Won(e, j)
       /\ e[j].result \in {d[j].result, "none"}
    \/ /\ Type(d, j) # "Workflow"
       /\ d[j].parent # None =>
             \/ ~Won(d, d[j].parent)
             \/ d[j].status # "completed" /\ e[j].status \notin Active

LEMMA SameKinds ==
    ASSUME NEW d, NEW e, NEW J, \A j \in J : SameTask(d[j], e[j])
    PROVE  \A j \in J : /\ Type(e, j) = Type(d, j)
                        /\ AllowFailure(e, j) = AllowFailure(d, j)
                        /\ e[j].parent = d[j].parent /\ e[j].step = d[j].step
<1> SUFFICES ASSUME NEW j \in J
             PROVE  /\ Type(e, j) = Type(d, j)
                    /\ AllowFailure(e, j) = AllowFailure(d, j)
                    /\ e[j].parent = d[j].parent /\ e[j].step = d[j].step
  OBVIOUS
<1>1. SameTask(d[j], e[j])
  OBVIOUS
<1> QED
  BY <1>1, SameEntry DEF SameTask

LEMMA MildFares ==
    ASSUME NEW d, NEW e, IsTable(d), Keeps(d, e),
           \A j \in 1..Len(d) : Mild(d, e, j)
    PROVE  Fares(d, e)
<1>1. /\ IsTable(e) /\ Len(e) = Len(d) /\ Len(d) \in Nat
      /\ \A j \in 1..Len(d) : SameTask(d[j], e[j])
      /\ \A j : Superseded(e, j) <=> Superseded(d, j)
  BY TableFacts, SameSuperseded DEF Keeps
<1>2. \A j \in 1..Len(d) : /\ Type(e, j) = Type(d, j)
                           /\ AllowFailure(e, j) = AllowFailure(d, j)
  BY <1>1, SameKinds
<1>3. \A j \in 1..Len(d) : d[j].parent # None => d[j].parent \in 1..Len(d)
  BY TableFacts, RowFacts
<1>4. ASSUME NEW j \in 1..Len(d), Type(d, j) = "Workflow"
      PROVE  /\ Won(e, j) => Won(d, j)
             /\ Closed(e, j) <=> Closed(d, j)
             /\ e[j].result \in {d[j].result, "none"}
  BY <1>2, <1>4 DEF Mild, Won, Closed
<1>5. ASSUME NEW j \in 1..Len(d), d[j].parent # None, Won(e, d[j].parent)
      PROVE  /\ e[j].status \in Active => d[j].status \in Active
             /\ Fair(d, j) => Fair(e, j)
  <2>1. Won(d, d[j].parent)
    <3>1. Type(d, d[j].parent) = "Workflow"
      BY <1>2, <1>3, <1>5 DEF Won
    <3> QED
      BY <1>3, <1>4, <1>5, <3>1
  <2>2. \/ e[j].status = d[j].status /\ e[j].result = d[j].result
        \/ d[j].status # "completed" /\ e[j].status \notin Active
    BY <1>5, <2>1 DEF Mild
  <2> QED
    BY <1>1, <1>2, <2>2 DEF Fair
<1>6. \A n \in (Len(d) + 1)..Len(e) : FALSE
  BY <1>1
<1> QED
  BY <1>1, <1>4, <1>5, <1>6 DEF Fares

LEMMA FaresReflexive ==
    ASSUME NEW d, IsTable(d)
    PROVE  Fares(d, d)
  BY KeepsReflexive, MildFares DEF Mild

LEMMA FaresTransitive ==
    ASSUME NEW d, NEW e, NEW f, IsTable(d), Fares(d, e), Fares(e, f)
    PROVE  Fares(d, f)
<1>1. /\ IsTable(e) /\ IsTable(f)
      /\ Len(d) \in Nat /\ Len(e) \in Nat /\ Len(f) \in Nat
      /\ Len(d) <= Len(e) /\ Len(e) <= Len(f)
  BY TableFacts DEF Fares
<1>2. \A j \in 1..Len(d) : /\ j \in 1..Len(e)
                           /\ SameTask(d[j], e[j]) /\ SameTask(e[j], f[j])
                           /\ SameTask(d[j], f[j]) /\ Type(e, j) = Type(d, j)
  <2>1. \A j \in 1..Len(d) : j \in 1..Len(e)
    BY <1>1
  <2>2. \A j \in 1..Len(d) : SameTask(d[j], e[j]) /\ SameTask(e[j], f[j])
    BY <2>1 DEF Fares
  <2> QED
    BY <2>1, <2>2, SameKinds DEF SameTask
<1>3. \A j \in 1..Len(e) : /\ SameTask(e[j], f[j]) /\ Type(f, j) = Type(e, j)
  <2>1. \A j \in 1..Len(e) : SameTask(e[j], f[j])
    BY DEF Fares
  <2> QED
    BY <2>1, SameKinds
<1>4. \A j \in 1..Len(e) : e[j].parent # None => e[j].parent \in 1..Len(e)
  BY <1>1, TableFacts, RowFacts
<1>5. \A p \in 1..Len(e) : Won(f, p) => Won(e, p)
  BY <1>3 DEF Fares, Won
<1>6. ASSUME NEW j \in 1..Len(d), Type(d, j) = "Workflow"
      PROVE  /\ Won(f, j) => Won(d, j)
             /\ Closed(f, j) <=> Closed(d, j)
             /\ f[j].result \in {d[j].result, "none"}
  <2>1. /\ Won(e, j) => Won(d, j)
        /\ Closed(e, j) <=> Closed(d, j)
        /\ e[j].result \in {d[j].result, "none"}
    BY <1>6 DEF Fares
  <2>2. /\ Won(f, j) => Won(e, j)
        /\ Closed(f, j) <=> Closed(e, j)
        /\ f[j].result \in {e[j].result, "none"}
    BY <1>2, <1>6 DEF Fares
  <2> QED
    BY <2>1, <2>2
<1>7. ASSUME NEW j \in 1..Len(d), d[j].parent # None, Won(f, d[j].parent)
      PROVE  /\ f[j].status \in Active => d[j].status \in Active
             /\ Fair(d, j) => Fair(f, j)
  <2>1. e[j].parent = d[j].parent /\ j \in 1..Len(e)
    BY <1>2 DEF SameTask
  <2>2. Won(e, e[j].parent)
    BY <1>4, <1>5, <1>7, <2>1
  <2>3. /\ e[j].status \in Active => d[j].status \in Active
        /\ Fair(d, j) => Fair(e, j)
    BY <1>7, <2>1, <2>2 DEF Fares
  <2>4. /\ f[j].status \in Active => e[j].status \in Active
        /\ Fair(e, j) => Fair(f, j)
    BY <1>7, <2>1 DEF Fares
  <2> QED
    BY <2>3, <2>4
<1>8. ASSUME NEW n \in (Len(d) + 1)..Len(f)
      PROVE  /\ Type(f, n) = "Workflow" => f[n].parent = None /\ ~Won(f, n)
             /\ f[n].parent # None /\ Won(f, f[n].parent) =>
                   f[n].status \notin Active /\ Fair(f, n)
  <2>1. CASE n \in (Len(e) + 1)..Len(f)
    BY <2>1 DEF Fares
  <2>2. CASE n \in (Len(d) + 1)..Len(e)
    <3>1. n \in 1..Len(e)
      BY <1>1, <2>2
    <3>2. /\ SameTask(e[n], f[n]) /\ Type(f, n) = Type(e, n)
          /\ f[n].parent = e[n].parent
      BY <1>3, <3>1 DEF SameTask
    <3>3. Type(f, n) = "Workflow" => f[n].parent = None /\ ~Won(f, n)
      BY <1>5, <2>2, <3>1, <3>2 DEF Fares
    <3>4. ASSUME f[n].parent # None, Won(f, f[n].parent)
          PROVE  f[n].status \notin Active /\ Fair(f, n)
      <4>1. Won(e, e[n].parent)
        BY <1>4, <1>5, <3>1, <3>2, <3>4
      <4>2. e[n].status \notin Active /\ Fair(e, n)
        BY <2>2, <3>2, <3>4, <4>1 DEF Fares
      <4> QED
        BY <3>1, <3>2, <3>4, <4>2 DEF Fares
    <3> QED
      BY <3>3, <3>4
  <2> QED
    BY <1>1, <2>1, <2>2
<1> QED
  BY <1>1, <1>2, <1>6, <1>7, <1>8 DEF Fares

(* Children of what is won keep deserving it.                              *)
LEMMA FaresEarned ==
    ASSUME NEW d, NEW e, IsTable(d), Fares(d, e), Rooted(d), Earned(d)
    PROVE  Rooted(e) /\ Earned(e)
<1>1. /\ IsTable(e) /\ Len(d) \in Nat /\ Len(e) \in Nat /\ Len(d) <= Len(e)
      /\ DOMAIN d = 1..Len(d) /\ DOMAIN e = 1..Len(e)
  BY TableFacts DEF Fares
<1>2. \A j \in 1..Len(d) : /\ SameTask(d[j], e[j]) /\ Type(e, j) = Type(d, j)
                           /\ e[j].parent = d[j].parent
  <2>1. \A j \in 1..Len(d) : SameTask(d[j], e[j])
    BY DEF Fares
  <2>2. \A j \in 1..Len(d) : Type(e, j) = Type(d, j) /\ e[j].parent = d[j].parent
    BY <2>1, SameKinds
  <2> QED
    BY <2>1, <2>2
<1>3. \A j \in 1..Len(e) : j \in 1..Len(d) \/ j \in (Len(d) + 1)..Len(e)
  BY <1>1
<1>4. Rooted(e)
  <2> SUFFICES ASSUME NEW p \in 1..Len(e), Type(e, p) = "Workflow"
               PROVE  e[p].parent = None
    BY <1>1 DEF Rooted
  <2>1. CASE p \in 1..Len(d)
    BY <1>1, <1>2, <2>1 DEF Rooted
  <2>2. CASE p \in (Len(d) + 1)..Len(e)
    BY <2>2 DEF Fares
  <2> QED
    BY <1>3, <2>1, <2>2
<1>5. ASSUME NEW p \in 1..Len(e), Won(e, p), NEW i \in Children(e, p)
      PROVE  e[i].status \notin Active /\ Fair(e, i)
  <2>1. p \in 1..Len(d) /\ Won(d, p)
    <3>1. Type(e, p) = "Workflow"
      BY <1>5 DEF Won
    <3>2. p \notin (Len(d) + 1)..Len(e)
      BY <1>5, <3>1 DEF Fares
    <3>3. p \in 1..Len(d)
      BY <1>3, <3>2
    <3>4. Type(d, p) = "Workflow"
      BY <1>2, <3>1, <3>3
    <3> QED
      BY <1>5, <3>3, <3>4 DEF Fares
  <2>2. i \in 1..Len(e) /\ e[i].parent = p /\ p # None
    <3>1. p # 0
      BY <1>1, <2>1
    <3>2. i \in DOMAIN e /\ e[i].parent = p
      BY <1>5 DEF Children
    <3> QED
      BY <1>1, <3>1, <3>2
  <2>3. CASE i \in 1..Len(d)
    <3>1. i \in Children(d, p)
      BY <1>1, <1>2, <2>2, <2>3 DEF Children
    <3>2. d[i].status \notin Active /\ Fair(d, i)
      BY <1>1, <2>1, <3>1 DEF Earned, Deserved
    <3> QED
      BY <1>2, <1>5, <2>2, <2>3, <3>2 DEF Fares
  <2>4. CASE i \in (Len(d) + 1)..Len(e)
    BY <1>5, <2>2, <2>4 DEF Fares
  <2> QED
    BY <1>3, <2>2, <2>3, <2>4
<1>6. Earned(e)
  BY <1>1, <1>5 DEF Earned, Deserved
<1> QED
  BY <1>4, <1>6

(* What was created stays.                                                 *)
LEMMA FaresFilled ==
    ASSUME NEW d, NEW e, IsTable(d), Fares(d, e)
    PROVE  /\ \A s \in Step : Existing(d, s) \subseteq Existing(e, s)
           /\ \A p \in 1..Len(d) : Filled(d, p) => Filled(e, p)
           /\ \A p \in 1..Len(d) : Children(d, p) \subseteq Children(e, p)
           /\ \A p \in 1..Len(d) : \A S, T : T \subseteq S =>
                 /\ Whole(d, S, p) => Whole(e, T, p)
                 /\ Safe(d, S, p) /\ Type(d, p) = "Workflow" => Safe(e, T, p)
<1>1. /\ DOMAIN d = 1..Len(d) /\ DOMAIN e = 1..Len(e)
      /\ \A j \in 1..Len(d) : j \in 1..Len(e) /\ SameTask(d[j], e[j])
  <2>1. IsTable(e) /\ Len(d) \in Nat /\ Len(e) \in Nat /\ Len(d) <= Len(e)
    BY TableFacts DEF Fares
  <2> QED
    BY <2>1, TableFacts DEF Fares
<1>2. \A s \in Step : Existing(d, s) \subseteq Existing(e, s)
  BY <1>1 DEF Existing, SameTask
<1>3. \A p \in 1..Len(d) : Filled(d, p) => Filled(e, p)
  BY <1>1, <1>2 DEF Filled, SameTask
<1>4. \A p \in 1..Len(d) : Children(d, p) \subseteq Children(e, p)
  BY <1>1 DEF Children, SameTask
<1>5. \A p \in 1..Len(d) : Type(d, p) = "Workflow" /\ Closed(d, p) => Closed(e, p)
  BY DEF Fares
<1> QED
  BY <1>2, <1>3, <1>4, <1>5 DEF Whole, Safe

-----------------------------------------------------------------------------
(* What the methods write.                                                 *)

(* One row: what happens to it counts.                                     *)
LEMMA OneFares ==
    ASSUME NEW d, NEW e, IsTable(d), Keeps(d, e), NEW i,
           \A j \in 1..Len(d) : j # i => /\ e[j].status = d[j].status
                                         /\ e[j].result = d[j].result,
           i \in 1..Len(d) => Mild(d, e, i)
    PROVE  Fares(d, e)
<1>1. \A j \in 1..Len(d) : Mild(d, e, j)
  BY DEF Mild
<1> QED
  BY <1>1, MildFares

LEMMA SetFares ==
    ASSUME NEW d, IsTable(d), NEW i, NEW st \in Statuses,
           i \in 1..Len(d) =>
              \/ /\ Type(d, i) = "Workflow" /\ d[i].parent = None
                 /\ ~Closed(d, i)
                 /\ st = "completed" => d[i].result \notin {"success", "error"}
              \/ /\ Type(d, i) # "Workflow"
                 /\ d[i].parent # None =>
                       \/ ~Won(d, d[i].parent)
                       \/ d[i].status # "completed" /\ st \notin Active
              \/ st = d[i].status
    PROVE  Fares(d, Set(d, i, st))
<1> DEFINE e == Set(d, i, st)
<1>1. Keeps(d, e)
  BY SetKeeps
<1>2. \A j \in 1..Len(d) : /\ e[j].status = IF j = i THEN st ELSE d[j].status
                           /\ e[j].result = d[j].result
  <2>1. \A j \in 1..Len(d) : d[j] \in Row(Len(d)) /\ j \in DOMAIN d
    BY TableFacts
  <2> QED
    BY <2>1 DEF Set, Row
<1> HIDE DEF e
<1>3. i \in 1..Len(d) => Mild(d, e, i)
  BY <1>2 DEF Mild, Closed, Won
<1>4. Fares(d, e)
  BY <1>1, <1>2, <1>3, OneFares
<1> QED
  BY <1>4 DEF e

LEMMA SetWorkerFares ==
    ASSUME NEW d, IsTable(d), NEW i, NEW k \in Workers \cup {None}
    PROVE  Fares(d, [d EXCEPT ![i].worker = k])
<1> DEFINE e == [d EXCEPT ![i].worker = k]
<1>1. Keeps(d, e)
  BY SetWorkerKeeps
<1>2. \A j \in 1..Len(d) : /\ e[j].status = d[j].status
                           /\ e[j].result = d[j].result
  <2>1. \A j \in 1..Len(d) : d[j] \in Row(Len(d)) /\ j \in DOMAIN d
    BY TableFacts
  <2> QED
    BY <2>1 DEF Row
<1> HIDE DEF e
<1>3. Fares(d, e)
  BY <1>1, <1>2, MildFares DEF Mild
<1> QED
  BY <1>3 DEF e

LEMMA SetRetryCountFares ==
    ASSUME NEW d, IsTable(d), NEW i, NEW c \in Nat
    PROVE  Fares(d, [d EXCEPT ![i].retry_count = c])
<1> DEFINE e == [d EXCEPT ![i].retry_count = c]
<1>1. Keeps(d, e)
  BY SetRetryCountKeeps
<1>2. \A j \in 1..Len(d) : /\ e[j].status = d[j].status
                           /\ e[j].result = d[j].result
  <2>1. \A j \in 1..Len(d) : d[j] \in Row(Len(d)) /\ j \in DOMAIN d
    BY TableFacts
  <2> QED
    BY <2>1 DEF Row
<1> HIDE DEF e
<1>3. Fares(d, e)
  BY <1>1, <1>2, MildFares DEF Mild
<1> QED
  BY <1>3 DEF e

(* What mark_completed and Reopen write.                                   *)
LEMMA FinishRows ==
    ASSUME NEW d, IsTable(d), NEW i, NEW st, NEW res
    PROVE  LET e == [d EXCEPT ![i].status = st, ![i].result = res]
           IN  \A j \in 1..Len(d) :
                  /\ e[j].status = IF j = i THEN st ELSE d[j].status
                  /\ e[j].result = IF j = i THEN res ELSE d[j].result
<1>1. \A j \in 1..Len(d) : d[j] \in Row(Len(d)) /\ j \in DOMAIN d
  BY TableFacts
<1> QED
  BY <1>1 DEF Row

LEMMA FinishFares ==
    ASSUME NEW d, IsTable(d), NEW i \in 1..Len(d), NEW res \in Results,
           Type(d, i) # "Workflow",
           d[i].parent # None => ~Won(d, d[i].parent)
    PROVE  Fares(d, [d EXCEPT ![i].status = "completed", ![i].result = res])
<1> DEFINE e == [d EXCEPT ![i].status = "completed", ![i].result = res]
<1>1. Keeps(d, e)
  BY FinishKeeps DEF Statuses
<1>2. \A j \in 1..Len(d) : j # i => /\ e[j].status = d[j].status
                                    /\ e[j].result = d[j].result
  BY FinishRows
<1> HIDE DEF e
<1>3. Fares(d, e)
  BY <1>1, <1>2, OneFares DEF Mild
<1> QED
  BY <1>3 DEF e

LEMMA ReopenFares ==
    ASSUME NEW d, IsTable(d), Rooted(d), NEW p,
           p # None => p \in 1..Len(d) /\ Type(d, p) = "Workflow"
    PROVE  Fares(d, Reopen(d, p))
<1> DEFINE e == [d EXCEPT ![p].status = "running", ![p].result = "none"]
<1>1. Fares(d, d)
  BY FaresReflexive
<1>2. ASSUME p # None, is_aborted_failed(d, p)
      PROVE  Fares(d, e)
  <2>1. Keeps(d, e)
    BY FinishKeeps DEF Statuses, Results
  <2>2. \A j \in 1..Len(d) :
           /\ e[j].status = IF j = p THEN "running" ELSE d[j].status
           /\ e[j].result = IF j = p THEN "none" ELSE d[j].result
    BY FinishRows
  <2>3. p \in DOMAIN d /\ p \in 1..Len(d)
    BY <1>2, TableFacts
  <2> HIDE DEF e
  <2>4. Mild(d, e, p)
    BY <1>2, <2>2, <2>3 DEF Mild, Rooted, is_aborted_failed, Closed, Won
  <2> QED
    BY <2>1, <2>2, <2>4, OneFares
<1> QED
  BY <1>1, <1>2 DEF Reopen

(* What can be unblocked is not a child of what is won.                    *)
LEMMA MarkPendingFares ==
    ASSUME NEW d, IsTable(d), Rooted(d), NEW S,
           \A i \in S \cap DOMAIN d : can_be_unblocked(d, i)
    PROVE  Fares(d, mark_pending(d, S))
<1> DEFINE e == mark_pending(d, S)
<1>1. Keeps(d, e)
  BY MarkPendingKeeps
<1>2. \A j \in 1..Len(d) :
         /\ e[j].status = IF j \in S THEN "pending" ELSE d[j].status
         /\ e[j].result = d[j].result
  <2>1. \A j \in 1..Len(d) : d[j] \in Row(Len(d)) /\ j \in DOMAIN d
    BY TableFacts
  <2> QED
    BY <2>1 DEF mark_pending, Row
<1>3. DOMAIN d = 1..Len(d)
  BY TableFacts
<1> HIDE DEF e
<1>4. ASSUME NEW j \in 1..Len(d)
      PROVE  Mild(d, e, j)
  <2>1. CASE j \notin S
    BY <1>2, <2>1 DEF Mild
  <2>2. CASE j \in S
    <3>1. can_be_unblocked(d, j)
      BY <1>3, <2>2
    <3>2. d[j].parent # None => ~Won(d, d[j].parent)
      BY <3>1 DEF can_be_unblocked, Won
    <3>3. d[j].status = "blocked"
      BY <3>1 DEF can_be_unblocked
    <3> QED
      BY <1>2, <1>3, <2>2, <3>2, <3>3 DEF Mild, Rooted, Closed, Won
  <2> QED
    BY <2>1, <2>2
<1>5. Fares(d, e)
  BY <1>1, <1>4, MildFares
<1> QED
  BY <1>5 DEF e

(* Pending requests that are blocked again.                                *)
LEMMA DemoteFares ==
    ASSUME NEW d, NEW e, IsTable(d), Rooted(d), Keeps(d, e),
           \A j \in 1..Len(d) :
              /\ e[j].result = d[j].result
              /\ \/ e[j].status = d[j].status
                 \/ d[j].status = "pending" /\ e[j].status = "blocked"
    PROVE  Fares(d, e)
<1>1. ASSUME NEW j \in 1..Len(d)
      PROVE  Mild(d, e, j)
  <2>1. CASE e[j].status = d[j].status
    BY <2>1 DEF Mild
  <2>2. CASE d[j].status = "pending" /\ e[j].status = "blocked"
    <3>1. j \in DOMAIN d
      BY TableFacts
    <3>2. e[j].result = d[j].result
      OBVIOUS
    <3> QED
      BY <2>2, <3>1, <3>2 DEF Mild, Rooted, Closed, Won, Active
  <2> QED
    BY <2>1, <2>2
<1> QED
  BY <1>1, MildFares

LEMMA AddDependenciesFares ==
    ASSUME NEW d, IsTable(d), Rooted(d), NEW i,
           NEW deps \in SUBSET (1..Len(d))
    PROVE  LET e == add_dependencies(d, i, deps)
           IN  /\ Fares(d, e) /\ Len(e) = Len(d)
               /\ \A j \in 1..Len(d) :
                     d[j].status = "running" => e[j].status = "running"
<1> DEFINE e == add_dependencies(d, i, deps)
<1>1. Keeps(d, e)
  BY AddDependenciesKeeps
<1>2. \A j \in 1..Len(d) :
         /\ e[j].result = d[j].result
         /\ \/ e[j].status = d[j].status
            \/ d[j].status = "pending" /\ e[j].status = "blocked"
  <2>1. \A j \in 1..Len(d) : d[j] \in Row(Len(d)) /\ j \in DOMAIN d
    BY TableFacts
  <2> QED
    BY <2>1 DEF add_dependencies, Row
<1> HIDE DEF e
<1>3. Fares(d, e) /\ Len(e) = Len(d)
  BY <1>1, <1>2, DemoteFares DEF Keeps
<1> QED
  BY <1>2, <1>3 DEF e

LEMMA RepointFares ==
    ASSUME NEW d, IsTable(d), Rooted(d), NEW i, NEW n \in 1..Len(d)
    PROVE  Fares(d, Repoint(d, i, n))
<1> DEFINE e == Repoint(d, i, n)
<1>1. Keeps(d, e)
  BY RepointKeeps
<1>2. \A j \in 1..Len(d) :
         /\ e[j].result = d[j].result
         /\ \/ e[j].status = d[j].status
            \/ d[j].status = "pending" /\ e[j].status = "blocked"
  <2>1. \A j \in 1..Len(d) : d[j] \in Row(Len(d)) /\ j \in DOMAIN d
    BY TableFacts
  <2>2. ASSUME NEW j \in 1..Len(d), i \in d[j].deps
        PROVE  /\ e[j].result = d[j].result
               /\ \/ e[j].status = d[j].status
                  \/ d[j].status = "pending" /\ e[j].status = "blocked"
    <3> DEFINE r == d[j]
               st == IF r.status = "pending"
                        /\ Entry(d, j).unblock_strategy = "deps"
                     THEN "blocked" ELSE r.status
    <3>1. e[j] = [r EXCEPT !.deps = (r.deps \ {i}) \cup {n}, !.status = st]
      BY <2>1, <2>2 DEF Repoint
    <3>2. st = r.status \/ (r.status = "pending" /\ st = "blocked")
      OBVIOUS
    <3>3. r \in Row(Len(d))
      BY <2>1
    <3> HIDE DEF e, r, st
    <3>4. e[j].result = r.result /\ e[j].status = st
      BY <3>1, <3>3 DEF Row
    <3> QED
      BY <3>2, <3>4 DEF r
  <2>3. ASSUME NEW j \in 1..Len(d), i \notin d[j].deps
        PROVE  e[j] = d[j]
    BY <2>1, <2>3 DEF Repoint
  <2> HIDE DEF e
  <2> QED
    BY <2>2, <2>3
<1> HIDE DEF e
<1>3. Fares(d, e)
  BY <1>1, <1>2, DemoteFares
<1> QED
  BY <1>3 DEF e

-----------------------------------------------------------------------------
(* New rows.                                                               *)

LEMMA AppendFares ==
    ASSUME NEW d, IsTable(d), NEW r, NEW e, IsTable(e),
           Len(e) = Len(d) + 1, e[Len(d) + 1] = r,
           \A j \in 1..Len(d) : e[j] = d[j],
           r.parent # None => r.parent \in DOMAIN d,
           Type(e, Len(d) + 1) = "Workflow" =>
              r.parent = None /\ r.status # "completed",
           r.parent # None /\ Won(d, r.parent) =>
              r.status \notin Active /\ AllowFailure(e, Len(d) + 1)
    PROVE  Fares(d, e)
<1> DEFINE n == Len(d) + 1
<1>1. /\ Len(d) \in Nat /\ n \in Nat /\ IsTable(e) /\ Len(e) = n
      /\ DOMAIN d = 1..Len(d) /\ DOMAIN e = 1..n
      /\ e[n] = r /\ \A j \in 1..Len(d) : e[j] = d[j]
  BY TableFacts
<1>2. \A j \in 1..Len(d) : SameTask(d[j], e[j])
  BY <1>1 DEF SameTask
<1>3. \A j \in 1..Len(d) : /\ Type(e, j) = Type(d, j)
                           /\ AllowFailure(e, j) = AllowFailure(d, j)
  BY <1>2, SameKinds
<1>4. \A j : Superseded(d, j) => Superseded(e, j)
  <2> SUFFICES ASSUME NEW j, NEW k \in 1..Len(d), d[k].supersedes = j
               PROVE  Superseded(e, j)
    BY <1>1 DEF Superseded
  <2>1. k \in 1..n /\ e[k].supersedes = j
    BY <1>1
  <2> QED
    BY <1>1, <2>1 DEF Superseded
<1>5. \A j \in 1..Len(d) : /\ Won(e, j) <=> Won(d, j)
                           /\ Closed(e, j) <=> Closed(d, j)
                           /\ Fair(d, j) => Fair(e, j)
  BY <1>1, <1>3, <1>4 DEF Won, Closed, Fair
<1>6. \A j \in 1..Len(d) : d[j].parent # None => d[j].parent \in 1..Len(d)
  BY <1>1, RowFacts
<1>7. ASSUME NEW j \in 1..Len(d)
      PROVE  /\ SameTask(d[j], e[j])
             /\ Type(d, j) = "Workflow" =>
                   /\ Won(e, j) => Won(d, j)
                   /\ Closed(e, j) <=> Closed(d, j)
                   /\ e[j].result \in {d[j].result, "none"}
             /\ d[j].parent # None /\ Won(e, d[j].parent) =>
                   /\ e[j].status \in Active => d[j].status \in Active
                   /\ Fair(d, j) => Fair(e, j)
  BY <1>1, <1>2, <1>5
<1>8. /\ Type(e, n) = "Workflow" => e[n].parent = None /\ ~Won(e, n)
      /\ e[n].parent # None /\ Won(e, e[n].parent) =>
            e[n].status \notin Active /\ Fair(e, n)
  <2>1. e[n].parent # None /\ Won(e, e[n].parent) => Won(d, r.parent)
    BY <1>1, <1>5
  <2> QED
    BY <1>1, <2>1 DEF Won, Fair
<1>9. \A m \in n..Len(e) : m = n
  BY <1>1
<1> HIDE DEF n
<1>10. /\ \A j \in 1..Len(d) :
          /\ SameTask(d[j], e[j])
          /\ Type(d, j) = "Workflow" =>
                /\ Won(e, j) => Won(d, j)
                /\ Closed(e, j) <=> Closed(d, j)
                /\ e[j].result \in {d[j].result, "none"}
          /\ d[j].parent # None /\ Won(e, d[j].parent) =>
                /\ e[j].status \in Active => d[j].status \in Active
                /\ Fair(d, j) => Fair(e, j)
       /\ \A m \in n..Len(e) :
          /\ Type(e, m) = "Workflow" => e[m].parent = None /\ ~Won(e, m)
          /\ e[m].parent # None /\ Won(e, e[m].parent) =>
                e[m].status \notin Active /\ Fair(e, m)
  BY <1>7, <1>8, <1>9
<1>11. Len(d) <= Len(e) /\ IsTable(e)
  BY <1>1 DEF n
<1> QED
  BY <1>1, <1>10, <1>11 DEF Fares, n

(* A first attempt.                                                        *)
LEMMA NewRowFares ==
    ASSUME NEW d, IsTable(d), NEW s \in 0..Steps, NEW p \in 0..Len(d),
           NEW st \in {"blocked", "pending"},
           s # Delay /\ Plan[s].type = "Workflow" => p = None,
           p # None => ~Won(d, p)
    PROVE  LET e == Append(d, NewRow(s, p, st))
           IN  /\ Fares(d, e) /\ Len(e) = Len(d) + 1
               /\ e[Len(d) + 1] = NewRow(s, p, st)
               /\ \A j \in 1..Len(d) : e[j] = d[j]
<1> DEFINE r == NewRow(s, p, st)
           n == Len(d) + 1
           e == Append(d, r)
<1>1. /\ Len(d) \in Nat /\ DOMAIN d = 1..Len(d) /\ p \in 0..n
      /\ st \in Statuses
  BY TableFacts DEF Statuses
<1>2. /\ r \in Row(n)
      /\ r.step = s /\ r.parent = p /\ r.status = st
  <2>1. /\ r.step = s /\ r.parent = p /\ r.status = st
    BY DEF NewRow
  <2>2. r \in Row(n)
    <3>1. n \in Nat
      BY <1>1
    <3> HIDE DEF n
    <3> QED
      BY <1>1, <3>1 DEF NewRow, Row, Results
  <2> QED
    BY <2>1, <2>2
<1> HIDE DEF r
<1>3. /\ IsTable(e) /\ Len(e) = n
      /\ e[n] = r /\ \A j \in 1..Len(d) : e[j] = d[j]
  BY <1>1, <1>2, AppendTable
<1> HIDE DEF e
<1>4. Type(e, n) = "Workflow" => r.parent = None /\ r.status # "completed"
  BY <1>2, <1>3 DEF Type, Entry, DelayEntry
<1>5. r.parent # None => r.parent \in DOMAIN d
  BY <1>1, <1>2
<1>7. Fares(d, e)
  BY <1>2, <1>3, <1>4, <1>5, AppendFares
<1> QED
  BY <1>3, <1>7 DEF e, r

(* The next attempt, of what has failed or was aborted.                    *)
LEMMA SupersedeFares ==
    ASSUME NEW d, IsTable(d), Sound(d), Rooted(d), Earned(d),
           NEW i, Retriable(d, i), is_aborted_failed(d, i), NEW reason
    PROVE  Fares(d, retry_supersede(d, i, reason))
<1> DEFINE n == Len(d) + 1
           c == retry_count(d, i, reason)
           r == [d[i] EXCEPT !.status = "blocked", !.result = "none",
                             !.retry_count = c, !.supersedes = i,
                             !.worker = None]
           d1 == Append(d, r)
           d2 == Repoint(d1, i, n)
           d3 == Reopen(d2, d[i].parent)
           S == {n} \cap {j \in DOMAIN d3 : can_be_automatically_unblocked(d3, j)}
           e == mark_pending(d3, S)
<1>1. /\ Len(d) \in Nat /\ n \in Nat /\ d[i] \in Row(Len(d)) /\ d[i] \in Row(n)
      /\ DOMAIN d = 1..Len(d) /\ i \in 1..Len(d)
  BY TableFacts, RowGrows DEF Retriable
<1>2. c \in Nat /\ i \in 0..n
  BY <1>1 DEF retry_count, Row
<1>3. /\ r.step = d[i].step /\ r.parent = d[i].parent
      /\ r.status = "blocked" /\ r \in Row(n)
  <2>1. /\ r.step = d[i].step /\ r.parent = d[i].parent
        /\ r.status = "blocked"
    BY <1>1 DEF Row
  <2>2. r \in Row(n)
    <3> HIDE DEF n, c
    <3> QED
      BY <1>1, <1>2 DEF Row, Statuses, Results
  <2> QED
    BY <2>1, <2>2
<1> HIDE DEF r
<1>4. /\ IsTable(d1) /\ Len(d1) = n /\ d1[n] = r
      /\ \A j \in 1..Len(d) : d1[j] = d[j]
  BY <1>1, <1>3, AppendTable
<1>5. d[i].parent # None => /\ d[i].parent \in 1..Len(d)
                            /\ Type(d, d[i].parent) = "Workflow"
  BY <1>1, RowFacts DEF Sound, Related
<1> HIDE DEF d1
<1>6. /\ Type(d1, n) = Type(d, i) /\ Type(d, i) # "Workflow"
      /\ AllowFailure(d1, n) = AllowFailure(d, i)
  BY <1>1, <1>3, <1>4 DEF Type, AllowFailure, Entry, Retriable
<1>7. r.parent # None /\ Won(d, r.parent) =>
         r.status \notin Active /\ AllowFailure(d1, n)
  <2> SUFFICES ASSUME r.parent # None, Won(d, r.parent)
               PROVE  r.status \notin Active /\ AllowFailure(d1, n)
    OBVIOUS
  <2>1. i \in Children(d, d[i].parent) /\ d[i].parent \in DOMAIN d
    BY <1>1, <1>3, <1>5 DEF Children
  <2>2. Fair(d, i)
    BY <1>3, <2>1 DEF Earned, Deserved
  <2>3. AllowFailure(d, i)
    BY <2>2 DEF Fair, Retriable, is_aborted_failed
  <2> QED
    BY <1>3, <1>6, <2>3 DEF Active
<1>8. Fares(d, d1)
  BY <1>1, <1>3, <1>4, <1>5, <1>6, <1>7, AppendFares
<1>9. Rooted(d1)
  BY <1>8, FaresEarned
<1>10. n \in 1..Len(d1)
  BY <1>1, <1>4
<1> HIDE DEF n
<1>11. Fares(d1, d2) /\ Keeps(d1, d2)
  BY <1>4, <1>9, <1>10, RepointFares, RepointKeeps
<1> HIDE DEF d2
<1>12. IsTable(d2) /\ Rooted(d2)
  <2>1. IsTable(d2)
    BY <1>11 DEF Keeps
  <2>2. Earned(d1)
    BY <1>8, FaresEarned
  <2> QED
    BY <1>4, <1>9, <1>11, <2>1, <2>2, FaresEarned
<1>13. d[i].parent # None => /\ d[i].parent \in 1..Len(d2)
                             /\ Type(d2, d[i].parent) = "Workflow"
  <2> SUFFICES ASSUME d[i].parent # None
               PROVE  /\ d[i].parent \in 1..Len(d2)
                      /\ Type(d2, d[i].parent) = "Workflow"
    OBVIOUS
  <2>1. d[i].parent \in 1..Len(d1) /\ d1[d[i].parent] = d[d[i].parent]
    BY <1>1, <1>4, <1>5 DEF n
  <2>2. d[i].parent \in 1..Len(d2) /\ SameTask(d1[d[i].parent], d2[d[i].parent])
    BY <1>11, <2>1 DEF Keeps
  <2> QED
    BY <1>5, <2>1, <2>2 DEF SameTask, Type, Entry
<1>14. Fares(d2, d3)
  BY <1>12, <1>13, ReopenFares
<1>15. IsTable(d3) /\ Rooted(d3)
  <2>1. IsTable(d3)
    BY <1>14 DEF Fares
  <2>2. Earned(d2)
    <3>1. Earned(d1)
      BY <1>8, FaresEarned
    <3> QED
      BY <1>4, <1>9, <1>11, <3>1, FaresEarned
  <2> HIDE DEF d3
  <2> QED
    BY <1>12, <1>14, <2>1, <2>2, FaresEarned
<1> HIDE DEF d3
<1>16. Fares(d3, e)
  <2>1. \A j \in S \cap DOMAIN d3 : can_be_unblocked(d3, j)
    BY DEF can_be_automatically_unblocked
  <2> HIDE DEF S
  <2> QED
    BY <1>15, <2>1, MarkPendingFares
<1> HIDE DEF S, e
<1>17. Fares(d, e)
  <2>1. Fares(d, d2)
    BY <1>4, <1>8, <1>11, FaresTransitive
  <2>2. Fares(d, d3)
    BY <1>12, <1>14, <2>1, FaresTransitive
  <2> QED
    BY <1>15, <1>16, <2>2, FaresTransitive
<1>18. e = retry_supersede(d, i, reason)
  BY DEF retry_supersede, e, S, d3, d2, d1, r, n
<1> QED
  BY <1>17, <1>18

(* The delay before it, with the parent as mark_completed has read it.     *)
LEMMA DelayedFares ==
    ASSUME NEW d, IsTable(d), Sound(d), Rooted(d), NEW i \in 1..Len(d),
           NEW st \in Statuses, d[i].parent # None,
           IF st = "completed"
           THEN /\ d[d[i].parent].result # "success"
                /\ d[d[i].parent].result = "error" => Closed(d, d[i].parent)
           ELSE ~Closed(d, d[i].parent)
    PROVE  LET e == Delayed(d, i, st)
           IN  /\ Fares(d, e) /\ Len(e) = Len(d) + 1
               /\ e[Len(d) + 1] = NewRow(Delay, d[i].parent, "pending")
               /\ ~Won(e, d[i].parent)
<1> DEFINE p == d[i].parent
           f == Set(d, p, st)
           e == Append(f, NewRow(Delay, p, "pending"))
<1>1. /\ p \in 1..Len(d) /\ p \in DOMAIN d /\ Type(d, p) = "Workflow"
      /\ Len(d) \in Nat
  BY RowFacts, TableFacts DEF Sound, Related
<1>2. d[p].parent = None
  BY <1>1 DEF Rooted
<1>3. f[p].status = st /\ f[p].result = d[p].result
  <2>1. d[p] \in Row(Len(d))
    BY <1>1, TableFacts
  <2> HIDE DEF p
  <2> QED
    BY <1>1, <2>1 DEF Set, Row
<1>4. Fares(d, f) /\ Keeps(d, f)
  <2>1. \/ /\ ~Closed(d, p)
           /\ st = "completed" => d[p].result \notin {"success", "error"}
        \/ st = d[p].status
    BY DEF Closed
  <2> HIDE DEF p
  <2> QED
    BY <1>1, <1>2, <2>1, SetFares, SetKeeps
<1>5. ~Won(f, p)
  BY <1>3 DEF Won
<1>6. IsTable(f) /\ p \in 0..Len(f) /\ Len(f) = Len(d)
  <2>1. IsTable(f) /\ Len(f) = Len(d)
    BY <1>4 DEF Keeps
  <2> QED
    BY <1>1, <2>1
<1> HIDE DEF p, f
<1>7. /\ Fares(f, e) /\ Len(e) = Len(f) + 1
      /\ e[Len(f) + 1] = NewRow(Delay, p, "pending")
      /\ \A j \in 1..Len(f) : e[j] = f[j]
  <2>1. Delay \in 0..Steps /\ "pending" \in {"blocked", "pending"}
    BY WorkRequestsAssumption
  <2> QED
    BY <1>5, <1>6, <2>1, NewRowFares
<1>8. ~Won(e, p)
  <2>1. e[p] = f[p]
    BY <1>1, <1>6, <1>7
  <2> QED
    BY <1>5, <2>1 DEF Won, Type, Entry
<1> HIDE DEF e
<1>9. Fares(d, e)
  BY <1>4, <1>7, FaresTransitive
<1>10. e = Delayed(d, i, st)
  BY DEF e, f, p, Delayed
<1> QED
  BY <1>6, <1>7, <1>8, <1>9, <1>10 DEF p

(* The delay, and the next attempt after it.                               *)
LEMMA RetriedFares ==
    ASSUME NEW d, IsTable(d), IsChain(d), Sound(d), Rooted(d), Earned(d),
           NEW i, Retriable(d, i), is_aborted_failed(d, i),
           NEW st \in Statuses \ Waiting, d[i].parent # None,
           IF st = "completed"
           THEN /\ d[d[i].parent].result # "success"
                /\ d[d[i].parent].result = "error" => Closed(d, d[i].parent)
           ELSE ~Closed(d, d[i].parent)
    PROVE  Fares(d, Retried(d, i, st))
<1> DEFINE e == Delayed(d, i, st)
           n == Len(d)
           p == d[i].parent
           f == retry_supersede(e, i, "delay")
           m == n + 2
           g == add_dependencies(f, m, {n + 1})
<1>1. /\ n \in Nat /\ DOMAIN d = 1..n /\ i \in 1..n /\ i \in DOMAIN d
      /\ Type(d, i) \notin {"Workflow", "Wait"} /\ p # i
  <2>1. n \in Nat /\ DOMAIN d = 1..n /\ i \in 1..n
    BY TableFacts DEF Retriable
  <2>2. Type(d, i) \notin {"Workflow", "Wait"}
    BY DEF Retriable
  <2>3. Type(d, p) = "Workflow"
    BY <2>1 DEF Sound, Related
  <2> QED
    BY <2>1, <2>2, <2>3
<1>2. /\ IsTable(e) /\ IsChain(e) /\ Sound(e) /\ Later(d, e)
      /\ Len(e) = n + 1 /\ DOMAIN e = 1..(n + 1)
      /\ \A j \in 1..n : e[j].status = IF j = p THEN st ELSE d[j].status
      /\ e[n + 1] = NewRow(Delay, p, "pending")
  BY <1>1, DelayedFacts
<1>3. Fares(d, e) /\ ~Won(e, p)
  BY <1>1, DelayedFares
<1>4. g = Retried(d, i, st)
  BY DEF Retried
<1> HIDE DEF e
<1>5. Rooted(e) /\ Earned(e)
  BY <1>3, FaresEarned
<1>6. \A j \in 1..n : SameTask(d[j], e[j])
  BY <1>2 DEF Later
<1>7. e[i].parent = p /\ Type(e, i) = Type(d, i) /\ i \in 1..Len(e)
  BY <1>1, <1>2, <1>6 DEF SameTask, Type, Entry
<1>8. ~Superseded(e, i)
  <2>1. \A j \in 1..n : e[j].supersedes # i
    BY <1>1, <1>6 DEF Retriable, Superseded, SameTask
  <2>2. e[n + 1].supersedes # i
    BY <1>1, <1>2 DEF NewRow
  <2> QED
    BY <1>1, <1>2, <2>1, <2>2 DEF Superseded
<1>9. e[i].status = d[i].status /\ e[i].result = d[i].result
  <2>1. e[i].status = d[i].status
    BY <1>1, <1>2
  <2>2. e[i].result = d[i].result
    <3> DEFINE d0 == Set(d, p, st)
               r == NewRow(Delay, p, "pending")
    <3>1. IsTable(d0) /\ Len(d0) = n /\ d0[i].result = d[i].result
      <4>1. Keeps(d, d0)
        BY SetKeeps
      <4>2. d[i] \in Row(Len(d))
        BY <1>1, TableFacts
      <4>3. d0[i] = d[i]
        BY <1>1 DEF Set
      <4> QED
        BY <4>1, <4>3 DEF Keeps
    <3> HIDE DEF d0
    <3>2. e = Append(d0, r)
      BY DEF e, d0, Delayed
    <3>3. Append(d0, r)[i] = d0[i]
      BY <1>1, <3>1
    <3> QED
      BY <3>1, <3>2, <3>3
  <2> QED
    BY <2>1, <2>2
<1>10. Retriable(e, i) /\ is_aborted_failed(e, i)
  BY <1>1, <1>7, <1>8, <1>9 DEF Retriable, InProgress, is_aborted_failed
<1>11. Fares(e, f)
  BY <1>2, <1>5, <1>10, SupersedeFares
<1>12. Len(f) = n + 2
  <2>1. Len(f) = Len(e) + 1
    BY <1>2, <1>10, SupersedeSound
  <2> QED
    BY <1>1, <1>2, <2>1
<1> HIDE DEF f
<1>13. IsTable(f) /\ Rooted(f)
  BY <1>2, <1>5, <1>11, FaresEarned DEF Fares
<1>14. Fares(f, g)
  <2>1. {n + 1} \in SUBSET (1..Len(f))
    BY <1>1, <1>12
  <2> QED
    BY <1>13, <2>1, AddDependenciesFares
<1> HIDE DEF g
<1>15. Fares(d, f)
  BY <1>2, <1>3, <1>11, FaresTransitive
<1>16. Fares(d, g)
  BY <1>13, <1>14, <1>15, FaresTransitive
<1> QED
  BY <1>4, <1>16

(* A child that is created, or found.                                      *)
LEMMA EnsureChildFares ==
    ASSUME Flat, NEW d, IsTable(d), NEW w \in 1..Len(d), NEW s \in Step,
           Plan[s].parent # 0, Plan[s].parent = d[w].step,
           Won(d, w) => Filled(d, w)
    PROVE  LET e == ensure_child(d, w, s)
           IN  /\ Fares(d, e) /\ Len(e) \in {Len(d), Len(d) + 1}
               /\ \A j \in 1..Len(d) : e[j] = d[j]
               /\ \A j \in 1..Len(e) : j \notin 1..Len(d) => e[j].parent = w
<1> DEFINE st == IF Plan[s].type \in {"Worker", "Wait"} THEN "blocked"
                                                        ELSE "pending"
           f == Append(d, NewRow(s, w, st))
<1>1. st \in {"blocked", "pending"} /\ s \in 0..Steps /\ w \in 0..Len(d)
  <2>1. Steps \in Nat /\ Len(d) \in Nat
    BY WorkRequestsAssumption, TableFacts
  <2> QED
    BY <2>1 DEF Step
<1>2. ensure_child(d, w, s) = IF Existing(d, s) # {} THEN d ELSE f
  BY DEF ensure_child
<1>3. Len(d) \in Nat
  BY TableFacts
<1>4. Plan[s].type # "Workflow"
  BY DEF Flat
<1> HIDE DEF st
<1>5. ASSUME Existing(d, s) = {}
      PROVE  /\ Fares(d, f) /\ Len(f) = Len(d) + 1
             /\ \A j \in 1..Len(d) : f[j] = d[j]
             /\ f[Len(d) + 1].parent = w
  <2>1. ~Won(d, w)
    BY <1>5 DEF Filled
  <2>2. /\ Fares(d, f) /\ Len(f) = Len(d) + 1
        /\ f[Len(d) + 1] = NewRow(s, w, st)
        /\ \A j \in 1..Len(d) : f[j] = d[j]
    BY <1>1, <1>4, <2>1, NewRowFares
  <2> QED
    BY <2>2 DEF NewRow
<1> HIDE DEF f
<1>6. CASE Existing(d, s) = {}
  BY <1>2, <1>3, <1>5, <1>6
<1>7. CASE Existing(d, s) # {}
  BY <1>2, <1>3, <1>7, FaresReflexive
<1> QED
  BY <1>6, <1>7

LEMMA RequiresArtifactsFares ==
    ASSUME NEW d, IsTable(d), Rooted(d), NEW i, NEW new
    PROVE  LET e == requires_artifacts(d, i, new)
           IN  /\ Fares(d, e) /\ Len(e) = Len(d)
               /\ \A j \in 1..Len(d) :
                     d[j].status = "running" => e[j].status = "running"
<1> DEFINE deps == UNION {Promised(d, t) : t \in Entry(d, i).deps}
<1>1. deps \in SUBSET (1..Len(d))
  BY TableFacts DEF Promised
<1> HIDE DEF deps
<1>2. LET e == add_dependencies(d, i, deps)
      IN  /\ Fares(d, e) /\ Len(e) = Len(d)
          /\ \A j \in 1..Len(d) :
                d[j].status = "running" => e[j].status = "running"
  BY <1>1, AddDependenciesFares
<1> QED
  BY <1>2, FaresReflexive DEF requires_artifacts, deps

-----------------------------------------------------------------------------
(* What is true of a table and of the calls that are left stays true.      *)

LEMMA FaresKinds ==
    ASSUME NEW d, NEW e, Fares(d, e)
    PROVE  \A j \in 1..Len(d) : /\ Type(e, j) = Type(d, j)
                                /\ e[j].parent = d[j].parent
                                /\ e[j].step = d[j].step
<1> DEFINE J == 1..Len(d)
<1>1. \A j \in J : SameTask(d[j], e[j])
  BY DEF Fares
<1> HIDE DEF J
<1>2. \A j \in J : /\ Type(e, j) = Type(d, j)
                   /\ e[j].parent = d[j].parent
                   /\ e[j].step = d[j].step
  BY <1>1, SameKinds
<1> QED
  BY <1>2 DEF J

LEMMA HonestKept ==
    ASSUME NEW d, NEW e, IsTable(d), Fares(d, e),
           NEW S, NEW T, T \subseteq S, NEW q, NEW q1, Honest(d, S, q),
           q \in {None, q1} \/ Safe(e, T, q),
           \A n \in 1..Len(e) : n \notin 1..Len(d) =>
              e[n].parent \in {None, q1} \/ Children(d, e[n].parent) # {}
    PROVE  Honest(e, T, q1)
<1>1. /\ DOMAIN d = 1..Len(d) /\ DOMAIN e = 1..Len(e)
      /\ \A j \in 1..Len(d) : j \in 1..Len(e)
      /\ \A n \in 1..Len(e) : n \notin 1..Len(d) => n \in (Len(d) + 1)..Len(e)
  <2>1. IsTable(e) /\ Len(d) \in Nat /\ Len(e) \in Nat /\ Len(d) <= Len(e)
    BY TableFacts DEF Fares
  <2> QED
    BY <2>1, TableFacts
<1>2. Rooted(e) /\ Earned(e)
  BY FaresEarned DEF Honest
<1>3. \A j \in 1..Len(d) : /\ Type(e, j) = Type(d, j)
                           /\ e[j].parent = d[j].parent
  BY FaresKinds
<1>4. \A p : Children(d, p) # {} /\ p # None => p \in 1..Len(d)
  BY <1>1, RowFacts DEF Children
<1>5. ASSUME NEW p \in 1..Len(e), Won(e, p)
      PROVE  Whole(e, T, p)
  <2>1. Type(e, p) = "Workflow"
    BY <1>5 DEF Won
  <2>2. p \in 1..Len(d)
    BY <1>1, <1>5, <2>1 DEF Fares
  <2>3. Won(d, p) /\ Type(d, p) = "Workflow"
    BY <1>3, <1>5, <2>1, <2>2 DEF Fares
  <2>4. Whole(d, S, p)
    BY <1>1, <2>2, <2>3 DEF Honest
  <2> QED
    BY <2>2, <2>4, FaresFilled
<1>6. ASSUME NEW p \in 1..Len(e), Type(e, p) = "Workflow", p # q1,
             NEW i \in Children(e, p)
      PROVE  Safe(e, T, p)
  <2>1. p # None /\ i \in 1..Len(e) /\ e[i].parent = p
    BY <1>1, <1>6 DEF Children
  <2>2. Children(d, p) # {}
    <3>1. CASE i \in 1..Len(d)
      BY <1>1, <1>3, <2>1, <3>1 DEF Children
    <3>2. CASE i \notin 1..Len(d)
      BY <1>6, <2>1, <3>2
    <3> QED
      BY <3>1, <3>2
  <2>3. p \in 1..Len(d) /\ Type(d, p) = "Workflow"
    BY <1>3, <1>4, <1>6, <2>1, <2>2
  <2>4. CASE p = q
    BY <1>6, <2>1, <2>4
  <2>5. CASE p # q
    <3>1. Safe(d, S, p)
      BY <1>1, <2>2, <2>3, <2>5 DEF Honest
    <3> QED
      BY <2>3, <3>1, FaresFilled
  <2> QED
    BY <2>4, <2>5
<1>7. \A p \in DOMAIN e : Type(e, p) = "Workflow" =>
        /\ Won(e, p) => Whole(e, T, p)
        /\ p # q1 /\ Children(e, p) # {} => Safe(e, T, p)
  BY <1>1, <1>5, <1>6
<1> QED
  BY <1>2, <1>7 DEF Honest

LEMMA TellsKept ==
    ASSUME NEW d, NEW e, IsTable(d), Related(d), Fares(d, e),
           NEW S, NEW T, T \subseteq S, NEW q, NEW q1,
           q \in {None, q1} \/ Safe(e, T, q),
           NEW c \in Call(Len(d)), Tells(d, c, S, q), ~Heads(d, c)
    PROVE  /\ Tells(e, c, T, q1) /\ ~Heads(e, c)
           /\ Still(d, c) => Still(e, c)
<1>1. /\ DOMAIN d = 1..Len(d) /\ Len(d) \in Nat
      /\ c.op \in Methods => c.w \in 1..Len(d)
      /\ c.w \in 0..Len(d)
      /\ c.op \in Loops => c.set \subseteq 1..Len(d)
  BY TableFacts DEF Call
<1>2. \A j \in 1..Len(d) : /\ Type(e, j) = Type(d, j)
                           /\ e[j].parent = d[j].parent
  BY FaresKinds
<1>3. Heads(e, c) <=> Heads(d, c)
  BY <1>1, <1>2 DEF Heads, Methods
<1>4. Reacts(e, c) <=> Reacts(d, c)
  BY <1>1, <1>2 DEF Reacts, Methods
<1>5. Mentions(c) \subseteq 1..Len(d)
  BY <1>1 DEF Mentions, Methods, Loops
<1>6. \A j \in 1..Len(d) : Type(d, j) = "Workflow" =>
         /\ Won(e, j) => Won(d, j)
         /\ Closed(e, j) <=> Closed(d, j)
         /\ e[j].result \in {d[j].result, "none"}
  BY DEF Fares
<1>7. \A j \in 1..Len(d) : d[j].parent # None =>
         d[j].parent \in 1..Len(d) /\ Type(d, d[j].parent) = "Workflow"
  BY <1>1, RowFacts DEF Related
<1>8. /\ c.op = "maybe_finish_workflow" /\ c.w \notin {None, q1}
      /\ Type(e, c.w) = "Workflow"
      => Safe(e, T, c.w)
  <2> SUFFICES ASSUME c.op = "maybe_finish_workflow", c.w \notin {None, q1},
                      Type(e, c.w) = "Workflow"
               PROVE  Safe(e, T, c.w)
    OBVIOUS
  <2>1. c.w \in 1..Len(d)
    BY <1>1
  <2>2. Type(d, c.w) = "Workflow"
    BY <1>2, <2>1
  <2>3. CASE c.w = q
    BY <2>3
  <2>4. CASE c.w # q
    <3>1. Safe(d, S, c.w)
      BY <2>2, <2>4 DEF Tells
    <3> QED
      BY <2>1, <2>2, <3>1, FaresFilled
  <2> QED
    BY <2>3, <2>4
<1>9. Reacts(e, c) =>
        LET p == e[c.w].parent
        IN  /\ p # None
            /\ IF c.arg = "completed"
               THEN /\ e[p].result # "success"
                    /\ e[p].result = "error" => Closed(e, p)
               ELSE ~Closed(e, p)
  <2> SUFFICES ASSUME Reacts(d, c)
               PROVE  LET p == e[c.w].parent
                      IN  /\ p # None
                          /\ IF c.arg = "completed"
                             THEN /\ e[p].result # "success"
                                  /\ e[p].result = "error" => Closed(e, p)
                             ELSE ~Closed(e, p)
    BY <1>4
  <2> DEFINE p == d[c.w].parent
  <2>1. c.w \in 1..Len(d)
    BY <1>1 DEF Reacts, Methods
  <2>2. /\ p # None
        /\ IF c.arg = "completed"
           THEN /\ d[p].result # "success"
                /\ d[p].result = "error" => Closed(d, p)
           ELSE ~Closed(d, p)
    BY DEF Tells
  <2>3. e[c.w].parent = p /\ p \in 1..Len(d) /\ Type(d, p) = "Workflow"
    BY <1>2, <1>7, <2>1, <2>2
  <2> HIDE DEF p
  <2>4. /\ Closed(e, p) <=> Closed(d, p)
        /\ e[p].result \in {d[p].result, "none"}
    BY <1>6, <2>3
  <2> QED
    BY <2>2, <2>3, <2>4
<1>10. c.op = "schedule_each" =>
         \A i \in c.set : e[i].parent # None => ~Won(e, e[i].parent)
  <2> SUFFICES ASSUME c.op = "schedule_each", NEW i \in c.set,
                      e[i].parent # None
               PROVE  ~Won(e, e[i].parent)
    OBVIOUS
  <2>1. i \in 1..Len(d)
    BY <1>1 DEF Loops
  <2>2. e[i].parent = d[i].parent /\ ~Won(d, d[i].parent)
    BY <1>2, <2>1 DEF Tells
  <2> QED
    BY <1>6, <1>7, <2>1, <2>2
<1>11. \A i \in Mentions(c) : Type(e, i) = "Workflow" => ~Closed(e, i)
  BY <1>2, <1>5, <1>6 DEF Tells
<1>12. Tells(e, c, T, q1)
  BY <1>3, <1>8, <1>9, <1>10, <1>11 DEF Tells, Heads
<1> QED
  BY <1>3, <1>4, <1>12 DEF Still

(* The fewer Celery tasks, the better.                                     *)
LEMMA HonestLess ==
    ASSUME NEW d, NEW S, NEW T, T \subseteq S, NEW q, Honest(d, S, q)
    PROVE  Honest(d, T, q)
  BY DEF Honest, Whole, Safe

LEMMA TellsLess ==
    ASSUME NEW d, NEW S, NEW T, T \subseteq S, NEW q, NEW c, Tells(d, c, S, q)
    PROVE  Tells(d, c, T, q)
<1>1. \A p : (Whole(d, S, p) => Whole(d, T, p)) /\ (Safe(d, S, p) => Safe(d, T, p))
  BY DEF Whole, Safe
<1>2. \A i : i \in T => i \in S
  OBVIOUS
<1> QED
  BY <1>1, <1>2 DEF Tells

-----------------------------------------------------------------------------
(* Steps of transactions.                                                  *)

(* Rows that were created are children of what has or gets children.       *)
Adopted(d, e, q) ==
    \A n \in 1..Len(e) : n \notin 1..Len(d) =>
        e[n].parent \in {None, q} \/ Children(d, e[n].parent) # {}

(* The calls cs are the ones that are left, and those in N.                *)
Extends(cs, N) == Frames(cs) \subseteq N \cup Frames(Rest)

(* Celery is asked for nothing more.                                       *)
Sends(c) == c.op = "schedule_each" => c.set \subseteq Sent

LEMMA ProceedHonesty ==
    ASSUME Honesty, NEW who, NEW d, NEW cs, NEW hooks,
           Proceed(who, d, cs, hooks),
           NEW S, S = queued \cup hooks \cup Scheduled(cs),
           Honest(d, S, Populating(d, cs)), Shape(d, cs),
           \A c \in Frames(cs) : Tells(d, c, S, Populating(d, cs))
    PROVE  Honesty'
<1>1. db' = d /\ calls' = cs
  BY DEF Proceed
<1>2. Sent' = S
  BY <1>1 DEF Proceed, Sent
<1>3. Honest(committed', queued', None)
  <2>1. CASE cs = <<>>
    <3>1. Scheduled(cs) = {} /\ Populating(d, cs) = None
      BY <2>1 DEF Scheduled, Frames, Populating
    <3>2. committed' = d /\ queued' = S
      BY <2>1, <3>1 DEF Proceed
    <3> QED
      BY <3>1, <3>2
  <2>2. CASE cs # <<>>
    BY <2>2 DEF Proceed, Honesty
  <2> QED
    BY <2>1, <2>2
<1> QED
  BY <1>1, <1>2, <1>3 DEF Honesty

(* What is known of the calls that are left.                               *)
LEMMA RestTold ==
    ASSUME History, Honesty, ~AtRest
    PROVE  /\ IsTable(db) /\ IsChain(db) /\ Sound(db) /\ Related(db)
           /\ Rooted(db) /\ Earned(db)
           /\ Tells(db, Top, Sent, Populating(db, calls))
           /\ Populating(db, calls) = IF Fills(db, Top) THEN Top.w ELSE None
           /\ \A c \in Frames(Rest) :
                 /\ c \in Call(Len(db)) /\ ~Heads(db, c)
                 /\ Tells(db, c, Sent, Populating(db, calls))
                 /\ Fills(db, Top) => Still(db, c)
<1>1. /\ Frames(calls) = {Top} \cup Frames(Rest)
      /\ Frames(calls) \subseteq Call(Len(db))
  BY TopFrames DEF History
<1>2. IsTable(db) /\ IsChain(db) /\ Sound(db) /\ Related(db)
  BY InvFacts DEF History, Sound
<1>3. Rooted(db) /\ Earned(db)
  BY DEF Honesty, Honest
<1>4. calls # <<>>
  BY DEF AtRest
<1>5. \A c \in Frames(Rest) :
         ~Heads(db, c) /\ (Fills(db, Top) => Still(db, c))
  BY <1>4 DEF Honesty, Shape, Top, Rest
<1>6. Populating(db, calls) = IF Fills(db, Top) THEN Top.w ELSE None
  BY <1>4 DEF Populating, Top
<1> QED
  BY <1>1, <1>2, <1>3, <1>5, <1>6 DEF Honesty

(* They may go on when a workflow is populated no more.                    *)
LEMMA StepHonesty ==
    ASSUME History, Honesty, ~AtRest, NEW d, Fares(db, d), NEW cs,
           Adopted(db, d, Populating(d, cs)),
           NEW hooks, hooks \subseteq Sent, ContinueWith(d, cs, hooks),
           NEW N, Extends(cs, N),
           \A c \in N : Sends(c) /\ Tells(d, c, Sent, Populating(d, cs)),
           Shape(d, cs),
           \/ Populating(db, calls) \in {None, Populating(d, cs)}
           \/ Safe(d, Sent, Populating(db, calls))
    PROVE  Honesty'
<1> DEFINE q == Populating(db, calls)
           q1 == Populating(d, cs)
           S == queued \cup hooks \cup Scheduled(cs)
<1>1. Scheduled(cs) \subseteq Sent
  <2> SUFFICES ASSUME NEW i \in Id, NEW c \in Frames(cs),
                      c.op = "schedule_each", i \in c.set
               PROVE  i \in Sent
    BY DEF Scheduled
  <2> USE DEF Extends
  <2>1. CASE c \in N
    BY <2>1 DEF Sends
  <2>2. CASE c \in Frames(Rest)
    <3>1. c \in Frames(calls)
      BY <2>2, TopFrames DEF History
    <3> QED
      BY <3>1 DEF Sent, Scheduled
  <2> QED
    BY <2>1, <2>2
<1>2. S \subseteq Sent
  BY <1>1 DEF Sent
<1>3. IsTable(db) /\ Related(db)
  BY RestTold
<1>4. Honest(d, Sent, q1)
  <2>1. Honest(db, Sent, q)
    BY DEF Honesty
  <2> HIDE DEF q, q1
  <2> QED
    BY <1>3, <2>1, HonestKept DEF q, q1, Adopted
<1>5. Honest(d, S, q1)
  <2> HIDE DEF S, q1
  <2> QED
    BY <1>2, <1>4, HonestLess
<1>6. ASSUME NEW c \in Frames(cs)
      PROVE  Tells(d, c, S, q1)
  <2> USE DEF Extends
  <2>1. Tells(d, c, Sent, q1)
    <3>1. CASE c \in N
      BY <3>1
    <3>2. CASE c \in Frames(Rest)
      <4>1. /\ c \in Call(Len(db)) /\ ~Heads(db, c)
            /\ Tells(db, c, Sent, q)
        BY <3>2, RestTold
      <4>2. q \in {None, q1} \/ Safe(d, Sent, q)
        OBVIOUS
      <4>3. Sent \subseteq Sent
        OBVIOUS
      <4> HIDE DEF q, q1
      <4> QED
        BY <1>3, <4>1, <4>2, <4>3, TellsKept
    <3> QED
      BY <3>1, <3>2
  <2> HIDE DEF S, q1
  <2> QED
    BY <1>2, <2>1, TellsLess
<1>7. Proceed(caller, d, cs, hooks)
  BY DEF ContinueWith
<1>8. \A c \in Frames(cs) : Tells(d, c, S, q1)
  BY <1>6
<1>9. S = queued \cup hooks \cup Scheduled(cs)
  OBVIOUS
<1> HIDE DEF S, q
<1> QED
  BY <1>5, <1>7, <1>8, <1>9, ProceedHonesty DEF q1

(* What the calls that are left are like after a step.                     *)
LEMMA RestShape ==
    ASSUME History, Honesty, ~AtRest, NEW d, Fares(db, d)
    PROVE  /\ \A c \in Frames(Rest) :
                 ~Heads(d, c) /\ (Fills(db, Top) => Still(d, c))
           /\ Shape(d, Rest) /\ Populating(d, Rest) = None
<1>1. ASSUME NEW c \in Frames(Rest)
      PROVE  ~Heads(d, c) /\ (Fills(db, Top) => Still(d, c))
  <2> DEFINE q == Populating(db, calls)
  <2>1. /\ IsTable(db) /\ Related(db)
        /\ c \in Call(Len(db)) /\ ~Heads(db, c) /\ Tells(db, c, Sent, q)
        /\ Fills(db, Top) => Still(db, c)
    BY RestTold
  <2>2. q \in {None, q} /\ Sent \subseteq Sent
    OBVIOUS
  <2> HIDE DEF q
  <2> QED
    BY <2>1, <2>2, TellsKept
<1>2. Rest \in Seq(Call(Len(db)))
  BY TopFrames DEF History
<1>3. ASSUME Rest # <<>>
      PROVE  /\ Head(Rest) \in Frames(Rest)
             /\ Frames(Tail(Rest)) \subseteq Frames(Rest)
  <2> DEFINE C == Call(Len(db))
             r == Rest
  <2>1. r \in Seq(C) /\ r # <<>>
    BY <1>2, <1>3
  <2> HIDE DEF C, r
  <2>2. r[1] = Head(r) /\ 1 \in DOMAIN r
    BY <2>1
  <2>3. \A k \in DOMAIN Tail(r) : k + 1 \in DOMAIN r /\ Tail(r)[k] = r[k + 1]
    BY <2>1
  <2> QED
    BY <2>2, <2>3 DEF Frames, r
<1>4. Shape(d, Rest)
  BY <1>1, <1>3 DEF Shape, Fills
<1>5. Populating(d, Rest) = None
  BY <1>1, <1>3 DEF Populating, Fills
<1> QED
  BY <1>1, <1>4, <1>5

LEMMA PushShape ==
    ASSUME NEW C, NEW t \in Seq(C), NEW a, NEW d,
           \A c \in Frames(t) :
              ~Heads(d, c) /\ (Fills(d, a) => Still(d, c))
    PROVE  /\ Shape(d, <<a>> \o t)
           /\ Populating(d, <<a>> \o t) = IF Fills(d, a) THEN a.w ELSE None
<1> DEFINE cs == <<a>> \o t
<1>1. /\ cs # <<>> /\ Head(cs) = a /\ Tail(cs) = t
  <2>1. /\ cs \in Seq(C \cup {a}) /\ Len(cs) = Len(t) + 1 /\ Len(t) \in Nat
        /\ cs[1] = a
        /\ \A k \in 1..Len(t) : cs[k + 1] = t[k]
    <3>1. t \in Seq(C \cup {a}) /\ <<a>> \in Seq(C \cup {a})
      OBVIOUS
    <3> QED
      BY <3>1
  <2>2. cs # <<>> /\ Head(cs) = a
    BY <2>1
  <2>3. Tail(cs) = t
    <3>1. Tail(cs) \in Seq(C \cup {a}) /\ t \in Seq(C \cup {a})
          /\ Len(Tail(cs)) = Len(t)
      BY <2>1, <2>2
    <3>2. \A k \in 1..Len(t) : Tail(cs)[k] = t[k]
      BY <2>1, <2>2
    <3> QED
      BY <2>1, <3>1, <3>2, SeqEqual
  <2> QED
    BY <2>2, <2>3
<1> HIDE DEF cs
<1>2. Shape(d, cs) /\ Populating(d, cs) = IF Fills(d, a) THEN a.w ELSE None
  BY <1>1 DEF Shape, Populating
<1> QED
  BY <1>2 DEF cs

(* Steps that populate no workflow, with at most two calls a and b on top  *)
(* of those that are left.                                                 *)
LEMMA PlainHonesty ==
    ASSUME History, Honesty, ~AtRest, NEW d, Fares(db, d),
           Adopted(db, d, None),
           NEW hooks, hooks \subseteq Sent, NEW a, NEW b,
           \/ ContinueWith(d, Rest, hooks)
           \/ ContinueWith(d, <<a>> \o Rest, hooks)
           \/ ContinueWith(d, <<a, b>> \o Rest, hooks),
           ~Fills(d, a), ~Heads(d, b), Sends(a), Sends(b),
           Tells(d, a, Sent, None), Tells(d, b, Sent, None),
           Fills(db, Top) => Safe(d, Sent, Top.w)
    PROVE  Honesty'
<1>1. /\ \A c \in Frames(Rest) : ~Heads(d, c)
      /\ Shape(d, Rest) /\ Populating(d, Rest) = None
  BY RestShape
<1>2. Rest \in Seq(Call(Len(db)))
  BY TopFrames DEF History
<1>3. ASSUME NEW cs, NEW N, Extends(cs, N),
             Shape(d, cs), Populating(d, cs) = None, ContinueWith(d, cs, hooks),
             \A c \in N : Sends(c) /\ Tells(d, c, Sent, None)
      PROVE  Honesty'
  <2>1. Populating(db, calls) = IF Fills(db, Top) THEN Top.w ELSE None
    BY RestTold
  <2>2. \/ Populating(db, calls) \in {None, Populating(d, cs)}
        \/ Safe(d, Sent, Populating(db, calls))
    BY <2>1
  <2>3. /\ Adopted(db, d, Populating(d, cs))
        /\ \A c \in N : Sends(c) /\ Tells(d, c, Sent, Populating(d, cs))
    BY <1>3
  <2> QED
    BY <1>3, <2>2, <2>3, StepHonesty
<1>4. CASE ContinueWith(d, Rest, hooks)
  <2>1. Extends(Rest, {})
    BY DEF Extends
  <2> QED
    BY <1>1, <1>3, <1>4, <2>1
<1>5. CASE ContinueWith(d, <<a>> \o Rest, hooks)
  <2> DEFINE cs == <<a>> \o Rest
  <2>1. Extends(cs, {a})
    BY <1>2, FramesFacts DEF Extends
  <2>2. Shape(d, cs) /\ Populating(d, cs) = None
    BY <1>1, <1>2, PushShape
  <2>3. ContinueWith(d, cs, hooks)
    BY <1>5
  <2>4. \A c \in {a} : Sends(c) /\ Tells(d, c, Sent, None)
    OBVIOUS
  <2> HIDE DEF cs
  <2> QED
    BY <1>3, <2>1, <2>2, <2>3, <2>4
<1>6. CASE ContinueWith(d, <<a, b>> \o Rest, hooks)
  <2> DEFINE t == <<b>> \o Rest
             cs == <<a>> \o t
  <2>1. t \in Seq(Call(Len(db)) \cup {b}) /\ Frames(t) = {b} \cup Frames(Rest)
    BY <1>2, PushFacts, FramesFacts
  <2>2. cs = <<a, b>> \o Rest
    BY <1>2, PairFacts
  <2> HIDE DEF t
  <2>3. Extends(cs, {a, b})
    <3>1. Frames(cs) = {a} \cup Frames(t)
      BY <2>1, FramesFacts
    <3> QED
      BY <2>1, <3>1 DEF Extends
  <2>4. Shape(d, cs) /\ Populating(d, cs) = None
    BY <1>1, <2>1, PushShape
  <2>5. ContinueWith(d, cs, hooks)
    BY <1>6, <2>2
  <2>6. \A c \in {a, b} : Sends(c) /\ Tells(d, c, Sent, None)
    OBVIOUS
  <2> HIDE DEF cs
  <2> QED
    BY <1>3, <2>3, <2>4, <2>5, <2>6
<1> QED
  BY <1>4, <1>5, <1>6

(* Calls of which nothing is asked.                                        *)
Mute == {"unblock_reverse_dependencies", "retry", "retry_each", "retry_lost",
         "complete_each", "next_pending"}

LEMMA MuteTells ==
    ASSUME NEW d, NEW c,
           \/ c.op \in Mute
           \/ c.op \in {"mark_completed", "orchestrate"}
              /\ Type(d, c.w) # "Workflow"
           \/ c.op = "maybe_finish_workflow" /\ c.w = None
    PROVE  /\ \A S, q : Tells(d, c, S, q)
           /\ ~Heads(d, c) /\ ~Fills(d, c) /\ Sends(c) /\ Still(d, c)
<1>1. ~Heads(d, c) /\ ~Fills(d, c)
  BY DEF Heads, Fills, Mute
<1>2. Sends(c)
  BY DEF Sends, Mute
<1>3. Still(d, c)
  BY DEF Still, Mentions, Reacts, Mute
<1>4. \A S, q : Tells(d, c, S, q)
  BY <1>3 DEF Tells, Mute, Still
<1> QED
  BY <1>1, <1>2, <1>3, <1>4

(* A workflow with a child may be finished, unless it is being populated.  *)
LEMMA ParentTells ==
    ASSUME NEW d, IsTable(d), NEW S, NEW q, Honest(d, S, q), NEW i \in DOMAIN d
    PROVE  LET c == CallFinish(d[i].parent)
           IN  /\ Tells(d, c, S, q)
               /\ ~Heads(d, c) /\ ~Fills(d, c) /\ Sends(c) /\ Still(d, c)
<1> DEFINE p == d[i].parent
           c == CallFinish(p)
<1>1. c.op = "maybe_finish_workflow" /\ c.w = p
  BY DEF CallFinish, Frame
<1>2. p \notin {None, q} /\ Type(d, p) = "Workflow" => Safe(d, S, p)
  <2> SUFFICES ASSUME p \notin {None, q}, Type(d, p) = "Workflow"
               PROVE  Safe(d, S, p)
    OBVIOUS
  <2>1. p \in DOMAIN d
    BY RowFacts
  <2>2. i \in Children(d, p)
    BY DEF Children
  <2> QED
    BY <2>1, <2>2 DEF Honest
<1> HIDE DEF c
<1>3. ~Heads(d, c) /\ ~Fills(d, c) /\ Sends(c)
  BY <1>1 DEF Heads, Fills, Sends
<1>4. Still(d, c)
  BY <1>1 DEF Still, Mentions, Reacts
<1>5. Tells(d, c, S, q)
  BY <1>1, <1>2, <1>4 DEF Tells, Still
<1> QED
  BY <1>3, <1>4, <1>5 DEF c

(* Nothing was created.                                                    *)
LEMMA NoneAdopted ==
    ASSUME NEW d, NEW e, Len(e) = Len(d), NEW q
    PROVE  Adopted(d, e, q)
  BY DEF Adopted

(* Transactions that begin.                                                *)
LEMMA CallFrames ==
    ASSUME NEW C, NEW cs \in Seq(C), cs # <<>>
    PROVE  Head(cs) \in Frames(cs) /\ Frames(Tail(cs)) \subseteq Frames(cs)
<1>1. cs[1] = Head(cs) /\ 1 \in DOMAIN cs
  OBVIOUS
<1>2. \A k \in DOMAIN Tail(cs) : k + 1 \in DOMAIN cs /\ Tail(cs)[k] = cs[k + 1]
  OBVIOUS
<1> QED
  BY <1>1, <1>2 DEF Frames

LEMMA RestHonesty ==
    ASSUME History, Honesty, AtRest
    PROVE  /\ Sent = queued /\ db = committed /\ Honest(db, queued, None)
           /\ IsTable(db) /\ IsChain(db) /\ Sound(db) /\ Related(db)
           /\ Rooted(db) /\ Earned(db) /\ DOMAIN db = 1..Len(db)
<1>1. calls = <<>> /\ db = committed /\ on_commit = {}
  BY DEF AtRest, History, Inv, TypeOK
<1>2. Scheduled(calls) = {} /\ Populating(db, calls) = None
  BY <1>1 DEF Scheduled, Frames, Populating
<1>3. Sent = queued
  BY <1>1, <1>2 DEF Sent
<1>4. Honest(db, queued, None)
  BY <1>2, <1>3 DEF Honesty
<1>5. IsTable(db) /\ IsChain(db) /\ Sound(db) /\ Related(db)
      /\ DOMAIN db = 1..Len(db)
  BY InvFacts DEF History, Sound
<1> QED
  BY <1>1, <1>3, <1>4, <1>5 DEF Honest

LEMMA BeginHonesty ==
    ASSUME History, Honesty, NEW who, NEW d, NEW cs, Begin(who, d, cs),
           Fares(db, d), Adopted(db, d, None), NEW C, cs \in Seq(C),
           \A c \in Frames(cs) : /\ c.op # "schedule_each" /\ ~Heads(d, c)
                                 /\ Tells(d, c, queued, None)
    PROVE  Honesty'
<1> DEFINE S == queued \cup {} \cup Scheduled(cs)
<1>1. AtRest /\ Proceed(who, d, cs, {})
  BY DEF Begin
<1>2. Scheduled(cs) = {} /\ S = queued
  BY DEF Scheduled
<1>3. cs # <<>> => Head(cs) \in Frames(cs) /\ Frames(Tail(cs)) \subseteq Frames(cs)
  BY CallFrames
<1>4. Shape(d, cs) /\ Populating(d, cs) = None
  BY <1>3 DEF Shape, Populating, Fills
<1>5. Honest(d, queued, None)
  <2>1. IsTable(db) /\ Honest(db, queued, None)
    BY <1>1, RestHonesty
  <2>2. queued \subseteq queued /\ None \in {None, None}
    OBVIOUS
  <2> QED
    BY <2>1, <2>2, HonestKept DEF Adopted
<1>6. \A c \in Frames(cs) : Tells(d, c, S, Populating(d, cs))
  BY <1>2, <1>4
<1>7. Honest(d, S, Populating(d, cs))
  BY <1>2, <1>4, <1>5
<1>8. S = queued \cup {} \cup Scheduled(cs)
  OBVIOUS
<1> HIDE DEF S
<1> QED
  BY <1>1, <1>4, <1>6, <1>7, <1>8, ProceedHonesty

(* With at most one call.                                                  *)
LEMMA BeginCallHonesty ==
    ASSUME History, Honesty, NEW who, NEW d, NEW c,
           \/ Begin(who, d, <<>>)
           \/ /\ Begin(who, d, <<c>>)
              /\ c.op # "schedule_each" /\ ~Heads(d, c)
              /\ Tells(d, c, queued, None),
           Fares(db, d), Adopted(db, d, None)
    PROVE  Honesty'
<1>1. CASE Begin(who, d, <<>>)
  <2> DEFINE cs == <<>>
  <2>1. cs \in Seq({c}) /\ Frames(cs) = {} /\ Begin(who, d, cs)
    BY <1>1 DEF Frames
  <2> HIDE DEF cs
  <2> QED
    BY <2>1, BeginHonesty
<1>2. CASE /\ Begin(who, d, <<c>>)
           /\ c.op # "schedule_each" /\ ~Heads(d, c)
           /\ Tells(d, c, queued, None)
  <2> DEFINE cs == <<c>>
  <2>1. cs \in Seq({c}) /\ Frames(cs) = {c} /\ Begin(who, d, cs)
    BY <1>2 DEF Frames
  <2> HIDE DEF cs
  <2> QED
    BY <1>2, <2>1, BeginHonesty
<1> QED
  BY <1>1, <1>2

(* A rollback.                                                             *)
LEMMA RaiseHonesty ==
    ASSUME Honesty, Raise
    PROVE  Honesty'
<1>1. /\ db' = committed /\ calls' = <<>> /\ on_commit' = {}
      /\ committed' = committed /\ queued' = queued
  BY DEF Raise
<1>2. /\ Scheduled(<<>>) = {} /\ Frames(<<>>) = {}
      /\ \A d : Populating(d, <<>>) = None /\ Shape(d, <<>>)
  BY DEF Scheduled, Frames, Populating, Shape
<1>3. Sent' = queued
  BY <1>1, <1>2 DEF Sent
<1>4. Honest(committed, queued, None)
  BY DEF Honesty
<1> QED
  BY <1>1, <1>2, <1>3, <1>4 DEF Honesty

-----------------------------------------------------------------------------
(* The methods that end work requests.                                     *)

LEMMA MarkAbortedHonesty ==
    ASSUME History, Honesty, mark_aborted
    PROVE  Honesty'
<1> DEFINE i == Top.w
           d == Set(db, i, "aborted")
           a == Frame("unblock_reverse_dependencies", i, {}, "")
           b == CallFinish(db[i].parent)
<1>1. /\ ~AtRest /\ Top.op = "mark_aborted"
      /\ ContinueWith(d, <<a, b>> \o Rest, on_commit)
  BY DEF mark_aborted, Continue
<1>2. i \in 1..Len(db) /\ FrameOK(db, Top) /\ IsTable(db) /\ Rooted(db)
  BY <1>1, TopFacts, TopOK, RestTold DEF History, Methods
<1>3. /\ Type(db, i) = "Workflow" => ~Closed(db, i)
      /\ Type(db, i) # "Workflow" => db[i].status # "completed"
      /\ ~Fills(db, Top)
  <2>1. i \in Mentions(Top)
    BY <1>1 DEF Mentions
  <2>2. Tells(db, Top, Sent, Populating(db, calls))
    BY <1>1, RestTold
  <2> QED
    BY <1>1, <1>2, <2>1, <2>2 DEF FrameOK, Tells, Fills, Heads
<1>4. Fares(db, d) /\ Keeps(db, d)
  <2>1. Type(db, i) = "Workflow" => db[i].parent = None
    BY <1>2, TableFacts DEF Rooted
  <2>2. "aborted" \in Statuses /\ "aborted" \notin Active
    BY DEF Statuses, Active
  <2> HIDE DEF i
  <2> QED
    BY <1>2, <1>3, <2>1, <2>2, SetFares, SetKeeps
<1>5. Len(d) = Len(db) /\ d[i].parent = db[i].parent
  BY <1>2, <1>4 DEF Keeps, SameTask
<1>6. Adopted(db, d, None) /\ on_commit \subseteq Sent
  BY <1>5, NoneAdopted DEF Sent
<1>7. Honest(d, Sent, None)
  <2>1. Honest(db, Sent, None)
    BY <1>1, <1>3, RestTold DEF Honesty
  <2> HIDE DEF d
  <2> QED
    BY <1>2, <1>4, <1>6, <2>1, HonestKept DEF Adopted
<1>8. Tells(d, b, Sent, None) /\ ~Heads(d, b) /\ Sends(b)
  <2>1. i \in DOMAIN d /\ IsTable(d)
    BY <1>2, <1>4, <1>5, TableFacts DEF Keeps
  <2> HIDE DEF d
  <2> QED
    BY <1>5, <1>7, <2>1, ParentTells
<1>9. Tells(d, a, Sent, None) /\ ~Fills(d, a) /\ Sends(a)
  <2>1. a.op \in Mute
    BY DEF Frame, Mute
  <2> HIDE DEF a, d
  <2> QED
    BY <2>1, MuteTells
<1> HIDE DEF a, b, d
<1> QED
  BY <1>1, <1>3, <1>4, <1>6, <1>8, <1>9, PlainHonesty

(* The table after a step that populates no workflow.                      *)
LEMMA AfterHonesty ==
    ASSUME History, Honesty, ~AtRest, NEW d, Fares(db, d),
           Adopted(db, d, None), ~Fills(db, Top)
    PROVE  Honest(d, Sent, None)
<1>1. Honest(db, Sent, None) /\ IsTable(db)
  BY RestTold DEF Honesty
<1>2. None \in {None, None} /\ Sent \subseteq Sent
  OBVIOUS
<1> QED
  BY <1>1, <1>2, HonestKept DEF Adopted

(* A loop that aborts what can be retried, if it is a workflow.            *)
LEMMA AbortTells ==
    ASSUME NEW d, NEW c, c.op \in {"abort_each", "mark_aborted"},
           \A i \in Mentions(c) : Type(d, i) = "Workflow" => ~Closed(d, i)
    PROVE  /\ \A S, q : Tells(d, c, S, q)
           /\ ~Heads(d, c) /\ ~Fills(d, c) /\ Sends(c)
  BY DEF Tells, Heads, Fills, Sends, Reacts

LEMMA AbortEachHonesty ==
    ASSUME History, Honesty, abort_each
    PROVE  Honesty'
<1> DEFINE a(i) == CallMarkAborted(i)
           b(i) == Frame("abort_each", 0, Top.set \ {i}, Top.arg)
           f(i) == [db EXCEPT ![i].worker = None]
<1>1. /\ ~AtRest /\ Top.op = "abort_each"
      /\ \/ ContinueWith(db, Rest, on_commit)
         \/ \E i \in Top.set :
               \/ ContinueWith(db, <<a(i), b(i)>> \o Rest, on_commit)
               \/ ContinueWith(f(i), <<a(i), b(i)>> \o Rest, on_commit)
  BY DEF abort_each, Continue
<1>2. IsTable(db) /\ on_commit \subseteq Sent /\ ~Fills(db, Top)
  BY <1>1, RestTold DEF Sent, Fills, Heads
<1>3. Fares(db, db)
  BY <1>2, FaresReflexive
<1>4. \A j \in Top.set : Type(db, j) = "Workflow" => ~Closed(db, j)
  <2>1. Tells(db, Top, Sent, Populating(db, calls))
    BY <1>1, RestTold
  <2> QED
    BY <1>1, <2>1 DEF Tells, Mentions
<1>5. Top.set \subseteq 1..Len(db)
  BY <1>1, TopFacts DEF History, Loops
<1>6. ASSUME NEW d, Fares(db, d), Len(d) = Len(db), NEW i \in Top.set,
             \/ ContinueWith(d, Rest, on_commit)
             \/ ContinueWith(d, <<a(i), b(i)>> \o Rest, on_commit)
      PROVE  Honesty'
  <2> DEFINE x == a(i)
             y == b(i)
  <2>1. \A j \in Top.set : Type(d, j) = "Workflow" => ~Closed(d, j)
    <3>1. \A j \in 1..Len(db) : Type(d, j) = Type(db, j)
      BY <1>6, FaresKinds
    <3>2. \A j \in 1..Len(db) : Type(db, j) = "Workflow" =>
             (Closed(d, j) <=> Closed(db, j))
      BY <1>6 DEF Fares
    <3> QED
      BY <1>4, <1>5, <3>1, <3>2
  <2>2. /\ x.op = "mark_aborted" /\ x.w = i
        /\ y.op = "abort_each" /\ y.set = Top.set \ {i}
    BY DEF CallMarkAborted, Frame
  <2>3. \/ ContinueWith(d, Rest, on_commit)
        \/ ContinueWith(d, <<x, y>> \o Rest, on_commit)
    BY <1>6
  <2> HIDE DEF x, y
  <2>4. /\ \A j \in Mentions(x) : Type(d, j) = "Workflow" => ~Closed(d, j)
        /\ \A j \in Mentions(y) : Type(d, j) = "Workflow" => ~Closed(d, j)
    BY <2>1, <2>2 DEF Mentions
  <2>5. /\ Tells(d, x, Sent, None) /\ Tells(d, y, Sent, None)
        /\ ~Fills(d, x) /\ ~Heads(d, y) /\ Sends(x) /\ Sends(y)
    BY <2>2, <2>4, AbortTells
  <2>6. Adopted(db, d, None)
    BY <1>6, NoneAdopted
  <2> QED
    BY <1>1, <1>2, <1>6, <2>3, <2>5, <2>6, PlainHonesty
<1>7. ASSUME NEW i PROVE Fares(db, f(i)) /\ Len(f(i)) = Len(db)
  <2>1. Keeps(db, f(i)) /\ Fares(db, f(i))
    BY <1>2, SetWorkerFares, SetWorkerKeeps
  <2> QED
    BY <2>1 DEF Keeps
<1>8. CASE ContinueWith(db, Rest, on_commit)
  <2> DEFINE x == CallFinish(None)
  <2>1. x.op = "maybe_finish_workflow" /\ x.w = None
    BY DEF CallFinish, Frame
  <2> HIDE DEF x
  <2>2. /\ Tells(db, x, Sent, None) /\ ~Heads(db, x) /\ ~Fills(db, x)
        /\ Sends(x)
    BY <2>1, MuteTells
  <2>3. Adopted(db, db, None)
    BY NoneAdopted
  <2> QED
    BY <1>1, <1>2, <1>3, <1>8, <2>2, <2>3, PlainHonesty
<1> HIDE DEF a, b, f
<1> QED
  BY <1>1, <1>3, <1>6, <1>7, <1>8

LEMMA PopHonesty ==
    ASSUME History, Honesty, ~AtRest, NEW d, Fares(db, d),
           Adopted(db, d, None), NEW hooks, hooks \subseteq Sent,
           ContinueWith(d, Rest, hooks),
           Fills(db, Top) => Safe(d, Sent, Top.w)
    PROVE  Honesty'
<1> DEFINE x == CallFinish(None)
<1>1. x.op = "maybe_finish_workflow" /\ x.w = None
  BY DEF CallFinish, Frame
<1> HIDE DEF x
<1>2. /\ Tells(d, x, Sent, None) /\ ~Heads(d, x) /\ ~Fills(d, x) /\ Sends(x)
  BY <1>1, MuteTells
<1> QED
  BY <1>2, PlainHonesty

(* Where nothing is written, either.                                       *)
LEMMA SkipHonesty ==
    ASSUME History, Honesty, ~AtRest, Continue(db, Rest),
           Fills(db, Top) => Safe(db, Sent, Top.w)
    PROVE  Honesty'
<1>1. Fares(db, db) /\ Adopted(db, db, None) /\ on_commit \subseteq Sent
  BY RestTold, FaresReflexive, NoneAdopted DEF Sent
<1>2. ContinueWith(db, Rest, on_commit)
  BY DEF Continue
<1> QED
  BY <1>1, <1>2, PopHonesty

(* With more calls below the next one.                                     *)
LEMMA TailHonesty ==
    ASSUME History, Honesty, ~AtRest, NEW d, Fares(db, d),
           Adopted(db, d, None), ~Fills(db, Top),
           NEW C, NEW t \in Seq(C), NEW M, Frames(t) = M \cup Frames(Rest),
           NEW a, Continue(d, <<a>> \o t),
           ~Fills(d, a), Sends(a), Tells(d, a, Sent, None),
           \A c \in M : /\ ~Heads(d, c) /\ Sends(c) /\ Tells(d, c, Sent, None)
    PROVE  Honesty'
<1> DEFINE cs == <<a>> \o t
<1>1. \A c \in Frames(Rest) : ~Heads(d, c)
  BY RestShape
<1>2. Shape(d, cs) /\ Populating(d, cs) = None
  BY <1>1, PushShape
<1>3. Extends(cs, {a} \cup M)
  <2>1. Frames(cs) = {a} \cup Frames(t)
    BY FramesFacts
  <2> QED
    BY <2>1 DEF Extends
<1>4. ContinueWith(d, cs, on_commit) /\ on_commit \subseteq Sent
  BY DEF Continue, Sent
<1>5. Populating(db, calls) \in {None, Populating(d, cs)}
  BY RestTold
<1> HIDE DEF cs
<1>6. /\ Adopted(db, d, Populating(d, cs))
      /\ \A c \in {a} \cup M :
            Sends(c) /\ Tells(d, c, Sent, Populating(d, cs))
  BY <1>2
<1> QED
  BY <1>2, <1>3, <1>4, <1>5, <1>6, StepHonesty

(* The calls that mark_completed makes.                                    *)
Reaction(i) == Frame("process_retry_with_delays", i, {}, db[db[i].parent].status)

LEMMA CompletedCalls ==
    ASSUME Inv, mark_completed
    PROVE  LET i == Top.w
               p == db[i].parent
               d == [db EXCEPT ![i].status = "completed", ![i].result = Top.arg]
               a == Frame("unblock_reverse_dependencies", i, {}, "")
               M == {CallFinish(p)}
                    \cup (IF Top.arg \in {"failure", "error"} /\ p # None
                          THEN {Reaction(i)} ELSE {})
           IN  \/ db[i].status \notin Active /\ Continue(db, Rest)
               \/ /\ db[i].status \in Active
                  /\ \E t \in Seq(Call(Len(db)) \cup M) :
                        /\ Frames(t) = M \cup Frames(Rest)
                        /\ Continue(d, <<a>> \o t)
<1> DEFINE i == Top.w
           p == db[i].parent
           a == Frame("unblock_reverse_dependencies", i, {}, "")
           b == Reaction(i)
           c == CallFinish(p)
           d == [db EXCEPT ![i].status = "completed", ![i].result = Top.arg]
           late == Top.arg \in {"failure", "error"} /\ p # None
           M == {c} \cup (IF late THEN {b} ELSE {})
           reaction == IF late THEN <<b>> ELSE <<>>
           u == <<c>> \o Rest
           t == reaction \o u
<1>1. ~AtRest /\ Rest \in Seq(Call(Len(db)))
  BY TopFacts DEF mark_completed
<1>2. \/ db[i].status \notin Active /\ Continue(db, Rest)
      \/ /\ db[i].status \in Active
         /\ Continue(d, <<a>> \o reaction \o <<c>> \o Rest)
  BY DEF mark_completed, Active, Reaction
<1> HIDE DEF a, b, c, d, late
<1>3. u \in Seq(Call(Len(db)) \cup {c}) /\ Frames(u) = {c} \cup Frames(Rest)
  BY <1>1, PushFacts, FramesFacts
<1>4. reaction \in Seq({b})
  <2>1. <<b>> \in Seq({b}) /\ <<>> \in Seq({b})
    BY EmptySeq
  <2>2. reaction \in {<<>>, <<b>>}
    OBVIOUS
  <2> HIDE DEF reaction
  <2> QED
    BY <2>1, <2>2, Zenon
<1>5. <<a>> \o reaction \o <<c>> \o Rest = <<a>> \o t
  <2> DEFINE S == Call(Len(db))
             T == {b}
  <2>1. Rest \in Seq(S) /\ reaction \in Seq(T)
    BY <1>1, <1>4
  <2> HIDE DEF S, T, reaction
  <2>2. <<a>> \o reaction \o <<c>> \o Rest
          = <<a>> \o (reaction \o (<<c>> \o Rest))
    BY <2>1, SpliceFacts
  <2> QED
    BY <2>2
<1>6. t \in Seq(Call(Len(db)) \cup M) /\ Frames(t) = M \cup Frames(Rest)
  <2> DEFINE S == Call(Len(db)) \cup {c}
  <2>1. u \in Seq(S)
    BY <1>3
  <2>2. CASE late
    <3>1. reaction = <<b>> /\ M = {c, b}
      BY <2>2
    <3> HIDE DEF u, S
    <3>2. /\ <<b>> \o u \in Seq(S \cup {b})
          /\ Frames(<<b>> \o u) = {b} \cup Frames(u)
      BY <2>1, PushFacts, FramesFacts
    <3>3. S \cup {b} = Call(Len(db)) \cup M
      BY <3>1 DEF S
    <3> QED
      BY <1>3, <3>1, <3>2, <3>3
  <2>3. CASE ~late
    <3>1. reaction = <<>> /\ M = {c}
      BY <2>3
    <3> HIDE DEF u, S
    <3>2. <<>> \o u = u
      BY <2>1, ConcatEmptySeq
    <3> QED
      BY <1>3, <2>1, <3>1, <3>2 DEF S
  <2> QED
    BY <2>2, <2>3
<1> HIDE DEF M, reaction, u, t
<1>7. \/ db[i].status \notin Active /\ Continue(db, Rest)
      \/ /\ db[i].status \in Active
         /\ \E x \in Seq(Call(Len(db)) \cup M) :
               Frames(x) = M \cup Frames(Rest) /\ Continue(d, <<a>> \o x)
  BY <1>2, <1>5, <1>6
<1> QED
  BY <1>7 DEF M, late, a, b, c, d

LEMMA CompleteTaskHonesty ==
    ASSUME History, Honesty, mark_completed, Type(db, Top.w) # "Workflow"
    PROVE  Honesty'
<1> DEFINE i == Top.w
           p == db[i].parent
           d == [db EXCEPT ![i].status = "completed", ![i].result = Top.arg]
           a == Frame("unblock_reverse_dependencies", i, {}, "")
           M == {CallFinish(p)}
                \cup (IF Top.arg \in {"failure", "error"} /\ p # None
                      THEN {Reaction(i)} ELSE {})
<1>1. /\ ~AtRest /\ i \in 1..Len(db) /\ Top.arg \in Results
      /\ IsTable(db) /\ Rooted(db) /\ Earned(db) /\ Sound(db) /\ Related(db)
      /\ DOMAIN db = 1..Len(db) /\ i \in DOMAIN db
  <2>1. ~AtRest /\ i \in 1..Len(db) /\ Top.arg \in Results
    BY TopFacts DEF mark_completed, History, Methods
  <2> QED
    BY <2>1, RestTold, TableFacts
<1>2. ~Fills(db, Top)
  BY DEF Fills, Heads
<1>3. CASE Continue(db, Rest)
  BY <1>1, <1>2, <1>3, SkipHonesty
<1>4. ASSUME db[i].status \in Active,
             NEW t \in Seq(Call(Len(db)) \cup M), Frames(t) = M \cup Frames(Rest),
             Continue(d, <<a>> \o t)
      PROVE  Honesty'
  <2>1. p # None => /\ p \in 1..Len(db) /\ Type(db, p) = "Workflow"
                    /\ p # i /\ ~Won(db, p)
    <3> SUFFICES ASSUME p # None
                 PROVE  /\ p \in 1..Len(db) /\ Type(db, p) = "Workflow"
                        /\ p # i /\ ~Won(db, p)
      OBVIOUS
    <3>1. p \in 1..Len(db) /\ Type(db, p) = "Workflow"
      BY <1>1, RowFacts DEF Related
    <3>2. i \in Children(db, p)
      BY <1>1 DEF Children
    <3>3. ~Won(db, p)
      BY <1>1, <1>4, <3>1, <3>2 DEF Earned, Deserved
    <3> QED
      BY <3>1, <3>3
  <2>2. Fares(db, d) /\ Keeps(db, d)
    <3>1. "completed" \in Statuses
      BY DEF Statuses
    <3> HIDE DEF i
    <3> QED
      BY <1>1, <2>1, <3>1, FinishFares, FinishKeeps DEF i
  <2>3. \A j \in 1..Len(db) :
           /\ d[j].status = IF j = i THEN "completed" ELSE db[j].status
           /\ d[j].result = IF j = i THEN Top.arg ELSE db[j].result
    BY <1>1, FinishRows
  <2> HIDE DEF d
  <2>4. /\ IsTable(d) /\ Len(d) = Len(db) /\ d[i].parent = p
        /\ i \in DOMAIN d /\ Adopted(db, d, None)
    BY <1>1, <2>2, TableFacts, NoneAdopted DEF Keeps, SameTask
  <2>5. Honest(d, Sent, None)
    BY <1>1, <1>2, <2>2, <2>4, AfterHonesty
  <2>6. LET c == CallFinish(p)
        IN  ~Heads(d, c) /\ Sends(c) /\ Tells(d, c, Sent, None)
    BY <2>4, <2>5, ParentTells
  <2>7. ASSUME p # None
        PROVE  LET c == Reaction(i)
               IN  ~Heads(d, c) /\ Sends(c) /\ Tells(d, c, Sent, None)
    <3> DEFINE c == Reaction(i)
    <3>1. /\ c.op = "process_retry_with_delays" /\ c.w = i
          /\ c.arg = db[p].status
      BY DEF Reaction, Frame
    <3>2. /\ p \in 1..Len(db) /\ p # i /\ ~Won(db, p)
          /\ d[p].status = db[p].status /\ d[p].result = db[p].result
      BY <2>1, <2>3, <2>7
    <3>3. ~Won(d, p) /\ Type(d, p) = "Workflow"
      <4>1. Type(db, p) = "Workflow"
        BY <2>1, <2>7
      <4>2. Type(d, p) = "Workflow"
        BY <2>2, <3>2, <4>1, FaresKinds
      <4> QED
        BY <2>2, <3>2, <4>1, <4>2 DEF Won
    <3> HIDE DEF c, p
    <3>4. ~Heads(d, c) /\ Sends(c) /\ Mentions(c) = {}
      BY <3>1 DEF Heads, Sends, Mentions
    <3>5. IF c.arg = "completed"
          THEN /\ d[p].result # "success"
               /\ d[p].result = "error" => Closed(d, p)
          ELSE ~Closed(d, p)
      BY <3>1, <3>2, <3>3 DEF Won, Closed
    <3>6. d[c.w].parent = p
      BY <2>4, <3>1
    <3>7. Tells(d, c, Sent, None)
      BY <2>7, <3>1, <3>4, <3>5, <3>6 DEF Tells
    <3> QED
      BY <3>4, <3>7 DEF c
  <2>8. \A c \in M : ~Heads(d, c) /\ Sends(c) /\ Tells(d, c, Sent, None)
    BY <2>6, <2>7
  <2>9. ~Fills(d, a) /\ Sends(a) /\ Tells(d, a, Sent, None)
    <3>1. a.op \in Mute
      BY DEF Frame, Mute
    <3> HIDE DEF a
    <3> QED
      BY <3>1, MuteTells
  <2>10. t \in Seq(Call(Len(db)) \cup M) /\ Frames(t) = M \cup Frames(Rest)
         /\ Continue(d, <<a>> \o t)
    BY <1>4 DEF d
  <2> HIDE DEF a, M
  <2> QED
    BY <1>1, <1>2, <2>2, <2>4, <2>8, <2>9, <2>10, TailHonesty
<1>5. \/ Continue(db, Rest)
      \/ /\ db[i].status \in Active
         /\ \E t \in Seq(Call(Len(db)) \cup M) :
               Frames(t) = M \cup Frames(Rest) /\ Continue(d, <<a>> \o t)
  BY CompletedCalls DEF History
<1> HIDE DEF a, d, M
<1> QED
  BY <1>3, <1>4, <1>5

(* A workflow that ends, well or not.                                      *)
LEMMA CompleteWorkflowHonesty ==
    ASSUME History, Debts, Honesty, mark_completed,
           Type(db, Top.w) = "Workflow"
    PROVE  Honesty'
<1> DEFINE i == Top.w
           p == db[i].parent
           e == [db EXCEPT ![i].status = "completed", ![i].result = Top.arg]
           a == Frame("unblock_reverse_dependencies", i, {}, "")
           M == {CallFinish(p)}
                \cup (IF Top.arg \in {"failure", "error"} /\ p # None
                      THEN {Reaction(i)} ELSE {})
           q0 == Populating(db, calls)
<1>1. /\ ~AtRest /\ Top.op = "mark_completed"
      /\ i \in 1..Len(db) /\ Top.arg \in Results
      /\ IsTable(db) /\ Rooted(db) /\ Earned(db) /\ Sound(db) /\ Related(db)
      /\ DOMAIN db = 1..Len(db) /\ i \in DOMAIN db
  <2>1. /\ ~AtRest /\ Top.op = "mark_completed"
        /\ i \in 1..Len(db) /\ Top.arg \in Results
    BY TopFacts DEF mark_completed, History, Methods
  <2> QED
    BY <2>1, RestTold, TableFacts
<1>2. /\ Fills(db, Top) <=> Top.arg = "error"
      /\ q0 = IF Top.arg = "error" THEN i ELSE None
      /\ p = None
  <2>1. Fills(db, Top) <=> Top.arg = "error"
    BY <1>1 DEF Heads, Fills
  <2> QED
    BY <1>1, <2>1, RestTold DEF Rooted
<1>3. /\ Top.arg = "success" => Done(db, i) /\ Whole(db, Sent, i)
      /\ Top.arg = "error" /\ i \in Sent => db[i].status = "running"
  <2>1. Tells(db, Top, Sent, q0)
    BY <1>1, RestTold
  <2> QED
    BY <1>1, <2>1 DEF Tells
<1>4. CASE db[i].status \notin Active /\ Continue(db, Rest)
  <2>1. Fills(db, Top) => Safe(db, Sent, i)
    BY <1>2, <1>3, <1>4 DEF Safe, Whole, Active
  <2> QED
    BY <1>1, <1>4, <2>1, SkipHonesty
<1>5. ASSUME db[i].status \in Active,
             NEW t \in Seq(Call(Len(db)) \cup M), Frames(t) = M \cup Frames(Rest),
             Continue(e, <<a>> \o t)
      PROVE  Honesty'
  <2> DEFINE C == Call(Len(db)) \cup M
             cs == <<a>> \o t
             S == queued \cup on_commit \cup Scheduled(cs)
  <2>0. Frames(cs) = {a} \cup M \cup Frames(Rest)
    <3>1. t \in Seq(C) /\ Frames(t) = M \cup Frames(Rest)
      BY <1>5
    <3> HIDE DEF C, M
    <3>2. Frames(cs) = {a} \cup Frames(t)
      BY <3>1, FramesFacts
    <3> QED
      BY <3>1, <3>2
  <2>1. Keeps(db, e)
    <3>1. "completed" \in Statuses
      BY DEF Statuses
    <3> QED
      BY <1>1, <3>1, FinishKeeps
  <2>2. \A j \in 1..Len(db) :
           /\ e[j].status = IF j = i THEN "completed" ELSE db[j].status
           /\ e[j].result = IF j = i THEN Top.arg ELSE db[j].result
    BY <1>1, FinishRows
  <2>3. Proceed(caller, e, cs, on_commit)
    BY <1>5 DEF Continue, ContinueWith
  <2> HIDE DEF e
  <2>4. /\ IsTable(e) /\ Len(e) = Len(db) /\ DOMAIN e = 1..Len(db)
        /\ \A j \in 1..Len(db) : SameTask(db[j], e[j])
        /\ \A j : Superseded(e, j) <=> Superseded(db, j)
    BY <1>1, <2>1, SameSuperseded, TableFacts DEF Keeps
  <2>5. \A j \in 1..Len(db) :
           /\ Type(e, j) = Type(db, j) /\ AllowFailure(e, j) = AllowFailure(db, j)
           /\ e[j].parent = db[j].parent /\ e[j].step = db[j].step
           /\ e[j].supersedes = db[j].supersedes
    <3> DEFINE J == 1..Len(db)
    <3>1. \A j \in J : SameTask(db[j], e[j])
      BY <2>4
    <3> HIDE DEF J
    <3>2. \A j \in J :
             /\ Type(e, j) = Type(db, j)
             /\ AllowFailure(e, j) = AllowFailure(db, j)
             /\ e[j].parent = db[j].parent /\ e[j].step = db[j].step
             /\ e[j].supersedes = db[j].supersedes
      BY <3>1, SameKinds DEF SameTask
    <3> QED
      BY <3>2 DEF J
  <2>6. /\ \A s \in Step : Existing(e, s) = Existing(db, s)
        /\ \A j : Children(e, j) = Children(db, j)
    BY <1>1, <2>4, <2>5 DEF Existing, Children
  <2>7. /\ \A j \in 1..Len(db) : \A T :
              Whole(e, T, j) <=> Whole(db, T, j)
        /\ \A j \in 1..Len(db) : j # i =>
              /\ Closed(e, j) <=> Closed(db, j)
              /\ Won(e, j) <=> Won(db, j)
              /\ Fair(e, j) <=> Fair(db, j)
    <3>1. \A j \in 1..Len(db) : \A T : Whole(e, T, j) <=> Whole(db, T, j)
      BY <2>5, <2>6 DEF Whole, Filled
    <3>2. \A j \in 1..Len(db) : j # i =>
             /\ Closed(e, j) <=> Closed(db, j)
             /\ Won(e, j) <=> Won(db, j)
             /\ Fair(e, j) <=> Fair(db, j)
      BY <2>2, <2>4, <2>5 DEF Closed, Won, Fair
    <3> QED
      BY <3>1, <3>2
  <2>8. /\ Closed(e, i) <=> Top.arg = "error"
        /\ Won(e, i) <=> Top.arg = "success"
        /\ ~Closed(db, i)
    BY <1>1, <1>5, <2>2, <2>5 DEF Closed, Won, Active
  <2>9. S \subseteq Sent
    <3>1. a.op # "schedule_each" /\ \A c \in M : c.op # "schedule_each"
      <4>1. M = {CallFinish(p)}
        BY <1>2
      <4>2. /\ a.op = "unblock_reverse_dependencies"
            /\ CallFinish(p).op = "maybe_finish_workflow"
        BY DEF Frame, CallFinish
      <4> HIDE DEF M, a, p
      <4> QED
        BY <4>1, <4>2
    <3>2. Frames(cs) = {a} \cup M \cup Frames(Rest)
      BY <2>0
    <3>3. Frames(Rest) \subseteq Frames(calls)
      BY <1>1, TopFrames DEF History
    <3> HIDE DEF cs, a, M
    <3> QED
      BY <3>1, <3>2, <3>3 DEF Sent, Scheduled
  <2> HIDE DEF S
  <2>10. \A j \in 1..Len(db) : j # i /\ Safe(db, Sent, j) => Safe(e, S, j)
    BY <2>7, <2>9 DEF Safe, Whole
  <2>11. Safe(db, Sent, i) \/ Top.arg = "error" => Safe(e, S, i)
    BY <1>1, <2>7, <2>8, <2>9 DEF Safe, Whole
  <2>12. Rooted(e)
    BY <1>1, <2>4, <2>5 DEF Rooted
  <2>13. Earned(e)
    <3> SUFFICES ASSUME NEW x \in 1..Len(db), Won(e, x), NEW j \in Children(e, x)
                 PROVE  e[j].status \notin Active /\ Fair(e, j)
      BY <2>4 DEF Earned, Deserved
    <3>1. /\ j \in 1..Len(db) /\ j \in Children(db, x) /\ db[j].parent = x
          /\ j # i /\ x # 0
      <4>1. Len(db) \in Nat
        BY <1>1, TableFacts
      <4>2. x # 0
        BY <4>1
      <4>3. j \in Children(db, x)
        BY <2>6
      <4>4. j \in DOMAIN db /\ db[j].parent = x
        BY <4>3 DEF Children
      <4> QED
        BY <1>1, <1>2, <4>2, <4>3, <4>4
    <3>2. Deserved(db, x)
      <4>1. CASE x = i
        BY <1>3, <2>8, <4>1 DEF Done
      <4>2. CASE x # i
        BY <1>1, <2>7, <4>2 DEF Earned
      <4> QED
        BY <4>1, <4>2
    <3>3. db[j].status \notin Active /\ Fair(db, j)
      BY <3>1, <3>2 DEF Deserved
    <3> QED
      BY <2>2, <2>7, <3>1, <3>3
  <2>14. Honest(db, Sent, q0)
    BY DEF Honesty
  <2>15. ASSUME NEW x \in 1..Len(db), Type(e, x) = "Workflow"
         PROVE  /\ Won(e, x) => Whole(e, S, x)
                /\ Children(e, x) # {} => Safe(e, S, x)
    <3>1. /\ Won(db, x) => Whole(db, Sent, x)
          /\ x # q0 /\ Children(db, x) # {} => Safe(db, Sent, x)
      BY <1>1, <2>5, <2>14, <2>15 DEF Honest
    <3>2. CASE x = i
      BY <1>2, <1>3, <2>6, <2>7, <2>8, <2>9, <2>11, <3>1, <3>2 DEF Whole
    <3>3. CASE x # i
      <4>1. x # q0
        <5>1. Len(db) \in Nat
          BY <1>1, TableFacts
        <5> QED
          BY <1>2, <3>3, <5>1
      <4> HIDE DEF q0
      <4> QED
        BY <2>6, <2>7, <2>9, <2>10, <3>1, <3>3, <4>1 DEF Whole
    <3> QED
      BY <3>2, <3>3
  <2>16. Honest(e, S, None)
    BY <2>4, <2>12, <2>13, <2>15 DEF Honest
  <2>17. ASSUME NEW c \in Frames(Rest)
         PROVE  /\ ~Heads(e, c) /\ Tells(e, c, S, None)
    <3>1. /\ c \in Call(Len(db)) /\ ~Heads(db, c) /\ Tells(db, c, Sent, q0)
          /\ Top.arg = "error" => Still(db, c)
      BY <1>1, <1>2, RestTold
    <3>2. /\ c.op \in Methods => c.w \in 1..Len(db)
          /\ c.w \in 0..Len(db)
          /\ c.op \in Loops => c.set \subseteq 1..Len(db)
      BY <3>1 DEF Call
    <3>3. Heads(e, c) <=> Heads(db, c)
      BY <2>5, <3>2 DEF Heads, Methods
    <3>4. Reacts(e, c) <=> Reacts(db, c)
      BY <2>5, <3>2 DEF Reacts, Methods
    <3>5. Mentions(c) \subseteq 1..Len(db) /\ FrameOK(db, c)
      <4>1. FrameOK(db, c)
        <5>1. CallsOK(db, Rest)
          BY <1>1, TopOK
        <5> QED
          BY <5>1 DEF CallsOK, Frames
      <4> QED
        BY <3>2, <4>1 DEF Mentions, Methods, Loops
    <3>6. \A j \in 1..Len(db) : db[j].parent # None =>
             /\ db[j].parent \in 1..Len(db)
             /\ Type(db, db[j].parent) = "Workflow"
             /\ db[db[j].parent].status \notin Waiting
             /\ Type(db, j) # "Workflow"
      BY <1>1, RowFacts DEF Related, Rooted
    <3>7. /\ c.op = "maybe_finish_workflow" /\ c.w \notin {None, None}
          /\ Type(e, c.w) = "Workflow"
          => Safe(e, S, c.w)
      <4> SUFFICES ASSUME c.op = "maybe_finish_workflow", c.w # None,
                          Type(e, c.w) = "Workflow"
                   PROVE  Safe(e, S, c.w)
        OBVIOUS
      <4>1. c.w \in 1..Len(db)
        BY <3>2
      <4>2. Type(db, c.w) = "Workflow"
        BY <2>5, <4>1
      <4>3. c.w # q0 => Safe(db, Sent, c.w)
        BY <3>1, <4>2 DEF Tells
      <4> HIDE DEF q0
      <4> QED
        BY <1>2, <2>10, <2>11, <4>1, <4>3
    <3>8. Reacts(e, c) =>
            LET x == e[c.w].parent
            IN  /\ x # None
                /\ IF c.arg = "completed"
                   THEN /\ e[x].result # "success"
                        /\ e[x].result = "error" => Closed(e, x)
                   ELSE ~Closed(e, x)
      <4> SUFFICES ASSUME Reacts(db, c)
                   PROVE  LET x == e[c.w].parent
                          IN  /\ x # None
                              /\ IF c.arg = "completed"
                                 THEN /\ e[x].result # "success"
                                      /\ e[x].result = "error" => Closed(e, x)
                                 ELSE ~Closed(e, x)
        BY <3>4
      <4> DEFINE x == db[c.w].parent
      <4>1. c.w \in 1..Len(db)
        BY <3>2 DEF Reacts, Methods
      <4>2. /\ x # None
            /\ IF c.arg = "completed"
               THEN /\ db[x].result # "success"
                    /\ db[x].result = "error" => Closed(db, x)
               ELSE ~Closed(db, x)
        BY <3>1 DEF Tells
      <4>3. /\ e[c.w].parent = x /\ x \in 1..Len(db)
            /\ Type(db, x) = "Workflow" /\ db[x].status \notin Waiting
        BY <2>5, <3>6, <4>1, <4>2
      <4>4. Current(db, c)
        <5>1. c \in Frames(calls)
          BY <1>1, TopFrames DEF History
        <5> QED
          BY <5>1 DEF Debts, Reactions
      <4>5. Top.arg # "error"
        BY <3>1 DEF Still
      <4>6. db[x].status = "running" => c.arg = "running"
        BY <4>2, <4>4 DEF Current
      <4> HIDE DEF x
      <4>7. CASE x = i
        <5>1. c.arg = "running"
          BY <1>5, <4>3, <4>6, <4>7 DEF Active, Waiting
        <5> QED
          BY <2>8, <4>2, <4>3, <4>5, <4>7, <5>1
      <4>8. CASE x # i
        BY <2>2, <2>7, <4>2, <4>3, <4>8
      <4> QED
        BY <4>7, <4>8
    <3>9. c.op = "schedule_each" =>
             \A j \in c.set : e[j].parent # None => ~Won(e, e[j].parent)
      <4> SUFFICES ASSUME c.op = "schedule_each", NEW j \in c.set,
                          e[j].parent # None
                   PROVE  ~Won(e, e[j].parent)
        OBVIOUS
      <4>1. j \in 1..Len(db) /\ j \in Mentions(c)
        BY <3>2 DEF Loops, Mentions
      <4>2. e[j].parent = db[j].parent /\ ~Won(db, db[j].parent)
        BY <2>5, <3>1, <4>1 DEF Tells
      <4>3. db[j].parent \in 1..Len(db) /\ Type(db, j) # "Workflow"
        BY <3>6, <4>1, <4>2
      <4>4. CASE db[j].parent = i
        <5>1. ~Superseded(db, j) /\ db[j].status # "completed"
          BY <3>5, <4>1, <4>3 DEF FrameOK
        <5>2. j \in Children(db, i)
          BY <1>1, <4>1, <4>4 DEF Children
        <5>3. ~Done(db, i)
          BY <5>1, <5>2 DEF Done
        <5> QED
          BY <1>3, <2>8, <4>2, <4>4, <5>3
      <4>5. CASE db[j].parent # i
        BY <2>7, <4>2, <4>3, <4>5
      <4> QED
        BY <4>4, <4>5
    <3>10. \A j \in Mentions(c) : Type(e, j) = "Workflow" => ~Closed(e, j)
      <4> SUFFICES ASSUME NEW j \in Mentions(c), Type(e, j) = "Workflow"
                   PROVE  ~Closed(e, j)
        OBVIOUS
      <4>1. j \in 1..Len(db)
        BY <3>5
      <4>2. ~Closed(db, j)
        BY <2>5, <3>1, <4>1 DEF Tells
      <4>3. Top.arg # "error"
        BY <3>1 DEF Still
      <4> QED
        BY <2>7, <2>8, <4>1, <4>2, <4>3
    <3>11. ~Heads(e, c)
      BY <3>1, <3>3
    <3>12. Tells(e, c, S, None)
      BY <3>7, <3>8, <3>9, <3>10, <3>11 DEF Tells, Heads
    <3> QED
      BY <3>11, <3>12
  <2>18. /\ \A c \in M : c.op = "maybe_finish_workflow" /\ c.w = None
         /\ a.op \in Mute
    <3>1. M = {CallFinish(p)} /\ p = None
      BY <1>2
    <3>2. /\ a.op = "unblock_reverse_dependencies"
          /\ CallFinish(p).op = "maybe_finish_workflow"
          /\ CallFinish(p).w = p
      BY DEF Frame, CallFinish
    <3> HIDE DEF M, a, p
    <3> QED
      BY <3>1, <3>2 DEF Mute
  <2>19. Frames(cs) = {a} \cup M \cup Frames(Rest)
    BY <2>0
  <2> HIDE DEF a, M
  <2>20. /\ \A c \in M : Tells(e, c, S, None) /\ ~Heads(e, c)
         /\ Tells(e, a, S, None) /\ ~Fills(e, a)
    BY <2>18, MuteTells
  <2>21. Shape(e, cs) /\ Populating(e, cs) = None
    <3>1. \A c \in Frames(t) : ~Heads(e, c) /\ (Fills(e, a) => Still(e, c))
      BY <1>5, <2>17, <2>20
    <3>2. t \in Seq(C)
      BY <1>5
    <3> HIDE DEF C
    <3> QED
      BY <2>20, <3>1, <3>2, PushShape
  <2>22. \A c \in Frames(cs) : Tells(e, c, S, None)
    BY <2>17, <2>19, <2>20
  <2>23. S = queued \cup on_commit \cup Scheduled(cs)
    BY DEF S
  <2> HIDE DEF cs
  <2>24. /\ \A c \in Frames(cs) : Tells(e, c, S, Populating(e, cs))
         /\ Honest(e, S, Populating(e, cs))
    BY <2>16, <2>21, <2>22
  <2> QED
    BY <2>3, <2>21, <2>23, <2>24, ProceedHonesty
<1>6. \/ db[i].status \notin Active /\ Continue(db, Rest)
      \/ /\ db[i].status \in Active
         /\ \E t \in Seq(Call(Len(db)) \cup M) :
               Frames(t) = M \cup Frames(Rest) /\ Continue(e, <<a>> \o t)
  BY CompletedCalls DEF History
<1> HIDE DEF a, e, M
<1> QED
  BY <1>4, <1>5, <1>6

LEMMA MarkCompletedHonesty ==
    ASSUME History, Debts, Honesty, mark_completed
    PROVE  Honesty'
  BY CompleteTaskHonesty, CompleteWorkflowHonesty

(* One more call.                                                          *)
LEMMA PushHonesty ==
    ASSUME History, Honesty, ~AtRest, NEW a, Continue(db, <<a>> \o Rest),
           ~Fills(db, a), Sends(a), Tells(db, a, Sent, None),
           Fills(db, Top) => Safe(db, Sent, Top.w)
    PROVE  Honesty'
<1> DEFINE x == CallFinish(None)
<1>1. x.op = "maybe_finish_workflow" /\ x.w = None
  BY DEF CallFinish, Frame
<1> HIDE DEF x
<1>2. /\ Tells(db, x, Sent, None) /\ ~Heads(db, x) /\ Sends(x)
  BY <1>1, MuteTells
<1>3. Fares(db, db) /\ Adopted(db, db, None) /\ on_commit \subseteq Sent
  BY RestTold, FaresReflexive, NoneAdopted DEF Sent
<1>4. ContinueWith(db, <<a>> \o Rest, on_commit)
  BY DEF Continue
<1> QED
  BY <1>2, <1>3, <1>4, PlainHonesty

LEMMA UnblockReverseDependenciesHonesty ==
    ASSUME History, Honesty, unblock_reverse_dependencies
    PROVE  Honesty'
<1> DEFINE rdeps == reverse_dependencies(db, Top.w)
           S == {j \in rdeps : can_be_automatically_unblocked(db, j)}
           B == {j \in rdeps : db[j].status = "blocked"}
           d == mark_pending(db, S)
           c == Frame("abort_each", 0, B, "")
<1>1. /\ ~AtRest /\ Top.op = "unblock_reverse_dependencies"
      /\ Continue(d, Rest) \/ Continue(db, <<c>> \o Rest)
  BY DEF unblock_reverse_dependencies
<1>2. IsTable(db) /\ Rooted(db) /\ ~Fills(db, Top) /\ on_commit \subseteq Sent
  BY <1>1, RestTold DEF Fills, Heads, Sent
<1>3. CASE Continue(d, Rest)
  <2>1. \A j \in S \cap DOMAIN db : can_be_unblocked(db, j)
    BY DEF can_be_automatically_unblocked
  <2> HIDE DEF S
  <2>2. Fares(db, d) /\ Keeps(db, d)
    BY <1>2, <2>1, MarkPendingFares, MarkPendingKeeps
  <2>3. ContinueWith(d, Rest, on_commit)
    BY <1>3 DEF Continue
  <2> HIDE DEF d
  <2>4. Adopted(db, d, None)
    BY <2>2, NoneAdopted DEF Keeps
  <2> QED
    BY <1>1, <1>2, <2>2, <2>3, <2>4, PopHonesty
<1>4. CASE Continue(db, <<c>> \o Rest)
  <2>1. c.op = "abort_each" /\ c.set = B
    BY DEF Frame
  <2>2. \A j \in B : ~Closed(db, j)
    BY DEF Closed
  <2> HIDE DEF c, B
  <2>3. \A j \in Mentions(c) : Type(db, j) = "Workflow" => ~Closed(db, j)
    BY <2>1, <2>2 DEF Mentions
  <2>4. Tells(db, c, Sent, None) /\ ~Fills(db, c) /\ Sends(c)
    BY <2>1, <2>3, AbortTells
  <2> QED
    BY <1>1, <1>2, <1>4, <2>4, PushHonesty
<1> QED
  BY <1>1, <1>3, <1>4

LEMMA MaybeFinishWorkflowHonesty ==
    ASSUME History, Honesty, maybe_finish_workflow
    PROVE  Honesty'
<1> DEFINE p == Top.w
           res == FinishResult(db, p)
           a == CallMarkAborted(p)
           b == CallMarkCompleted(p, res)
<1>1. ~AtRest /\ Top.op = "maybe_finish_workflow"
  BY DEF maybe_finish_workflow
<1>2. /\ IsTable(db) /\ ~Fills(db, Top)
      /\ p \notin {None} /\ Type(db, p) = "Workflow" => Safe(db, Sent, p)
  <2>1. ~Fills(db, Top)
    BY <1>1 DEF Fills, Heads
  <2>2. Tells(db, Top, Sent, None) /\ IsTable(db)
    BY <1>1, <2>1, RestTold
  <2> QED
    BY <1>1, <2>1, <2>2 DEF Tells
<1>3. CASE Continue(db, Rest)
  BY <1>1, <1>2, <1>3, SkipHonesty
<1>4. ASSUME p # None, Type(db, p) = "Workflow", db[p].status = "running",
             Continue(db, <<a>> \o Rest)
      PROVE  Honesty'
  <2>1. a.op = "mark_aborted" /\ a.w = p
    BY DEF CallMarkAborted, Frame
  <2>2. ~Closed(db, p)
    BY <1>4 DEF Closed
  <2> HIDE DEF a, p
  <2>3. \A j \in Mentions(a) : Type(db, j) = "Workflow" => ~Closed(db, j)
    BY <2>1, <2>2 DEF Mentions
  <2>4. Tells(db, a, Sent, None) /\ ~Fills(db, a) /\ Sends(a)
    BY <2>1, <2>3, AbortTells
  <2> QED
    BY <1>1, <1>2, <1>4, <2>4, PushHonesty
<1>5. ASSUME p # None, Type(db, p) = "Workflow", db[p].status = "running",
             res # "aborted", Continue(db, <<b>> \o Rest)
      PROVE  Honesty'
  <2>1. b.op = "mark_completed" /\ b.w = p /\ b.arg = res
    BY DEF CallMarkCompleted, Frame
  <2>2. Whole(db, Sent, p)
    BY <1>2, <1>5 DEF Safe, Closed
  <2>3. res \in {"failure", "success"}
    BY <1>5 DEF FinishResult
  <2>4. res = "success" => Done(db, p)
    <3> SUFFICES ASSUME res = "success", NEW i \in Children(db, p)
                 PROVE  /\ db[i].status \notin Active /\ Fair(db, i)
                        /\ Superseded(db, i) \/ db[i].status = "completed"
      BY DEF Done, Deserved
    <3>1. CASE Superseded(db, i)
      <4>1. SupersededDone(db) /\ i \in DOMAIN db
        BY <1>1, RestTold DEF Sound, Children
      <4>2. ~InProgress(db, i)
        BY <3>1, <4>1 DEF SupersededDone
      <4> QED
        BY <3>1, <4>2 DEF InProgress, Active, Fair
    <3>2. CASE ~Superseded(db, i)
      <4>1. /\ db[i].status = "completed"
            /\ db[i].result \in {"success", "skipped"} \/ AllowFailure(db, i)
        BY <1>5, <3>2 DEF FinishResult
      <4> QED
        BY <4>1 DEF Active, Fair
    <3> QED
      BY <3>1, <3>2
  <2> HIDE DEF b, p, res
  <2>5. ~Fills(db, b) /\ Sends(b) /\ ~Reacts(db, b) /\ Mentions(b) = {}
    BY <2>1, <2>3 DEF Fills, Sends, Reacts, Mentions
  <2>6. Tells(db, b, Sent, None)
    BY <2>1, <2>2, <2>3, <2>4, <2>5 DEF Tells
  <2> QED
    BY <1>1, <1>2, <1>5, <2>5, <2>6, PushHonesty
<1>6. \/ Continue(db, Rest)
      \/ /\ p # None /\ Type(db, p) = "Workflow" /\ db[p].status = "running"
         /\ \/ Continue(db, <<a>> \o Rest)
            \/ res # "aborted" /\ Continue(db, <<b>> \o Rest)
  BY DEF maybe_finish_workflow
<1> HIDE DEF a, b, p, res
<1> QED
  BY <1>3, <1>4, <1>5, <1>6

LEMMA ProcessRetryWithDelaysHonesty ==
    ASSUME History, Honesty, process_retry_with_delays
    PROVE  Honesty'
<1> DEFINE i == Top.w
           p == db[i].parent
           n == Len(db)
           e == Delayed(db, i, Top.arg)
           g == Retried(db, i, Top.arg)
<1>1. /\ ~AtRest /\ Top.op = "process_retry_with_delays" /\ i \in 1..n
      /\ n \in Nat /\ Top.arg \in Statuses /\ Top.arg \notin Waiting
  <2>1. /\ ~AtRest /\ Top.op = "process_retry_with_delays" /\ i \in 1..n
        /\ n \in Nat /\ Top.arg \in Statuses
    BY TopFacts, InvFacts DEF process_retry_with_delays, Methods, History
  <2> QED
    BY <2>1, TopOK DEF FrameOK
<1>2. /\ IsTable(db) /\ IsChain(db) /\ Sound(db) /\ Rooted(db) /\ Earned(db)
      /\ ~Fills(db, Top) /\ on_commit \subseteq Sent /\ DOMAIN db = 1..n
  <2>1. ~Fills(db, Top) /\ on_commit \subseteq Sent
    BY <1>1 DEF Fills, Heads, Sent
  <2> QED
    BY <1>1, <2>1, RestTold, TableFacts
<1>3. CASE Continue(db, Rest)
  BY <1>1, <1>2, <1>3, SkipHonesty
<1>4. CASE Raise
  BY <1>4, RaiseHonesty
<1>5. ASSUME db[i].retry_count < Entry(db, i).delays
      PROVE  /\ Type(db, i) = "Worker" /\ p # None
             /\ IF Top.arg = "completed"
                THEN /\ db[p].result # "success"
                     /\ db[p].result = "error" => Closed(db, p)
                ELSE ~Closed(db, p)
             /\ Children(db, p) # {}
  <2>1. Type(db, i) = "Worker"
    BY <1>1, <1>2, <1>5, RetriedWorker
  <2>2. Reacts(db, Top) /\ Tells(db, Top, Sent, Populating(db, calls))
    BY <1>1, <2>1, RestTold DEF Reacts
  <2>3. i \in Children(db, p)
    BY <1>1, <1>2 DEF Children
  <2> QED
    BY <2>1, <2>2, <2>3 DEF Tells
<1>6. ASSUME db[i].retry_count < Entry(db, i).delays, Continue(e, <<>>)
      PROVE  Honesty'
  <2> DEFINE cs == <<>>
  <2>1. Fares(db, e) /\ Len(e) = n + 1 /\ e[n + 1] = NewRow(Delay, p, "pending")
    BY <1>1, <1>2, <1>5, <1>6, DelayedFares
  <2>2. ContinueWith(e, cs, on_commit)
    BY <1>6 DEF Continue
  <2> HIDE DEF e
  <2>3. Populating(e, cs) = None /\ Shape(e, cs) /\ Extends(cs, {})
    BY DEF Populating, Shape, Extends, Frames
  <2>4. Adopted(db, e, Populating(e, cs))
    <3>1. \A m \in 1..Len(e) : m \notin 1..n => m = n + 1
      BY <1>1, <2>1
    <3>2. e[n + 1].parent = p
      BY <2>1 DEF NewRow
    <3> QED
      BY <1>5, <1>6, <3>1, <3>2 DEF Adopted
  <2>5. Populating(db, calls) \in {None, Populating(e, cs)}
    BY <1>1, <1>2, RestTold
  <2>6. \A c \in {} : Sends(c) /\ Tells(e, c, Sent, Populating(e, cs))
    OBVIOUS
  <2> HIDE DEF cs
  <2> QED
    BY <1>1, <1>2, <2>1, <2>2, <2>3, <2>4, <2>5, <2>6, StepHonesty
<1>7. ASSUME db[i].retry_count < Entry(db, i).delays, verify_retry(db, i),
             Continue(g, Rest)
      PROVE  Honesty'
  <2>1. Retriable(db, i) /\ is_aborted_failed(db, i)
    BY <1>1, <1>5, <1>7, VerifiedRetriable DEF verify_retry
  <2>2. Fares(db, g)
    <3>1. Top.arg \in Statuses \ Waiting
      BY <1>1
    <3> QED
      BY <1>2, <1>5, <1>7, <2>1, <3>1, RetriedFares
  <2>3. DOMAIN g = 1..(n + 2) /\ g[n + 1].parent = p /\ g[n + 2].parent = p
    <3>1. Top.arg \in Statuses \ Waiting
      BY <1>1
    <3> QED
      BY <1>2, <2>1, <3>1, RetriedFacts
  <2>4. ContinueWith(g, Rest, on_commit)
    BY <1>7 DEF Continue
  <2> HIDE DEF g
  <2>5. Adopted(db, g, None)
    <3>1. IsTable(g) /\ DOMAIN g = 1..Len(g)
      BY <2>2, TableFacts DEF Fares
    <3>2. \A m \in 1..Len(g) : m \notin 1..n => m \in {n + 1, n + 2}
      BY <1>1, <2>3, <3>1
    <3> QED
      BY <1>5, <1>7, <2>3, <3>2 DEF Adopted
  <2> QED
    BY <1>1, <1>2, <2>2, <2>4, <2>5, PopHonesty
<1>8. /\ e = Append(Set(db, p, Top.arg), NewRow(Delay, p, "pending"))
      /\ g = add_dependencies(retry_supersede(e, i, "delay"),
                              Len(db) + 1 + 1, {Len(db) + 1})
  <2>1. Len(db) + 2 = Len(db) + 1 + 1
    BY <1>1
  <2> QED
    BY <2>1 DEF Delayed, Retried
<1> HIDE DEF e, g
<1>9. \/ Continue(db, Rest)
      \/ Raise
      \/ db[i].retry_count < Entry(db, i).delays /\ Continue(e, <<>>)
      \/ /\ db[i].retry_count < Entry(db, i).delays /\ verify_retry(db, i)
         /\ Continue(g, Rest)
  BY <1>8 DEF process_retry_with_delays
<1> QED
  BY <1>3, <1>4, <1>6, <1>7, <1>9

-----------------------------------------------------------------------------
(* Retries.                                                                *)

(* What exceptions leave to be done.                                       *)
LEMMA UnwoundFrames ==
    ASSUME History, ~AtRest
    PROVE  /\ Unwound # <<>> /\ Head(Unwound) = Handler(Top)
           /\ Frames(Tail(Unwound)) \subseteq {Handler(c) : c \in Frames(Rest)}
           /\ Frames(Unwound)
                \subseteq {Handler(Top)} \cup {Handler(c) : c \in Frames(Rest)}
<1> DEFINE C == Call(Len(db))
           H == {Handler(c) : c \in C}
           u == Unwound
<1>1. calls \in Seq(C) /\ calls # <<>>
  BY DEF History, Inv, TypeOK, AtRest
<1> HIDE DEF C
<1>2. /\ Len(calls) \in Nat /\ DOMAIN calls = 1..Len(calls) /\ Len(calls) # 0
      /\ \A k \in 1..Len(calls) : calls[k] \in C
      /\ Top = calls[1] /\ DOMAIN Rest = 1..(Len(calls) - 1)
      /\ \A k \in 1..(Len(calls) - 1) : Rest[k] = calls[k + 1]
  BY <1>1 DEF Top, Rest
<1>3. u \in Seq(H) /\ Len(u) = Len(calls)
      /\ \A k \in 1..Len(calls) : u[k] = Handler(calls[k])
  <2>1. u = [k \in 1..Len(calls) |-> Handler(calls[k])]
    BY <1>2 DEF Unwound
  <2>2. \A k \in 1..Len(calls) : Handler(calls[k]) \in H
    BY <1>2
  <2> HIDE DEF u, H
  <2> QED
    BY <1>2, <2>1, <2>2
<1> HIDE DEF u, H
<1>4. /\ u # <<>> /\ Head(u) = Handler(Top)
      /\ DOMAIN Tail(u) = 1..(Len(calls) - 1)
      /\ \A k \in 1..(Len(calls) - 1) : Tail(u)[k] = Handler(Rest[k])
  <2>1. u # <<>> /\ Head(u) = u[1] /\ DOMAIN u = 1..Len(calls)
        /\ DOMAIN Tail(u) = 1..(Len(calls) - 1)
        /\ \A k \in 1..(Len(calls) - 1) : Tail(u)[k] = u[k + 1]
    BY <1>2, <1>3
  <2> QED
    BY <1>2, <1>3, <2>1
<1>5. Frames(Tail(u)) \subseteq {Handler(c) : c \in Frames(Rest)}
  BY <1>2, <1>4 DEF Frames
<1>6. Frames(u) \subseteq {Handler(Top)} \cup {Handler(c) : c \in Frames(Rest)}
  <2> SUFFICES ASSUME NEW k \in 1..Len(calls), k # 1
               PROVE  \E c \in Frames(Rest) : u[k] = Handler(c)
    BY <1>2, <1>3 DEF Frames
  <2>1. k - 1 \in DOMAIN Rest /\ Rest[k - 1] = calls[k]
    BY <1>2
  <2> QED
    BY <1>3, <2>1 DEF Frames
<1> QED
  BY <1>4, <1>5, <1>6 DEF u

LEMMA UnwoundHonesty ==
    ASSUME History, Honesty, ~AtRest, Top.op \in {"retry", "orchestrate"},
           Continue(db, Unwound)
    PROVE  Honesty'
<1> DEFINE q == Populating(db, calls)
           h == Handler(Top)
           cs == Unwound
           N == Frames(cs)
<1>1. \A c : Handler(c) = IF c.op = "orchestrate" THEN CallMarkCompleted(c.w, "error")
                          ELSE IF c.op = "maybe_finish_workflow" THEN c
                          ELSE CallFinish(None)
  BY DEF Handler
<1>2. /\ \A i : LET x == CallMarkCompleted(i, "error")
                IN  x.op = "mark_completed" /\ x.w = i /\ x.arg = "error"
      /\ CallFinish(None).op = "maybe_finish_workflow"
      /\ CallFinish(None).w = None
  BY DEF CallMarkCompleted, CallFinish, Frame
<1>3. ASSUME NEW c \in Frames(Rest)
      PROVE  LET x == Handler(c)
             IN  /\ ~Heads(db, x) /\ Still(db, x) /\ Sends(x)
                 /\ Tells(db, x, Sent, q)
  <2> DEFINE x == Handler(c)
  <2>1. ~Heads(db, c) /\ Tells(db, c, Sent, q)
    BY <1>3, RestTold
  <2>2. CASE c.op = "orchestrate"
    <3>1. Type(db, c.w) # "Workflow"
      BY <2>1, <2>2 DEF Heads
    <3>2. x.op = "mark_completed" /\ x.w = c.w
      BY <1>1, <1>2, <2>2
    <3> HIDE DEF x
    <3>3. /\ Tells(db, x, Sent, q)
          /\ ~Heads(db, x) /\ Sends(x) /\ Still(db, x)
      BY <3>1, <3>2, MuteTells
    <3> QED
      BY <3>3 DEF x
  <2>3. CASE c.op = "maybe_finish_workflow"
    <3>1. x = c
      BY <1>1, <2>3
    <3>2. Sends(c) /\ Still(db, c)
      BY <2>3 DEF Sends, Still, Mentions, Reacts
    <3> QED
      BY <2>1, <3>1, <3>2
  <2>4. CASE c.op \notin {"orchestrate", "maybe_finish_workflow"}
    <3>1. x.op = "maybe_finish_workflow" /\ x.w = None
      BY <1>1, <1>2, <2>4
    <3> HIDE DEF x
    <3>2. /\ Tells(db, x, Sent, q)
          /\ ~Heads(db, x) /\ Sends(x) /\ Still(db, x)
      BY <3>1, MuteTells
    <3> QED
      BY <3>2 DEF x
  <2> QED
    BY <2>2, <2>3, <2>4
<1>4. /\ Sends(h) /\ Tells(db, h, Sent, q)
      /\ q = IF Fills(db, h) THEN h.w ELSE None
  <2>1. /\ q = IF Fills(db, Top) THEN Top.w ELSE None
        /\ Tells(db, Top, Sent, q)
    BY RestTold
  <2>2. CASE Top.op = "orchestrate" /\ Type(db, Top.w) = "Workflow"
    <3>1. h.op = "mark_completed" /\ h.w = Top.w /\ h.arg = "error"
      BY <1>1, <1>2, <2>2
    <3>2. Fills(db, Top) /\ q = Top.w
      BY <2>1, <2>2 DEF Fills, Heads
    <3>3. Top.w \in Sent => db[Top.w].status = "running"
      BY <2>1, <2>2 DEF Tells
    <3> HIDE DEF h, q
    <3>4. Fills(db, h) /\ Sends(h) /\ ~Reacts(db, h) /\ Mentions(h) = {}
      BY <2>2, <3>1 DEF Fills, Heads, Sends, Reacts, Mentions
    <3>5. Tells(db, h, Sent, q)
      BY <3>1, <3>3, <3>4 DEF Tells
    <3> QED
      BY <3>1, <3>2, <3>4, <3>5
  <2>3. CASE Top.op = "orchestrate" /\ Type(db, Top.w) # "Workflow"
    <3>1. h.op = "mark_completed" /\ h.w = Top.w
      BY <1>1, <1>2, <2>3
    <3>2. q = None
      BY <2>1, <2>3 DEF Fills, Heads
    <3> HIDE DEF h, q
    <3>3. Tells(db, h, Sent, q) /\ ~Fills(db, h) /\ Sends(h)
      BY <2>3, <3>1, MuteTells
    <3> QED
      BY <3>2, <3>3
  <2>4. CASE Top.op = "retry"
    <3>1. h.op = "maybe_finish_workflow" /\ h.w = None
      BY <1>1, <1>2, <2>4
    <3>2. q = None
      BY <2>1, <2>4 DEF Fills, Heads
    <3> HIDE DEF h, q
    <3>3. Tells(db, h, Sent, q) /\ ~Fills(db, h) /\ Sends(h)
      BY <3>1, MuteTells
    <3> QED
      BY <3>2, <3>3
  <2> QED
    BY <2>2, <2>3, <2>4
<1>5. /\ cs # <<>> /\ Head(cs) = h
      /\ \A x \in Frames(Tail(cs)) : \E c \in Frames(Rest) : x = Handler(c)
      /\ \A x \in N : x = h \/ \E c \in Frames(Rest) : x = Handler(c)
  BY UnwoundFrames
<1>6. ContinueWith(db, cs, on_commit) /\ on_commit \subseteq Sent
  BY DEF Continue, Sent
<1> HIDE DEF cs, h
<1>7. Shape(db, cs)
  <2>1. \A x \in Frames(Tail(cs)) : ~Heads(db, x) /\ Still(db, x)
    BY <1>3, <1>5
  <2> QED
    BY <2>1 DEF Shape
<1>8. Populating(db, cs) = q
  BY <1>4, <1>5 DEF Populating
<1> HIDE DEF q
<1>9. \A x \in N : Sends(x) /\ Tells(db, x, Sent, Populating(db, cs))
  BY <1>3, <1>4, <1>5, <1>8
<1>10. Populating(db, calls) \in {None, Populating(db, cs)}
  BY <1>8 DEF q
<1>11. Fares(db, db) /\ Adopted(db, db, Populating(db, cs)) /\ Extends(cs, N)
  BY RestTold, FaresReflexive, NoneAdopted DEF Extends
<1> HIDE DEF N
<1> QED
  BY <1>6, <1>7, <1>9, <1>10, <1>11, StepHonesty

(* Calls of which nothing is asked, and no workflow populated.             *)
LEMMA MutesHonesty ==
    ASSUME History, Honesty, ~AtRest, ~Fills(db, Top), NEW a, NEW b,
           \/ a.op \in Mute
           \/ a.op = "mark_completed" /\ Type(db, a.w) # "Workflow",
           b.op \in Mute,
           \/ Continue(db, <<a>> \o Rest) \/ Continue(db, <<a, b>> \o Rest)
    PROVE  Honesty'
<1>1. /\ Tells(db, a, Sent, None) /\ Tells(db, b, Sent, None)
      /\ ~Fills(db, a) /\ ~Heads(db, b) /\ Sends(a) /\ Sends(b)
  BY MuteTells
<1>2. Fares(db, db) /\ Adopted(db, db, None) /\ on_commit \subseteq Sent
  BY RestTold, FaresReflexive, NoneAdopted DEF Sent
<1>3. \/ ContinueWith(db, <<a>> \o Rest, on_commit)
      \/ ContinueWith(db, <<a, b>> \o Rest, on_commit)
  BY DEF Continue
<1> QED
  BY <1>1, <1>2, <1>3, PlainHonesty

LEMMA SupersedeHonesty ==
    ASSUME History, Honesty, ~AtRest, ~Fills(db, Top), NEW i,
           Retriable(db, i), is_aborted_failed(db, i), NEW reason,
           Continue(retry_supersede(db, i, reason), Rest)
    PROVE  Honesty'
<1> DEFINE e == retry_supersede(db, i, reason)
           n == Len(db) + 1
<1>1. /\ IsTable(db) /\ IsChain(db) /\ Sound(db) /\ Rooted(db) /\ Earned(db)
      /\ on_commit \subseteq Sent /\ DOMAIN db = 1..Len(db) /\ Len(db) \in Nat
  BY RestTold, TableFacts DEF Sent
<1>2. Fares(db, e)
  BY <1>1, SupersedeFares
<1>3. /\ Len(e) = n
      /\ SameTask([db[i] EXCEPT !.supersedes = i], e[n])
  BY <1>1, SupersedeSound
<1>4. ContinueWith(e, Rest, on_commit)
  BY DEF Continue
<1> HIDE DEF e
<1>5. e[n].parent = db[i].parent /\ i \in Children(db, db[i].parent)
  <2>1. db[i] \in Row(Len(db)) /\ i \in DOMAIN db
    BY <1>1, TableFacts DEF Retriable
  <2> QED
    BY <1>3, <2>1 DEF SameTask, Row, Children
<1>6. Adopted(db, e, None)
  <2>1. \A m \in 1..Len(e) : m \notin 1..Len(db) => m = n
    BY <1>1, <1>3
  <2> QED
    BY <1>5, <2>1 DEF Adopted
<1> QED
  BY <1>1, <1>2, <1>4, <1>6, PopHonesty

LEMMA RetryLostHonesty ==
    ASSUME History, Honesty, retry_lost
    PROVE  Honesty'
<1>1. ~AtRest /\ Top.op = "retry_lost" /\ Top.w \in 1..Len(db)
  BY TopFacts DEF retry_lost, Methods, History
<1>2. ~Fills(db, Top)
  BY <1>1 DEF Fills, Heads
<1>3. CASE Continue(db, Rest)
  BY <1>1, <1>2, <1>3, SkipHonesty
<1>4. CASE /\ verify_retry(db, Top.w)
           /\ Continue(retry_supersede(db, Top.w, Top.arg), Rest)
  <2>1. Type(db, Top.w) = "Worker"
    BY <1>1, TopOK DEF FrameOK
  <2>2. Retriable(db, Top.w) /\ is_aborted_failed(db, Top.w)
    BY <1>1, <1>4, <2>1, VerifiedRetriable DEF verify_retry
  <2> QED
    BY <1>1, <1>2, <1>4, <2>2, SupersedeHonesty
<1> QED
  BY <1>3, <1>4 DEF retry_lost

LEMMA RetryEachHonesty ==
    ASSUME History, Honesty, retry_each
    PROVE  Honesty'
<1> DEFINE failed == {i \in Children(db, Top.w) : is_aborted_failed(db, i)}
           a == Frame("retry_each", None, failed, Top.arg)
           b(i) == CallRetry(i, Top.arg)
           c(i) == Frame("retry_each", None, Top.set \ {i}, Top.arg)
<1>1. ~AtRest /\ Top.op = "retry_each" /\ ~Fills(db, Top)
  BY DEF retry_each, Fills, Heads
<1>2. \/ Continue(db, Rest)
      \/ Continue(db, <<a>> \o Rest)
      \/ \E i \in Top.set : Continue(db, <<b(i), c(i)>> \o Rest)
  BY DEF retry_each
<1>3. /\ a.op \in Mute
      /\ \A i : b(i).op \in Mute /\ c(i).op \in Mute
  BY DEF CallRetry, Frame, Mute
<1> HIDE DEF a, b, c
<1>4. CASE Continue(db, Rest)
  BY <1>1, <1>4, SkipHonesty
<1>5. CASE Continue(db, <<a>> \o Rest)
  BY <1>1, <1>3, <1>5, MutesHonesty
<1>6. ASSUME NEW i \in Top.set, Continue(db, <<b(i), c(i)>> \o Rest)
      PROVE  Honesty'
  <2> DEFINE x == b(i)
             y == c(i)
  <2>1. x.op \in Mute /\ y.op \in Mute /\ Continue(db, <<x, y>> \o Rest)
    BY <1>3, <1>6
  <2> HIDE DEF x, y
  <2> QED
    BY <1>1, <2>1, MutesHonesty
<1> QED
  BY <1>2, <1>4, <1>5, <1>6

LEMMA CompleteEachHonesty ==
    ASSUME History, Honesty, complete_each
    PROVE  Honesty'
<1> DEFINE a(i) == CallMarkCompleted(i, "success")
           b(i) == Frame("complete_each", 0, Top.set \ {i}, "")
<1>1. ~AtRest /\ Top.op = "complete_each" /\ ~Fills(db, Top)
  BY DEF complete_each, Fills, Heads
<1>2. \/ Continue(db, Rest)
      \/ \E i \in Top.set : Continue(db, <<a(i), b(i)>> \o Rest)
  BY DEF complete_each
<1>3. \A i : /\ a(i).op = "mark_completed" /\ a(i).w = i
             /\ b(i).op \in Mute
  BY DEF CallMarkCompleted, Frame, Mute
<1> HIDE DEF a, b
<1>4. CASE Continue(db, Rest)
  BY <1>1, <1>4, SkipHonesty
<1>5. ASSUME NEW i \in Top.set, Continue(db, <<a(i), b(i)>> \o Rest)
      PROVE  Honesty'
  <2> DEFINE x == a(i)
             y == b(i)
  <2>1. Type(db, i) = "Wait"
    BY <1>1, TopOK DEF FrameOK
  <2>2. /\ x.op = "mark_completed" /\ Type(db, x.w) # "Workflow"
        /\ y.op \in Mute /\ Continue(db, <<x, y>> \o Rest)
    BY <1>3, <1>5, <2>1
  <2> HIDE DEF x, y
  <2> QED
    BY <1>1, <2>2, MutesHonesty
<1> QED
  BY <1>2, <1>4, <1>5

LEMMA OrchestrateCallbackHonesty ==
    ASSUME History, Honesty, orchestrate_callback
    PROVE  Honesty'
<1> DEFINE a == CallMarkCompleted(Top.w, "success")
           b == CallRetry(Top.w, "manual")
<1>1. /\ ~AtRest /\ ~Fills(db, Top) /\ Type(db, Top.w) # "Workflow"
      /\ Continue(db, <<a>> \o Rest)
  BY DEF orchestrate_callback, Fills, Heads
<1>2. a.op = "mark_completed" /\ a.w = Top.w /\ b.op \in Mute
  BY DEF CallMarkCompleted, CallRetry, Frame, Mute
<1> HIDE DEF a, b
<1> QED
  BY <1>1, <1>2, MutesHonesty

LEMMA OrchestrateFailsHonesty ==
    ASSUME History, Honesty, orchestrate_fails
    PROVE  Honesty'
  BY RaiseHonesty, UnwoundHonesty DEF orchestrate_fails

(* Below calls that retry or orchestrate, nothing aborts, schedules or     *)
(* reacts.                                                                 *)
LEMMA RestStill ==
    ASSUME History, Debts, ~AtRest, Top.op \in {"retry", "orchestrate"},
           NEW d, Fares(db, d)
    PROVE  \A c \in Frames(Rest) : Still(d, c)
<1> SUFFICES ASSUME NEW c \in Frames(Rest)
             PROVE  Still(d, c)
  OBVIOUS
<1>1. Mentions(c) = {}
  <2>1. Quiet(Rest)
    BY TopOK DEF Settles
  <2> QED
    BY <2>1 DEF Quiet, Frames
<1>2. c \in Call(Len(db)) /\ c \in Frames(calls) /\ Top \in Frames(calls)
  BY TopFrames DEF History
<1>3. ~Reacts(db, c)
  <2>1. Reactions(db, Frames(calls))
    BY DEF Debts
  <2>2. ~Calm(db, Top) /\ ~Reacts(db, Top)
    BY DEF Calm, Reacts
  <2> QED
    BY <1>2, <2>1, <2>2 DEF Reactions
<1>4. ~Reacts(d, c)
  <2>1. c.op \in Methods => c.w \in 1..Len(db)
    BY <1>2 DEF Call
  <2>2. \A j \in 1..Len(db) : Type(d, j) = Type(db, j)
    BY FaresKinds
  <2> QED
    BY <1>3, <2>1, <2>2 DEF Reacts, Methods
<1> QED
  BY <1>1, <1>4 DEF Still

LEMMA RetryHonesty ==
    ASSUME History, Debts, Honesty, retry
    PROVE  Honesty'
<1> DEFINE i == Top.w
           n == retry_count(db, i, Top.arg)
           d == [db EXCEPT ![i].status = "running", ![i].retry_count = n]
           a == CallOrchestrate(db, i)
           b == Frame("retry_each", i, {}, Top.arg)
           c == CallFinish(i)
           t == <<b, c>> \o Rest
           cs == <<a>> \o t
           C == Call(Len(db))
<1>1. /\ ~AtRest /\ Top.op = "retry" /\ i \in 1..Len(db) /\ ~Fills(db, Top)
      /\ Rest \in Seq(C)
  <2>1. /\ ~AtRest /\ Top.op = "retry" /\ i \in 1..Len(db) /\ Rest \in Seq(C)
    BY TopFacts DEF retry, Methods, History
  <2> QED
    BY <2>1 DEF Fills, Heads
<1>2. /\ IsTable(db) /\ Rooted(db) /\ on_commit \subseteq Sent
      /\ DOMAIN db = 1..Len(db)
      /\ Populating(db, calls) = None
  BY <1>1, RestTold, TableFacts DEF Sent
<1>3. CASE Raise
  BY <1>3, RaiseHonesty
<1>4. CASE Continue(db, Unwound)
  BY <1>1, <1>4, UnwoundHonesty
<1>5. CASE /\ verify_retry(db, i) /\ Type(db, i) # "Workflow"
           /\ Continue(retry_supersede(db, i, Top.arg), Rest)
  <2>1. Retriable(db, i) /\ is_aborted_failed(db, i)
    BY <1>1, <1>5, VerifiedRetriable DEF verify_retry
  <2> QED
    BY <1>1, <1>5, <2>1, SupersedeHonesty
<1>6. CASE /\ verify_retry(db, i) /\ Type(db, i) = "Workflow"
           /\ Continue(d, <<a, b, c>> \o Rest)
  <2>1. n \in Nat
    <3>1. db[i].retry_count \in Nat
      BY <1>1, <1>2, TableFacts DEF Row
    <3> QED
      BY <3>1 DEF retry_count
  <2> HIDE DEF n
  <2>2. Fares(db, d) /\ Len(d) = Len(db) /\ d[i].status = "running"
    <3> DEFINE f == Set(db, i, "running")
               g == [f EXCEPT ![i].retry_count = n]
    <3>1. Fares(db, f) /\ Keeps(db, f)
      <4>1. ~Closed(db, i) /\ "running" \in Statuses
        BY <1>6 DEF verify_retry, is_aborted_failed, Closed, Statuses
      <4>2. db[i].parent = None
        BY <1>1, <1>2, <1>6 DEF Rooted
      <4> HIDE DEF i
      <4> QED
        BY <1>2, <1>6, <4>1, <4>2, SetFares, SetKeeps
    <3>2. f[i].status = "running"
      BY <1>1, <1>2, SetFacts
    <3>3. Fares(f, g) /\ Keeps(f, g)
      BY <2>1, <3>1, SetRetryCountFares, SetRetryCountKeeps DEF Keeps
    <3>4. g[i].status = f[i].status
      <4>1. f[i] \in Row(Len(f)) /\ i \in DOMAIN f
        BY <1>1, <3>1, TableFacts DEF Keeps
      <4> HIDE DEF f
      <4> QED
        BY <4>1 DEF Row
    <3>5. d = g
      BY DEF Set
    <3>6. Fares(db, g)
      <4> HIDE DEF f, g
      <4> QED
        BY <1>2, <3>1, <3>3, FaresTransitive
    <3>7. Len(g) = Len(db)
      BY <3>1, <3>3 DEF Keeps
    <3> HIDE DEF d, f, g
    <3> QED
      BY <3>2, <3>4, <3>5, <3>6, <3>7
  <2>3. ContinueWith(d, cs, on_commit)
    <3>1. <<a, b, c>> \o Rest = cs
      <4> DEFINE u == <<c>> \o Rest
      <4>1. <<a, b, c>> \o Rest = <<a, b>> \o u
        BY <1>1, TripleFacts
      <4>2. u \in Seq(C \cup {c})
        BY <1>1, PushFacts
      <4>3. <<b, c>> \o Rest = <<b>> \o u
        BY <1>1, PairFacts
      <4> HIDE DEF u, C
      <4>4. <<a, b>> \o u = <<a>> \o (<<b>> \o u)
        BY <4>2, PairFacts
      <4> QED
        BY <4>1, <4>3, <4>4
    <3> QED
      BY <1>6, <3>1 DEF Continue
  <2>4. /\ a.op = "orchestrate" /\ a.w = i
        /\ a.set = {s \in Step : Plan[s].parent = db[i].step}
    BY <1>6 DEF CallOrchestrate, Frame
  <2>5. /\ b.op \in Mute /\ c.op = "maybe_finish_workflow" /\ c.w = i
    BY DEF Frame, CallFinish, Mute
  <2>6. /\ Frames(t) = {b, c} \cup Frames(Rest)
        /\ t \in Seq(C \cup {b, c})
    <3>1. Frames(t) = {b, c} \cup Frames(Rest)
      BY <1>1, FramesFacts
    <3>2. t \in Seq(C \cup {b, c})
      <4> HIDE DEF C
      <4>1. Rest \in Seq(C \cup {b, c}) /\ <<b, c>> \in Seq(C \cup {b, c})
        BY <1>1
      <4> QED
        BY <4>1
    <3> QED
      BY <3>1, <3>2
  <2> HIDE DEF d, a, b, c, t
  <2>7. Type(d, i) = "Workflow" /\ d[i].step = db[i].step
    BY <1>1, <1>6, <2>2, FaresKinds
  <2>8. Fills(d, a)
    BY <2>4, <2>7 DEF Fills, Heads
  <2>9. /\ ~Heads(d, b) /\ Still(d, b) /\ Sends(b) /\ Tells(d, b, Sent, i)
    BY <2>5, MuteTells
  <2>10. /\ ~Heads(d, c) /\ Still(d, c) /\ Sends(c) /\ Tells(d, c, Sent, i)
    <3>1. ~Heads(d, c) /\ Still(d, c) /\ Sends(c)
      BY <2>5 DEF Heads, Still, Sends, Mentions, Reacts
    <3> QED
      BY <2>5, <3>1 DEF Tells, Still
  <2>11. Sends(a) /\ Tells(d, a, Sent, i)
    <3>1. Sends(a) /\ ~Reacts(d, a) /\ Mentions(a) = {}
      BY <2>4 DEF Sends, Reacts, Mentions
    <3>2. ~Won(d, i)
      BY <2>2 DEF Won
    <3>3. /\ \A s \in a.set : Plan[s].parent = d[i].step
          /\ \A s \in Step \ a.set : Plan[s].parent # d[i].step
      BY <2>4, <2>7
    <3> QED
      BY <2>2, <2>4, <3>1, <3>2, <3>3 DEF Tells
  <2>12. \A x \in Frames(Rest) : ~Heads(d, x) /\ Still(d, x)
    BY <1>1, <2>2, RestShape, RestStill
  <2>13. Shape(d, cs) /\ Populating(d, cs) = i
    <3>1. \A x \in Frames(t) : ~Heads(d, x) /\ (Fills(d, a) => Still(d, x))
      BY <2>6, <2>9, <2>10, <2>12
    <3> HIDE DEF C
    <3> QED
      BY <2>4, <2>6, <2>8, <3>1, PushShape
  <2>14. Extends(cs, {a, b, c})
    <3> HIDE DEF C
    <3>1. Frames(cs) = {a} \cup Frames(t)
      BY <2>6, FramesFacts
    <3> QED
      BY <2>6, <3>1 DEF Extends
  <2> HIDE DEF cs
  <2>15. \A x \in {a, b, c} : Sends(x) /\ Tells(d, x, Sent, Populating(d, cs))
    BY <2>9, <2>10, <2>11, <2>13
  <2>16. Adopted(db, d, Populating(d, cs))
    BY <2>2, NoneAdopted
  <2>17. Populating(db, calls) \in {None, Populating(d, cs)}
    BY <1>2
  <2> QED
    BY <1>1, <1>2, <2>2, <2>3, <2>13, <2>14, <2>15, <2>16, <2>17, StepHonesty
<1> HIDE DEF a, b, c, d
<1>7. \/ Raise
      \/ Continue(db, Unwound)
      \/ /\ verify_retry(db, i) /\ Type(db, i) # "Workflow"
         /\ Continue(retry_supersede(db, i, Top.arg), Rest)
      \/ /\ verify_retry(db, i) /\ Type(db, i) = "Workflow"
         /\ Continue(d, <<a, b, c>> \o Rest)
  BY DEF retry, a, b, c, d
<1> QED
  BY <1>3, <1>4, <1>5, <1>6, <1>7

-----------------------------------------------------------------------------
(* Orchestration.                                                          *)

(* A workflow that is being populated.                                     *)
LEMMA OrchestrateTold ==
    ASSUME History, Debts, Honesty, orchestrate_workflow
    PROVE  LET w == Top.w
           IN  /\ ~AtRest /\ Top.op = "orchestrate" /\ Fills(db, Top)
               /\ Type(db, w) = "Workflow"
               /\ Populating(db, calls) = w /\ w \in 1..Len(db)
               /\ Top.set \subseteq Step
               /\ IsTable(db) /\ Rooted(db) /\ on_commit \subseteq Sent
               /\ \A s \in Top.set : Plan[s].parent = db[w].step /\ Plan[s].parent # 0
               /\ \A s \in Step \ Top.set :
                     Plan[s].parent = db[w].step => Existing(db, s) # {}
               /\ w \in Sent => db[w].status = "running"
               /\ Won(db, w) => Filled(db, w)
               /\ Top.set = {} => Filled(db, w)
<1> DEFINE w == Top.w
<1>1. ~AtRest /\ Top.op = "orchestrate" /\ Type(db, w) = "Workflow"
  BY DEF orchestrate_workflow
<1>2. Fills(db, Top) /\ on_commit \subseteq Sent
  BY <1>1 DEF Fills, Heads, Sent
<1>3. /\ Populating(db, calls) = w /\ Tells(db, Top, Sent, Populating(db, calls))
      /\ IsTable(db) /\ Rooted(db)
  BY <1>1, <1>2, RestTold
<1>4. w \in 1..Len(db) /\ Top.set \subseteq Step
  BY <1>1, TopFrames DEF History, Call, Methods
<1>5. \A s \in Top.set : Plan[s].parent # 0
  BY <1>1, TopOK DEF FrameOK
<1>6. /\ \A s \in Top.set : Plan[s].parent = db[w].step
      /\ \A s \in Step \ Top.set :
            Plan[s].parent = db[w].step => Existing(db, s) # {}
      /\ w \in Sent => db[w].status = "running"
      /\ Won(db, w) => Filled(db, w)
  BY <1>1, <1>3 DEF Tells
<1>7. Top.set = {} => Filled(db, w)
  BY <1>6 DEF Filled
<1> QED
  BY <1>1, <1>2, <1>3, <1>4, <1>5, <1>6, <1>7

LEMMA PopulateHonesty ==
    ASSUME Flat, History, Debts, Honesty, orchestrate_workflow,
           NEW s \in Top.set, NEW new, NEW i,
           i \in Existing(ensure_child(db, Top.w, s), s),
           NEW d2, d2 = requires_artifacts(ensure_child(db, Top.w, s), i, new),
           NEW x, x.op = "orchestrate", x.w = Top.w, x.set = Top.set \ {s},
           Continue(d2, <<x>> \o Rest)
    PROVE  Honesty'
<1> DEFINE w == Top.w
           d1 == ensure_child(db, w, s)
           cs == <<x>> \o Rest
<1>1. /\ ~AtRest /\ Top.op = "orchestrate" /\ Fills(db, Top)
      /\ Type(db, w) = "Workflow"
      /\ Populating(db, calls) = w /\ w \in 1..Len(db)
      /\ Top.set \subseteq Step
      /\ IsTable(db) /\ Rooted(db) /\ on_commit \subseteq Sent
  BY OrchestrateTold
<1>2. /\ \A r \in Top.set : Plan[r].parent = db[w].step /\ Plan[r].parent # 0
      /\ \A r \in Step \ Top.set :
            Plan[r].parent = db[w].step => Existing(db, r) # {}
      /\ w \in Sent => db[w].status = "running"
      /\ Won(db, w) => Filled(db, w)
  BY OrchestrateTold
<1>3. /\ Fares(db, d1) /\ Len(d1) \in {Len(db), Len(db) + 1}
      /\ \A j \in 1..Len(db) : d1[j] = db[j]
      /\ \A j \in 1..Len(d1) : j \notin 1..Len(db) => d1[j].parent = w
  <2>1. s \in Step /\ Plan[s].parent # 0 /\ Plan[s].parent = db[w].step
    BY <1>1, <1>2
  <2> QED
    BY <1>1, <1>2, <2>1, EnsureChildFares
<1>4. /\ x.op = "orchestrate" /\ x.w = w /\ x.set = Top.set \ {s}
      /\ ContinueWith(d2, cs, on_commit) /\ i \in Existing(d1, s)
  BY DEF Continue
<1> HIDE DEF d1
<1>5. /\ IsTable(d1) /\ Rooted(d1) /\ Len(db) \in Nat /\ Len(d1) \in Nat
      /\ Len(db) <= Len(d1)
  <2>1. IsTable(d1) /\ Earned(db) /\ Len(db) <= Len(d1)
    BY <1>1, <1>3, RestTold DEF Fares
  <2> QED
    BY <1>1, <1>3, <2>1, FaresEarned, TableFacts
<1>6. /\ Fares(d1, d2) /\ Len(d2) = Len(d1)
      /\ \A j \in 1..Len(d1) :
            d1[j].status = "running" => d2[j].status = "running"
  BY <1>5, RequiresArtifactsFares DEF d1
<1>7. Fares(db, d2)
  BY <1>1, <1>3, <1>6, FaresTransitive
<1>8. /\ Type(d2, w) = "Workflow" /\ d2[w].step = db[w].step
      /\ w \in 1..Len(d1)
  <2>1. w \in 1..Len(d1)
    <3>1. w \in 1..Len(db)
      BY <1>1
    <3> HIDE DEF w
    <3> QED
      BY <1>5, <3>1
  <2> QED
    BY <1>1, <1>7, <2>1, FaresKinds
<1>9. w \in Sent => d2[w].status = "running"
  BY <1>1, <1>2, <1>3, <1>6, <1>8
<1>10. Won(d2, w) => Filled(d2, w)
  <2>1. Won(d2, w) => Won(db, w)
    BY <1>1, <1>7 DEF Fares
  <2>2. Filled(db, w) => Filled(d2, w)
    BY <1>1, <1>7, FaresFilled
  <2> QED
    BY <1>2, <2>1, <2>2
<1>11. /\ \A r \in x.set : Plan[r].parent = d2[w].step
       /\ \A r \in Step \ x.set :
             Plan[r].parent = d2[w].step => Existing(d2, r) # {}
  <2>1. \A r \in Step : Existing(db, r) \subseteq Existing(d2, r)
    BY <1>1, <1>7, FaresFilled
  <2>2. \A r \in Step : Existing(d1, r) \subseteq Existing(d2, r)
    BY <1>5, <1>6, FaresFilled
  <2>3. Existing(d2, s) # {}
    BY <1>1, <1>4, <2>2
  <2>4. ASSUME NEW r \in Step \ x.set, Plan[r].parent = d2[w].step
        PROVE  Existing(d2, r) # {}
    <3>1. CASE r = s
      BY <2>3, <3>1
    <3>2. CASE r # s
      BY <1>2, <1>4, <1>8, <2>1, <2>4, <3>2
    <3> QED
      BY <3>1, <3>2
  <2> QED
    BY <1>2, <1>4, <1>8, <2>4
<1>12. Fills(d2, x)
  BY <1>4, <1>8 DEF Fills, Heads
<1>13. Sends(x) /\ Tells(d2, x, Sent, w)
  <2>1. Sends(x) /\ ~Reacts(d2, x) /\ Mentions(x) = {}
    BY <1>4 DEF Sends, Reacts, Mentions
  <2> QED
    BY <1>4, <1>9, <1>10, <1>11, <2>1 DEF Tells
<1>14. Rest \in Seq(Call(Len(db)))
  BY <1>1, TopFrames DEF History
<1>15. Shape(d2, cs) /\ Populating(d2, cs) = w
  <2>1. \A c \in Frames(Rest) : ~Heads(d2, c) /\ Still(d2, c)
    BY <1>1, <1>7, RestShape
  <2> QED
    BY <1>4, <1>12, <1>14, <2>1, PushShape
<1>16. Extends(cs, {x})
  BY <1>14, FramesFacts DEF Extends
<1> HIDE DEF cs
<1>17. \A c \in {x} : Sends(c) /\ Tells(d2, c, Sent, Populating(d2, cs))
  BY <1>13, <1>15
<1>18. Adopted(db, d2, Populating(d2, cs))
  <2>1. \A j \in 1..Len(d1) : d2[j].parent = d1[j].parent
    BY <1>6, FaresKinds
  <2> QED
    BY <1>3, <1>6, <1>15, <2>1 DEF Adopted
<1>19. Populating(db, calls) \in {None, Populating(d2, cs)}
  BY <1>1, <1>15
<1>20. /\ ~AtRest /\ on_commit \subseteq Sent /\ Shape(d2, cs)
       /\ ContinueWith(d2, cs, on_commit)
  BY <1>1, <1>4, <1>15
<1> HIDE DEF w
<1> QED
  BY <1>7, <1>16, <1>17, <1>18, <1>19, <1>20, StepHonesty

LEMMA OrchestrateWorkflowHonesty ==
    ASSUME Flat, History, Debts, Honesty, orchestrate_workflow
    PROVE  Honesty'
<1> DEFINE w == Top.w
           left(s) == <<Frame("orchestrate", w, Top.set \ {s}, "")>> \o Rest
           U == {i \in Children(db, w) : can_be_automatically_unblocked(db, i)}
           d == mark_pending(db, U)
           a == CallMarkCompleted(w, "success")
<1>1. /\ ~AtRest /\ Type(db, w) = "Workflow" /\ Fills(db, Top)
      /\ w \in 1..Len(db) /\ Top.set \subseteq Step
      /\ IsTable(db) /\ Rooted(db) /\ on_commit \subseteq Sent
      /\ \A s \in Top.set : Plan[s].parent # 0
      /\ Top.set = {} => Filled(db, w)
  BY OrchestrateTold
<1>2. ASSUME NEW s \in Top.set, NEW i,
             i \in Existing(ensure_child(db, w, s), s),
             LET new == Existing(db, s) = {}
                 d1 == ensure_child(db, w, s)
                 d2 == requires_artifacts(d1, i, new)
                 ready == d2[i].status = "pending"
             IN  IF Plan[s].type = "Workflow" /\ (ready \/ Plan[s].deps = {})
                 THEN Continue(IF ready THEN Set(d2, i, "running") ELSE d2,
                               <<CallOrchestrate(d2, i)>> \o left(s))
                 ELSE Continue(d2, left(s))
      PROVE  Honesty'
  <2> DEFINE new == Existing(db, s) = {}
             d2 == requires_artifacts(ensure_child(db, w, s), i, new)
             x == Frame("orchestrate", w, Top.set \ {s}, "")
  <2>1. Plan[s].type # "Workflow"
    BY <1>1 DEF Flat
  <2>2. Continue(d2, <<x>> \o Rest)
    BY <1>2, <2>1
  <2>3. x.op = "orchestrate" /\ x.w = w /\ x.set = Top.set \ {s}
    BY DEF Frame
  <2>4. d2 = requires_artifacts(ensure_child(db, w, s), i, new)
    OBVIOUS
  <2> HIDE DEF new, d2, x
  <2> QED
    BY <1>2, <2>2, <2>3, <2>4, PopulateHonesty
<1>3. CASE Top.set = {} /\ Continue(d, Rest)
  <2>1. \A j \in U \cap DOMAIN db : can_be_unblocked(db, j)
    BY DEF can_be_automatically_unblocked
  <2> HIDE DEF U
  <2>2. Fares(db, d) /\ Keeps(db, d)
    BY <1>1, <2>1, MarkPendingFares, MarkPendingKeeps
  <2>3. ContinueWith(d, Rest, on_commit)
    BY <1>3 DEF Continue
  <2> HIDE DEF d
  <2>4. Adopted(db, d, None)
    BY <2>2, NoneAdopted DEF Keeps
  <2>5. Safe(d, Sent, w)
    <3>1. Filled(d, w)
      BY <1>1, <1>3, <2>2, FaresFilled
    <3> QED
      BY <3>1 DEF Safe, Whole
  <2> QED
    BY <1>1, <2>2, <2>3, <2>4, <2>5, PopHonesty
<1>4. CASE Top.set = {} /\ Children(db, w) = {} /\ Continue(db, <<a>> \o Rest)
  <2>1. a.op = "mark_completed" /\ a.w = w /\ a.arg = "success"
    BY DEF CallMarkCompleted, Frame
  <2> HIDE DEF a, w
  <2>2. Whole(db, Sent, w) /\ Safe(db, Sent, w)
    BY <1>1, <1>4 DEF Safe, Whole
  <2>3. Done(db, w)
    BY <1>4 DEF Done, Deserved
  <2>4. ~Fills(db, a) /\ Sends(a) /\ ~Reacts(db, a) /\ Mentions(a) = {}
    BY <2>1 DEF Fills, Sends, Reacts, Mentions
  <2>5. Tells(db, a, Sent, None)
    BY <2>1, <2>2, <2>3, <2>4 DEF Tells
  <2> QED
    BY <1>1, <1>4, <2>2, <2>4, <2>5, PushHonesty DEF w
<1>5. \/ \E s \in Top.set :
            \E i \in Existing(ensure_child(db, w, s), s) :
               LET new == Existing(db, s) = {}
                   d1 == ensure_child(db, w, s)
                   d2 == requires_artifacts(d1, i, new)
                   ready == d2[i].status = "pending"
               IN  IF Plan[s].type = "Workflow" /\ (ready \/ Plan[s].deps = {})
                   THEN Continue(IF ready THEN Set(d2, i, "running") ELSE d2,
                                 <<CallOrchestrate(d2, i)>> \o left(s))
                   ELSE Continue(d2, left(s))
      \/ Top.set = {} /\ Continue(d, Rest)
      \/ Top.set = {} /\ Children(db, w) = {} /\ Continue(db, <<a>> \o Rest)
  BY DEF orchestrate_workflow
<1> HIDE DEF a, d, left
<1> QED
  BY <1>2, <1>3, <1>4, <1>5

-----------------------------------------------------------------------------
(* The scheduler.                                                          *)

LEMMA ScheduleTold ==
    ASSUME History, Honesty, schedule_each
    PROVE  /\ ~AtRest /\ ~Fills(db, Top) /\ IsTable(db) /\ Rooted(db)
           /\ DOMAIN Rest = {} /\ Rest \in Seq(Call(Len(db)))
           /\ on_commit \subseteq Sent
           /\ \A i \in Top.set :
                 /\ i \in 1..Len(db) /\ i \in Sent
                 /\ db[i].parent # None => ~Won(db, db[i].parent)
                 /\ Type(db, i) = "Workflow" => ~Closed(db, i)
                 /\ Type(db, i) # "Workflow" => db[i].status # "completed"
<1>1. ~AtRest /\ Top.op = "schedule_each" /\ ~Fills(db, Top)
  BY DEF schedule_each, Fills, Heads
<1>2. /\ IsTable(db) /\ Rooted(db) /\ Mentions(Top) = Top.set
      /\ Tells(db, Top, Sent, Populating(db, calls))
  BY <1>1, RestTold DEF Mentions
<1>3. /\ Top.set \subseteq 1..Len(db) /\ Rest \in Seq(Call(Len(db)))
      /\ Len(db) \in Nat /\ Len(db) <= MaxId
      /\ FrameOK(db, Top) /\ Above(db, Top, Rest)
  BY <1>1, TopFacts, TopOK, InvFacts DEF History, Loops
<1>4. DOMAIN Rest = {}
  BY <1>1, <1>3 DEF Above, Over
<1>5. Top.set \subseteq Sent
  <2>1. Top \in Frames(calls)
    BY <1>1, TopFrames DEF History
  <2>2. 1..Len(db) \subseteq Id
    BY <1>3, WorkRequestsAssumption DEF Id
  <2> QED
    BY <1>1, <1>3, <2>1, <2>2 DEF Sent, Scheduled
<1>6. \A i \in Top.set :
         /\ db[i].parent # None => ~Won(db, db[i].parent)
         /\ Type(db, i) = "Workflow" => ~Closed(db, i)
  BY <1>1, <1>2 DEF Tells
<1>7. \A i \in Top.set : Type(db, i) # "Workflow" => db[i].status # "completed"
  BY <1>2, <1>3 DEF FrameOK
<1> QED
  BY <1>1, <1>2, <1>3, <1>4, <1>5, <1>6, <1>7 DEF Sent

(* What is left of the loops, after an iteration.                          *)
LEMMA LoopTells ==
    ASSUME History, Honesty, schedule_each, NEW d, Fares(db, d),
           NEW f, f.op = "schedule_each", f.set \subseteq Top.set
    PROVE  ~Fills(d, f) /\ ~Heads(d, f) /\ Sends(f) /\ Tells(d, f, Sent, None)
<1>1. /\ IsTable(db)
      /\ \A i \in Top.set :
            /\ i \in 1..Len(db) /\ i \in Sent
            /\ db[i].parent # None => ~Won(db, db[i].parent)
            /\ Type(db, i) = "Workflow" => ~Closed(db, i)
  BY ScheduleTold
<1>2. \A j \in 1..Len(db) : Type(d, j) = Type(db, j) /\ d[j].parent = db[j].parent
  BY FaresKinds
<1>3. \A j \in 1..Len(db) : Type(db, j) = "Workflow" =>
         /\ Won(d, j) => Won(db, j)
         /\ Closed(d, j) <=> Closed(db, j)
  BY DEF Fares
<1>4. \A j \in 1..Len(db) : db[j].parent # None => db[j].parent \in 1..Len(db)
  BY <1>1, RowFacts
<1>5. \A j \in 1..Len(db) : Won(d, j) => Won(db, j)
  BY <1>2, <1>3 DEF Won
<1>6. /\ \A i \in f.set : d[i].parent # None => ~Won(d, d[i].parent)
      /\ \A i \in f.set : Type(d, i) = "Workflow" => ~Closed(d, i)
  BY <1>1, <1>2, <1>3, <1>4, <1>5
<1>7. ~Fills(d, f) /\ ~Heads(d, f) /\ Sends(f) /\ ~Reacts(d, f)
  BY <1>1 DEF Fills, Heads, Sends, Reacts
<1>8. Mentions(f) = f.set
  BY DEF Mentions
<1> QED
  BY <1>6, <1>7, <1>8 DEF Tells

(* The root of a workflow is itself.                                       *)
LEMMA RootIsRoot ==
    ASSUME NEW d, IsTable(d), Rooted(d), Related(d), NEW i \in 1..Len(d),
           Type(d, i) = "Workflow", NEW r \in WorkflowRoot(d, i)
    PROVE  r = i
<1> DEFINE A == {None} \cup DOMAIN d
           step(f) == [j \in A |->
                         IF j = None THEN {} ELSE {j} \cup f[d[j].parent]]
           anc == CHOOSE f : f = step(f)
           g == [j \in A |-> IF j = None THEN {}
                             ELSE IF d[j].parent = None THEN {j}
                             ELSE {j, d[j].parent}]
<1>1. DOMAIN d = 1..Len(d) /\ d[i].parent = None /\ i \in A /\ i # None
  BY TableFacts DEF Rooted
<1>2. \A j \in A : j # None =>
         /\ d[j].parent \in A
         /\ d[j].parent # None => d[d[j].parent].parent = None
  BY <1>1, RowFacts DEF Rooted, Related
<1>3. g = step(g)
  <2>1. \A j \in A :
           g[j] = IF j = None THEN {} ELSE {j} \cup g[d[j].parent]
    BY <1>2
  <2> QED
    BY <2>1
<1>4. anc = step(anc)
  <2> HIDE DEF g, step
  <2> QED
    BY <1>3
<1>5. Ancestors(d, i) = anc[i]
  BY DEF Ancestors
<1>6. None \in A
  OBVIOUS
<1> HIDE DEF anc
<1>7. \A j \in A : anc[j] = IF j = None THEN {} ELSE {j} \cup anc[d[j].parent]
  <2> DEFINE h(j) == IF j = None THEN {} ELSE {j} \cup anc[d[j].parent]
  <2>1. step(anc) = [j \in A |-> h(j)]
    OBVIOUS
  <2> HIDE DEF h, step, A
  <2>2. \A j \in A : anc[j] = h(j)
    BY <1>4, <2>1
  <2> QED
    BY <2>2 DEF h
<1>8. anc[i] = {i}
  BY <1>1, <1>6, <1>7
<1> QED
  BY <1>5, <1>8 DEF WorkflowRoot

(* An iteration.                                                           *)
LEMMA IterationHonesty ==
    ASSUME History, Honesty, schedule_each, NEW d, Fares(db, d),
           Len(d) = Len(db), NEW hooks, hooks \subseteq Sent,
           NEW f, f.op = "schedule_each", f.set \subseteq Top.set,
           ContinueWith(d, <<f>> \o Rest, hooks)
    PROVE  Honesty'
<1> DEFINE x == CallFinish(None)
<1>1. x.op = "maybe_finish_workflow" /\ x.w = None
  BY DEF CallFinish, Frame
<1> HIDE DEF x
<1>2. Tells(d, x, Sent, None) /\ ~Heads(d, x) /\ Sends(x)
  BY <1>1, MuteTells
<1>3. ~Fills(d, f) /\ Sends(f) /\ Tells(d, f, Sent, None)
  BY LoopTells
<1>4. ~AtRest /\ ~Fills(db, Top) /\ Adopted(db, d, None)
  BY ScheduleTold, NoneAdopted
<1> QED
  BY <1>2, <1>3, <1>4, PlainHonesty

(* The synchronization points among what is scheduled are completed.       *)
LEMMA IterationCompletesHonesty ==
    ASSUME History, Honesty, schedule_each,
           NEW a, a.op = "mark_completed", Type(db, a.w) # "Workflow",
           NEW f, f.op = "schedule_each", f.set \subseteq Top.set,
           Continue(db, <<a>> \o (<<f>> \o Rest))
    PROVE  Honesty'
<1> DEFINE C == Call(Len(db))
           t == <<f>> \o Rest
           M == {f}
<1>1. /\ ~AtRest /\ ~Fills(db, Top) /\ Rest \in Seq(C)
      /\ Fares(db, db) /\ Adopted(db, db, None)
  BY ScheduleTold, FaresReflexive, NoneAdopted
<1> HIDE DEF C
<1>2. t \in Seq(C \cup {f}) /\ Frames(t) = M \cup Frames(Rest)
  BY <1>1, PushFacts, FramesFacts
<1>3. Tells(db, a, Sent, None) /\ ~Fills(db, a) /\ Sends(a)
  BY MuteTells
<1>4. \A c \in M : ~Heads(db, c) /\ Sends(c) /\ Tells(db, c, Sent, None)
  BY <1>1, LoopTells
<1>5. Continue(db, <<a>> \o t)
  OBVIOUS
<1> HIDE DEF t, M
<1> QED
  BY <1>1, <1>2, <1>3, <1>4, <1>5, TailHonesty

LEMMA ScheduleEachHonesty ==
    ASSUME History, Honesty, schedule_each
    PROVE  Honesty'
<1> DEFINE f(i) == Frame("schedule_each", 0, Top.set \ {i}, "")
           next(i) == <<f(i)>> \o Rest
           e(i) == Set(db, i, "running")
           a(i) == CallMarkCompleted(i, "success")
<1>1. /\ ~AtRest /\ ~Fills(db, Top) /\ IsTable(db) /\ Rooted(db)
      /\ on_commit \subseteq Sent /\ Rest \in Seq(Call(Len(db)))
      /\ \A i \in Top.set :
            /\ i \in 1..Len(db) /\ i \in Sent
            /\ db[i].parent # None => ~Won(db, db[i].parent)
            /\ Type(db, i) = "Workflow" => ~Closed(db, i)
            /\ Type(db, i) # "Workflow" => db[i].status # "completed"
  BY ScheduleTold
<1>2. /\ \A i : f(i).op = "schedule_each" /\ f(i).set = Top.set \ {i}
      /\ \A i : a(i).op = "mark_completed" /\ a(i).w = i
  BY DEF CallMarkCompleted, Frame
<1>3. ASSUME NEW i \in Top.set
      PROVE  Fares(db, e(i)) /\ Len(e(i)) = Len(db)
  <2>1. "running" \in Statuses
    BY DEF Statuses
  <2>2. Type(db, i) = "Workflow" => db[i].parent = None
    BY <1>1, TableFacts DEF Rooted
  <2>3. Fares(db, e(i))
    BY <1>1, <2>1, <2>2, SetFares
  <2>4. Keeps(db, e(i))
    BY <1>1, <2>1, SetKeeps
  <2> QED
    BY <2>3, <2>4 DEF Keeps
<1>4. Fares(db, db)
  BY <1>1, FaresReflexive
<1> HIDE DEF a, e, f
<1>5. ASSUME NEW i \in Top.set, NEW hooks, hooks \subseteq Sent,
             \/ ContinueWith(db, next(i), hooks)
             \/ ContinueWith(e(i), next(i), hooks)
      PROVE  Honesty'
  <2> DEFINE d == e(i)
             b == f(i)
  <2>1. b.op = "schedule_each" /\ b.set \subseteq Top.set
    BY <1>2
  <2>2. Fares(db, d) /\ Len(d) = Len(db)
    BY <1>3
  <2>3. \/ ContinueWith(db, <<b>> \o Rest, hooks)
        \/ ContinueWith(d, <<b>> \o Rest, hooks)
    BY <1>5
  <2> HIDE DEF b, d
  <2> QED
    BY <1>4, <1>5, <2>1, <2>2, <2>3, IterationHonesty
<1>6. ASSUME NEW i \in Top.set, Type(db, i) = "SyncPoint",
             Continue(db, <<a(i)>> \o next(i))
      PROVE  Honesty'
  <2> DEFINE b == f(i)
             c == a(i)
  <2>1. /\ b.op = "schedule_each" /\ b.set \subseteq Top.set
        /\ c.op = "mark_completed" /\ Type(db, c.w) # "Workflow"
    BY <1>2, <1>6
  <2>2. Continue(db, <<c>> \o (<<b>> \o Rest))
    BY <1>6
  <2> HIDE DEF b, c
  <2> QED
    BY <2>1, <2>2, IterationCompletesHonesty
<1>7. CASE Continue(db, Rest)
  BY <1>1, <1>7, SkipHonesty
<1>8. ASSUME NEW i \in Top.set, Type(db, i) = "Workflow",
             NEW r \in WorkflowRoot(db, i),
             ContinueWith(IF db[r].status = "pending"
                          THEN Set(db, r, "running") ELSE db,
                          next(i), on_commit \cup {r})
      PROVE  Honesty'
  <2>1. r = i
    <3>1. i \in 1..Len(db) /\ Related(db)
      BY <1>1, RestTold
    <3> QED
      BY <1>1, <1>8, <3>1, RootIsRoot
  <2>2. on_commit \cup {r} \subseteq Sent
    BY <1>1, <2>1
  <2>3. \/ ContinueWith(db, next(i), on_commit \cup {r})
        \/ ContinueWith(e(i), next(i), on_commit \cup {r})
    BY <1>8, <2>1 DEF e
  <2> HIDE DEF next
  <2> QED
    BY <1>5, <2>2, <2>3
<1>9. ASSUME NEW i \in Top.set,
             \/ Continue(e(i), next(i))
             \/ Continue(db, next(i))
             \/ ContinueWith(e(i), next(i), on_commit \cup {i})
      PROVE  Honesty'
  <2>1. on_commit \subseteq Sent /\ on_commit \cup {i} \subseteq Sent
    BY <1>1
  <2>2. \/ ContinueWith(e(i), next(i), on_commit)
        \/ ContinueWith(db, next(i), on_commit)
        \/ ContinueWith(e(i), next(i), on_commit \cup {i})
    BY <1>9 DEF Continue
  <2> HIDE DEF next
  <2> QED
    BY <1>5, <2>1, <2>2
<1>10. \/ Continue(db, Rest)
       \/ \E i \in Top.set :
             \/ Type(db, i) = "SyncPoint" /\ Continue(db, <<a(i)>> \o next(i))
             \/ Continue(e(i), next(i))
             \/ Continue(db, next(i))
             \/ ContinueWith(e(i), next(i), on_commit \cup {i})
             \/ /\ Type(db, i) = "Workflow"
                /\ \E r \in WorkflowRoot(db, i) :
                      ContinueWith(IF db[r].status = "pending"
                                   THEN Set(db, r, "running") ELSE db,
                                   next(i), on_commit \cup {r})
  BY DEF schedule_each, a, e, f
<1> HIDE DEF next
<1> QED
  BY <1>6, <1>7, <1>8, <1>9, <1>10

(* The next request of a worker.                                           *)
LEMMA NextPendingHonesty ==
    ASSUME History, Debts, Honesty, next_pending
    PROVE  Honesty'
<1>1. ~AtRest /\ Top.op = "next_pending" /\ ~Fills(db, Top)
  BY DEF next_pending, Fills, Heads
<1>2. CASE Continue(db, Rest)
  BY <1>1, <1>2, SkipHonesty
<1>3. ASSUME NEW i \in Pending(db, Top.worker),
             Continue(Set(db, i, "running"), Rest)
      PROVE  Honesty'
  <2> DEFINE d == Set(db, i, "running")
  <2>1. /\ IsTable(db) /\ Related(db) /\ Earned(db) /\ on_commit \subseteq Sent
        /\ DOMAIN db = 1..Len(db)
    BY <1>1, RestTold, TableFacts DEF Sent
  <2>2. /\ i \in 1..Len(db) /\ db[i].status = "pending"
        /\ db[i].worker = Top.worker
    BY <2>1 DEF Pending
  <2>3. Top.worker # None
    BY <1>1, TopFrames DEF Debts, Reactions, History
  <2>4. Type(db, i) # "Workflow"
    BY <2>1, <2>2, <2>3 DEF Related
  <2>5. db[i].parent # None => ~Won(db, db[i].parent)
    BY <2>1, <2>2, RowFacts DEF Earned, Deserved, Children, Active
  <2>6. "running" \in Statuses
    BY DEF Statuses
  <2>7. Fares(db, d) /\ Keeps(db, d)
    BY <2>1, <2>2, <2>4, <2>5, <2>6, SetFares, SetKeeps
  <2>8. ContinueWith(d, Rest, on_commit)
    BY <1>3 DEF Continue
  <2> HIDE DEF d
  <2>9. Adopted(db, d, None)
    BY <2>7, NoneAdopted DEF Keeps
  <2> QED
    BY <1>1, <2>1, <2>7, <2>8, <2>9, PopHonesty
<1> QED
  BY <1>2, <1>3 DEF next_pending

LEMMA ScheduleInternalHonesty ==
    ASSUME History, Honesty, schedule_internal
    PROVE  Honesty'
<1> DEFINE s == Schedulable(db)
           c == Frame("schedule_each", 0, s, "")
           cs == <<c>>
           S == queued \cup {} \cup Scheduled(cs)
<1>1. AtRest /\ Proceed("task", db, cs, {})
  BY DEF schedule_internal, Begin
<1>2. /\ Honest(db, queued, None) /\ IsTable(db) /\ Related(db)
      /\ Rooted(db) /\ Earned(db) /\ DOMAIN db = 1..Len(db)
  BY <1>1, RestHonesty
<1>3. \A i \in s : i \in DOMAIN db /\ db[i].status = "pending"
  BY DEF Schedulable
<1>4. c.op = "schedule_each" /\ c.set = s
  BY DEF Frame
<1> HIDE DEF s, c
<1>5. /\ Frames(cs) = {c} /\ cs # <<>> /\ Head(cs) = c /\ Frames(Tail(cs)) = {}
  BY DEF Frames
<1> HIDE DEF cs
<1>6. \A i \in S : i \in queued \/ i \in s
  BY <1>4, <1>5 DEF Scheduled
<1>7. ~Fills(db, c) /\ ~Reacts(db, c) /\ Mentions(c) = s
  BY <1>4 DEF Fills, Heads, Reacts, Mentions
<1>8. Populating(db, cs) = None /\ Shape(db, cs)
  BY <1>5, <1>7 DEF Populating, Shape
<1>9. Tells(db, c, S, None)
  <2>1. \A i \in s : db[i].parent # None => ~Won(db, db[i].parent)
    BY <1>2, <1>3, RowFacts DEF Earned, Deserved, Children, Active
  <2>2. \A i \in s : ~Closed(db, i)
    BY <1>3 DEF Closed
  <2> QED
    BY <1>4, <1>7, <2>1, <2>2 DEF Tells
<1>10. Honest(db, S, None)
  <2>1. ASSUME NEW p \in DOMAIN db, Type(db, p) = "Workflow", Won(db, p)
        PROVE  Whole(db, S, p)
    <3>1. Whole(db, queued, p)
      BY <1>2, <2>1 DEF Honest
    <3>2. p \notin s
      BY <1>3, <2>1 DEF Won
    <3> QED
      BY <1>6, <3>1, <3>2 DEF Whole
  <2>2. ASSUME NEW p \in DOMAIN db, Type(db, p) = "Workflow",
               p # None, Children(db, p) # {}
        PROVE  Safe(db, S, p)
    <3>1. Safe(db, queued, p)
      BY <1>2, <2>2 DEF Honest
    <3>2. p \notin s
      <4>1. PICK i \in DOMAIN db : db[i].parent = p
        BY <2>2 DEF Children
      <4>2. db[p].status # "pending"
        BY <1>2, <2>2, <4>1 DEF Related, Waiting
      <4> QED
        BY <1>3, <4>2
    <3> QED
      BY <1>6, <3>1, <3>2 DEF Safe, Whole
  <2> HIDE DEF S
  <2> QED
    BY <1>2, <2>1, <2>2 DEF Honest
<1>11. S = queued \cup {} \cup Scheduled(cs)
  OBVIOUS
<1> HIDE DEF S
<1>12. \A x \in Frames(cs) : Tells(db, x, S, Populating(db, cs))
  BY <1>5, <1>8, <1>9
<1>13. Honest(db, S, Populating(db, cs))
  BY <1>8, <1>10
<1> QED
  BY <1>1, <1>8, <1>11, <1>12, <1>13, ProceedHonesty

(* Transactions that begin with a call of which nothing is asked.          *)
LEMMA BeginMuteHonesty ==
    ASSUME History, Honesty, NEW who, NEW d, Fares(db, d), Len(d) = Len(db),
           NEW c,
           \/ c.op \in Mute
           \/ c.op = "mark_completed" /\ Type(d, c.w) # "Workflow",
           Begin(who, d, <<c>>)
    PROVE  Honesty'
<1>1. Tells(d, c, queued, None) /\ ~Heads(d, c)
  BY MuteTells
<1>2. c.op # "schedule_each" /\ Adopted(db, d, None)
  BY NoneAdopted DEF Mute
<1> QED
  BY <1>1, <1>2, BeginCallHonesty

LEMMA CompleteDelayTasksHonesty ==
    ASSUME History, Honesty, complete_delay_tasks
    PROVE  Honesty'
<1>1. PICK S \in SUBSET {i \in DOMAIN db : Type(db, i) = "Wait"
                                         /\ db[i].status = "running"} :
        Begin("task", db, <<Frame("complete_each", 0, S, "")>>)
  BY DEF complete_delay_tasks
<1> DEFINE c == Frame("complete_each", 0, S, "")
<1>2. c.op \in Mute /\ Begin("task", db, <<c>>)
  BY <1>1 DEF Frame, Mute
<1> HIDE DEF c
<1>3. Fares(db, db)
  BY <1>2, RestHonesty, FaresReflexive DEF Begin
<1> QED
  BY <1>2, <1>3, BeginMuteHonesty

LEMMA AssignHonesty ==
    ASSUME History, Honesty, NEW k \in Workers, Assign(k)
    PROVE  Honesty'
<1>1. PICK i \in DOMAIN db : \/ assign_worker(k, i) \/ assign_skipped(k, i)
                             \/ assign_failed(k, i)
  BY DEF Assign
<1> DEFINE d == [db EXCEPT ![i].worker = k]
           c(res) == CallMarkCompleted(i, res)
<1>2. AtRest /\ Type(db, i) = "Worker"
  BY <1>1 DEF assign_worker, assign_skipped, assign_failed, Assignable, Begin
<1>3. IsTable(db) /\ DOMAIN db = 1..Len(db) /\ Fares(db, db)
  BY <1>2, RestHonesty, FaresReflexive
<1>4. Fares(db, d) /\ Len(d) = Len(db)
  BY <1>3, SetWorkerFares, SetWorkerKeeps DEF Keeps
<1>5. \/ Begin("task", d, <<>>)
      \/ Begin("task", d, <<c("skipped")>>)
      \/ Begin("task", db, <<c("error")>>)
  BY <1>1 DEF assign_worker, assign_skipped, assign_failed
<1>6. \A res : c(res).op = "mark_completed" /\ c(res).w = i
  BY DEF CallMarkCompleted, Frame
<1> HIDE DEF c, d
<1>7. Type(d, i) # "Workflow"
  BY <1>2, <1>3, <1>4, FaresKinds
<1>8. CASE Begin("task", d, <<>>)
  BY <1>4, <1>8, BeginCallHonesty, NoneAdopted
<1>9. CASE Begin("task", d, <<c("skipped")>>)
  <2> DEFINE x == c("skipped")
  <2>1. /\ x.op = "mark_completed" /\ Type(d, x.w) # "Workflow"
        /\ Begin("task", d, <<x>>)
    BY <1>6, <1>7, <1>9
  <2> HIDE DEF x
  <2> QED
    BY <1>4, <2>1, BeginMuteHonesty
<1>10. CASE Begin("task", db, <<c("error")>>)
  <2> DEFINE x == c("error")
  <2>1. /\ x.op = "mark_completed" /\ Type(db, x.w) # "Workflow"
        /\ Begin("task", db, <<x>>)
    BY <1>2, <1>6, <1>10
  <2> HIDE DEF x
  <2> QED
    BY <1>3, <2>1, BeginMuteHonesty
<1> QED
  BY <1>5, <1>8, <1>9, <1>10

LEMMA ReportsHonesty ==
    ASSUME History, Honesty, NEW k, NEW statuses, Reports(k, statuses)
    PROVE  Honesty'
<1>1. PICK i \in DOMAIN db, res \in Outcomes :
        update_work_request_as_completed(i, res)
  BY DEF Reports
<1> DEFINE c == CallMarkCompleted(i, res)
<1>2. db[i].worker # None /\ Begin("api", db, <<c>>)
  BY <1>1 DEF update_work_request_as_completed
<1>3. IsTable(db) /\ Related(db) /\ Fares(db, db)
  BY <1>2, RestHonesty, FaresReflexive DEF Begin
<1>4. c.op = "mark_completed" /\ Type(db, c.w) # "Workflow"
  BY <1>2, <1>3 DEF CallMarkCompleted, Frame, Related
<1> HIDE DEF c
<1> QED
  BY <1>2, <1>3, <1>4, BeginMuteHonesty

LEMMA UserRetryHonesty ==
    ASSUME History, Honesty, NEW i, user_retry(i)
    PROVE  Honesty'
<1> DEFINE c == CallRetry(i, "manual")
<1>1. c.op \in Mute
  BY DEF CallRetry, Frame, Mute
<1>2. \E who \in {"api", "web"} : Begin(who, db, <<c>>)
  BY DEF user_retry
<1> HIDE DEF c
<1>3. Fares(db, db)
  BY <1>2, RestHonesty, FaresReflexive DEF Begin
<1> QED
  BY <1>1, <1>2, <1>3, BeginMuteHonesty

LEMMA CreateWorkRequestHonesty ==
    ASSUME History, Honesty, NEW s \in Step, create_work_request(s)
    PROVE  Honesty'
<1> DEFINE d == Append(db, NewRow(s, None, "pending"))
<1>1. Begin("api", d, <<>>)
  BY DEF create_work_request
<1>2. IsTable(db) /\ Len(db) \in Nat
  BY <1>1, RestHonesty, TableFacts DEF Begin
<1>3. s \in 0..Steps /\ 0 \in 0..Len(db) /\ "pending" \in {"blocked", "pending"}
  BY <1>2, WorkRequestsAssumption DEF Step
<1>4. /\ Fares(db, d) /\ Len(d) = Len(db) + 1
      /\ d[Len(db) + 1] = NewRow(s, None, "pending")
  BY <1>2, <1>3, NewRowFares
<1> HIDE DEF d
<1>5. Adopted(db, d, None)
  <2>1. \A n \in 1..Len(d) : n \notin 1..Len(db) => n = Len(db) + 1
    BY <1>2, <1>4
  <2> QED
    BY <1>4, <2>1 DEF Adopted, NewRow
<1> QED
  BY <1>1, <1>4, <1>5, BeginCallHonesty

(* Transactions that begin with a call that aborts.                        *)
LEMMA AbortHonesty ==
    ASSUME History, Honesty, NEW i, abort(i)
    PROVE  Honesty'
<1> DEFINE S == {j \in DOMAIN db : i \in Ancestors(db, j) /\ verify_abort(db, j)}
           c == Frame("abort_each", 0, S, "manual")
<1>1. \A j \in S : ~Closed(db, j)
  BY DEF verify_abort, InProgress, Closed
<1>2. Begin("web", db, <<c>>)
  BY DEF abort
<1>3. c.op = "abort_each" /\ c.set = S
  BY DEF Frame
<1> HIDE DEF S, c
<1>4. Mentions(c) = S
  BY <1>3 DEF Mentions
<1>5. Tells(db, c, queued, None) /\ ~Heads(db, c)
  <2>1. \A j \in Mentions(c) : Type(db, j) = "Workflow" => ~Closed(db, j)
    BY <1>1, <1>4
  <2> QED
    BY <1>3, <2>1, AbortTells
<1>6. Fares(db, db) /\ Adopted(db, db, None)
  BY <1>2, RestHonesty, FaresReflexive, NoneAdopted DEF Begin
<1> QED
  BY <1>2, <1>3, <1>5, <1>6, BeginCallHonesty

LEMMA ReviewManualUnblockHonesty ==
    ASSUME History, Honesty, NEW i \in DOMAIN db, review_manual_unblock(i)
    PROVE  Honesty'
<1> DEFINE d == mark_pending(db, {i})
           c == CallMarkAborted(i)
<1>1. /\ AtRest /\ can_be_unblocked(db, i)
      /\ Begin("web", d, <<>>) \/ Begin("web", db, <<c>>)
  BY DEF review_manual_unblock, Begin
<1>2. IsTable(db) /\ Rooted(db) /\ Fares(db, db) /\ Adopted(db, db, None)
  BY <1>1, RestHonesty, FaresReflexive, NoneAdopted
<1>3. Fares(db, d) /\ Len(d) = Len(db)
  BY <1>1, <1>2, MarkPendingFares, MarkPendingKeeps DEF Keeps
<1>4. /\ c.op = "mark_aborted" /\ Mentions(c) = {i}
  BY DEF CallMarkAborted, Frame, Mentions
<1> HIDE DEF c, d
<1>5. Tells(db, c, queued, None) /\ ~Heads(db, c)
  <2>1. \A j \in Mentions(c) : Type(db, j) = "Workflow" => ~Closed(db, j)
    BY <1>1, <1>4 DEF can_be_unblocked, Closed
  <2> QED
    BY <1>4, <2>1, AbortTells
<1>6. Adopted(db, d, None)
  BY <1>3, NoneAdopted
<1> QED
  BY <1>1, <1>2, <1>3, <1>4, <1>5, <1>6, BeginCallHonesty

LEMMA GetNextWorkRequestHonesty ==
    ASSUME History, Honesty, NEW k \in Workers, get_next_work_request(k)
    PROVE  Honesty'
<1> DEFINE c == [Frame("next_pending", 0, {}, "") EXCEPT !.worker = k]
           a(i) == CallMarkAborted(i)
           b(i) == Frame("retry_lost", i, {}, "worker_failed")
<1>1. AtRest
  BY DEF get_next_work_request, Begin
<1>2. IsTable(db) /\ Related(db) /\ Fares(db, db) /\ Adopted(db, db, None)
  BY <1>1, RestHonesty, FaresReflexive, NoneAdopted
<1>3. /\ c.op \in Mute
      /\ \A i : /\ a(i).op = "mark_aborted" /\ a(i).w = i
                /\ b(i).op \in Mute
  BY DEF CallMarkAborted, Frame, Mute
<1>4. \/ Begin("api", db, <<c>>)
      \/ \E i \in Running(db, k) : Begin("api", db, <<a(i), b(i)>> \o <<c>>)
  BY DEF get_next_work_request
<1> HIDE DEF a, b, c
<1>5. CASE Begin("api", db, <<c>>)
  BY <1>2, <1>3, <1>5, BeginMuteHonesty
<1>6. ASSUME NEW i \in Running(db, k), Begin("api", db, <<a(i), b(i)>> \o <<c>>)
      PROVE  Honesty'
  <2> DEFINE x == a(i)
             y == b(i)
             t == <<c>>
             cs == <<x, y>> \o t
  <2>1. Type(db, i) # "Workflow"
    <3>1. k # None /\ i \in DOMAIN db /\ db[i].worker = k
      BY WorkRequestsAssumption DEF Running
    <3> QED
      BY <1>2, <3>1 DEF Related
  <2>2. /\ x.op = "mark_aborted" /\ x.w = i /\ y.op \in Mute /\ c.op \in Mute
        /\ Begin("api", db, cs)
    BY <1>3, <1>6
  <2> HIDE DEF x, y
  <2>3. Tells(db, x, queued, None) /\ ~Heads(db, x)
    <3>1. Mentions(x) = {i}
      BY <2>2 DEF Mentions
    <3> QED
      BY <2>1, <2>2, <3>1, AbortTells
  <2>4. /\ Tells(db, y, queued, None) /\ ~Heads(db, y)
        /\ Tells(db, c, queued, None) /\ ~Heads(db, c)
    BY <2>2, MuteTells
  <2>5. t \in Seq({c}) /\ Frames(t) = {c}
    BY DEF Frames
  <2> HIDE DEF t
  <2>6. cs \in Seq({x, y, c}) /\ Frames(cs) = {x, y, c}
    <3>1. Frames(cs) = {x, y} \cup {c}
      BY <2>5, FramesFacts
    <3>2. t \in Seq({x, y, c}) /\ <<x, y>> \in Seq({x, y, c})
      BY <2>5
    <3> QED
      BY <3>1, <3>2
  <2>7. \A f \in {x, y, c} :
           /\ f.op # "schedule_each" /\ ~Heads(db, f)
           /\ Tells(db, f, queued, None)
    BY <2>2, <2>3, <2>4 DEF Mute
  <2> HIDE DEF cs
  <2> QED
    BY <1>2, <2>2, <2>6, <2>7, BeginHonesty
<1> QED
  BY <1>4, <1>5, <1>6

(* Celery runs the task of a workflow, or of a callback.                   *)
LEMMA RunWorkflowTaskHonesty ==
    ASSUME History, Honesty, NEW i \in queued, run_workflow_task(i)
    PROVE  Honesty'
<1> DEFINE c == CallOrchestrate(db, i)
           cs == <<c>>
           S == queued \ {i}
           q == Populating(db, cs)
<1>1. /\ db' = db /\ committed' = committed /\ on_commit' = on_commit
      /\ calls' = cs /\ queued' = S /\ AtRest
  BY DEF run_workflow_task
<1>2. /\ Honest(db, queued, None) /\ db = committed
      /\ IsTable(db) /\ DOMAIN db = 1..Len(db) /\ on_commit = {}
      /\ Honest(committed, queued, None)
  BY <1>1, RestHonesty DEF History, Inv, TypeOK, AtRest, Honesty
<1>3. i \in DOMAIN db /\ Type(db, i) \in {"Workflow", "Callback"}
  BY <1>2 DEF History, Inv, TypeOK, HooksOK
<1>4. /\ c.op = "orchestrate" /\ c.w = i
      /\ Type(db, i) = "Workflow" =>
            c.set = {s \in Step : Plan[s].parent = db[i].step}
  BY DEF CallOrchestrate, Frame
<1> HIDE DEF c
<1>5. /\ Frames(cs) = {c} /\ cs # <<>> /\ Head(cs) = c /\ Frames(Tail(cs)) = {}
  BY DEF Frames
<1> HIDE DEF cs
<1>6. Fills(db, c) <=> Type(db, i) = "Workflow"
  BY <1>4 DEF Fills, Heads
<1>7. q = (IF Type(db, i) = "Workflow" THEN i ELSE None) /\ Shape(db, cs)
  BY <1>4, <1>5, <1>6 DEF Populating, Shape
<1>8. Sent' = S
  <2>1. Scheduled(cs) = {}
    BY <1>4, <1>5 DEF Scheduled
  <2>2. Sent' = queued' \cup on_commit' \cup Scheduled(calls')
    BY DEF Sent, Scheduled, Frames
  <2> QED
    BY <1>1, <1>2, <2>1, <2>2
<1>9. Honest(db, S, q)
  <2>1. IsTable(db) /\ Fares(db, db)
    BY <1>2, FaresReflexive
  <2>2. S \subseteq queued /\ None \in {None, q}
    OBVIOUS
  <2>3. \A n \in 1..Len(db) : n \notin 1..Len(db) =>
           db[n].parent \in {None, q} \/ Children(db, db[n].parent) # {}
    OBVIOUS
  <2> HIDE DEF S, q
  <2> QED
    BY <1>2, <2>1, <2>2, <2>3, HonestKept
<1>10. Honest(committed, S, None)
  BY <1>2, HonestLess
<1>11. Tells(db, c, S, q)
  <2>1. CASE Type(db, i) = "Workflow"
    <3>1. ~Reacts(db, c) /\ Mentions(c) = {}
      BY <1>4 DEF Reacts, Mentions
    <3>2. Won(db, i) => Filled(db, i)
      BY <1>2, <1>3, <2>1 DEF Honest, Whole
    <3>3. /\ \A s \in c.set : Plan[s].parent = db[i].step
          /\ \A s \in Step \ c.set : Plan[s].parent # db[i].step
      BY <1>4, <2>1
    <3>4. i \notin S
      OBVIOUS
    <3> HIDE DEF S
    <3> QED
      BY <1>4, <3>1, <3>2, <3>3, <3>4 DEF Tells
  <2>2. CASE Type(db, i) # "Workflow"
    BY <1>4, <2>2, MuteTells
  <2> QED
    BY <2>1, <2>2
<1>12. \A x \in Frames(cs) : Tells(db, x, S, q)
  BY <1>5, <1>11
<1> QED
  BY <1>1, <1>7, <1>8, <1>9, <1>10, <1>12 DEF Honesty

-----------------------------------------------------------------------------
(* The theorem.                                                            *)

LEMMA InitHonesty == Init => Honesty
<1> SUFFICES ASSUME Init PROVE Honesty
  OBVIOUS
<1>1. /\ db = <<>> /\ committed = <<>> /\ calls = <<>> /\ Frames(calls) = {}
  BY DEF Init, Frames
<1>2. \A S : Honest(<<>>, S, None)
  BY DEF Honest, Rooted, Earned
<1>3. Populating(db, calls) = None /\ Shape(db, calls)
  BY <1>1 DEF Populating, Shape
<1> QED
  BY <1>1, <1>2, <1>3 DEF Honesty

LEMMA NextHonesty ==
    ASSUME Flat
    PROVE  History /\ Debts /\ Honesty /\ [Next]_vars => Honesty'
<1> SUFFICES ASSUME History, Debts, Honesty, [Next]_vars PROVE Honesty'
  OBVIOUS
<1>1. CASE Method
  BY <1>1, MarkAbortedHonesty, AbortEachHonesty, MarkCompletedHonesty,
     UnblockReverseDependenciesHonesty, ProcessRetryWithDelaysHonesty,
     MaybeFinishWorkflowHonesty, RetryHonesty, RetryEachHonesty,
     OrchestrateCallbackHonesty, OrchestrateWorkflowHonesty,
     OrchestrateFailsHonesty, ScheduleEachHonesty, CompleteEachHonesty,
     RetryLostHonesty, NextPendingHonesty DEF Method
<1>2. CASE User
  BY <1>2, CreateWorkRequestHonesty, AbortHonesty, UserRetryHonesty,
     ReviewManualUnblockHonesty DEF User
<1>3. CASE schedule_internal
  BY <1>3, ScheduleInternalHonesty
<1>4. CASE \E i \in queued : run_workflow_task(i)
  BY <1>4, RunWorkflowTaskHonesty
<1>5. CASE complete_delay_tasks
  BY <1>5, CompleteDelayTasksHonesty
<1>6. CASE \E k \in Workers : \/ Assign(k) \/ Worker(k)
                             \/ Reports(k, {"completed", "aborted"})
  BY <1>6, AssignHonesty, GetNextWorkRequestHonesty, ReportsHonesty DEF Worker
<1>7. CASE UNCHANGED vars
  BY <1>7 DEF vars, Honesty, Sent, Scheduled
<1> QED
  BY <1>1, <1>2, <1>3, <1>4, <1>5, <1>6, <1>7 DEF Next

(* A workflow that has completed with success has no child that failed, is *)
(* still to run, was aborted or is waiting, unless it was superseded or is *)
(* allowed to fail; whatever was retried, reported late, aborted, rolled   *)
(* back or populated again after that.  For plans without sub-workflows.   *)
THEOREM SuccessKept ==
    ASSUME Flat
    PROVE  Spec => []SuccessIsHonest
<1>1. History /\ Debts /\ Honesty /\ [Next]_vars => Honesty'
  BY NextHonesty
<1>2. History /\ Honesty => SuccessIsHonest
  <2> SUFFICES ASSUME History, Honesty, NEW p \in DOMAIN committed,
                      NEW i \in Children(committed, p),
                      committed[p].status = "completed",
                      committed[p].result = "success",
                      ~Superseded(committed, i), ~AllowFailure(committed, i)
               PROVE  /\ committed[i].status = "completed"
                      /\ committed[i].result \in {"success", "skipped"}
    BY DEF SuccessIsHonest
  <2>1. /\ Earned(committed) /\ Related(committed)
        /\ DOMAIN committed = 1..Len(committed)
    BY InvFacts, TableFacts DEF Honesty, Honest, History, Sound
  <2>2. i \in DOMAIN committed /\ committed[i].parent = p /\ p # None
    BY <2>1 DEF Children
  <2>3. Won(committed, p)
    BY <2>1, <2>2 DEF Won, Related
  <2> QED
    BY <2>1, <2>3 DEF Earned, Deserved, Fair
<1> QED
  BY <1>1, <1>2, InitHonesty, SpecHistory, SpecDebts, PTL DEF Spec
=============================================================================
