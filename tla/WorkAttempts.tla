----------------------------- MODULE WorkAttempts -----------------------------
(***************************************************************************)
(* What the server and its external workers promise together of every work *)
(* request, whatever happens to processes, connections and calls.          *)
(*                                                                         *)
(* A request is handed out to a worker when it becomes running.  It is     *)
(* executed at most once for each time that it is handed out, a worker has *)
(* one request at a time, and a result that is recorded comes from a       *)
(* worker that had the request.                                            *)
(***************************************************************************)
CONSTANTS Workers, Requests

VARIABLES
    status,     \* of each request
    handed,     \* <<w, i>>: the answer to w that carries i is on its way
    held        \* <<w, i>>: w executes i, or reports its result

vars == <<status, handed, held>>

Busy(w) == {i \in Requests : <<w, i>> \in handed \cup held}
InProgress(i) == status[i] \in {"pending", "running"}

Init ==
    /\ status = [i \in Requests |-> "absent"]
    /\ handed = {}
    /\ held = {}

Create(i) ==
    /\ status[i] = "absent"
    /\ status' = [status EXCEPT ![i] = "pending"]
    /\ UNCHANGED <<handed, held>>

(* A worker asks for work.  What the server believed to be running on it   *)
(* is aborted, and may be created again; one that is pending, if any, is   *)
(* handed out, unless the answer is lost.                                  *)
Moved(from, to) == {i \in Requests : status[i] = from /\ status'[i] = to}

Ask(w) ==
    LET start == Moved("pending", "running")
    IN  /\ DOMAIN status' = Requests
        /\ \A i \in Requests :
              \/ status'[i] = status[i]
              \/ i \in Moved("running", "aborted") \cup start
                       \cup Moved("absent", "pending")
        /\ \A i, j \in start : i = j
        /\ \/ Busy(w) = {} /\ handed' = handed \cup ({w} \X start)
           \/ UNCHANGED handed
        /\ UNCHANGED held

(* It begins to execute what it was given.                                 *)
Take(w, i) ==
    /\ <<w, i>> \in handed
    /\ handed' = handed \ {<<w, i>>}
    /\ held' = held \cup {<<w, i>>}
    /\ UNCHANGED status

(* A result is recorded.  The worker may report it again.                  *)
Record(w, i) ==
    /\ <<w, i>> \in held /\ InProgress(i)
    /\ status' = [status EXCEPT ![i] = "completed"]
    /\ held' \in {held, held \ {<<w, i>>}}
    /\ UNCHANGED handed

(* The worker is rid of it: it was refused, or it died, or the answer was  *)
(* lost.                                                                   *)
Forget(w) ==
    /\ handed' = {x \in handed : x[1] # w}
    /\ held' = {x \in held : x[1] # w}
    /\ UNCHANGED status

Abort(i) ==
    /\ InProgress(i)
    /\ status' = [status EXCEPT ![i] = "aborted"]
    /\ UNCHANGED <<handed, held>>

(* The administrator takes its requests from a worker.                     *)
Requeue ==
    /\ DOMAIN status' = Requests
    /\ \A i \in Requests : \/ status'[i] = status[i]
                           \/ i \in Moved("running", "pending")
    /\ UNCHANGED <<handed, held>>

Next ==
    \/ \E i \in Requests : Create(i) \/ Abort(i)
    \/ \E w \in Workers : Ask(w) \/ Forget(w)
    \/ \E w \in Workers, i \in Requests : Take(w, i) \/ Record(w, i)
    \/ Requeue

Spec == Init /\ [][Next]_vars
==============================================================================
