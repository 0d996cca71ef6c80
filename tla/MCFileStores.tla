---------------------------- MODULE MCFileStores ----------------------------
(* Small instances of FileStores.                                          *)
EXTENDS FileStores

CONSTANTS p1, p2, c1, c2, w1, w2, s1, s2, s3, s4, f1, f2, f3, a1, a2, a3

ASSUME MCNames == Cardinality({s1, s2, s3, s4}) = 4 /\ Cardinality({a1, a2, a3}) = 3

Plain == [upload_priority |-> 1, download_priority |-> 1, populate |-> FALSE,
          drain |-> FALSE, drain_to |-> None, read_only |-> FALSE,
          write_only |-> FALSE]

OneScope == [w \in Workspaces |-> c1]
AllInW1 == [a \in Artifacts |-> w1]
SameFile == [a \in Artifacts |-> {f1}]
(* An artifact without files between two that share a file.                *)
Chain == [a \in Artifacts |-> IF a = a1 THEN {f1, f2} ELSE IF a = a2 THEN {} ELSE {f2, f3}]
Line == {<<a3, a2>>, <<a2, a1>>}
Size1 == [f \in Files |-> 1]
NoLimits == [s \in Stores |-> None]
(* Whatever s2 has is to be moved; s3 has room for more than there is.      *)
S2Limit == [s \in Stores |-> IF s = s2 THEN 0 ELSE IF s = s3 THEN 2 ELSE None]

(* s1 is drained, s2 is filled first and moved to s3, s4 is a backup that  *)
(* nobody reads from.                                                      *)
AllPolicies == [c \in Scopes |->
    [s \in Stores |->
       IF s = s1 THEN [Plain EXCEPT !.drain = TRUE, !.read_only = TRUE]
       ELSE IF s = s2 THEN [Plain EXCEPT !.upload_priority = 2]
       ELSE IF s = s3 THEN Plain
       ELSE [Plain EXCEPT !.populate = TRUE, !.write_only = TRUE]]]
(* s1 is drained into s2.                                                  *)
Drain == [c \in Scopes |->
    [s \in Stores |-> IF s = s1 THEN [Plain EXCEPT !.drain = TRUE, !.read_only = TRUE]
                      ELSE Plain]]
=============================================================================
