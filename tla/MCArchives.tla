------------------------------ MODULE MCArchives ------------------------------
(***************************************************************************)
(* Instances of Archives for TLC.                                          *)
(***************************************************************************)
EXTENDS Archives, TLC

CONSTANTS p1, p2, s1, s2, archive, hello, hello2, other

(* hello and hello2 have one name and one orig file, with two contents;    *)
(* other is another version, which shares the orig file of hello2.         *)
Names == hello :> "hello_1" @@ hello2 :> "hello_1" @@ other :> "hello_2"
Contents == hello :> {<<"orig", 1>>} @@ hello2 :> {<<"orig", 2>>}
              @@ other :> {<<"orig", 2>>, <<"debian", 1>>}
Some ==
    {[suites |-> {s1, s2}, may_reuse |-> {s2}, updated |-> FALSE],
     [suites |-> {s1, s2}, may_reuse |-> {archive}, updated |-> FALSE],
     [suites |-> {s1}, may_reuse |-> {}, updated |-> TRUE]}
TwoProcs == Permutations({p1, p2})
===============================================================================
