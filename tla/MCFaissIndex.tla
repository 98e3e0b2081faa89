----------------------------- MODULE MCFaissIndex -----------------------------
(* Instances of FaissIndex for TLC. *)
EXTENDS FaissIndex

CONSTANTS w1, w2, p1, p2, nobody

\* The other installation has p2 enrolled under the first id.
OtherSite ==
    {[index |-> [Nobody EXCEPT ![0] = p2],
      meta |-> [owner |-> [Nobody EXCEPT ![0] = p2],
                ids |-> [p \in People |-> IF p = p2 THEN {0} ELSE {}],
                next |-> 1],
      torn |-> FALSE]}

NoBundles == {}
===============================================================================
