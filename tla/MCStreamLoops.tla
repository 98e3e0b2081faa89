---------------------------- MODULE MCStreamLoops ----------------------------
(* Instances of StreamLoops for TLC. *)
EXTENDS StreamLoops

CONSTANTS c1, s1, s2, t1, t2, t3, k1, k2, r1, r2, Nobody
===============================================================================
