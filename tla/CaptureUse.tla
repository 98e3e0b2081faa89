------------------------------ MODULE CaptureUse ------------------------------
(***************************************************************************)
(* How a cv2.VideoCapture may be used: it is not thread-safe, so it has    *)
(* one read at a time, and is released once, by then with no read in       *)
(* flight; it is never read or opened again.  What is contended, because   *)
(* two loops have hold of it, promises nothing.                            *)
(***************************************************************************)
EXTENDS Naturals

CONSTANT Captures

VARIABLE use   \* use[k]: the state of capture k, and the reads of it in flight

vars == <<use>>

Unused == [state |-> "unused", readers |-> 0]
Open(n) == [state |-> "open", readers |-> n]
Released == [state |-> "released", readers |-> 0]
Contended == [state |-> "contended", readers |-> 0]

Init == use = [k \in Captures |-> Unused]

\* Whoever opens a capture starts the first read at once.
Obtain(k) == use[k] = Unused /\ use' = [use EXCEPT ![k] = Open(1)]

Read(k) == use[k] = Open(0) /\ use' = [use EXCEPT ![k] = Open(1)]

Return(k) == use[k] = Open(1) /\ use' = [use EXCEPT ![k] = Open(0)]

\* The only read returns and its capture is released with it, or nobody was reading.
Let(k) == use[k] \in {Open(0), Open(1)} /\ use' = [use EXCEPT ![k] = Released]

Contend(K) == use' = [k \in Captures |-> IF k \in K THEN Contended ELSE use[k]]

Next ==
    \/ \E k \in Captures : Obtain(k) \/ Read(k) \/ Return(k) \/ Let(k)
    \/ \E K \in SUBSET Captures : Contend(K)

Spec == Init /\ [][Next]_vars
===============================================================================
