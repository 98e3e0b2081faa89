-------------------------- MODULE MCAttendanceLedger --------------------------
(* Instances of AttendanceLedger for TLC. *)
EXTENDS AttendanceLedger, TLC

CONSTANTS w1, w2, w3, p1, p2

TwoWriters == {w1, w2}
ThreeWriters == {w1, w2, w3}
OneProcess == {p1}
TwoProcesses == {p1, p2}

\* w1 and w2 share a worker process, w3 has one of its own.
SharedProcess == w1 :> p1 @@ w2 :> p1 @@ w3 :> p2
SameProcess == w1 :> p1 @@ w2 :> p1
OwnProcesses == w1 :> p1 @@ w2 :> p2

\* Every writer is a kiosk, the sighting that takes either decision.
Kiosks == [w \in Writers |-> {<<"face", "toggle">>}]

\* The consumer of the entry and exit cameras beside a card reader.
AllDoors == [w \in Writers |->
               IF w \in Consumers THEN {<<"face", "check_in">>, <<"face", "check_out">>}
               ELSE {<<"rfid", "toggle">>}]

\* The two writers of one process do the same work.
SharedProcessSymmetry == Permutations({w1, w2})

OneDay == {0}
TwoDays == {0, 1}
AllOneDay == [t \in Time |-> 0]
\* The day turns while a marker armed at 0 is still live.
Midnight == [t \in Time |-> IF t < 1 THEN 0 ELSE 1]

EqualWindows == [m \in LiveMethods |-> 3]
\* A card's marker outlives the midnight between two taps; a camera's does not.
CardsWaitLonger == [m \in LiveMethods |-> IF m = "rfid" THEN 2 ELSE 1]
LateFromTwo == {t \in Time : t >= 2}

NoEdits == {}

\* A check-out of a day that has no check-in yet, or a later one.
OneEdit == {[day |-> 1, check_in_at |-> None, check_out_at |-> 1]}
===============================================================================
