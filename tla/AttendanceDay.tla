---------------------------- MODULE AttendanceDay ----------------------------
(***************************************************************************)
(* What the attendance ledger promises about the days of an employee, with *)
(* no word about sessions, locks, markers or processes.                    *)
(*                                                                         *)
(* A day is opened by a check-in and closed by a check-out at least Gap    *)
(* later.  A stamp is taken from the clock of the sighting that sets it,   *)
(* and sightings may be written out of order, so a check-in of an open day *)
(* and the check-out of a closed one may still be replaced, by one at most *)
(* Slack away; the check-in of a closed day is final.  A day an admin has  *)
(* edited promises nothing.                                                *)
(***************************************************************************)
EXTENDS Integers

CONSTANTS
    Days,   \* work days
    Time,   \* instants
    Gap,    \* least time between the check-in and the check-out of a day
    Slack   \* most a stamp may move once it is visible

None == -1

VARIABLES
    in,      \* in[d]: the check-in of day d
    out,     \* out[d]: the check-out of day d
    edited   \* the days an admin has edited

vars == <<in, out, edited>>

Near(s, t) == s - t <= Slack /\ t - s <= Slack

Init ==
    /\ in = [d \in Days |-> None]
    /\ out = [d \in Days |-> None]
    /\ edited = {}

CheckIn(d, t) ==
    /\ d \notin edited
    /\ out[d] = None
    /\ in[d] = None \/ Near(in[d], t)
    /\ in' = [in EXCEPT ![d] = t]
    /\ UNCHANGED <<out, edited>>

CheckOut(d, t) ==
    /\ d \notin edited
    /\ in[d] # None
    /\ t - in[d] >= Gap
    /\ out[d] = None \/ Near(out[d], t)
    /\ out' = [out EXCEPT ![d] = t]
    /\ UNCHANGED <<in, edited>>

\* A day an admin edits, or has edited, takes any stamps.
Edit(d, s, t) ==
    /\ in' = [in EXCEPT ![d] = s]
    /\ out' = [out EXCEPT ![d] = t]
    /\ edited' = edited \cup {d}

Next ==
    \E d \in Days :
        \/ \E t \in Time : CheckIn(d, t) \/ CheckOut(d, t)
        \/ \E s, t \in Time \cup {None} : Edit(d, s, t)

Spec == Init /\ [][Next]_vars
==============================================================================
