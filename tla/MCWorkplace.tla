------------------------------ MODULE MCWorkplace ------------------------------
(***************************************************************************)
(* The components around the attendance ledger, checked in one run.        *)
(*                                                                         *)
(* They share no state, so what one of them does says nothing about what   *)
(* the others can do: a behaviour belongs to one component, the others     *)
(* stay as they began.  An invariant of a component that holds here holds  *)
(* in any interleaving of all of them.                                     *)
(***************************************************************************)
EXTENDS OrganizationTree, PresenceHub, VisitorAccess, CardTaps, FaceEnrollment,
        ChatRooms, AccountSessions, LiveTracks, SightingAlerts, FirstRun,
        CameraRegistry, AnomalyTriage, DutyRules, RoleGrants

\* Model values of the components' constants.
CONSTANTS a1, a2, r1, r2, n1, n2, s1, s2, w1, w2, u1, d1, d2, ua, ub, k1, k2

VARIABLE turn  \* the component whose behaviour it is; it never changes

workplaceVars == <<treeVars, hubVars, visitVars, cardVars, faceVars, chatVars, accountVars,
                   trackVars, sightingVars, firstVars, camVars, anomalyVars, dutyVars, roleVars>>

Turns == {"tree", "hub", "visit", "card", "face", "chat", "account", "track",
          "sighting", "setup", "camera", "anomaly", "duty", "role"}

-----------------------------------------------------------------------------
(* Values of the constants *)

MCGranted == [a \in Admins |-> IF a = a1 THEN {r1} ELSE {}]
MCRosters ==
    {[a \in Admins |-> IF a = a1 THEN {"delete", "move"} ELSE {"create", "move"}],
     [a \in Admins |-> IF a = a1 THEN {"delete", "edit"}
                       ELSE {"create", "hire", "edit", "open", "close"}]}
MCFirstTrees ==
    {[units |-> {r1, n1, n2},
      parent |-> [n \in Nodes |-> IF n \in {n1, n2} THEN r1 ELSE Nil]]}

MCWorkerOf == [s \in Sockets |-> IF s = s1 THEN w1 ELSE w2]
MCUserOf == [s \in Sockets |-> u1]
MCScopeOf == [s \in Sockets |-> {r1}]
MCEmitted == {[root |-> r1, to |-> {u1}, say |-> "chat"]}

MCAsks ==
    {[d \in Desks |-> IF d = d1 THEN {"check_in", "check_out", "enroll", "revoke", "reject", "final"} ELSE {}],
     [d \in Desks |-> IF d = d1 THEN {"enroll", "cancel", "extend", "check_in", "manager", "security"} ELSE {}],
     [d \in Desks |-> PhotoOps]}

\* A clear image, one of a photograph, one of two people, and a clear one of a slot.
Portrait == [slot |-> Nil, faces |-> 1, clear |-> TRUE, alive |-> TRUE]
MCGalleries ==
    {{Portrait}, {[Portrait EXCEPT !.alive = FALSE]},
     {Portrait, [Portrait EXCEPT !.faces = 2, !.clear = FALSE]},
     {[Portrait EXCEPT !.slot = "front"], [Portrait EXCEPT !.slot = "front", !.alive = FALSE]},
     {[Portrait EXCEPT !.slot = "front"]}}

MCChatAsked ==
    {{"add", "send", "leave", "remove", "read", "join"},
     {"edit", "delete", "react", "send", "add", "archive", "pin"},
     {"direct", "end_call"}}

-----------------------------------------------------------------------------
WorkplaceTypeOK ==
    /\ TreeTypeOK /\ HubTypeOK /\ VisitTypeOK /\ CardTypeOK /\ FaceTypeOK
    /\ ChatTypeOK /\ AccountTypeOK /\ TrackTypeOK /\ SightingTypeOK /\ FirstRunTypeOK
    /\ CameraTypeOK /\ AnomalyTypeOK /\ DutyTypeOK /\ RoleTypeOK
    /\ turn \in Turns

\* Who does not move begins in one way.
AtRest ==
    /\ turn # "tree" => roster = CHOOSE o \in Rosters : TRUE
    /\ turn # "visit" => asks = (CHOOSE o \in Asks : TRUE) /\ visitor = NewVisitor(FALSE, Nil)
    /\ turn # "card" => \A r \in TapReaders : readers[r].way = "both"
    /\ turn # "chat" => chatAsked = (CHOOSE o \in ChatAsked : TRUE) /\ roomType = "group"
    /\ turn # "account" => \A a \in Accounts : ~accounts[a].legacy
    /\ turn # "camera" => \A c \in Cams : camRows[c] = Unborn

WorkplaceInit ==
    /\ turn \in Turns
    /\ TreeInit /\ HubInit /\ VisitInit /\ CardInit /\ FaceInit /\ ChatInit
    /\ AccountInit /\ TrackInit /\ SightingInit /\ FirstRunInit
    /\ CameraInit /\ AnomalyInit /\ DutyInit /\ RoleInit
    /\ AtRest

\* Everything but the component t stands still.
Still(t) ==
    /\ t # "tree" => UNCHANGED treeVars
    /\ t # "hub" => UNCHANGED hubVars
    /\ t # "visit" => UNCHANGED visitVars
    /\ t # "card" => UNCHANGED cardVars
    /\ t # "face" => UNCHANGED faceVars
    /\ t # "chat" => UNCHANGED chatVars
    /\ t # "account" => UNCHANGED accountVars
    /\ t # "track" => UNCHANGED trackVars
    /\ t # "sighting" => UNCHANGED sightingVars
    /\ t # "setup" => UNCHANGED firstVars
    /\ t # "camera" => UNCHANGED camVars
    /\ t # "anomaly" => UNCHANGED anomalyVars
    /\ t # "duty" => UNCHANGED dutyVars
    /\ t # "role" => UNCHANGED roleVars
    /\ UNCHANGED turn

WorkplaceNext ==
    \/ turn = "tree" /\ TreeNext /\ Still("tree")
    \/ turn = "hub" /\ HubNext /\ Still("hub")
    \/ turn = "visit" /\ VisitNext /\ Still("visit")
    \/ turn = "card" /\ CardNext /\ Still("card")
    \/ turn = "face" /\ FaceNext /\ Still("face")
    \/ turn = "chat" /\ ChatNext /\ Still("chat")
    \/ turn = "account" /\ AccountNext /\ Still("account")
    \/ turn = "track" /\ TrackNext /\ Still("track")
    \/ turn = "sighting" /\ SightingNext /\ Still("sighting")
    \/ turn = "setup" /\ FirstRunNext /\ Still("setup")
    \/ turn = "camera" /\ CameraNext /\ Still("camera")
    \/ turn = "anomaly" /\ AnomalyNext /\ Still("anomaly")
    \/ turn = "duty" /\ DutyNext /\ Still("duty")
    \/ turn = "role" /\ RoleNext /\ Still("role")

\* The fairness of the component that moves; the others have no steps to take.
WorkplaceFairness ==
    /\ \A w \in Workers : WF_hubVars(turn = "hub" /\ SubscriberTurn(w))
    /\ WF_visitVars(turn = "visit" /\ JobTurn)
    /\ WF_firstVars(turn = "setup" /\ Migrate)

WorkplaceSpec == WorkplaceInit /\ [][WorkplaceNext]_<<turn, workplaceVars>> /\ WorkplaceFairness

\* What goes on by itself gets done, errors notwithstanding: the subscribers of the
\* hub are back and have handed over every event (SubscribersCatchUp; hub.py, _consume),
\* a visitor who overstays is expired (OverstayEnds; tasks/maintenance.py and the
\* loop of api/visitors.py), and a migration ends (MigrationSettles;
\* setup_migrations.py) - again and again, in the component that moves.
LoopsSettle ==
    []<>(/\ turn = "hub" => CaughtUp
         /\ ~Overdue(visitor, visitTime)
         /\ status # "running")
=============================================================================
