---------------------------- MODULE SightingAlerts ----------------------------
(***************************************************************************)
(* What an identify request leaves behind: the pipeline of backend/app/    *)
(* services/recognition_pipeline.py, the events of recognition_service.py, *)
(* the alerts of security_monitoring_service.py and their triage, at one   *)
(* camera of one organization and in one worker process.                   *)
(*                                                                         *)
(* A request is one transaction with awaits in it; the marks that hold     *)
(* back repeated events and alerts belong to the process, are set before   *)
(* it commits and stay if it does not.                                     *)
(***************************************************************************)
EXTENDS Backend

CONSTANTS
    Kiosks,         \* requests that may be served at a time
    Workmates,      \* employees with vectors in the index
    Supervisors,    \* sessions that triage alerts
    LastEvent,      \* bound of the recognition events
    LastTime,       \* bound of the clock
    UnknownPause,   \* unknown_event_throttle_seconds, in ticks
    AlertPause,     \* security_alert_cooldown
    TailWindow,     \* security_tailgating_window
    KeepPictures,   \* unknown_snapshot_retention_days
    AfterHours,     \* the ticks inside the after-hours window
    RequireQuality, \* recognition_require_quality
    MaxTriage       \* bound of the triage of alerts

ASSUME SightingAssumption ==
    /\ {LastEvent, LastTime, UnknownPause, AlertPause, TailWindow, KeepPictures,
        MaxTriage} \subseteq Nat
    /\ AfterHours \subseteq 0..LastTime /\ RequireQuality \in BOOLEAN
    /\ Nil \notin Workmates

VARIABLES
    now,
    sightings,   \* sightings[k]: the request in k
    lastEvent,   \* the sequence behind recognition_events.id
    recognitions, \* committed rows of recognition_events
    alerts,      \* committed rows of security_alerts
    unknownMark, \* _last_unknown_at
    alertMark,   \* _last_alert_at by type of alert
    pictures,    \* snapshot files, by event and time of writing
    present,     \* employees that exist and are active
    triage, triaged

sightingVars == <<now, sightings, lastEvent, recognitions, alerts, unknownMark, alertMark,
                  pictures, present, triage, triaged>>

AlertTypes == {"unknown_person", "spoof_attempt", "after_hours_access", "tailgating"}
Clock == 0..LastTime
NoSighting == [stage |-> "none", who |-> Nil, reason |-> "none", live |-> TRUE,
               id |-> 0, at |-> 0, raised |-> {}]
NoTriage == [op |-> "none", alert |-> Nil]

SightingTypeOK ==
    /\ now \in Clock
    /\ DOMAIN sightings = Kiosks
    /\ lastEvent \in 0..LastEvent
    /\ recognitions \subseteq [id : 1..LastEvent, who : Workmates \cup {Nil}, at : Clock]
    /\ alerts \subseteq [type : AlertTypes, event : 1..LastEvent,
                         status : {"open", "acknowledged", "resolved"}]
    /\ unknownMark \in Clock \cup {Nil}
    /\ alertMark \in [AlertTypes -> Clock \cup {Nil}]
    /\ pictures \subseteq [id : 1..LastEvent, at : Clock]
    /\ present \subseteq Workmates
    /\ DOMAIN triage = Supervisors /\ triaged \in 0..MaxTriage

SightingInit ==
    /\ now = 0
    /\ sightings = [k \in Kiosks |-> NoSighting]
    /\ lastEvent = 0
    /\ recognitions = {} /\ alerts = {} /\ pictures = {}
    /\ unknownMark = Nil
    /\ alertMark = [y \in AlertTypes |-> Nil]
    /\ present = Workmates
    /\ triage = [s \in Supervisors |-> NoTriage]
    /\ triaged = 0

-----------------------------------------------------------------------------
(* The request *)

\* What a camera can show: no face, or one that is clear or not, alive or
\* not, and nearest to somebody's vectors or to nobody's.
Views == [face : BOOLEAN, clear : BOOLEAN, live : BOOLEAN, who : Workmates \cup {Nil}]

\* recognize: the first gate that stops the frame names the reason.
Gate(view, requireLiveness) ==
    CASE ~view.face -> "no_face"
      [] view.face /\ RequireQuality /\ ~view.clear -> "quality"
      [] view.face /\ (RequireQuality => view.clear) /\ requireLiveness /\ ~view.live -> "liveness"
      [] OTHER -> "none"

\* The name the pipeline returns.
Named(view, requireLiveness) ==
    IF Gate(view, requireLiveness) = "none" THEN view.who ELSE Nil

\* liveness_passed is false only of a frame whose liveness was looked at.
SeenAlive(view) == view.live \/ ~view.face \/ (RequireQuality /\ ~view.clear)

\* A request can come.
KioskFree(k) == sightings[k].stage = "none" /\ lastEvent < LastEvent

\* The event is flushed: it has an id, and nobody else sees it.
Filed(k, who, reason, live) ==
    /\ lastEvent' = lastEvent + 1
    /\ sightings' = [sightings EXCEPT ![k] =
         [stage |-> "filed", who |-> who, reason |-> reason, live |-> live,
          id |-> lastEvent + 1, at |-> now, raised |-> {}]]

\* identify_face: authorize_match lets the name through, and
\* _record_employee_match runs up to its flush; the write of attendance is
\* AttendanceLedger's.
RecordMatch(k, view, requireLiveness) ==
    LET who == Named(view, requireLiveness) IN
    /\ who \in present
    /\ Filed(k, who, "none", SeenAlive(view))
    /\ UNCHANGED <<now, recognitions, alerts, unknownMark, alertMark, pictures, present,
                   triage, triaged>>

Within(mark, pause) == mark # Nil /\ now - mark < pause

\* _record_no_match: nothing for a frame without a face, nor soon after
\* another unknown.  A match that was vetoed is an unknown like any other.
RecordNoMatch(k, view, requireLiveness) ==
    LET reason == Gate(view, requireLiveness) IN
    /\ Named(view, requireLiveness) \notin present
    /\ reason # "no_face" /\ ~Within(unknownMark, UnknownPause)
    /\ Filed(k, Nil, reason, SeenAlive(view))
    /\ unknownMark' = IF UnknownPause = 0 THEN unknownMark ELSE now
    /\ UNCHANGED <<now, recognitions, alerts, alertMark, pictures, present, triage, triaged>>

\* Variant: everybody at the camera counts, the one just seen included.
CompanionsAll(own) ==
    {e \in recognitions \cup {own} : e.who # Nil /\ e.at + TailWindow >= own.at}

\* The others that were seen at the camera lately, in events that are committed.
Companions(own) ==
    {e \in recognitions : e.who \notin {Nil, own.who} /\ e.at + TailWindow >= own.at}

\* The alerts evaluate_matched and evaluate_unmatched would raise.
Alarming(ask) ==
    IF ask.who # Nil
    THEN (IF ask.at \in AfterHours THEN {"after_hours_access"} ELSE {}) \cup
         (IF TailWindow > 0 /\ Companions([id |-> ask.id, who |-> ask.who, at |-> ask.at]) # {}
          THEN {"tailgating"} ELSE {})
    ELSE IF ~ask.live THEN {"spoof_attempt"}
    ELSE IF ask.reason = "none" THEN {"unknown_person"} ELSE {}

\* The snapshot is written, or is not, and create_alert raises each alert
\* unless one of its type was raised a moment ago.
Evaluate(k, works) ==
    LET ask == sightings[k]
        raised == {y \in Alarming(ask) : ~Within(alertMark[y], AlertPause)}
    IN
    /\ ask.stage = "filed"
    /\ pictures' = IF works THEN pictures \cup {[id |-> ask.id, at |-> now]} ELSE pictures
    /\ alertMark' = [y \in AlertTypes |-> IF y \in raised THEN now ELSE alertMark[y]]
    /\ sightings' = [sightings EXCEPT ![k].stage = "evaluated", ![k].raised = raised]
    /\ UNCHANGED <<now, lastEvent, recognitions, alerts, unknownMark, present, triage, triaged>>

CommitSighting(k) ==
    LET ask == sightings[k] IN
    /\ ask.stage = "evaluated"
    /\ recognitions' = recognitions \cup {[id |-> ask.id, who |-> ask.who, at |-> ask.at]}
    /\ alerts' = alerts \cup {[type |-> y, event |-> ask.id, status |-> "open"] : y \in ask.raised}
    /\ sightings' = [sightings EXCEPT ![k] = NoSighting]
    /\ UNCHANGED <<now, lastEvent, unknownMark, alertMark, pictures, present, triage, triaged>>

\* Rolled back, with an alert whose insert failed too: marks and file remain.
AbortSighting(k) ==
    /\ sightings[k].stage # "none"
    /\ sightings' = [sightings EXCEPT ![k] = NoSighting]
    /\ UNCHANGED <<now, lastEvent, recognitions, alerts, unknownMark, alertMark, pictures,
                   present, triage, triaged>>

-----------------------------------------------------------------------------
(* Everything else *)

\* acknowledge_alert wants an open alert, resolve_alert one not yet resolved.
ReadAlert(s, a, op) ==
    /\ triaged < MaxTriage
    /\ triage[s].op = "none" /\ a \in alerts
    /\ IF op = "acknowledged" THEN a.status = "open" ELSE a.status # "resolved"
    /\ triage' = [triage EXCEPT ![s] = [op |-> op, alert |-> a]]
    /\ triaged' = triaged + 1
    /\ UNCHANGED <<now, sightings, lastEvent, recognitions, alerts, unknownMark, alertMark,
                   pictures, present>>

\* The update names the row, not the status it was read with.
WriteAlert(s) ==
    LET is(a) == a.type = triage[s].alert.type /\ a.event = triage[s].alert.event IN
    /\ triage[s].op # "none"
    /\ alerts' = {IF is(a) THEN [a EXCEPT !.status = triage[s].op] ELSE a : a \in alerts}
    /\ triage' = [triage EXCEPT ![s] = NoTriage]
    /\ UNCHANGED <<now, sightings, lastEvent, recognitions, unknownMark, alertMark, pictures,
                   present, triaged>>

\* An employee leaves; the vectors may stay for a while.
Leave(e) ==
    /\ e \in present
    /\ present' = present \ {e}
    /\ UNCHANGED <<now, sightings, lastEvent, recognitions, alerts, unknownMark, alertMark,
                   pictures, triage, triaged>>

PurgeOldSnapshots ==
    /\ \E p \in pictures : p.at + KeepPictures < now
    /\ pictures' = {p \in pictures : p.at + KeepPictures >= now}
    /\ UNCHANGED <<now, sightings, lastEvent, recognitions, alerts, unknownMark, alertMark,
                   present, triage, triaged>>

SightingTick ==
    /\ now < LastTime
    /\ now' = now + 1
    /\ UNCHANGED <<sightings, lastEvent, recognitions, alerts, unknownMark, alertMark,
                   pictures, present, triage, triaged>>

SightingNext ==
    \/ \E k \in Kiosks :
         \/ KioskFree(k) /\ \E view \in Views, requireLiveness \in BOOLEAN :
              RecordMatch(k, view, requireLiveness) \/ RecordNoMatch(k, view, requireLiveness)
         \/ \E works \in BOOLEAN : Evaluate(k, works)
         \/ CommitSighting(k)
         \/ AbortSighting(k)
    \/ \E s \in Supervisors :
         \/ \E a \in alerts, op \in {"acknowledged", "resolved"} : ReadAlert(s, a, op)
         \/ WriteAlert(s)
    \/ \E e \in Workmates : Leave(e)
    \/ PurgeOldSnapshots
    \/ SightingTick

SightingSpec == SightingInit /\ [][SightingNext]_sightingVars

-----------------------------------------------------------------------------
(* What is claimed *)

\* A tailgating alert stands for two people: its event, and one of somebody
\* else at the camera not earlier than the window allows, are both on
\* record, whatever was rolled back meanwhile (evaluate_matched).
TailgatersWereTwo ==
    \A a \in alerts : a.type = "tailgating" =>
        \E e, f \in recognitions : /\ e.id = a.event /\ e.who # Nil
                             /\ f.who \notin {Nil, e.who}
                             /\ f.at + TailWindow >= e.at
=============================================================================
