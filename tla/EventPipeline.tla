---------------------------- MODULE EventPipeline ----------------------------
(***************************************************************************)
(* How a sighting of a camera becomes a row of the attendance ledger:      *)
(* backend/app/engine/attendance_generator.py (the duplicate tracker and   *)
(* the bounded queue, fed by worker threads) and attendance_sync.py (the   *)
(* consumer that drains the queue, retries and flushes at shutdown), with  *)
(* the recognition requests of api/engine.py, which share the tracker but  *)
(* write inline.                                                           *)
(*                                                                         *)
(* The consumer is one task of the event loop: an action is what it does   *)
(* between two awaits, and a cancellation may land on any await.  Worker   *)
(* threads interleave with it freely.  What two overlapping transactions   *)
(* do to a row is the subject of AttendanceLedger; here a decision reads   *)
(* the committed row and a commit writes the stamp that was decided.       *)
(***************************************************************************)
EXTENDS Integers, Sequences, FiniteSets

CONSTANTS
    Cameras,      \* threads that analyse frames of the running streams
    Requests,     \* threads that serve recognition requests of the API
    Employees,    \* people the ledger takes attendance of
    Strangers,    \* matched identities it does not: visitors, other companies
    EventWindow,  \* window of the duplicate tracker, and age at which events go stale
    Window,       \* duplicate window of the ledger
    MaxPending,   \* length of the queue (MAX_PENDING_EVENTS)
    MaxTime,      \* bound of the clock
    LastSight,    \* no sighting after this instant
    MaxEvents     \* bound of the events enqueued

None == -1
Time == 0 .. MaxTime
Stamp == Time \cup {None}
People == Employees \cup Strangers
Threads == Cameras \cup Requests
EventTypes == {"check_in", "check_out"}

\* An event, with the serial number that tells it from another of its kind.
Event == [id : 1 .. MaxEvents, person : People, type : EventTypes, timestamp : Time]

ASSUME PipelineAssumption ==
    /\ EventWindow \in Nat /\ Window \in Nat /\ MaxPending \in Nat \ {0}
    /\ MaxTime \in Nat /\ LastSight \in Time /\ MaxEvents \in Nat
    /\ Cameras \cap Requests = {} /\ Employees \cap Strangers = {}

VARIABLES
    clock,
    tracker,   \* tracker[p][k]: when DuplicateTracker last let a k event of p pass
    thread,    \* thread[h]: what worker thread h is about to do
    queue,     \* _event_queue
    retry,     \* _retry
    batch,     \* events[processed:] of the drain that runs
    now,       \* the instant the drain started
    consumer,  \* where the consumer is
    stopping,  \* stop() has cancelled the task: the next drain is the final flush
    attempt,   \* what the open transaction of the consumer has decided
    ledger,    \* ledger[e]: the committed stamps of today
    marker,    \* marker[e]: when the duplicate marker of e was last armed
    issued,    \* number of events enqueued so far
    outcome,   \* what became of each event
    writes,    \* auxiliary: how often each event was committed as a stamp
    leaked     \* auxiliary: whose marker outlived a transaction that did not commit

producing == <<tracker, thread>>
auxiliary == <<writes, leaked>>
vars == <<clock, tracker, thread, queue, retry, batch, now, consumer, stopping,
          attempt, ledger, marker, issued, outcome, writes, leaked>>

-----------------------------------------------------------------------------
(* What process_recognition decides *)

Armed(e) == marker[e] # None /\ clock - marker[e] < Window

RecentAction(row) ==
    LET last == IF row.out # None THEN row.out ELSE row.in
    IN  last # None /\ clock - last < Window

\* Variant: the stamps of the day are not looked at.
DecideOnWindowOnly(e, intent) ==
    IF Armed(e) \/ RecentAction(ledger[e]) THEN "none"
    ELSE IF intent # "check_out" THEN "check_in"
    ELSE IF ledger[e].in # None THEN "check_out" ELSE "none"

\* The action taken for employee e: "none" when nothing is to be written.
Decide(e, intent) ==
    LET row == ledger[e] IN
    IF Armed(e) \/ RecentAction(row) THEN "none"
    ELSE IF intent # "check_out" /\ row.in = None THEN "check_in"
    ELSE IF intent # "check_in" /\ row.in # None /\ row.out = None THEN "check_out"
    ELSE "none"

NoAttempt == [action |-> "none", at |-> None]

Written(e, made) ==
    CASE made.action = "check_in"  -> [ledger EXCEPT ![e].in = made.at]
      [] made.action = "check_out" -> [ledger EXCEPT ![e].out = made.at]
      [] OTHER -> ledger

\* SET NX: a live marker keeps its age.
Arming(e) == IF Armed(e) THEN marker ELSE [marker EXCEPT ![e] = clock]

-----------------------------------------------------------------------------
Idle == [pc |-> "idle"]

Init ==
    /\ clock = 0
    /\ tracker = [p \in People |-> [k \in EventTypes |-> None]]
    /\ thread = [h \in Threads |-> Idle]
    /\ queue = <<>> /\ retry = <<>> /\ batch = <<>>
    /\ now = 0 /\ consumer = "sleep" /\ stopping = FALSE
    /\ attempt = NoAttempt
    /\ ledger = [e \in Employees |-> [in |-> None, out |-> None]]
    /\ marker = [e \in Employees |-> None]
    /\ issued = 0
    /\ outcome = [i \in 1 .. MaxEvents |-> "none"]
    /\ writes = [i \in 1 .. MaxEvents |-> 0]
    /\ leaked = {}

Tick ==
    /\ clock < MaxTime
    /\ clock' = clock + 1
    /\ UNCHANGED <<tracker, thread, queue, retry, batch, now, consumer, stopping,
                   attempt, ledger, marker, issued, outcome, writes, leaked>>

-----------------------------------------------------------------------------
(* Worker threads *)

\* is_duplicate reads the tracker ...  Neither the consumer nor the engine ends a
\* recognition that is under way when the server shuts down.
IsDuplicate(p, kind) ==
    tracker[p][kind] # None /\ clock - tracker[p][kind] < EventWindow

Check(h, p, kind, intent) ==
    /\ thread[h].pc = "idle"
    /\ clock <= LastSight
    /\ stopping => h \in Cameras
    /\ ~IsDuplicate(p, kind)
    /\ thread' = [thread EXCEPT ![h] =
                    [pc |-> "mark", person |-> p, type |-> kind, intent |-> intent,
                     since |-> clock]]
    /\ UNCHANGED <<clock, tracker, queue, retry, batch, now, consumer, stopping,
                   attempt, ledger, marker, issued, outcome, auxiliary>>

\* A frame of a running stream: the direction of the camera gives the type.
CameraMatch(h) ==
    \E p \in People, kind \in EventTypes : Check(h, p, kind, kind)

\* A request: without a direction the type is check_in and the intent a toggle.
RequestMatch(h) ==
    \E p \in People :
        \/ \E kind \in EventTypes : Check(h, p, kind, kind)
        \/ Check(h, p, "check_in", "toggle")

\* Variant: an unbounded queue.
OverflowingNever == {}

\* The oldest event when the queue is full (deque maxlen).
Overflowing == IF Len(queue) = MaxPending THEN {Head(queue).id} ELSE {}

\* ... and marks it in a step of its own; the event of a camera is enqueued.
Enqueue(h) ==
    LET t == thread[h]
        added == [id |-> issued + 1, person |-> t.person, type |-> t.type,
                  timestamp |-> clock]
    IN
    /\ h \in Cameras
    /\ t.pc = "mark"
    /\ clock <= LastSight /\ issued < MaxEvents
    /\ tracker' = [tracker EXCEPT ![t.person][t.type] = t.since]
    /\ queue' = Append(IF Overflowing = {} THEN queue ELSE Tail(queue), added)
    /\ issued' = issued + 1
    /\ outcome' = [i \in DOMAIN outcome |->
                     IF i = issued + 1 THEN "open"
                     ELSE IF i \in Overflowing THEN "dropped" ELSE outcome[i]]
    /\ thread' = [thread EXCEPT ![h] = Idle]
    /\ UNCHANGED <<clock, retry, batch, now, consumer, stopping, attempt, ledger,
                   marker, auxiliary>>

\* The event of a request is not enqueued: its handler writes it inline, unless
\* the identity is vetoed.
MarkInline(h) ==
    LET t == thread[h] IN
    /\ h \in Requests
    /\ t.pc = "mark"
    /\ tracker' = [tracker EXCEPT ![t.person][t.type] = t.since]
    /\ thread' = [thread EXCEPT ![h] =
                    IF t.person \in Employees
                    THEN [pc |-> "inline", person |-> t.person, intent |-> t.intent]
                    ELSE Idle]
    /\ UNCHANGED <<clock, queue, retry, batch, now, consumer, stopping, attempt,
                   ledger, marker, issued, outcome, auxiliary>>

\* process_recognition up to the arming of the marker.
FlushInline(h) ==
    LET t == thread[h]
        action == Decide(t.person, t.intent)
    IN
    /\ t.pc = "inline"
    /\ IF action = "none"
       THEN /\ thread' = [thread EXCEPT ![h] = Idle]
            /\ UNCHANGED marker
       ELSE /\ thread' = [thread EXCEPT ![h] =
                            [pc |-> "commit", person |-> t.person,
                             attempt |-> [action |-> action, at |-> clock]]]
            /\ marker' = Arming(t.person)
    /\ UNCHANGED <<clock, tracker, queue, retry, batch, now, consumer, stopping,
                   attempt, ledger, issued, outcome, auxiliary>>

\* get_db commits after the handler; when the commit fails nobody clears the marker.
EndInline(h) ==
    LET t == thread[h] IN
    /\ t.pc = "commit"
    /\ \/ ledger' = Written(t.person, t.attempt) /\ UNCHANGED leaked
       \/ leaked' = leaked \cup {t.person} /\ UNCHANGED ledger
    /\ thread' = [thread EXCEPT ![h] = Idle]
    /\ UNCHANGED <<clock, tracker, queue, retry, batch, now, consumer, stopping,
                   attempt, marker, issued, outcome, writes>>

-----------------------------------------------------------------------------
(* The consumer *)

AfterDrain == IF stopping THEN "stopped" ELSE "sleep"

\* drain_once: what an earlier drain stashed comes first.
StartDrain ==
    /\ consumer = "sleep"
    /\ stopping \/ retry \o queue # <<>>
    /\ batch' = retry \o queue
    /\ retry' = <<>> /\ queue' = <<>>
    /\ now' = clock
    /\ consumer' = IF batch' = <<>> THEN "stopped" ELSE "event"
    /\ UNCHANGED <<clock, producing, stopping, attempt, ledger, marker, issued,
                   outcome, auxiliary>>

event == Head(batch)

\* Variant: the operands swapped.
StaleReversed == event.timestamp - now > EventWindow

Stale == now - event.timestamp > EventWindow

NextEvent ==
    /\ batch' = Tail(batch)
    /\ consumer' = IF Tail(batch) = <<>> THEN AfterDrain ELSE "event"
    /\ attempt' = NoAttempt

Settle(result) ==
    /\ outcome' = [outcome EXCEPT ![event.id] = result]
    /\ NextEvent

\* The event has no employee of the camera's company, or is too old to replay.
Skip ==
    /\ consumer = "event"
    /\ event.person \notin Employees \/ Stale
    /\ Settle("skipped")
    /\ UNCHANGED <<clock, producing, queue, retry, now, stopping, ledger, marker,
                   issued, auxiliary>>

\* process_recognition up to its flush.
Flush ==
    /\ consumer = "event"
    /\ event.person \in Employees /\ ~Stale
    /\ LET action == Decide(event.person, event.type) IN
       IF action = "none"
       THEN consumer' = "commit" /\ attempt' = NoAttempt
       ELSE consumer' = "arm" /\ attempt' = [action |-> action, at |-> clock]
    /\ UNCHANGED <<clock, producing, queue, retry, batch, now, stopping, ledger,
                   marker, issued, outcome, auxiliary>>

Arm ==
    /\ consumer = "arm"
    /\ marker' = Arming(event.person)
    /\ consumer' = "commit"
    /\ UNCHANGED <<clock, producing, queue, retry, batch, now, stopping, attempt,
                   ledger, issued, outcome, auxiliary>>

\* What a commit that goes through leaves behind.
Committing ==
    /\ ledger' = Written(event.person, attempt)
    /\ writes' = IF attempt.action = "none" THEN writes
                 ELSE [writes EXCEPT ![event.id] = @ + 1]

Commit ==
    /\ consumer = "commit"
    /\ Committing
    /\ Settle(IF attempt.action = "none" THEN "noop" ELSE "persisted")
    /\ UNCHANGED <<clock, producing, queue, retry, now, stopping, marker, issued,
                   leaked>>

InTransaction == \/ consumer = "event" /\ event.person \in Employees /\ ~Stale
                 \/ consumer = "commit"

\* A statement or the commit raises, and the rollback succeeds.
Fail ==
    /\ InTransaction
    /\ consumer' = "unarm"
    /\ UNCHANGED <<clock, producing, queue, retry, batch, now, stopping, attempt,
                   ledger, marker, issued, outcome, auxiliary>>

\* Variant: the event is kept but the marker is not cleared.
UnarmForgotten ==
    /\ consumer = "unarm"
    /\ retry' = Append(retry, event)
    /\ NextEvent
    /\ UNCHANGED <<clock, producing, queue, now, stopping, ledger, marker, issued,
                   outcome, auxiliary>>

\* clear_duplicate_marker, and the event is kept for the next drain.
Unarm ==
    /\ consumer = "unarm"
    /\ marker' = [marker EXCEPT ![event.person] = None]
    /\ retry' = Append(retry, event)
    /\ NextEvent
    /\ UNCHANGED <<clock, producing, queue, now, stopping, ledger, issued, outcome,
                   auxiliary>>

\* The marker of the event at hand is armed and its transaction rolled back.
Leaking == IF consumer \in {"commit", "unarm"} /\ attempt.action # "none"
           THEN {event.person} ELSE {}

\* Variant: the event at hand is not stashed.
StashWithoutCurrent == IF batch = <<>> THEN retry ELSE retry \o Tail(batch)

\* Variant: the event at hand goes before those that failed earlier in the drain.
StashInFront == batch \o retry

Stash == retry \o batch

Abandon ==
    /\ retry' = Stash
    /\ batch' = <<>>
    /\ attempt' = NoAttempt

\* The rollback raises as well: the drain ends, with its events stashed.
FailRollback ==
    /\ InTransaction
    /\ Abandon
    /\ consumer' = AfterDrain
    /\ leaked' = leaked \cup Leaking
    /\ UNCHANGED <<clock, producing, queue, now, stopping, ledger, marker, issued,
                   outcome, writes>>

\* stop() cancels the task at an await.  A commit it interrupts may have gone
\* through.  The server has finished its requests by then.
Stop ==
    /\ ~stopping
    /\ stopping' = TRUE
    /\ \A h \in Requests : thread[h].pc = "idle"
    /\ Abandon
    /\ consumer' = "sleep"
    /\ \/ /\ leaked' = leaked \cup Leaking
          /\ UNCHANGED <<ledger, writes>>
       \/ /\ consumer = "commit"
          /\ Committing
          /\ UNCHANGED leaked
    /\ UNCHANGED <<clock, producing, queue, now, marker, issued, outcome>>

-----------------------------------------------------------------------------
Drain == StartDrain \/ Skip \/ Flush \/ Arm \/ Commit \/ Fail \/ Unarm \/ FailRollback

Work(h) == Enqueue(h) \/ MarkInline(h) \/ FlushInline(h) \/ EndInline(h)

Next ==
    \/ Tick
    \/ \E h \in Cameras : CameraMatch(h)
    \/ \E h \in Requests : RequestMatch(h)
    \/ \E h \in Threads : Work(h)
    \/ Drain
    \/ Stop

\* The event loop keeps running the consumer, and time passes; no fairness says
\* that a transaction ever succeeds.
Spec == Init /\ [][Next]_vars /\ WF_vars(Drain) /\ WF_vars(Tick)

-----------------------------------------------------------------------------
(* Properties *)

TypeOK ==
    /\ clock \in Time /\ now \in Time
    /\ tracker \in [People -> [EventTypes -> Stamp]]
    /\ \A h \in Threads : thread[h].pc \in {"idle", "mark", "inline", "commit"}
    /\ queue \in Seq(Event) /\ Len(queue) <= MaxPending
    /\ retry \in Seq(Event) /\ batch \in Seq(Event)
    /\ consumer \in {"sleep", "event", "arm", "commit", "unarm", "stopped"}
    /\ consumer \in {"event", "arm", "commit", "unarm"} <=> batch # <<>>
    /\ stopping \in BOOLEAN
    /\ attempt \in [action : EventTypes \cup {"none"}, at : Stamp]
    /\ ledger \in [Employees -> [in : Stamp, out : Stamp]]
    /\ marker \in [Employees -> Stamp]
    /\ issued \in 0 .. MaxEvents
    /\ outcome \in [1 .. MaxEvents -> {"none", "open", "persisted", "noop", "skipped",
                                       "dropped"}]
    /\ leaked \subseteq Employees

\* An event is in exactly one place until it is settled, and in none afterwards,
\* however drains fail, are cancelled and replay: nothing is lost between the
\* queue, the batch and the stash, and nothing is replayed once it is settled.
\* (drain_once 112-114, 144-150; _persist_event 229-238.)
OnePlace ==
    LET held == retry \o batch \o queue IN
    \A i \in 1 .. MaxEvents :
        Cardinality({k \in DOMAIN held : held[k].id = i})
            = IF outcome[i] = "open" THEN 1 ELSE 0

\* The consumer takes the events up in the order of their sightings, a check-in
\* before the check-out that follows it: what failed or was interrupted stays in
\* front of what was not tried yet, and that in front of what is enqueued meanwhile.
\* A later event overtakes an older one only when that one failed in this drain.
\* (drain_once 112-114, 144-150; generator.drain.)
ReplayedInOrder ==
    LET held == retry \o batch \o queue IN
    \A j, k \in DOMAIN held : j < k => held[j].id < held[k].id

\* An event is written at most once, even when a cancelled commit that went
\* through is replayed by the final flush.
WrittenOnce == \A i \in 1 .. MaxEvents : writes[i] <= 1

\* What the pipeline promises of the events between the camera and the ledger: none is
\* lost or doubled, none is written twice, and they are taken up in order.
\* (attendance_sync.drain_once, _persist_event; attendance_generator.drain.)
DeliveredOnceInOrder == OnePlace /\ WrittenOnce /\ ReplayedInOrder

\* "noop means ... already checked in/out, duplicate window": when a check-in is
\* settled without a write, the ledger has a check-in, unless the marker that
\* suppressed it belongs to a transaction that is still open or that ended
\* without committing and without clearing it.
\* (_persist_event 172-174; process_recognition 441-444.)
NoopMeansRecorded ==
    [][\A e \in Employees :
          ledger'[e].in = None
          /\ (\E i \in 1 .. MaxEvents :
                 /\ outcome[i] = "open" /\ outcome'[i] = "noop"
                 /\ event.id = i /\ event.person = e /\ event.type = "check_in")
          => \/ e \in leaked
             \/ \E h \in Requests : thread[h].pc = "commit" /\ thread[h].person = e]_vars

\* Every event is settled or left behind by a consumer that has stopped, even when
\* no transaction ever succeeds: a retry ends by going stale.
\* (_persist_event 179-188: "the stale-age guard bounds this".)
EventsSettle ==
    \A i \in 1 .. MaxEvents :
        outcome[i] = "open" ~> (outcome[i] # "open" \/ consumer = "stopped")

\* "events already popped from the generator by an interrupted drain are persisted
\* rather than dropped": the final flush does not settle a check-in without a write
\* while the day has no check-in.  (AttendanceEventConsumer.stop 89-92.)
InterruptedEventsArePersisted ==
    [][\A i \in 1 .. MaxEvents :
          stopping /\ outcome[i] = "open" /\ outcome'[i] = "noop"
             /\ event.type = "check_in"
          => ledger'[event.person].in # None]_vars
=============================================================================
