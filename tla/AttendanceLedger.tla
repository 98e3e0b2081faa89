--------------------------- MODULE AttendanceLedger ---------------------------
(***************************************************************************)
(* The attendance ledger of one employee: what                             *)
(* backend/app/services/attendance_service.py does to the table            *)
(* attendance_records when cameras, kiosks, card readers and admins write  *)
(* to it at the same time.                                                 *)
(*                                                                         *)
(* A writer is whatever holds a database session: an API request or the    *)
(* consumer of camera events.  It runs one transaction at a time, at READ  *)
(* COMMITTED, with plain SELECTs: nothing locks a row between the read a   *)
(* decision rests on and the UPDATE that carries it out.  Each action is   *)
(* what a writer does between two awaits; a transaction that has not       *)
(* committed is seen by nobody, but holds the lock of the row it wrote.    *)
(*                                                                         *)
(* Rows of two employees never meet (every query and every duplicate       *)
(* marker names the employee), so the module follows one of them.          *)
(***************************************************************************)
EXTENDS Integers

CONSTANTS
    Writers,       \* database sessions that may write at the same time
    Processes,     \* worker processes, each with a duplicate cache of its own
    ProcOf,        \* the process a writer runs in
    Consumers,     \* the writers that are event consumers; the rest are requests
    Serves,        \* the kinds of sighting, <<method, intent>>, a writer handles
    RedisEnabled,  \* whether the duplicate markers are kept in Redis
    MaxTime,       \* bound of the clock
    MaxTxn,        \* longest time from reading the clock to the end of the commit
    Window,        \* duplicate window of a method, in ticks
    MinWindow,     \* a lower bound of the windows
    Days,          \* work days
    WorkDay,       \* the work day an instant belongs to
    LateTimes,     \* the instants past the scheduled start plus the grace
    BreakMinutes, HalfDayMinutes, MinWorkMinutes,  \* the policy, in ticks
    Edits          \* what an admin may enter: [day, check_in_at, check_out_at]

None == -1
Time == 0 .. MaxTime
Stamp == Time \cup {None}

LiveMethods == {"face", "rfid"}
Intents == {"check_in", "check_out", "toggle"}

ASSUME TimeAssumption ==
    /\ MaxTime \in Nat
    /\ MaxTxn \in Nat
    /\ WorkDay \in [Time -> Days]
    /\ LateTimes \subseteq Time

ASSUME WindowAssumption ==
    /\ Window \in [LiveMethods -> Nat]
    /\ MinWindow \in Nat
    /\ \A m \in LiveMethods : MinWindow <= Window[m]

\* What the deployment must provide, and the code does not enforce: a transaction
\* ends well within a duplicate window (60 seconds by default).
ASSUME ShortTransactions == 2 * MaxTxn < MinWindow

ASSUME PolicyAssumption ==
    /\ BreakMinutes \in Nat
    /\ HalfDayMinutes \in Nat
    /\ MinWorkMinutes \in Nat

ASSUME SiteAssumption ==
    /\ ProcOf \in [Writers -> Processes]
    /\ Consumers \subseteq Writers
    /\ Serves \in [Writers -> SUBSET (LiveMethods \X Intents)]
    /\ RedisEnabled \in BOOLEAN
    /\ "redis" \notin Processes
    /\ Edits \subseteq [day : Days, check_in_at : Stamp, check_out_at : Stamp]

VARIABLES
    clock,   \* the wall clock, the same for every worker
    ledger,  \* ledger[d]: the committed row of work day d
    txn,     \* txn[w]: the transaction writer w runs
    marker,  \* marker[s][m]: when store s was last armed for method m
    edited   \* the days a committed manual entry has touched

vars == <<clock, ledger, txn, marker, edited>>

-----------------------------------------------------------------------------
(* Rows *)

Statuses == {"absent", "present", "late", "half_day", "early_leave"}

Row == [exists : BOOLEAN,
        check_in_at : Stamp,
        check_out_at : Stamp,
        check_out_method : LiveMethods \cup {"manual", "none"},
        worked_minutes : Nat,
        status : Statuses]

NoRow == [exists |-> FALSE, check_in_at |-> None, check_out_at |-> None,
          check_out_method |-> "none", worked_minutes |-> 0, status |-> "absent"]

ResolveStatus(at) == IF at \in LateTimes THEN "late" ELSE "present"

\* Variant: no lower bound.
CalcWorkedUnbounded(in, out) == out - in - BreakMinutes

CalcWorked(in, out) ==
    IF out - in > BreakMinutes THEN out - in - BreakMinutes ELSE 0

ResolveCheckoutStatus(worked, current) ==
    CASE worked < HalfDayMinutes -> "half_day"
      [] worked >= HalfDayMinutes /\ worked < MinWorkMinutes -> "early_leave"
      [] OTHER -> IF current = "late" THEN "late" ELSE "present"

ApplyCheckIn(row, at) ==
    [row EXCEPT !.check_in_at = at, !.status = ResolveStatus(at)]

\* Variant: the status is derived before the worked time is stored.
ApplyCheckOutStatusFirst(row, at, method) ==
    [row EXCEPT !.check_out_at = at,
                !.check_out_method = method,
                !.status = ResolveCheckoutStatus(row.worked_minutes, row.status),
                !.worked_minutes = CalcWorked(row.check_in_at, at)]

ApplyCheckOut(row, at, method) ==
    LET worked == CalcWorked(row.check_in_at, at) IN
    [row EXCEPT !.check_out_at = at,
                !.check_out_method = method,
                !.worked_minutes = worked,
                !.status = ResolveCheckoutStatus(worked, row.status)]

-----------------------------------------------------------------------------
(* Duplicate markers: Redis when it is enabled and answers, otherwise the  *)
(* cache of the writer's own process                                       *)

Stores == Processes \cup {"redis"}

StoresOf(w) == {ProcOf[w]} \cup (IF RedisEnabled THEN {"redis"} ELSE {})

Armed(s, m) == marker[s][m] # None /\ clock - marker[s][m] < Window[m]

\* The stores that one arming or clearing may reach: Redis when it answers, the
\* local cache when it does not, both when Redis did it and the answer was lost.
Reached(w) == {{ProcOf[w]}} \cup (IF RedisEnabled THEN {{"redis"}, StoresOf(w)} ELSE {})

\* Redis is armed with SET NX, so a live marker keeps its age; the local cache
\* is overwritten.
Arming(stores, m) ==
    [s \in Stores |->
       IF s \in stores /\ ~(s = "redis" /\ Armed(s, m))
       THEN [marker[s] EXCEPT ![m] = clock] ELSE marker[s]]

Clearing(stores, m) ==
    [s \in Stores |->
       IF s \in stores THEN [marker[s] EXCEPT ![m] = None] ELSE marker[s]]

-----------------------------------------------------------------------------
(* Transactions *)

PCs == {"idle", "exit", "marker", "fetch", "insert", "apply", "arm", "commit",
        "unarm"}

Txn == [pc : PCs,
        method : LiveMethods \cup {"manual"},
        intent : Intents,
        began : Time,
        day : Days,
        dup : BOOLEAN,
        seen : Row,
        enter : [check_in_at : Stamp, check_out_at : Stamp]]

NoEntry == [check_in_at |-> None, check_out_at |-> None]

NoTxn == [pc |-> "idle", method |-> "face", intent |-> "toggle",
          began |-> 0, day |-> WorkDay[0], dup |-> FALSE,
          seen |-> NoRow, enter |-> NoEntry]

\* Variant: the row is not looked at.
SuppressedByMarkerOnly(t) == t.dup

\* "Suppress duplicates": the marker, or the newest stamp of the row as read.
Suppressed(t) ==
    LET last == IF t.seen.check_out_at # None THEN t.seen.check_out_at
                                              ELSE t.seen.check_in_at
    IN  t.dup \/ (last # None /\ t.began - last < Window[t.method])

\* Variant: an entry sighting restamps the check-in.
ChecksInAgain(t) == /\ t.method # "manual"
                    /\ ~Suppressed(t)
                    /\ t.intent # "check_out"

ChecksIn(t) == /\ t.method # "manual"
               /\ ~Suppressed(t)
               /\ t.intent # "check_out"
               /\ t.seen.check_in_at = None

ChecksOut(t) == /\ t.method # "manual"
                /\ ~Suppressed(t)
                /\ t.intent # "check_in"
                /\ t.seen.check_in_at # None
                /\ t.seen.check_out_at = None

\* The row after a manual entry: a check-out of a day that has no check-in
\* stores its time only.
Entered(row, enter) ==
    LET checkedIn == IF enter.check_in_at = None THEN row
                     ELSE ApplyCheckIn(row, enter.check_in_at)
    IN  IF enter.check_out_at = None THEN checkedIn
        ELSE IF checkedIn.check_in_at = None
        THEN [checkedIn EXCEPT !.check_out_at = enter.check_out_at,
                               !.check_out_method = "manual"]
        ELSE ApplyCheckOut(checkedIn, enter.check_out_at, "manual")

\* The row object of a transaction after its decision.
Image(t) ==
    IF t.method = "manual" THEN Entered(t.seen, t.enter)
    ELSE IF ChecksIn(t) THEN ApplyCheckIn(t.seen, t.began)
    ELSE IF ChecksOut(t) THEN ApplyCheckOut(t.seen, t.began, t.method)
    ELSE t.seen

\* An UPDATE names only the columns whose value differs from the one loaded.
Column(loaded, set, stored) == IF set = loaded THEN stored ELSE set

Stored(row, t) ==
    LET new == Image(t)
        old == t.seen
    IN [exists |-> TRUE,
        check_in_at |->
            Column(old.check_in_at, new.check_in_at, row.check_in_at),
        check_out_at |->
            Column(old.check_out_at, new.check_out_at, row.check_out_at),
        check_out_method |->
            Column(old.check_out_method, new.check_out_method, row.check_out_method),
        worked_minutes |->
            Column(old.worked_minutes, new.worked_minutes, row.worked_minutes),
        status |-> Column(old.status, new.status, row.status)]

Flushed(t) == t.pc \in {"arm", "commit"}

Inserted(t) == t.pc \in {"apply", "arm", "commit"} /\ ~t.seen.exists

\* The row lock: taken by the INSERT or the UPDATE, kept until the end.
Locks(t, d) == t.day = d /\ (Inserted(t) \/ (Flushed(t) /\ Image(t) # t.seen))

LockFree(w) == \A v \in Writers \ {w} : ~Locks(txn[v], txn[w].day)

Goto(w, step) == txn' = [txn EXCEPT ![w].pc = step]

Rest(w, step) == txn' = [txn EXCEPT ![w] = [NoTxn EXCEPT !.pc = step]]

-----------------------------------------------------------------------------
Init ==
    /\ clock = 0
    /\ ledger = [d \in Days |-> NoRow]
    /\ txn = [w \in Writers |-> NoTxn]
    /\ marker = [s \in Stores |-> [m \in LiveMethods |-> None]]
    /\ edited = {}

\* Time passes, but no transaction lives longer than MaxTxn.
Tick ==
    /\ clock < MaxTime
    /\ \A w \in Writers :
          txn[w].pc \notin {"idle", "unarm"} => clock < txn[w].began + MaxTxn
    /\ clock' = clock + 1
    /\ UNCHANGED <<ledger, txn, marker, edited>>

\* A camera, kiosk or card reader has matched the employee, who is active and
\* of the caller's company (anything else returns before the first write).
Sight(w, method, intent) ==
    /\ txn[w].pc = "idle"
    /\ txn' = [txn EXCEPT ![w] =
                 [pc |-> IF intent = "check_out" THEN "exit" ELSE "marker",
                  method |-> method, intent |-> intent, began |-> clock,
                  day |-> WorkDay[clock], dup |-> FALSE, seen |-> NoRow,
                  enter |-> NoEntry]]
    /\ UNCHANGED <<clock, ledger, marker, edited>>

\* An admin enters or corrects a day.
Enter(w, edit) ==
    /\ txn[w].pc = "idle"
    /\ w \notin Consumers
    /\ txn' = [txn EXCEPT ![w] =
                 [pc |-> "fetch", method |-> "manual", intent |-> "toggle",
                  began |-> clock, day |-> edit.day, dup |-> FALSE, seen |-> NoRow,
                  enter |-> [check_in_at |-> edit.check_in_at,
                             check_out_at |-> edit.check_out_at]]]
    /\ UNCHANGED <<clock, ledger, marker, edited>>

\* Variant: an exit sighting goes on without a row.
LookForDaySkipped(w) ==
    /\ txn[w].pc = "exit"
    /\ Goto(w, "marker")
    /\ UNCHANGED <<clock, ledger, marker, edited>>

\* An exit sighting of a day without a row returns None: nothing to close out.
LookForDay(w) ==
    /\ txn[w].pc = "exit"
    /\ IF ledger[txn[w].day].exists THEN Goto(w, "marker") ELSE Rest(w, "idle")
    /\ UNCHANGED <<clock, ledger, marker, edited>>

ReadMarker(w) ==
    /\ txn[w].pc = "marker"
    /\ \E s \in StoresOf(w) :
          txn' = [txn EXCEPT ![w] = [@ EXCEPT !.pc = "fetch",
                                              !.dup = Armed(s, txn[w].method)]]
    /\ UNCHANGED <<clock, ledger, marker, edited>>

Fetch(w) ==
    /\ txn[w].pc = "fetch"
    /\ LET row == ledger[txn[w].day] IN
       txn' = [txn EXCEPT ![w] =
                 [@ EXCEPT !.pc = IF row.exists THEN "apply" ELSE "insert",
                           !.seen = row]]
    /\ UNCHANGED <<clock, ledger, marker, edited>>

\* INSERT in a savepoint: it waits for another transaction that inserts the
\* same day; once that one has committed the unique constraint fails and the
\* winner's row is selected instead.
Insert(w) ==
    /\ txn[w].pc = "insert"
    /\ LockFree(w)
    /\ Goto(w, IF ledger[txn[w].day].exists THEN "fetch" ELSE "apply")
    /\ UNCHANGED <<clock, ledger, marker, edited>>

\* Decide and flush: an UPDATE waits for the row lock, and then goes through
\* with what was decided from the row as it was read.
Flush(w) ==
    /\ txn[w].pc = "apply"
    /\ Image(txn[w]) # txn[w].seen => LockFree(w)
    /\ Goto(w, IF ChecksIn(txn[w]) \/ ChecksOut(txn[w]) THEN "arm" ELSE "commit")
    /\ UNCHANGED <<clock, ledger, marker, edited>>

Arm(w) ==
    /\ txn[w].pc = "arm"
    /\ \E stores \in Reached(w) : marker' = Arming(stores, txn[w].method)
    /\ Goto(w, "commit")
    /\ UNCHANGED <<clock, ledger, edited>>

\* The caller commits: get_db after the handler, the consumer after each event.
Commit(w) ==
    LET t == txn[w] IN
    /\ t.pc = "commit"
    /\ ledger' = [ledger EXCEPT ![t.day] = Stored(@, t)]
    /\ edited' = IF t.method = "manual" THEN edited \cup {t.day} ELSE edited
    /\ Rest(w, "idle")
    /\ UNCHANGED <<clock, marker>>

\* Any statement, or the commit, fails and the transaction is rolled back.  Only
\* the consumer clears the marker before it retries the event, and not even the
\* consumer when it is cancelled.
Fail(w) ==
    /\ txn[w].pc \notin {"idle", "unarm"}
    /\ \E step \in IF w \in Consumers THEN {"unarm", "idle"} ELSE {"idle"} :
          Rest(w, step)
    /\ UNCHANGED <<clock, ledger, marker, edited>>

\* clear_duplicate_marker: Redis may be out of reach, the local cache is not.
Unarm(w) ==
    /\ txn[w].pc = "unarm"
    /\ \E stores \in {{ProcOf[w]}, StoresOf(w)} : marker' = Clearing(stores, "face")
    /\ Rest(w, "idle")
    /\ UNCHANGED <<clock, ledger, edited>>

\* A worker process dies and comes back: its transactions are rolled back by
\* the database, its local cache is empty, and Redis keeps what it has.
Restart(p) ==
    /\ txn' = [w \in Writers |->
                 IF ProcOf[w] = p THEN NoTxn ELSE txn[w]]
    /\ marker' = [marker EXCEPT ![p] = [m \in LiveMethods |-> None]]
    /\ UNCHANGED <<clock, ledger, edited>>

Step(w) ==
    \/ \E s \in Serves[w] : Sight(w, s[1], s[2])
    \/ \E e \in Edits : Enter(w, e)
    \/ LookForDay(w) \/ ReadMarker(w) \/ Fetch(w) \/ Insert(w)
    \/ Flush(w) \/ Arm(w) \/ Commit(w) \/ Fail(w) \/ Unarm(w)

Next ==
    \/ Tick
    \/ \E w \in Writers : Step(w)
    \/ \E p \in Processes : Restart(p)

Spec == Init /\ [][Next]_vars

-----------------------------------------------------------------------------
(* Properties *)

TypeOK ==
    /\ clock \in Time
    /\ ledger \in [Days -> Row]
    /\ txn \in [Writers -> Txn]
    /\ marker \in [Stores -> [LiveMethods -> Stamp]]
    /\ edited \in SUBSET Days

\* A day that no admin has edited is only closed when its check-in is at least
\* one duplicate window old, whatever the transactions that raced over it: two
\* sightings of one arrival never make a check-in and a check-out.
\* (process_recognition, process_rfid_tap: _recent_action_within is evaluated on
\* a row nobody has locked.)
ClosedDaysSpanWindow ==
    \A d \in Days \ edited :
        LET row == ledger[d] IN
        row.check_out_at # None =>
            /\ row.check_in_at # None
            /\ row.check_out_at - row.check_in_at >= Window[row.check_out_method]

\* The columns of a row that no admin has edited belong together.  An open day
\* has the status of its check-in.  A closed day has the worked time and the
\* status of a check-out at most MaxTxn away from the recorded one, and a window
\* after the recorded check-in: racing check-outs write only the columns they
\* change, so a row may mix two of them, but both were decided on that check-in.
ColumnsAgree ==
    \A d \in Days \ edited :
        LET row == ledger[d]
            near == {t \in Time : /\ t - row.check_out_at \in -MaxTxn .. MaxTxn
                                  /\ t - row.check_in_at >= MinWindow}
            StatusAt(t) == ResolveCheckoutStatus(CalcWorked(row.check_in_at, t),
                                                 ResolveStatus(row.check_in_at))
        IN  IF row.check_in_at = None
            THEN row.status = "absent" /\ row.worked_minutes = 0
            ELSE IF row.check_out_at = None
            THEN row.status = ResolveStatus(row.check_in_at)
            ELSE /\ \E t \in near : row.worked_minutes = CalcWorked(row.check_in_at, t)
                 /\ \E t \in near : row.status = StatusAt(t)

\* Only a sighting that a duplicate marker suppresses leaves a day with a row and
\* no stamp; an exit sighting never does, not even when the row it is looking
\* for is being inserted or rolled back.  (process_recognition 415-424: the exit
\* camera must not "pollute the day with a bare status='absent' row".)
BareRowsAreSuppressedSightings ==
    [][\A d \in Days :
          ~ledger[d].exists /\ ledger'[d].exists
             /\ ledger'[d].check_in_at = None /\ ledger'[d].check_out_at = None
          => \E w \in Writers :
                /\ txn[w].pc = "commit" /\ txn[w].day = d
                /\ txn[w].method # "manual" => /\ txn[w].dup
                                               /\ txn[w].intent # "check_out"]_vars

\* The ledger keeps the promise of AttendanceDay: what a session does between its
\* read and its commit shows outside only as a check-in, a check-out at least a
\* window later, a replacement within a transaction's length, or an edit.
Day == INSTANCE AttendanceDay WITH
          Gap <- MinWindow,
          Slack <- MaxTxn,
          in <- [d \in Days |-> ledger[d].check_in_at],
          out <- [d \in Days |-> ledger[d].check_out_at]

ImplementsDay == Day!Spec

\* "The authoritative duplicate guard is _recent_action_within, which is based on
\* the persisted record timestamps (shared by all workers)": a second check-out
\* within the window is ignored, so a check-out is never replaced by one that is
\* less than a window younger.  (attendance_service.py 27-32.)
Replaces(new, old, least) == old # None /\ new # old => new - old >= least

NoSecondCheckOutWithinWindow ==
    [][\A d \in Days \ edited' :
          Replaces(ledger'[d].check_out_at, ledger[d].check_out_at, MinWindow)]_vars

\* "A failed write or a no-op outcome must not open the duplicate window": when
\* no transaction is running and the employee has no stamp on any day, no
\* marker is live.  (attendance_service.py 53-58 and 483-484.)
FailedWriteOpensNoWindow ==
    (/\ \A w \in Writers : txn[w].pc = "idle"
     /\ \A d \in Days : ledger[d].check_in_at = None /\ ledger[d].check_out_at = None)
    => \A s \in Stores, m \in LiveMethods : ~Armed(s, m)
=============================================================================
