---------------------------- MODULE AnomalyTriage ----------------------------
(***************************************************************************)
(* Attendance anomalies: the detection of services/anomaly_service.py and  *)
(* services/anomaly_detector.py, asked for (POST /anomalies/detect) or     *)
(* periodic (tasks/maintenance.py), and the triage of what it found         *)
(* (PATCH /anomalies/{id}).                                                *)
(*                                                                         *)
(* A detection reads the records of one employee's window, judges them in  *)
(* a thread while the ledger goes on, and inserts a row for each finding,  *)
(* whatever earlier detections inserted.  Left out: unusual_check_in_time, *)
(* which needs a shift, rapid_recheck, whose count is always 0, severities *)
(* and wording.                                                            *)
(***************************************************************************)
EXTENDS Backend

CONSTANTS
    WorkDays,      \* the days of the window
    Weekend,       \* those on a weekend
    Triagers,      \* users who triage, each one request at a time
    MinDays,       \* records an absence pattern takes (5)
    MlMinSamples,  \* records the forest takes (15)
    MaxRuns,       \* bound of the detections
    MaxJudgements  \* bound of the triage requests

\* When something was done; who did it is history, the column has the time only.
Stamps == [at : 1..MaxJudgements, who : Triagers]

ASSUME AnomalyAssumption ==
    /\ Weekend \subseteq WorkDays /\ Nil \notin Stamps
    /\ {MinDays, MlMinSamples, MaxRuns, MaxJudgements} \subseteq Nat

VARIABLES
    workdays,   \* workdays[d]: the attendance row of day d
    detection,  \* the detection under way
    anomalies,  \* anomalies[k]: the row k, one for each finding of each run
    reviews,    \* reviews[u]: the request of user u that is served
    disputed,   \* history: the rows that two requests triaged at once
    runCount, judged

anomalyVars == <<workdays, detection, anomalies, reviews, disputed, runCount, judged>>

Closed == {"resolved", "false_positive"}
AnomalyTypes == {"missing_check_out", "excessive_overtime", "weekend_work", "short_work_day",
                 "statistical_outlier", "absence_pattern"}
AnomalyKeys == [run : 1..MaxRuns, day : WorkDays \cup {Nil}, type : AnomalyTypes]

\* AttendanceRecord: brief is less than an hour, over is past the threshold.
WorkRecords == [in : BOOLEAN, out : BOOLEAN, brief : BOOLEAN, over : BOOLEAN]

AnomalyRows == [status : {"open", "acknowledged"} \cup Closed,
                ackAt : Stamps \cup {Nil}, ackBy : Triagers \cup {Nil},
                resolvedAt : Stamps \cup {Nil}]

Opened == [status |-> "open", ackAt |-> Nil, ackBy |-> Nil, resolvedAt |-> Nil]

NoReview == [key |-> Nil, to |-> "open", seen |-> Nil]
NoDetection == [stage |-> "none", seen |-> Nil]

AnomalyTypeOK ==
    /\ workdays \in [WorkDays -> WorkRecords \cup {Nil}]
    /\ detection.stage \in {"none", "read"}
    /\ DOMAIN anomalies \subseteq AnomalyKeys
    /\ \A k \in DOMAIN anomalies : anomalies[k] \in AnomalyRows
    /\ \A u \in Triagers : reviews[u].key \in DOMAIN anomalies \cup {Nil}
    /\ disputed \subseteq AnomalyKeys
    /\ runCount \in 0..MaxRuns /\ judged \in 0..MaxJudgements

AnomalyInit ==
    /\ workdays = [d \in WorkDays |-> Nil]
    /\ detection = NoDetection
    /\ anomalies = [k \in {} |-> Nil]
    /\ reviews = [u \in Triagers |-> NoReview] /\ disputed = {}
    /\ runCount = 0 /\ judged = 0

-----------------------------------------------------------------------------
(* The ledger: a row is bare, then checked in, then checked out             *)

Bare == [in |-> FALSE, out |-> FALSE, brief |-> TRUE, over |-> FALSE]
Outcomes == {r \in WorkRecords : r.in /\ r.out /\ ~(r.brief /\ r.over)}

DayGoesOn(d) ==
    /\ \/ workdays[d] = Nil /\ workdays' = [workdays EXCEPT ![d] = Bare]
       \/ workdays[d] \in {Nil, Bare} /\ workdays' = [workdays EXCEPT ![d] = [Bare EXCEPT !.in = TRUE]]
       \/ /\ workdays[d] # Nil /\ workdays[d].in /\ ~workdays[d].out
          /\ \E r \in Outcomes : workdays' = [workdays EXCEPT ![d] = r]
    /\ UNCHANGED <<detection, anomalies, reviews, disputed, runCount, judged>>

-----------------------------------------------------------------------------
(* Detection *)

\* _rule_anomalies; a day that was on leave is not told apart, for no code
\* writes that status.
RulesOf(d, r) ==
    {t \in AnomalyTypes :
        \/ t = "missing_check_out" /\ r.in /\ ~r.out
        \/ t = "excessive_overtime" /\ r.over
        \/ t = "weekend_work" /\ d \in Weekend /\ r.in
        \/ t = "short_work_day" /\ r.in /\ r.out /\ r.brief}

\* A bare row is the only one that says "absent".
AbsencePattern(rows) ==
    LET days == {d \in WorkDays : rows[d] # Nil} IN
    /\ Cardinality(days) >= MinDays
    /\ 10 * Cardinality({d \in days : rows[d] = Bare}) >= 6 * Cardinality(days)

\* analyze_records: what a run finds, the forest's choice being outliers.
Found(run, rows, outliers) ==
    {k \in AnomalyKeys :
        /\ k.run = run
        /\ \/ /\ k.day \in WorkDays /\ rows[k.day] # Nil
              /\ \/ k.type \in RulesOf(k.day, rows[k.day])
                 \/ k.type = "statistical_outlier" /\ k.day \in outliers
           \/ k.day = Nil /\ k.type = "absence_pattern" /\ AbsencePattern(rows)}

BeginDetection ==
    /\ detection = NoDetection /\ runCount < MaxRuns
    /\ detection' = [stage |-> "read", seen |-> workdays]
    /\ runCount' = runCount + 1
    /\ UNCHANGED <<workdays, anomalies, reviews, disputed, judged>>

\* The thread has judged what was read; the rows are inserted and committed.
SaveDetection(outliers) ==
    LET rows == detection.seen
        days == {d \in WorkDays : rows[d] # Nil}
        new == Found(runCount, rows, outliers) IN
    /\ detection.stage = "read"
    /\ outliers \subseteq days
    /\ outliers # {} => Cardinality(days) >= MlMinSamples
    /\ anomalies' = [k \in DOMAIN anomalies \cup new |->
                        IF k \in new THEN Opened ELSE anomalies[k]]
    /\ detection' = NoDetection
    /\ UNCHANGED <<workdays, reviews, disputed, runCount, judged>>

-----------------------------------------------------------------------------
(* Triage: update_anomaly *)

BeginTriage(u, k, to) ==
    /\ reviews[u] = NoReview /\ judged < MaxJudgements
    /\ k \in DOMAIN anomalies
    /\ reviews' = [reviews EXCEPT ![u] = [key |-> k, to |-> to, seen |-> anomalies[k]]]
    /\ disputed' = IF \E v \in Triagers : reviews[v].key = k THEN disputed \cup {k} ELSE disputed
    /\ judged' = judged + 1
    /\ UNCHANGED <<workdays, detection, anomalies, runCount>>

\* Variant: whoever closes an anomaly signs it, and leaves the time there is.
TriagedByLast(row, to, u, now) ==
    LET acked == [row EXCEPT !.ackAt = IF @ = Nil THEN now ELSE @, !.ackBy = u] IN
    IF to = "acknowledged" THEN [acked EXCEPT !.status = to]
    ELSE [acked EXCEPT !.status = to, !.resolvedAt = now]

\* The row as the handler of user u leaves it in its session.
Triaged(row, to, u, now) ==
    LET acked == [row EXCEPT !.ackAt = now, !.ackBy = u] IN
    IF to = "acknowledged" THEN [acked EXCEPT !.status = to]
    ELSE [IF row.ackAt = Nil THEN acked ELSE row EXCEPT !.status = to, !.resolvedAt = now]

\* The columns that differ from what was read are written, and committed.
CommitTriage(u) ==
    LET call == reviews[u]
        row  == anomalies[call.key]
        new  == Triaged(call.seen, call.to, u, [at |-> judged, who |-> u])
    IN
    /\ call # NoReview
    /\ anomalies' = [anomalies EXCEPT ![call.key] =
          [f \in DOMAIN row |-> IF new[f] # call.seen[f] THEN new[f] ELSE row[f]]]
    /\ reviews' = [reviews EXCEPT ![u] = NoReview]
    /\ UNCHANGED <<workdays, detection, disputed, runCount, judged>>

\* Another company's anomaly, or a failed commit.
DropTriage(u) ==
    /\ reviews[u] # NoReview
    /\ reviews' = [reviews EXCEPT ![u] = NoReview]
    /\ UNCHANGED <<workdays, detection, anomalies, disputed, runCount, judged>>

\* A detection whose thread or commit fails inserts nothing.
DropDetection ==
    /\ detection # NoDetection
    /\ detection' = NoDetection
    /\ UNCHANGED <<workdays, anomalies, reviews, disputed, runCount, judged>>

AnomalyNext ==
    \/ \E d \in WorkDays : DayGoesOn(d)
    \/ BeginDetection
    \/ \E outliers \in SUBSET WorkDays : SaveDetection(outliers)
    \/ DropDetection
    \/ \E u \in Triagers, k \in AnomalyKeys, to \in {"acknowledged"} \cup Closed :
          BeginTriage(u, k, to)
    \/ \E u \in Triagers : CommitTriage(u) \/ DropTriage(u)

AnomalySpec == AnomalyInit /\ [][AnomalyNext]_anomalyVars

-----------------------------------------------------------------------------
(* What is claimed *)

\* An anomaly that was looked at says when and by whom, and when it was
\* closed; who is named is who acted at that time, unless two requests held
\* the row at once (update_anomaly acknowledges what is closed unseen, and
\* only the columns that change are written).
TriageIsSigned ==
    \A k \in DOMAIN anomalies :
        LET row == anomalies[k] IN
        /\ row.status # "open" => row.ackAt # Nil
        /\ row.status \in Closed => row.resolvedAt # Nil
        /\ row.ackAt # Nil /\ k \notin disputed => row.ackBy = row.ackAt.who
=============================================================================
