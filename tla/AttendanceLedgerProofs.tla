------------------------ MODULE AttendanceLedgerProofs ------------------------
(***************************************************************************)
(* The ledger keeps its promises for any number of writers, processes,     *)
(* days and stores and any windows, as long as a transaction is shorter    *)
(* than half of the shortest window.                                       *)
(***************************************************************************)
EXTENDS AttendanceLedger, TLAPS

-----------------------------------------------------------------------------
(* The inductive invariant *)

Running(t) == t.pc \notin {"idle", "unarm"}

\* The transaction has read its row, or inserted it, and has not ended.
Decided(t) == t.pc \in {"apply", "arm", "commit"}

Live(t) == t.method # "manual"

\* A transaction is bounded in time.
InTime(t) ==
    Running(t) => t.began <= clock /\ clock <= t.began + MaxTxn

\* A transaction that read a day without a check-in (or check-out) and finds one
\* there now started no later than a transaction's length after it.
Late(t) ==
    LET row == ledger[t.day] IN
    /\ t.seen.check_in_at = None /\ row.check_in_at # None
         => t.began <= row.check_in_at + MaxTxn
    /\ t.seen.check_out_at = None /\ row.check_out_at # None
         => t.began <= row.check_out_at + MaxTxn
    /\ t.seen.check_out_at = None => t.seen.check_out_method = "none"

\* A transaction that read a check-in at least a window old read the final one.
Settled(t) ==
    t.seen.check_in_at # None /\ t.began - t.seen.check_in_at >= MinWindow
    => ledger[t.day].check_in_at = t.seen.check_in_at

TxnInv(t) ==
    /\ InTime(t)
    /\ t.pc = "insert" => t.seen = NoRow
    /\ Live(t) /\ Decided(t) /\ t.day \notin edited => Late(t) /\ Settled(t)

\* What a row that only sightings have written looks like: its stamps are in the
\* past, and a closed day spans the window of the method that closed it.
Sightings(row) ==
    /\ row.check_in_at <= clock
    /\ row.check_out_at <= clock
    /\ row.check_out_at = None => row.check_out_method = "none"
    /\ row.check_out_at # None =>
          /\ row.check_in_at # None
          /\ row.check_out_method \in LiveMethods
          /\ row.check_out_at - row.check_in_at >= Window[row.check_out_method]

RowInv(d) ==
    /\ ~ledger[d].exists => ledger[d] = NoRow
    /\ d \notin edited => Sightings(ledger[d])

IInv ==
    /\ TypeOK
    /\ \A d \in Days : RowInv(d)
    /\ \A w \in Writers : TxnInv(txn[w])

-----------------------------------------------------------------------------
(* Rows: what a transaction does to the row it has read *)

USE DEF None

LEMMA CalcWorkedNat ==
    ASSUME NEW in \in Stamp, NEW out \in Stamp
    PROVE  CalcWorked(in, out) \in Nat
  BY TimeAssumption, PolicyAssumption DEF CalcWorked, Stamp, Time

LEMMA CheckoutStatusType ==
    ASSUME NEW worked \in Nat, NEW current \in Statuses
    PROVE  ResolveCheckoutStatus(worked, current) \in Statuses
  BY PolicyAssumption DEF ResolveCheckoutStatus, Statuses

LEMMA CheckInType ==
    ASSUME NEW row \in Row, NEW at \in Stamp
    PROVE  /\ ApplyCheckIn(row, at) \in Row
           /\ ApplyCheckIn(row, at) = [row EXCEPT !.check_in_at = at,
                                                  !.status = ResolveStatus(at)]
  BY DEF ApplyCheckIn, Row, ResolveStatus, Statuses

LEMMA CheckOutType ==
    ASSUME NEW row \in Row, NEW at \in Stamp,
           NEW method \in LiveMethods \cup {"manual"}
    PROVE  ApplyCheckOut(row, at, method) \in Row
  <1> DEFINE worked == CalcWorked(row.check_in_at, at)
             status == ResolveCheckoutStatus(worked, row.status)
  <1>1. row.check_in_at \in Stamp /\ row.status \in Statuses
    BY DEF Row
  <1>2. worked \in Nat
    BY <1>1, CalcWorkedNat
  <1>3. status \in Statuses
    BY <1>1, <1>2, CheckoutStatusType
  <1>4. ApplyCheckOut(row, at, method) =
          [row EXCEPT !.check_out_at = at, !.check_out_method = method,
                      !.worked_minutes = worked, !.status = status]
    BY DEF ApplyCheckOut
  <1> HIDE DEF worked, status
  <1> QED
    BY <1>2, <1>3, <1>4 DEF Row

LEMMA EnteredType ==
    ASSUME NEW row \in Row,
           NEW enter \in [check_in_at : Stamp, check_out_at : Stamp]
    PROVE  Entered(row, enter) \in Row
  <1> DEFINE checkedIn == IF enter.check_in_at = None THEN row
                          ELSE ApplyCheckIn(row, enter.check_in_at)
  <1>1. checkedIn \in Row
    BY CheckInType
  <1>2. [checkedIn EXCEPT !.check_out_at = enter.check_out_at,
                          !.check_out_method = "manual"] \in Row
    BY <1>1 DEF Row
  <1>3. ApplyCheckOut(checkedIn, enter.check_out_at, "manual") \in Row
    BY <1>1, CheckOutType
  <1> QED
    BY <1>1, <1>2, <1>3 DEF Entered

LEMMA ImageType ==
    ASSUME NEW t \in Txn
    PROVE  Image(t) \in Row
  <1>1. /\ t.seen \in Row
        /\ t.began \in Stamp
        /\ t.method \in LiveMethods \cup {"manual"}
        /\ t.enter \in [check_in_at : Stamp, check_out_at : Stamp]
    BY DEF Txn, Stamp
  <1>2. Entered(t.seen, t.enter) \in Row
    BY <1>1, EnteredType
  <1>3. ApplyCheckIn(t.seen, t.began) \in Row
    BY <1>1, CheckInType
  <1>4. ApplyCheckOut(t.seen, t.began, t.method) \in Row
    BY <1>1, CheckOutType
  <1> QED
    BY <1>1, <1>2, <1>3, <1>4 DEF Image

LEMMA StoredType ==
    ASSUME NEW row \in Row, NEW t \in Txn
    PROVE  Stored(row, t) \in Row
  <1>1. Image(t) \in Row
    BY ImageType
  <1> QED
    BY <1>1 DEF Stored, Column, Row

\* A sighting writes its own instant over the stamp it decided to set, and
\* leaves the other stamp as it is stored.
LEMMA StoredStamps ==
    ASSUME NEW row \in Row, NEW t \in Txn, Live(t)
    PROVE  /\ Stored(row, t).exists
           /\ Stored(row, t).check_in_at =
                 IF ChecksIn(t) THEN t.began ELSE row.check_in_at
           /\ Stored(row, t).check_out_at =
                 IF ChecksOut(t) THEN t.began ELSE row.check_out_at
           /\ Stored(row, t).check_out_method =
                 IF ChecksOut(t) /\ t.seen.check_out_method # t.method
                 THEN t.method ELSE row.check_out_method
  <1>1. t.seen \in Row /\ t.began \in Time
    BY DEF Txn
  <1>2. ~(ChecksIn(t) /\ ChecksOut(t))
    BY DEF ChecksIn, ChecksOut
  <1>3. /\ Image(t).check_in_at =
              IF ChecksIn(t) THEN t.began ELSE t.seen.check_in_at
        /\ Image(t).check_out_at =
              IF ChecksOut(t) THEN t.began ELSE t.seen.check_out_at
        /\ Image(t).check_out_method =
              IF ChecksOut(t) THEN t.method ELSE t.seen.check_out_method
    BY <1>1, <1>2 DEF Image, Live, ApplyCheckIn, ApplyCheckOut, Row
  <1>4. t.began # None
    BY <1>1, TimeAssumption DEF Time
  <1>5. /\ ChecksIn(t) => t.seen.check_in_at = None
        /\ ChecksOut(t) => t.seen.check_out_at = None
    BY DEF ChecksIn, ChecksOut
  <1> QED
    BY <1>3, <1>4, <1>5 DEF Stored, Column

-----------------------------------------------------------------------------
(* Type correctness *)

LEMMA NoTxnType == NoTxn \in Txn /\ NoRow \in Row
  BY TimeAssumption
  DEF NoTxn, Txn, NoRow, NoEntry, Row, Statuses, PCs, Intents, LiveMethods, Stamp, Time

LEMMA GotoType ==
    ASSUME txn \in [Writers -> Txn], NEW w \in Writers, NEW step \in PCs
    PROVE  /\ Goto(w, step) => txn' \in [Writers -> Txn]
           /\ Rest(w, step) => txn' \in [Writers -> Txn]
  BY NoTxnType DEF Goto, Rest, Txn

LEMMA InitTypeOK == Init => TypeOK
  <1> SUFFICES ASSUME Init PROVE TypeOK
    OBVIOUS
  <1>1. clock \in Time /\ edited \in SUBSET Days
    BY TimeAssumption DEF Init, Time
  <1>2. ledger \in [Days -> Row] /\ txn \in [Writers -> Txn]
    BY NoTxnType DEF Init
  <1>3. marker \in [Stores -> [LiveMethods -> Stamp]]
    BY DEF Init, Stamp
  <1> QED
    BY <1>1, <1>2, <1>3 DEF TypeOK

LEMMA StepTypeOK == TypeOK /\ [Next]_vars => TypeOK'
  <1> SUFFICES ASSUME TypeOK, [Next]_vars PROVE TypeOK'
    OBVIOUS
  <1> USE DEF TypeOK
  <1>0. {"exit", "marker", "fetch", "insert", "apply", "arm", "commit", "unarm",
         "idle"} \subseteq PCs
    BY DEF PCs
  <1>1. CASE Tick
    BY <1>1, TimeAssumption DEF Tick, Time
  <1>2. ASSUME NEW w \in Writers, Step(w) PROVE TypeOK'
    <2>1. ASSUME NEW s \in Serves[w], Sight(w, s[1], s[2]) PROVE TypeOK'
      <3>1. s[1] \in LiveMethods /\ s[2] \in Intents
        BY SiteAssumption
      <3>2. WorkDay[clock] \in Days
        BY TimeAssumption
      <3>3. NoEntry \in [check_in_at : Stamp, check_out_at : Stamp]
        BY DEF NoEntry, Stamp
      <3>4. [pc |-> IF s[2] = "check_out" THEN "exit" ELSE "marker",
             method |-> s[1], intent |-> s[2], began |-> clock,
             day |-> WorkDay[clock], dup |-> FALSE, seen |-> NoRow,
             enter |-> NoEntry] \in Txn
        BY <1>0, <3>1, <3>2, <3>3, NoTxnType DEF Txn
      <3> QED
        BY <2>1, <3>4 DEF Sight
    <2>2. ASSUME NEW e \in Edits, Enter(w, e) PROVE TypeOK'
      <3>1. [pc |-> "fetch", method |-> "manual", intent |-> "toggle",
             began |-> clock, day |-> e.day, dup |-> FALSE, seen |-> NoRow,
             enter |-> [check_in_at |-> e.check_in_at,
                        check_out_at |-> e.check_out_at]] \in Txn
        BY <1>0, SiteAssumption, NoTxnType DEF Txn, Intents
      <3> QED
        BY <2>2, <3>1 DEF Enter
    <2>3. CASE LookForDay(w)
      BY <1>0, <2>3, GotoType DEF LookForDay
    <2>4. CASE ReadMarker(w)
      <3>1. PICK s \in StoresOf(w) :
              txn' = [txn EXCEPT ![w] = [@ EXCEPT !.pc = "fetch",
                                                  !.dup = Armed(s, txn[w].method)]]
        BY <2>4 DEF ReadMarker
      <3>2. Armed(s, txn[w].method) \in BOOLEAN
        BY DEF Armed
      <3>3. [txn[w] EXCEPT !.pc = "fetch", !.dup = Armed(s, txn[w].method)] \in Txn
        BY <1>0, <3>2 DEF Txn
      <3> QED
        BY <2>4, <3>1, <3>3 DEF ReadMarker
    <2>5. CASE Fetch(w)
      <3> DEFINE row == ledger[txn[w].day]
                 step == IF row.exists THEN "apply" ELSE "insert"
      <3>1. row \in Row /\ step \in PCs
        BY <1>0 DEF Txn
      <3>2. [txn[w] EXCEPT !.pc = step, !.seen = row] \in Txn
        BY <3>1 DEF Txn
      <3> QED
        BY <2>5, <3>2 DEF Fetch
    <2>6. CASE Insert(w)
      BY <1>0, <2>6, GotoType DEF Insert
    <2>7. CASE Flush(w)
      BY <1>0, <2>7, GotoType DEF Flush
    <2>8. CASE Arm(w)
      <3>1. PICK stores \in Reached(w) : marker' = Arming(stores, txn[w].method)
        BY <2>8 DEF Arm
      <3>2. marker' \in [Stores -> [LiveMethods -> Stamp]]
        BY <3>1 DEF Arming, Stamp
      <3> QED
        BY <1>0, <2>8, <3>2, GotoType DEF Arm
    <2>9. CASE Commit(w)
      <3>1. txn[w].day \in Days /\ ledger[txn[w].day] \in Row
        BY DEF Txn
      <3>2. Stored(ledger[txn[w].day], txn[w]) \in Row
        BY <3>1, StoredType
      <3> QED
        BY <1>0, <2>9, <3>1, <3>2, GotoType DEF Commit
    <2>10. CASE Fail(w)
      BY <1>0, <2>10, GotoType DEF Fail
    <2>11. CASE Unarm(w)
      <3>1. PICK stores \in {{ProcOf[w]}, StoresOf(w)} :
              marker' = Clearing(stores, "face")
        BY <2>11 DEF Unarm
      <3>2. marker' \in [Stores -> [LiveMethods -> Stamp]]
        BY <3>1 DEF Clearing, Stamp
      <3> QED
        BY <1>0, <2>11, <3>2, GotoType DEF Unarm
    <2> QED
      BY <1>2, <2>1, <2>2, <2>3, <2>4, <2>5, <2>6, <2>7, <2>8, <2>9, <2>10, <2>11
      DEF Step
  <1>3. ASSUME NEW p \in Processes, Restart(p) PROVE TypeOK'
    BY <1>3, NoTxnType DEF Restart, Stamp
  <1>4. CASE UNCHANGED vars
    BY <1>4 DEF vars
  <1> QED
    BY <1>1, <1>2, <1>3, <1>4 DEF Next

\* Every variable keeps its type: the store, the clock and the transactions of
\* every writer, whatever they interleave.
THEOREM TypeCorrect == Spec => []TypeOK
  BY InitTypeOK, StepTypeOK, PTL DEF Spec

-----------------------------------------------------------------------------
(* What a commit may do to a day that no admin has edited *)

\* The heart of the argument.  A check-in that commits over another one started
\* before the other one committed, so it is over within two transaction lengths
\* of it; a check-out rests on a check-in a whole window old.  As a window is
\* longer than two transactions, the two cannot meet.
LEMMA CommitDecision ==
    ASSUME IInv, NEW w \in Writers, txn[w].pc = "commit", Live(txn[w]),
           txn[w].day \notin edited
    PROVE  LET t == txn[w]
               row == ledger[txn[w].day]
           IN  /\ ChecksIn(t) =>
                     /\ row.check_out_at = None
                     /\ row.check_in_at # None =>
                           /\ t.began - row.check_in_at <= MaxTxn
                           /\ row.check_in_at - t.began <= MaxTxn
               /\ ChecksOut(t) =>
                     /\ row.check_in_at # None
                     /\ t.began - row.check_in_at >= Window[t.method]
                     /\ row.check_out_at # None =>
                           /\ t.began - row.check_out_at <= MaxTxn
                           /\ row.check_out_at - t.began <= MaxTxn
  <1> DEFINE t == txn[w]
             row == ledger[t.day]
  <1>1. /\ t \in Txn /\ row \in Row
        /\ t.began \in Nat /\ t.day \in Days
        /\ t.method \in LiveMethods
        /\ t.seen \in Row
    BY DEF IInv, TypeOK, Txn, Live, Time
  <1>2. /\ row.check_in_at \in Int /\ row.check_out_at \in Int
        /\ t.seen.check_in_at \in Int /\ t.seen.check_out_at \in Int
    BY <1>1 DEF Row, Stamp, Time
  <1>3. clock \in Nat /\ t.began <= clock /\ clock <= t.began + MaxTxn
    BY DEF IInv, TypeOK, TxnInv, InTime, Running, Time
  <1>4. Late(t) /\ Settled(t)
    BY DEF IInv, TxnInv, Decided
  <1>5. Sightings(row)
    BY <1>1 DEF IInv, RowInv
  <1>6. \A m \in LiveMethods : Window[m] \in Nat /\ Window[m] >= MinWindow
    BY WindowAssumption
  <1>7. MaxTxn \in Nat /\ MinWindow \in Nat /\ 2 * MaxTxn < MinWindow
    BY TimeAssumption, WindowAssumption, ShortTransactions
  <1> HIDE DEF t, row
  <1>8. ASSUME ChecksIn(t)
        PROVE  /\ row.check_out_at = None
               /\ row.check_in_at # None =>
                     /\ t.began - row.check_in_at <= MaxTxn
                     /\ row.check_in_at - t.began <= MaxTxn
    <2>1. t.seen.check_in_at = None
      BY <1>8 DEF ChecksIn
    <2>2. row.check_in_at # None => t.began <= row.check_in_at + MaxTxn
      BY <1>4, <2>1 DEF Late, row
    <2>3. row.check_out_at # None =>
            /\ row.check_in_at # None
            /\ row.check_out_at - row.check_in_at >= MinWindow
      <3>1. ASSUME row.check_out_at # None
            PROVE  /\ row.check_in_at # None
                   /\ row.check_out_method \in LiveMethods
                   /\ row.check_out_at - row.check_in_at >= Window[row.check_out_method]
        BY <1>5, <3>1 DEF Sightings
      <3> QED
        BY <1>2, <1>6, <1>7, <3>1
    <2>4. row.check_in_at <= clock /\ row.check_out_at <= clock
      BY <1>5 DEF Sightings
    <2> QED
      BY <1>1, <1>2, <1>3, <1>7, <2>2, <2>3, <2>4
  <1>9. ASSUME ChecksOut(t)
        PROVE  /\ row.check_in_at # None
               /\ t.began - row.check_in_at >= Window[t.method]
               /\ row.check_out_at # None =>
                     /\ t.began - row.check_out_at <= MaxTxn
                     /\ row.check_out_at - t.began <= MaxTxn
    <2>1. /\ t.seen.check_in_at # None /\ t.seen.check_out_at = None
          /\ ~(t.began - t.seen.check_in_at < Window[t.method])
      BY <1>9 DEF ChecksOut, Suppressed
    <2>2. t.began - t.seen.check_in_at >= Window[t.method]
      BY <1>1, <1>2, <1>6, <2>1
    <2>3. t.began - t.seen.check_in_at >= MinWindow
      BY <1>1, <1>2, <1>6, <1>7, <2>2
    <2>4. row.check_in_at = t.seen.check_in_at
      BY <1>4, <2>1, <2>3 DEF Settled, row
    <2>5. row.check_out_at # None => t.began <= row.check_out_at + MaxTxn
      BY <1>4, <2>1 DEF Late, row
    <2>6. row.check_out_at <= clock
      BY <1>5 DEF Sightings
    <2> QED
      BY <1>1, <1>2, <1>3, <1>7, <2>1, <2>2, <2>4, <2>5, <2>6
  <1> QED
    BY <1>8, <1>9 DEF t, row

\* The row a sighting commits is again one that only sightings have written.
LEMMA CommitSightings ==
    ASSUME IInv, NEW w \in Writers, txn[w].pc = "commit", Live(txn[w]),
           txn[w].day \notin edited
    PROVE  Sightings(Stored(ledger[txn[w].day], txn[w]))
  <1> DEFINE t == txn[w]
             row == ledger[t.day]
             new == Stored(row, t)
  <1>1. /\ t \in Txn /\ row \in Row /\ t.seen \in Row
        /\ t.began \in Nat /\ t.day \in Days /\ t.method \in LiveMethods
    BY DEF IInv, TypeOK, Txn, Live, Time
  <1>2. /\ row.check_in_at \in Int /\ row.check_out_at \in Int
    BY <1>1 DEF Row, Stamp, Time
  <1>3. clock \in Nat /\ t.began <= clock
    BY DEF IInv, TypeOK, TxnInv, InTime, Running, Time
  <1>4. Late(t)
    BY DEF IInv, TxnInv, Decided
  <1>5. Sightings(row)
    BY <1>1 DEF IInv, RowInv
  <1>6. /\ ChecksIn(t) => row.check_out_at = None
        /\ ChecksOut(t) => /\ row.check_in_at # None
                           /\ t.began - row.check_in_at >= Window[t.method]
    BY CommitDecision
  <1>7. /\ new.check_in_at = IF ChecksIn(t) THEN t.began ELSE row.check_in_at
        /\ new.check_out_at = IF ChecksOut(t) THEN t.began ELSE row.check_out_at
        /\ new.check_out_method =
              IF ChecksOut(t) /\ t.seen.check_out_method # t.method
              THEN t.method ELSE row.check_out_method
    BY <1>1, StoredStamps
  <1>8. ~(ChecksIn(t) /\ ChecksOut(t))
    BY DEF ChecksIn, ChecksOut
  <1>9. ChecksOut(t) => t.seen.check_out_method # t.method
    BY <1>1, <1>4 DEF ChecksOut, Late, LiveMethods
  <1>10. t.began # None
    BY <1>1
  <1> HIDE DEF t, row, new
  <1>11. ASSUME ChecksIn(t) PROVE Sightings(new)
    BY <1>1, <1>2, <1>3, <1>5, <1>6, <1>7, <1>8, <1>11 DEF Sightings
  <1>12. ASSUME ChecksOut(t) PROVE Sightings(new)
    BY <1>1, <1>2, <1>3, <1>5, <1>6, <1>7, <1>8, <1>9, <1>10, <1>12 DEF Sightings
  <1>13. ASSUME ~ChecksIn(t) /\ ~ChecksOut(t) PROVE Sightings(new)
    BY <1>5, <1>7, <1>13 DEF Sightings
  <1> QED
    BY <1>11, <1>12, <1>13 DEF new, row, t

-----------------------------------------------------------------------------
(* The invariant is inductive *)

LEMMA InitIInv == Init => IInv
  <1> SUFFICES ASSUME Init PROVE IInv
    OBVIOUS
  <1>1. TypeOK
    BY InitTypeOK
  <1>2. ASSUME NEW d \in Days PROVE RowInv(d)
    <2>1. ledger[d] = NoRow /\ clock = 0
      BY DEF Init
    <2> QED
      BY <2>1 DEF RowInv, Sightings, NoRow
  <1>3. ASSUME NEW w \in Writers PROVE TxnInv(txn[w])
    BY DEF Init, NoTxn, TxnInv, InTime, Running, Decided
  <1> QED
    BY <1>1, <1>2, <1>3 DEF IInv

\* A step that changes one transaction and nothing the others can see.
LEMMA OwnStep ==
    ASSUME IInv, TypeOK', NEW w \in Writers, NEW t,
           UNCHANGED <<clock, ledger, edited>>,
           txn' = [txn EXCEPT ![w] = t],
           TxnInv(t)
    PROVE  IInv'
  <1>1. ASSUME NEW d \in Days PROVE RowInv(d)'
    BY DEF IInv, RowInv, Sightings
  <1>2. TxnInv(t)'
    BY DEF TxnInv, InTime, Late, Settled
  <1>3. ASSUME NEW v \in Writers PROVE TxnInv(txn[v])'
    <2>1. CASE v = w
      <3>1. txn'[v] = t
        BY <2>1 DEF IInv, TypeOK
      <3> QED
        BY <1>2, <3>1 DEF TxnInv, InTime, Late, Settled
    <2>2. CASE v # w
      <3>1. txn'[v] = txn[v] /\ TxnInv(txn[v])
        BY <2>2 DEF IInv, TypeOK
      <3> QED
        BY <3>1 DEF TxnInv, InTime, Late, Settled
    <2> QED
      BY <2>1, <2>2
  <1> QED
    BY <1>1, <1>3 DEF IInv

LEMMA RestInv ==
    ASSUME NEW step \in {"idle", "unarm"}
    PROVE  TxnInv([NoTxn EXCEPT !.pc = step])
  BY DEF NoTxn, TxnInv, InTime, Running, Decided

\* Moving on without reading or writing the row keeps what was known of it.
LEMMA GotoInv ==
    ASSUME NEW t \in Txn, TxnInv(t), Running(t), NEW step \in PCs,
           step = "insert" => t.pc = "insert",
           step \in {"apply", "arm", "commit"} => Decided(t)
    PROVE  TxnInv([t EXCEPT !.pc = step])
  BY DEF TxnInv, InTime, Running, Decided, Late, Settled, Live, Txn

LEMMA TickIInv == IInv /\ Tick => IInv'
  <1> SUFFICES ASSUME IInv, Tick PROVE IInv'
    OBVIOUS
  <1>1. TypeOK'
    BY StepTypeOK DEF Next, IInv
  <1>2. /\ clock \in Nat /\ clock' = clock + 1 /\ MaxTxn \in Nat
        /\ UNCHANGED <<ledger, txn, edited>>
    BY TimeAssumption DEF Tick, IInv, TypeOK, Time
  <1>3. ASSUME NEW d \in Days PROVE RowInv(d)'
    <2>1. ledger[d].check_in_at \in Int /\ ledger[d].check_out_at \in Int
      BY DEF IInv, TypeOK, Row, Stamp, Time
    <2> QED
      BY <1>2, <2>1 DEF IInv, RowInv, Sightings
  <1>4. ASSUME NEW w \in Writers PROVE TxnInv(txn[w])'
    <2>1. txn[w].began \in Nat
      BY DEF IInv, TypeOK, Txn, Time
    <2>2. TxnInv(txn[w])
      BY DEF IInv
    <2>3. Running(txn[w]) => clock < txn[w].began + MaxTxn
      BY DEF Tick, Running
    <2>4. InTime(txn[w])'
      BY <1>2, <2>1, <2>2, <2>3 DEF InTime, Running, TxnInv
    <2> QED
      BY <1>2, <2>2, <2>4 DEF TxnInv, Late, Settled
  <1> QED
    BY <1>1, <1>3, <1>4 DEF IInv

LEMMA CommitIInv ==
    ASSUME IInv, TypeOK', NEW w \in Writers, Commit(w)
    PROVE  IInv'
  <1> DEFINE t == txn[w]
             row == ledger[t.day]
             new == Stored(row, t)
  <1>1. /\ t \in Txn /\ t.day \in Days /\ row \in Row /\ t.pc = "commit"
        /\ t.began \in Nat /\ t.seen \in Row
    BY DEF IInv, TypeOK, Txn, Commit, Time
  <1>2. /\ ledger' = [ledger EXCEPT ![t.day] = new]
        /\ edited' = IF Live(t) THEN edited ELSE edited \cup {t.day}
        /\ txn' = [txn EXCEPT ![w] = [NoTxn EXCEPT !.pc = "idle"]]
        /\ clock' = clock
    BY DEF Commit, Rest, Live
  <1>3. /\ clock \in Nat /\ MaxTxn \in Nat
        /\ t.began <= clock /\ clock <= t.began + MaxTxn
    BY TimeAssumption DEF IInv, TypeOK, TxnInv, InTime, Running, Commit, Time
  <1>4. ASSUME NEW d \in Days PROVE RowInv(d)'
    <2>1. CASE d # t.day
      <3>1. ledger'[d] = ledger[d]
        BY <1>1, <1>2, <2>1 DEF IInv, TypeOK
      <3>2. RowInv(d) /\ (d \notin edited' => d \notin edited)
        BY <1>2 DEF IInv
      <3> QED
        BY <1>2, <3>1, <3>2 DEF RowInv, Sightings
    <2>2. CASE d = t.day
      <3>1. ledger'[d] = new
        BY <1>1, <1>2, <2>2 DEF IInv, TypeOK
      <3>2. new.exists
        BY DEF Stored
      <3>3. d \notin edited' => Live(t) /\ d \notin edited
        BY <1>2, <2>2
      <3>4. d \notin edited' => Sightings(new)
        BY <1>1, <2>2, <3>3, CommitSightings
      <3> QED
        BY <1>2, <3>1, <3>2, <3>4 DEF RowInv, Sightings
    <2> QED
      BY <2>1, <2>2
  <1>5. ASSUME NEW v \in Writers PROVE TxnInv(txn[v])'
    <2>1. CASE v = w
      <3>1. txn'[v] = [NoTxn EXCEPT !.pc = "idle"]
        BY <1>2, <2>1 DEF IInv, TypeOK
      <3> QED
        BY <3>1 DEF NoTxn, TxnInv, InTime, Running, Decided
    <2>2. CASE v # w
      <3> DEFINE u == txn[v]
      <3>1. txn'[v] = u /\ TxnInv(u) /\ u \in Txn
        BY <1>2, <2>2 DEF IInv, TypeOK
      <3>2. CASE u.day # t.day \/ ~Live(u) \/ ~Decided(u) \/ u.day \in edited'
        <4>1. u.day \notin edited' => u.day \notin edited
          BY <1>2
        <4>2. InTime(u)' /\ (u.pc = "insert" => u.seen = NoRow)
          BY <1>2, <3>1 DEF TxnInv, InTime
        <4>3. CASE u.day # t.day
          <5>1. ledger'[u.day] = ledger[u.day]
            BY <1>1, <1>2, <3>1, <4>3 DEF IInv, TypeOK, Txn
          <5>2. Live(u) /\ Decided(u) /\ u.day \notin edited'
                => (Late(u) /\ Settled(u))'
            BY <3>1, <4>1, <5>1 DEF TxnInv, Late, Settled
          <5> QED
            BY <3>1, <4>2, <5>2 DEF TxnInv
        <4> QED
          BY <3>1, <3>2, <4>2, <4>3 DEF TxnInv
      <3>3. CASE u.day = t.day /\ Live(u) /\ Decided(u) /\ u.day \notin edited'
        <4>1. Live(t) /\ t.day \notin edited /\ Late(u) /\ Settled(u)
          BY <1>2, <3>1, <3>3 DEF TxnInv
        <4>2. ledger'[u.day] = new
          BY <1>1, <1>2, <3>3 DEF IInv, TypeOK
        <4>3. /\ new.check_in_at = IF ChecksIn(t) THEN t.began ELSE row.check_in_at
              /\ new.check_out_at =
                    IF ChecksOut(t) THEN t.began ELSE row.check_out_at
          BY <1>1, <4>1, StoredStamps
        <4>4. u.began \in Nat /\ u.began <= clock
          BY <3>1, <3>3 DEF TxnInv, InTime, Running, Decided, Txn, Time
        <4>5. Late(u)'
          <5>1. u.began <= t.began + MaxTxn
            BY <1>1, <1>3, <4>4
          <5> QED
            BY <3>1, <3>3, <4>1, <4>2, <4>3, <5>1 DEF Late
        <4>6. Settled(u)'
          <5>1. /\ row.check_in_at \in Int /\ u.seen.check_in_at \in Int
                /\ t.began \in Nat
            BY <1>1, <3>1 DEF Txn, Row, Stamp, Time
          <5>2. ChecksIn(t) /\ row.check_in_at # None
                => row.check_in_at - t.began <= MaxTxn
                   /\ t.began - row.check_in_at <= MaxTxn
            BY <1>1, <4>1, CommitDecision
          <5>3. MinWindow \in Nat /\ 2 * MaxTxn < MinWindow
            BY WindowAssumption, ShortTransactions
          <5>4. SUFFICES ASSUME u.seen.check_in_at # None,
                                u.began - u.seen.check_in_at >= MinWindow
                         PROVE  new.check_in_at = u.seen.check_in_at
            BY <3>1, <4>2 DEF Settled
          <5>5. row.check_in_at = u.seen.check_in_at
            BY <3>3, <4>1, <5>4 DEF Settled
          <5>6. ~ChecksIn(t)
            BY <1>3, <4>4, <5>1, <5>2, <5>3, <5>4, <5>5
          <5> QED
            BY <4>3, <5>5, <5>6
        <4> QED
          BY <1>2, <3>1, <4>5, <4>6 DEF TxnInv, InTime
      <3> QED
        BY <3>2, <3>3
    <2> QED
      BY <2>1, <2>2
  <1> QED
    BY <1>4, <1>5 DEF IInv

LEMMA WriterIInv ==
    ASSUME IInv, TypeOK', NEW w \in Writers, Step(w)
    PROVE  IInv'
  <1> DEFINE t == txn[w]
  <1>1. /\ txn \in [Writers -> Txn] /\ t \in Txn /\ TxnInv(t)
        /\ clock \in Nat /\ MaxTxn \in Nat
    BY TimeAssumption DEF IInv, TypeOK, Time
  <1>2. ASSUME NEW s \in Serves[w], Sight(w, s[1], s[2]) PROVE IInv'
    <2> DEFINE new == [pc |-> IF s[2] = "check_out" THEN "exit" ELSE "marker",
                       method |-> s[1], intent |-> s[2], began |-> clock,
                       day |-> WorkDay[clock], dup |-> FALSE, seen |-> NoRow,
                       enter |-> NoEntry]
    <2>1. TxnInv(new)
      BY <1>1 DEF TxnInv, InTime, Decided
    <2>2. /\ txn' = [txn EXCEPT ![w] = new]
          /\ UNCHANGED <<clock, ledger, edited>>
      BY <1>2 DEF Sight
    <2> QED
      BY <2>1, <2>2, OwnStep
  <1>3. ASSUME NEW e \in Edits, Enter(w, e) PROVE IInv'
    <2> DEFINE new == [pc |-> "fetch", method |-> "manual", intent |-> "toggle",
                       began |-> clock, day |-> e.day, dup |-> FALSE, seen |-> NoRow,
                       enter |-> [check_in_at |-> e.check_in_at,
                                  check_out_at |-> e.check_out_at]]
    <2>1. TxnInv(new)
      BY <1>1 DEF TxnInv, InTime, Decided
    <2>2. /\ txn' = [txn EXCEPT ![w] = new]
          /\ UNCHANGED <<clock, ledger, edited>>
      BY <1>3 DEF Enter
    <2> QED
      BY <2>1, <2>2, OwnStep
  <1>4. ASSUME NEW step \in {"idle", "unarm"}, Rest(w, step),
               UNCHANGED <<clock, ledger, edited>>
        PROVE  IInv'
    BY <1>4, RestInv, OwnStep DEF Rest
  <1>5. ASSUME NEW step \in PCs, Goto(w, step), Running(t),
               UNCHANGED <<clock, ledger, edited>>,
               step = "insert" => t.pc = "insert",
               step \in {"apply", "arm", "commit"} => Decided(t)
        PROVE  IInv'
    <2>1. TxnInv([t EXCEPT !.pc = step])
      BY <1>1, <1>5, GotoInv
    <2>2. txn' = [txn EXCEPT ![w] = [t EXCEPT !.pc = step]]
      BY <1>1, <1>5 DEF Goto
    <2> QED
      BY <1>5, <2>1, <2>2, OwnStep
  <1>6. CASE LookForDay(w)
    <2>1. CASE ledger[t.day].exists
      BY <1>5, <1>6, <2>1 DEF LookForDay, Running, PCs
    <2>2. CASE ~ledger[t.day].exists
      BY <1>4, <1>6, <2>2 DEF LookForDay
    <2> QED
      BY <2>1, <2>2
  <1>7. CASE ReadMarker(w)
    <2>1. PICK s \in StoresOf(w) :
            txn' = [txn EXCEPT ![w] = [@ EXCEPT !.pc = "fetch",
                                                !.dup = Armed(s, t.method)]]
      BY <1>7 DEF ReadMarker
    <2>2. TxnInv([t EXCEPT !.pc = "fetch", !.dup = Armed(s, t.method)])
      BY <1>1, <1>7 DEF ReadMarker, TxnInv, InTime, Running, Decided, Txn
    <2> QED
      BY <1>1, <1>7, <2>1, <2>2, OwnStep DEF ReadMarker
  <1>8. CASE Fetch(w)
    <2> DEFINE row == ledger[t.day]
               new == [t EXCEPT !.pc = IF row.exists THEN "apply" ELSE "insert",
                                !.seen = row]
    <2>1. t.day \in Days /\ RowInv(t.day) /\ t.began \in Nat /\ row \in Row
      BY <1>1 DEF IInv, TypeOK, Txn, Time
    <2>2. /\ new.seen = row /\ new.day = t.day /\ new.began = t.began
          /\ new.method = t.method
          /\ new.pc = IF row.exists THEN "apply" ELSE "insert"
      BY <1>1 DEF Txn
    <2>3. InTime(new)
      BY <1>1, <1>8, <2>2 DEF Fetch, TxnInv, InTime, Running
    <2>4. new.pc = "insert" => new.seen = NoRow
      BY <2>1, <2>2 DEF RowInv
    <2>5. t.day \notin edited => Late(new) /\ Settled(new)
      BY <2>1, <2>2 DEF Late, Settled, RowInv, Sightings
    <2>6. TxnInv(new)
      BY <2>2, <2>3, <2>4, <2>5 DEF TxnInv
    <2>7. txn' = [txn EXCEPT ![w] = new] /\ UNCHANGED <<clock, ledger, edited>>
      BY <1>8 DEF Fetch
    <2> QED
      BY <2>6, <2>7, OwnStep
  <1>9. CASE Insert(w)
    <2>1. CASE ledger[t.day].exists
      BY <1>5, <1>9, <2>1 DEF Insert, Running, PCs
    <2>2. CASE ~ledger[t.day].exists
      <3> DEFINE new == [t EXCEPT !.pc = "apply"]
      <3>1. t.day \in Days /\ RowInv(t.day)
        BY <1>1 DEF IInv, Txn
      <3>2. ledger[t.day] = NoRow /\ t.seen = NoRow
        BY <1>1, <1>9, <2>2, <3>1 DEF RowInv, TxnInv, Insert
      <3>3. /\ new.seen = NoRow /\ new.day = t.day /\ new.began = t.began
            /\ new.method = t.method /\ new.pc = "apply"
        BY <1>1, <3>2 DEF Txn
      <3>4. InTime(new)
        BY <1>1, <1>9, <3>3 DEF Insert, TxnInv, InTime, Running
      <3>5. Late(new) /\ Settled(new)
        BY <3>2, <3>3 DEF Late, Settled, NoRow
      <3>6. TxnInv(new)
        BY <3>3, <3>4, <3>5 DEF TxnInv
      <3>7. txn' = [txn EXCEPT ![w] = new] /\ UNCHANGED <<clock, ledger, edited>>
        BY <1>1, <1>9, <2>2 DEF Insert, Goto
      <3> QED
        BY <3>6, <3>7, OwnStep
    <2> QED
      BY <2>1, <2>2
  <1>10. CASE Flush(w)
    <2>1. CASE ChecksIn(t) \/ ChecksOut(t)
      BY <1>5, <1>10, <2>1 DEF Flush, Running, Decided, PCs
    <2>2. CASE ~(ChecksIn(t) \/ ChecksOut(t))
      BY <1>5, <1>10, <2>2 DEF Flush, Running, Decided, PCs
    <2> QED
      BY <2>1, <2>2
  <1>11. CASE Arm(w)
    BY <1>5, <1>11 DEF Arm, Running, Decided, PCs
  <1>12. CASE Commit(w)
    BY <1>12, CommitIInv
  <1>13. CASE Fail(w)
    BY <1>4, <1>13 DEF Fail
  <1>14. CASE Unarm(w)
    BY <1>4, <1>14 DEF Unarm
  <1> QED
    BY <1>2, <1>3, <1>6, <1>7, <1>8, <1>9, <1>10, <1>11, <1>12, <1>13, <1>14 DEF Step

LEMMA StepIInv == IInv /\ [Next]_vars => IInv'
  <1> SUFFICES ASSUME IInv, [Next]_vars PROVE IInv'
    OBVIOUS
  <1>1. TypeOK'
    BY StepTypeOK DEF IInv
  <1>2. CASE Tick
    BY <1>2, TickIInv
  <1>3. ASSUME NEW w \in Writers, Step(w) PROVE IInv'
    BY <1>1, <1>3, WriterIInv
  <1>4. ASSUME NEW p \in Processes, Restart(p) PROVE IInv'
    <2>1. /\ UNCHANGED <<clock, ledger, edited>>
          /\ \A w \in Writers : txn'[w] = txn[w] \/ txn'[w] = NoTxn
      BY <1>4 DEF Restart
    <2>2. ASSUME NEW d \in Days PROVE RowInv(d)'
      BY <2>1 DEF IInv, RowInv, Sightings
    <2>3. ASSUME NEW w \in Writers PROVE TxnInv(txn[w])'
      <3>1. CASE txn'[w] = txn[w]
        BY <2>1, <3>1 DEF IInv, TxnInv, InTime, Late, Settled
      <3>2. CASE txn'[w] = NoTxn
        BY <3>2 DEF NoTxn, TxnInv, InTime, Running, Decided
      <3> QED
        BY <2>1, <3>1, <3>2
    <2> QED
      BY <1>1, <2>2, <2>3 DEF IInv
  <1>5. CASE UNCHANGED vars
    <2>1. UNCHANGED <<clock, ledger, txn, edited>>
      BY <1>5 DEF vars
    <2> QED
      BY <1>1, <2>1
      DEF IInv, RowInv, Sightings, TxnInv, InTime, Late, Settled
  <1> QED
    BY <1>2, <1>3, <1>4, <1>5 DEF Next

\* What a row, and a transaction at each of its steps, owes to the window holds in every
\* state (process_recognition, process_rfid_tap, from the unlocked read to the commit).
THEOREM Inductive == Spec => []IInv
  BY InitIInv, StepIInv, PTL DEF Spec

-----------------------------------------------------------------------------
(* What follows *)

\* Two sightings of one arrival never become a check-in and a check-out: a day
\* that only sightings have written is closed by a check-out at least a window
\* after its check-in, although every decision rests on an unlocked read.
THEOREM ClosedDays == Spec => []ClosedDaysSpanWindow
  <1>1. IInv => ClosedDaysSpanWindow
    BY DEF IInv, RowInv, Sightings, ClosedDaysSpanWindow
  <1> QED
    BY <1>1, Inductive, PTL

LEMMA CommitImplementsDay ==
    ASSUME IInv, NEW w \in Writers, Commit(w)
    PROVE  Day!Next \/ UNCHANGED Day!vars
  <1> DEFINE t == txn[w]
             d == t.day
             row == ledger[d]
             new == Stored(row, t)
             in == [e \in Days |-> ledger[e].check_in_at]
             out == [e \in Days |-> ledger[e].check_out_at]
  <1>1. /\ t \in Txn /\ d \in Days /\ row \in Row /\ new \in Row
        /\ t.pc = "commit" /\ t.began \in Time
    BY StoredType DEF IInv, TypeOK, Txn, Commit
  <1>2. /\ ledger' = [ledger EXCEPT ![d] = new]
        /\ edited' = IF Live(t) THEN edited ELSE edited \cup {d}
    BY DEF Commit, Live
  <1>3. /\ in' = [in EXCEPT ![d] = new.check_in_at]
        /\ out' = [out EXCEPT ![d] = new.check_out_at]
    BY <1>1, <1>2 DEF IInv, TypeOK
  <1>4. CASE ~Live(t) \/ d \in edited
    <2>1. edited' = edited \cup {d}
      BY <1>2, <1>4
    <2>2. new.check_in_at \in Time \cup {None} /\ new.check_out_at \in Time \cup {None}
      BY <1>1 DEF Row, Stamp
    <2>3. PICK e \in Days, i \in Time \cup {None}, o \in Time \cup {None} :
               e = d /\ i = new.check_in_at /\ o = new.check_out_at
      BY <1>1, <2>2
    <2>4. Day!Edit(e, i, o)
      BY <1>3, <2>1, <2>3 DEF Day!Edit
    <2> QED
      BY <2>4 DEF Day!Next, Day!None, None
  <1>5. CASE Live(t) /\ d \notin edited
    <2>1. /\ new.check_in_at = IF ChecksIn(t) THEN t.began ELSE row.check_in_at
          /\ new.check_out_at = IF ChecksOut(t) THEN t.began ELSE row.check_out_at
          /\ edited' = edited
      BY <1>1, <1>2, <1>5, StoredStamps
    <2>2. in[d] = row.check_in_at /\ out[d] = row.check_out_at
      BY <1>1
    <2>3. ~(ChecksIn(t) /\ ChecksOut(t))
      BY DEF ChecksIn, ChecksOut
    <2>4. /\ in = [in EXCEPT ![d] = row.check_in_at]
          /\ out = [out EXCEPT ![d] = row.check_out_at]
      BY <1>1
    <2>5. CASE ChecksIn(t)
      <3>1. /\ row.check_out_at = None
            /\ row.check_in_at # None =>
                  /\ t.began - row.check_in_at <= MaxTxn
                  /\ row.check_in_at - t.began <= MaxTxn
        BY <1>1, <1>5, <2>5, CommitDecision
      <3>2. in' = [in EXCEPT ![d] = t.began] /\ out' = out
        BY <1>3, <2>1, <2>3, <2>4, <2>5
      <3>3. PICK e \in Days, at \in Time : e = d /\ at = t.began
        BY <1>1
      <3>4. Day!CheckIn(e, at)
        BY <1>5, <2>1, <2>2, <3>1, <3>2, <3>3 DEF Day!CheckIn, Day!Near, Day!None
      <3> QED
        BY <3>4 DEF Day!Next
    <2>6. CASE ChecksOut(t)
      <3>1. /\ row.check_in_at # None
            /\ t.began - row.check_in_at >= Window[t.method]
            /\ row.check_out_at # None =>
                  /\ t.began - row.check_out_at <= MaxTxn
                  /\ row.check_out_at - t.began <= MaxTxn
        BY <1>1, <1>5, <2>6, CommitDecision
      <3>2. t.began - row.check_in_at >= MinWindow
        <4>1. /\ t.method \in LiveMethods /\ t.began \in Int
              /\ row.check_in_at \in Int
          BY <1>1, <1>5 DEF Txn, Live, Row, Stamp, Time
        <4> QED
          BY <3>1, <4>1, WindowAssumption
      <3>3. out' = [out EXCEPT ![d] = t.began] /\ in' = in
        BY <1>3, <2>1, <2>3, <2>4, <2>6
      <3>4. PICK e \in Days, at \in Time : e = d /\ at = t.began
        BY <1>1
      <3>5. Day!CheckOut(e, at)
        BY <1>5, <2>1, <2>2, <3>1, <3>2, <3>3, <3>4
        DEF Day!CheckOut, Day!Near, Day!None
      <3> QED
        BY <3>5 DEF Day!Next
    <2>7. CASE ~ChecksIn(t) /\ ~ChecksOut(t)
      <3>1. in' = in /\ out' = out /\ edited' = edited
        BY <1>3, <2>1, <2>4, <2>7
      <3> QED
        BY <3>1 DEF Day!vars
    <2> QED
      BY <2>5, <2>6, <2>7
  <1> QED
    BY <1>4, <1>5

\* The detailed ledger implements AttendanceDay: reads, locks, markers, failures
\* and restarts are stutters, and a commit is a check-in, a check-out, an edit or
\* a stutter of the day.
THEOREM Implements == Spec => ImplementsDay
  <1>1. Init => Day!Init
    BY DEF Init, NoRow, Day!Init, Day!None
  <1>2. IInv /\ [Next]_vars => [Day!Next]_(Day!vars)
    <2> SUFFICES ASSUME IInv, [Next]_vars
                 PROVE  Day!Next \/ UNCHANGED Day!vars
      OBVIOUS
    <2>1. ASSUME UNCHANGED <<ledger, edited>> PROVE UNCHANGED Day!vars
      BY <2>1 DEF Day!vars
    <2>2. CASE Tick
      BY <2>1, <2>2 DEF Tick
    <2>3. ASSUME NEW w \in Writers, Step(w)
          PROVE  Day!Next \/ UNCHANGED Day!vars
      <3>1. CASE Commit(w)
        BY <3>1, CommitImplementsDay
      <3>2. CASE UNCHANGED <<ledger, edited>>
        BY <2>1, <3>2
      <3> QED
        BY <2>3, <3>1, <3>2
        DEF Step, Sight, Enter, LookForDay, ReadMarker, Fetch, Insert, Flush, Arm,
            Fail, Unarm
    <2>4. ASSUME NEW p \in Processes, Restart(p) PROVE UNCHANGED Day!vars
      BY <2>1, <2>4 DEF Restart
    <2>5. CASE UNCHANGED vars
      BY <2>1, <2>5 DEF vars
    <2> QED
      BY <2>2, <2>3, <2>4, <2>5 DEF Next
  <1> QED
    BY <1>1, <1>2, Inductive, PTL DEF Spec, ImplementsDay, Day!Spec
-----------------------------------------------------------------------------
(* The columns of a row *)

\* A day without a check-in is absent, an open one has the status of its check-in,
\* and no time is worked before the check-out.
OpenAgrees(row) ==
    /\ row.check_in_at = None => row.status = "absent"
    /\ row.check_out_at = None => row.worked_minutes = 0
    /\ row.check_in_at # None /\ row.check_out_at = None
         => row.status = ResolveStatus(row.check_in_at)

\* An instant at which a check-out that was under way at c may have begun.
UnderWay(row, c, b) ==
    c - MaxTxn <= b /\ b <= c /\ b - row.check_in_at >= MinWindow

\* What a check-out that begins at b makes of a day without a check-out.
StatusOut(row, b) ==
    ResolveCheckoutStatus(CalcWorked(row.check_in_at, b), ResolveStatus(row.check_in_at))

\* The columns of a closed row are of check-outs that were under way at c.
ClosedRow(row, c) ==
    /\ c - MaxTxn <= row.check_out_at /\ row.check_out_at <= c
    /\ \E b \in Time : UnderWay(row, c, b) /\ row.worked_minutes = CalcWorked(row.check_in_at, b)
    /\ \E b \in Time : UnderWay(row, c, b) /\ row.status = StatusOut(row, b)

\* The first check-out was committed at c: whoever still believes the day is open
\* was under way by then.
ClosedAt(d, c) ==
    /\ c <= clock
    /\ ClosedRow(ledger[d], c)
    /\ \A w \in Writers :
          Decided(txn[w]) /\ Live(txn[w]) /\ txn[w].day = d /\ txn[w].seen.check_out_at = None
          => txn[w].began <= c

ClosedAgrees(d) == ledger[d].check_out_at # None => \E c \in Time : ClosedAt(d, c)

\* What a sighting decides on is a row whose columns agree.
SeenAgrees(t) == Live(t) /\ Decided(t) /\ t.day \notin edited => OpenAgrees(t.seen)

ColumnsIInv ==
    /\ IInv
    /\ \A d \in Days \ edited : OpenAgrees(ledger[d]) /\ ClosedAgrees(d)
    /\ \A w \in Writers : SeenAgrees(txn[w])

\* A sighting writes the worked time and the status it computed only where they
\* differ from what it read.
LEMMA StoredColumns ==
    ASSUME NEW row \in Row, NEW t \in Txn, Live(t)
    PROVE  LET worked == CalcWorked(t.seen.check_in_at, t.began)
               status == IF ChecksIn(t) THEN ResolveStatus(t.began)
                         ELSE IF ChecksOut(t) THEN ResolveCheckoutStatus(worked, t.seen.status)
                         ELSE t.seen.status
           IN  /\ Stored(row, t).worked_minutes =
                     IF ChecksOut(t) /\ worked # t.seen.worked_minutes
                     THEN worked ELSE row.worked_minutes
               /\ Stored(row, t).status =
                     IF status = t.seen.status THEN row.status ELSE status
  <1> DEFINE worked == CalcWorked(t.seen.check_in_at, t.began)
             outStatus == ResolveCheckoutStatus(worked, t.seen.status)
  <1>1. t.seen \in Row
    BY DEF Txn
  <1>2. ~(ChecksIn(t) /\ ChecksOut(t))
    BY DEF ChecksIn, ChecksOut
  <1>3. CASE ChecksIn(t)
    <2>1. Image(t) = [t.seen EXCEPT !.check_in_at = t.began, !.status = ResolveStatus(t.began)]
      BY <1>3 DEF Image, Live, ApplyCheckIn
    <2>2. /\ Image(t).worked_minutes = t.seen.worked_minutes
          /\ Image(t).status = ResolveStatus(t.began)
      BY <1>1, <2>1 DEF Row
    <2> QED
      BY <1>2, <1>3, <2>2 DEF Stored, Column
  <1>4. CASE ChecksOut(t)
    <2>1. Image(t) = [t.seen EXCEPT !.check_out_at = t.began, !.check_out_method = t.method,
                                    !.worked_minutes = worked, !.status = outStatus]
      BY <1>2, <1>4 DEF Image, Live, ApplyCheckOut
    <2> HIDE DEF worked, outStatus
    <2>2. Image(t).worked_minutes = worked /\ Image(t).status = outStatus
      BY <1>1, <2>1 DEF Row
    <2>3. /\ Stored(row, t).worked_minutes =
                IF worked = t.seen.worked_minutes THEN row.worked_minutes ELSE worked
          /\ Stored(row, t).status =
                IF outStatus = t.seen.status THEN row.status ELSE outStatus
      BY <2>2 DEF Stored, Column
    <2> QED
      BY <1>2, <1>4, <2>3 DEF worked, outStatus
  <1>5. CASE ~ChecksIn(t) /\ ~ChecksOut(t)
    <2>1. Image(t) = t.seen
      BY <1>5 DEF Image, Live
    <2> QED
      BY <1>5, <2>1 DEF Stored, Column
  <1> QED
    BY <1>3, <1>4, <1>5

\* A check-out rests on the check-in that is stored when it commits.
LEMMA CheckOutRests ==
    ASSUME IInv, NEW w \in Writers, txn[w].pc = "commit", Live(txn[w]),
           txn[w].day \notin edited, ChecksOut(txn[w])
    PROVE  LET t == txn[w]
               row == ledger[txn[w].day]
           IN  /\ row.check_in_at = t.seen.check_in_at
               /\ t.began - row.check_in_at >= MinWindow
  <1> DEFINE t == txn[w]
  <1>1. /\ t \in Txn /\ t.began \in Nat /\ t.method \in LiveMethods /\ t.seen \in Row
    BY DEF IInv, TypeOK, Txn, Live, Time
  <1>2. t.seen.check_in_at \in Int
    BY <1>1 DEF Row, Stamp, Time
  <1>3. Settled(t)
    BY DEF IInv, TxnInv, Decided
  <1>4. t.seen.check_in_at # None /\ ~(t.began - t.seen.check_in_at < Window[t.method])
    BY DEF ChecksOut, Suppressed
  <1>5. Window[t.method] \in Nat /\ MinWindow \in Nat /\ MinWindow <= Window[t.method]
    BY <1>1, WindowAssumption
  <1> HIDE DEF t
  <1>6. t.began - t.seen.check_in_at >= MinWindow
    BY <1>1, <1>2, <1>4, <1>5
  <1>7. ledger[t.day].check_in_at = t.seen.check_in_at
    BY <1>3, <1>4, <1>6 DEF Settled
  <1> QED
    BY <1>6, <1>7 DEF t

\* What a check-out makes of the worked time and the status is what StatusOut says,
\* or what was there.
LEMMA CheckOutColumns ==
    ASSUME ColumnsIInv, NEW w \in Writers, txn[w].pc = "commit", Live(txn[w]),
           txn[w].day \notin edited, ChecksOut(txn[w])
    PROVE  LET t == txn[w]
               row == ledger[txn[w].day]
               new == Stored(row, t)
           IN  /\ \/ new.worked_minutes = CalcWorked(row.check_in_at, t.began)
                  \/ row.check_out_at # None /\ new.worked_minutes = row.worked_minutes
               /\ \/ new.status = StatusOut(row, t.began)
                  \/ row.check_out_at # None /\ new.status = row.status
  <1> DEFINE t == txn[w]
             row == ledger[t.day]
             new == Stored(row, t)
             worked == CalcWorked(row.check_in_at, t.began)
             status == ResolveCheckoutStatus(worked, t.seen.status)
  <1>1. t \in Txn /\ row \in Row /\ t.day \in Days \ edited /\ IInv
    BY DEF ColumnsIInv, IInv, TypeOK, Txn
  <1>2. OpenAgrees(row) /\ OpenAgrees(t.seen)
    BY <1>1 DEF ColumnsIInv, SeenAgrees, Decided
  <1>3. row.check_in_at = t.seen.check_in_at
    BY <1>1, CheckOutRests
  <1>4. t.seen.check_in_at # None /\ t.seen.check_out_at = None
    BY DEF ChecksOut
  <1>5. t.seen.worked_minutes = 0 /\ t.seen.status = ResolveStatus(row.check_in_at)
    BY <1>2, <1>3, <1>4 DEF OpenAgrees
  <1>6. row.check_out_at = None => /\ row.worked_minutes = 0
                                   /\ row.status = ResolveStatus(row.check_in_at)
    BY <1>2, <1>3, <1>4 DEF OpenAgrees
  <1>7. ~ChecksIn(t)
    BY <1>4 DEF ChecksIn
  <1>8. /\ new.worked_minutes = IF worked # t.seen.worked_minutes
                                THEN worked ELSE row.worked_minutes
        /\ new.status = IF status = t.seen.status THEN row.status ELSE status
    BY <1>1, <1>3, <1>7, StoredColumns
  <1>9. status = StatusOut(row, t.began)
    BY <1>5 DEF StatusOut
  <1> HIDE DEF new, row, worked, status
  <1>10. \/ new.worked_minutes = worked
         \/ row.check_out_at # None /\ new.worked_minutes = row.worked_minutes
    BY <1>5, <1>6, <1>8
  <1>11. \/ new.status = status
         \/ row.check_out_at # None /\ new.status = row.status
    BY <1>5, <1>6, <1>8
  <1> QED
    BY <1>9, <1>10, <1>11 DEF new, row, worked, status

\* The row a sighting commits to a day that only sightings have written.
LEMMA CommitColumns ==
    ASSUME ColumnsIInv, NEW w \in Writers, txn[w].pc = "commit", Live(txn[w]),
           txn[w].day \notin edited
    PROVE  LET t == txn[w]
               new == Stored(ledger[txn[w].day], t)
           IN  /\ OpenAgrees(new)
               /\ new.check_out_at # None =>
                     \E c \in Time :
                        /\ c <= clock
                        /\ ClosedRow(new, c)
                        /\ \A v \in Writers :
                              /\ Decided(txn[v]) /\ Live(txn[v]) /\ txn[v].day = t.day
                              /\ txn[v].seen.check_out_at = None
                              => txn[v].began <= c
  <1> DEFINE t == txn[w]
             row == ledger[t.day]
             new == Stored(row, t)
             Early(c) == \A v \in Writers :
                              /\ Decided(txn[v]) /\ Live(txn[v]) /\ txn[v].day = t.day
                              /\ txn[v].seen.check_out_at = None
                              => txn[v].began <= c
  <1>1. /\ t \in Txn /\ row \in Row /\ t.day \in Days \ edited /\ IInv /\ Decided(t)
        /\ t.began \in Time /\ t.seen \in Row
    BY DEF ColumnsIInv, IInv, TypeOK, Txn, Decided
  <1>2. OpenAgrees(row) /\ OpenAgrees(t.seen) /\ ClosedAgrees(t.day)
    BY <1>1 DEF ColumnsIInv, SeenAgrees
  <1>3. /\ new.check_in_at = IF ChecksIn(t) THEN t.began ELSE row.check_in_at
        /\ new.check_out_at = IF ChecksOut(t) THEN t.began ELSE row.check_out_at
    BY <1>1, StoredStamps
  <1>4. /\ clock \in Time /\ MaxTxn \in Nat /\ t.began <= clock /\ clock <= t.began + MaxTxn
        /\ clock \in Int /\ t.began \in Int
    BY <1>1, TimeAssumption DEF IInv, TypeOK, TxnInv, InTime, Running, Time
  <1>5. ~(ChecksIn(t) /\ ChecksOut(t)) /\ t.began # None
    BY <1>1 DEF ChecksIn, ChecksOut, Time
  <1>6. Early(clock)
    BY <1>1 DEF IInv, TxnInv, InTime, Running, Decided
  <1>7. CASE ChecksIn(t)
    <2>1. row.check_out_at = None /\ t.seen.check_in_at = None
      BY <1>1, <1>7, CommitDecision DEF ChecksIn
    <2>2. row.worked_minutes = 0 /\ t.seen.status = "absent"
      BY <1>2, <2>1 DEF OpenAgrees
    <2>3. ResolveStatus(t.began) # "absent"
      BY DEF ResolveStatus
    <2>4. /\ new.worked_minutes = 0 /\ new.status = ResolveStatus(t.began)
          /\ new.check_in_at = t.began /\ new.check_out_at = None
      BY <1>1, <1>3, <1>5, <1>7, <2>1, <2>2, <2>3, StoredColumns
    <2> QED
      BY <1>5, <2>4 DEF OpenAgrees
  <1>8. CASE ChecksOut(t)
    <2>1. /\ new.check_in_at = row.check_in_at /\ new.check_out_at = t.began
          /\ row.check_in_at # None
      BY <1>1, <1>3, <1>5, <1>8, CommitDecision
    <2>2. t.began - row.check_in_at >= MinWindow
      BY <1>1, <1>8, CheckOutRests
    <2>3. /\ \/ new.worked_minutes = CalcWorked(row.check_in_at, t.began)
             \/ row.check_out_at # None /\ new.worked_minutes = row.worked_minutes
          /\ \/ new.status = StatusOut(row, t.began)
             \/ row.check_out_at # None /\ new.status = row.status
      BY <1>8, CheckOutColumns
    <2>4. \E c \in Time :
            /\ c <= clock /\ Early(c)
            /\ row.check_out_at # None => ClosedRow(row, c)
            /\ t.began <= c
      <3>1. CASE row.check_out_at = None
        BY <1>4, <1>6, <3>1
      <3>2. CASE row.check_out_at # None
        <4>1. PICK c \in Time : ClosedAt(t.day, c)
          BY <1>2, <3>2 DEF ClosedAgrees
        <4>2. t.seen.check_out_at = None
          BY <1>8 DEF ChecksOut
        <4>3. c <= clock /\ Early(c) /\ ClosedRow(row, c)
          BY <4>1 DEF ClosedAt
        <4>4. t.began <= c
          BY <1>1, <4>2, <4>3
        <4> QED
          BY <4>3, <4>4
      <3> QED
        BY <3>1, <3>2
    <2>5. PICK c \in Time :
            /\ c <= clock /\ Early(c)
            /\ row.check_out_at # None => ClosedRow(row, c)
            /\ t.began <= c
      BY <2>4
    <2> HIDE DEF new, row, Early
    <2>6. c \in Int /\ c - MaxTxn <= t.began
      BY <1>4, <2>5 DEF Time
    <2>7. UnderWay(new, c, t.began)
      BY <2>1, <2>2, <2>5, <2>6 DEF UnderWay
    <2>8. \A b : UnderWay(row, c, b) => UnderWay(new, c, b)
      BY <2>1 DEF UnderWay
    <2>9. \E b \in Time : /\ UnderWay(new, c, b)
                          /\ new.worked_minutes = CalcWorked(new.check_in_at, b)
      <3>1. CASE new.worked_minutes = CalcWorked(row.check_in_at, t.began)
        BY <1>1, <2>1, <2>7, <3>1
      <3>2. CASE row.check_out_at # None /\ new.worked_minutes = row.worked_minutes
        BY <2>1, <2>5, <2>8, <3>2 DEF ClosedRow
      <3> QED
        BY <2>3, <3>1, <3>2
    <2>10. \E b \in Time : UnderWay(new, c, b) /\ new.status = StatusOut(new, b)
      <3>1. \A b : StatusOut(new, b) = StatusOut(row, b)
        BY <2>1 DEF StatusOut
      <3>2. CASE new.status = StatusOut(row, t.began)
        BY <1>1, <2>7, <3>1, <3>2
      <3>3. CASE row.check_out_at # None /\ new.status = row.status
        BY <2>5, <2>8, <3>1, <3>3 DEF ClosedRow
      <3> QED
        BY <2>3, <3>2, <3>3
    <2>11. ClosedRow(new, c)
      BY <2>1, <2>5, <2>6, <2>9, <2>10 DEF ClosedRow
    <2>12. OpenAgrees(new)
      BY <1>5, <2>1 DEF OpenAgrees
    <2> QED
      BY <2>5, <2>11, <2>12 DEF new, row, Early
  <1>9. CASE ~ChecksIn(t) /\ ~ChecksOut(t)
    <2>1. /\ new.check_in_at = row.check_in_at /\ new.check_out_at = row.check_out_at
      BY <1>3, <1>9
    <2>2. new.worked_minutes = row.worked_minutes /\ new.status = row.status
      BY <1>1, <1>9, StoredColumns
    <2>3. row.check_out_at # None => \E c \in Time : c <= clock /\ ClosedRow(row, c) /\ Early(c)
      BY <1>2 DEF ClosedAgrees, ClosedAt
    <2> HIDE DEF new, row, Early
    <2>4. OpenAgrees(new)
      BY <1>2, <2>1, <2>2 DEF OpenAgrees
    <2>5. \A c : ClosedRow(row, c) => ClosedRow(new, c)
      BY <2>1, <2>2 DEF ClosedRow, UnderWay, StatusOut
    <2> QED
      BY <2>1, <2>3, <2>4, <2>5 DEF new, row, Early
  <1> QED
    BY <1>7, <1>8, <1>9

\* Where a transaction that has decided comes from: it had decided, or it has just
\* read the row, or inserted it, as it is.
Origin(u, t) ==
    \/ /\ Decided(t)
       /\ u.seen = t.seen /\ u.began = t.began /\ u.day = t.day /\ u.method = t.method
    \/ u.seen = ledger[u.day] /\ UNCHANGED <<ledger, edited>>

LEMMA Origins ==
    ASSUME IInv, [Next]_vars, NEW w \in Writers, Decided(txn'[w])
    PROVE  Origin(txn'[w], txn[w])
  <1> DEFINE t == txn[w]
             u == txn'[w]
  <1>1. txn \in [Writers -> Txn] /\ t \in Txn /\ TxnInv(t)
    BY DEF IInv, TypeOK
  <1>2. CASE u = t
    BY <1>2 DEF Origin
  <1>3. CASE \E step : u = [NoTxn EXCEPT !.pc = step] /\ step \in {"idle", "unarm"}
    BY <1>3 DEF Decided, NoTxn
  <1>4. CASE u.pc \notin {"apply", "arm", "commit"}
    BY <1>4 DEF Decided
  <1>5. ASSUME NEW step, Goto(w, step), Decided(t) PROVE Origin(u, t)
    <2>1. u = [t EXCEPT !.pc = step]
      BY <1>1, <1>5 DEF Goto
    <2> QED
      BY <1>1, <1>5, <2>1 DEF Origin, Txn
  <1>6. CASE Fetch(w)
    <2>1. u.seen = ledger[t.day] /\ u.day = t.day
      BY <1>1, <1>6 DEF Fetch, Txn
    <2> QED
      BY <1>6, <2>1 DEF Origin, Fetch
  <1>7. CASE Insert(w)
    <2>1. ~ledger[t.day].exists
      BY <1>1, <1>7 DEF Insert, Goto, Decided, Txn
    <2>2. u.seen = t.seen /\ u.day = t.day
      BY <1>1, <1>7 DEF Insert, Goto, Txn
    <2>3. t.day \in Days /\ RowInv(t.day) /\ t.seen = NoRow
      BY <1>1, <1>7 DEF IInv, Txn, TxnInv, Insert
    <2>4. u.seen = ledger[u.day]
      BY <2>1, <2>2, <2>3 DEF RowInv
    <2> QED
      BY <1>7, <2>4 DEF Origin, Insert
  <1>8. CASE Step(w)
    <2>1. ASSUME NEW s \in Serves[w], Sight(w, s[1], s[2]) PROVE u.pc \in {"exit", "marker"}
      BY <1>1, <2>1 DEF Sight
    <2>2. ASSUME NEW e \in Edits, Enter(w, e) PROVE u.pc = "fetch"
      BY <1>1, <2>2 DEF Enter
    <2>3. CASE LookForDay(w)
      BY <1>1, <1>3, <1>4, <2>3 DEF LookForDay, Goto, Rest, Txn, NoTxn
    <2>4. CASE ReadMarker(w)
      BY <1>1, <1>4, <2>4 DEF ReadMarker, Txn
    <2>5. CASE Flush(w)
      BY <1>5, <2>5 DEF Flush, Decided
    <2>6. CASE Arm(w)
      BY <1>5, <2>6 DEF Arm, Decided
    <2>7. CASE Commit(w)
      BY <1>1, <1>3, <2>7 DEF Commit, Rest
    <2>8. CASE Fail(w)
      BY <1>1, <1>3, <2>8 DEF Fail, Rest
    <2>9. CASE Unarm(w)
      BY <1>1, <1>3, <2>9 DEF Unarm, Rest
    <2> QED
      BY <1>4, <1>6, <1>7, <1>8, <2>1, <2>2, <2>3, <2>4, <2>5, <2>6, <2>7, <2>8, <2>9 DEF Step
  <1>9. ASSUME NEW v \in Writers, Step(v), v # w PROVE u = t
    BY <1>1, <1>9 DEF Step, Sight, Enter, LookForDay, ReadMarker, Fetch, Insert, Flush, Arm,
                      Commit, Fail, Unarm, Goto, Rest
  <1>10. ASSUME NEW p \in Processes, Restart(p) PROVE u = t \/ u = NoTxn
    BY <1>10 DEF Restart
  <1>11. u = NoTxn => ~Decided(u)
    BY DEF Decided, NoTxn
  <1>12. CASE Tick \/ UNCHANGED vars
    BY <1>2, <1>12 DEF Tick, vars
  <1> QED
    BY <1>2, <1>8, <1>9, <1>10, <1>11, <1>12 DEF Next

\* Every step but a commit leaves the rows alone, and time does not go back.
LEMMA RowsStand ==
    ASSUME IInv, [Next]_vars, ~\E w \in Writers : Commit(w)
    PROVE  UNCHANGED <<ledger, edited>> /\ clock <= clock'
  <1>1. clock \in Int
    BY DEF IInv, TypeOK, Time
  <1>2. ASSUME NEW w \in Writers, Step(w) PROVE UNCHANGED <<clock, ledger, edited>>
    BY <1>2 DEF Step, Sight, Enter, LookForDay, ReadMarker, Fetch, Insert, Flush, Arm,
                Fail, Unarm
  <1> QED
    BY <1>1, <1>2 DEF Next, Tick, Restart, vars

\* A day that a step does not write keeps its agreement.
LEMMA DayStands ==
    ASSUME IInv, [Next]_vars, clock <= clock', clock' \in Int, clock \in Int,
           NEW d \in Days, ledger'[d] = ledger[d],
           ClosedAgrees(d), d \notin edited
    PROVE  ClosedAgrees(d)'
  <1> SUFFICES ASSUME ledger'[d].check_out_at # None
               PROVE  \E c \in Time : ClosedAt(d, c)'
    BY DEF ClosedAgrees
  <1>1. PICK c \in Time : ClosedAt(d, c)
    BY DEF ClosedAgrees
  <1>2. c <= clock' /\ ClosedRow(ledger'[d], c)
    BY <1>1 DEF ClosedAt, Time
  <1>3. ASSUME NEW w \in Writers, Decided(txn'[w]), Live(txn'[w]), txn'[w].day = d,
               txn'[w].seen.check_out_at = None
        PROVE  txn'[w].began <= c
    <2>1. Origin(txn'[w], txn[w])
      BY <1>3, Origins
    <2>2. /\ Decided(txn[w])
          /\ txn'[w].seen = txn[w].seen /\ txn'[w].began = txn[w].began
          /\ txn'[w].day = txn[w].day /\ txn'[w].method = txn[w].method
      BY <1>3, <2>1 DEF Origin
    <2> QED
      BY <1>1, <1>3, <2>2 DEF ClosedAt, Live
  <1> QED
    BY <1>2, <1>3 DEF ClosedAt

LEMMA StepColumns == ColumnsIInv /\ [Next]_vars => ColumnsIInv'
  <1> SUFFICES ASSUME ColumnsIInv, [Next]_vars PROVE ColumnsIInv'
    OBVIOUS
  <1>1. IInv /\ IInv'
    BY StepIInv DEF ColumnsIInv
  <1>2. clock \in Int /\ clock' \in Int
    BY <1>1 DEF IInv, TypeOK, Time
  <1>3. edited \subseteq edited'
    <2>1. ASSUME NEW w \in Writers, Commit(w) PROVE edited \subseteq edited'
      BY <2>1 DEF Commit
    <2> QED
      BY <1>1, <2>1, RowsStand
  <1>4. ASSUME NEW w \in Writers PROVE SeenAgrees(txn[w])'
    <2> SUFFICES ASSUME Live(txn'[w]), Decided(txn'[w]), txn'[w].day \notin edited'
                 PROVE  OpenAgrees(txn'[w].seen)
      BY DEF SeenAgrees, OpenAgrees, ResolveStatus, Live, Decided
    <2>1. Origin(txn'[w], txn[w])
      BY <1>1, Origins
    <2>2. CASE /\ Decided(txn[w])
               /\ txn'[w].seen = txn[w].seen /\ txn'[w].day = txn[w].day
               /\ txn'[w].method = txn[w].method
      BY <1>3, <2>2 DEF ColumnsIInv, SeenAgrees, Live
    <2>3. CASE txn'[w].seen = ledger[txn'[w].day] /\ UNCHANGED <<ledger, edited>>
      <3>1. txn'[w].day \in Days
        BY <1>1 DEF IInv, TypeOK, Txn
      <3> QED
        BY <2>3, <3>1 DEF ColumnsIInv
    <2> QED
      BY <2>1, <2>2, <2>3 DEF Origin
  <1>5. ASSUME NEW d \in Days, d \notin edited'
        PROVE  OpenAgrees(ledger'[d]) /\ ClosedAgrees(d)'
    <2>1. d \notin edited /\ OpenAgrees(ledger[d]) /\ ClosedAgrees(d)
      BY <1>3, <1>5 DEF ColumnsIInv
    <2>2. CASE ~\E w \in Writers : Commit(w)
      <3>1. ledger'[d] = ledger[d] /\ clock <= clock'
        BY <1>1, <2>2, RowsStand
      <3> QED
        BY <1>1, <1>2, <2>1, <3>1, DayStands
    <2>3. ASSUME NEW w \in Writers, Commit(w)
          PROVE  OpenAgrees(ledger'[d]) /\ ClosedAgrees(d)'
      <3> DEFINE t == txn[w]
                 new == Stored(ledger[t.day], t)
      <3>1. /\ t.pc = "commit" /\ ledger' = [ledger EXCEPT ![t.day] = new]
            /\ edited' = IF t.method = "manual" THEN edited \cup {t.day} ELSE edited
            /\ clock' = clock /\ txn' = [txn EXCEPT ![w] = [NoTxn EXCEPT !.pc = "idle"]]
        BY <2>3 DEF Commit, Rest
      <3>2. ledger \in [Days -> Row] /\ txn \in [Writers -> Txn]
        BY <1>1 DEF IInv, TypeOK
      <3>3. CASE d # t.day
        <4>1. ledger'[d] = ledger[d] /\ clock <= clock'
          BY <1>2, <3>1, <3>2, <3>3
        <4> QED
          BY <1>1, <1>2, <2>1, <4>1, DayStands
      <3>4. CASE d = t.day
        <4>1. Live(t) /\ t.day \notin edited /\ ledger'[d] = new
          BY <1>5, <2>1, <3>1, <3>2, <3>4 DEF Live
        <4>2. /\ OpenAgrees(new)
              /\ new.check_out_at # None =>
                     \E c \in Time :
                        /\ c <= clock
                        /\ ClosedRow(new, c)
                        /\ \A v \in Writers :
                              /\ Decided(txn[v]) /\ Live(txn[v]) /\ txn[v].day = t.day
                              /\ txn[v].seen.check_out_at = None
                              => txn[v].began <= c
          BY <3>1, <4>1, CommitColumns
        <4> HIDE DEF new
        <4>3. ASSUME NEW v \in Writers, Decided(txn'[v]) PROVE txn'[v] = txn[v]
          <5>1. v # w
            BY <3>1, <3>2, <4>3 DEF Decided, NoTxn
          <5> QED
            BY <3>1, <3>2, <5>1
        <4>4. ASSUME new.check_out_at # None PROVE \E c \in Time : ClosedAt(d, c)'
          <5>1. PICK c \in Time :
                        /\ c <= clock
                        /\ ClosedRow(new, c)
                        /\ \A v \in Writers :
                              /\ Decided(txn[v]) /\ Live(txn[v]) /\ txn[v].day = t.day
                              /\ txn[v].seen.check_out_at = None
                              => txn[v].began <= c
            BY <4>2, <4>4
          <5>2. ASSUME NEW v \in Writers, Decided(txn'[v]), Live(txn'[v]), txn'[v].day = d,
                       txn'[v].seen.check_out_at = None
                PROVE  txn'[v].began <= c
            <6>1. txn'[v] = txn[v]
              BY <4>3, <5>2
            <6>2. Decided(txn[v]) /\ Live(txn[v])
              BY <5>2, <6>1
            <6> QED
              BY <3>4, <5>1, <5>2, <6>1, <6>2
          <5>3. c <= clock' /\ ClosedRow(ledger'[d], c)
            BY <3>1, <4>1, <5>1
          <5> QED
            BY <5>2, <5>3 DEF ClosedAt
        <4> QED
          BY <4>1, <4>2, <4>4 DEF ClosedAgrees
      <3> QED
        BY <3>3, <3>4
    <2> QED
      BY <2>2, <2>3
  <1> QED
    BY <1>1, <1>4, <1>5 DEF ColumnsIInv, OpenAgrees, ResolveStatus

LEMMA InitColumns == Init => ColumnsIInv
  <1> SUFFICES ASSUME Init PROVE ColumnsIInv
    OBVIOUS
  <1>1. \A d \in Days : ledger[d] = NoRow
    BY DEF Init
  <1>2. \A w \in Writers : ~Decided(txn[w])
    BY DEF Init, NoTxn, Decided
  <1>3. OpenAgrees(NoRow) /\ NoRow.check_out_at = None
    BY DEF OpenAgrees, NoRow
  <1> QED
    BY <1>1, <1>2, <1>3, InitIInv DEF ColumnsIInv, SeenAgrees, ClosedAgrees

\* The columns of a closed row are close to its stamps, whoever wrote which.
LEMMA ColumnsFollow == ColumnsIInv => ColumnsAgree
  <1> SUFFICES ASSUME ColumnsIInv, NEW d \in Days \ edited
               PROVE
        LET row == ledger[d]
            near == {t \in Time : /\ t - row.check_out_at \in -MaxTxn .. MaxTxn
                                  /\ t - row.check_in_at >= MinWindow}
            StatusAt(t) == ResolveCheckoutStatus(CalcWorked(row.check_in_at, t),
                                                 ResolveStatus(row.check_in_at))
        IN  IF row.check_in_at = None
            THEN row.status = "absent" /\ row.worked_minutes = 0
            ELSE IF row.check_out_at = None
            THEN row.status = ResolveStatus(row.check_in_at)
            ELSE /\ \E t \in near : row.worked_minutes = CalcWorked(row.check_in_at, t)
                 /\ \E t \in near : row.status = StatusAt(t)
    BY DEF ColumnsAgree
  <1> DEFINE row == ledger[d]
             near == {t \in Time : /\ t - row.check_out_at \in -MaxTxn .. MaxTxn
                                   /\ t - row.check_in_at >= MinWindow}
  <1>1. IInv /\ OpenAgrees(row) /\ ClosedAgrees(d)
    BY DEF ColumnsIInv
  <1>2. row.check_out_at # None => row.check_in_at # None
    BY <1>1 DEF IInv, RowInv, Sightings
  <1>3. row.check_out_at \in Int /\ MaxTxn \in Nat
    BY <1>1, TimeAssumption DEF IInv, TypeOK, Row, Stamp, Time
  <1>4. CASE row.check_out_at = None
    BY <1>1, <1>4 DEF OpenAgrees
  <1>5. CASE row.check_out_at # None
    <2>1. PICK c \in Time : ClosedRow(row, c)
      BY <1>1, <1>5 DEF ClosedAgrees, ClosedAt
    <2> HIDE DEF row
    <2>2. ASSUME NEW b \in Time, UnderWay(row, c, b) PROVE b \in near
      BY <1>3, <2>1, <2>2 DEF ClosedRow, UnderWay, Time
    <2> HIDE DEF near
    <2>3. /\ \E b \in near : row.worked_minutes = CalcWorked(row.check_in_at, b)
          /\ \E b \in near : row.status = StatusOut(row, b)
      BY <2>1, <2>2 DEF ClosedRow
    <2> QED
      BY <1>2, <1>5, <2>3 DEF StatusOut, row, near
  <1> QED
    BY <1>4, <1>5

\* What the columns rest on: sightings decide on rows whose columns agree, and
\* those that believe a closed day open were all under way at one instant, the
\* commit of its first check-out.
THEOREM ColumnsInductive == Spec => []ColumnsIInv
  BY InitColumns, StepColumns, PTL DEF Spec

\* process_recognition, process_rfid_tap and the flush of the columns that changed:
\* the status and the worked time of a day that no admin edited belong to check-outs
\* at most a transaction's length from the stored one, and a window after its
\* check-in, whichever of the racing UPDATEs wrote which column.
THEOREM Columns == Spec => []ColumnsAgree
  BY ColumnsFollow, ColumnsInductive, PTL
-----------------------------------------------------------------------------
(* Days with a row and no stamp *)

\* An exit sighting that has looked for the row of its day found one, and what a
\* transaction read of a day without a row is NoRow.
KnowsItsDay(t) ==
    /\ Live(t) /\ t.intent = "check_out" /\ Running(t) /\ t.pc # "exit" => ledger[t.day].exists
    /\ Decided(t) => IF t.seen.exists THEN ledger[t.day].exists ELSE t.seen = NoRow

BareIInv == IInv /\ \A w \in Writers : KnowsItsDay(txn[w])

\* A transaction that runs after its look for the row has been running, of the same
\* sighting, and found the row if it had to look.
LEMMA ExitOrigins ==
    ASSUME IInv, [Next]_vars, NEW w \in Writers,
           Live(txn'[w]), txn'[w].intent = "check_out", Running(txn'[w]), txn'[w].pc # "exit"
    PROVE  /\ Live(txn[w]) /\ txn[w].intent = "check_out" /\ Running(txn[w])
           /\ txn'[w].day = txn[w].day
           /\ txn[w].pc = "exit" => ledger[txn[w].day].exists
  <1> DEFINE t == txn[w]
             u == txn'[w]
             Goal == /\ Live(t) /\ t.intent = "check_out" /\ Running(t) /\ u.day = t.day
                     /\ t.pc = "exit" => ledger[t.day].exists
  <1>1. txn \in [Writers -> Txn] /\ t \in Txn
    BY DEF IInv, TypeOK
  <1>2. CASE u = t
    BY <1>2
  <1>3. u \notin {[NoTxn EXCEPT !.pc = step] : step \in {"idle", "unarm"}}
    BY DEF Running, NoTxn
  <1>4. ASSUME NEW step, Goto(w, step), Running(t), t.pc = "exit" => ledger[t.day].exists
        PROVE  Goal
    <2>1. u = [t EXCEPT !.pc = step]
      BY <1>1, <1>4 DEF Goto
    <2>2. u.method = t.method /\ u.intent = t.intent /\ u.day = t.day
      BY <1>1, <2>1 DEF Txn
    <2> QED
      BY <1>4, <2>2 DEF Live
  <1>5. CASE Step(w)
    <2>1. ASSUME NEW s \in Serves[w], Sight(w, s[1], s[2]) PROVE FALSE
      <3> DEFINE new == [pc |-> IF s[2] = "check_out" THEN "exit" ELSE "marker",
                         method |-> s[1], intent |-> s[2], began |-> clock,
                         day |-> WorkDay[clock], dup |-> FALSE, seen |-> NoRow,
                         enter |-> NoEntry]
      <3>1. u = new
        BY <1>1, <2>1 DEF Sight
      <3> QED
        BY <3>1
    <2>2. ASSUME NEW e \in Edits, Enter(w, e) PROVE FALSE
      <3>1. u.method = "manual"
        BY <1>1, <2>2 DEF Enter
      <3> QED
        BY <3>1 DEF Live
    <2>3. CASE LookForDay(w)
      <3>1. CASE ledger[t.day].exists
        BY <1>4, <2>3, <3>1 DEF LookForDay, Running
      <3>2. CASE ~ledger[t.day].exists
        BY <1>1, <1>3, <2>3, <3>2 DEF LookForDay, Rest
      <3> QED
        BY <3>1, <3>2
    <2>4. CASE ReadMarker(w)
      <3>1. u.method = t.method /\ u.intent = t.intent /\ u.day = t.day
        BY <1>1, <2>4 DEF ReadMarker, Txn
      <3> QED
        BY <2>4, <3>1 DEF ReadMarker, Live, Running
    <2>5. CASE Fetch(w)
      <3>1. u.method = t.method /\ u.intent = t.intent /\ u.day = t.day
        BY <1>1, <2>5 DEF Fetch, Txn
      <3> QED
        BY <2>5, <3>1 DEF Fetch, Live, Running
    <2>6. CASE Insert(w)
      BY <1>4, <2>6 DEF Insert, Running
    <2>7. CASE Flush(w)
      BY <1>4, <2>7 DEF Flush, Running
    <2>8. CASE Arm(w)
      BY <1>4, <2>8 DEF Arm, Running
    <2>9. CASE Commit(w)
      BY <1>1, <1>3, <2>9 DEF Commit, Rest
    <2>10. CASE Fail(w)
      BY <1>1, <1>3, <2>10 DEF Fail, Rest
    <2>11. CASE Unarm(w)
      BY <1>1, <1>3, <2>11 DEF Unarm, Rest
    <2> QED
      BY <1>5, <2>1, <2>2, <2>3, <2>4, <2>5, <2>6, <2>7, <2>8, <2>9, <2>10, <2>11 DEF Step
  <1>6. ASSUME NEW v \in Writers, Step(v), v # w PROVE u = t
    BY <1>1, <1>6 DEF Step, Sight, Enter, LookForDay, ReadMarker, Fetch, Insert, Flush, Arm,
                      Commit, Fail, Unarm, Goto, Rest
  <1>7. ASSUME NEW p \in Processes, Restart(p) PROVE u = t \/ u = NoTxn
    BY <1>7 DEF Restart
  <1>8. u # NoTxn
    BY DEF Running, NoTxn
  <1>9. CASE Tick \/ UNCHANGED vars
    BY <1>2, <1>9 DEF Tick, vars
  <1> QED
    BY <1>2, <1>5, <1>6, <1>7, <1>8, <1>9 DEF Next

\* A row that exists is never deleted.
LEMMA RowsStay ==
    ASSUME IInv, [Next]_vars, NEW d \in Days, ledger[d].exists
    PROVE  ledger'[d].exists
  <1>1. ASSUME NEW w \in Writers, Commit(w) PROVE ledger'[d].exists
    <2>1. ledger \in [Days -> Row]
      BY DEF IInv, TypeOK
    <2>2. Stored(ledger[txn[w].day], txn[w]).exists
      BY DEF Stored
    <2>3. ledger' = [ledger EXCEPT ![txn[w].day] = Stored(ledger[txn[w].day], txn[w])]
      BY <1>1 DEF Commit
    <2> QED
      BY <2>1, <2>2, <2>3
  <1> QED
    BY <1>1, RowsStand

LEMMA StepBare == BareIInv /\ [Next]_vars => BareIInv'
  <1> SUFFICES ASSUME BareIInv, [Next]_vars PROVE BareIInv'
    OBVIOUS
  <1>1. IInv /\ IInv'
    BY StepIInv DEF BareIInv
  <1>2. ASSUME NEW w \in Writers PROVE KnowsItsDay(txn[w])'
    <2>1. KnowsItsDay(txn[w]) /\ txn[w].day \in Days /\ txn'[w].day \in Days
      BY <1>1 DEF BareIInv, IInv, TypeOK, Txn
    <2>2. ASSUME Live(txn'[w]), txn'[w].intent = "check_out", Running(txn'[w]),
                 txn'[w].pc # "exit"
          PROVE  ledger'[txn'[w].day].exists
      <3>1. /\ Live(txn[w]) /\ txn[w].intent = "check_out" /\ Running(txn[w])
            /\ txn'[w].day = txn[w].day
            /\ txn[w].pc = "exit" => ledger[txn[w].day].exists
        BY <1>1, <2>2, ExitOrigins
      <3>2. ledger[txn[w].day].exists
        BY <2>1, <3>1 DEF KnowsItsDay
      <3> QED
        BY <1>1, <2>1, <3>1, <3>2, RowsStay
    <2>3. ASSUME Decided(txn'[w])
          PROVE  IF txn'[w].seen.exists THEN ledger'[txn'[w].day].exists
                 ELSE txn'[w].seen = NoRow
      <3>1. Origin(txn'[w], txn[w])
        BY <1>1, <2>3, Origins
      <3>2. CASE Decided(txn[w]) /\ txn'[w].seen = txn[w].seen /\ txn'[w].day = txn[w].day
        BY <1>1, <2>1, <3>2, RowsStay DEF KnowsItsDay
      <3>3. CASE txn'[w].seen = ledger[txn'[w].day]
        <4>1. RowInv(txn'[w].day)
          BY <1>1, <2>1 DEF IInv
        <4> QED
          BY <1>1, <2>1, <3>3, <4>1, RowsStay DEF RowInv
      <3> QED
        BY <3>1, <3>2, <3>3 DEF Origin
    <2> QED
      BY <2>2, <2>3 DEF KnowsItsDay, Live, Running, Decided
  <1> QED
    BY <1>1, <1>2 DEF BareIInv

LEMMA InitBare == Init => BareIInv
  <1> SUFFICES ASSUME Init PROVE BareIInv
    OBVIOUS
  <1>1. ASSUME NEW w \in Writers PROVE KnowsItsDay(txn[w])
    BY DEF Init, NoTxn, KnowsItsDay, Running, Decided
  <1> QED
    BY <1>1, InitIInv DEF BareIInv

\* A commit that leaves a day bare decided nothing on a row it did not find.
LEMMA BareCommit ==
    ASSUME BareIInv, [Next]_vars, NEW d \in Days, ~ledger[d].exists, ledger'[d].exists,
           ledger'[d].check_in_at = None
    PROVE  \E w \in Writers :
                /\ txn[w].pc = "commit" /\ txn[w].day = d
                /\ txn[w].method # "manual" => /\ txn[w].dup
                                               /\ txn[w].intent # "check_out"
  <1>1. PICK w \in Writers : Commit(w)
    BY RowsStand DEF BareIInv
  <1> DEFINE t == txn[w]
             new == Stored(ledger[d], t)
  <1>2. t \in Txn /\ ledger \in [Days -> Row] /\ KnowsItsDay(t) /\ t.pc = "commit"
    BY <1>1 DEF BareIInv, IInv, TypeOK, Commit
  <1>3. t.day = d
    BY <1>1, <1>2 DEF Commit
  <1>4. ledger'[d] = new
    BY <1>1, <1>2, <1>3 DEF Commit
  <1>5. ASSUME Live(t) PROVE t.dup /\ t.intent # "check_out"
    <2>1. t.intent # "check_out"
      BY <1>2, <1>3, <1>5 DEF KnowsItsDay, Running
    <2>2. t.seen = NoRow
      BY <1>2, <1>3 DEF KnowsItsDay, Decided
    <2>3. new.check_in_at = IF ChecksIn(t) THEN t.began ELSE ledger[d].check_in_at
      BY <1>2, <1>5, StoredStamps
    <2>4. t.began # None
      BY <1>2, TimeAssumption DEF Txn, Time
    <2>5. ~ChecksIn(t)
      BY <1>4, <2>3, <2>4
    <2>6. Suppressed(t)
      BY <1>5, <2>1, <2>2, <2>5 DEF ChecksIn, Live, NoRow
    <2> QED
      BY <2>1, <2>2, <2>6 DEF Suppressed, NoRow
  <1> QED
    BY <1>2, <1>3, <1>5 DEF Live

\* process_recognition: the exit camera leaves no bare row behind, whoever inserts
\* or rolls back the row it looks for; a day is bare only of sightings that a
\* duplicate marker suppressed, or of what an admin entered.
THEOREM BareRows == Spec => BareRowsAreSuppressedSightings
  <1>1. BareIInv /\ [Next]_vars =>
          [\A d \in Days :
             ~ledger[d].exists /\ ledger'[d].exists
                /\ ledger'[d].check_in_at = None /\ ledger'[d].check_out_at = None
             => \E w \in Writers :
                   /\ txn[w].pc = "commit" /\ txn[w].day = d
                   /\ txn[w].method # "manual" => /\ txn[w].dup
                                                  /\ txn[w].intent # "check_out"]_vars
    BY BareCommit
  <1>2. Spec => []BareIInv
    BY InitBare, StepBare, PTL DEF Spec
  <1> QED
    BY <1>1, <1>2, PTL DEF Spec, BareRowsAreSuppressedSightings
===============================================================================
