---------------------------- MODULE AccessProofs ----------------------------
(***************************************************************************)
(* Theorems about who may do what: the cards and readers at the doors      *)
(* (CardTaps), the roles and their permissions (RoleGrants), the accounts  *)
(* and tokens of the console (AccountSessions), the visitors with their    *)
(* faces and photos (VisitorAccess), and the setup that makes the first    *)
(* administrator (FirstRun), for any readers, cards, employees, sessions,  *)
(* roles, users, requests, accounts, photos and databases.                 *)
(*                                                                         *)
(* Each part gives the inductive invariant of its module, the steps that   *)
(* keep it, and the properties that follow.                                *)
(***************************************************************************)
EXTENDS CardTaps, RoleGrants, AccountSessions, VisitorAccess, FirstRun,
        FiniteSetTheorems, TLAPS

-----------------------------------------------------------------------------
(* Cards *)

TapRecords ==
    [stage : {"none", "read", "served", "inserted", "decided"}, reader : TapReaders \cup {Nil},
     way : Directions, uid : CardUids \cup {Nil}, holder : Holders \cup {Nil},
     action : {"none", "unknown", "inactive", "duplicate_ignored", "check_in", "check_out"},
     late : BOOLEAN]

\* What a tap carries at each of its stages: one that was late to its card is never served.
TapFits(t) ==
    /\ t.stage = "none" => t = NoTap
    /\ t.stage = "read" => t.uid \in CardUids /\ (t.late => t.uid \in withdrawn)
    /\ t.stage \in {"served", "inserted"} => t.holder \in Holders /\ ~t.late
    /\ t.stage = "decided" /\ t.late => t.action = "inactive"
    /\ t.action \in Moves => t.holder \in Holders
    /\ t.stage \notin {"inserted", "decided"} => t.action \notin Moves

\* A revoked card stays with its holder: its uid is not given away again.
RevokedStay == \A u \in withdrawn : cards[u].holder # Nil /\ ~cards[u].active

CardIInv ==
    /\ CardTypeOK
    /\ taps \in [Doors -> TapRecords]
    /\ \A d \in Doors : TapFits(taps[d])
    /\ RevokedStay
    /\ RevokedCardsAreDead
    /\ EventsExplainTheDay

-----------------------------------------------------------------------------
LEMMA CardInitIInv == CardInit => CardIInv
<1> SUFFICES ASSUME CardInit PROVE CardIInv
  OBVIOUS
<1>1. CardTypeOK
  <2>1. readers \in [TapReaders -> [active : BOOLEAN, token : 0..LastToken, way : Directions]]
    <3>1. 0 \in 0..LastToken
      BY CardAssumption
    <3>2. \A x \in [active : {TRUE}, token : {0}, way : Directions] :
             x \in [active : BOOLEAN, token : 0..LastToken, way : Directions]
      BY <3>1
    <3> QED BY <3>2 DEF CardInit
  <2>2. cards \in [CardUids -> [holder : Holders \cup {Nil}, active : BOOLEAN]]
    BY DEF CardInit, Unclaimed
  <2>3. day \in [Holders -> [in : BOOLEAN, out : BOOLEAN] \cup {Nil}]
    BY DEF CardInit
  <2> QED BY <2>1, <2>2, <2>3, CardAssumption DEF CardInit, CardTypeOK
<1>2. NoTap \in TapRecords /\ NoTap.stage = "none" /\ NoTap.action = "none"
  BY DEF NoTap, TapRecords, Directions
<1>3. \A d \in Doors : taps[d] = NoTap
  BY DEF CardInit
<1>4. taps \in [Doors -> TapRecords]
  BY <1>2 DEF CardInit
<1>5. \A d \in Doors : TapFits(taps[d])
  BY <1>2, <1>3 DEF TapFits, Moves
<1>6. EventsExplainTheDay
  BY DEF CardInit, EventsExplainTheDay, Moves
<1> QED BY <1>1, <1>4, <1>5, <1>6 DEF CardIInv, CardInit, RevokedStay, RevokedCardsAreDead

\* Administration leaves taps, events and days alone.
LEMMA EditIInv ==
  ASSUME CardIInv, CardTypeOK', UNCHANGED <<day, taps, tapEvents>>, withdrawn \subseteq withdrawn',
         RevokedStay'
  PROVE  CardIInv'
<1>1. \A d \in Doors : TapFits(taps[d])'
  BY DEF CardIInv, TapFits
<1> QED BY <1>1 DEF CardIInv, RevokedCardsAreDead, EventsExplainTheDay

LEMMA AdminIInv ==
  ASSUME CardIInv,
         \/ \E r \in TapReaders :
               \/ \E active \in BOOLEAN, way \in Directions : UpdateReader(r, active, way)
               \/ DeactivateReader(r) \/ RegenerateToken(r) \/ ConfigureDevice(r)
         \/ \E u \in CardUids : RevokeCard(u) \/ \E h \in Holders : AddEmployeeCard(h, u)
         \/ \E h \in Holders : SetEmployeeActive(h) \/ TapWindowPasses(h)
  PROVE  CardIInv'
<1>0. CardTypeOK /\ RevokedStay
  BY DEF CardIInv
<1>e. CardEdit => cardEdits' \in 0..MaxCardEdits
  BY <1>0, CardAssumption DEF CardEdit, CardTypeOK
<1>1. ASSUME NEW r \in TapReaders, NEW active \in BOOLEAN, NEW way \in Directions,
             UpdateReader(r, active, way) \/ DeactivateReader(r)
      PROVE  CardIInv'
  <2>1. readers[r] \in [active : BOOLEAN, token : 0..LastToken, way : Directions]
    BY <1>0 DEF CardTypeOK
  <2>2. readers' \in [TapReaders -> [active : BOOLEAN, token : 0..LastToken, way : Directions]]
    <3>1. CASE UpdateReader(r, active, way)
      <4>1. readers' = [readers EXCEPT ![r] = [readers[r] EXCEPT !.active = active, !.way = way]]
        BY <3>1 DEF UpdateReader
      <4>2. [readers[r] EXCEPT !.active = active, !.way = way]
            \in [active : BOOLEAN, token : 0..LastToken, way : Directions]
        BY <2>1
      <4> QED BY <1>0, <4>1, <4>2 DEF CardTypeOK
    <3>2. CASE DeactivateReader(r)
      <4>1. readers' = [readers EXCEPT ![r] = [readers[r] EXCEPT !.active = FALSE]]
        BY <3>2 DEF DeactivateReader
      <4>2. [readers[r] EXCEPT !.active = FALSE]
            \in [active : BOOLEAN, token : 0..LastToken, way : Directions]
        BY <2>1
      <4> QED BY <1>0, <4>1, <4>2 DEF CardTypeOK
    <3> QED BY <1>1, <3>1, <3>2
  <2>3. CardTypeOK' /\ RevokedStay'
    BY <1>0, <1>e, <1>1, <2>2
       DEF UpdateReader, DeactivateReader, CardEdit, CardTypeOK, RevokedStay
  <2> QED BY <1>1, <2>3, EditIInv DEF UpdateReader, DeactivateReader, CardEdit
<1>2. ASSUME NEW r \in TapReaders, RegenerateToken(r) PROVE CardIInv'
  <2>1. readers[r].token + 1 \in 0..LastToken
    BY <1>0, <1>2, CardAssumption DEF RegenerateToken, CardTypeOK
  <2>2. /\ readers' = [readers EXCEPT ![r] = [readers[r] EXCEPT !.token = readers[r].token + 1]]
        /\ readers[r] \in [active : BOOLEAN, token : 0..LastToken, way : Directions]
    BY <1>0, <1>2 DEF RegenerateToken, CardTypeOK
  <2>e. [readers[r] EXCEPT !.token = readers[r].token + 1]
        \in [active : BOOLEAN, token : 0..LastToken, way : Directions]
    BY <2>1, <2>2
  <2>3. readers' \in [TapReaders -> [active : BOOLEAN, token : 0..LastToken, way : Directions]]
    BY <1>0, <2>2, <2>e DEF CardTypeOK
  <2>4. CardTypeOK' /\ RevokedStay'
    BY <1>0, <1>e, <1>2, <2>3 DEF RegenerateToken, CardEdit, CardTypeOK, RevokedStay
  <2> QED BY <1>2, <2>4, EditIInv DEF RegenerateToken, CardEdit
<1>3. ASSUME NEW r \in TapReaders, ConfigureDevice(r) PROVE CardIInv'
  <2>1. readers[r].token \in 0..LastToken
    BY <1>0 DEF CardTypeOK
  <2>2. CardTypeOK' /\ RevokedStay'
    BY <1>0, <1>3, <2>1 DEF ConfigureDevice, CardTypeOK, RevokedStay
  <2> QED BY <1>3, <2>2, EditIInv DEF ConfigureDevice
<1>4. ASSUME NEW u \in CardUids, RevokeCard(u) PROVE CardIInv'
  <2>1. /\ cards' = [cards EXCEPT ![u] = [cards[u] EXCEPT !.active = FALSE]]
        /\ cards[u] \in [holder : Holders \cup {Nil}, active : BOOLEAN]
    BY <1>0, <1>4 DEF RevokeCard, CardTypeOK
  <2>e. /\ [cards[u] EXCEPT !.active = FALSE] \in [holder : Holders \cup {Nil}, active : BOOLEAN]
        /\ [cards[u] EXCEPT !.active = FALSE].holder = cards[u].holder
        /\ [cards[u] EXCEPT !.active = FALSE].active = FALSE
    BY <2>1
  <2>2. cards' \in [CardUids -> [holder : Holders \cup {Nil}, active : BOOLEAN]]
    BY <1>0, <2>1, <2>e DEF CardTypeOK
  <2>3. CardTypeOK'
    BY <1>0, <1>e, <1>4, <2>2 DEF RevokeCard, CardEdit, CardTypeOK
  <2>4. RevokedStay'
    BY <1>0, <1>4, <2>1, <2>e DEF RevokeCard, RevokedStay, CardTypeOK
  <2> QED BY <1>4, <2>3, <2>4, EditIInv DEF RevokeCard, CardEdit
<1>5. ASSUME NEW u \in CardUids, NEW h \in Holders, AddEmployeeCard(h, u) PROVE CardIInv'
  <2>1. cards' \in [CardUids -> [holder : Holders \cup {Nil}, active : BOOLEAN]]
    BY <1>0, <1>5 DEF AddEmployeeCard, CardTypeOK
  <2>2. CardTypeOK'
    BY <1>0, <1>e, <1>5, <2>1 DEF AddEmployeeCard, CardEdit, CardTypeOK
  <2>3. RevokedStay'
    BY <1>0, <1>5 DEF AddEmployeeCard, UidFree, RevokedStay, CardTypeOK
  <2> QED BY <1>5, <2>2, <2>3, EditIInv DEF AddEmployeeCard, CardEdit
<1>6. ASSUME NEW h \in Holders, SetEmployeeActive(h) PROVE CardIInv'
  <2>1. CardTypeOK' /\ RevokedStay'
    BY <1>0, <1>e, <1>6 DEF SetEmployeeActive, CardEdit, CardTypeOK, RevokedStay
  <2> QED BY <1>6, <2>1, EditIInv DEF SetEmployeeActive, CardEdit
<1>7. ASSUME NEW h \in Holders, TapWindowPasses(h) PROVE CardIInv'
  <2>1. CardTypeOK' /\ RevokedStay'
    BY <1>0, <1>7 DEF TapWindowPasses, CardTypeOK, RevokedStay
  <2> QED BY <1>7, <2>1, EditIInv DEF TapWindowPasses
<1> QED BY <1>1, <1>2, <1>3, <1>4, <1>5, <1>6, <1>7 DEF Directions

\* A step of one tap that writes no row.
LEMMA TapIInv ==
  ASSUME CardIInv, NEW d \in Doors, NEW t \in TapRecords, TapFits(t),
         taps' = [taps EXCEPT ![d] = t], CardTypeOK',
         UNCHANGED <<cards, day, tapEvents, withdrawn>>
  PROVE  CardIInv'
<1>1. \A e \in Doors : taps'[e] = IF e = d THEN t ELSE taps[e]
  BY DEF CardIInv
<1>2. \A e \in Doors : TapFits(taps[e])'
  BY <1>1 DEF CardIInv, TapFits
<1> QED BY <1>1, <1>2 DEF CardIInv, RevokedStay, RevokedCardsAreDead, EventsExplainTheDay

LEMMA BeginTapIInv ==
  ASSUME CardIInv, NEW d \in Doors, NEW r \in TapReaders, NEW u \in CardUids,
         RfidTap(d, r, u) \/ SimulateTap(d, r, u)
  PROVE  CardIInv'
<1> DEFINE late == u \in withdrawn
           t == [NoTap EXCEPT !.stage = "read", !.reader = r, !.uid = u,
                              !.way = readers[r].way, !.late = late]
<1>1. BeginTap(d, r, u)
  BY DEF RfidTap, SimulateTap
<1>2. /\ t \in TapRecords /\ t.stage = "read" /\ t.uid = u /\ t.action = "none"
      /\ t.late = late
  <2>1. readers[r].way \in Directions
    BY DEF CardIInv, CardTypeOK
  <2>2. late \in BOOLEAN
    OBVIOUS
  <2> HIDE DEF late
  <2>3. NoTap \in TapRecords /\ NoTap.action = "none"
    BY DEF NoTap, TapRecords, Directions
  <2> QED BY <2>1, <2>2, <2>3 DEF TapRecords
<1>t. TapFits(t)
  BY <1>2 DEF TapFits, Moves
<1>3. CardTypeOK'
  BY <1>1, CardAssumption DEF BeginTap, CardIInv, CardTypeOK
<1>4. taps' = [taps EXCEPT ![d] = t] /\ UNCHANGED <<cards, day, tapEvents, withdrawn>>
  BY <1>1 DEF BeginTap
<1> HIDE DEF t
<1> QED BY <1>2, <1>t, <1>3, <1>4, TapIInv

\* A revoked card is found inactive, or not at all.
LEMMA LookUpCardIInv ==
  ASSUME CardIInv, NEW d \in Doors, LookUpCard(d)
  PROVE  CardIInv'
<1> DEFINE u == taps[d].uid
           found == cards[u].holder
           served == cards[u].active /\ found \in working
           t == [taps[d] EXCEPT !.holder = found,
                                !.stage = IF served THEN "served" ELSE "decided",
                                !.action = IF found = Nil THEN "unknown"
                                           ELSE IF served THEN "none" ELSE "inactive"]
<1>1. /\ taps[d].stage = "read" /\ taps' = [taps EXCEPT ![d] = t]
      /\ UNCHANGED <<readers, deviceToken, cards, working, day, recent, tapEvents, tapCount,
                     cardEdits, withdrawn>>
  BY DEF LookUpCard
<1>2. /\ taps[d] \in TapRecords /\ u \in CardUids /\ found \in Holders \cup {Nil}
      /\ served => found \in Holders /\ found # Nil
  BY <1>1, CardAssumption DEF CardIInv, TapFits, CardTypeOK
<1>3. taps[d].late => ~served /\ found # Nil
  BY <1>1 DEF CardIInv, TapFits, RevokedStay
<1> HIDE DEF u, found, served
<1>4. /\ t \in TapRecords /\ t.holder = found /\ t.late = taps[d].late
      /\ t.stage = (IF served THEN "served" ELSE "decided")
      /\ t.action = (IF found = Nil THEN "unknown" ELSE IF served THEN "none" ELSE "inactive")
  BY <1>2 DEF TapRecords
<1>5. TapFits(t)
  BY <1>2, <1>3, <1>4 DEF TapFits, Moves
<1>6. CardTypeOK'
  BY <1>1 DEF CardIInv, CardTypeOK
<1> HIDE DEF t
<1> QED BY <1>1, <1>4, <1>5, <1>6, TapIInv

LEMMA JudgeDayIInv ==
  ASSUME CardIInv, NEW d \in Doors, JudgeDay(d)
  PROVE  CardIInv'
<1> DEFINE h == taps[d].holder
           row == IF day[h] = Nil THEN NewDay ELSE day[h]
           action == IF taps[d].way = "out" /\ day[h] = Nil THEN "inactive"
                     ELSE ActionOn(row, taps[d].way, recent[h])
           stage == IF taps[d].way # "out" /\ day[h] = Nil THEN "inserted" ELSE "decided"
           t == [taps[d] EXCEPT !.action = action, !.stage = stage]
<1>1. /\ taps[d].stage = "served" /\ taps' = [taps EXCEPT ![d] = t]
      /\ UNCHANGED <<readers, deviceToken, cards, working, day, recent, tapEvents, tapCount,
                     cardEdits, withdrawn>>
  BY DEF JudgeDay
<1>2. taps[d] \in TapRecords /\ h \in Holders /\ ~taps[d].late
  BY <1>1 DEF CardIInv, TapFits
<1>3. /\ action \in {"none", "inactive", "duplicate_ignored", "check_in", "check_out"}
      /\ stage \in {"inserted", "decided"}
  BY DEF ActionOn
<1> HIDE DEF action, stage
<1>4. /\ t \in TapRecords /\ t.holder = h /\ t.late = taps[d].late
      /\ t.stage = stage /\ t.action = action
  BY <1>2, <1>3 DEF TapRecords
<1>5. TapFits(t)
  BY <1>2, <1>3, <1>4 DEF TapFits
<1>6. CardTypeOK'
  BY <1>1 DEF CardIInv, CardTypeOK
<1> HIDE DEF t
<1> QED BY <1>1, <1>4, <1>5, <1>6, TapIInv

LEMMA NoTapFits == NoTap \in TapRecords /\ TapFits(NoTap)
  BY DEF NoTap, TapRecords, TapFits, Directions, Moves

\* The row and its event are one commit.
LEMMA CommitTapIInv ==
  ASSUME CardIInv, NEW d \in Doors, CommitTap(d)
  PROVE  CardIInv'
<1> DEFINE t == taps[d]
           event == [uid |-> t.uid, holder |-> t.holder, result |-> t.action, late |-> t.late]
           writes == t.stage = "inserted" \/ t.action \in Moves
<1>1. /\ t.stage \in {"inserted", "decided"}
      /\ day' = IF writes THEN [day EXCEPT ![t.holder] = DayAfter(t)] ELSE day
      /\ recent' = IF t.action \in Moves THEN [recent EXCEPT ![t.holder] = TRUE] ELSE recent
      /\ tapEvents' = tapEvents \cup {event}
      /\ taps' = [taps EXCEPT ![d] = NoTap]
      /\ UNCHANGED <<readers, deviceToken, cards, working, tapCount, cardEdits, withdrawn>>
  BY DEF CommitTap, Reported
<1>2. /\ t \in TapRecords /\ TapFits(t) /\ (writes => t.holder \in Holders)
  BY DEF CardIInv, TapFits
<1>3. \A h \in Holders : day[h] = Nil \/ day[h] \in [in : BOOLEAN, out : BOOLEAN]
  BY DEF CardIInv, CardTypeOK
<1>4. ASSUME writes
      PROVE  /\ DayAfter(t) \in [in : BOOLEAN, out : BOOLEAN]
             /\ DayAfter(t).in <=> (day[t.holder] # Nil /\ day[t.holder].in) \/ t.action = "check_in"
             /\ DayAfter(t).out <=> (day[t.holder] # Nil /\ day[t.holder].out) \/ t.action = "check_out"
  BY <1>2, <1>3, <1>4 DEF DayAfter, NewDay
<1>5. CardTypeOK'
  BY <1>1, <1>2, <1>4 DEF CardIInv, CardTypeOK
<1>6. RevokedCardsAreDead'
  BY <1>1, <1>2 DEF CardIInv, TapFits, RevokedCardsAreDead
<1>7. \A e \in Doors : TapFits(taps[e])'
  <2>1. \A e \in Doors : taps'[e] = IF e = d THEN NoTap ELSE taps[e]
    BY <1>1 DEF CardIInv
  <2>2. \A e \in Doors : TapFits(taps'[e])
    BY <2>1, NoTapFits DEF CardIInv
  <2> QED BY <1>1, <2>2 DEF TapFits
<1>8. EventsExplainTheDay'
  <2> SUFFICES ASSUME NEW h \in Holders, NEW a \in Moves
               PROVE  (day'[h] # Nil /\ IF a = "check_in" THEN day'[h].in ELSE day'[h].out)
                      <=> \E e \in tapEvents' : e.holder = h /\ e.result = a
    BY DEF EventsExplainTheDay
  <2>1. (day[h] # Nil /\ IF a = "check_in" THEN day[h].in ELSE day[h].out)
        <=> \E e \in tapEvents : e.holder = h /\ e.result = a
    BY DEF CardIInv, EventsExplainTheDay
  <2>2. event.holder = t.holder /\ event.result = t.action
    OBVIOUS
  <2> HIDE DEF event
  <2>3. (\E e \in tapEvents' : e.holder = h /\ e.result = a)
        <=> (\E e \in tapEvents : e.holder = h /\ e.result = a) \/ (t.holder = h /\ t.action = a)
    BY <1>1, <2>2
  <2>4. CASE ~writes
    <3>1. day' = day /\ t.action # a
      BY <1>1, <2>4
    <3> QED BY <2>1, <2>3, <3>1
  <2>5. CASE writes /\ t.holder # h
    <3>1. day'[h] = day[h]
      BY <1>1, <1>2, <2>5 DEF CardIInv, CardTypeOK
    <3> QED BY <2>1, <2>3, <2>5, <3>1
  <2>6. CASE writes /\ t.holder = h
    <3>1. day'[h] = DayAfter(t)
      BY <1>1, <1>2, <2>6 DEF CardIInv, CardTypeOK
    <3>2. DayAfter(t) # Nil
      BY <1>4, <2>6, CardAssumption
    <3>3. CASE a = "check_in"
      BY <1>4, <2>1, <2>3, <2>6, <3>1, <3>2, <3>3
    <3>4. CASE a = "check_out"
      BY <1>4, <2>1, <2>3, <2>6, <3>1, <3>2, <3>4
    <3> QED BY <3>3, <3>4 DEF Moves
  <2> QED BY <2>4, <2>5, <2>6
<1> QED BY <1>1, <1>5, <1>6, <1>7, <1>8, NoTapFits DEF CardIInv, RevokedStay

LEMMA FailTapIInv ==
  ASSUME CardIInv, NEW d \in Doors, FailTap(d)
  PROVE  CardIInv'
<1>1. taps[d] \in TapRecords /\ TapFits(taps[d])
  BY DEF CardIInv
<1>2. recent' \in [Holders -> BOOLEAN]
  BY <1>1 DEF FailTap, TapFits, CardIInv, CardTypeOK
<1>3. CardTypeOK'
  BY <1>2 DEF FailTap, CardIInv, CardTypeOK
<1>4. taps' = [taps EXCEPT ![d] = NoTap] /\ UNCHANGED <<cards, day, tapEvents, withdrawn>>
  BY DEF FailTap
<1> QED BY <1>3, <1>4, NoTapFits, TapIInv

LEMMA CardStepIInv == CardIInv /\ [CardNext]_cardVars => CardIInv'
<1> SUFFICES ASSUME CardIInv, [CardNext]_cardVars PROVE CardIInv'
  OBVIOUS
<1>1. CASE UNCHANGED cardVars
  BY <1>1 DEF cardVars, CardIInv, CardTypeOK, TapFits, RevokedStay, RevokedCardsAreDead,
              EventsExplainTheDay
<1>2. CASE CardNext
  BY <1>2, AdminIInv, BeginTapIInv, LookUpCardIInv, JudgeDayIInv, CommitTapIInv, FailTapIInv
     DEF CardNext
<1> QED BY <1>1, <1>2

\* The inductive invariant of readers, cards and taps.
THEOREM CardsInductive == CardSpec => []CardIInv
BY CardInitIInv, CardStepIInv, PTL DEF CardSpec

\* Every variable keeps its type.
THEOREM CardsTyped == CardSpec => []CardTypeOK
<1>1. CardIInv => CardTypeOK
  BY DEF CardIInv
<1> QED BY <1>1, CardsInductive, PTL

\* A card that was revoked before a tap began opens nothing (revoke_card, add_employee_card,
\* process_tap), for any number of readers, cards, employees and sessions.
THEOREM RevokedAreDead == CardSpec => []RevokedCardsAreDead
<1>1. CardIInv => RevokedCardsAreDead
  BY DEF CardIInv
<1> QED BY <1>1, CardsInductive, PTL

\* The day and the events tell the same (process_tap, process_rfid_tap), for any number of
\* taps that overlap and fail.
THEOREM DayExplained == CardSpec => []EventsExplainTheDay
<1>1. CardIInv => EventsExplainTheDay
  BY DEF CardIInv
<1> QED BY <1>1, CardsInductive, PTL

-----------------------------------------------------------------------------
(* Roles *)

FormRecords ==
    [op : {"none", "create", "update", "delete", "grant"}, role : Roles \cup {Nil},
     user : RoleUsers \cup {Nil}, to : SUBSET (Permissions \cup Roles),
     seen : SUBSET (Permissions \cup Roles), alone : BOOLEAN]

\* The fields of a request, by what it is asked for.
Filled(form) ==
    /\ form.op \in {"create", "update", "delete"} =>
          form.role \in Roles /\ form.to \subseteq Permissions /\ form.seen \subseteq Permissions
    /\ form.op = "grant" =>
          form.user \in RoleUsers /\ form.to \subseteq Roles /\ form.seen \subseteq Roles

\* What a request has loaded is what there is, as far as nobody else may have changed it.
UpToDate(form) ==
    /\ form.op = "create" => form.seen = {}
    /\ form.op = "update" => roles[form.role] # "unborn"
    /\ form.op = "update" /\ form.alone /\ roles[form.role] = "there" =>
          form.seen = permitted[form.role]

\* Two updates of one role know of each other.
RivalsKnow ==
    \A f, g \in RoleForms :
        f # g /\ forms[f].op = "update" /\ forms[g].op = "update" /\ forms[f].role = forms[g].role
            => ~forms[f].alone

RoleIInv ==
    /\ RoleTypeOK
    /\ forms \in [RoleForms -> FormRecords]
    /\ \A f \in RoleForms : Filled(forms[f]) /\ UpToDate(forms[f])
    /\ RivalsKnow
    /\ \A r \in Roles : roles[r] # "there" => permitted[r] = {} /\ meant[r] = {}
    /\ RolesAreMeant

-----------------------------------------------------------------------------
LEMMA NoFormFields ==
  /\ NoForm \in FormRecords /\ NoForm.op = "none" /\ NoForm.role = Nil /\ NoForm.user = Nil
  /\ NoForm.to = {} /\ NoForm.seen = {} /\ NoForm.alone
  BY DEF NoForm, FormRecords

LEMMA RoleInitIInv == RoleInit => RoleIInv
  BY NoFormFields, RoleAssumption
     DEF RoleInit, RoleIInv, RoleTypeOK, Filled, UpToDate, RivalsKnow, RolesAreMeant

\* A request that has loaded what it asks about.
LEMMA BeginIInv ==
  ASSUME RoleIInv, NEW f \in RoleForms, NEW form \in FormRecords, BeginForm(f, form),
         Filled(form), form.op # "none", UpToDate([form EXCEPT !.alone = TRUE])
  PROVE  RoleIInv'
<1> DEFINE rivals == {g \in RoleForms : form.op = "update" /\ forms[g].op = "update"
                                        /\ forms[g].role = form.role}
           new == [form EXCEPT !.alone = (rivals = {})]
           old(g) == [forms[g] EXCEPT !.alone = @ /\ g \notin rivals]
<1> USE DEF RoleIInv
<1>1. /\ forms[f] = NoForm /\ formCount < MaxRoleForms /\ formCount' = formCount + 1
      /\ forms' = [g \in RoleForms |-> IF g = f THEN new ELSE old(g)]
      /\ UNCHANGED <<roles, permitted, granted, meant, muddled>>
  BY DEF BeginForm
<1>2. /\ new \in FormRecords /\ new.op = form.op /\ new.role = form.role /\ new.user = form.user
      /\ new.to = form.to /\ new.seen = form.seen /\ new.alone = (rivals = {})
  BY DEF FormRecords
<1>3. \A g \in RoleForms :
          /\ old(g) \in FormRecords /\ old(g).op = forms[g].op /\ old(g).role = forms[g].role
          /\ old(g).user = forms[g].user /\ old(g).to = forms[g].to /\ old(g).seen = forms[g].seen
          /\ old(g).alone = (forms[g].alone /\ g \notin rivals)
  <2> TAKE g \in RoleForms
  <2>1. forms[g] \in FormRecords
    OBVIOUS
  <2> HIDE DEF rivals
  <2> QED BY <2>1 DEF FormRecords
<1>4. \A g \in RoleForms : (g \in rivals) <=>
          (form.op = "update" /\ forms[g].op = "update" /\ forms[g].role = form.role)
  OBVIOUS
<1> HIDE DEF rivals, new, old
<1>5. forms' \in [RoleForms -> FormRecords] /\ \A g \in RoleForms : forms'[g] = IF g = f THEN new ELSE old(g)
  BY <1>1, <1>2, <1>3
<1>6. \A g \in RoleForms : Filled(forms'[g])
  <2>1. \A g \in RoleForms : Filled(old(g))
    BY <1>3 DEF Filled
  <2>2. Filled(new)
    BY <1>2 DEF Filled
  <2> QED BY <1>5, <2>1, <2>2
<1>7. \A g \in RoleForms : UpToDate(forms[g])'
  <2>1. \A g \in RoleForms : UpToDate(old(g))
    <3> TAKE g \in RoleForms
    <3>1. UpToDate(forms[g])
      OBVIOUS
    <3>2. /\ old(g).op = forms[g].op /\ old(g).role = forms[g].role
          /\ old(g).seen = forms[g].seen /\ (old(g).alone => forms[g].alone)
      BY <1>3
    <3> QED BY <3>1, <3>2 DEF UpToDate
  <2>2. UpToDate(new)
    <3> DEFINE lone == [form EXCEPT !.alone = TRUE]
    <3>1. lone.op = form.op /\ lone.role = form.role /\ lone.seen = form.seen /\ lone.alone
      BY DEF FormRecords
    <3> HIDE DEF lone
    <3> QED BY <1>2, <3>1 DEF UpToDate
  <2> QED BY <1>1, <1>5, <2>1, <2>2 DEF UpToDate
<1>8. RivalsKnow'
  <2> SUFFICES ASSUME NEW g \in RoleForms, NEW h \in RoleForms, g # h, forms'[g].op = "update",
                      forms'[h].op = "update", forms'[g].role = forms'[h].role
               PROVE  ~forms'[g].alone
    BY DEF RivalsKnow
  <2>1. CASE g = f
    <3>1. h \in rivals
      BY <1>2, <1>3, <1>4, <1>5, <2>1
    <3> QED BY <1>2, <1>5, <2>1, <3>1
  <2>2. CASE h = f
    <3>1. g \in rivals
      BY <1>2, <1>3, <1>4, <1>5, <2>2
    <3> QED BY <1>3, <1>5, <2>2, <3>1
  <2>3. CASE g # f /\ h # f
    <3>1. forms[g].op = "update" /\ forms[h].op = "update" /\ forms[g].role = forms[h].role
      BY <1>3, <1>5, <2>3
    <3>2. ~forms[g].alone
      BY <3>1 DEF RivalsKnow
    <3>3. old(g).alone => forms[g].alone
      BY <1>3
    <3> QED BY <1>5, <2>3, <3>2, <3>3
  <2> QED BY <2>1, <2>2, <2>3
<1>9. RoleTypeOK'
  <2>1. formCount' \in 0..MaxRoleForms
    BY <1>1, RoleAssumption DEF RoleTypeOK
  <2> QED BY <1>1, <1>5, <2>1 DEF RoleTypeOK, FormRecords
<1> QED BY <1>1, <1>5, <1>6, <1>7, <1>8, <1>9 DEF RolesAreMeant

LEMMA AskIInv ==
  ASSUME RoleIInv, NEW f \in RoleForms,
         \/ \E r \in Roles : AskDeleteRole(f, r) \/ \E to \in SUBSET Permissions : AskDefine(f, r, to)
         \/ \E u \in RoleUsers, to \in SUBSET Roles : AskGrant(f, u, to)
  PROVE  RoleIInv'
<1> USE DEF FormRecords, NoForm
<1>1. ASSUME NEW r \in Roles, AskDeleteRole(f, r) PROVE RoleIInv'
  <2> DEFINE form == [NoForm EXCEPT !.op = "delete", !.role = r, !.seen = permitted[r]]
  <2>1. form \in FormRecords /\ Filled(form) /\ form.op # "none"
    BY DEF RoleIInv, RoleTypeOK, Filled
  <2>2. UpToDate([form EXCEPT !.alone = TRUE])
    BY DEF UpToDate
  <2>3. BeginForm(f, form)
    BY <1>1 DEF AskDeleteRole
  <2> HIDE DEF form
  <2> QED BY <2>1, <2>2, <2>3, BeginIInv
<1>2. ASSUME NEW r \in Roles, NEW to \in SUBSET Permissions, AskDefine(f, r, to) PROVE RoleIInv'
  <2> DEFINE form == [NoForm EXCEPT !.op = IF roles[r] = "there" THEN "update" ELSE "create",
                                    !.role = r, !.to = to, !.seen = permitted[r]]
  <2>1. form \in FormRecords /\ Filled(form) /\ form.op # "none"
    BY DEF RoleIInv, RoleTypeOK, Filled
  <2>2. UpToDate([form EXCEPT !.alone = TRUE])
    BY DEF UpToDate, RoleIInv
  <2>3. BeginForm(f, form)
    BY <1>2 DEF AskDefine
  <2> HIDE DEF form
  <2> QED BY <2>1, <2>2, <2>3, BeginIInv
<1>3. ASSUME NEW u \in RoleUsers, NEW to \in SUBSET Roles, AskGrant(f, u, to) PROVE RoleIInv'
  <2> DEFINE form == [NoForm EXCEPT !.op = "grant", !.user = u, !.to = to, !.seen = granted[u]]
  <2>1. form \in FormRecords /\ Filled(form) /\ form.op # "none"
    BY DEF RoleIInv, RoleTypeOK, Filled
  <2>2. UpToDate([form EXCEPT !.alone = TRUE])
    BY DEF UpToDate
  <2>3. BeginForm(f, form)
    BY <1>3 DEF AskGrant
  <2> HIDE DEF form
  <2> QED BY <2>1, <2>2, <2>3, BeginIInv
<1> QED BY <1>1, <1>2, <1>3

\* The request is over; the others are as they were.
LEMMA EndsFields ==
  ASSUME RoleIInv, NEW f \in RoleForms, FormEnds(f)
  PROVE  /\ forms' \in [RoleForms -> FormRecords]
         /\ \A g \in RoleForms : forms'[g] = IF g = f THEN NoForm ELSE forms[g]
         /\ \A g \in RoleForms : Filled(forms'[g])
         /\ RivalsKnow'
<1>1. /\ forms' \in [RoleForms -> FormRecords]
      /\ \A g \in RoleForms : forms'[g] = IF g = f THEN NoForm ELSE forms[g]
  BY NoFormFields DEF RoleIInv, FormEnds
<1> QED BY <1>1, NoFormFields DEF RoleIInv, Filled, RivalsKnow

\* An update nobody crossed leaves what was asked for; one that was crossed is muddled.
LEMMA CommitDefineIInv ==
  ASSUME RoleIInv, NEW f \in RoleForms, CommitDefine(f)
  PROVE  RoleIInv'
<1> DEFINE form == forms[f]
           r == form.role
<1> USE DEF RoleIInv
<1>1. /\ form.op \in {"create", "update"}
      /\ form.op = "create" => roles[r] = "unborn"
      /\ form.op = "update" /\ form.to # form.seen => roles[r] = "there"
      /\ Fits(permitted[r], form)
      /\ roles' = IF form.op = "create" THEN [roles EXCEPT ![r] = "there"] ELSE roles
      /\ permitted' = [permitted EXCEPT ![r] = Linked(permitted[r], form)]
      /\ meant' = IF roles'[r] = "there" THEN [meant EXCEPT ![r] = form.to] ELSE meant
      /\ muddled' = IF form.alone THEN muddled \ {r} ELSE muddled \cup {r}
      /\ FormEnds(f) /\ UNCHANGED <<granted, formCount>>
  BY DEF CommitDefine
<1>2. /\ r \in Roles /\ form.to \subseteq Permissions /\ form.seen \subseteq Permissions
      /\ UpToDate(form) /\ form.alone \in BOOLEAN
  BY <1>1 DEF Filled, FormRecords
<1>3. Linked(permitted[r], form) \subseteq Permissions
  BY <1>2 DEF Linked, RoleTypeOK
<1>4. /\ roles' \in [Roles -> {"unborn", "there", "gone"}]
      /\ \A s \in Roles : s # r => roles'[s] = roles[s]
      /\ roles'[r] = IF form.op = "create" THEN "there" ELSE roles[r]
  BY <1>1, <1>2 DEF RoleTypeOK
<1>5. /\ permitted' \in [Roles -> SUBSET Permissions]
      /\ \A s \in Roles : s # r => permitted'[s] = permitted[s]
      /\ permitted'[r] = Linked(permitted[r], form)
  BY <1>1, <1>2, <1>3 DEF RoleTypeOK
<1>6. /\ meant' \in [Roles -> SUBSET Permissions]
      /\ \A s \in Roles : s # r => meant'[s] = meant[s]
      /\ meant'[r] = IF roles'[r] = "there" THEN form.to ELSE meant[r]
  BY <1>1, <1>2 DEF RoleTypeOK
<1>7. roles'[r] # "there" => permitted'[r] = {} /\ meant'[r] = {}
  <2> SUFFICES ASSUME roles'[r] # "there" PROVE permitted'[r] = {} /\ meant'[r] = {}
    OBVIOUS
  <2>1. roles[r] # "there" /\ form.to = form.seen /\ permitted[r] = {} /\ meant[r] = {}
    BY <1>1, <1>2, <1>4
  <2> QED BY <1>5, <1>6, <2>1 DEF Linked
<1>8. form.alone /\ roles'[r] = "there" => permitted'[r] = form.to
  <2> SUFFICES ASSUME form.alone, roles'[r] = "there" PROVE permitted'[r] = form.to
    OBVIOUS
  <2>1. form.seen = permitted[r]
    BY <1>1, <1>2, <1>4 DEF UpToDate
  <2> QED BY <1>5, <2>1 DEF Linked
<1>9. forms' \in [RoleForms -> FormRecords] /\ (\A g \in RoleForms : Filled(forms'[g])) /\ RivalsKnow'
      /\ \A g \in RoleForms : forms'[g] = IF g = f THEN NoForm ELSE forms[g]
  BY <1>1, EndsFields
<1>10. \A g \in RoleForms : UpToDate(forms[g])'
  <2> SUFFICES ASSUME NEW g \in RoleForms, g # f PROVE UpToDate(forms[g])'
    BY <1>9, NoFormFields DEF UpToDate
  <2>1. forms'[g] = forms[g] /\ UpToDate(forms[g]) /\ Filled(forms[g])
    BY <1>9
  <2>2. CASE forms[g].op = "update" /\ forms[g].role = r
    <3>1. form.op = "create" => roles[r] # "unborn"
      BY <2>1, <2>2 DEF UpToDate
    <3>2. form.op = "update" /\ ~forms[g].alone
      BY <1>1, <2>2, <3>1 DEF RivalsKnow
    <3> QED BY <1>4, <2>1, <2>2, <3>2 DEF UpToDate
  <2>3. CASE forms[g].op = "update" /\ forms[g].role # r
    BY <1>4, <1>5, <2>1, <2>3 DEF UpToDate, Filled
  <2>4. CASE forms[g].op # "update"
    BY <2>1, <2>4 DEF UpToDate
  <2> QED BY <2>2, <2>3, <2>4
<1>11. RolesAreMeant'
  <2>1. \A s \in Roles \ muddled' : permitted'[s] = meant'[s]
    <3> TAKE s \in Roles \ muddled'
    <3>1. CASE s = r
      <4>1. form.alone
        BY <1>1, <1>2, <3>1
      <4> QED BY <1>6, <1>7, <1>8, <3>1, <4>1
    <3>2. CASE s # r
      <4>1. s \notin muddled
        BY <1>1, <3>2
      <4> QED BY <1>5, <1>6, <3>2, <4>1 DEF RolesAreMeant
    <3> QED BY <3>1, <3>2
  <2>2. \A s \in Roles : roles'[s] = "gone" =>
            permitted'[s] = {} /\ \A u \in RoleUsers : s \notin granted'[u]
    <3> TAKE s \in Roles
    <3>1. roles'[s] = "gone" => roles[s] = "gone"
      BY <1>4
    <3> QED BY <1>1, <1>5, <1>7, <3>1 DEF RolesAreMeant
  <2> QED BY <2>1, <2>2 DEF RolesAreMeant
<1>12. RoleTypeOK'
  <2>1. muddled' \subseteq Roles
    BY <1>1, <1>2 DEF RoleTypeOK
  <2> QED BY <1>1, <1>4, <1>5, <1>6, <1>9, <2>1 DEF RoleTypeOK, FormRecords
<1>13. \A s \in Roles : roles'[s] # "there" => permitted'[s] = {} /\ meant'[s] = {}
  BY <1>4, <1>5, <1>6, <1>7
<1> QED BY <1>9, <1>10, <1>11, <1>12, <1>13

\* A role that is gone is not given to anybody.
LEMMA CommitGrantIInv ==
  ASSUME RoleIInv, NEW f \in RoleForms, CommitGrant(f)
  PROVE  RoleIInv'
<1> DEFINE form == forms[f]
           u == form.user
<1> USE DEF RoleIInv
<1>1. /\ form.op = "grant" /\ \A r \in form.to \ form.seen : roles[r] = "there"
      /\ granted' = [granted EXCEPT ![u] = Linked(granted[u], form)]
      /\ FormEnds(f) /\ UNCHANGED <<roles, permitted, meant, muddled, formCount>>
  BY DEF CommitGrant
<1>2. u \in RoleUsers /\ form.to \subseteq Roles
  BY <1>1 DEF Filled
<1>3. /\ granted' \in [RoleUsers -> SUBSET Roles]
      /\ \A v \in RoleUsers : granted'[v] \subseteq granted[v] \cup (form.to \ form.seen)
  BY <1>1, <1>2 DEF Linked, RoleTypeOK
<1>4. forms' \in [RoleForms -> FormRecords] /\ (\A g \in RoleForms : Filled(forms'[g])) /\ RivalsKnow'
      /\ \A g \in RoleForms : forms'[g] = IF g = f THEN NoForm ELSE forms[g]
  BY <1>1, EndsFields
<1>5. \A g \in RoleForms : UpToDate(forms[g])'
  BY <1>1, <1>4, NoFormFields DEF UpToDate
<1>6. RolesAreMeant'
  <2>1. \A r \in Roles : roles[r] = "gone" => \A v \in RoleUsers : r \notin granted'[v]
    BY <1>1, <1>3 DEF RolesAreMeant
  <2> QED BY <1>1, <2>1 DEF RolesAreMeant
<1>7. RoleTypeOK'
  BY <1>1, <1>3, <1>4 DEF RoleTypeOK, FormRecords
<1> QED BY <1>1, <1>4, <1>5, <1>6, <1>7

LEMMA CommitDeleteRoleIInv ==
  ASSUME RoleIInv, NEW f \in RoleForms, CommitDeleteRole(f)
  PROVE  RoleIInv'
<1> DEFINE r == forms[f].role
<1> USE DEF RoleIInv
<1>1. /\ forms[f].op = "delete" /\ roles[r] = "there"
      /\ roles' = [roles EXCEPT ![r] = "gone"]
      /\ permitted' = [permitted EXCEPT ![r] = {}] /\ meant' = [meant EXCEPT ![r] = {}]
      /\ granted' = [u \in RoleUsers |-> granted[u] \ {r}]
      /\ FormEnds(f) /\ UNCHANGED <<muddled, formCount>>
  BY DEF CommitDeleteRole
<1>2. r \in Roles
  BY <1>1 DEF Filled
<1>3. forms' \in [RoleForms -> FormRecords] /\ (\A g \in RoleForms : Filled(forms'[g])) /\ RivalsKnow'
      /\ \A g \in RoleForms : forms'[g] = IF g = f THEN NoForm ELSE forms[g]
  BY <1>1, EndsFields
<1>4. /\ roles'[r] = "gone" /\ permitted'[r] = {} /\ meant'[r] = {}
      /\ \A s \in Roles : s # r => /\ roles'[s] = roles[s] /\ permitted'[s] = permitted[s]
                                   /\ meant'[s] = meant[s]
  BY <1>1, <1>2 DEF RoleTypeOK
<1>5. \A g \in RoleForms : UpToDate(forms[g])'
  <2> SUFFICES ASSUME NEW g \in RoleForms, g # f PROVE UpToDate(forms[g])'
    BY <1>3, NoFormFields DEF UpToDate
  <2>1. forms'[g] = forms[g] /\ UpToDate(forms[g]) /\ Filled(forms[g])
    BY <1>3
  <2> QED BY <1>4, <2>1 DEF UpToDate, Filled
<1>6. RoleTypeOK'
  BY <1>1, <1>2, <1>3 DEF RoleTypeOK, FormRecords
<1>7. RolesAreMeant'
  <2>1. \A u \in RoleUsers : granted'[u] \subseteq granted[u] /\ r \notin granted'[u]
    BY <1>1
  <2>2. \A s \in Roles \ muddled' : permitted'[s] = meant'[s]
    <3> SUFFICES ASSUME NEW s \in Roles, s \notin muddled PROVE permitted'[s] = meant'[s]
      BY <1>1
    <3>1. CASE s = r
      BY <1>4, <3>1
    <3>2. CASE s # r
      BY <1>4, <3>2 DEF RolesAreMeant
    <3> QED BY <3>1, <3>2
  <2>3. \A s \in Roles : roles'[s] = "gone" =>
            permitted'[s] = {} /\ \A u \in RoleUsers : s \notin granted'[u]
    <3> TAKE s \in Roles
    <3>1. CASE s = r
      BY <1>4, <2>1, <3>1
    <3>2. CASE s # r
      <4> SUFFICES ASSUME roles'[s] = "gone"
                   PROVE  permitted'[s] = {} /\ \A u \in RoleUsers : s \notin granted'[u]
        OBVIOUS
      <4>1. roles[s] = "gone" /\ permitted'[s] = permitted[s]
        BY <1>4, <3>2
      <4>2. permitted[s] = {} /\ \A u \in RoleUsers : s \notin granted[u]
        BY <4>1 DEF RolesAreMeant
      <4> QED BY <2>1, <4>1, <4>2
    <3> QED BY <3>1, <3>2
  <2> QED BY <2>2, <2>3 DEF RolesAreMeant
<1> QED BY <1>3, <1>4, <1>5, <1>6, <1>7

LEMMA FormFailsIInv ==
  ASSUME RoleIInv, NEW f \in RoleForms, FormFails(f)
  PROVE  RoleIInv'
<1> USE DEF RoleIInv
<1>1. FormEnds(f) /\ UNCHANGED <<roles, permitted, granted, meant, muddled, formCount>>
  BY DEF FormFails
<1>2. forms' \in [RoleForms -> FormRecords] /\ (\A g \in RoleForms : Filled(forms'[g])) /\ RivalsKnow'
      /\ \A g \in RoleForms : forms'[g] = IF g = f THEN NoForm ELSE forms[g]
  BY <1>1, EndsFields
<1>3. \A g \in RoleForms : UpToDate(forms[g])'
  BY <1>1, <1>2, NoFormFields DEF UpToDate
<1> QED BY <1>1, <1>2, <1>3 DEF RoleTypeOK, FormRecords, RolesAreMeant

LEMMA RoleStepIInv == RoleIInv /\ [RoleNext]_roleVars => RoleIInv'
<1> SUFFICES ASSUME RoleIInv, [RoleNext]_roleVars PROVE RoleIInv'
  OBVIOUS
<1>1. CASE UNCHANGED roleVars
  BY <1>1 DEF roleVars, RoleIInv, RoleTypeOK, UpToDate, RivalsKnow, RolesAreMeant
<1>2. CASE RoleNext
  BY <1>2, AskIInv, CommitDefineIInv, CommitGrantIInv, CommitDeleteRoleIInv, FormFailsIInv DEF RoleNext
<1> QED BY <1>1, <1>2

-----------------------------------------------------------------------------
(* The theorems *)

\* The inductive invariant: besides what it is for, that an update nobody crosses has
\* loaded the permissions there are, and that two updates of one role know of each other.
THEOREM RolesInductive == RoleSpec => []RoleIInv
<1> QED BY RoleInitIInv, RoleStepIInv, PTL DEF RoleSpec

\* Roles, permissions and grants keep their types.
THEOREM RolesTyped == RoleSpec => []RoleTypeOK
<1>1. RoleIInv => RoleTypeOK
  BY DEF RoleIInv
<1> QED BY <1>1, RolesInductive, PTL

\* A role permits what was last asked for it unless two updates crossed, and a deleted
\* role is nobody's, for any number of requests (users.py, update_role, delete_role).
THEOREM RolesMeant == RoleSpec => []RolesAreMeant
<1>1. RoleIInv => RolesAreMeant
  BY DEF RoleIInv
<1> QED BY <1>1, RolesInductive, PTL

-----------------------------------------------------------------------------
(* Accounts and tokens *)

AccountOps == AdminOps \cup {"none", "login", "change"}

ConsoleRecords ==
    [op : AccountOps, actor : Accounts \cup {Nil}, target : Accounts \cup {Nil},
     row : AccountRows, rank : Ranks \cup {Nil}, epoch : 0..LastPassword, stamp : 0..LastSecond]

\* What was read of the account a when it had the stamp s and e changes is older than the
\* row by its stamp as well, unless a change of a did not bring a later stamp.
Dated(a, s, e) ==
    /\ s \in 0..LastSecond /\ e \in 0..LastPassword
    /\ e <= changes[a]
    /\ s <= accounts[a].stamp \/ a \in hasty
    /\ e < changes[a] => s < accounts[a].stamp \/ a \in hasty

\* A console that is busy works for somebody, and on an account there is unless it creates one.
Serves(k) ==
    k.op # "none" =>
        /\ k.actor \in Accounts /\ k.target \in Accounts
        /\ k.op # "create" => accounts[k.target].rank # Nil
        /\ k.op \in {"create", "rank"} => k.rank \in Ranks

ActiveSuper(a) == accounts[a].active /\ accounts[a].rank = "super"

Demotes(k, a) ==
    k.target = a /\ (k.op = "deactivate" \/ (k.op = "rank" /\ k.rank # "super"))

\* Administrators who act one after the other leave a super admin whom nobody is about to demote.
OneAtATime ==
    ~meddled =>
        /\ \A c, d \in Consoles :
              c # d /\ consoles[c].op \in AdminOps => consoles[d].op \notin AdminOps
        /\ \E a \in Accounts : ActiveSuper(a) /\ \A c \in Consoles : ~Demotes(consoles[c], a)

AccountIInv ==
    /\ AccountTypeOK
    /\ consoles \in [Consoles -> ConsoleRecords]
    /\ \A c \in Consoles : Serves(consoles[c])
    /\ \A a \in Accounts : /\ accounts[a].rank = Nil => accounts[a].stamp = 0 /\ ~accounts[a].active
                           /\ accounts[a].rank = Nil => changes[a] = 0
    /\ \A t \in tokens : Dated(t.who, t.stamp, t.epoch)
    /\ \A c \in Consoles : consoles[c].op = "login" =>
          Dated(consoles[c].actor, consoles[c].row.stamp, consoles[c].epoch)
    /\ OneAtATime

-----------------------------------------------------------------------------
LEMMA AbsentFields ==
  /\ Absent \in AccountRows /\ Absent.stamp = 0 /\ Absent.rank = Nil /\ Absent.active = FALSE
  /\ NoConsole \in ConsoleRecords /\ NoConsole.op = "none"
  /\ NoConsole.row = Absent /\ NoConsole.epoch = 0 /\ NoConsole.stamp = 0 /\ NoConsole.actor = Nil /\ NoConsole.target = Nil
<1>1. 0 \in 0..LastSecond /\ 0 \in 0..LastPassword
  BY AccountAssumption
<1>2. Absent \in AccountRows /\ Absent.stamp = 0 /\ Absent.rank = Nil /\ Absent.active = FALSE
  BY <1>1 DEF Absent, AccountRows
<1>3. NoConsole \in ConsoleRecords
  BY <1>1, <1>2 DEF NoConsole, ConsoleRecords, AccountOps
<1> QED BY <1>2, <1>3 DEF NoConsole

LEMMA AccountInitIInv == AccountInit => AccountIInv
<1> SUFFICES ASSUME AccountInit PROVE AccountIInv
  OBVIOUS
<1>1. PICK legacy \in BOOLEAN :
        accounts = [a \in Accounts |->
            IF a = Root THEN [Absent EXCEPT !.rank = "super", !.active = TRUE, !.legacy = legacy]
            ELSE Absent]
  BY DEF AccountInit
<1> DEFINE first == [Absent EXCEPT !.rank = "super", !.active = TRUE, !.legacy = legacy]
<1>2. first \in AccountRows /\ first.rank = "super" /\ first.active = TRUE /\ first.stamp = 0
  BY AbsentFields DEF AccountRows, Ranks
<1>f. accounts = [a \in Accounts |-> IF a = Root THEN first ELSE Absent]
  BY <1>1
<1> HIDE DEF first
<1>3. accounts \in [Accounts -> AccountRows]
  BY <1>f, <1>2, AbsentFields
<1>4. AccountTypeOK
  <2>1. \A c \in Consoles : consoles[c] = NoConsole
    BY DEF AccountInit
  <2>2. changes \in [Accounts -> 0..LastPassword]
    BY AccountAssumption DEF AccountInit
  <2>3. second = 1 /\ logons = 0 /\ meddled = FALSE /\ tokens = {} /\ hasty = {}
    BY DEF AccountInit
  <2>4. {0, 1} \subseteq 0..LastSecond /\ 0 \in 0..MaxLogons
    BY AccountAssumption
  <2> QED BY <1>3, <2>1, <2>2, <2>3, <2>4, AbsentFields DEF AccountTypeOK, AccountOps
<1>5. \A a \in Accounts : /\ accounts[a].rank = Nil => accounts[a].stamp = 0 /\ ~accounts[a].active
                          /\ accounts[a].rank = Nil => changes[a] = 0
  <2>1. second = 1 /\ Nil # "super" /\ \A a \in Accounts : changes[a] = 0
    BY AccountAssumption DEF AccountInit, Ranks
  <2> QED BY <1>f, <1>2, <2>1, AbsentFields
<1>6. consoles = [c \in Consoles |-> NoConsole] /\ tokens = {}
  BY DEF AccountInit
<1>7. OneAtATime
  <2>1. ActiveSuper(Root) /\ Root \in Accounts
    BY <1>f, <1>2, AccountAssumption DEF ActiveSuper
  <2>2. \A c \in Consoles : ~Demotes(consoles[c], Root) /\ consoles[c].op \notin AdminOps
    BY <1>6, AbsentFields DEF Demotes, AdminOps
  <2> QED BY <2>1, <2>2 DEF OneAtATime
<1>8. \A c \in Consoles : Serves(consoles[c]) /\ consoles[c].op # "login"
  BY <1>6, AbsentFields DEF Serves
<1>9. consoles \in [Consoles -> ConsoleRecords]
  BY <1>6, AbsentFields
<1> QED BY <1>4, <1>5, <1>6, <1>7, <1>8, <1>9 DEF AccountIInv

\* What every step but the opening of a console has to show.
LEMMA AccountKept ==
  ASSUME AccountIInv, AccountTypeOK', OneAtATime',
         \A c \in Consoles : consoles'[c] = consoles[c] \/ consoles'[c] = NoConsole,
         consoles' \in [Consoles -> ConsoleRecords],
         \A a \in Accounts : /\ accounts[a].rank # Nil => accounts'[a].rank # Nil
                             /\ accounts'[a].rank = Nil => accounts'[a].stamp = 0 /\ ~accounts'[a].active
                             /\ accounts'[a].rank = Nil => changes'[a] = changes[a],
         \A a \in Accounts : \A s, e : Dated(a, s, e) => Dated(a, s, e)',
         \A t \in tokens' : t \in tokens \/ Dated(t.who, t.stamp, t.epoch)
  PROVE  AccountIInv'
<1>1. \A c \in Consoles : Serves(consoles[c])'
  BY AbsentFields DEF AccountIInv, Serves
<1>2. \A c \in Consoles : consoles'[c].op = "login" =>
          Dated(consoles[c].actor, consoles[c].row.stamp, consoles[c].epoch)'
  <2> SUFFICES ASSUME NEW c \in Consoles, consoles'[c].op = "login"
               PROVE  Dated(consoles[c].actor, consoles[c].row.stamp, consoles[c].epoch)'
    OBVIOUS
  <2>1. consoles'[c] = consoles[c]
    BY AbsentFields
  <2>2. consoles[c].actor \in Accounts
        /\ Dated(consoles[c].actor, consoles[c].row.stamp, consoles[c].epoch)
    BY <2>1 DEF AccountIInv, Serves
  <2> QED BY <2>1, <2>2
<1>3. \A t \in tokens' : Dated(t.who, t.stamp, t.epoch)'
  <2> SUFFICES ASSUME NEW t \in tokens' PROVE Dated(t.who, t.stamp, t.epoch)'
    OBVIOUS
  <2>1. t.who \in Accounts
    BY DEF AccountTypeOK
  <2>2. Dated(t.who, t.stamp, t.epoch)
    BY DEF AccountIInv
  <2> QED BY <2>1, <2>2
<1>4. \A a \in Accounts : accounts'[a].rank = Nil => changes'[a] = 0
  BY DEF AccountIInv
<1> QED BY <1>1, <1>2, <1>3, <1>4 DEF AccountIInv

\* Nothing about an account changes that a token is dated by.
LEMMA StillDated ==
  ASSUME NEW a \in Accounts, accounts'[a].stamp = accounts[a].stamp, UNCHANGED <<changes, hasty>>,
         NEW s, NEW e, Dated(a, s, e)
  PROVE  Dated(a, s, e)'
BY DEF Dated

LEMMA OpenConsoleIInv ==
  ASSUME AccountIInv, NEW c \in Consoles, NEW k \in ConsoleRecords, OpenConsole(c, k), Serves(k),
         k.op = "login" => Dated(k.actor, k.row.stamp, k.epoch), k.op # "none",
         meddled' \in BOOLEAN, OneAtATime'
  PROVE  AccountIInv'
<1>1. /\ logons < MaxLogons /\ logons' = logons + 1 /\ consoles' = [consoles EXCEPT ![c] = k]
      /\ UNCHANGED <<second, accounts, tokens, changes, hasty>>
  BY DEF OpenConsole
<1>2. consoles' \in [Consoles -> ConsoleRecords]
      /\ \A d \in Consoles : consoles'[d] = IF d = c THEN k ELSE consoles[d]
  BY <1>1 DEF AccountIInv
<1>3. \A d \in Consoles : consoles'[d].op \in AdminOps \cup {"none", "login", "change"}
                           /\ consoles'[d].row \in AccountRows
                           /\ consoles'[d].stamp \in 0..LastSecond
  BY <1>2 DEF ConsoleRecords, AccountOps
<1>4. AccountTypeOK'
  BY <1>1, <1>3, AccountAssumption DEF AccountIInv, AccountTypeOK
<1>5. \A d \in Consoles : Serves(consoles[d])'
  BY <1>1, <1>2 DEF AccountIInv, Serves
<1>6. \A a, s, e : Dated(a, s, e) => Dated(a, s, e)'
  BY <1>1 DEF Dated
<1>7. \A d \in Consoles : consoles'[d].op = "login" =>
          Dated(consoles[d].actor, consoles[d].row.stamp, consoles[d].epoch)'
  BY <1>2, <1>6 DEF AccountIInv
<1>8. \A t \in tokens' : Dated(t.who, t.stamp, t.epoch)'
  BY <1>1, <1>6 DEF AccountIInv
<1> QED BY <1>1, <1>2, <1>4, <1>5, <1>7, <1>8 DEF AccountIInv

\* A login or a password change is no administration.
LEMMA LoginIInv ==
  ASSUME AccountIInv, NEW c \in Consoles, NEW a \in Accounts, Login(c, a) \/ ChangePassword(c, a)
  PROVE  AccountIInv'
<1>1. /\ accounts[a] \in AccountRows /\ changes[a] \in 0..LastPassword
      /\ accounts[a].stamp \in 0..LastSecond
  BY DEF AccountIInv, AccountTypeOK, AccountRows
<1>2. accounts[a].rank # Nil
  <2>1. accounts[a].active
    BY DEF Login, ChangePassword, SignedIn, Accepted
  <2> QED BY <2>1 DEF AccountIInv
<1>3. ASSUME NEW k \in ConsoleRecords, OpenConsole(c, k), UNCHANGED meddled, k.op \in {"login", "change"}
      PROVE  OneAtATime'
  <2>1. \A d \in Consoles : consoles'[d] = IF d = c THEN k ELSE consoles[d]
    BY <1>3 DEF OpenConsole, AccountIInv
  <2>2. /\ k.op \notin AdminOps /\ \A x : ~Demotes(k, x)
    BY <1>3 DEF AdminOps, Demotes
  <2>3. /\ \A x : Demotes(consoles[c], x)' => FALSE
        /\ \A d \in Consoles \ {c} : \A x : Demotes(consoles[d], x)' <=> Demotes(consoles[d], x)
        /\ \A x : ActiveSuper(x)' <=> ActiveSuper(x)
    BY <1>3, <2>1, <2>2 DEF Demotes, ActiveSuper, OpenConsole
  <2> QED BY <1>3, <2>1, <2>2, <2>3 DEF AccountIInv, OneAtATime
<1>4. CASE Login(c, a)
  <2> DEFINE k == [NoConsole EXCEPT !.op = "login", !.actor = a, !.target = a,
                                    !.row = accounts[a], !.epoch = changes[a]]
  <2>1. /\ k \in ConsoleRecords /\ k.op = "login" /\ k.actor = a /\ k.target = a
        /\ k.row = accounts[a] /\ k.epoch = changes[a]
    BY <1>1, AbsentFields DEF ConsoleRecords, AccountOps
  <2>2. OpenConsole(c, k) /\ UNCHANGED meddled
    BY <1>4 DEF Login
  <2> HIDE DEF k
  <2>3. Dated(k.actor, k.row.stamp, k.epoch)
    BY <1>1, <2>1 DEF Dated
  <2>4. Serves(k)
    BY <1>2, <2>1 DEF Serves
  <2>5. OneAtATime'
    BY <1>3, <2>1, <2>2
  <2>6. meddled' \in BOOLEAN
    BY <2>2 DEF AccountIInv, AccountTypeOK
  <2> QED BY <2>1, <2>2, <2>3, <2>4, <2>5, <2>6, OpenConsoleIInv
<1>5. CASE ChangePassword(c, a)
  <2> DEFINE k == [NoConsole EXCEPT !.op = "change", !.actor = a, !.target = a, !.row = accounts[a]]
  <2>1. k \in ConsoleRecords /\ k.op = "change" /\ k.actor = a /\ k.target = a
    BY <1>1, AbsentFields DEF ConsoleRecords, AccountOps
  <2>2. OpenConsole(c, k) /\ UNCHANGED meddled
    BY <1>5 DEF ChangePassword
  <2> HIDE DEF k
  <2>3. Serves(k)
    BY <1>2, <2>1 DEF Serves
  <2>4. OneAtATime'
    BY <1>3, <2>1, <2>2
  <2>5. meddled' \in BOOLEAN
    BY <2>2 DEF AccountIInv, AccountTypeOK
  <2> QED BY <2>1, <2>2, <2>3, <2>4, <2>5, OpenConsoleIInv
<1> QED BY <1>4, <1>5

\* Who may act on whom leaves a super admin behind, if nobody else acts.
LEMMA AdministerIInv ==
  ASSUME AccountIInv, NEW c \in Consoles, NEW op \in AdminOps, NEW actor \in Accounts,
         NEW target \in Accounts, NEW rank \in Ranks, Administer(c, op, actor, target, rank)
  PROVE  AccountIInv'
<1> DEFINE row == accounts[target]
           k == [NoConsole EXCEPT !.op = op, !.actor = actor, !.target = target,
                                  !.row = row, !.rank = rank]
<1>1. row \in AccountRows
  BY DEF AccountIInv, AccountTypeOK
<1>2. k \in ConsoleRecords /\ k.op = op /\ k.actor = actor /\ k.target = target /\ k.rank = rank
  BY <1>1, AbsentFields DEF ConsoleRecords, AccountOps
<1>3. /\ OpenConsole(c, k) /\ meddled' = (meddled \/ Meddling(c))
      /\ accounts[actor].active
      /\ (op = "create") <=> (row.rank = Nil)
      /\ OnlySuper(actor, row, rank) /\ KeepsOwnRank(op, actor, target, row, rank)
  BY DEF Administer, SignedIn, Accepted
<1> HIDE DEF k
<1>4. Serves(k)
  BY <1>2, <1>3 DEF Serves
<1>5. OneAtATime'
  <2> SUFFICES ASSUME ~meddled'
               PROVE  /\ \A d, e \in Consoles :
                            d # e /\ consoles'[d].op \in AdminOps => consoles'[e].op \notin AdminOps
                      /\ \E a \in Accounts : ActiveSuper(a)' /\ \A d \in Consoles : ~Demotes(consoles[d], a)'
    BY DEF OneAtATime
  <2>1. /\ ~meddled /\ \A d \in Consoles \ {c} : consoles[d].op \notin AdminOps
        /\ accounts' = accounts
    BY <1>3 DEF Meddling, OpenConsole, AccountIInv, AccountTypeOK
  <2>2. \A d \in Consoles : consoles'[d] = IF d = c THEN k ELSE consoles[d]
    BY <1>3 DEF OpenConsole, AccountIInv
  <2>3. \A d \in Consoles \ {c} : \A a : ~Demotes(consoles[d], a)'
    BY <2>1, <2>2 DEF Demotes, AdminOps
  <2>4. PICK s \in Accounts : ActiveSuper(s)
    BY <2>1 DEF OneAtATime, AccountIInv
  <2>5. \E a \in Accounts : ActiveSuper(a) /\ ~Demotes(k, a)
    <3>1. CASE row.rank = "super"
      <4>1. accounts[actor].rank = "super"
        BY <1>3, <3>1 DEF OnlySuper
      <4>2. ~Demotes(k, actor)
        BY <1>2, <1>3, <3>1 DEF Demotes, KeepsOwnRank
      <4> QED BY <1>3, <4>1, <4>2 DEF ActiveSuper
    <3>2. CASE row.rank # "super"
      BY <1>2, <2>4, <3>2 DEF ActiveSuper, Demotes
    <3> QED BY <3>1, <3>2
  <2>6. PICK a \in Accounts : ActiveSuper(a) /\ ~Demotes(k, a)
    BY <2>5
  <2>7. ActiveSuper(a)' /\ \A d \in Consoles : ~Demotes(consoles[d], a)'
    BY <2>1, <2>2, <2>3, <2>6 DEF ActiveSuper, Demotes
  <2>8. \A d, e \in Consoles :
            d # e /\ consoles'[d].op \in AdminOps => consoles'[e].op \notin AdminOps
    BY <2>1, <2>2
  <2> QED BY <2>7, <2>8
<1>6. meddled' \in BOOLEAN
  BY <1>3 DEF AccountIInv, AccountTypeOK
<1>7. k.op # "none" /\ k.op # "login"
  BY <1>2 DEF AdminOps
<1> QED BY <1>2, <1>3, <1>4, <1>5, <1>6, <1>7, OpenConsoleIInv

\* A console that is shut, while nobody's rank is lost and nobody is deactivated.
LEMMA StillOneAtATime ==
  ASSUME AccountIInv, UNCHANGED meddled,
         \A c \in Consoles : consoles'[c] = consoles[c] \/ consoles'[c] = NoConsole,
         \A a \in Accounts : ActiveSuper(a) => ActiveSuper(a)'
  PROVE  OneAtATime'
<1>1. \A c \in Consoles : consoles'[c].op \in AdminOps => consoles[c].op \in AdminOps
  BY AbsentFields DEF AdminOps
<1>2. \A c \in Consoles : \A a : Demotes(consoles[c], a)' => Demotes(consoles[c], a)
  BY AbsentFields DEF Demotes
<1> QED BY <1>1, <1>2 DEF AccountIInv, OneAtATime

LEMMA ShutConsole ==
  ASSUME AccountIInv, NEW c \in Consoles, Shut(c)
  PROVE  /\ consoles' \in [Consoles -> ConsoleRecords]
         /\ \A d \in Consoles : consoles'[d] = IF d = c THEN NoConsole ELSE consoles[d]
         /\ \A d \in Consoles : consoles'[d].op \in AdminOps \cup {"none", "login", "change"}
                                /\ consoles'[d].row \in AccountRows
                                /\ consoles'[d].stamp \in 0..LastSecond
BY AbsentFields DEF AccountIInv, AccountTypeOK, Shut, ConsoleRecords

LEMMA RegisterIInv ==
  ASSUME AccountIInv, NEW c \in Consoles, NEW a \in Accounts, RegisterAccount(c, a)
  PROVE  AccountIInv'
<1> DEFINE new == [Absent EXCEPT !.rank = "plain", !.active = TRUE]
           token == [who |-> a, stamp |-> 0, epoch |-> 0]
<1>1. /\ accounts[a].rank = Nil /\ logons < MaxLogons /\ logons' = logons + 1
      /\ accounts' = [accounts EXCEPT ![a] = new] /\ tokens' = tokens \cup {token}
      /\ UNCHANGED <<second, changes, hasty, consoles, meddled>>
  BY DEF RegisterAccount
<1>2. new \in AccountRows /\ new.rank = "plain" /\ new.stamp = 0
  BY AbsentFields DEF AccountRows, Ranks
<1>3. accounts[a].stamp = 0 /\ second \in 0..LastSecond /\ changes[a] \in 0..LastPassword
  BY <1>1 DEF AccountIInv, AccountTypeOK
<1> HIDE DEF new
<1>4. \A b \in Accounts : accounts'[b] = IF b = a THEN new ELSE accounts[b]
  BY <1>1 DEF AccountIInv, AccountTypeOK
<1>5. accounts' \in [Accounts -> AccountRows]
  BY <1>1, <1>2 DEF AccountIInv, AccountTypeOK
<1>6. tokens' \subseteq [who : Accounts, stamp : 0..LastSecond, epoch : 0..LastPassword]
  <2>1. 0 \in 0..LastSecond /\ 0 \in 0..LastPassword
    BY AccountAssumption
  <2> QED BY <1>1, <2>1 DEF AccountIInv, AccountTypeOK
<1>7. AccountTypeOK'
  BY <1>1, <1>5, <1>6, AccountAssumption DEF AccountIInv, AccountTypeOK
<1>8. \A b \in Accounts : /\ accounts[b].rank # Nil => accounts'[b].rank # Nil
                          /\ accounts'[b].stamp = accounts[b].stamp
                          /\ accounts'[b].rank = Nil => accounts'[b].stamp = 0 /\ ~accounts'[b].active
                          /\ accounts'[b].rank = Nil => changes'[b] = changes[b]
  <2>1. Nil # "plain"
    BY AccountAssumption DEF Ranks
  <2> QED BY <1>1, <1>2, <1>3, <1>4, <2>1 DEF AccountIInv
<1>9. \A b \in Accounts : \A s, e : Dated(b, s, e) => Dated(b, s, e)'
  BY <1>1, <1>8, StillDated
<1>10. \A t \in tokens' : t \in tokens \/ Dated(t.who, t.stamp, t.epoch)
  <2>1. 0 \in 0..LastSecond /\ 0 \in 0..LastPassword /\ changes[a] = 0
    BY <1>1, AccountAssumption DEF AccountIInv
  <2>2. Dated(a, 0, 0)
    BY <1>3, <2>1 DEF Dated
  <2> QED BY <1>1, <2>2
<1>11. OneAtATime'
  <2>1. \A b \in Accounts : ActiveSuper(b) => ActiveSuper(b)'
    <3>1. Nil # "super"
      BY AccountAssumption DEF Ranks
    <3> QED BY <1>1, <1>4, <3>1 DEF ActiveSuper
  <2> QED BY <1>1, <2>1, StillOneAtATime
<1>12. consoles' \in [Consoles -> ConsoleRecords]
  BY <1>1 DEF AccountIInv
<1> QED BY <1>1, <1>7, <1>8, <1>9, <1>10, <1>11, <1>12, AccountKept

\* A token is as old as the row its login read.
LEMMA IssueTokenIInv ==
  ASSUME AccountIInv, NEW c \in Consoles, IssueToken(c)
  PROVE  AccountIInv'
<1> DEFINE k == consoles[c]
           a == k.actor
           token == [who |-> a, stamp |-> k.row.stamp, epoch |-> k.epoch]
           new == [accounts[a] EXCEPT !.password = k.row.password, !.legacy = FALSE]
<1>1. /\ k.op = "login" /\ tokens' = tokens \cup {token} /\ Shut(c)
      /\ accounts' = IF k.row.legacy THEN [accounts EXCEPT ![a] = new] ELSE accounts
      /\ UNCHANGED <<second, changes, hasty, logons, meddled>>
  BY DEF IssueToken
<1>2. /\ k \in ConsoleRecords /\ a \in Accounts /\ k.row \in AccountRows
      /\ Dated(a, k.row.stamp, k.epoch) /\ accounts[a] \in AccountRows
  BY <1>1 DEF AccountIInv, AccountTypeOK, Serves
<1>3. /\ new \in AccountRows /\ new.rank = accounts[a].rank /\ new.stamp = accounts[a].stamp
      /\ new.active = accounts[a].active
  BY <1>2 DEF AccountRows
<1>4. token \in [who : Accounts, stamp : 0..LastSecond, epoch : 0..LastPassword]
      /\ Dated(token.who, token.stamp, token.epoch)
  BY <1>2 DEF Dated
<1> HIDE DEF new, token
<1>5. /\ accounts' \in [Accounts -> AccountRows]
      /\ \A b \in Accounts : /\ accounts'[b].rank = accounts[b].rank
                             /\ accounts'[b].stamp = accounts[b].stamp
                             /\ accounts'[b].active = accounts[b].active
  BY <1>1, <1>3 DEF AccountIInv, AccountTypeOK
<1>6. AccountTypeOK'
  BY <1>1, <1>4, <1>5, ShutConsole DEF AccountIInv, AccountTypeOK
<1>7. \A b \in Accounts : /\ accounts[b].rank # Nil => accounts'[b].rank # Nil
                          /\ accounts'[b].rank = Nil => accounts'[b].stamp = 0 /\ ~accounts'[b].active
                          /\ accounts'[b].rank = Nil => changes'[b] = changes[b]
  BY <1>1, <1>5 DEF AccountIInv
<1>8. \A b \in Accounts : \A s, e : Dated(b, s, e) => Dated(b, s, e)'
  BY <1>1, <1>5, StillDated
<1>9. OneAtATime'
  <2>1. \A b \in Accounts : ActiveSuper(b) => ActiveSuper(b)'
    BY <1>5 DEF ActiveSuper
  <2> QED BY <1>1, <2>1, ShutConsole, StillOneAtATime
<1>10. \A t \in tokens' : t \in tokens \/ Dated(t.who, t.stamp, t.epoch)
  BY <1>1, <1>4
<1> QED BY <1>1, <1>6, <1>7, <1>8, <1>9, <1>10, ShutConsole, AccountKept

\* The second is taken: nothing else of the console changes, nor anything it is judged by.
LEMMA StampPasswordIInv ==
  ASSUME AccountIInv, NEW c \in Consoles, StampPassword(c)
  PROVE  AccountIInv'
<1> DEFINE k == [consoles[c] EXCEPT !.stamp = second]
<1>1. /\ consoles[c].op \in {"change", "reset"} /\ consoles' = [consoles EXCEPT ![c] = k]
      /\ UNCHANGED <<second, accounts, tokens, changes, hasty, logons, meddled>>
  BY DEF StampPassword
<1>2. consoles[c] \in ConsoleRecords /\ second \in 0..LastSecond
  BY DEF AccountIInv, AccountTypeOK
<1>3. /\ k \in ConsoleRecords /\ k.op = consoles[c].op /\ k.actor = consoles[c].actor
      /\ k.target = consoles[c].target /\ k.rank = consoles[c].rank
  BY <1>2 DEF ConsoleRecords
<1> HIDE DEF k
<1>4. /\ consoles' \in [Consoles -> ConsoleRecords]
      /\ \A d \in Consoles : consoles'[d] = IF d = c THEN k ELSE consoles[d]
  BY <1>1, <1>3 DEF AccountIInv
<1>5. \A d \in Consoles : /\ consoles'[d].op \in AdminOps \cup {"none", "login", "change"}
                           /\ consoles'[d].row \in AccountRows
                           /\ consoles'[d].stamp \in 0..LastSecond
  BY <1>4 DEF ConsoleRecords, AccountOps
<1>6. AccountTypeOK'
  BY <1>1, <1>5 DEF AccountIInv, AccountTypeOK
<1>7. \A d \in Consoles : Serves(consoles[d])'
  BY <1>1, <1>3, <1>4 DEF AccountIInv, Serves
<1>8. \A a, s, e : Dated(a, s, e) => Dated(a, s, e)'
  BY <1>1 DEF Dated
<1>9. \A d \in Consoles : consoles'[d].op = "login" =>
          Dated(consoles[d].actor, consoles[d].row.stamp, consoles[d].epoch)'
  BY <1>1, <1>3, <1>4, <1>8 DEF AccountIInv
<1>10. \A t \in tokens' : Dated(t.who, t.stamp, t.epoch)'
  BY <1>1, <1>8 DEF AccountIInv
<1>11. /\ \A d \in Consoles : consoles'[d].op = consoles[d].op
       /\ \A d \in Consoles : \A a : Demotes(consoles[d], a)' <=> Demotes(consoles[d], a)
       /\ \A a : ActiveSuper(a)' <=> ActiveSuper(a)
  BY <1>1, <1>3, <1>4 DEF Demotes, ActiveSuper
<1>12. OneAtATime'
  BY <1>1, <1>11 DEF AccountIInv, OneAtATime
<1> QED BY <1>1, <1>4, <1>6, <1>7, <1>9, <1>10, <1>12 DEF AccountIInv

\* What was read before the change has an older stamp, or the change has none that is later.
LEMMA CommitPasswordIInv ==
  ASSUME AccountIInv, NEW c \in Consoles, CommitPassword(c)
  PROVE  AccountIInv'
<1> DEFINE a == consoles[c].target
           stamp == consoles[c].stamp
           new == Stamped(accounts[a], a, stamp)
<1>1. /\ consoles[c].op \in {"change", "reset"} /\ changes[a] < LastPassword
      /\ accounts' = [accounts EXCEPT ![a] = new]
      /\ changes' = [changes EXCEPT ![a] = changes[a] + 1]
      /\ hasty' = IF stamp <= accounts[a].stamp THEN hasty \cup {a} ELSE hasty
      /\ Shut(c) /\ UNCHANGED <<second, tokens, logons, meddled>>
  BY DEF CommitPassword
<1>2. /\ a \in Accounts /\ accounts[a].rank # Nil /\ accounts[a] \in AccountRows
      /\ changes[a] \in 0..LastPassword /\ stamp \in 0..LastSecond
      /\ accounts[a].stamp \in 0..LastSecond
  BY <1>1 DEF AccountIInv, AccountTypeOK, Serves, AccountRows
<1>3. changes[a] + 1 \in 0..LastPassword
  BY <1>1, <1>2, AccountAssumption
<1>4. /\ new \in AccountRows /\ new.rank = accounts[a].rank /\ new.active = accounts[a].active
      /\ new.stamp = stamp
  BY <1>2, <1>3 DEF Stamped, AccountRows
<1> HIDE DEF new, stamp
<1>5. /\ accounts' \in [Accounts -> AccountRows]
      /\ \A b \in Accounts : accounts'[b] = IF b = a THEN new ELSE accounts[b]
      /\ changes' \in [Accounts -> 0..LastPassword]
      /\ \A b \in Accounts : changes'[b] = IF b = a THEN changes[a] + 1 ELSE changes[b]
  BY <1>1, <1>2, <1>3, <1>4 DEF AccountIInv, AccountTypeOK
<1>6. AccountTypeOK'
  BY <1>1, <1>2, <1>5, ShutConsole DEF AccountIInv, AccountTypeOK
<1>7. \A b \in Accounts : /\ accounts[b].rank # Nil => accounts'[b].rank # Nil
                          /\ accounts'[b].rank = Nil => accounts'[b].stamp = 0 /\ ~accounts'[b].active
                          /\ accounts'[b].rank = Nil => changes'[b] = changes[b]
  BY <1>1, <1>2, <1>4, <1>5 DEF AccountIInv
<1>8. \A b \in Accounts : \A s, e : Dated(b, s, e) => Dated(b, s, e)'
  <2> SUFFICES ASSUME NEW b \in Accounts, NEW s, NEW e, Dated(b, s, e) PROVE Dated(b, s, e)'
    OBVIOUS
  <2>1. CASE b = a
    <3>1. /\ accounts'[b].stamp = stamp /\ changes'[b] = changes[b] + 1 /\ hasty \subseteq hasty'
          /\ s \in 0..LastSecond /\ e \in 0..LastPassword
          /\ s <= accounts[b].stamp \/ b \in hasty
          /\ e <= changes[b]
      BY <1>1, <1>4, <1>5, <2>1 DEF Dated
    <3>2. s < stamp \/ b \in hasty'
      <4>1. CASE stamp <= accounts[b].stamp
        BY <1>1, <2>1, <4>1
      <4>2. CASE accounts[b].stamp < stamp
        BY <1>2, <2>1, <3>1, <4>2
      <4> QED BY <1>2, <2>1, <4>1, <4>2
    <3> QED BY <1>2, <2>1, <3>1, <3>2 DEF Dated
  <2>2. CASE b # a
    BY <1>1, <1>5, <2>2 DEF Dated
  <2> QED BY <2>1, <2>2
<1>9. OneAtATime'
  <2>1. \A b \in Accounts : ActiveSuper(b) => ActiveSuper(b)'
    BY <1>4, <1>5 DEF ActiveSuper
  <2> QED BY <1>1, <2>1, ShutConsole, StillOneAtATime
<1> QED BY <1>1, <1>6, <1>7, <1>8, <1>9, ShutConsole, AccountKept

LEMMA CommitUserIInv ==
  ASSUME AccountIInv, NEW c \in Consoles, CommitUser(c)
  PROVE  AccountIInv'
<1> DEFINE a == consoles[c].target
           new == [Absent EXCEPT !.rank = consoles[c].rank, !.active = TRUE]
<1>1. /\ consoles[c].op = "create" /\ accounts[a].rank = Nil
      /\ accounts' = [accounts EXCEPT ![a] = new]
      /\ Shut(c) /\ UNCHANGED <<second, tokens, changes, hasty, logons, meddled>>
  BY DEF CommitUser
<1>2. a \in Accounts /\ consoles[c].rank \in Ranks /\ consoles[c].rank # Nil /\ accounts[a].stamp = 0
  BY <1>1, AccountAssumption DEF AccountIInv, Serves
<1>3. new \in AccountRows /\ new.rank # Nil /\ new.stamp = 0
  BY <1>2, AbsentFields DEF AccountRows
<1> HIDE DEF new
<1>4. /\ accounts' \in [Accounts -> AccountRows]
      /\ \A b \in Accounts : accounts'[b] = IF b = a THEN new ELSE accounts[b]
  BY <1>1, <1>3 DEF AccountIInv, AccountTypeOK
<1>5. AccountTypeOK'
  BY <1>1, <1>4, ShutConsole DEF AccountIInv, AccountTypeOK
<1>6. \A b \in Accounts : /\ accounts[b].rank # Nil => accounts'[b].rank # Nil
                          /\ accounts'[b].stamp = accounts[b].stamp
                          /\ accounts'[b].rank = Nil => accounts'[b].stamp = 0 /\ ~accounts'[b].active
                          /\ accounts'[b].rank = Nil => changes'[b] = changes[b]
  BY <1>1, <1>2, <1>3, <1>4 DEF AccountIInv
<1>7. \A b \in Accounts : \A s, e : Dated(b, s, e) => Dated(b, s, e)'
  BY <1>1, <1>6, StillDated
<1>8. OneAtATime'
  <2>1. Nil # "super"
    BY AccountAssumption DEF Ranks
  <2>2. \A b \in Accounts : ActiveSuper(b) => ActiveSuper(b)'
    BY <1>1, <1>4, <2>1 DEF ActiveSuper
  <2> QED BY <1>1, <2>2, ShutConsole, StillOneAtATime
<1> QED BY <1>1, <1>5, <1>6, <1>7, <1>8, ShutConsole, AccountKept

\* Who is demoted is not the super admin that is kept in mind.
LEMMA CommitUpdateIInv ==
  ASSUME AccountIInv, NEW c \in Consoles, CommitUpdate(c)
  PROVE  AccountIInv'
<1> DEFINE k == consoles[c]
           a == k.target
           row == accounts[a]
<1>1. /\ k.op \in {"rank", "deactivate", "activate"}
      /\ Shut(c) /\ UNCHANGED <<second, tokens, changes, hasty, logons, meddled>>
  BY DEF CommitUpdate
<1>2. /\ a \in Accounts /\ row \in AccountRows /\ row.rank # Nil
      /\ k.op = "rank" => k.rank \in Ranks /\ k.rank # Nil
  BY <1>1, AccountAssumption DEF AccountIInv, AccountTypeOK, Serves
<1>3. \E new \in AccountRows :
        /\ accounts' = [accounts EXCEPT ![a] = new] /\ new.rank # Nil /\ new.stamp = row.stamp
        /\ ActiveSuper(a) => Demotes(k, a) \/ (new.active /\ new.rank = "super")
  <2>1. CASE k.op = "rank"
    <3> DEFINE new == [row EXCEPT !.rank = k.rank]
    <3>1. accounts' = [accounts EXCEPT ![a] = new]
      BY <2>1 DEF CommitUpdate
    <3>2. new \in AccountRows /\ new.rank = k.rank /\ new.stamp = row.stamp /\ new.active = row.active
      BY <1>2, <2>1 DEF AccountRows
    <3> HIDE DEF new
    <3> QED BY <1>2, <2>1, <3>1, <3>2 DEF ActiveSuper, Demotes
  <2>2. CASE k.op = "deactivate"
    <3> DEFINE new == [row EXCEPT !.active = FALSE]
    <3>1. accounts' = [accounts EXCEPT ![a] = new]
      BY <2>2 DEF CommitUpdate
    <3>2. new \in AccountRows /\ new.rank = row.rank /\ new.stamp = row.stamp
      BY <1>2 DEF AccountRows
    <3> HIDE DEF new
    <3> QED BY <1>2, <2>2, <3>1, <3>2 DEF Demotes
  <2>3. CASE k.op = "activate"
    <3> DEFINE new == [row EXCEPT !.active = TRUE]
    <3>1. accounts' = [accounts EXCEPT ![a] = new]
      BY <2>3 DEF CommitUpdate
    <3>2. new \in AccountRows /\ new.rank = row.rank /\ new.stamp = row.stamp /\ new.active = TRUE
      BY <1>2 DEF AccountRows
    <3> HIDE DEF new
    <3> QED BY <1>2, <3>1, <3>2 DEF ActiveSuper
  <2> QED BY <1>1, <2>1, <2>2, <2>3
<1>4. PICK new \in AccountRows :
        /\ accounts' = [accounts EXCEPT ![a] = new] /\ new.rank # Nil /\ new.stamp = row.stamp
        /\ ActiveSuper(a) => Demotes(k, a) \/ (new.active /\ new.rank = "super")
  BY <1>3
<1>5. /\ accounts' \in [Accounts -> AccountRows]
      /\ \A b \in Accounts : accounts'[b] = IF b = a THEN new ELSE accounts[b]
  BY <1>4 DEF AccountIInv, AccountTypeOK
<1>6. AccountTypeOK'
  BY <1>1, <1>5, ShutConsole DEF AccountIInv, AccountTypeOK
<1>7. \A b \in Accounts : /\ accounts[b].rank # Nil => accounts'[b].rank # Nil
                          /\ accounts'[b].stamp = accounts[b].stamp
                          /\ accounts'[b].rank = Nil => accounts'[b].stamp = 0 /\ ~accounts'[b].active
                          /\ accounts'[b].rank = Nil => changes'[b] = changes[b]
  BY <1>1, <1>2, <1>4, <1>5 DEF AccountIInv
<1>8. \A b \in Accounts : \A s, e : Dated(b, s, e) => Dated(b, s, e)'
  BY <1>1, <1>7, StillDated
<1>9. OneAtATime'
  <2>1. \A d \in Consoles : consoles'[d].op \in AdminOps => d # c /\ consoles'[d] = consoles[d]
    BY <1>1, ShutConsole, AbsentFields DEF AdminOps
  <2>2. \A d \in Consoles : \A b : Demotes(consoles[d], b)' => Demotes(consoles[d], b)
    BY <1>1, ShutConsole, AbsentFields DEF Demotes
  <2>3. \A b \in Accounts : ActiveSuper(b) /\ ~Demotes(k, b) => ActiveSuper(b)'
    BY <1>4, <1>5 DEF ActiveSuper
  <2> HIDE DEF k
  <2>4. \A b \in Accounts : ActiveSuper(b) /\ (\A d \in Consoles : ~Demotes(consoles[d], b))
            => ActiveSuper(b)' /\ \A d \in Consoles : ~Demotes(consoles[d], b)'
    BY <2>2, <2>3 DEF k
  <2> QED BY <1>1, <2>1, <2>4 DEF AccountIInv, OneAtATime
<1> QED BY <1>1, <1>6, <1>7, <1>8, <1>9, ShutConsole, AccountKept

LEMMA ConsoleFailsIInv ==
  ASSUME AccountIInv, NEW c \in Consoles, ConsoleFails(c)
  PROVE  AccountIInv'
<1>1. Shut(c) /\ UNCHANGED <<second, accounts, tokens, changes, hasty, logons, meddled>>
  BY DEF ConsoleFails
<1>2. AccountTypeOK'
  BY <1>1, ShutConsole DEF AccountIInv, AccountTypeOK
<1>3. \A b \in Accounts : \A s, e : Dated(b, s, e) => Dated(b, s, e)'
  BY <1>1, StillDated
<1>4. OneAtATime'
  BY <1>1, ShutConsole, StillOneAtATime DEF ActiveSuper
<1> QED BY <1>1, <1>2, <1>3, <1>4, ShutConsole, AccountKept DEF AccountIInv

LEMMA AccountStepIInv == AccountIInv /\ [AccountNext]_accountVars => AccountIInv'
<1> SUFFICES ASSUME AccountIInv, [AccountNext]_accountVars PROVE AccountIInv'
  OBVIOUS
<1>1. CASE UNCHANGED accountVars
  BY <1>1 DEF accountVars, AccountIInv, AccountTypeOK, Serves, Dated, OneAtATime, ActiveSuper, Demotes
<1>2. CASE SecondPasses
  <2>1. /\ second < LastSecond /\ second' = second + 1
        /\ UNCHANGED <<accounts, tokens, changes, hasty, consoles, logons, meddled>>
    BY <1>2 DEF SecondPasses
  <2>2. AccountTypeOK'
    BY <2>1, AccountAssumption DEF AccountIInv, AccountTypeOK, AccountRows
  <2>3. OneAtATime'
    BY <2>1, StillOneAtATime DEF ActiveSuper
  <2> QED BY <2>1, <2>2, <2>3, StillDated, AccountKept DEF AccountIInv
<1>3. ASSUME NEW c \in Consoles, NEW a \in Accounts, NEW b \in Accounts, NEW rank \in Ranks,
             CreateUser(c, a, b, rank) \/ \E op \in AdminOps : UpdateUser(c, op, a, b, rank)
      PROVE  AccountIInv'
  <2>1. "create" \in AdminOps
    BY DEF AdminOps
  <2> QED BY <1>3, <2>1, AdministerIInv DEF CreateUser, UpdateUser
<1> QED BY <1>1, <1>2, <1>3, LoginIInv, RegisterIInv, IssueTokenIInv, StampPasswordIInv,
           CommitPasswordIInv, CommitUserIInv, CommitUpdateIInv, ConsoleFailsIInv DEF AccountNext

\* The inductive invariant of accounts: what was read is dated by the row, unless a change
\* did not bring a later second, and who administers alone keeps a super admin.
THEOREM AccountInductive == AccountSpec => []AccountIInv
BY AccountInitIInv, AccountStepIInv, PTL DEF AccountSpec

\* A password change ends the tokens of the password before (issue_token, get_current_user,
\* change_password), unless two changes took one second or were committed in the other order
\* than their seconds, for any number of accounts, sessions, changes and seconds.
THEOREM TokensEnd == AccountSpec => []TokensEndWithPassword
<1>1. AccountIInv => TokensEndWithPassword
  <2> SUFFICES ASSUME AccountIInv, NEW t \in tokens, Accepted(t)
               PROVE  t.epoch = changes[t.who] \/ t.who \in hasty
    BY DEF TokensEndWithPassword
  <2>1. t.who \in Accounts /\ Dated(t.who, t.stamp, t.epoch)
    BY DEF AccountIInv, AccountTypeOK
  <2>2. accounts[t.who].stamp \in 0..LastSecond /\ changes[t.who] \in 0..LastPassword
    BY <2>1 DEF AccountIInv, AccountTypeOK, AccountRows
  <2> QED BY <2>1, <2>2, AccountAssumption DEF Dated, Accepted
<1> QED BY <1>1, AccountInductive, PTL

\* Administrators who act one after the other never run out of active super admins
\* (update_user), however many there are.
THEOREM SuperAdminStays == AccountSpec => []SuperAdminRemains
<1>1. AccountIInv => SuperAdminRemains
  BY DEF AccountIInv, OneAtATime, SuperAdminRemains, ActiveSuper
<1> QED BY <1>1, AccountInductive, PTL

-----------------------------------------------------------------------------
(* Visitors *)

Sessions == Desks \cup {Job}

Active(h) == handling[h].stage \in {"read", "touched"}
Touched(h) == handling[h].stage = "touched"

\* Every end of a visit is set from a clock that is not yet past its bound.
EndsFit(v) == v \in Visitor /\ v.ends <= LastVisitTime + VisitHours

\* What a session keeps of its request.
Handles(h, r) ==
    /\ r \in Handlers /\ EndsFit(r.seen) /\ r.at <= LastVisitTime
    /\ r.stage # "dead" /\ (r.stage = "none" <=> r.op = "none")
    /\ r.stage = "touched" => r.op \in Purges \cup {"enroll"}
    /\ r.op = "check_in" => r.seen.approval \in {"approved", "security_approved"}
    /\ r.op \in PhotoOps => r.photo \in photoIds
    /\ h \in Desks => r.op # "expire"

\* The photos a visitor has had so far, of which any few have a newest.
PhotosOrdered == \A S \in SUBSET photoIds : S # {} => \E p \in S : \A q \in S : q <= p

\* Without overlaps and failures: what an active session read is still so; the index is
\* as the last that touched it left it.
Orderly ==
    /\ \A h \in Sessions : Active(h) => handling[h].seen = visitor /\ handling[h].flags = primary
    /\ \A h \in Sessions :
          Touched(h) => \/ \E g \in Sessions \ {h} : Touched(g)
                        \/ faceIn = (handling[h].op = "enroll")
    /\ (\A h \in Sessions : ~Touched(h)) => visitor.registered = faceIn
    /\ visitor.approval = "rejected" => visitor.status # "checked_in"
    /\ primary = {visitor.url} \cap Photos
    /\ visitor.url \in Photos => visitor.url \in photos
    /\ visitor.url = Nil => photos = {}

VisitIInv ==
    /\ VisitTypeOK
    /\ EndsFit(visitor)
    /\ \A h \in Sessions : Handles(h, handling[h])
    /\ PhotosOrdered
    /\ crossed \/ Orderly

LEMMA VisitTypes ==
  ASSUME VisitIInv
  PROVE  /\ asks \in [Desks -> SUBSET (VisitOps \ {"expire"})]
         /\ visitTime \in Nat /\ visitTime <= LastVisitTime
         /\ LastVisitTime \in Nat /\ VisitHours \in Nat /\ FaceBuffer \in Nat
         /\ visitor \in Visitor /\ EndsFit(visitor)
         /\ photos \subseteq photoIds /\ primary \subseteq photos /\ photoIds \subseteq Photos
         /\ Photos \subseteq Nat \ {0} /\ Nil \notin Photos /\ Job \notin Desks
         /\ handling \in [Sessions -> Handlers]
         /\ \A h \in Sessions : Handles(h, handling[h])
         /\ faceIn \in BOOLEAN /\ crossed \in BOOLEAN
         /\ requests \in 0..MaxRequests /\ jobErrors \in 0..MaxJobErrors
         /\ MaxRequests \in Nat /\ MaxJobErrors \in Nat
<1>1. VisitTypeOK /\ EndsFit(visitor) /\ \A h \in Sessions : Handles(h, handling[h])
  BY DEF VisitIInv
<1>2. asks \in [Desks -> SUBSET (VisitOps \ {"expire"})]
  BY <1>1, VisitorAssumption DEF VisitTypeOK
<1>3. /\ LastVisitTime \in Nat /\ VisitHours \in Nat /\ FaceBuffer \in Nat
      /\ MaxRequests \in Nat /\ MaxJobErrors \in Nat
      /\ Photos \subseteq Nat \ {0} /\ Nil \notin Photos /\ Job \notin Desks
  BY VisitorAssumption
<1>4. visitTime \in Nat /\ visitTime <= LastVisitTime
  BY <1>1, <1>3 DEF VisitTypeOK
<1>5. handling \in [Sessions -> Handlers]
  BY <1>1 DEF VisitTypeOK, Sessions
<1> QED BY <1>1, <1>2, <1>3, <1>4, <1>5, Zenon DEF VisitTypeOK

LEMMA TimesFit ==
  ASSUME NEW t \in Nat, t <= LastVisitTime + VisitHours + FaceBuffer
  PROVE  t \in Times
BY VisitorAssumption DEF Times

LEMMA NewVisitorFits ==
  ASSUME NEW pre \in BOOLEAN, NEW url \in {Nil, Elsewhere}
  PROVE  /\ EndsFit(NewVisitor(pre, url)) /\ ~NewVisitor(pre, url).registered
         /\ NewVisitor(pre, url).url = url /\ NewVisitor(pre, url).approval # "rejected"
<1>1. VisitHours \in Times /\ VisitHours <= LastVisitTime + VisitHours
  BY VisitorAssumption DEF Times
<1>2. NewVisitor(pre, url) \in Visitor
  BY <1>1 DEF NewVisitor, Visitor
<1> QED BY <1>1, <1>2 DEF NewVisitor, EndsFit

LEMMA NoHandlerFits ==
  /\ NoHandler \in Handlers /\ NoHandler.stage = "none" /\ NoHandler.op = "none"
  /\ \A h : Handles(h, NoHandler)
<1>1. EndsFit(NewVisitor(FALSE, Nil))
  BY NewVisitorFits
<1>2. 0 \in Times /\ 0 <= LastVisitTime
  BY VisitorAssumption DEF Times
<1>3. NoHandler \in Handlers
  BY <1>1, <1>2 DEF NoHandler, Handlers, EndsFit
<1>4. "none" \notin PhotoOps
  BY DEF PhotoOps
<1> QED BY <1>1, <1>2, <1>3, <1>4 DEF NoHandler, Handles

-----------------------------------------------------------------------------
(* The row after an operation *)

LEMMA CheckedInFits ==
  ASSUME NEW v, EndsFit(v), NEW t \in Nat, t <= LastVisitTime, NEW w, w = CheckedIn(v, t)
  PROVE  /\ EndsFit(w) /\ w.url = v.url /\ w.registered = v.registered
         /\ w.approval = v.approval
<1>1. PICK ends : ends = IF v.ends < t THEN t + VisitHours ELSE v.ends
  OBVIOUS
<1>2. /\ VisitHours \in Nat /\ FaceBuffer \in Nat /\ LastVisitTime \in Nat
  BY VisitorAssumption
<1>3. v \in Visitor /\ v.ends \in Nat /\ v.ends <= LastVisitTime + VisitHours
  BY DEF EndsFit, Visitor, Times
<1>4. ends \in Nat /\ ends <= LastVisitTime + VisitHours
  BY <1>1, <1>2, <1>3
<1>5. ends \in Times /\ ends + FaceBuffer \in Times
  BY <1>2, <1>4 DEF Times
<1>6. w = [v EXCEPT !.status = "checked_in", !.ends = ends, !.faceEnds = ends + FaceBuffer]
  BY <1>1 DEF CheckedIn
<1>7. w \in Visitor
  BY <1>3, <1>5, <1>6 DEF Visitor
<1> QED BY <1>3, <1>4, <1>6, <1>7 DEF EndsFit, Visitor

LEMMA ApprovedFits ==
  ASSUME NEW v, EndsFit(v), NEW stage \in Stages, NEW w, w = Approved(v, stage)
  PROVE  /\ EndsFit(w) /\ w.url = v.url /\ w.registered = v.registered
         /\ w.approval # "rejected"
<1>1. PICK a : a = Approval(stage)
  OBVIOUS
<1>2. a \in {"manager_approved", "security_approved", "approved"}
  BY <1>1 DEF Approval, Stages
<1>3. PICK m : m = [v EXCEPT !.approval = a]
  OBVIOUS
<1>4. v \in Visitor
  BY DEF EndsFit
<1>5. /\ m.url = v.url /\ m.registered = v.registered /\ m.ends = v.ends /\ m.approval = a
      /\ m \in Visitor
  BY <1>2, <1>3, <1>4 DEF Visitor
<1>6. w = m \/ w = [m EXCEPT !.status = "scheduled"]
  BY <1>1, <1>3 DEF Approved
<1>7. w \in Visitor /\ w.url = m.url /\ w.registered = m.registered /\ w.ends = m.ends
      /\ w.approval = m.approval
  BY <1>5, <1>6 DEF Visitor
<1> QED BY <1>2, <1>5, <1>7 DEF EndsFit

\* Removing operations take the flag, enrolling gives it, and the others leave it.
FlagFollows(op, v, w) ==
    /\ op \in Purges => w.registered = FALSE
    /\ op = "enroll" => w.registered = TRUE
    /\ op \notin Purges \cup {"enroll"} => w.registered = v.registered

\* Nobody is on site and rejected, unless checked in so or so before.
OutWhenRejected(op, v, w) ==
    \/ w.status # "checked_in" \/ w.approval # "rejected"
    \/ op = "check_in" /\ w.approval = v.approval
    \/ w.approval = v.approval /\ w.status = v.status

LEMMA AfterFits ==
  ASSUME NEW v, EndsFit(v), NEW t \in Nat, t <= LastVisitTime,
         NEW op \in VisitOps \ PhotoOps, NEW w, w = After(op, v, t)
  PROVE  /\ EndsFit(w) /\ w.url = v.url
         /\ FlagFollows(op, v, w) /\ OutWhenRejected(op, v, w)
<1>1. v \in Visitor /\ v.ends <= LastVisitTime + VisitHours
  BY DEF EndsFit
<1>2. t \in Times
  BY VisitorAssumption DEF Times
<1>3. CASE op = "check_in"
  BY <1>3, CheckedInFits DEF After, Purges, Stages, FlagFollows, OutWhenRejected
<1>4. CASE op \in Stages
  <2>1. w = Approved(v, op)
    BY <1>4 DEF After, Stages
  <2>2. op \notin Purges \cup {"enroll"}
    BY <1>4 DEF Stages, Purges
  <2> QED BY <1>4, <2>1, <2>2, ApprovedFits DEF FlagFollows, OutWhenRejected
<1>5. CASE op = "check_out"
  <2>1. w = [v EXCEPT !.status = "checked_out", !.faceEnds = t, !.registered = FALSE]
    BY <1>5 DEF After, CheckedOut, Stages
  <2>2. w \in Visitor
    BY <1>1, <1>2, <2>1 DEF Visitor
  <2>3. w.ends = v.ends /\ w.url = v.url /\ w.registered = FALSE /\ w.status = "checked_out"
    BY <1>1, <2>1 DEF Visitor
  <2> QED BY <1>1, <1>5, <2>2, <2>3 DEF EndsFit, Purges, FlagFollows, OutWhenRejected
<1>6. CASE op = "cancel"
  <2>1. w = [v EXCEPT !.status = "cancelled", !.registered = FALSE]
    BY <1>6 DEF After, Cancelled, Stages
  <2>2. w \in Visitor
    BY <1>1, <1>2, <2>1 DEF Visitor
  <2>3. w.ends = v.ends /\ w.url = v.url /\ w.registered = FALSE /\ w.status = "cancelled"
    BY <1>1, <2>1 DEF Visitor
  <2> QED BY <1>1, <1>6, <2>2, <2>3 DEF EndsFit, Purges, FlagFollows, OutWhenRejected
<1>7. CASE op \in {"revoke", "expire"}
  <2>1. w = [v EXCEPT !.status = "expired", !.faceEnds = t, !.registered = FALSE]
    BY <1>7 DEF After, Revoked, Stages
  <2>2. w \in Visitor
    BY <1>1, <1>2, <2>1 DEF Visitor
  <2>3. w.ends = v.ends /\ w.url = v.url /\ w.registered = FALSE /\ w.status = "expired"
    BY <1>1, <2>1 DEF Visitor
  <2> QED BY <1>1, <1>7, <2>2, <2>3 DEF EndsFit, Purges, FlagFollows, OutWhenRejected
<1>8. CASE op = "reject"
  <2>1. w = [v EXCEPT !.approval = "rejected", !.status = "cancelled"]
    BY <1>8 DEF After, Rejected, Stages
  <2>2. w \in Visitor
    BY <1>1, <1>2, <2>1 DEF Visitor
  <2>3. w.ends = v.ends /\ w.url = v.url /\ w.registered = v.registered /\ w.status = "cancelled"
    BY <1>1, <2>1 DEF Visitor
  <2> QED BY <1>1, <1>8, <2>2, <2>3 DEF EndsFit, Purges, FlagFollows, OutWhenRejected
<1>9. CASE op = "extend"
  <2>1. w = [v EXCEPT !.ends = t + VisitHours]
    BY <1>9 DEF After, Extended, Stages
  <2>2. t + VisitHours \in Times /\ t + VisitHours <= LastVisitTime + VisitHours
    BY VisitorAssumption DEF Times
  <2>3. w \in Visitor
    BY <1>1, <2>1, <2>2 DEF Visitor
  <2>4. /\ w.ends = t + VisitHours /\ w.url = v.url /\ w.registered = v.registered
        /\ w.status = v.status /\ w.approval = v.approval
    BY <1>1, <2>1 DEF Visitor
  <2> QED BY <1>9, <2>2, <2>3, <2>4 DEF EndsFit, Purges, FlagFollows, OutWhenRejected
<1>10. CASE op = "enroll"
  <2>1. w = [v EXCEPT !.registered = TRUE]
    BY <1>10 DEF After, Enrolled, Stages
  <2>2. w \in Visitor
    BY <1>1, <2>1 DEF Visitor
  <2>3. /\ w.ends = v.ends /\ w.url = v.url /\ w.registered = TRUE
        /\ w.status = v.status /\ w.approval = v.approval
    BY <1>1, <2>1 DEF Visitor
  <2> QED BY <1>1, <1>10, <2>2, <2>3 DEF EndsFit, Purges, FlagFollows, OutWhenRejected
<1>11. \/ op \in {"check_in", "check_out", "cancel", "revoke", "expire", "reject", "extend", "enroll"}
       \/ op \in Stages
  BY DEF VisitOps, PhotoOps, Purges
<1> QED BY <1>3, <1>4, <1>5, <1>6, <1>7, <1>8, <1>9, <1>10, <1>11

\* What is written of a row is a row; it is the row meant, when what was read is still so.
LEMMA MergedFits ==
  ASSUME EndsFit(visitor), NEW new, EndsFit(new), NEW seen, EndsFit(seen)
  PROVE  EndsFit(Merged(new, seen)) /\ (seen = visitor => Merged(new, seen) = new)
<1>1. visitor \in Visitor /\ new \in Visitor /\ seen \in Visitor
  BY DEF EndsFit
<1>2. DOMAIN visitor = {"status", "approval", "ends", "faceEnds", "registered", "url"}
  BY <1>1 DEF Visitor
<1>3. PICK m : m = Merged(new, seen)
  OBVIOUS
<1>4. m = [f \in {"status", "approval", "ends", "faceEnds", "registered", "url"} |->
              IF new[f] # seen[f] THEN new[f] ELSE visitor[f]]
  BY <1>2, <1>3 DEF Merged
<1>5. m \in Visitor /\ m.ends \in {new.ends, visitor.ends}
  BY <1>1, <1>4 DEF Visitor
<1>6. seen = visitor => m = new
  BY <1>1, <1>4 DEF Visitor
<1> QED BY <1>3, <1>5, <1>6 DEF EndsFit

-----------------------------------------------------------------------------
(* What a step leaves of the sessions *)

LEMMA HandlingKeeps ==
  ASSUME VisitIInv, NEW h \in Sessions, NEW r, handling' = [handling EXCEPT ![h] = r],
         photoIds \subseteq photoIds', Handles(h, r)'
  PROVE  /\ handling' \in [Sessions -> Handlers]
         /\ \A g \in Sessions : handling'[g] = IF g = h THEN r ELSE handling[g]
         /\ \A g \in Sessions : Handles(g, handling[g])'
<1>1. \A g \in Sessions : handling'[g] = IF g = h THEN r ELSE handling[g]
  BY VisitTypes
<1>2. r \in Handlers
  BY DEF Handles
<1>3. ASSUME NEW g \in Sessions, NEW q, q = handling'[g] PROVE Handles(g, q)'
  <2>1. CASE g = h
    BY <1>1, <1>3, <2>1
  <2>2. CASE g # h
    <3>1. q = handling[g] /\ Handles(g, q)
      BY <1>1, <1>3, <2>2, VisitTypes
    <3> QED BY <3>1 DEF Handles
  <2> QED BY <2>1, <2>2
<1>4. \A g \in Sessions : Handles(g, handling[g])'
  BY <1>3 DEF Handles
<1> QED BY <1>1, <1>2, <1>4, VisitTypes

LEMMA ActiveIs ==
  ASSUME NEW h \in Sessions, Handles(h, handling[h])
  PROVE  Active(h) <=> handling[h].stage # "none"
BY DEF Active, Handles, Handlers

LEMMA OverlapsIs ==
  ASSUME VisitIInv, NEW h \in Sessions
  PROVE  Overlaps(h) <=> \E g \in Sessions \ {h} : Active(g)
<1>1. DOMAIN handling = Sessions
  BY VisitTypes
<1> QED BY <1>1 DEF Overlaps, Active

\* The photos still have a newest.
LEMMA OrderKeeps ==
  ASSUME VisitIInv, NEW p \in Photos, photoIds' = photoIds \cup {p}
  PROVE  PhotosOrdered'
<1> SUFFICES ASSUME NEW S \in SUBSET photoIds', S # {}
             PROVE  \E m \in S : \A q \in S : q <= m
  BY DEF PhotosOrdered
<1>1. photoIds \subseteq Nat /\ p \in Nat
  BY VisitTypes
<1>2. CASE S \ {p} = {}
  <2>1. S = {p}
    BY <1>2
  <2> QED BY <1>1, <2>1
<1>3. CASE S \ {p} # {}
  <2>1. S \ {p} \in SUBSET photoIds
    OBVIOUS
  <2>2. PICK m \in S \ {p} : \A q \in S \ {p} : q <= m
    BY <1>3, <2>1 DEF VisitIInv, PhotosOrdered
  <2>3. m \in Nat /\ S \subseteq Nat
    BY <1>1, <2>1
  <2>4. CASE p <= m
    BY <2>2, <2>4
  <2>5. CASE ~(p <= m)
    <3>1. p \in S \/ p \notin S
      OBVIOUS
    <3>2. \A q \in S \ {p} : q <= p
      BY <1>1, <2>2, <2>3, <2>5
    <3> QED BY <1>1, <2>2, <3>1, <3>2
  <2> QED BY <2>4, <2>5
<1> QED BY <1>2, <1>3

LEMMA NewestIs ==
  ASSUME VisitIInv, NEW S \in SUBSET photoIds, S # {}
  PROVE  Newest(S) \in S
<1>1. \E p \in S : \A q \in S : q <= p
  BY DEF VisitIInv, PhotosOrdered
<1> QED BY <1>1 DEF Newest

\* A session begins a request: it has read the row and the flags.
LEMMA BeginKeeps ==
  ASSUME VisitIInv, NEW h \in Sessions, NEW op \in VisitOps, NEW photo \in Photos \cup {Nil},
         Read(h, op, photo),
         h \in Desks => op # "expire", op \in PhotoOps => photo \in photoIds',
         photoIds' = photoIds \/ (\E p \in Photos : photoIds' = photoIds \cup {p}),
         requests' \in 0..MaxRequests,
         UNCHANGED <<asks, visitTime, visitor, photos, primary, faceIn, jobErrors, crossed>>
  PROVE  VisitIInv'
<1>1. PICK r : r = [op |-> op, stage |-> "read", seen |-> visitor, flags |-> primary,
                    photo |-> photo, at |-> visitTime]
  OBVIOUS
<1>2. /\ r.op = op /\ r.stage = "read" /\ r.seen = visitor /\ r.flags = primary
      /\ r.photo = photo /\ r.at = visitTime
  BY <1>1
<1>3. /\ handling[h].stage = "none" /\ Allowed(op, visitor, visitTime)
      /\ handling' = [handling EXCEPT ![h] = r]
  BY <1>1 DEF Read, Idle
<1>4. r \in Handlers
  <2>1. visitTime \in Times
    BY VisitTypes, TimesFit
  <2>2. primary \subseteq Photos
    BY VisitTypes
  <2> QED BY <1>1, <2>1, <2>2, VisitTypes DEF Handlers
<1>5. Handles(h, r)'
  <2>1. op # "none" /\ (op = "check_in" => visitor.approval \in {"approved", "security_approved"})
    BY <1>3 DEF Allowed, VisitOps, Purges, PhotoOps, Stages
  <2> QED BY <1>2, <1>4, <2>1, VisitTypes DEF Handles
<1>6. photoIds \subseteq photoIds' /\ photoIds' \subseteq Photos
  BY VisitTypes
<1>7. /\ handling' \in [Sessions -> Handlers]
      /\ \A g \in Sessions : handling'[g] = IF g = h THEN r ELSE handling[g]
      /\ \A g \in Sessions : Handles(g, handling[g])'
  BY <1>3, <1>5, <1>6, HandlingKeeps
<1>8. VisitTypeOK'
  <2>1. photos' \subseteq photoIds' /\ primary' \subseteq photos'
    BY <1>6, VisitTypes
  <2>2. handling' \in [Desks \cup {Job} -> Handlers]
    BY <1>7 DEF Sessions
  <2> QED BY <1>6, <2>1, <2>2 DEF VisitIInv, VisitTypeOK
<1>9. PhotosOrdered'
  BY OrderKeeps DEF VisitIInv, PhotosOrdered
<1>10. ASSUME ~crossed PROVE Orderly'
  <2>1. Orderly
    BY <1>10 DEF VisitIInv
  <2>2. \A g \in Sessions : handling'[g].stage = "touched" <=> handling[g].stage = "touched"
    BY <1>2, <1>3, <1>7
  <2>3. \A g \in Sessions : Touched(g)' <=> Touched(g)
    BY <2>2 DEF Touched
  <2>4. \A g \in Sessions : Active(g)' => handling'[g].seen = visitor' /\ handling'[g].flags = primary'
    BY <1>2, <1>7, <2>1 DEF Orderly, Active
  <2>5. \A g \in Sessions : Touched(g) => handling'[g].op = handling[g].op
    BY <1>3, <1>7 DEF Touched
  <2>6. \A g \in Sessions :
          Touched(g)' => \/ \E e \in Sessions \ {g} : Touched(e)'
                         \/ faceIn' = (handling'[g].op = "enroll")
    BY <2>1, <2>3, <2>5 DEF Orderly
  <2>7. (\A g \in Sessions : ~Touched(g)') => visitor'.registered = faceIn'
    BY <2>1, <2>3 DEF Orderly
  <2>8. /\ visitor'.approval = "rejected" => visitor'.status # "checked_in"
        /\ primary' = {visitor'.url} \cap Photos
        /\ visitor'.url \in Photos => visitor'.url \in photos'
        /\ visitor'.url = Nil => photos' = {}
    BY <2>1 DEF Orderly
  <2> QED BY <2>4, <2>6, <2>7, <2>8 DEF Orderly
<1>11. EndsFit(visitor)'
  BY VisitTypes DEF EndsFit
<1> QED BY <1>7, <1>8, <1>9, <1>10, <1>11 DEF VisitIInv

LEMMA TouchIndexKeeps ==
  ASSUME VisitIInv, NEW h \in Sessions, TouchIndex(h)
  PROVE  VisitIInv'
<1>1. PICK old \in Handlers : old = handling[h]
  BY VisitTypes
<1>2. PICK r : r = [old EXCEPT !.stage = "touched"]
  OBVIOUS
<1>3. /\ old.stage = "read" /\ old.op \in Purges \cup {"enroll"}
      /\ faceIn' = (old.op = "enroll")
      /\ handling' = [handling EXCEPT ![h] = r]
      /\ UNCHANGED <<asks, visitTime, visitor, photos, primary, photoIds, requests, jobErrors, crossed>>
  BY <1>1, <1>2 DEF TouchIndex
<1>4. /\ r.op = old.op /\ r.stage = "touched" /\ r.seen = old.seen /\ r.flags = old.flags
      /\ r.photo = old.photo /\ r.at = old.at /\ r \in Handlers
  BY <1>2 DEF Handlers
<1>5. Handles(h, old)
  BY <1>1, VisitTypes
<1>6. Handles(h, r)'
  BY <1>3, <1>4, <1>5 DEF Handles
<1>7. /\ handling' \in [Sessions -> Handlers]
      /\ \A g \in Sessions : handling'[g] = IF g = h THEN r ELSE handling[g]
      /\ \A g \in Sessions : Handles(g, handling[g])'
  BY <1>3, <1>6, HandlingKeeps
<1>8. VisitTypeOK'
  <2>1. handling' \in [Desks \cup {Job} -> Handlers]
    BY <1>7 DEF Sessions
  <2>2. faceIn' \in BOOLEAN
    BY <1>3
  <2> QED BY <1>3, <2>1, <2>2 DEF VisitIInv, VisitTypeOK
<1>9. PhotosOrdered' /\ EndsFit(visitor)'
  BY <1>3 DEF VisitIInv, PhotosOrdered, EndsFit
<1>10. ASSUME ~crossed PROVE Orderly'
  <2>1. Orderly
    BY <1>10 DEF VisitIInv
  <2>2. \A g \in Sessions : Touched(g)' <=> (g = h \/ Touched(g))
    BY <1>4, <1>7 DEF Touched
  <2>3. \A g \in Sessions : Active(g)' => handling'[g].seen = visitor' /\ handling'[g].flags = primary'
    BY <1>1, <1>3, <1>4, <1>7, <2>1 DEF Orderly, Active
  <2>4. \A g \in Sessions :
          Touched(g)' => \/ \E e \in Sessions \ {g} : Touched(e)'
                         \/ faceIn' = (handling'[g].op = "enroll")
    BY <1>3, <1>4, <1>7, <2>2
  <2>5. /\ visitor'.approval = "rejected" => visitor'.status # "checked_in"
        /\ primary' = {visitor'.url} \cap Photos
        /\ visitor'.url \in Photos => visitor'.url \in photos'
        /\ visitor'.url = Nil => photos' = {}
    BY <1>3, <2>1 DEF Orderly
  <2> QED BY <2>2, <2>3, <2>4, <2>5 DEF Orderly
<1> QED BY <1>3, <1>7, <1>8, <1>9, <1>10 DEF VisitIInv

\* A request fails: what it read is dropped, and what it did to the index stays.
LEMMA DropKeeps ==
  ASSUME VisitIInv, NEW h \in Sessions, handling[h].stage \in {"read", "touched"},
         handling' = [handling EXCEPT ![h] = NoHandler],
         crossed' = (crossed \/ handling[h].stage = "touched"),
         jobErrors' \in 0..MaxJobErrors,
         UNCHANGED <<asks, visitTime, visitor, photos, primary, photoIds, faceIn, requests>>
  PROVE  VisitIInv'
<1>1. Handles(h, NoHandler)'
  BY NoHandlerFits DEF Handles
<1>2. /\ handling' \in [Sessions -> Handlers]
      /\ \A g \in Sessions : handling'[g] = IF g = h THEN NoHandler ELSE handling[g]
      /\ \A g \in Sessions : Handles(g, handling[g])'
  BY <1>1, HandlingKeeps
<1>3. VisitTypeOK'
  <2>1. handling' \in [Desks \cup {Job} -> Handlers]
    BY <1>2 DEF Sessions
  <2>2. crossed' \in BOOLEAN
    BY VisitTypes
  <2> QED BY <2>1, <2>2 DEF VisitIInv, VisitTypeOK
<1>4. PhotosOrdered' /\ EndsFit(visitor)'
  BY DEF VisitIInv, PhotosOrdered, EndsFit
<1>5. ASSUME ~crossed' PROVE Orderly'
  <2>1. Orderly /\ ~Touched(h)
    BY <1>5 DEF VisitIInv, Touched
  <2>2. \A g \in Sessions : Touched(g)' <=> Touched(g)
    BY <1>2, <2>1, NoHandlerFits DEF Touched
  <2>3. \A g \in Sessions : Active(g)' => handling'[g].seen = visitor' /\ handling'[g].flags = primary'
    BY <1>2, <2>1, NoHandlerFits DEF Orderly, Active
  <2>4. \A g \in Sessions : Touched(g) => handling'[g].op = handling[g].op
    BY <1>2, <2>1
  <2>5. \A g \in Sessions :
          Touched(g)' => \/ \E e \in Sessions \ {g} : Touched(e)'
                         \/ faceIn' = (handling'[g].op = "enroll")
    BY <2>1, <2>2, <2>4 DEF Orderly
  <2>6. (\A g \in Sessions : ~Touched(g)') => visitor'.registered = faceIn'
    BY <2>1, <2>2 DEF Orderly
  <2>7. /\ visitor'.approval = "rejected" => visitor'.status # "checked_in"
        /\ primary' = {visitor'.url} \cap Photos
        /\ visitor'.url \in Photos => visitor'.url \in photos'
        /\ visitor'.url = Nil => photos' = {}
    BY <2>1 DEF Orderly
  <2> QED BY <2>3, <2>5, <2>6, <2>7 DEF Orderly
<1> QED BY <1>2, <1>3, <1>4, <1>5 DEF VisitIInv

\* A request ends.  Alone, it worked on the row as it is.
Alone(h) == ~crossed /\ \A g \in Sessions \ {h} : ~Active(g)

LEMMA AloneSaw ==
  ASSUME VisitIInv, NEW h \in Sessions, Active(h), Alone(h)
  PROVE  /\ handling[h].seen = visitor /\ handling[h].flags = primary
         /\ Touched(h) => faceIn = (handling[h].op = "enroll")
         /\ ~Touched(h) => visitor.registered = faceIn
         /\ visitor.approval = "rejected" => visitor.status # "checked_in"
         /\ primary = {visitor.url} \cap Photos
         /\ visitor.url \in Photos => visitor.url \in photos
         /\ visitor.url = Nil => photos = {}
<1>1. Orderly
  BY DEF VisitIInv, Alone
<1>2. \A g \in Sessions \ {h} : ~Touched(g)
  BY DEF Alone, Active, Touched
<1> QED BY <1>1, <1>2 DEF Orderly

LEMMA FinishKeeps ==
  ASSUME VisitIInv, NEW h \in Sessions, Finish(h),
         EndsFit(visitor'), photos' \subseteq photoIds, primary' \subseteq photos',
         Alone(h) => /\ visitor'.registered = faceIn
                     /\ visitor'.approval = "rejected" => visitor'.status # "checked_in"
                     /\ primary' = {visitor'.url} \cap Photos
                     /\ visitor'.url \in Photos => visitor'.url \in photos'
                     /\ visitor'.url = Nil => photos' = {},
         UNCHANGED <<asks, visitTime, photoIds, faceIn, requests, jobErrors>>
  PROVE  VisitIInv'
<1>1. Handles(h, NoHandler)'
  BY NoHandlerFits DEF Handles
<1>2. /\ handling' = [handling EXCEPT ![h] = NoHandler]
      /\ crossed' = (crossed \/ \E g \in Sessions \ {h} : Active(g))
  BY OverlapsIs DEF Finish
<1>3. /\ handling' \in [Sessions -> Handlers]
      /\ \A g \in Sessions : handling'[g] = IF g = h THEN NoHandler ELSE handling[g]
      /\ \A g \in Sessions : Handles(g, handling[g])'
  BY <1>1, <1>2, HandlingKeeps
<1>4. VisitTypeOK'
  <2>1. handling' \in [Desks \cup {Job} -> Handlers]
    BY <1>3 DEF Sessions
  <2>2. crossed' \in BOOLEAN
    BY <1>2, VisitTypes
  <2>3. visitor' \in Visitor
    BY DEF EndsFit
  <2> QED BY <2>1, <2>2, <2>3 DEF VisitIInv, VisitTypeOK
<1>5. PhotosOrdered'
  BY DEF VisitIInv, PhotosOrdered
<1>6. ASSUME ~crossed' PROVE Orderly'
  <2>1. Alone(h)
    BY <1>2, <1>6 DEF Alone
  <2>2. \A g \in Sessions : ~Active(g)' /\ ~Touched(g)'
    BY <1>3, <2>1, NoHandlerFits DEF Alone, Active, Touched
  <2> QED BY <2>1, <2>2 DEF Orderly
<1>7. EndsFit(visitor)'
  BY DEF EndsFit
<1> QED BY <1>3, <1>4, <1>5, <1>6, <1>7 DEF VisitIInv

LEMMA VisitCommitKeeps ==
  ASSUME VisitIInv, NEW h \in Sessions, Commit(h)
  PROVE  VisitIInv'
<1>1. PICK r \in Handlers : r = handling[h]
  BY VisitTypes
<1>2. /\ r.op \notin PhotoOps \cup {"none"}
      /\ r.stage = IF r.op \in Purges \cup {"enroll"} THEN "touched" ELSE "read"
      /\ visitor' = Merged(After(r.op, r.seen, r.at), r.seen)
      /\ Finish(h)
      /\ UNCHANGED <<asks, visitTime, photos, primary, photoIds, faceIn, requests, jobErrors>>
  BY <1>1 DEF Commit
<1>3. Handles(h, r) /\ EndsFit(r.seen) /\ r.at \in Nat /\ r.at <= LastVisitTime
      /\ r.op \in VisitOps \ PhotoOps
  BY <1>1, <1>2, VisitTypes DEF Handles, Handlers, Times
<1>4. PICK w : w = After(r.op, r.seen, r.at)
  OBVIOUS
<1>5. /\ EndsFit(w) /\ w.url = r.seen.url
      /\ FlagFollows(r.op, r.seen, w) /\ OutWhenRejected(r.op, r.seen, w)
  BY <1>3, <1>4, AfterFits
<1>6. EndsFit(visitor') /\ (r.seen = visitor => visitor' = w)
  BY <1>2, <1>3, <1>4, <1>5, VisitTypes, MergedFits
<1>7. photos' \subseteq photoIds /\ primary' \subseteq photos'
  BY <1>2, VisitTypes
<1>8. ASSUME Alone(h)
      PROVE  /\ visitor'.registered = faceIn
             /\ visitor'.approval = "rejected" => visitor'.status # "checked_in"
             /\ primary' = {visitor'.url} \cap Photos
             /\ visitor'.url \in Photos => visitor'.url \in photos'
             /\ visitor'.url = Nil => photos' = {}
  <2>1. Active(h) /\ (Touched(h) <=> r.op \in Purges \cup {"enroll"})
    BY <1>1, <1>2 DEF Active, Touched
  <2>2. /\ r.seen = visitor /\ visitor' = w
        /\ Touched(h) => faceIn = (r.op = "enroll")
        /\ ~Touched(h) => visitor.registered = faceIn
        /\ visitor.approval = "rejected" => visitor.status # "checked_in"
        /\ primary = {visitor.url} \cap Photos
        /\ visitor.url \in Photos => visitor.url \in photos
        /\ visitor.url = Nil => photos = {}
    BY <1>1, <1>6, <1>8, <2>1, AloneSaw
  <2>3. visitor'.registered = faceIn
    <3>1. CASE r.op \in Purges
      <4>1. r.op # "enroll"
        BY <3>1 DEF Purges
      <4> QED BY <1>5, <2>1, <2>2, <3>1, <4>1 DEF FlagFollows
    <3>2. CASE r.op = "enroll"
      BY <1>5, <2>1, <2>2, <3>2 DEF FlagFollows
    <3>3. CASE r.op \notin Purges \cup {"enroll"}
      BY <1>5, <2>1, <2>2, <3>3 DEF FlagFollows
    <3> QED BY <3>1, <3>2, <3>3
  <2>4. visitor'.approval = "rejected" => visitor'.status # "checked_in"
    <3>1. r.op = "check_in" => r.seen.approval # "rejected"
      BY <1>3 DEF Handles
    <3> QED BY <1>5, <2>2, <3>1 DEF OutWhenRejected
  <2> QED BY <1>2, <1>5, <2>2, <2>3, <2>4
<1> QED BY <1>2, <1>6, <1>7, <1>8, FinishKeeps

\* The row with another photo_url.
LEMMA UrlFits ==
  ASSUME NEW v, EndsFit(v), NEW u \in Photos \cup {Nil}, NEW w, w = [v EXCEPT !.url = u]
  PROVE  /\ EndsFit(w) /\ w.url = u /\ w.registered = v.registered
         /\ w.approval = v.approval /\ w.status = v.status
<1>1. v \in Visitor /\ v.ends <= LastVisitTime + VisitHours
  BY DEF EndsFit
<1>2. w \in Visitor
  BY <1>1 DEF Visitor
<1> QED BY <1>1, <1>2 DEF EndsFit, Visitor

LEMMA PromoteFits ==
  ASSUME VisitIInv, NEW seen, EndsFit(seen), NEW p \in photoIds, NEW rest \in SUBSET photoIds,
         Promote(p, rest, seen)
  PROVE  /\ EndsFit(visitor') /\ photos' = rest \cup {p} /\ primary' = {p}
         /\ photos' \subseteq photoIds /\ primary' \subseteq photos'
         /\ seen = visitor =>
               /\ visitor'.url = p /\ visitor'.registered = visitor.registered
               /\ visitor'.approval = visitor.approval /\ visitor'.status = visitor.status
               /\ primary' = {visitor'.url} \cap Photos
               /\ visitor'.url \in photos' /\ visitor'.url # Nil
<1>1. PICK w : w = [seen EXCEPT !.url = p]
  OBVIOUS
<1>2. /\ primary' = {p} /\ photos' = rest \cup {p} /\ visitor' = Merged(w, seen)
  BY <1>1 DEF Promote
<1>3. p \in Photos /\ p # Nil
  BY VisitTypes
<1>4. /\ EndsFit(w) /\ w.url = p /\ w.registered = seen.registered
      /\ w.approval = seen.approval /\ w.status = seen.status
  BY <1>1, <1>3, UrlFits
<1>5. EndsFit(visitor') /\ (seen = visitor => visitor' = w)
  BY <1>2, <1>4, VisitTypes, MergedFits
<1> QED BY <1>2, <1>3, <1>4, <1>5

LEMMA CommitPhotoKeeps ==
  ASSUME VisitIInv, NEW h \in Sessions, CommitPhoto(h)
  PROVE  VisitIInv'
<1>1. PICK r \in Handlers : r = handling[h]
  BY VisitTypes
<1>2. /\ r.op \in {"upload", "upload_primary", "set_primary"}
      /\ IF MakesPrimary(r.op, r.seen)
         THEN Promote(r.photo, photos, r.seen)
         ELSE photos' = photos \cup {r.photo} /\ UNCHANGED <<primary, visitor>>
      /\ Finish(h)
      /\ UNCHANGED <<asks, visitTime, photoIds, faceIn, requests, jobErrors>>
  BY <1>1 DEF CommitPhoto
<1>3. Handles(h, r) /\ EndsFit(r.seen) /\ r.photo \in photoIds
  BY <1>1, <1>2, VisitTypes DEF Handles, PhotoOps
<1>4. Active(h) /\ ~Touched(h)
  BY <1>1, <1>2, <1>3 DEF Active, Touched, Handles, Handlers, Purges
<1>5. ASSUME Alone(h)
      PROVE  /\ r.seen = visitor /\ visitor.registered = faceIn
             /\ visitor.approval = "rejected" => visitor.status # "checked_in"
             /\ primary = {visitor.url} \cap Photos
             /\ visitor.url \in Photos => visitor.url \in photos
             /\ visitor.url = Nil => photos = {}
  BY <1>1, <1>4, <1>5, AloneSaw
<1>6. CASE MakesPrimary(r.op, r.seen)
  <2>1. photos \in SUBSET photoIds
    BY VisitTypes
  <2>2. Promote(r.photo, photos, r.seen)
    BY <1>2, <1>6
  <2>3. /\ EndsFit(visitor') /\ photos' = photos \cup {r.photo} /\ primary' = {r.photo}
        /\ photos' \subseteq photoIds /\ primary' \subseteq photos'
        /\ r.seen = visitor =>
              /\ visitor'.url = r.photo /\ visitor'.registered = visitor.registered
              /\ visitor'.approval = visitor.approval /\ visitor'.status = visitor.status
              /\ primary' = {visitor'.url} \cap Photos
              /\ visitor'.url \in photos' /\ visitor'.url # Nil
    BY <1>3, <2>1, <2>2, PromoteFits
  <2>4. Alone(h) => /\ visitor'.registered = faceIn
                    /\ visitor'.approval = "rejected" => visitor'.status # "checked_in"
                    /\ primary' = {visitor'.url} \cap Photos
                    /\ visitor'.url \in Photos => visitor'.url \in photos'
                    /\ visitor'.url = Nil => photos' = {}
    BY <1>5, <2>3
  <2> QED BY <1>2, <2>3, <2>4, FinishKeeps
<1>7. CASE ~MakesPrimary(r.op, r.seen)
  <2>1. photos' = photos \cup {r.photo} /\ primary' = primary /\ visitor' = visitor
    BY <1>2, <1>7
  <2>2. EndsFit(visitor') /\ photos' \subseteq photoIds /\ primary' \subseteq photos'
    BY <1>3, <2>1, VisitTypes
  <2>3. r.seen.url # Nil
    BY <1>2, <1>7 DEF MakesPrimary
  <2>4. Alone(h) => /\ visitor'.registered = faceIn
                    /\ visitor'.approval = "rejected" => visitor'.status # "checked_in"
                    /\ primary' = {visitor'.url} \cap Photos
                    /\ visitor'.url \in Photos => visitor'.url \in photos'
                    /\ visitor'.url = Nil => photos' = {}
    BY <1>5, <2>1, <2>3
  <2> QED BY <1>2, <2>2, <2>4, FinishKeeps
<1> QED BY <1>6, <1>7

LEMMA CommitDeleteKeeps ==
  ASSUME VisitIInv, NEW h \in Sessions, CommitDelete(h)
  PROVE  VisitIInv'
<1>1. PICK r \in Handlers : r = handling[h]
  BY VisitTypes
<1>2. PICK rest : rest = photos \ {r.photo}
  OBVIOUS
<1>3. PICK was \in BOOLEAN : was = (r.photo \in r.flags \/ r.seen.url = r.photo)
  BY (r.photo \in r.flags \/ r.seen.url = r.photo) \in BOOLEAN, Zenon
<1>4. /\ r.op = "delete_photo" /\ r.photo \in photos
      /\ IF was /\ rest # {}
         THEN Promote(Newest(rest), rest, r.seen)
         ELSE /\ photos' = rest /\ primary' = primary \ {r.photo}
              /\ visitor' = IF was THEN Merged([r.seen EXCEPT !.url = Nil], r.seen) ELSE visitor
      /\ Finish(h)
      /\ UNCHANGED <<asks, visitTime, photoIds, faceIn, requests, jobErrors>>
  BY <1>1, <1>2, <1>3, Zenon DEF CommitDelete
<1>5. Handles(h, r) /\ EndsFit(r.seen)
  BY <1>1, VisitTypes DEF Handles
<1>6. Active(h) /\ ~Touched(h)
  BY <1>1, <1>4, <1>5 DEF Active, Touched, Handles, Handlers, Purges
<1>7. ASSUME Alone(h)
      PROVE  /\ r.seen = visitor /\ r.flags = primary /\ visitor.registered = faceIn
             /\ visitor.approval = "rejected" => visitor.status # "checked_in"
             /\ primary = {visitor.url} \cap Photos
             /\ visitor.url \in Photos => visitor.url \in photos
             /\ visitor.url = Nil => photos = {}
  BY <1>1, <1>6, <1>7, AloneSaw
<1>8. rest \in SUBSET photoIds /\ Nil \notin Photos /\ photos \subseteq Photos
  BY <1>2, VisitTypes
<1>9. CASE was /\ rest # {}
  <2>1. PICK p : p = Newest(rest)
    OBVIOUS
  <2>2. p \in rest /\ p \in photoIds
    BY <1>8, <1>9, <2>1, NewestIs
  <2>3. Promote(p, rest, r.seen)
    BY <1>4, <1>9, <2>1
  <2>4. /\ EndsFit(visitor') /\ photos' = rest \cup {p} /\ primary' = {p}
        /\ photos' \subseteq photoIds /\ primary' \subseteq photos'
        /\ r.seen = visitor =>
              /\ visitor'.url = p /\ visitor'.registered = visitor.registered
              /\ visitor'.approval = visitor.approval /\ visitor'.status = visitor.status
              /\ primary' = {visitor'.url} \cap Photos
              /\ visitor'.url \in photos' /\ visitor'.url # Nil
    BY <1>5, <1>8, <2>2, <2>3, PromoteFits
  <2>5. Alone(h) => /\ visitor'.registered = faceIn
                    /\ visitor'.approval = "rejected" => visitor'.status # "checked_in"
                    /\ primary' = {visitor'.url} \cap Photos
                    /\ visitor'.url \in Photos => visitor'.url \in photos'
                    /\ visitor'.url = Nil => photos' = {}
    BY <1>7, <2>4
  <2> QED BY <1>4, <2>4, <2>5, FinishKeeps
<1>10. CASE was /\ rest = {}
  <2>1. PICK w : w = [r.seen EXCEPT !.url = Nil]
    OBVIOUS
  <2>2. photos' = {} /\ primary' = primary \ {r.photo} /\ visitor' = Merged(w, r.seen)
    BY <1>4, <1>10, <2>1
  <2>3. /\ EndsFit(w) /\ w.url = Nil /\ w.registered = r.seen.registered
        /\ w.approval = r.seen.approval /\ w.status = r.seen.status
    BY <1>5, <2>1, UrlFits
  <2>4. EndsFit(visitor') /\ (r.seen = visitor => visitor' = w)
    BY <1>5, <2>2, <2>3, VisitTypes, MergedFits
  <2>5. primary' = {}
    BY <1>2, <1>10, <2>2, VisitTypes
  <2>6. photos' \subseteq photoIds /\ primary' \subseteq photos'
    BY <2>2, <2>5
  <2>7. Alone(h) => /\ visitor'.registered = faceIn
                    /\ visitor'.approval = "rejected" => visitor'.status # "checked_in"
                    /\ primary' = {visitor'.url} \cap Photos
                    /\ visitor'.url \in Photos => visitor'.url \in photos'
                    /\ visitor'.url = Nil => photos' = {}
    BY <1>7, <1>8, <2>2, <2>3, <2>4, <2>5
  <2> QED BY <1>4, <2>4, <2>6, <2>7, FinishKeeps
<1>11. CASE ~was
  <2>1. photos' = rest /\ primary' = primary \ {r.photo} /\ visitor' = visitor
    BY <1>4, <1>11
  <2>2. EndsFit(visitor') /\ photos' \subseteq photoIds /\ primary' \subseteq photos'
    BY <1>2, <1>8, <2>1, VisitTypes
  <2>3. r.photo \notin r.flags /\ r.seen.url # r.photo
    BY <1>3, <1>11
  <2>4. Alone(h) => /\ visitor'.registered = faceIn
                    /\ visitor'.approval = "rejected" => visitor'.status # "checked_in"
                    /\ primary' = {visitor'.url} \cap Photos
                    /\ visitor'.url \in Photos => visitor'.url \in photos'
                    /\ visitor'.url = Nil => photos' = {}
    BY <1>2, <1>4, <1>7, <1>8, <2>1, <2>3
  <2> QED BY <1>4, <2>2, <2>4, FinishKeeps
<1> QED BY <1>9, <1>10, <1>11

LEMMA VisitInitKeeps ==
  ASSUME VisitInit PROVE VisitIInv
<1>1. PICK pre \in BOOLEAN, url \in {Nil, Elsewhere} : visitor = NewVisitor(pre, url)
  BY DEF VisitInit
<1>2. /\ EndsFit(visitor) /\ ~visitor.registered
      /\ visitor.url = url /\ visitor.approval # "rejected"
  BY <1>1, NewVisitorFits
<1>3. handling = [h \in Sessions |-> NoHandler]
  BY DEF VisitInit, Sessions
<1>4. \A h \in Sessions : handling[h] = NoHandler
  BY <1>3
<1>5. VisitTypeOK
  <2>1. handling \in [Desks \cup {Job} -> Handlers]
    BY <1>3, NoHandlerFits DEF Sessions
  <2>2. visitor \in Visitor
    BY <1>2 DEF EndsFit
  <2>3. 0 \in 0..LastVisitTime /\ 0 \in 0..MaxRequests /\ 0 \in 0..MaxJobErrors
    BY VisitorAssumption
  <2>4. asks \in Asks /\ visitTime = 0 /\ requests = 0 /\ jobErrors = 0
    BY DEF VisitInit
  <2>5. photos \subseteq photoIds /\ primary \subseteq photos /\ photoIds \subseteq Photos
    BY DEF VisitInit
  <2>6. faceIn \in BOOLEAN /\ crossed \in BOOLEAN
    BY DEF VisitInit
  <2> QED BY <2>1, <2>2, <2>3, <2>4, <2>5, <2>6 DEF VisitTypeOK
<1>6. \A h \in Sessions : Handles(h, handling[h])
  BY <1>4, NoHandlerFits
<1>7. PhotosOrdered
  BY DEF VisitInit, PhotosOrdered
<1>8. Orderly
  <2>1. \A h \in Sessions : ~Active(h) /\ ~Touched(h)
    BY <1>4, NoHandlerFits DEF Active, Touched
  <2>2. visitor.registered = faceIn
    BY <1>2 DEF VisitInit, EndsFit, Visitor
  <2>3. visitor.url \notin Photos
    BY <1>2, VisitorAssumption DEF Elsewhere
  <2> QED BY <1>2, <2>1, <2>2, <2>3 DEF VisitInit, Orderly
<1> QED BY <1>2, <1>5, <1>6, <1>7, <1>8 DEF VisitIInv

\* Nothing but the clock and the bounds change.
LEMMA VisitQuietKeeps ==
  ASSUME VisitIInv, visitTime' \in 0..LastVisitTime,
         UNCHANGED <<asks, visitor, photos, primary, photoIds, faceIn, handling,
                     requests, jobErrors, crossed>>
  PROVE  VisitIInv'
<1>1. VisitTypeOK'
  BY DEF VisitIInv, VisitTypeOK
<1>2. EndsFit(visitor)' /\ PhotosOrdered' /\ (\A h \in Sessions : Handles(h, handling[h]))'
  BY DEF VisitIInv, EndsFit, PhotosOrdered, Handles
<1>3. (crossed \/ Orderly)'
  BY DEF VisitIInv, Orderly, Active, Touched
<1> QED BY <1>1, <1>2, <1>3 DEF VisitIInv

LEMMA BeginVisitOpKeeps ==
  ASSUME VisitIInv, NEW h \in Desks, NEW op, BeginVisitOp(h, op)
  PROVE  VisitIInv'
<1>1. h \in Sessions /\ op \in VisitOps \ {"expire"} /\ op \notin PhotoOps
  BY VisitTypes DEF BeginVisitOp, Sessions
<1>2. requests' \in 0..MaxRequests
  BY VisitTypes DEF BeginVisitOp
<1>3. /\ Read(h, op, Nil)
      /\ UNCHANGED <<asks, visitTime, visitor, photos, primary, photoIds, faceIn, jobErrors, crossed>>
  BY DEF BeginVisitOp
<1> QED BY <1>1, <1>2, <1>3, BeginKeeps

LEMMA BeginUploadKeeps ==
  ASSUME VisitIInv, NEW h \in Desks, NEW op, NEW p \in Photos, BeginUpload(h, op, p)
  PROVE  VisitIInv'
<1>1. h \in Sessions /\ op \in VisitOps /\ op # "expire"
  BY VisitTypes DEF BeginUpload, Sessions
<1>2. requests' \in 0..MaxRequests
  BY VisitTypes DEF BeginUpload
<1>3. /\ Read(h, op, p) /\ photoIds' = photoIds \cup {p}
      /\ UNCHANGED <<asks, visitTime, visitor, photos, primary, faceIn, jobErrors, crossed>>
  BY DEF BeginUpload
<1> QED BY <1>1, <1>2, <1>3, BeginKeeps

LEMMA BeginPhotoOpKeeps ==
  ASSUME VisitIInv, NEW h \in Desks, NEW op, NEW p \in Photos, BeginPhotoOp(h, op, p)
  PROVE  VisitIInv'
<1>1. h \in Sessions /\ op \in VisitOps /\ op # "expire"
  BY VisitTypes DEF BeginPhotoOp, Sessions
<1>2. requests' \in 0..MaxRequests
  BY VisitTypes DEF BeginPhotoOp
<1>3. /\ Read(h, op, p) /\ p \in photos
      /\ UNCHANGED <<asks, visitTime, visitor, photos, primary, photoIds, faceIn, jobErrors, crossed>>
  BY DEF BeginPhotoOp
<1>4. p \in photoIds'
  BY <1>3, VisitTypes
<1> QED BY <1>1, <1>2, <1>3, <1>4, BeginKeeps

LEMMA FailHandlerKeeps ==
  ASSUME VisitIInv, NEW h \in Desks, FailHandler(h)
  PROVE  VisitIInv'
<1>1. h \in Sessions /\ jobErrors' \in 0..MaxJobErrors
  BY VisitTypes DEF Sessions, FailHandler
<1> QED BY <1>1, DropKeeps DEF FailHandler

LEMMA JobKeeps ==
  ASSUME VisitIInv, BeginExpiry \/ JobFails
  PROVE  VisitIInv'
<1>1. Job \in Sessions /\ Job \notin Desks
  BY VisitTypes DEF Sessions
<1>2. CASE BeginExpiry
  <2>1. "expire" \in VisitOps /\ "expire" \notin PhotoOps
    BY DEF VisitOps, Purges, PhotoOps
  <2>2. requests' \in 0..MaxRequests
    BY <1>2, VisitTypes DEF BeginExpiry
  <2>3. /\ Read(Job, "expire", Nil)
        /\ UNCHANGED <<asks, visitTime, visitor, photos, primary, photoIds, faceIn, jobErrors, crossed>>
    BY <1>2 DEF BeginExpiry
  <2> QED BY <1>1, <2>1, <2>2, <2>3, BeginKeeps
<1>3. CASE JobFails
  <2>1. jobErrors' \in 0..MaxJobErrors
    BY <1>3, VisitTypes DEF JobFails, JobErrs
  <2> QED BY <1>1, <1>3, <2>1, DropKeeps DEF JobFails, JobErrs
<1> QED BY <1>2, <1>3

LEMMA VisitNextKeeps ==
  ASSUME VisitIInv, [VisitNext]_visitVars PROVE VisitIInv'
<1>1. CASE UNCHANGED visitVars
  <2>1. visitTime' \in 0..LastVisitTime
    BY <1>1 DEF visitVars, VisitIInv, VisitTypeOK
  <2> QED BY <1>1, <2>1, VisitQuietKeeps DEF visitVars
<1>2. CASE VisitTick
  <2>1. visitTime' \in 0..LastVisitTime
    BY <1>2, VisitTypes DEF VisitTick
  <2> QED BY <1>2, <2>1, VisitQuietKeeps DEF VisitTick
<1>3. ASSUME NEW h \in Desks,
             \/ CheckInVisitor(h) \/ CheckOutVisitor(h) \/ RejectVisitor(h) \/ CancelVisitor(h)
             \/ RevokeVisitorAccess(h) \/ UpdateVisitor(h) \/ EnrollVisitorFace(h)
             \/ \E stage \in Stages : ApproveVisitor(h, stage)
      PROVE  VisitIInv'
  BY <1>3, BeginVisitOpKeeps
     DEF CheckInVisitor, CheckOutVisitor, RejectVisitor, CancelVisitor, RevokeVisitorAccess,
         UpdateVisitor, EnrollVisitorFace, ApproveVisitor
<1>4. ASSUME NEW h \in Desks,
             \E op \in PhotoOps, p \in Photos : BeginUpload(h, op, p) \/ BeginPhotoOp(h, op, p)
      PROVE  VisitIInv'
  BY <1>4, BeginUploadKeeps, BeginPhotoOpKeeps
<1>5. ASSUME NEW h \in Desks, CommitPhoto(h) \/ CommitDelete(h) \/ FailHandler(h)
      PROVE  VisitIInv'
  <2>1. h \in Sessions
    BY DEF Sessions
  <2> QED BY <1>5, <2>1, CommitPhotoKeeps, CommitDeleteKeeps, FailHandlerKeeps
<1>6. ASSUME NEW h \in Sessions, TouchIndex(h) \/ Commit(h) PROVE VisitIInv'
  BY <1>6, TouchIndexKeeps, VisitCommitKeeps
<1> QED BY <1>1, <1>2, <1>3, <1>4, <1>5, <1>6, JobKeeps DEF VisitNext, Sessions

\* The invariant holds of every behaviour of the handlers of visitors.py, of
\* visitor_service.py and of the expiry job, whatever the operations asked for, the
\* number of sessions and the photos.
THEOREM VisitsInductive == VisitSpec => []VisitIInv
<1>1. VisitInit => VisitIInv
  BY VisitInitKeeps
<1>2. VisitIInv /\ [VisitNext]_visitVars => VisitIInv'
  BY VisitNextKeeps
<1> QED BY <1>1, <1>2, PTL DEF VisitSpec

\* The row of a visitor nobody has overlapped on.
LEMMA RowOfOrderly == VisitIInv => VisitorRowAgrees
<1> SUFFICES ASSUME VisitIInv, ~crossed PROVE VisitorRowAgrees
  BY DEF VisitorRowAgrees, FlagMatchesIndex, RejectedIsOut, OnePrimaryPhoto
<1>1. Orderly /\ DOMAIN handling = Sessions
  BY VisitTypes DEF VisitIInv
<1>2. FlagMatchesIndex
  BY <1>1 DEF FlagMatchesIndex, Orderly, Touched
<1>3. RejectedIsOut /\ OnePrimaryPhoto
  BY <1>1 DEF RejectedIsOut, OnePrimaryPhoto, Orderly
<1> QED BY <1>2, <1>3 DEF VisitorRowAgrees

\* The columns of a visitor agree with each other, with the photos and with the index,
\* through any sequence of the operations and of the job, unless requests overlapped or
\* one failed half-way.
THEOREM VisitorRow == VisitSpec => []VisitorRowAgrees
BY RowOfOrderly, VisitsInductive, PTL

-----------------------------------------------------------------------------
(* Setup *)

VisitRecords ==
    [stage : {"none", "allowed", "begun", "read", "roles", "admin"},
     on : Databases \cup {Nil}, email : Emails \cup {Nil},
     sawRoles : BOOLEAN, newRoles : BOOLEAN, newOrg : BOOLEAN]

DatabaseRecords == [there : BOOLEAN, head : BOOLEAN, roles : BOOLEAN,
                    orgs : 0..MaxVisits, admins : SUBSET Emails]

\* What a setup has found and inserted at each of its stages.
VisitFits(visit) ==
    /\ visit.stage = "none" => visit = NoVisit
    /\ visit.stage \notin {"none", "allowed"} => visit.on \in Databases /\ visit.email \in Emails
    /\ visit.stage \notin {"roles", "admin"} => ~visit.newRoles
    /\ visit.stage \in {"read", "roles", "admin"} /\ visit.sawRoles => databases[visit.on].roles
    /\ visit.stage \in {"roles", "admin"} =>
        visit.newRoles = ~visit.sawRoles /\ (visit.newRoles => ~databases[visit.on].roles)
    /\ visit.stage = "admin" => visit.newOrg = visit.newRoles

\* One setup at a time inserts the roles of a database.
OneNewcomer ==
    \A u, v \in WizardTabs : /\ u # v
                             /\ visits[u].newRoles /\ visits[v].newRoles
                             => visits[u].on # visits[v].on

\* The roles come with the organization, and the admins not before them.
RolesBringOrganization ==
    \A d \in Databases : IF databases[d].roles THEN databases[d].orgs = 1
                         ELSE databases[d].orgs = 0 /\ databases[d].admins = {}

FirstTyped ==
    /\ databases \in [Databases -> DatabaseRecords]
    /\ chosen \in Databases /\ engineOn \in Databases
    /\ status \in {"idle", "running", "done", "failed"}
    /\ thread \in [stage : {"none", "rename", "ensure", "upgrade", "reconnect"},
                   name : Databases \cup {Nil}, renamed : BOOLEAN]
    /\ visits \in [WizardTabs -> VisitRecords]
    /\ visitCount \in 0..MaxVisits

FirstIInv ==
    /\ FirstTyped
    /\ \A v \in WizardTabs : VisitFits(visits[v])
    /\ \A v \in WizardTabs : visits[v].stage # "none" => visitCount >= 1
    /\ OneNewcomer
    /\ RolesBringOrganization

\* What a visit is does not depend on databases it is not on.
LEMMA FitsElsewhere ==
    ASSUME FirstTyped, NEW visit \in VisitRecords, VisitFits(visit),
           \A d \in Databases : databases'[d].roles = databases[d].roles
    PROVE  VisitFits(visit)'
BY DEF VisitFits, VisitRecords, FirstTyped

\* The visit of v becomes one that is not a newcomer that was not.
LEMMA OneVisitMoves ==
    ASSUME FirstIInv, NEW v \in WizardTabs, NEW visit \in VisitRecords,
           visits' = [visits EXCEPT ![v] = visit],
           UNCHANGED <<databases, visitCount>>,
           FirstTyped', VisitFits(visit),
           visit.stage # "none" => visitCount >= 1,
           visit.newRoles => \A u \in WizardTabs : u # v /\ visits[u].newRoles
                                => visits[u].on # visit.on
    PROVE  FirstIInv'
PROOF
<1>1. \A u \in WizardTabs : visits'[u] = IF u = v THEN visit ELSE visits[u]
  BY DEF FirstIInv, FirstTyped
<1>2. \A u \in WizardTabs : VisitFits(visits[u])'
  BY <1>1 DEF FirstIInv, FirstTyped, VisitFits
<1>3. OneNewcomer'
  BY <1>1 DEF FirstIInv, OneNewcomer
<1> QED BY <1>1, <1>2, <1>3 DEF FirstIInv, RolesBringOrganization

LEMMA LeaveIInv ==
    ASSUME FirstIInv, NEW v \in WizardTabs, Leaves(v), UNCHANGED <<databases, visitCount>>,
           FirstTyped'
    PROVE  FirstIInv'
<1>1. NoVisit \in VisitRecords /\ VisitFits(NoVisit) /\ ~NoVisit.newRoles
      /\ NoVisit.stage = "none"
  BY DEF NoVisit, VisitRecords, VisitFits
<1> QED BY <1>1, OneVisitMoves DEF Leaves

LEMMA NoVisitTyped == NoVisit \in VisitRecords
BY DEF NoVisit, VisitRecords

LEMMA NoMigrationTyped ==
    NoMigration \in [stage : {"none", "rename", "ensure", "upgrade", "reconnect"},
                     name : Databases \cup {Nil}, renamed : BOOLEAN]
BY DEF NoMigration

\* A request comes in.
LEMMA AskedIInv ==
    ASSUME FirstIInv, NEW v \in WizardTabs, NEW visit \in VisitRecords, Visit(v, visit),
           UNCHANGED <<databases, chosen, engineOn, status, thread>>,
           VisitFits(visit), ~visit.newRoles
    PROVE  FirstIInv'
<1>1. /\ visits' = [visits EXCEPT ![v] = visit] /\ visitCount' = visitCount + 1
      /\ visitCount < MaxVisits /\ visitCount \in Nat /\ MaxVisits \in Nat
  BY FirstRunAssumption DEF Visit, FirstIInv, FirstTyped
<1>2. FirstTyped'
  BY <1>1 DEF FirstIInv, FirstTyped, DatabaseRecords
<1>3. \A u \in WizardTabs : visits'[u] = IF u = v THEN visit ELSE visits[u]
  BY <1>1 DEF FirstIInv, FirstTyped
<1>4. \A u \in WizardTabs : VisitFits(visits[u])'
  BY <1>3 DEF FirstIInv, FirstTyped, VisitFits
<1>5. OneNewcomer'
  BY <1>3 DEF FirstIInv, OneNewcomer
<1>6. visitCount' >= 1
  BY <1>1
<1> QED BY <1>2, <1>4, <1>5, <1>6 DEF FirstIInv, RolesBringOrganization

LEMMA AskMigrationIInv ==
    ASSUME FirstIInv, NEW v \in WizardTabs, NEW name \in Databases \cup {Nil},
           AskMigration(v, name)
    PROVE  FirstIInv'
<1> DEFINE visit == [NoVisit EXCEPT !.stage = "allowed", !.on = name]
<1>1. visit \in VisitRecords /\ VisitFits(visit) /\ ~visit.newRoles
  BY DEF NoVisit, VisitRecords, VisitFits
<1> QED BY <1>1, AskedIInv DEF AskMigration

LEMMA BeginSetupIInv ==
    ASSUME FirstIInv, NEW v \in WizardTabs, NEW email \in Emails, BeginSetup(v, email)
    PROVE  FirstIInv'
<1> DEFINE visit == [NoVisit EXCEPT !.stage = "begun", !.on = engineOn, !.email = email]
<1>1. visit \in VisitRecords /\ VisitFits(visit) /\ ~visit.newRoles
  BY DEF NoVisit, VisitRecords, VisitFits, FirstIInv, FirstTyped
<1> QED BY <1>1, AskedIInv DEF BeginSetup

LEMMA StartMigrationIInv ==
    ASSUME FirstIInv, NEW v \in WizardTabs, StartMigration(v)
    PROVE  FirstIInv'
<1>1. visits[v] \in VisitRecords /\ thread' \in [stage : {"none", "rename", "ensure", "upgrade", "reconnect"},
                     name : Databases \cup {Nil}, renamed : BOOLEAN]
  BY DEF StartMigration, FirstIInv, FirstTyped, VisitRecords, NoMigration
<1>2. FirstTyped'
  BY <1>1, NoVisitTyped DEF StartMigration, Leaves, FirstIInv, FirstTyped
<1> QED BY <1>2, LeaveIInv DEF StartMigration

LEMMA ReadRolesIInv ==
    ASSUME FirstIInv, NEW v \in WizardTabs, ReadRoles(v)
    PROVE  FirstIInv'
<1> DEFINE visit == [visits[v] EXCEPT !.stage = "read",
                                      !.sawRoles = databases[visits[v].on].roles]
<1>1. visits[v] \in VisitRecords /\ VisitFits(visits[v]) /\ visits[v].stage = "begun"
      /\ visits[v].on \in Databases /\ visitCount >= 1
  BY DEF ReadRoles, FirstIInv, FirstTyped, VisitFits
<1>2. databases[visits[v].on].roles \in BOOLEAN
  BY <1>1 DEF FirstIInv, FirstTyped, DatabaseRecords
<1>3. visit \in VisitRecords /\ VisitFits(visit) /\ ~visit.newRoles
  BY <1>1, <1>2 DEF VisitRecords, VisitFits
<1>4. visits' = [visits EXCEPT ![v] = visit]
  BY DEF ReadRoles, FirstIInv, FirstTyped
<1>5. FirstTyped'
  BY <1>3, <1>4 DEF ReadRoles, FirstIInv, FirstTyped
<1> QED BY <1>1, <1>3, <1>4, <1>5, OneVisitMoves DEF ReadRoles

\* The insert of the roles waits for the newcomer there is.
LEMMA InsertRolesIInv ==
    ASSUME FirstIInv, NEW v \in WizardTabs, InsertRoles(v)
    PROVE  FirstIInv'
<1> DEFINE visit == [visits[v] EXCEPT !.stage = "roles", !.newRoles = ~visits[v].sawRoles]
<1>1. visits[v] \in VisitRecords /\ VisitFits(visits[v]) /\ visits[v].stage = "read"
      /\ visits[v].on \in Databases /\ visitCount >= 1
  BY DEF InsertRoles, FirstIInv, FirstTyped, VisitFits
<1>2. visits[v].sawRoles \/ ~databases[visits[v].on].roles
  BY DEF InsertRoles
<1>3. visit \in VisitRecords /\ VisitFits(visit)
  BY <1>1, <1>2 DEF VisitRecords, VisitFits
<1>4. visits' = [visits EXCEPT ![v] = visit]
  BY DEF InsertRoles, FirstIInv, FirstTyped
<1>5. FirstTyped'
  BY <1>3, <1>4 DEF InsertRoles, FirstIInv, FirstTyped
<1>6. visit.newRoles => \A u \in WizardTabs : u # v /\ visits[u].newRoles
                            => visits[u].on # visit.on
  BY <1>1 DEF InsertRoles, VisitRecords
<1> QED BY <1>1, <1>3, <1>4, <1>5, <1>6, OneVisitMoves DEF InsertRoles

LEMMA InsertAdminIInv ==
    ASSUME FirstIInv, NEW v \in WizardTabs, InsertAdmin(v)
    PROVE  FirstIInv'
<1> DEFINE visit == [visits[v] EXCEPT !.stage = "admin",
                                      !.newOrg = (databases[visits[v].on].orgs = 0)]
<1>1. visits[v] \in VisitRecords /\ VisitFits(visits[v]) /\ visits[v].stage = "roles"
      /\ visits[v].on \in Databases /\ visitCount >= 1
  BY DEF InsertAdmin, FirstIInv, FirstTyped, VisitFits
<1>2. (databases[visits[v].on].orgs = 0) = visits[v].newRoles
  BY <1>1 DEF FirstIInv, RolesBringOrganization, VisitFits, VisitRecords
<1>3. visit \in VisitRecords /\ VisitFits(visit) /\ visit.newRoles = visits[v].newRoles
      /\ visit.on = visits[v].on
  BY <1>1, <1>2 DEF VisitRecords, VisitFits
<1>4. visits' = [visits EXCEPT ![v] = visit]
  BY DEF InsertAdmin, FirstIInv, FirstTyped
<1>5. FirstTyped'
  BY <1>3, <1>4 DEF InsertAdmin, FirstIInv, FirstTyped
<1>6. visit.newRoles => \A u \in WizardTabs : u # v /\ visits[u].newRoles
                            => visits[u].on # visit.on
  BY <1>3 DEF FirstIInv, OneNewcomer
<1> QED BY <1>1, <1>3, <1>4, <1>5, <1>6, OneVisitMoves DEF InsertAdmin

\* With the commit of a newcomer the roles and the organization are there; nobody else
\* on that database is a newcomer.
LEMMA CommitSetupIInv ==
    ASSUME FirstIInv, NEW v \in WizardTabs, CommitSetup(v)
    PROVE  FirstIInv'
<1> DEFINE visit == visits[v]
           d == visit.on
           row == [databases[d] EXCEPT !.roles = TRUE,
                                       !.orgs = IF visit.newOrg THEN @ + 1 ELSE @,
                                       !.admins = @ \cup {visit.email}]
<1>1. /\ visit \in VisitRecords /\ VisitFits(visit) /\ visit.stage = "admin" /\ d \in Databases
      /\ visit.email \in Emails /\ visitCount >= 1 /\ visitCount \in 0..MaxVisits /\ MaxVisits \in Nat
  BY FirstRunAssumption DEF CommitSetup, FirstIInv, FirstTyped, VisitFits
<1>2. databases[d] \in DatabaseRecords
  BY <1>1 DEF FirstIInv, FirstTyped
<1>3. IF visit.newOrg THEN databases[d].orgs = 0 ELSE databases[d].orgs = 1
  BY <1>1 DEF FirstIInv, RolesBringOrganization, VisitFits, VisitRecords
<1>4. row \in DatabaseRecords /\ row.roles /\ row.orgs = 1
  <2>1. databases[d].admins \cup {visit.email} \in SUBSET Emails
    BY <1>1, <1>2 DEF DatabaseRecords
  <2>2. (IF visit.newOrg THEN databases[d].orgs + 1 ELSE databases[d].orgs) = 1
    BY <1>3
  <2>3. 1 \in 0..MaxVisits
    BY <1>1
  <2>4. row = [databases[d] EXCEPT !.roles = TRUE, !.orgs = 1,
                                   !.admins = databases[d].admins \cup {visit.email}]
    BY <1>2, <2>2 DEF DatabaseRecords
  <2> HIDE DEF row
  <2> QED BY <1>2, <2>1, <2>3, <2>4 DEF DatabaseRecords
<1>5. databases' = [databases EXCEPT ![d] = row]
  BY DEF CommitSetup, FirstIInv, FirstTyped
<1>6. visits' = [visits EXCEPT ![v] = NoVisit]
  BY DEF CommitSetup, Leaves
<1> HIDE DEF row
<1>7. FirstTyped'
  BY <1>4, <1>5, <1>6, NoVisitTyped DEF CommitSetup, FirstIInv, FirstTyped
<1>8. \A c \in Databases : databases'[c] = IF c = d THEN row ELSE databases[c]
  BY <1>5 DEF FirstIInv, FirstTyped
<1>9. RolesBringOrganization'
  BY <1>4, <1>8 DEF FirstIInv, RolesBringOrganization
<1>10. \A u \in WizardTabs : visits'[u] = IF u = v THEN NoVisit ELSE visits[u]
  BY <1>6 DEF FirstIInv, FirstTyped
<1>11. OneNewcomer'
  BY <1>10 DEF FirstIInv, OneNewcomer, NoVisit
<1>12. ASSUME NEW u \in WizardTabs PROVE VisitFits(visits[u])'
  <2>1. CASE u = v
    <3>1. visits'[u] = NoVisit
      BY <2>1, <1>10
    <3> QED BY <3>1 DEF VisitFits, NoVisit
  <2>2. CASE u # v
    <3>1. visits'[u] = visits[u] /\ visits[u] \in VisitRecords /\ VisitFits(visits[u])
      BY <2>2, <1>10 DEF FirstIInv, FirstTyped
    <3>2. visits[u].newRoles => visits[u].on # d
      <4>1. visits[u].newRoles /\ visits[u].on = d => ~visit.newRoles
        BY <2>2 DEF FirstIInv, OneNewcomer
      <4>2. ~visit.newRoles => databases[d].roles
        BY <1>1 DEF VisitFits, VisitRecords
      <4>3. visits[u].newRoles => ~databases[visits[u].on].roles
        BY <3>1 DEF VisitFits
      <4> QED BY <4>1, <4>2, <4>3
    <3>3. \A c \in Databases : (databases[c].roles => databases'[c].roles)
                               /\ (c # d => databases'[c].roles = databases[c].roles)
      BY <1>4, <1>8
    <3> QED BY <3>1, <3>2, <3>3 DEF VisitFits, VisitRecords
  <2> QED BY <2>1, <2>2
<1>13. \A u \in WizardTabs : visits'[u].stage # "none" => visitCount' >= 1
  BY <1>1, <1>10 DEF CommitSetup
<1> QED BY <1>7, <1>9, <1>11, <1>12, <1>13 DEF FirstIInv

\* The thread creates and upgrades databases, and has nothing to do with their rows.
LEMMA MigrateIInv ==
    ASSUME FirstIInv, Migrate
    PROVE  FirstIInv'
<1>1. FirstTyped' /\ UNCHANGED <<visits, visitCount>>
      /\ \A d \in Databases : /\ databases'[d].roles = databases[d].roles
                              /\ databases'[d].orgs = databases[d].orgs
                              /\ databases'[d].admins = databases[d].admins
  <2>1. CASE Rename
    BY <2>1 DEF Rename, FirstIInv, FirstTyped
  <2>2. CASE EnsureDatabase
    BY <2>2 DEF EnsureDatabase, FirstIInv, FirstTyped, DatabaseRecords
  <2>3. CASE Upgrade
    BY <2>3 DEF Upgrade, FirstIInv, FirstTyped, DatabaseRecords
  <2>4. CASE Reconnect
    BY <2>4, NoMigrationTyped DEF Reconnect, FirstIInv, FirstTyped
  <2>5. CASE MigrationFails
    BY <2>5, NoMigrationTyped DEF MigrationFails, FirstIInv, FirstTyped
  <2> QED BY <2>1, <2>2, <2>3, <2>4, <2>5 DEF Migrate
<1>2. \A v \in WizardTabs : VisitFits(visits[v])'
  <2>1. \A v \in WizardTabs : visits[v] \in VisitRecords /\ VisitFits(visits[v])
    BY DEF FirstIInv, FirstTyped
  <2>2. \A v \in WizardTabs : visits'[v] = visits[v]
    BY <1>1
  <2> QED BY <1>1, <2>1, <2>2 DEF VisitFits, VisitRecords
<1> QED BY <1>1, <1>2 DEF FirstIInv, OneNewcomer, RolesBringOrganization

\* A restart drops every request with what it had not committed.
LEMMA RestartBackendIInv ==
    ASSUME FirstIInv, RestartBackend
    PROVE  FirstIInv'
<1>1. FirstTyped'
  BY NoVisitTyped, NoMigrationTyped DEF RestartBackend, FirstIInv, FirstTyped
<1>2. \A v \in WizardTabs : visits'[v] = NoVisit
  BY DEF RestartBackend
<1> QED BY <1>1, <1>2 DEF RestartBackend, FirstIInv, VisitFits, OneNewcomer,
                          RolesBringOrganization, NoVisit

LEMMA AbortVisitIInv ==
    ASSUME FirstIInv, NEW v \in WizardTabs, AbortVisit(v)
    PROVE  FirstIInv'
<1>1. FirstTyped'
  BY NoVisitTyped DEF AbortVisit, Leaves, FirstIInv, FirstTyped
<1> QED BY <1>1, LeaveIInv DEF AbortVisit

LEMMA FirstInitIInv == FirstRunInit => FirstIInv
BY FirstRunAssumption, NoVisitTyped, NoMigrationTyped
   DEF FirstRunInit, FirstIInv, FirstTyped, DatabaseRecords, NotThere, VisitFits,
       OneNewcomer, RolesBringOrganization, NoVisit

LEMMA FirstStepIInv == FirstIInv /\ [FirstRunNext]_firstVars => FirstIInv'
<1> SUFFICES ASSUME FirstIInv, [FirstRunNext]_firstVars PROVE FirstIInv'
  OBVIOUS
<1>1. CASE UNCHANGED firstVars
  BY <1>1 DEF firstVars, FirstIInv, FirstTyped, VisitFits, OneNewcomer, RolesBringOrganization
<1>2. CASE FirstRunNext
  BY <1>2, AskMigrationIInv, BeginSetupIInv, StartMigrationIInv, ReadRolesIInv, InsertRolesIInv,
     InsertAdminIInv, CommitSetupIInv, AbortVisitIInv, MigrateIInv, RestartBackendIInv
     DEF FirstRunNext
<1> QED BY <1>1, <1>2

\* At most one setup at a time inserts the roles of a database, with the roles comes the
\* organization, and no admin is there before them (run_setup, ensure_roles_and_permissions).
THEOREM FirstInductive == FirstRunSpec => []FirstIInv
BY FirstInitIInv, FirstStepIInv, PTL DEF FirstRunSpec

LEMMA FirstIInvTyped == FirstIInv => FirstRunTypeOK
BY DEF FirstIInv, FirstTyped, FirstRunTypeOK, DatabaseRecords

\* For any number of databases, requests and addresses, databases, the wizard's state and
\* the migration thread are what setup.py and setup_migrations.py make of them.
THEOREM SetupTyped == FirstRunSpec => []FirstRunTypeOK
BY FirstInductive, FirstIInvTyped, PTL

LEMMA RolesMeanOne == FirstIInv => OneOrganization
BY DEF FirstIInv, RolesBringOrganization, OneOrganization

\* A setup leaves one organization, however many are asked for at once: "single-org
\* deployments rely on there being exactly one" (run_setup).
THEOREM OneIsSetUp == FirstRunSpec => []OneOrganization
BY RolesMeanOne, FirstInductive, PTL
=============================================================================
