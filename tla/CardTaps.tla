------------------------------- MODULE CardTaps -------------------------------
(***************************************************************************)
(* Card readers, cards and taps: backend/app/services/rfid_service.py, the *)
(* handlers of backend/app/api/rfid.py, the authentication of a device     *)
(* (get_rfid_reader) and process_rfid_tap of attendance_service.py.        *)
(*                                                                         *)
(* A tap reads the reader, then the card with its employee, then the row   *)
(* of the day, and writes row and event in one commit; what it read is not *)
(* read again (a second SELECT in a session returns the object it has).    *)
(* Times are kept as far as a tap asks for them: is there a check-in, a    *)
(* check-out, and was there an action within the duplicate window.         *)
(***************************************************************************)
EXTENDS Backend

CONSTANTS
    TapReaders,   \* readers
    CardUids,     \* uids of cards
    Holders,      \* employees
    Doors,        \* sessions that serve taps
    LastToken,    \* bound of the tokens a reader is given
    MaxTaps,      \* bound of the taps
    MaxCardEdits  \* bound of the administration of readers, cards and employees

ASSUME CardAssumption ==
    /\ LastToken \in Nat /\ MaxTaps \in Nat /\ MaxCardEdits \in Nat
    /\ Nil \notin Holders \cup [in : BOOLEAN, out : BOOLEAN]

VARIABLES
    readers,     \* rows of rfid_readers
    deviceToken, \* the token each device is set to
    cards,       \* cards[u]: the row of rfid_cards with uid u; no holder: there is none
    working,     \* employees with is_active
    day,         \* day[h]: the attendance row of today, or Nil
    recent,      \* recent[h]: an action of h, or its marker, is within the window
    taps,        \* taps[d]: what the tap in session d has read and decided
    tapEvents,   \* rows of rfid_events, as far as the properties tell them apart
    tapCount, cardEdits,
    withdrawn    \* auxiliary: uids that were revoked

cardVars == <<readers, deviceToken, cards, working, day, recent, taps, tapEvents,
              tapCount, cardEdits, withdrawn>>

Directions == {"in", "out", "both"}
NoTap == [stage |-> "none", reader |-> Nil, way |-> "both", uid |-> Nil, holder |-> Nil,
          action |-> "none", late |-> FALSE]
Unclaimed == [holder |-> Nil, active |-> FALSE]

CardTypeOK ==
    /\ readers \in [TapReaders -> [active : BOOLEAN, token : 0..LastToken, way : Directions]]
    /\ deviceToken \in [TapReaders -> 0..LastToken]
    /\ cards \in [CardUids -> [holder : Holders \cup {Nil}, active : BOOLEAN]]
    /\ working \subseteq Holders
    /\ day \in [Holders -> [in : BOOLEAN, out : BOOLEAN] \cup {Nil}]
    /\ recent \in [Holders -> BOOLEAN]
    /\ DOMAIN taps = Doors
    /\ tapCount \in 0..MaxTaps /\ cardEdits \in 0..MaxCardEdits
    /\ withdrawn \subseteq CardUids

CardInit ==
    /\ readers \in [TapReaders -> [active : {TRUE}, token : {0}, way : Directions]]
    /\ deviceToken = [r \in TapReaders |-> 0]
    /\ cards = [u \in CardUids |-> Unclaimed]
    /\ working = Holders
    /\ day = [h \in Holders |-> Nil]
    /\ recent = [h \in Holders |-> FALSE]
    /\ taps = [d \in Doors |-> NoTap]
    /\ tapEvents = {}
    /\ tapCount = 0 /\ cardEdits = 0
    /\ withdrawn = {}

-----------------------------------------------------------------------------
(* Administration: each handler is one commit *)

CardEdit ==
    /\ cardEdits < MaxCardEdits
    /\ cardEdits' = cardEdits + 1
    /\ UNCHANGED <<day, recent, taps, tapEvents, tapCount>>

DeactivateReader(r) ==
    /\ CardEdit
    /\ readers' = [readers EXCEPT ![r].active = FALSE]
    /\ UNCHANGED <<deviceToken, cards, working, withdrawn>>

UpdateReader(r, active, way) ==
    /\ CardEdit
    /\ readers' = [readers EXCEPT ![r].active = active, ![r].way = way]
    /\ UNCHANGED <<deviceToken, cards, working, withdrawn>>

\* The device is out until it is given the new token.
RegenerateToken(r) ==
    /\ CardEdit
    /\ readers[r].token < LastToken
    /\ readers' = [readers EXCEPT ![r].token = @ + 1]
    /\ UNCHANGED <<deviceToken, cards, working, withdrawn>>

ConfigureDevice(r) ==
    /\ deviceToken[r] # readers[r].token
    /\ deviceToken' = [deviceToken EXCEPT ![r] = readers[r].token]
    /\ UNCHANGED <<readers, cards, working, day, recent, taps, tapEvents, tapCount,
                   cardEdits, withdrawn>>

\* Variant: only an active card holds its uid.
UidFreeOfActive(u) == ~cards[u].active

\* The uid is unique over active and revoked cards.
UidFree(u) == cards[u].holder = Nil

AddEmployeeCard(h, u) ==
    /\ CardEdit
    /\ UidFree(u)
    /\ cards' = [cards EXCEPT ![u] = [holder |-> h, active |-> TRUE]]
    /\ UNCHANGED <<readers, deviceToken, working, withdrawn>>

RevokeCard(u) ==
    /\ CardEdit
    /\ cards[u].holder # Nil
    /\ cards' = [cards EXCEPT ![u].active = FALSE]
    /\ withdrawn' = withdrawn \cup {u}
    /\ UNCHANGED <<readers, deviceToken, working>>

\* Employees are deactivated, and activated again by an update.
SetEmployeeActive(h) ==
    /\ CardEdit
    /\ working' = IF h \in working THEN working \ {h} ELSE working \cup {h}
    /\ UNCHANGED <<readers, deviceToken, cards, withdrawn>>

-----------------------------------------------------------------------------
(* Taps *)

BeginTap(d, r, u) ==
    /\ taps[d].stage = "none"
    /\ tapCount < MaxTaps
    /\ tapCount' = tapCount + 1
    /\ taps' = [taps EXCEPT ![d] = [NoTap EXCEPT !.stage = "read", !.reader = r, !.uid = u,
                                    !.way = readers[r].way, !.late = u \in withdrawn]]
    /\ UNCHANGED <<readers, deviceToken, cards, working, day, recent, tapEvents,
                   cardEdits, withdrawn>>

\* A device is known by its token and served by an active reader.
RfidTap(d, r, u) ==
    /\ readers[r].active /\ deviceToken[r] = readers[r].token
    /\ BeginTap(d, r, u)

\* The reader is named by its id, and need not be active.
SimulateTap(d, r, u) == BeginTap(d, r, u)

\* The card and, with it, its employee.
LookUpCard(d) ==
    LET u == taps[d].uid
        found == cards[u].holder
        served == cards[u].active /\ found \in working
    IN
    /\ taps[d].stage = "read"
    /\ taps' = [taps EXCEPT ![d].holder = found,
                            ![d].stage = IF served THEN "served" ELSE "decided",
                            ![d].action = IF found = Nil THEN "unknown"
                                          ELSE IF served THEN "none" ELSE "inactive"]
    /\ UNCHANGED <<readers, deviceToken, cards, working, day, recent, tapEvents, tapCount,
                   cardEdits, withdrawn>>

NewDay == [in |-> FALSE, out |-> FALSE]

ActionOn(row, way, dup) ==
    CASE dup -> "duplicate_ignored"
      [] ~dup /\ way # "out" /\ ~row.in -> "check_in"
      [] ~dup /\ way # "in" /\ row.in /\ ~row.out -> "check_out"
      [] OTHER -> "none"

\* The row of the day is read, or inserted, and judged. An insert waits for another one.
JudgeDay(d) ==
    LET h == taps[d].holder
        row == IF day[h] = Nil THEN NewDay ELSE day[h]
    IN
    /\ taps[d].stage = "served"
    /\ day[h] = Nil => ~\E e \in Doors : taps[e].stage = "inserted" /\ taps[e].holder = h
    /\ taps' = [taps EXCEPT
          ![d].action = IF taps[d].way = "out" /\ day[h] = Nil THEN "inactive"
                        ELSE ActionOn(row, taps[d].way, recent[h]),
          ![d].stage = IF taps[d].way # "out" /\ day[h] = Nil THEN "inserted" ELSE "decided"]
    /\ UNCHANGED <<readers, deviceToken, cards, working, day, recent, tapEvents, tapCount,
                   cardEdits, withdrawn>>

Moves == {"check_in", "check_out"}

\* The row after the action; an UPDATE names the columns it changes.
DayAfter(t) ==
    LET row == IF day[t.holder] = Nil THEN NewDay ELSE day[t.holder]
    IN [in |-> row.in \/ t.action = "check_in", out |-> row.out \/ t.action = "check_out"]

\* Variant: the outcome is derived from the timestamps after the write.
ReportedLater(t) ==
    IF t.action = "check_in" /\ DayAfter(t).in THEN "duplicate_ignored" ELSE t.action

\* The event names the action the tap took.
Reported(t) == t.action

\* The row, the marker and the event.
CommitTap(d) ==
    LET t == taps[d] IN
    /\ t.stage \in {"inserted", "decided"}
    /\ day' = IF t.stage = "inserted" \/ t.action \in Moves
              THEN [day EXCEPT ![t.holder] = DayAfter(t)] ELSE day
    /\ recent' = IF t.action \in Moves THEN [recent EXCEPT ![t.holder] = TRUE] ELSE recent
    /\ tapEvents' = tapEvents \cup {[uid |-> t.uid, holder |-> t.holder,
                                     result |-> Reported(t), late |-> t.late]}
    /\ taps' = [taps EXCEPT ![d] = NoTap]
    /\ UNCHANGED <<readers, deviceToken, cards, working, tapCount, cardEdits, withdrawn>>

\* The request fails, or its commit: nothing is written, but the marker may be armed.
FailTap(d) ==
    LET t == taps[d] IN
    /\ t.stage # "none"
    /\ \/ recent' = recent
       \/ t.action \in Moves /\ recent' = [recent EXCEPT ![t.holder] = TRUE]
    /\ taps' = [taps EXCEPT ![d] = NoTap]
    /\ UNCHANGED <<readers, deviceToken, cards, working, day, tapEvents, tapCount,
                   cardEdits, withdrawn>>

TapWindowPasses(h) ==
    /\ recent[h]
    /\ recent' = [recent EXCEPT ![h] = FALSE]
    /\ UNCHANGED <<readers, deviceToken, cards, working, day, taps, tapEvents, tapCount,
                   cardEdits, withdrawn>>

CardNext ==
    \/ \E r \in TapReaders :
          \/ \E active \in BOOLEAN, way \in Directions : UpdateReader(r, active, way)
          \/ DeactivateReader(r) \/ RegenerateToken(r) \/ ConfigureDevice(r)
    \/ \E u \in CardUids : RevokeCard(u) \/ \E h \in Holders : AddEmployeeCard(h, u)
    \/ \E h \in Holders : SetEmployeeActive(h) \/ TapWindowPasses(h)
    \/ \E d \in Doors :
          \/ \E r \in TapReaders, u \in CardUids : RfidTap(d, r, u) \/ SimulateTap(d, r, u)
          \/ LookUpCard(d) \/ JudgeDay(d) \/ CommitTap(d) \/ FailTap(d)

CardSpec == CardInit /\ [][CardNext]_cardVars

-----------------------------------------------------------------------------
(* Properties *)

\* A card that was revoked before a tap began opens nothing, whoever is given the card
\* afterwards and whatever is edited or fails in between (revoke_card, add_employee_card,
\* process_tap).
RevokedCardsAreDead ==
    \A e \in tapEvents : e.late => e.result = "inactive"

\* Every check-in and check-out of the day that cards made is told by an event of that
\* employee, and no event tells of one that the row does not have (process_tap reports
\* what process_rfid_tap did, in one commit).
EventsExplainTheDay ==
    \A h \in Holders : \A a \in Moves :
        (day[h] # Nil /\ IF a = "check_in" THEN day[h].in ELSE day[h].out)
        <=> \E e \in tapEvents : e.holder = h /\ e.result = a
===============================================================================
