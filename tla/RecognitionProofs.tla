-------------------------- MODULE RecognitionProofs -------------------------
(***************************************************************************)
(* Theorems about what the cameras see: the rows of cameras, the streams   *)
(* that run for them and the cached lists (CameraRegistry), the tracks of  *)
(* one stream and the faces recognised on them (LiveTracks), and what a    *)
(* recognised or unknown face leads to (SightingAlerts); and about the     *)
(* faces of employees that they are matched with (FaceEnrollment).  For    *)
(* any cameras, calls, slots, faces, kiosks, clocks, employees, sessions   *)
(* and images.                                                             *)
(***************************************************************************)
EXTENDS CameraRegistry, LiveTracks, SightingAlerts, FaceEnrollment,
        FiniteSetTheorems, FunctionTheorems, TLAPS

-----------------------------------------------------------------------------
(* Cameras and streams *)

CallRecords == [op : CamEdits \cup Closings \cup {"none", "sync", "list"},
                stage : {"none", "missed", "read", "flushed", "dropped", "registered"},
                camera : Cams \cup {Nil}, to : CamRows,
                seen : [Cams -> CamRows], alone : SUBSET Cams]

\* A request that has read the rows: a list has not before it is computed.
HasRead(k) == k.op \in CamEdits \cup {"sync"} \/ (k.op = "list" /\ k.stage = "read")

\* Nobody else works on what a request is alone on, so what it read of it is still so;
\* what a list read may name a camera that went with its location since.
AloneIsAlone ==
    \A o, p \in Operators : o # p =>
        camRequests[o].alone \cap Works(camRequests[p], camRequests[o]) = {}

ReadsAreFresh ==
    \A o \in Operators : HasRead(camRequests[o]) =>
        \A c \in camRequests[o].alone :
            /\ Tells(camRequests[o].seen, c)
            /\ camRequests[o].op # "list" => camRequests[o].seen[c] = camRows[c]

\* A registered stream that nobody else works on has the URL its edit will write.
RegisteredIsNew ==
    \A o \in Operators :
        LET call == camRequests[o] IN
        call.op = "add" /\ call.stage = "registered" /\ call.camera \in call.alone
        => streams[call.camera] \in {Nil, call.to.url}

Dropping(k) == k.op \in CamEdits /\ k.stage \in {"dropped", "registered"}

\* Between the drop of the list and the commit, only a list that is known to be stale is stored.
DroppedStaysDropped ==
    \A o \in Operators : Dropping(camRequests[o]) => listed = Nil \/ listed.raced

CamIInv ==
    /\ CameraTypeOK
    /\ \A o \in Operators : camRequests[o].op \in CamEdits => camRequests[o].camera \in Cams
    /\ AloneIsAlone /\ ReadsAreFresh /\ RegisteredIsNew /\ DroppedStaysDropped
    /\ StreamsFollowRows /\ ListsFollowRows

LEMMA WorksOn ==
  ASSUME NEW k, NEW p
  PROVE  /\ k.op \in CamEdits => Works(k, p) = {k.camera}
         /\ k.op \in Closings \cup {"sync"} /\ p.op # "list" => Works(k, p) = Cams
         /\ k.op \notin CamEdits /\ ~(k.op \in Closings \cup {"sync"} /\ p.op # "list")
              => Works(k, p) = {}
BY DEF Works, CamEdits, Closings

LEMMA WorksOnSame ==
  ASSUME NEW k, NEW p, NEW j, NEW q, k.op = j.op, k.camera = j.camera, p.op = q.op
  PROVE  Works(k, p) = Works(j, q)
BY WorksOn

LEMMA NoCallTyped ==
  /\ Unborn \in CamRows /\ NoCall \in CallRecords /\ NoCall.op = "none" /\ NoCall.alone = {}
  /\ NoCall.stage = "none"
<1>1. Unborn \in CamRows
  BY DEF Unborn, CamRows
<1>2. [c \in Cams |-> Unborn] \in [Cams -> CamRows]
  BY <1>1
<1> QED BY <1>1, <1>2 DEF NoCall, CallRecords

LEMMA CamTypes ==
  ASSUME CamIInv
  PROVE  /\ camRows \in [Cams -> CamRows]
         /\ streams \in [Cams -> CamUrls \cup {Nil}]
         /\ camRequests \in [Operators -> CallRecords]
         /\ listed = Nil \/ listed \in [rows : [Cams -> CamRows], raced : BOOLEAN]
         /\ unsettled \subseteq Cams /\ orphaned \subseteq Cams /\ located \in BOOLEAN
         /\ camCalls \in 0..MaxCamCalls /\ MaxCamCalls \in Nat
BY CameraAssumption DEF CamIInv, CameraTypeOK, CallRecords

CamTyped ==
    /\ camRows' \in [Cams -> CamRows]
    /\ streams' \in [Cams -> CamUrls \cup {Nil}]
    /\ camRequests' \in [Operators -> CallRecords]
    /\ listed' = Nil \/ listed' \in [rows : [Cams -> CamRows], raced : BOOLEAN]
    /\ unsettled' \subseteq Cams /\ orphaned' \subseteq Cams /\ located' \in BOOLEAN
    /\ camCalls' \in 0..MaxCamCalls

\* Requests go on with what they have read, or end.
GoesOn(j, k) ==
    \/ j = NoCall
    \/ /\ j.op = k.op /\ j.camera = k.camera /\ j.to = k.to /\ j.seen = k.seen
       /\ j.alone \subseteq k.alone
       /\ j.op = "list" => j.stage = k.stage

\* What remains to be shown of a step in which the requests go on: what the row of a
\* camera, its stream and the list become.
LEMMA CamStep ==
  ASSUME CamIInv, CamTyped,
         \A o \in Operators : GoesOn(camRequests'[o], camRequests[o]),
         \A o \in Operators : camRequests'[o] # NoCall =>
            \A c \in camRequests[o].alone :
               /\ \/ camRows'[c] = camRows[c]
                  \/ camRequests[o].op = "list" /\ c \in orphaned' /\ camRows[c].is = "there"
               /\ camRequests[o].op = "add"
                    => streams'[c] \in {streams[c], Nil, camRequests[o].to.url},
         orphaned \subseteq orphaned',
         \A o \in Operators :
            /\ camRequests'[o].op = "add" /\ camRequests'[o].stage = "registered"
            /\ camRequests[o].stage # "registered"
            => streams'[camRequests[o].camera] = camRequests[o].to.url,
         DroppedStaysDropped', StreamsFollowRows', ListsFollowRows'
  PROVE  CamIInv'
<1>1. CameraTypeOK'
  BY DEF CamTyped, CameraTypeOK, CallRecords
<1>2. ASSUME NEW o \in Operators, camRequests'[o].op \in CamEdits PROVE camRequests'[o].camera \in Cams
  BY <1>2, NoCallTyped DEF CamIInv, GoesOn, CamEdits
<1>3. AloneIsAlone'
  <2> SUFFICES ASSUME NEW o \in Operators, NEW p \in Operators, o # p
               PROVE  camRequests'[o].alone \cap Works(camRequests'[p], camRequests'[o]) = {}
    BY DEF AloneIsAlone
  <2>1. camRequests[o].alone \cap Works(camRequests[p], camRequests[o]) = {}
    BY DEF CamIInv, AloneIsAlone
  <2>2. CASE camRequests'[o] = NoCall
    BY <2>2, NoCallTyped
  <2>3. CASE camRequests'[p] = NoCall
    <3>1. Works(camRequests'[p], camRequests'[o]) = {}
      BY <2>3, NoCallTyped, WorksOn DEF CamEdits, Closings
    <3> QED BY <3>1
  <2>4. CASE camRequests'[o] # NoCall /\ camRequests'[p] # NoCall
    <3>1. Works(camRequests'[p], camRequests'[o]) = Works(camRequests[p], camRequests[o])
      BY <2>4, WorksOnSame DEF GoesOn
    <3>2. camRequests'[o].alone \subseteq camRequests[o].alone
      BY <2>4 DEF GoesOn
    <3> QED BY <2>1, <3>1, <3>2
  <2> QED BY <2>2, <2>3, <2>4
<1>4. ReadsAreFresh'
  <2> SUFFICES ASSUME NEW o \in Operators, HasRead(camRequests[o])', NEW c \in camRequests'[o].alone
               PROVE  /\ Tells(camRequests[o].seen, c)'
                      /\ camRequests'[o].op # "list" => camRequests'[o].seen[c] = camRows'[c]
    BY DEF ReadsAreFresh
  <2>1. camRequests'[o] # NoCall
    BY NoCallTyped
  <2>2. /\ camRequests'[o].op = camRequests[o].op /\ camRequests'[o].seen = camRequests[o].seen
        /\ c \in camRequests[o].alone
        /\ camRequests'[o].op = "list" => camRequests'[o].stage = camRequests[o].stage
    BY <2>1 DEF GoesOn
  <2>3. HasRead(camRequests[o])
    BY <2>2 DEF HasRead
  <2>4. /\ Tells(camRequests[o].seen, c)
        /\ camRequests[o].op # "list" => camRequests[o].seen[c] = camRows[c]
    BY <2>2, <2>3 DEF CamIInv, ReadsAreFresh
  <2>5. \/ camRows'[c] = camRows[c]
        \/ camRequests[o].op = "list" /\ c \in orphaned' /\ camRows[c].is = "there"
    BY <2>1, <2>2
  <2> QED BY <2>2, <2>4, <2>5 DEF Tells
<1>5. RegisteredIsNew'
  <2> SUFFICES ASSUME NEW o \in Operators,
                      camRequests'[o].op = "add", camRequests'[o].stage = "registered",
                      camRequests'[o].camera \in camRequests'[o].alone
               PROVE  streams'[camRequests'[o].camera] \in {Nil, camRequests'[o].to.url}
    BY DEF RegisteredIsNew
  <2>1. camRequests'[o] # NoCall
    BY NoCallTyped
  <2> DEFINE c == camRequests[o].camera
  <2>2. /\ camRequests[o].op = "add" /\ camRequests'[o].camera = c /\ c \in camRequests[o].alone
        /\ camRequests'[o].to = camRequests[o].to
    BY <2>1 DEF GoesOn
  <2>3. c \in Cams
    BY <2>2, CamTypes DEF CallRecords
  <2>4. CASE camRequests[o].stage # "registered"
    BY <2>2, <2>4
  <2>5. CASE camRequests[o].stage = "registered"
    <3>1. streams[c] \in {Nil, camRequests[o].to.url}
      BY <2>2, <2>5 DEF CamIInv, RegisteredIsNew
    <3> QED BY <2>1, <2>2, <2>3, <3>1
  <2> QED BY <2>4, <2>5
<1> QED BY <1>1, <1>2, <1>3, <1>4, <1>5 DEF CamIInv

\* A step that leaves the rows and the list, and drops streams at most.
LEMMA CamQuiet ==
  ASSUME CamIInv, CamTyped,
         \A o \in Operators : GoesOn(camRequests'[o], camRequests[o]),
         \A o \in Operators :
            /\ Dropping(camRequests'[o]) => Dropping(camRequests[o])
            /\ camRequests'[o].op = "add" /\ camRequests'[o].stage = "registered"
               => camRequests[o].stage = "registered",
         camRows' = camRows, orphaned' = orphaned, listed' \in {listed, Nil},
         \A c \in Cams : streams'[c] \in {streams[c], Nil}
                         /\ (streams'[c] # Nil => (c \in unsettled => c \in unsettled'))
  PROVE  CamIInv'
<1>1. DroppedStaysDropped'
  BY DEF CamIInv, DroppedStaysDropped
<1>2. StreamsFollowRows'
  BY DEF CamIInv, StreamsFollowRows
<1>3. ListsFollowRows'
  BY DEF CamIInv, ListsFollowRows, Tells
<1>4. \A o \in Operators : camRequests[o].alone \subseteq Cams
  BY CamTypes DEF CallRecords
<1>5. \A o \in Operators : camRequests'[o] # NoCall =>
         \A c \in camRequests[o].alone :
            /\ camRows'[c] = camRows[c]
            /\ camRequests[o].op = "add"
                 => streams'[c] \in {streams[c], Nil, camRequests[o].to.url}
  <2> SUFFICES ASSUME NEW o \in Operators, NEW c \in camRequests[o].alone
               PROVE  /\ camRows'[c] = camRows[c]
                      /\ streams'[c] \in {streams[c], Nil, camRequests[o].to.url}
    OBVIOUS
  <2>1. c \in Cams
    BY <1>4
  <2> QED BY <2>1
<1>6. \A o \in Operators :
         /\ camRequests'[o].op = "add" /\ camRequests'[o].stage = "registered"
         /\ camRequests[o].stage # "registered"
         => streams'[camRequests[o].camera] = camRequests[o].to.url
  OBVIOUS
<1> QED BY <1>1, <1>2, <1>3, <1>5, <1>6, CamStep

LEMMA GoingOn ==
  ASSUME CamIInv, NEW o \in Operators, NEW stage \in {"none", "missed", "read", "flushed", "dropped", "registered"},
         camRequests[o].op \in CamEdits,
         CallTo(o, stage)
  PROVE  /\ camRequests' \in [Operators -> CallRecords]
         /\ \A p \in Operators : GoesOn(camRequests'[p], camRequests[p])
         /\ camRequests'[o].stage = stage /\ camRequests'[o].op = camRequests[o].op
         /\ \A p \in Operators : p # o => camRequests'[p] = camRequests[p]
<1> DEFINE new == [camRequests[o] EXCEPT !.stage = stage]
<1>1. new \in CallRecords /\ new.stage = stage /\ new.op = camRequests[o].op /\ GoesOn(new, camRequests[o])
  BY CamTypes DEF CallRecords, GoesOn, CamEdits
<1>2. camRequests' = [camRequests EXCEPT ![o] = new]
  BY DEF CallTo
<1> HIDE DEF new
<1>3. \A p \in Operators : GoesOn(camRequests[p], camRequests[p])
  BY DEF GoesOn
<1> QED BY <1>1, <1>2, <1>3, CamTypes

LEMMA GoingOut ==
  ASSUME CamIInv, NEW o \in Operators, CallEnds(o)
  PROVE  /\ camRequests' \in [Operators -> CallRecords]
         /\ \A p \in Operators : GoesOn(camRequests'[p], camRequests[p])
         /\ camRequests'[o] = NoCall
         /\ \A p \in Operators : p # o => camRequests'[p] = camRequests[p]
BY CamTypes, NoCallTyped DEF CallEnds, GoesOn

\* Nobody else is alone on the camera of an edit.
LEMMA EditsClaim ==
  ASSUME CamIInv, NEW o \in Operators, camRequests[o].op \in CamEdits
  PROVE  /\ camRequests[o].camera \in Cams
         /\ \A p \in Operators : p # o => camRequests[o].camera \notin camRequests[p].alone
<1>1. \A p \in Operators : Works(camRequests[o], camRequests[p]) = {camRequests[o].camera}
  BY WorksOn
<1> QED BY <1>1 DEF CamIInv, AloneIsAlone

-----------------------------------------------------------------------------
LEMMA FlushKeeps ==
  ASSUME CamIInv, NEW o \in Operators, Flush(o) PROVE CamIInv'
<1>1. /\ camRequests[o].op \in CamEdits /\ CallTo(o, "flushed")
      /\ UNCHANGED <<camRows, streams, listed, unsettled, located, orphaned, camCalls>>
  BY DEF Flush
<1>2. /\ camRequests' \in [Operators -> CallRecords]
      /\ \A p \in Operators : GoesOn(camRequests'[p], camRequests[p])
      /\ camRequests'[o].stage = "flushed"
      /\ \A p \in Operators : p # o => camRequests'[p] = camRequests[p]
  BY <1>1, GoingOn
<1>3. CamTyped
  BY <1>1, <1>2, CamTypes DEF CamTyped
<1>4. \A p \in Operators :
        /\ Dropping(camRequests'[p]) => Dropping(camRequests[p])
        /\ camRequests'[p].op = "add" /\ camRequests'[p].stage = "registered"
           => camRequests[p].stage = "registered"
  BY <1>2 DEF Dropping
<1> QED BY <1>1, <1>2, <1>3, <1>4, CamQuiet

LEMMA DropListKeeps ==
  ASSUME CamIInv, NEW o \in Operators, NEW ok \in BOOLEAN, DropList(o, ok) PROVE CamIInv'
<1> DEFINE stale == [listed EXCEPT !.raced = TRUE]
<1>1. /\ camRequests[o].op \in CamEdits /\ CallTo(o, "dropped")
      /\ listed' = Nil \/ (listed # Nil /\ listed' = stale)
      /\ UNCHANGED <<camRows, streams, unsettled, located, orphaned, camCalls>>
  BY DEF DropList
<1>2. /\ camRequests' \in [Operators -> CallRecords]
      /\ \A p \in Operators : GoesOn(camRequests'[p], camRequests[p])
      /\ camRequests'[o].stage = "dropped"
      /\ \A p \in Operators : p # o => camRequests'[p] = camRequests[p]
  BY <1>1, GoingOn
<1>3. listed # Nil => stale \in [rows : [Cams -> CamRows], raced : BOOLEAN] /\ stale.raced
  BY CamTypes
<1> HIDE DEF stale
<1>4. CamTyped
  BY <1>1, <1>2, <1>3, CamTypes DEF CamTyped
<1>5. DroppedStaysDropped'
  BY <1>1, <1>3 DEF DroppedStaysDropped
<1>6. StreamsFollowRows'
  BY <1>1 DEF CamIInv, StreamsFollowRows
<1>7. ListsFollowRows'
  BY <1>1, <1>3 DEF ListsFollowRows
<1> QED BY <1>1, <1>2, <1>4, <1>5, <1>6, <1>7, CamStep

LEMMA RegisterStreamKeeps ==
  ASSUME CamIInv, NEW o \in Operators, RegisterStream(o) PROVE CamIInv'
<1> DEFINE c == camRequests[o].camera
           url == camRequests[o].to.url
<1>1. /\ camRequests[o].op = "add" /\ camRequests[o].stage = "dropped"
      /\ CallTo(o, "registered")
      /\ streams' = [streams EXCEPT ![c] = url] /\ unsettled' = unsettled \cup {c}
      /\ UNCHANGED <<camRows, listed, located, orphaned, camCalls>>
  BY DEF RegisterStream
<1>2. camRequests[o].op \in CamEdits
  BY <1>1 DEF CamEdits
<1>3. /\ camRequests' \in [Operators -> CallRecords]
      /\ \A p \in Operators : GoesOn(camRequests'[p], camRequests[p])
      /\ camRequests'[o].stage = "registered" /\ camRequests'[o].op = "add"
      /\ \A p \in Operators : p # o => camRequests'[p] = camRequests[p]
  BY <1>1, <1>2, GoingOn
<1>4. c \in Cams /\ \A p \in Operators : p # o => c \notin camRequests[p].alone
  BY <1>2, EditsClaim
<1>5. url \in CamUrls \cup {Nil}
  BY CamTypes DEF CallRecords, CamRows
<1>6. \A p \in Operators : camRequests[p].alone \subseteq Cams
  BY CamTypes DEF CallRecords
<1> HIDE DEF c
<1>7. CamTyped
  <2>1. streams' \in [Cams -> CamUrls \cup {Nil}] /\ unsettled' \subseteq Cams
    BY <1>1, <1>4, <1>5, CamTypes
  <2> QED BY <1>1, <1>3, <2>1, CamTypes DEF CamTyped
<1>8. \A d \in Cams : streams'[d] = IF d = c THEN url ELSE streams[d]
  BY <1>1, CamTypes
<1>9. DroppedStaysDropped'
  BY <1>1, <1>2, <1>3 DEF CamIInv, DroppedStaysDropped, Dropping
<1>10. StreamsFollowRows'
  BY <1>1, <1>8 DEF CamIInv, StreamsFollowRows
<1>11. ListsFollowRows'
  BY <1>1 DEF CamIInv, ListsFollowRows, Tells
<1>12. \A p \in Operators : \A d \in camRequests[p].alone :
         streams'[d] \in {streams[d], Nil, camRequests[p].to.url}
  BY <1>4, <1>6, <1>8
<1>13. \A p \in Operators :
         /\ camRequests'[p].op = "add" /\ camRequests'[p].stage = "registered"
         /\ camRequests[p].stage # "registered"
         => streams'[camRequests[p].camera] = camRequests[p].to.url
  BY <1>3, <1>4, <1>8 DEF c
<1> QED BY <1>1, <1>3, <1>7, <1>9, <1>10, <1>11, <1>12, <1>13, CamStep

\* The row an edit writes is the one it read with what was sent, if nobody else worked on it.
LEMMA WrittenRow ==
  ASSUME CamIInv, NEW o \in Operators, camRequests[o].op \in CamEdits
  PROVE  /\ Written(camRequests[o]) \in CamRows
         /\ camRequests[o].camera \in camRequests[o].alone
              => (IF WritesRow(camRequests[o]) THEN Written(camRequests[o])
                  ELSE camRows[camRequests[o].camera]).url = camRequests[o].to.url
<1> DEFINE call == camRequests[o]
           c == call.camera
           old == call.seen[c]
           row == camRows[c]
           new == [is     |-> call.to.is,
                   active |-> IF call.to.active # old.active THEN call.to.active ELSE row.active,
                   url    |-> IF call.to.url # old.url THEN call.to.url ELSE row.url]
<1>1. c \in Cams /\ call \in CallRecords
  BY CamTypes DEF CamIInv
<1>2. call.to \in CamRows /\ old \in CamRows /\ row \in CamRows
  BY <1>1, CamTypes DEF CallRecords
<1>3. Written(call) = new
  BY DEF Written
<1>4. new \in CamRows
  <2> HIDE DEF call, old, row
  <2> QED BY <1>2 DEF CamRows
<1>5. c \in call.alone => old = row
  BY DEF CamIInv, ReadsAreFresh, HasRead, CamEdits
<1>6. new.url = IF call.to.url # old.url THEN call.to.url ELSE row.url
  OBVIOUS
<1>7. ~WritesRow(call) => call.to = old
  BY DEF WritesRow
<1> HIDE DEF old, row, new
<1>8. c \in call.alone => (IF WritesRow(call) THEN new ELSE row).url = call.to.url
  BY <1>5, <1>6, <1>7
<1> QED BY <1>3, <1>4, <1>8 DEF row

LEMMA CommitEditKeeps ==
  ASSUME CamIInv, NEW o \in Operators, CommitEdit(o) PROVE CamIInv'
<1> DEFINE call == camRequests[o]
           c == call.camera
           row == IF WritesRow(call) THEN Written(call) ELSE camRows[c]
<1>1. /\ call.op \in CamEdits /\ Dropping(call) /\ CallEnds(o)
      /\ camRows' = [camRows EXCEPT ![c] = row]
      /\ unsettled' = IF call.op = "add" /\ c \in call.alone THEN unsettled \ {c}
                      ELSE IF camRows'[c].url # camRows[c].url \/ call.op = "delete"
                      THEN unsettled \cup {c} ELSE unsettled
      /\ UNCHANGED <<streams, listed, located, orphaned, camCalls>>
      /\ call.op = "add" => call.stage = "registered"
  BY DEF CommitEdit, Dropping
<1>2. /\ camRequests' \in [Operators -> CallRecords]
      /\ \A p \in Operators : GoesOn(camRequests'[p], camRequests[p])
      /\ camRequests'[o] = NoCall
      /\ \A p \in Operators : p # o => camRequests'[p] = camRequests[p]
  BY <1>1, GoingOut
<1>3. c \in Cams /\ \A p \in Operators : p # o => c \notin camRequests[p].alone
  BY <1>1, EditsClaim
<1>4. row \in CamRows /\ (c \in call.alone => row.url = call.to.url)
  BY <1>1, <1>3, WrittenRow, CamTypes
<1>5. call.op = "add" /\ c \in call.alone => streams[c] \in {Nil, call.to.url}
  BY <1>1 DEF CamIInv, RegisteredIsNew
<1>6. \A p \in Operators : camRequests[p].alone \subseteq Cams
  BY CamTypes DEF CallRecords
<1> HIDE DEF c, row
<1>7. camRows' \in [Cams -> CamRows] /\ \A d \in Cams : camRows'[d] = IF d = c THEN row ELSE camRows[d]
  BY <1>1, <1>3, <1>4, CamTypes
<1>8. CamTyped
  <2>1. unsettled' \subseteq Cams
    BY <1>1, <1>3, CamTypes
  <2> QED BY <1>1, <1>2, <1>7, <2>1, CamTypes DEF CamTyped
<1>9. listed = Nil \/ listed.raced
  BY <1>1 DEF CamIInv, DroppedStaysDropped
<1>10. DroppedStaysDropped'
  BY <1>1, <1>9 DEF DroppedStaysDropped
<1>11. ListsFollowRows'
  BY <1>1, <1>9 DEF ListsFollowRows
<1>12. StreamsFollowRows'
  <2> SUFFICES ASSUME NEW d \in Cams, streams[d] # Nil, d \notin unsettled'
               PROVE  streams[d] = camRows'[d].url
    BY <1>1 DEF StreamsFollowRows
  <2>1. CASE d # c
    BY <1>1, <1>7, <2>1 DEF CamIInv, StreamsFollowRows
  <2>2. CASE d = c /\ call.op = "add" /\ c \in call.alone
    BY <1>4, <1>5, <1>7, <2>2
  <2>3. CASE d = c /\ ~(call.op = "add" /\ c \in call.alone)
    <3>1. camRows'[c].url = camRows[c].url /\ c \notin unsettled
      BY <1>1, <2>3
    <3> QED BY <2>3, <3>1 DEF CamIInv, StreamsFollowRows
  <2> QED BY <2>1, <2>2, <2>3
<1>13. \A p \in Operators : camRequests'[p] # NoCall =>
         \A d \in camRequests[p].alone : camRows'[d] = camRows[d] /\ streams'[d] = streams[d]
  BY <1>1, <1>2, <1>3, <1>6, <1>7
<1>14. \A p \in Operators : camRequests'[p].stage = "registered" => camRequests[p].stage = "registered"
  BY <1>2, NoCallTyped
<1> QED BY <1>1, <1>2, <1>8, <1>10, <1>11, <1>12, <1>13, <1>14, CamStep

LEMMA AbortCallKeeps ==
  ASSUME CamIInv, NEW o \in Operators, AbortCall(o) PROVE CamIInv'
<1>1. CallEnds(o) /\ UNCHANGED <<camRows, streams, listed, unsettled, located, orphaned, camCalls>>
  BY DEF AbortCall
<1>2. /\ camRequests' \in [Operators -> CallRecords]
      /\ \A p \in Operators : GoesOn(camRequests'[p], camRequests[p])
      /\ camRequests'[o] = NoCall
      /\ \A p \in Operators : p # o => camRequests'[p] = camRequests[p]
  BY <1>1, GoingOut
<1>3. CamTyped
  BY <1>1, <1>2, CamTypes DEF CamTyped
<1>4. \A p \in Operators :
        /\ Dropping(camRequests'[p]) => Dropping(camRequests[p])
        /\ camRequests'[p].op = "add" /\ camRequests'[p].stage = "registered"
           => camRequests[p].stage = "registered"
  BY <1>2, NoCallTyped DEF Dropping, CamEdits
<1> QED BY <1>1, <1>2, <1>3, <1>4, CamQuiet

\* The rows that go were nobody's to be alone on but of lists, which are told apart.
LEMMA CommitClosingKeeps ==
  ASSUME CamIInv, NEW o \in Operators, CommitClosing(o) PROVE CamIInv'
<1> DEFINE there == {c \in Cams : camRows[c].is = "there"}
           gone(c) == [camRows[c] EXCEPT !.is = "gone"]
<1>1. /\ camRequests[o].op \in Closings /\ CallEnds(o)
      /\ camRows' = [c \in Cams |-> IF c \in there THEN gone(c) ELSE camRows[c]]
      /\ located' = FALSE /\ orphaned' = orphaned \cup there /\ unsettled' = unsettled \cup there
      /\ UNCHANGED <<streams, listed, camCalls>>
  BY DEF CommitClosing
<1>2. /\ camRequests' \in [Operators -> CallRecords]
      /\ \A p \in Operators : GoesOn(camRequests'[p], camRequests[p])
      /\ camRequests'[o] = NoCall
      /\ \A p \in Operators : p # o => camRequests'[p] = camRequests[p]
  BY <1>1, GoingOut
<1>3. \A c \in Cams : gone(c) \in CamRows /\ gone(c).url = camRows[c].url
  BY CamTypes DEF CamRows
<1>4. there \subseteq Cams /\ \A c \in there : camRows[c].is = "there"
  OBVIOUS
<1> HIDE DEF there, gone
<1>5. /\ camRows' \in [Cams -> CamRows]
      /\ \A c \in Cams : camRows'[c].url = camRows[c].url
      /\ \A c \in Cams : camRows'[c] = camRows[c] \/ (c \in orphaned' /\ camRows[c].is = "there")
  BY <1>1, <1>3, <1>4, CamTypes
<1>6. CamTyped
  BY <1>1, <1>2, <1>4, <1>5, CamTypes DEF CamTyped
<1>7. \A p \in Operators : camRequests[p].alone \subseteq Cams
  BY CamTypes DEF CallRecords
<1>8. \A p \in Operators : p # o /\ camRequests[p].op # "list" => camRequests[p].alone = {}
  <2> SUFFICES ASSUME NEW p \in Operators, p # o, camRequests[p].op # "list"
               PROVE  camRequests[p].alone = {}
    OBVIOUS
  <2>1. Works(camRequests[o], camRequests[p]) = Cams
    BY <1>1, WorksOn
  <2> QED BY <2>1, <1>7 DEF CamIInv, AloneIsAlone
<1>9. \A p \in Operators : camRequests'[p] # NoCall =>
         \A c \in camRequests[p].alone :
            /\ \/ camRows'[c] = camRows[c]
               \/ camRequests[p].op = "list" /\ c \in orphaned' /\ camRows[c].is = "there"
            /\ camRequests[p].op = "add" => streams'[c] \in {streams[c], Nil, camRequests[p].to.url}
  BY <1>1, <1>2, <1>5, <1>7, <1>8
<1>10. \A p \in Operators : camRequests'[p].stage = "registered" => camRequests[p].stage = "registered"
  BY <1>2, NoCallTyped
<1>11. DroppedStaysDropped'
  BY <1>1, <1>2, NoCallTyped DEF CamIInv, DroppedStaysDropped, Dropping, CamEdits
<1>12. StreamsFollowRows'
  BY <1>1, <1>5 DEF CamIInv, StreamsFollowRows
<1>13. ListsFollowRows'
  <2> SUFFICES ASSUME listed # Nil, ~listed.raced, NEW c \in Cams PROVE Tells(listed.rows, c)'
    BY <1>1 DEF ListsFollowRows, Tells
  <2>1. Tells(listed.rows, c)
    BY DEF CamIInv, ListsFollowRows
  <2> QED BY <1>1, <1>5, <2>1 DEF Tells
<1>14. orphaned \subseteq orphaned'
  BY <1>1
<1> QED BY <1>2, <1>6, <1>9, <1>10, <1>11, <1>12, <1>13, <1>14, CamStep

LEMMA RegisterAllKeeps ==
  ASSUME CamIInv, NEW o \in Operators, RegisterAll(o) PROVE CamIInv'
<1> DEFINE call == camRequests[o]
           wanted == {c \in Cams : ToStream(call.seen[c])}
<1>1. /\ call.op = "sync" /\ CallEnds(o)
      /\ streams' = [c \in Cams |-> IF c \in wanted THEN call.seen[c].url ELSE streams[c]]
      /\ unsettled' = (unsettled \ (wanted \cap call.alone)) \cup (wanted \ call.alone)
      /\ UNCHANGED <<camRows, listed, located, orphaned, camCalls>>
  BY DEF RegisterAll
<1>2. /\ camRequests' \in [Operators -> CallRecords]
      /\ \A p \in Operators : GoesOn(camRequests'[p], camRequests[p])
      /\ camRequests'[o] = NoCall
      /\ \A p \in Operators : p # o => camRequests'[p] = camRequests[p]
  BY <1>1, GoingOut
<1>3. \A c \in Cams : call.seen[c].url \in CamUrls \cup {Nil}
  BY CamTypes DEF CallRecords, CamRows
<1>4. \A c \in call.alone : call.seen[c] = camRows[c]
  BY <1>1 DEF CamIInv, ReadsAreFresh, HasRead
<1>5. wanted \subseteq Cams
  OBVIOUS
<1> HIDE DEF wanted
<1>6. CamTyped
  <2>1. streams' \in [Cams -> CamUrls \cup {Nil}] /\ unsettled' \subseteq Cams
    BY <1>1, <1>3, <1>5, CamTypes
  <2> QED BY <1>1, <1>2, <2>1, CamTypes DEF CamTyped
<1>7. \A p \in Operators : p # o /\ camRequests[p].op = "add" => camRequests[p].alone = {}
  <2> SUFFICES ASSUME NEW p \in Operators, p # o, camRequests[p].op = "add"
               PROVE  camRequests[p].alone = {}
    OBVIOUS
  <2>1. Works(call, camRequests[p]) = Cams
    BY <1>1, WorksOn
  <2>2. camRequests[p].alone \subseteq Cams
    BY CamTypes DEF CallRecords
  <2> QED BY <2>1, <2>2 DEF CamIInv, AloneIsAlone
<1>8. DroppedStaysDropped'
  BY <1>1, <1>2, NoCallTyped DEF CamIInv, DroppedStaysDropped, Dropping, CamEdits
<1>9. ListsFollowRows'
  BY <1>1 DEF CamIInv, ListsFollowRows, Tells
<1>10. StreamsFollowRows'
  <2> SUFFICES ASSUME NEW c \in Cams, streams'[c] # Nil, c \notin unsettled'
               PROVE  streams'[c] = camRows[c].url
    BY <1>1 DEF StreamsFollowRows
  <2>1. CASE c \in wanted
    BY <1>1, <1>4, <2>1
  <2>2. CASE c \notin wanted
    BY <1>1, <2>2 DEF CamIInv, StreamsFollowRows
  <2> QED BY <2>1, <2>2
<1>11. \A p \in Operators : camRequests'[p] # NoCall =>
         \A d \in camRequests[p].alone :
            /\ camRows'[d] = camRows[d]
            /\ camRequests[p].op = "add" => streams'[d] \in {streams[d], Nil, camRequests[p].to.url}
  BY <1>1, <1>2, <1>7
<1>12. \A p \in Operators : camRequests'[p].stage = "registered" => camRequests[p].stage = "registered"
  BY <1>2, NoCallTyped
<1> QED BY <1>1, <1>2, <1>6, <1>8, <1>9, <1>10, <1>11, <1>12, CamStep

LEMMA RemoveStreamOfCameraKeeps ==
  ASSUME CamIInv, NEW c \in Cams, RemoveStream(c) PROVE CamIInv'
<1>1. /\ streams' = [streams EXCEPT ![c] = Nil]
      /\ UNCHANGED <<camRows, listed, camRequests, unsettled, located, orphaned, camCalls>>
  BY DEF RemoveStream
<1>2. CamTyped
  BY <1>1, CamTypes DEF CamTyped
<1>3. \A d \in Cams : streams'[d] \in {streams[d], Nil}
  BY <1>1, CamTypes
<1>4. \A p \in Operators : GoesOn(camRequests'[p], camRequests[p])
  BY <1>1 DEF GoesOn
<1> QED BY <1>1, <1>2, <1>3, <1>4, CamQuiet

LEMMA RestartEngineKeeps ==
  ASSUME CamIInv, RestartEngine PROVE CamIInv'
<1>1. /\ streams' = [c \in Cams |-> Nil] /\ camRequests' = [o \in Operators |-> NoCall]
      /\ unsettled' = {} /\ UNCHANGED <<camRows, listed, located, orphaned, camCalls>>
  BY DEF RestartEngine
<1>2. CamTyped
  BY <1>1, CamTypes, NoCallTyped DEF CamTyped
<1>3. \A p \in Operators : camRequests'[p] = NoCall
  BY <1>1
<1>4. \A p \in Operators : GoesOn(camRequests'[p], camRequests[p]) /\ ~Dropping(camRequests'[p])
  BY <1>3, NoCallTyped DEF GoesOn, Dropping, CamEdits
<1> QED BY <1>1, <1>2, <1>3, <1>4, NoCallTyped, CamQuiet

LEMMA ExpireListKeeps ==
  ASSUME CamIInv, ExpireList PROVE CamIInv'
<1>1. listed' = Nil /\ UNCHANGED <<camRows, streams, camRequests, unsettled, located, orphaned, camCalls>>
  BY DEF ExpireList
<1>2. CamTyped
  BY <1>1, CamTypes DEF CamTyped
<1>3. \A p \in Operators : GoesOn(camRequests'[p], camRequests[p])
  BY <1>1 DEF GoesOn
<1> QED BY <1>1, <1>2, <1>3, CamQuiet

\* What is stored was read alone, or is marked: an edit that has dropped the list works on
\* a camera.
LEMMA StoreListKeeps ==
  ASSUME CamIInv, NEW o \in Operators, NEW ok \in BOOLEAN, StoreList(o, ok) PROVE CamIInv'
<1> DEFINE call == camRequests[o]
           stored == [rows |-> call.seen, raced |-> call.alone # Cams]
<1>1. /\ call.op = "list" /\ call.stage = "read" /\ CallEnds(o)
      /\ listed' = IF ok THEN stored ELSE listed
      /\ UNCHANGED <<camRows, streams, unsettled, located, orphaned, camCalls>>
  BY DEF StoreList
<1>2. /\ camRequests' \in [Operators -> CallRecords]
      /\ \A p \in Operators : GoesOn(camRequests'[p], camRequests[p])
      /\ camRequests'[o] = NoCall
      /\ \A p \in Operators : p # o => camRequests'[p] = camRequests[p]
  BY <1>1, GoingOut
<1>3. call.seen \in [Cams -> CamRows]
  BY CamTypes DEF CallRecords
<1>4. \A c \in call.alone : Tells(call.seen, c)
  BY <1>1 DEF CamIInv, ReadsAreFresh, HasRead
<1>5. /\ stored \in [rows : [Cams -> CamRows], raced : BOOLEAN]
      /\ stored.rows = call.seen /\ stored.raced = (call.alone # Cams)
  <2> DEFINE raced == call.alone # Cams
  <2>1. raced \in BOOLEAN
    OBVIOUS
  <2>2. stored = [rows |-> call.seen, raced |-> raced]
    OBVIOUS
  <2> HIDE DEF raced, call
  <2>3. stored \in [rows : [Cams -> CamRows], raced : BOOLEAN] /\ stored.raced = raced
    BY <1>3, <2>1, <2>2
  <2>4. stored.rows = call.seen
    BY <2>2
  <2> QED BY <2>3, <2>4 DEF raced
<1> HIDE DEF stored
<1>6. CamTyped
  BY <1>1, <1>2, <1>5, CamTypes DEF CamTyped
<1>7. DroppedStaysDropped'
  <2> SUFFICES ASSUME NEW p \in Operators, Dropping(camRequests'[p])
               PROVE  listed' = Nil \/ listed'.raced
    BY DEF DroppedStaysDropped
  <2>1. p # o /\ camRequests'[p] = camRequests[p]
    BY <1>2, NoCallTyped DEF Dropping, CamEdits
  <2>2. listed = Nil \/ listed.raced
    BY <2>1 DEF CamIInv, DroppedStaysDropped
  <2>3. camRequests[p].op \in CamEdits
    BY <2>1 DEF Dropping
  <2>4. camRequests[p].camera \in Cams /\ camRequests[p].camera \notin call.alone
    BY <2>1, <2>3, EditsClaim
  <2>5. stored.raced
    BY <1>5, <2>4
  <2> QED BY <1>1, <2>2, <2>5
<1>8. ListsFollowRows'
  <2>1. stored.raced \/ \A c \in Cams : Tells(stored.rows, c)
    BY <1>4, <1>5
  <2> QED BY <1>1, <2>1 DEF CamIInv, ListsFollowRows, Tells
<1>9. StreamsFollowRows'
  BY <1>1 DEF CamIInv, StreamsFollowRows
<1>10. \A p \in Operators : camRequests'[p].stage = "registered" => camRequests[p].stage = "registered"
  BY <1>2, NoCallTyped
<1> QED BY <1>1, <1>2, <1>6, <1>7, <1>8, <1>9, <1>10, CamStep

-----------------------------------------------------------------------------
\* A request that begins, or reads, is alone on what nobody else works on; the others are
\* no longer alone on what it works on.
LEMMA CamReads ==
  ASSUME CamIInv, NEW o \in Operators, NEW k \in CallRecords,
         k.alone = AloneOn(o, k),
         HasRead(k) => k.seen = camRows,
         k.op \in CamEdits => k.camera \in Cams,
         ~Dropping(k), k.stage # "registered",
         camRequests' \in [Operators -> CallRecords],
         camRequests'[o] = k,
         \A p \in Operators : p # o =>
            LET new == camRequests'[p]  old == camRequests[p] IN
            /\ new.op = old.op /\ new.stage = old.stage /\ new.camera = old.camera
            /\ new.to = old.to /\ new.seen = old.seen
            /\ new.alone = old.alone \ Works(k, old),
         camCalls' \in 0..MaxCamCalls,
         UNCHANGED <<camRows, streams, listed, unsettled, located, orphaned>>
  PROVE  CamIInv'
<1>1. CameraTypeOK'
  BY CamTypes DEF CameraTypeOK, CallRecords
<1>2. ASSUME NEW p \in Operators, camRequests'[p].op \in CamEdits PROVE camRequests'[p].camera \in Cams
  BY <1>2 DEF CamIInv
<1>3. AloneIsAlone'
  <2> SUFFICES ASSUME NEW p \in Operators, NEW q \in Operators, p # q
               PROVE  camRequests'[p].alone \cap Works(camRequests'[q], camRequests'[p]) = {}
    BY DEF AloneIsAlone
  <2>1. CASE p = o
    <3>1. Works(camRequests'[q], camRequests'[p]) = Works(camRequests[q], k)
      BY <2>1, WorksOnSame
    <3>2. k.alone \cap Works(camRequests[q], k) = {}
      BY <2>1 DEF AloneOn
    <3> QED BY <2>1, <3>1, <3>2
  <2>2. CASE q = o
    <3>1. Works(camRequests'[q], camRequests'[p]) = Works(k, camRequests[p])
      BY <2>2, WorksOnSame
    <3> QED BY <2>2, <3>1
  <2>3. CASE p # o /\ q # o
    <3>1. Works(camRequests'[q], camRequests'[p]) = Works(camRequests[q], camRequests[p])
      BY <2>3, WorksOnSame
    <3>2. camRequests'[p].alone \subseteq camRequests[p].alone
      BY <2>3
    <3> QED BY <3>1, <3>2 DEF CamIInv, AloneIsAlone
  <2> QED BY <2>1, <2>2, <2>3
<1>4. ReadsAreFresh'
  <2> SUFFICES ASSUME NEW p \in Operators, HasRead(camRequests[p])', NEW c \in camRequests'[p].alone
               PROVE  /\ Tells(camRequests'[p].seen, c)
                      /\ camRequests'[p].op # "list" => camRequests'[p].seen[c] = camRows[c]
    BY DEF ReadsAreFresh, Tells
  <2>1. CASE p = o
    BY <2>1 DEF HasRead, Tells
  <2>2. CASE p # o
    BY <2>2 DEF CamIInv, ReadsAreFresh, HasRead
  <2> QED BY <2>1, <2>2
<1>5. RegisteredIsNew'
  BY DEF CamIInv, RegisteredIsNew
<1>6. DroppedStaysDropped'
  BY DEF CamIInv, DroppedStaysDropped, Dropping
<1>7. StreamsFollowRows' /\ ListsFollowRows'
  BY DEF CamIInv, StreamsFollowRows, ListsFollowRows, Tells
<1> QED BY <1>1, <1>2, <1>3, <1>4, <1>5, <1>6, <1>7 DEF CamIInv

LEMMA CamBegins ==
  ASSUME CamIInv, NEW o \in Operators, NEW call \in CallRecords, BeginCall(o, call),
         HasRead(call) => call.seen = camRows,
         call.op \in CamEdits => call.camera \in Cams,
         ~Dropping(call), call.stage # "registered",
         UNCHANGED <<camRows, streams, listed, unsettled, located, orphaned>>
  PROVE  CamIInv'
<1> DEFINE A == AloneOn(o, call)
           k == [call EXCEPT !.alone = A]
           rest(p) == [camRequests[p] EXCEPT !.alone = @ \ Works(call, camRequests[p])]
<1>1. A \subseteq Cams
  BY DEF AloneOn
<1> HIDE DEF A
<1>2. /\ k \in CallRecords /\ k.op = call.op /\ k.stage = call.stage /\ k.camera = call.camera
      /\ k.to = call.to /\ k.seen = call.seen /\ k.alone = A
  BY <1>1 DEF CallRecords
<1>3. \A p \in Operators :
        /\ rest(p) \in CallRecords
        /\ rest(p).op = camRequests[p].op /\ rest(p).stage = camRequests[p].stage
        /\ rest(p).camera = camRequests[p].camera /\ rest(p).to = camRequests[p].to
        /\ rest(p).seen = camRequests[p].seen
        /\ rest(p).alone = camRequests[p].alone \ Works(call, camRequests[p])
  <2> TAKE p \in Operators
  <2> DEFINE W == Works(call, camRequests[p])
             old == camRequests[p]
  <2>1. old \in CallRecords
    BY CamTypes
  <2>2. rest(p) = [old EXCEPT !.alone = old.alone \ W]
    OBVIOUS
  <2> HIDE DEF W, old, rest
  <2>3. /\ rest(p) \in CallRecords
        /\ rest(p).op = old.op /\ rest(p).stage = old.stage /\ rest(p).camera = old.camera
        /\ rest(p).to = old.to /\ rest(p).seen = old.seen /\ rest(p).alone = old.alone \ W
    BY <2>1, <2>2 DEF CallRecords
  <2> QED BY <2>3 DEF W, old
<1>4. /\ camRequests' = [p \in Operators |-> IF p = o THEN k ELSE rest(p)]
      /\ camCalls' = camCalls + 1 /\ camCalls < MaxCamCalls
  BY DEF BeginCall, CanCall, A
<1> HIDE DEF k, rest
<1>5. \A p \in Operators : Works(camRequests[p], k) = Works(camRequests[p], call)
  BY <1>2, WorksOnSame
<1>6. k.alone = AloneOn(o, k)
  BY <1>2, <1>5 DEF AloneOn, A
<1>7. \A p \in Operators : Works(k, camRequests[p]) = Works(call, camRequests[p])
  BY <1>2, WorksOnSame
<1>8. camRequests' \in [Operators -> CallRecords] /\ camRequests'[o] = k
  BY <1>2, <1>3, <1>4
<1>9. \A p \in Operators : p # o => camRequests'[p] = rest(p)
  BY <1>4
<1>10. camCalls' \in 0..MaxCamCalls
  BY <1>4, CamTypes
<1>11. HasRead(k) = HasRead(call) /\ Dropping(k) = Dropping(call)
  BY <1>2 DEF HasRead, Dropping
<1> QED BY <1>2, <1>3, <1>6, <1>7, <1>8, <1>9, <1>10, <1>11, CamReads

LEMMA BeginCamEditKeeps ==
  ASSUME CamIInv, NEW o \in Operators, NEW op \in CamEdits, NEW c \in Cams, NEW to \in CamRows,
         BeginCamEdit(o, op, c, to)
  PROVE  CamIInv'
<1> DEFINE call == [NoCall EXCEPT !.op = op, !.stage = "read", !.camera = c, !.to = to,
                                  !.seen = camRows]
<1>1. BeginCall(o, call) /\ UNCHANGED <<camRows, streams, listed, unsettled, located, orphaned>>
  BY DEF BeginCamEdit
<1>2. camRows \in [Cams -> CamRows]
  BY CamTypes
<1>3. /\ call \in CallRecords /\ call.op = op /\ call.stage = "read" /\ call.camera = c
      /\ call.seen = camRows
  BY <1>2, NoCallTyped DEF CallRecords
<1> HIDE DEF call
<1> QED BY <1>1, <1>3, CamBegins DEF Dropping

LEMMA BeginClosingKeeps ==
  ASSUME CamIInv, NEW o \in Operators, NEW op \in Closings, BeginClosing(o, op) PROVE CamIInv'
<1> DEFINE call == [NoCall EXCEPT !.op = op, !.stage = "read"]
<1>1. BeginCall(o, call) /\ UNCHANGED <<camRows, streams, listed, unsettled, located, orphaned>>
  BY DEF BeginClosing
<1>2. call \in CallRecords /\ call.op \in Closings /\ call.stage = "read"
  BY NoCallTyped DEF CallRecords
<1> HIDE DEF call
<1> QED BY <1>1, <1>2, CamBegins DEF Dropping, CamEdits, Closings, HasRead

LEMMA BeginSyncKeeps ==
  ASSUME CamIInv, NEW o \in Operators, BeginSync(o) PROVE CamIInv'
<1> DEFINE call == [NoCall EXCEPT !.op = "sync", !.stage = "read", !.seen = camRows]
<1>1. BeginCall(o, call) /\ UNCHANGED <<camRows, streams, listed, unsettled, located, orphaned>>
  BY DEF BeginSync
<1>2. camRows \in [Cams -> CamRows]
  BY CamTypes
<1>3. call \in CallRecords /\ call.op = "sync" /\ call.stage = "read" /\ call.seen = camRows
  BY <1>2, NoCallTyped DEF CallRecords
<1> HIDE DEF call
<1> QED BY <1>1, <1>3, CamBegins DEF Dropping, CamEdits

LEMMA BeginListKeeps ==
  ASSUME CamIInv, NEW o \in Operators, BeginList(o) PROVE CamIInv'
<1> DEFINE call == [NoCall EXCEPT !.op = "list", !.stage = "missed"]
<1>1. BeginCall(o, call) /\ UNCHANGED <<camRows, streams, listed, unsettled, located, orphaned>>
  BY DEF BeginList
<1>2. call \in CallRecords /\ call.op = "list" /\ call.stage = "missed"
  BY NoCallTyped DEF CallRecords
<1> HIDE DEF call
<1> QED BY <1>1, <1>2, CamBegins DEF Dropping, CamEdits, HasRead

LEMMA ComputeListKeeps ==
  ASSUME CamIInv, NEW o \in Operators, ComputeList(o) PROVE CamIInv'
<1> DEFINE A == AloneOn(o, camRequests[o])
           k == [camRequests[o] EXCEPT !.stage = "read", !.seen = camRows, !.alone = A]
<1>1. /\ camRequests[o].op = "list" /\ UNCHANGED <<camRows, streams, listed, unsettled, located, orphaned, camCalls>>
      /\ camRequests' = [camRequests EXCEPT ![o] = k]
  BY DEF ComputeList
<1>2. A \subseteq Cams /\ camRows \in [Cams -> CamRows] /\ camRequests[o] \in CallRecords
  BY CamTypes DEF AloneOn
<1> HIDE DEF A
<1>3. k \in CallRecords /\ k.op = "list" /\ k.stage = "read" /\ k.seen = camRows /\ k.alone = A
  BY <1>1, <1>2 DEF CallRecords
<1> HIDE DEF k
<1>4. \A p \in Operators : p # o => Works(camRequests[p], k) = Works(camRequests[p], camRequests[o])
  BY <1>1, <1>3, WorksOnSame
<1>5. k.alone = AloneOn(o, k)
  BY <1>3, <1>4 DEF AloneOn, A
<1>6. \A p \in Operators : Works(k, camRequests[p]) = {}
  BY <1>3, WorksOn DEF CamEdits, Closings
<1>7. /\ camRequests' \in [Operators -> CallRecords] /\ camRequests'[o] = k
      /\ \A p \in Operators : p # o => camRequests'[p] = camRequests[p]
  BY <1>1, <1>3, CamTypes
<1>8. camCalls' \in 0..MaxCamCalls
  BY <1>1, CamTypes
<1>9. k.op \notin CamEdits
  BY <1>3 DEF CamEdits
<1> QED BY <1>1, <1>3, <1>5, <1>6, <1>7, <1>8, <1>9, CamReads DEF Dropping

-----------------------------------------------------------------------------
LEMMA CameraInitInv == CameraInit => CamIInv
<1> SUFFICES ASSUME CameraInit PROVE CamIInv
  OBVIOUS
<1>1. \A u \in CamUrls : [is |-> "there", active |-> TRUE, url |-> u] \in CamRows
  BY DEF CamRows
<1>2. camRows \in [Cams -> CamRows]
  BY <1>1, NoCallTyped DEF CameraInit
<1>3. camRequests \in [Operators -> CallRecords] /\ \A o \in Operators : camRequests[o] = NoCall
  BY NoCallTyped DEF CameraInit
<1>4. CameraTypeOK
  BY <1>2, <1>3, CameraAssumption DEF CameraInit, CameraTypeOK, CallRecords
<1>5. \A o, p \in Operators : camRequests[o].alone = {}
  BY <1>3, NoCallTyped
<1>6. AloneIsAlone /\ ReadsAreFresh /\ RegisteredIsNew
  BY <1>5 DEF AloneIsAlone, ReadsAreFresh, RegisteredIsNew
<1>7. \A o \in Operators : camRequests[o].op \notin CamEdits
  BY <1>3, NoCallTyped DEF CamEdits
<1>8. DroppedStaysDropped
  BY <1>7 DEF DroppedStaysDropped, Dropping
<1>9. StreamsFollowRows /\ ListsFollowRows
  BY DEF CameraInit, StreamsFollowRows, ListsFollowRows
<1> QED BY <1>4, <1>6, <1>7, <1>8, <1>9 DEF CamIInv

LEMMA CameraNextInv == CamIInv /\ [CameraNext]_camVars => CamIInv'
<1> SUFFICES ASSUME CamIInv, [CameraNext]_camVars PROVE CamIInv'
  OBVIOUS
<1>1. ASSUME NEW o \in Operators, NEW op \in CamEdits, NEW c \in Cams, NEW to \in CamRows,
             BeginCamEdit(o, op, c, to)
      PROVE  CamIInv'
  BY <1>1, BeginCamEditKeeps
<1>2. ASSUME NEW o \in Operators, NEW ok \in BOOLEAN, DropList(o, ok) \/ StoreList(o, ok)
      PROVE  CamIInv'
  BY <1>2, DropListKeeps, StoreListKeeps
<1>3. ASSUME NEW o \in Operators,
             Flush(o) \/ RegisterStream(o) \/ CommitEdit(o) \/ AbortCall(o)
      PROVE  CamIInv'
  BY <1>3, FlushKeeps, RegisterStreamKeeps, CommitEditKeeps, AbortCallKeeps
<1>4. ASSUME NEW o \in Operators,
             BeginSync(o) \/ RegisterAll(o) \/ BeginList(o) \/ ComputeList(o)
      PROVE  CamIInv'
  BY <1>4, BeginSyncKeeps, RegisterAllKeeps, BeginListKeeps, ComputeListKeeps
<1>5. ASSUME NEW c \in Cams, RemoveStream(c) PROVE CamIInv'
  BY <1>5, RemoveStreamOfCameraKeeps
<1>8. ASSUME NEW o \in Operators, CommitClosing(o) PROVE CamIInv'
  BY <1>8, CommitClosingKeeps
<1>9. ASSUME NEW o \in Operators, NEW op \in Closings, BeginClosing(o, op) PROVE CamIInv'
  BY <1>9, BeginClosingKeeps
<1>6. CASE RestartEngine \/ ExpireList
  BY <1>6, RestartEngineKeeps, ExpireListKeeps
<1>7. CASE UNCHANGED camVars
  <2>1. UNCHANGED <<camRows, streams, listed, camRequests, unsettled, located, orphaned, camCalls>>
    BY <1>7 DEF camVars
  <2>2. CamTyped
    BY <2>1, CamTypes DEF CamTyped
  <2>3. \A p \in Operators : GoesOn(camRequests'[p], camRequests[p])
    BY <2>1 DEF GoesOn
  <2> QED BY <2>1, <2>2, <2>3, CamQuiet
<1> QED BY <1>1, <1>2, <1>3, <1>4, <1>5, <1>6, <1>7, <1>8, <1>9 DEF CameraNext

\* The invariant behind the theorems on cameras: what a request read of the cameras nobody
\* else works on is still what the table says - a list may name one that was deleted since
\* with its location - and between an edit's drop of the list and its commit no list is
\* stored that is not marked.  (camera_service.py, core/cache.py, delete_organization.)
THEOREM CamerasInductive == CameraSpec => []CamIInv
<1>1. CamIInv /\ [CameraNext]_camVars => CamIInv'
  BY CameraNextInv
<1> QED BY CameraInitInv, <1>1, PTL DEF CameraSpec

\* A stream has the URL of its camera's row, after any edits, syncs and restarts, unless
\* the row was changed since the engine was last told, or two requests worked on the camera
\* at once.  (add_stream, sync_streams_from_db.)
THEOREM StreamsHaveRowUrls == CameraSpec => []StreamsFollowRows
<1>1. CamIInv => StreamsFollowRows
  BY DEF CamIInv
<1> QED BY CamerasInductive, <1>1, PTL

\* The cached list is what the table says, unless it was computed while an edit was under
\* way or Redis failed to drop it, but for cameras that were deleted since with their
\* location or company.  (invalidate_prefix, cached_json, delete_organization.)
THEOREM ListsAreFresh == CameraSpec => []ListsFollowRows
<1>1. CamIInv => ListsFollowRows
  BY DEF CamIInv
<1> QED BY CamerasInductive, <1>1, PTL

-----------------------------------------------------------------------------
(* Live tracks *)

TrackRecords == [hits : 1..MinHits, age : 0..MaxAge + 1, since : 0..LongAgo,
                 name : Known \cup {Nil}, stranger : BOOLEAN, was : SUBSET Faces]
JobRecords == [stage : {"none", "run", "alert", "mark"}, track : 0..LastTrack,
               face : Faces \cup {Nil}, name : Known \cup {Nil}]

Recognising == {s \in Slots : jobs[s].stage # "none"}

\* A recognition is of somebody seen on its track, if that is still there, and
\* names nobody else; its track is one that was handed out.
JobStands(job) ==
    job.stage # "none" =>
        /\ job.track \in 1..lastTrack /\ job.face \in Faces
        /\ job.name \in {job.face, Nil}
        /\ tracks[job.track] # Nil => job.face \in tracks[job.track].was

TrackIInv ==
    /\ TrackTypeOK /\ NamesStayOnTheirTrack
    /\ \A i \in TrackIds : tracks[i] # Nil => i <= lastTrack
    /\ \A s \in Slots : JobStands(jobs[s])

LEMMA TrackTypes ==
  ASSUME TrackIInv
  PROVE  /\ tracks \in [TrackIds -> TrackRecords \cup {Nil}]
         /\ lastTrack \in 0..LastTrack /\ jobs \in [Slots -> JobRecords]
         /\ inflight = Cardinality(Recognising) /\ quiet \in 0..AlarmPause
         /\ {LastTrack, MaxTracks, MinHits, MaxAge, CoolDown, AlarmPause} \subseteq Nat \ {0}
         /\ LongAgo \in Nat
<1>1. LongAgo \in Nat
  BY TrackAssumption DEF LongAgo
<1> QED BY <1>1, TrackAssumption DEF TrackIInv, TrackTypeOK, TrackRecords, JobRecords, Recognising

LEMMA UptoBounds ==
  ASSUME NEW n \in Nat, NEW top \in Nat
  PROVE  Upto(n, top) \in 0..top /\ (n > 0 /\ top > 0 => Upto(n, top) > 0)
BY DEF Upto

LEMMA RestingTyped ==
  Resting \in JobRecords /\ Resting.stage = "none" /\ JobStands(Resting)
<1>1. 0 \in 0..LastTrack
  BY TrackAssumption
<1> QED BY <1>1 DEF Resting, JobRecords, JobStands

LEMMA NewTrackTyped ==
  ASSUME NEW f \in Faces
  PROVE  NewTrack(f) \in TrackRecords /\ NewTrack(f).name = Nil /\ NewTrack(f).was = {f}
<1>1. 1 \in 1..MinHits /\ 0 \in 0..MaxAge + 1 /\ LongAgo \in 0..LongAgo
  BY TrackAssumption DEF LongAgo
<1> QED BY <1>1 DEF NewTrack, TrackRecords

LEMMA FollowedTyped ==
  ASSUME NEW t \in TrackRecords, NEW f \in Faces
  PROVE  /\ Followed(t, f) \in TrackRecords /\ Followed(t, f).name = t.name
         /\ Followed(t, f).was = t.was \cup {f}
<1>1. t.hits + 1 \in Nat \ {0} /\ MinHits \in Nat \ {0}
  BY TrackAssumption DEF TrackRecords
<1>2. Upto(t.hits + 1, MinHits) \in 1..MinHits
  BY <1>1 DEF Upto
<1>3. 0 \in 0..MaxAge + 1
  BY TrackAssumption
<1> QED BY <1>2, <1>3 DEF Followed, TrackRecords

LEMMA TrackInvInit ==
  ASSUME TrackInit PROVE TrackIInv
<1>1. \A s \in Slots : jobs[s] = Resting
  BY DEF TrackInit
<1>2. Recognising = {}
  BY <1>1, RestingTyped DEF Recognising
<1>3. inflight = Cardinality({s \in Slots : jobs[s].stage # "none"})
  BY <1>2, FS_EmptySet DEF TrackInit, Recognising
<1>4. lastTrack \in 0..LastTrack /\ quiet \in 0..AlarmPause
  BY TrackAssumption DEF TrackInit
<1>5. jobs \in [Slots -> JobRecords]
  BY RestingTyped DEF TrackInit
<1>6. tracks \in [TrackIds -> TrackRecords \cup {Nil}] /\ \A i \in TrackIds : tracks[i] = Nil
  BY DEF TrackInit
<1>7. TrackTypeOK
  BY <1>3, <1>4, <1>5, <1>6 DEF TrackTypeOK, TrackRecords, JobRecords
<1> QED BY <1>1, <1>6, <1>7, RestingTyped DEF TrackIInv, NamesStayOnTheirTrack

\* A frame moves tracks and adds at most one, whose id nobody had.
LEMMA Updated ==
  ASSUME TrackIInv, NEW on, DOMAIN on \subseteq Faces,
         \A f \in DOMAIN on : on[f] \in Live,
         \A f, g \in DOMAIN on : on[f] = on[g] => f = g,
         NEW newcomer \in Faces \cup {Nil}, Update(on, newcomer)
  PROVE  /\ tracks' \in [TrackIds -> TrackRecords \cup {Nil}]
         /\ lastTrack' \in 0..LastTrack /\ lastTrack <= lastTrack'
         /\ NamesStayOnTheirTrack'
         /\ \A i \in TrackIds : tracks'[i] # Nil => i <= lastTrack'
         /\ \A i \in 1..lastTrack : tracks'[i] # Nil =>
               tracks[i] # Nil /\ tracks[i].was \subseteq tracks'[i].was
         /\ \A f \in DOMAIN on : tracks'[on[f]] # Nil => f \in tracks'[on[f]].was
<1> DEFINE kept == [i \in TrackIds |-> IF i \in Live THEN tracks[i] ELSE Nil]
           moved == [i \in TrackIds |->
                       IF \E f \in DOMAIN on : on[f] = i
                       THEN Followed(kept[i], CHOOSE f \in DOMAIN on : on[f] = i) ELSE kept[i]]
           next == lastTrack + 1
<1>1. \/ tracks' = moved /\ lastTrack' = lastTrack
      \/ /\ newcomer # Nil /\ lastTrack < LastTrack
         /\ tracks' = [moved EXCEPT ![next] = NewTrack(newcomer)]
         /\ lastTrack' = lastTrack + 1
  BY DEF Update, NextId
<1>2. \A i \in Live : /\ i \in TrackIds /\ i \in 1..lastTrack /\ kept[i] = tracks[i]
                      /\ tracks[i] \in TrackRecords /\ tracks[i].name \in tracks[i].was \cup {Nil}
  <2> TAKE i \in Live
  <2>1. i \in TrackIds /\ tracks[i] # Nil
    BY DEF Live
  <2>2. i <= lastTrack /\ tracks[i].name \in tracks[i].was \cup {Nil}
    BY <2>1 DEF TrackIInv, NamesStayOnTheirTrack
  <2>3. tracks[i] \in TrackRecords
    BY <2>1, TrackTypes
  <2> QED BY <2>1, <2>2, <2>3, TrackTypes DEF TrackIds
<1>3. \A i \in TrackIds : i \notin Live => kept[i] = Nil
  OBVIOUS
<1>4. \A f \in DOMAIN on : /\ on[f] \in Live /\ f \in Faces
                           /\ (CHOOSE g \in DOMAIN on : on[g] = on[f]) = f
  OBVIOUS
<1>5. \A f \in DOMAIN on : moved[on[f]] = Followed(tracks[on[f]], f)
  BY <1>2, <1>4
<1>6. \A i \in TrackIds : (\A f \in DOMAIN on : on[f] # i) => moved[i] = kept[i]
  OBVIOUS
<1>7. DOMAIN moved = TrackIds /\ moved = [i \in TrackIds |-> moved[i]]
  OBVIOUS
<1> HIDE DEF moved, kept
<1>8. \A i \in TrackIds :
         /\ moved[i] \in TrackRecords \cup {Nil}
         /\ moved[i] # Nil => /\ i \in Live /\ moved[i].name \in moved[i].was \cup {Nil}
                              /\ tracks[i].was \subseteq moved[i].was
  <2> TAKE i \in TrackIds
  <2>1. CASE \E f \in DOMAIN on : on[f] = i
    <3>1. PICK f \in DOMAIN on : on[f] = i
      BY <2>1
    <3> QED BY <3>1, <1>2, <1>4, <1>5, FollowedTyped
  <2>2. CASE \A f \in DOMAIN on : on[f] # i
    BY <2>2, <1>2, <1>3, <1>6
  <2> QED BY <2>1, <2>2
<1>9. \A f \in DOMAIN on : on[f] \in TrackIds /\ f \in moved[on[f]].was
  BY <1>2, <1>4, <1>5, FollowedTyped
<1>10. \A i \in TrackIds : moved[i] # Nil => i \in 1..lastTrack /\ tracks[i] # Nil
  BY <1>2, <1>8 DEF Live
<1>11. CASE tracks' = moved /\ lastTrack' = lastTrack
  <2>1. tracks' \in [TrackIds -> TrackRecords \cup {Nil}]
    BY <1>7, <1>8, <1>11
  <2>2. NamesStayOnTheirTrack'
    BY <1>8, <1>11 DEF NamesStayOnTheirTrack
  <2>3. \A i \in 1..lastTrack : i \in TrackIds
    BY TrackTypes DEF TrackIds
  <2> QED BY <2>1, <2>2, <2>3, <1>8, <1>9, <1>10, <1>11, TrackTypes
<1>12. CASE /\ newcomer # Nil /\ lastTrack < LastTrack
            /\ tracks' = [moved EXCEPT ![next] = NewTrack(newcomer)]
            /\ lastTrack' = lastTrack + 1
  <2>1. /\ next \in TrackIds /\ next \notin 1..lastTrack /\ lastTrack' \in 0..LastTrack
        /\ lastTrack <= lastTrack' /\ next <= lastTrack'
        /\ \A i \in 1..lastTrack : i \in TrackIds /\ i # next /\ i <= lastTrack'
    BY <1>12, TrackTypes DEF TrackIds
  <2>2. newcomer \in Faces
    BY <1>12
  <2> HIDE DEF next
  <2>3. /\ tracks'[next] = NewTrack(newcomer)
        /\ \A i \in TrackIds : i # next => tracks'[i] = moved[i]
        /\ tracks' \in [TrackIds -> TrackRecords \cup {Nil}]
    BY <1>7, <1>8, <1>12, <2>1, <2>2, NewTrackTyped
  <2>4. NamesStayOnTheirTrack'
    BY <1>8, <2>2, <2>3, NewTrackTyped DEF NamesStayOnTheirTrack
  <2>5. \A i \in TrackIds : tracks'[i] # Nil => i <= lastTrack'
    BY <1>10, <2>1, <2>3
  <2>6. \A f \in DOMAIN on : on[f] # next /\ on[f] \in TrackIds
    BY <1>2, <1>4, <2>1
  <2> QED BY <2>1, <2>3, <2>4, <2>5, <2>6, <1>8, <1>9, <1>10
<1> QED BY <1>1, <1>11, <1>12

\* What runs on goes on with a track that has seen as much as before, or none.
LEMMA JobsGoOn ==
  ASSUME TrackIInv, lastTrack' \in Nat, lastTrack <= lastTrack',
         \A i \in 1..lastTrack : tracks'[i] # Nil =>
               tracks[i] # Nil /\ tracks[i].was \subseteq tracks'[i].was,
         NEW s \in Slots
  PROVE  JobStands(jobs[s]) /\ (jobs'[s] = jobs[s] => JobStands(jobs[s])')
BY TrackTypes DEF TrackIInv, JobStands

LEMMA ProcessFrameKeeps ==
  ASSUME TrackIInv, NEW F \in SUBSET Faces, NEW newcomer \in Faces \cup {Nil},
         NEW on \in Overlappings(F), ProcessFrame(on, newcomer)
  PROVE  TrackIInv'
<1>1. /\ DOMAIN on = F /\ DOMAIN on \subseteq Faces /\ \A f \in DOMAIN on : on[f] \in Live
      /\ \A f, g \in DOMAIN on : on[f] = on[g] => f = g
  BY DEF Overlappings
<1>2. Update(on, newcomer) /\ quiet' = quiet
  BY DEF ProcessFrame
<1>3. /\ tracks' \in [TrackIds -> TrackRecords \cup {Nil}]
      /\ lastTrack' \in 0..LastTrack /\ lastTrack <= lastTrack'
      /\ NamesStayOnTheirTrack'
      /\ \A i \in TrackIds : tracks'[i] # Nil => i <= lastTrack'
      /\ \A i \in 1..lastTrack : tracks'[i] # Nil =>
            tracks[i] # Nil /\ tracks[i].was \subseteq tracks'[i].was
      /\ \A f \in DOMAIN on : tracks'[on[f]] # Nil => f \in tracks'[on[f]].was
  BY <1>1, <1>2, Updated
<1> DEFINE free == {s \in Slots : jobs[s].stage = "none"}
           job(f) == [stage |-> "run", track |-> on[f], face |-> f, name |-> Nil]
<1>4. PICK run \in SUBSET F : \E at \in [run -> free] :
        /\ \A f, g \in run : at[f] = at[g] => f = g
        /\ jobs' = [s \in Slots |-> IF \E f \in run : at[f] = s
                                    THEN job(CHOOSE f \in run : at[f] = s) ELSE jobs[s]]
        /\ inflight' = inflight + Cardinality(run)
  <2> DEFINE wanting == {f \in DOMAIN on : NeedsRecognition(tracks'[on[f]])}
  <2>1. \E run \in SUBSET wanting :
           /\ \E at \in [run -> free] :
                 /\ \A f, g \in run : at[f] = at[g] => f = g
                 /\ jobs' = [s \in Slots |-> IF \E f \in run : at[f] = s
                                             THEN job(CHOOSE f \in run : at[f] = s) ELSE jobs[s]]
           /\ inflight' = inflight + Cardinality(run)
    BY Zenon DEF ProcessFrame
  <2>2. SUBSET wanting \subseteq SUBSET F
    BY <1>1
  <2> HIDE DEF wanting, free, job
  <2> QED BY <2>1, <2>2, Zenon
<1>5. PICK at \in [run -> free] :
        /\ \A f, g \in run : at[f] = at[g] => f = g
        /\ jobs' = [s \in Slots |-> IF \E f \in run : at[f] = s
                                    THEN job(CHOOSE f \in run : at[f] = s) ELSE jobs[s]]
        /\ inflight' = inflight + Cardinality(run)
  BY <1>4
<1>6. \A f \in run : /\ job(f) \in JobRecords /\ job(f).stage = "run"
                     /\ job(f).track \in 1..lastTrack /\ job(f).face = f /\ job(f).name = Nil
                     /\ f \in F /\ job(f).track = on[f]
  <2> TAKE f \in run
  <2>1. on[f] \in TrackIds /\ tracks[on[f]] # Nil
    BY <1>1 DEF Live
  <2>2. on[f] \in 1..lastTrack
    BY <2>1, TrackTypes DEF TrackIInv, TrackIds
  <2>3. on[f] \in 0..LastTrack
    BY <2>2, TrackTypes
  <2> QED BY <2>2, <2>3, <1>1 DEF JobRecords
<1> HIDE DEF job
<1>7. \A f \in run : at[f] \in free /\ (CHOOSE g \in run : at[g] = at[f]) = f
  BY <1>5
<1>8. \A s \in Slots : \/ \E f \in run : at[f] = s /\ jobs'[s] = job(f) /\ jobs[s].stage = "none"
                       \/ (\A f \in run : at[f] # s) /\ jobs'[s] = jobs[s]
  <2> TAKE s \in Slots
  <2>1. CASE \E f \in run : at[f] = s
    <3>1. PICK f \in run : at[f] = s
      BY <2>1
    <3> QED BY <3>1, <1>5, <1>7
  <2>2. CASE \A f \in run : at[f] # s
    BY <2>2, <1>5
  <2> QED BY <2>1, <2>2
<1>9. jobs' \in [Slots -> JobRecords]
  <2>1. \A s \in Slots : jobs'[s] \in JobRecords
    BY <1>6, <1>8, TrackTypes
  <2> QED BY <2>1, <1>5
<1>10. inflight' = Cardinality(Recognising')
  <2> DEFINE img == {at[f] : f \in run}
  <2>1. Recognising' = Recognising \cup img
    <3>1. \A s \in Slots : jobs'[s].stage # "none" <=> (s \in Recognising \/ s \in img)
      BY <1>6, <1>8 DEF Recognising
    <3>2. img \subseteq Slots
      BY <1>7
    <3> QED BY <3>1, <3>2 DEF Recognising
  <2>2. Recognising \cap img = {}
    BY <1>7 DEF Recognising
  <2>3. IsFiniteSet(run) /\ IsFiniteSet(Recognising)
    BY TrackAssumption, FS_Subset DEF Recognising
  <2>4. at \in Surjection(run, img) /\ at \in Injection(run, img)
    BY <1>5 DEF Surjection, Injection, IsInjective
  <2> HIDE DEF img
  <2>5. IsFiniteSet(img) /\ Cardinality(img) = Cardinality(run)
    BY <2>3, <2>4, FS_Surjection
  <2>6. Cardinality(Recognising \cup img) = Cardinality(Recognising) + Cardinality(img)
    <3>1. /\ Cardinality(Recognising \cup img)
               = Cardinality(Recognising) + Cardinality(img) - Cardinality(Recognising \cap img)
      BY <2>3, <2>5, FS_Union
    <3>2. Cardinality(Recognising \cap img) = 0
      BY <2>2, FS_EmptySet
    <3>3. Cardinality(Recognising) \in Nat /\ Cardinality(img) \in Nat
      BY <2>3, <2>5, FS_CardinalityType
    <3> QED BY <3>1, <3>2, <3>3
  <2> QED BY <2>1, <2>5, <2>6, <1>5, TrackTypes
<1>11. TrackTypeOK'
  BY <1>2, <1>3, <1>9, <1>10, TrackTypes DEF TrackTypeOK, TrackRecords, JobRecords, Recognising
<1>12. ASSUME NEW s \in Slots PROVE JobStands(jobs[s])'
  <2>1. CASE jobs'[s] = jobs[s]
    <3>1. lastTrack' \in Nat
      BY <1>3
    <3> QED BY <2>1, <3>1, <1>3, JobsGoOn
  <2>2. CASE \E f \in run : jobs'[s] = job(f)
    <3>1. PICK f \in run : jobs'[s] = job(f)
      BY <2>2
    <3>2. job(f).track \in 1..lastTrack'
      BY <1>3, <1>6, TrackTypes
    <3> QED BY <3>1, <3>2, <1>1, <1>3, <1>6 DEF JobStands
  <2> QED BY <2>1, <2>2, <1>8
<1> QED BY <1>3, <1>11, <1>12 DEF TrackIInv

LEMMA FrameKeeps ==
  ASSUME TrackIInv, Frame PROVE TrackIInv'
BY ProcessFrameKeeps DEF Frame

\* Steps that leave the slots alone.
LEMMA TrackQuiet ==
  ASSUME TrackIInv, inflight' = inflight, jobs' = jobs, quiet' \in 0..AlarmPause,
         tracks' \in [TrackIds -> TrackRecords \cup {Nil}],
         lastTrack' \in 0..LastTrack, lastTrack <= lastTrack',
         NamesStayOnTheirTrack',
         \A i \in TrackIds : tracks'[i] # Nil => i <= lastTrack',
         \A i \in 1..lastTrack : tracks'[i] # Nil =>
               tracks[i] # Nil /\ tracks[i].was \subseteq tracks'[i].was
  PROVE  TrackIInv'
<1>1. TrackTypeOK'
  BY TrackTypes DEF TrackTypeOK, TrackRecords, JobRecords, Recognising
<1>2. lastTrack' \in Nat
  OBVIOUS
<1>3. \A s \in Slots : JobStands(jobs[s])'
  BY <1>2, JobsGoOn
<1> QED BY <1>1, <1>3 DEF TrackIInv

LEMMA AnswerKeeps ==
  ASSUME TrackIInv, NEW f, NEW card, Answer(f, card) PROVE quiet' \in 0..AlarmPause
<1>1. quiet' \in {0, quiet}
  BY DEF Answer
<1> QED BY <1>1, TrackTypes

LEMMA RecognizeStreamKeeps ==
  ASSUME TrackIInv, NEW f \in Faces, RecognizeStream(f) PROVE TrackIInv'
<1>1. Answer(f, Nil) /\ UNCHANGED <<tracks, lastTrack, inflight, jobs>>
  BY DEF RecognizeStream
<1>2. NamesStayOnTheirTrack'
  BY <1>1 DEF TrackIInv, NamesStayOnTheirTrack
<1>3. \A i \in TrackIds : tracks'[i] # Nil => i <= lastTrack'
  BY <1>1 DEF TrackIInv
<1>4. lastTrack <= lastTrack'
  BY <1>1, TrackTypes
<1> QED BY <1>1, <1>2, <1>3, <1>4, AnswerKeeps, TrackTypes, TrackQuiet

LEMMA RecognizeImageKeeps ==
  ASSUME TrackIInv, NEW f \in Faces, NEW card \in Known \cup {Nil}, RecognizeImage(f, card)
  PROVE  TrackIInv'
<1>1. /\ \/ \E i \in Live : Update([g \in {f} |-> i], Nil)
         \/ Update(<<>>, f)
      /\ Answer(f, card) /\ inflight' = inflight /\ jobs' = jobs
  BY DEF RecognizeImage
<1>2. quiet' \in 0..AlarmPause
  BY <1>1, AnswerKeeps
<1>3. ASSUME NEW i \in Live, Update([g \in {f} |-> i], Nil) PROVE TrackIInv'
  <2> DEFINE on == [g \in {f} |-> i]
  <2>1. /\ DOMAIN on \subseteq Faces /\ \A g \in DOMAIN on : on[g] \in Live
        /\ \A g, h \in DOMAIN on : on[g] = on[h] => g = h
    OBVIOUS
  <2>2. Update(on, Nil) /\ Nil \in Faces \cup {Nil}
    BY <1>3
  <2> HIDE DEF on
  <2> QED BY <2>1, <2>2, <1>1, <1>2, Updated, TrackQuiet
<1>4. CASE Update(<<>>, f)
  <2>1. DOMAIN <<>> = {}
    OBVIOUS
  <2> DEFINE on == <<>>
  <2>2. /\ DOMAIN on \subseteq Faces /\ \A g \in DOMAIN on : on[g] \in Live
        /\ \A g, h \in DOMAIN on : on[g] = on[h] => g = h
    BY <2>1
  <2>3. Update(on, f) /\ f \in Faces \cup {Nil}
    BY <1>4
  <2> HIDE DEF on
  <2> QED BY <2>2, <2>3, <1>1, <1>2, Updated, TrackQuiet
<1> QED BY <1>1, <1>3, <1>4

LEMMA TrackTickKeeps ==
  ASSUME TrackIInv, TrackTick PROVE TrackIInv'
<1> DEFINE later(t) == [t EXCEPT !.age = Upto(t.age + 1, MaxAge + 1),
                                 !.since = Upto(t.since + 1, LongAgo)]
<1>1. /\ tracks' = [i \in TrackIds |-> IF tracks[i] = Nil THEN Nil ELSE later(tracks[i])]
      /\ quiet' = Upto(quiet + 1, AlarmPause) /\ UNCHANGED <<lastTrack, inflight, jobs>>
  BY DEF TrackTick
<1>2. quiet' \in 0..AlarmPause
  <2>1. quiet + 1 \in Nat /\ AlarmPause \in Nat
    BY TrackTypes
  <2> QED BY <2>1, <1>1, UptoBounds
<1>3. ASSUME NEW t \in TrackRecords
      PROVE  later(t) \in TrackRecords /\ later(t).name = t.name /\ later(t).was = t.was
  <2>1. /\ t.age + 1 \in Nat /\ t.since + 1 \in Nat /\ MaxAge + 1 \in Nat
    BY TrackTypes DEF TrackRecords
  <2>2. Upto(t.age + 1, MaxAge + 1) \in 0..MaxAge + 1 /\ Upto(t.since + 1, LongAgo) \in 0..LongAgo
    BY <2>1, UptoBounds, TrackTypes
  <2> QED BY <2>2 DEF TrackRecords
<1> HIDE DEF later
<1>4. \A i \in TrackIds :
        /\ tracks'[i] \in TrackRecords \cup {Nil}
        /\ tracks'[i] # Nil => /\ tracks[i] # Nil /\ tracks'[i].name = tracks[i].name
                               /\ tracks'[i].was = tracks[i].was
  <2> TAKE i \in TrackIds
  <2>1. tracks[i] \in TrackRecords \cup {Nil}
    BY TrackTypes
  <2> QED BY <2>1, <1>1, <1>3
<1>5. tracks' \in [TrackIds -> TrackRecords \cup {Nil}]
  BY <1>1, <1>4
<1>6. NamesStayOnTheirTrack'
  BY <1>4 DEF TrackIInv, NamesStayOnTheirTrack
<1>7. \A i \in TrackIds : tracks'[i] # Nil => i <= lastTrack'
  BY <1>1, <1>4 DEF TrackIInv
<1>8. \A i \in 1..lastTrack : i \in TrackIds
  BY TrackTypes DEF TrackIds
<1>9. lastTrack <= lastTrack' /\ lastTrack' \in 0..LastTrack
  BY <1>1, TrackTypes
<1> QED BY <1>1, <1>2, <1>4, <1>5, <1>6, <1>7, <1>8, <1>9, TrackQuiet

\* A recognition that ends leaves its slot.
LEMMA Released ==
  ASSUME TrackIInv, NEW s \in Slots, jobs[s].stage # "none", Release(s)
  PROVE  /\ jobs' \in [Slots -> JobRecords] /\ jobs'[s] = Resting
         /\ \A t \in Slots : t # s => jobs'[t] = jobs[t]
         /\ inflight' = Cardinality(Recognising')
<1>1. jobs' = [jobs EXCEPT ![s] = Resting] /\ inflight' = inflight - 1
  BY DEF Release
<1>2. /\ jobs' \in [Slots -> JobRecords] /\ jobs'[s] = Resting
      /\ \A t \in Slots : t # s => jobs'[t] = jobs[t]
  BY <1>1, RestingTyped, TrackTypes
<1>3. Recognising' = Recognising \ {s}
  BY <1>2, RestingTyped DEF Recognising
<1>4. s \in Recognising /\ IsFiniteSet(Recognising)
  BY TrackAssumption, FS_Subset DEF Recognising
<1>5. Cardinality(Recognising') = Cardinality(Recognising) - 1
  BY <1>3, <1>4, FS_RemoveElement
<1> QED BY <1>1, <1>2, <1>5, TrackTypes

\* A recognition goes on: it stands and its slot stays taken.
LEMMA JobMoves ==
  ASSUME TrackIInv, NEW s \in Slots, jobs[s].stage # "none",
         NEW job \in JobRecords, job.stage # "none", JobStands(job),
         jobs' = [jobs EXCEPT ![s] = job],
         UNCHANGED <<tracks, lastTrack, inflight>>, quiet' \in 0..AlarmPause
  PROVE  TrackIInv'
<1>1. /\ jobs' \in [Slots -> JobRecords] /\ jobs'[s] = job
      /\ \A t \in Slots : t # s => jobs'[t] = jobs[t]
  BY TrackTypes
<1>2. Recognising' = Recognising
  BY <1>1 DEF Recognising
<1>3. TrackTypeOK'
  BY <1>1, <1>2, TrackTypes DEF TrackTypeOK, TrackRecords, JobRecords, Recognising
<1>4. ASSUME NEW t \in Slots PROVE JobStands(jobs[t])'
  <2>1. JobStands(jobs[t])
    BY DEF TrackIInv
  <2>2. CASE t = s
    BY <2>2, <1>1 DEF JobStands
  <2>3. CASE t # s
    BY <2>1, <2>3, <1>1 DEF JobStands
  <2> QED BY <2>2, <2>3
<1> QED BY <1>3, <1>4 DEF TrackIInv, NamesStayOnTheirTrack

\* Whatever a look shows, the name is that of the face, or none.
LEMMA VerdictNames ==
  ASSUME NEW f \in Faces, NEW card \in Known \cup {Nil}, NEW requireActive \in BOOLEAN,
         NEW verdict \in Verdicts[f][card][requireActive]
  PROVE  verdict.name \in {f, Nil} /\ verdict.name \in Known \cup {Nil}
<1>1. Verdicts[f][card][requireActive]
        = UNION {{Recognized(f, look, card, passed) : passed \in Lively(look, requireActive)}
                 : look \in {l \in Looks : Matches(f, l)}}
  BY DEF Verdicts
<1>2. PICK look \in Looks : Matches(f, look) /\ \E passed : verdict = Recognized(f, look, card, passed)
  BY <1>1
<1>3. Verify(f, look, card) \in {f, Nil} /\ Verify(f, look, card) \in Known \cup {Nil}
  BY <1>2 DEF Verify, Matches
<1> QED BY <1>2, <1>3 DEF Recognized, Nobody

LEMMA RecognizeFaceKeeps ==
  ASSUME TrackIInv, NEW s \in Slots, RecognizeFace(s) PROVE TrackIInv'
<1>1. PICK verdict \in Verdicts[jobs[s].face][Nil][LiveActiveRequired] :
         jobs' = [jobs EXCEPT ![s].stage = IF Alarms(verdict) THEN "alert" ELSE "mark",
                              ![s].name = verdict.name]
  BY DEF RecognizeFace
<1>2. jobs[s].stage = "run" /\ UNCHANGED <<tracks, lastTrack, inflight, quiet>>
  BY DEF RecognizeFace
<1>3. jobs[s] \in JobRecords /\ JobStands(jobs[s]) /\ jobs[s].face \in Faces
  BY <1>2, TrackTypes DEF TrackIInv, JobStands
<1>4. verdict.name \in {jobs[s].face, Nil} /\ verdict.name \in Known \cup {Nil}
  BY <1>3, VerdictNames, TrackAssumption
<1> DEFINE old == jobs[s]
           stage == IF Alarms(verdict) THEN "alert" ELSE "mark"
           new == [old EXCEPT !.stage = stage, !.name = verdict.name]
<1>5. jobs' = [jobs EXCEPT ![s] = new]
  BY <1>1, TrackTypes
<1>6. stage \in {"alert", "mark"}
  OBVIOUS
<1> HIDE DEF stage
<1>7. new \in JobRecords /\ new.stage # "none" /\ JobStands(new)
  BY <1>2, <1>3, <1>4, <1>6 DEF JobRecords, JobStands
<1> HIDE DEF new
<1> QED BY <1>2, <1>5, <1>7, TrackTypes, JobMoves

LEMMA SetCooldownKeeps ==
  ASSUME TrackIInv, NEW s \in Slots, SetCooldown(s) PROVE TrackIInv'
<1> DEFINE new == [jobs[s] EXCEPT !.stage = "mark"]
<1>1. /\ jobs[s].stage = "alert" /\ quiet' = 0 /\ jobs' = [jobs EXCEPT ![s] = new]
      /\ UNCHANGED <<tracks, lastTrack, inflight>>
  BY TrackTypes DEF SetCooldown
<1>2. jobs[s] \in JobRecords /\ JobStands(jobs[s])
  BY TrackTypes DEF TrackIInv
<1>3. new \in JobRecords /\ new.stage # "none" /\ JobStands(new)
  BY <1>1, <1>2 DEF JobRecords, JobStands
<1> HIDE DEF new
<1>4. quiet' \in 0..AlarmPause
  BY <1>1, TrackTypes
<1> QED BY <1>1, <1>3, <1>4, JobMoves

\* What is left when a recognition has ended.
LEMMA JobEnds ==
  ASSUME TrackIInv, NEW s \in Slots, jobs[s].stage # "none", Release(s),
         UNCHANGED <<lastTrack, quiet>>,
         tracks' \in [TrackIds -> TrackRecords \cup {Nil}], NamesStayOnTheirTrack',
         \A i \in TrackIds : tracks'[i] # Nil => tracks[i] # Nil /\ tracks'[i].was = tracks[i].was
  PROVE  TrackIInv'
<1>1. /\ jobs' \in [Slots -> JobRecords] /\ jobs'[s] = Resting
      /\ \A t \in Slots : t # s => jobs'[t] = jobs[t]
      /\ inflight' = Cardinality(Recognising')
  BY Released
<1>2. TrackTypeOK'
  BY <1>1, TrackTypes DEF TrackTypeOK, TrackRecords, JobRecords, Recognising
<1>3. \A i \in TrackIds : tracks'[i] # Nil => i <= lastTrack'
  BY DEF TrackIInv
<1>4. \A i \in 1..lastTrack : i \in TrackIds
  BY TrackTypes DEF TrackIds
<1>5. lastTrack' \in Nat /\ lastTrack <= lastTrack'
  BY TrackTypes
<1>6. ASSUME NEW t \in Slots PROVE JobStands(jobs[t])'
  <2>1. CASE t = s
    BY <2>1, <1>1, RestingTyped DEF JobStands
  <2>2. CASE t # s
    BY <2>2, <1>1, <1>4, <1>5, JobsGoOn
  <2> QED BY <2>1, <2>2
<1> QED BY <1>2, <1>3, <1>6 DEF TrackIInv

LEMMA RecognitionFailsKeeps ==
  ASSUME TrackIInv, NEW s \in Slots, RecognitionFails(s) PROVE TrackIInv'
<1>1. jobs[s].stage # "none" /\ Release(s) /\ UNCHANGED <<tracks, lastTrack, quiet>>
  BY DEF RecognitionFails
<1>2. NamesStayOnTheirTrack'
  BY <1>1 DEF TrackIInv, NamesStayOnTheirTrack
<1> QED BY <1>1, <1>2, TrackTypes, JobEnds

\* The result lands on the track it was started for, whoever stands there now.
LEMMA MarkRecognizedKeeps ==
  ASSUME TrackIInv, NEW s \in Slots, MarkRecognized(s) PROVE TrackIInv'
<1> DEFINE job == jobs[s]
           old == tracks[job.track]
           new == [old EXCEPT !.since = 0, !.name = job.name, !.stranger = (job.name = Nil)]
<1>1. /\ job.stage = "mark" /\ Release(s) /\ UNCHANGED <<lastTrack, quiet>>
  BY DEF MarkRecognized
<1>2. /\ job \in JobRecords /\ job.track \in 1..lastTrack /\ job.name \in {job.face, Nil}
      /\ old # Nil => job.face \in old.was
  BY <1>1, TrackTypes DEF TrackIInv, JobStands
<1>3. job.track \in TrackIds
  BY <1>2, TrackTypes DEF TrackIds
<1>4. old \in TrackRecords \cup {Nil}
  BY <1>3, TrackTypes
<1>5. tracks' = IF old = Nil THEN tracks ELSE [tracks EXCEPT ![job.track] = new]
  BY <1>3, TrackTypes DEF MarkRecognized
<1>6. CASE old = Nil
  <2>1. tracks' = tracks
    BY <1>5, <1>6
  <2>2. NamesStayOnTheirTrack'
    BY <2>1 DEF TrackIInv, NamesStayOnTheirTrack
  <2> QED BY <2>1, <2>2, <1>1, TrackTypes, JobEnds
<1>7. CASE old # Nil
  <2>1. new \in TrackRecords /\ new.name = job.name /\ new.was = old.was
    <3>1. old \in TrackRecords /\ job.name \in Known \cup {Nil} /\ (job.name = Nil) \in BOOLEAN
      BY <1>2, <1>4, <1>7 DEF JobRecords
    <3>2. 0 \in 0..LongAgo
      BY TrackTypes
    <3> HIDE DEF old, job
    <3> QED BY <3>1, <3>2 DEF TrackRecords
  <2>2. tracks' = [tracks EXCEPT ![job.track] = new]
    BY <1>5, <1>7
  <2>3. new.name \in new.was \cup {Nil}
    BY <2>1, <1>2, <1>7
  <2> HIDE DEF new
  <2>4. /\ tracks' \in [TrackIds -> TrackRecords \cup {Nil}] /\ tracks'[job.track] = new
        /\ \A i \in TrackIds : i # job.track => tracks'[i] = tracks[i]
    BY <2>1, <2>2, <1>3, TrackTypes
  <2>5. NamesStayOnTheirTrack'
    BY <2>3, <2>4 DEF TrackIInv, NamesStayOnTheirTrack
  <2>6. \A i \in TrackIds : tracks'[i] # Nil => tracks[i] # Nil /\ tracks'[i].was = tracks[i].was
    BY <2>1, <2>4, <1>7
  <2> QED BY <2>4, <2>5, <2>6, <1>1, JobEnds
<1> QED BY <1>6, <1>7

LEMMA TrackInvNext ==
  ASSUME TrackIInv, [TrackNext]_trackVars PROVE TrackIInv'
<1>1. CASE UNCHANGED trackVars
  <2>1. UNCHANGED <<tracks, lastTrack, inflight, jobs, quiet>>
    BY <1>1 DEF trackVars
  <2>2. NamesStayOnTheirTrack'
    BY <2>1 DEF TrackIInv, NamesStayOnTheirTrack
  <2>3. lastTrack <= lastTrack' /\ \A i \in TrackIds : tracks'[i] # Nil => i <= lastTrack'
    BY <2>1, TrackTypes DEF TrackIInv
  <2> QED BY <2>1, <2>2, <2>3, TrackTypes, TrackQuiet
<1>2. CASE TrackNext
  BY <1>2, FrameKeeps, RecognizeStreamKeeps, RecognizeImageKeeps, RecognizeFaceKeeps,
     SetCooldownKeeps, MarkRecognizedKeeps, RecognitionFailsKeeps, TrackTickKeeps DEF TrackNext
<1> QED BY <1>1, <1>2

\* What frames and recognitions rest on: a recognition under way is of somebody who was
\* seen on its track, and names nobody else.
THEOREM TracksInductive == TrackSpec => []TrackIInv
BY TrackInvInit, TrackInvNext, PTL DEF TrackSpec

\* The name on a track is that of somebody who was seen on it, also when its answer comes
\* after the track was lost and its slot taken.  (mark_recognized, tracker update.)
THEOREM NamesStay == TrackSpec => []NamesStayOnTheirTrack
<1>1. TrackIInv => NamesStayOnTheirTrack
  BY DEF TrackIInv
<1> QED BY <1>1, TracksInductive, PTL

-----------------------------------------------------------------------------
(* Sightings and alerts *)

AskRecords == [stage : {"none", "filed", "evaluated"}, who : Workmates \cup {Nil},
               reason : {"none", "quality", "liveness", "no_face"}, live : BOOLEAN,
               id : 0..LastEvent, at : Clock, raised : SUBSET AlertTypes]
EventRows == [id : 1..LastEvent, who : Workmates \cup {Nil}, at : Clock]
AlertRows == [type : AlertTypes, event : 1..LastEvent, status : {"open", "acknowledged", "resolved"}]
TriageRecords == [op : {"none", "acknowledged", "resolved"}, alert : AlertRows \cup {Nil}]

\* An event is of somebody, and somebody else was at the camera within its window.
WasFollowed(own) ==
    /\ own.who # Nil
    /\ \E f \in recognitions : f.who \notin {Nil, own.who} /\ f.at + TailWindow >= own.at

\* A request that goes on has an id, and a tailgating alert it will insert is founded.
AskStands(ask) ==
    /\ ask.stage # "none" => ask.id \in 1..LastEvent
    /\ "tailgating" \in ask.raised => WasFollowed(ask)

SightingIInv ==
    /\ SightingTypeOK
    /\ sightings \in [Kiosks -> AskRecords] /\ triage \in [Supervisors -> TriageRecords]
    /\ \A k \in Kiosks : AskStands(sightings[k])
    /\ \A s \in Supervisors : triage[s].op # "none" => triage[s].alert \in AlertRows
    /\ TailgatersWereTwo

LEMMA SightingFacts ==
    /\ LastEvent \in Nat /\ LastTime \in Nat /\ TailWindow \in Nat /\ Nil \notin Workmates
    /\ MaxTriage \in Nat
    /\ 0 \in 0..LastEvent /\ 0 \in Clock /\ 0 \in 0..MaxTriage
<1>1. LastEvent \in Nat /\ LastTime \in Nat /\ TailWindow \in Nat /\ MaxTriage \in Nat
  BY SightingAssumption, Zenon
<1>2. Nil \notin Workmates
  BY SightingAssumption
<1> QED BY <1>1, <1>2 DEF Clock

LEMMA NoSightingStands == NoSighting \in AskRecords /\ AskStands(NoSighting)
<1>1. NoSighting.stage = "none" /\ NoSighting.raised = {}
  BY DEF NoSighting
<1>2. AskStands(NoSighting)
  BY <1>1 DEF AskStands
<1>3. NoSighting \in AskRecords
  BY SightingFacts, SMT DEF NoSighting, AskRecords
<1> QED BY <1>2, <1>3

\* Whoever was followed stays so, whatever is committed later.
LEMMA FollowedForGood ==
    ASSUME recognitions \subseteq recognitions', NEW own, WasFollowed(own)
    PROVE  WasFollowed(own)'
BY DEF WasFollowed

\* What the events on record alone say of an alert.
LEMMA FoundedForGood ==
    ASSUME recognitions \subseteq recognitions', TailgatersWereTwo, alerts' \subseteq alerts
    PROVE  TailgatersWereTwo'
BY DEF TailgatersWereTwo

\* A step that sets one request to a record that stands, and only adds events.
LEMMA OneRequest ==
    ASSUME SightingIInv, NEW k \in Kiosks, NEW new \in AskRecords,
           sightings' = [sightings EXCEPT ![k] = new], AskStands(new)',
           recognitions \subseteq recognitions'
    PROVE  /\ sightings' \in [Kiosks -> AskRecords]
           /\ \A j \in Kiosks : AskStands(sightings[j])'
<1>1. sightings \in [Kiosks -> AskRecords]
  BY DEF SightingIInv
<1>2. sightings' \in [Kiosks -> AskRecords]
  BY <1>1
<1>3. ASSUME NEW j \in Kiosks PROVE AskStands(sightings[j])'
  <2>1. CASE j = k
    <3>1. sightings'[j] = new
      BY <1>1, <2>1
    <3> QED BY <3>1 DEF AskStands, WasFollowed
  <2>2. CASE j # k
    <3>1. sightings'[j] = sightings[j]
      BY <1>1, <2>2
    <3>2. AskStands(sightings[j])
      BY DEF SightingIInv
    <3>3. WasFollowed(sightings[j]) => WasFollowed(sightings[j])'
      BY <3>1 DEF WasFollowed
    <3> QED BY <3>1, <3>2, <3>3 DEF AskStands
  <2> QED BY <2>1, <2>2
<1> QED BY <1>2, <1>3

\* A step that leaves requests alone.
LEMMA NoWatch ==
    ASSUME SightingIInv, sightings' = sightings, recognitions' = recognitions
    PROVE  sightings' \in [Kiosks -> AskRecords] /\ \A j \in Kiosks : AskStands(sightings[j])'
BY DEF SightingIInv, AskStands, WasFollowed

-----------------------------------------------------------------------------
(* The request *)

LEMMA FiledSound ==
    ASSUME SightingIInv, NEW k \in Kiosks, KioskFree(k),
           NEW who \in Workmates \cup {Nil},
           NEW reason \in {"none", "quality", "liveness", "no_face"}, NEW live \in BOOLEAN,
           Filed(k, who, reason, live), recognitions' = recognitions
    PROVE  /\ sightings' \in [Kiosks -> AskRecords]
           /\ \A j \in Kiosks : AskStands(sightings[j])'
           /\ lastEvent' \in 0..LastEvent
<1> DEFINE new == [stage |-> "filed", who |-> who, reason |-> reason, live |-> live,
                   id |-> lastEvent + 1, at |-> now, raised |-> {}]
<1>1. lastEvent \in 0..LastEvent /\ now \in Clock /\ lastEvent < LastEvent
  BY DEF SightingIInv, SightingTypeOK, KioskFree
<1>2. lastEvent + 1 \in 1..LastEvent /\ lastEvent + 1 \in 0..LastEvent
  BY <1>1, SightingFacts
<1>3. new \in AskRecords
  BY <1>1, <1>2, SMT DEF AskRecords
<1>4. new.stage = "filed" /\ new.id = lastEvent + 1 /\ new.raised = {}
  OBVIOUS
<1>5. sightings' = [sightings EXCEPT ![k] = new] /\ lastEvent' = lastEvent + 1
  BY DEF Filed
<1>6. PICK record \in AskRecords : record = new
  BY <1>3
<1> HIDE DEF new
<1>7. AskStands(record)'
  BY <1>2, <1>4, <1>6 DEF AskStands
<1> QED BY <1>2, <1>5, <1>6, <1>7, OneRequest

LEMMA GateNames ==
    ASSUME NEW view, NEW ra
    PROVE  Gate(view, ra) \in {"none", "quality", "liveness", "no_face"}
BY DEF Gate

LEMMA RecordMatchSound ==
    ASSUME SightingIInv, NEW k \in Kiosks, KioskFree(k), NEW view \in Views,
           NEW ra \in BOOLEAN, RecordMatch(k, view, ra)
    PROVE  SightingIInv'
<1> DEFINE who == Named(view, ra)
<1>1. who \in present /\ present \subseteq Workmates
  BY DEF RecordMatch, SightingIInv, SightingTypeOK
<1>2. SeenAlive(view) \in BOOLEAN
  BY DEF SeenAlive, Views
<1>3. /\ Filed(k, who, "none", SeenAlive(view))
      /\ UNCHANGED <<now, recognitions, alerts, unknownMark, alertMark, pictures, present,
                     triage, triaged>>
  BY Zenon DEF RecordMatch
<1> HIDE DEF who
<1>4. /\ sightings' \in [Kiosks -> AskRecords]
      /\ \A j \in Kiosks : AskStands(sightings[j])'
      /\ lastEvent' \in 0..LastEvent
  BY <1>1, <1>2, <1>3, FiledSound
<1> QED BY <1>3, <1>4 DEF SightingIInv, SightingTypeOK, TailgatersWereTwo, Clock

LEMMA RecordNoMatchSound ==
    ASSUME SightingIInv, NEW k \in Kiosks, KioskFree(k), NEW view \in Views,
           NEW ra \in BOOLEAN, RecordNoMatch(k, view, ra)
    PROVE  SightingIInv'
<1> DEFINE reason == Gate(view, ra)
<1>1. SeenAlive(view) \in BOOLEAN
  BY DEF SeenAlive, Views
<1>2. reason \in {"none", "quality", "liveness", "no_face"}
  BY GateNames
<1>3. /\ Filed(k, Nil, reason, SeenAlive(view))
      /\ unknownMark' = IF UnknownPause = 0 THEN unknownMark ELSE now
      /\ UNCHANGED <<now, recognitions, alerts, alertMark, pictures, present, triage, triaged>>
  BY Zenon DEF RecordNoMatch
<1> HIDE DEF reason
<1>4. /\ sightings' \in [Kiosks -> AskRecords]
      /\ \A j \in Kiosks : AskStands(sightings[j])'
      /\ lastEvent' \in 0..LastEvent
  BY <1>1, <1>2, <1>3, FiledSound
<1>5. unknownMark' \in Clock \cup {Nil}
  BY <1>3 DEF SightingIInv, SightingTypeOK
<1> QED BY <1>3, <1>4, <1>5 DEF SightingIInv, SightingTypeOK, TailgatersWereTwo, Clock

\* The request is evaluated as if the event were committed: who else was
\* there is read from what is.
LEMMA TailgatingIsSeen ==
    ASSUME NEW ask, "tailgating" \in Alarming(ask)
    PROVE  WasFollowed(ask)
<1> DEFINE own == [id |-> ask.id, who |-> ask.who, at |-> ask.at]
<1>1. own.who = ask.who /\ own.at = ask.at
  OBVIOUS
<1>2. ask.who # Nil /\ Companions(own) # {}
  BY DEF Alarming
<1> HIDE DEF own
<1>3. PICK f \in recognitions : f.who \notin {Nil, own.who} /\ f.at + TailWindow >= own.at
  BY <1>2 DEF Companions
<1> QED BY <1>1, <1>2, <1>3 DEF WasFollowed

LEMMA AlarmNames == \A ask : Alarming(ask) \subseteq AlertTypes
BY DEF Alarming, AlertTypes

LEMMA EvaluateSound ==
    ASSUME SightingIInv, NEW k \in Kiosks, NEW works \in BOOLEAN, Evaluate(k, works)
    PROVE  SightingIInv'
<1> DEFINE ask == sightings[k]
           raised == {y \in Alarming(ask) : ~Within(alertMark[y], AlertPause)}
           new == [ask EXCEPT !.stage = "evaluated", !.raised = raised]
<1>1. /\ ask.stage = "filed"
      /\ pictures' = IF works THEN pictures \cup {[id |-> ask.id, at |-> now]} ELSE pictures
      /\ alertMark' = [y \in AlertTypes |-> IF y \in raised THEN now ELSE alertMark[y]]
      /\ UNCHANGED <<now, lastEvent, recognitions, alerts, unknownMark, present, triage, triaged>>
  BY Zenon DEF Evaluate
<1>2. sightings' = [sightings EXCEPT ![k] = new]
  BY DEF Evaluate
<1>3. /\ ask \in AskRecords /\ AskStands(ask) /\ now \in Clock
      /\ alertMark \in [AlertTypes -> Clock \cup {Nil}]
      /\ pictures \subseteq [id : 1..LastEvent, at : Clock]
  BY DEF SightingIInv, SightingTypeOK
<1>4. raised \in SUBSET AlertTypes /\ raised \subseteq Alarming(ask)
  BY AlarmNames
<1> HIDE DEF ask, raised
<1>5. /\ new \in AskRecords /\ new.stage = "evaluated" /\ new.raised = raised
      /\ new.id = ask.id /\ new.who = ask.who /\ new.at = ask.at
  <2>1. ask \in AskRecords /\ raised \in SUBSET AlertTypes
    BY <1>3, <1>4
  <2>2. new \in AskRecords
    BY <2>1, Zenon DEF AskRecords
  <2>3. new.stage = "evaluated" /\ new.raised = raised
    BY <2>1 DEF AskRecords
  <2>4. new.id = ask.id /\ new.who = ask.who /\ new.at = ask.at
    BY <2>1 DEF AskRecords
  <2> QED BY <2>2, <2>3, <2>4
<1> HIDE DEF new
<1>12. PICK record \in AskRecords : record = new
  BY <1>5
<1>6. ask.id \in 1..LastEvent
  BY <1>1, <1>3 DEF AskStands
<1>7. AskStands(record)'
  <2>1. "tailgating" \in new.raised => WasFollowed(ask)
    BY <1>4, <1>5, TailgatingIsSeen
  <2>2. "tailgating" \in record.raised => WasFollowed(record)
    BY <1>5, <1>12, <2>1 DEF WasFollowed
  <2>3. record.id \in 1..LastEvent
    BY <1>5, <1>6, <1>12
  <2> QED BY <1>1, <2>2, <2>3 DEF AskStands, WasFollowed
<1>8. sightings' \in [Kiosks -> AskRecords] /\ \A j \in Kiosks : AskStands(sightings[j])'
  BY <1>1, <1>2, <1>7, <1>12, OneRequest
<1>9. alertMark' \in [AlertTypes -> Clock \cup {Nil}]
  BY <1>1, <1>3
<1>10. pictures' \subseteq [id : 1..LastEvent, at : Clock]
  <2>1. [id |-> ask.id, at |-> now] \in [id : 1..LastEvent, at : Clock]
    BY <1>3, <1>6
  <2> QED BY <1>1, <1>3, <2>1
<1> QED BY <1>1, <1>8, <1>9, <1>10 DEF SightingIInv, SightingTypeOK, TailgatersWereTwo, Clock

LEMMA CommitSightingSound ==
    ASSUME SightingIInv, NEW k \in Kiosks, CommitSighting(k)
    PROVE  SightingIInv'
<1> DEFINE ask == sightings[k]
           row == [id |-> ask.id, who |-> ask.who, at |-> ask.at]
           Raised(y) == [type |-> y, event |-> ask.id, status |-> "open"]
<1>1. /\ ask.stage = "evaluated"
      /\ recognitions' = recognitions \cup {row}
      /\ alerts' = alerts \cup {Raised(y) : y \in ask.raised}
      /\ sightings' = [sightings EXCEPT ![k] = NoSighting]
      /\ UNCHANGED <<now, lastEvent, unknownMark, alertMark, pictures, present, triage, triaged>>
  BY Zenon DEF CommitSighting
<1>2. ask \in AskRecords /\ AskStands(ask) /\ recognitions \subseteq EventRows
      /\ alerts \subseteq AlertRows /\ TailgatersWereTwo
  BY DEF SightingIInv, SightingTypeOK, EventRows, AlertRows
<1> HIDE DEF ask
<1>3. ask.id \in 1..LastEvent /\ ("tailgating" \in ask.raised => WasFollowed(ask))
  BY <1>1, <1>2 DEF AskStands
<1>4. row \in EventRows /\ row.id = ask.id /\ row.who = ask.who /\ row.at = ask.at
  BY <1>2, <1>3 DEF EventRows, AskRecords
<1>5. \A y \in ask.raised : /\ Raised(y) \in AlertRows
                            /\ Raised(y).type = y /\ Raised(y).event = ask.id
  BY <1>2, <1>3 DEF AlertRows, AskRecords
<1> HIDE DEF row, Raised
<1>6. AskStands(NoSighting)'
  BY NoSightingStands DEF AskStands, NoSighting
<1>7. sightings' \in [Kiosks -> AskRecords] /\ \A j \in Kiosks : AskStands(sightings[j])'
  BY <1>1, <1>6, NoSightingStands, OneRequest
<1>8. recognitions' \subseteq EventRows /\ alerts' \subseteq AlertRows
  BY <1>1, <1>2, <1>4, <1>5
<1>9. TailgatersWereTwo'
  <2> SUFFICES ASSUME NEW a \in alerts', a.type = "tailgating"
               PROVE  \E e, f \in recognitions' : /\ e.id = a.event /\ e.who # Nil
                                                  /\ f.who \notin {Nil, e.who}
                                                  /\ f.at + TailWindow >= e.at
    BY DEF TailgatersWereTwo
  <2>1. CASE a \in alerts
    <3>1. PICK e, f \in recognitions : /\ e.id = a.event /\ e.who # Nil
                                       /\ f.who \notin {Nil, e.who}
                                       /\ f.at + TailWindow >= e.at
      BY <1>2, <2>1 DEF TailgatersWereTwo
    <3> QED BY <1>1, <3>1
  <2>2. CASE a \notin alerts
    <3>1. PICK y \in ask.raised : a = Raised(y)
      BY <1>1, <2>2
    <3>2. a.event = ask.id /\ y = "tailgating"
      BY <1>5, <3>1
    <3>3. WasFollowed(ask)
      BY <1>3, <3>2
    <3>4. PICK f \in recognitions : f.who \notin {Nil, ask.who} /\ f.at + TailWindow >= ask.at
      BY <3>3 DEF WasFollowed
    <3>5. row \in recognitions' /\ f \in recognitions'
      BY <1>1
    <3>6. row.who # Nil /\ f.who \notin {Nil, row.who} /\ f.at + TailWindow >= row.at
      BY <1>4, <3>3, <3>4 DEF WasFollowed
    <3> QED BY <1>4, <3>2, <3>5, <3>6
  <2> QED BY <2>1, <2>2
<1> QED BY <1>1, <1>7, <1>8, <1>9 DEF SightingIInv, SightingTypeOK, EventRows, AlertRows, Clock

LEMMA AbortSightingSound ==
    ASSUME SightingIInv, NEW k \in Kiosks, AbortSighting(k)
    PROVE  SightingIInv'
<1>1. /\ sightings' = [sightings EXCEPT ![k] = NoSighting]
      /\ UNCHANGED <<now, lastEvent, recognitions, alerts, unknownMark, alertMark, pictures,
                     present, triage, triaged>>
  BY DEF AbortSighting
<1>2. AskStands(NoSighting)'
  BY NoSightingStands DEF AskStands, NoSighting
<1>3. sightings' \in [Kiosks -> AskRecords] /\ \A j \in Kiosks : AskStands(sightings[j])'
  BY <1>1, <1>2, NoSightingStands, OneRequest
<1> QED BY <1>1, <1>3 DEF SightingIInv, SightingTypeOK, TailgatersWereTwo, Clock

-----------------------------------------------------------------------------
(* The triage of alerts *)

LEMMA ReadAlertSound ==
    ASSUME SightingIInv, NEW s \in Supervisors, NEW a \in alerts,
           NEW op \in {"acknowledged", "resolved"}, ReadAlert(s, a, op)
    PROVE  SightingIInv'
<1> DEFINE new == [op |-> op, alert |-> a]
<1>1. /\ triage' = [triage EXCEPT ![s] = new]
      /\ triaged < MaxTriage /\ triaged' = triaged + 1
      /\ UNCHANGED <<now, sightings, lastEvent, recognitions, alerts, unknownMark, alertMark,
                     pictures, present>>
  BY DEF ReadAlert
<1>2. /\ alerts \subseteq AlertRows /\ triaged \in 0..MaxTriage
      /\ triage \in [Supervisors -> TriageRecords]
      /\ \A t \in Supervisors : triage[t].op # "none" => triage[t].alert \in AlertRows
  BY DEF SightingIInv, SightingTypeOK, AlertRows
<1>3. new \in TriageRecords /\ new.alert = a /\ a \in AlertRows
  BY <1>2 DEF TriageRecords
<1> HIDE DEF new
<1>4. triage' \in [Supervisors -> TriageRecords] /\ DOMAIN triage' = Supervisors
  BY <1>1, <1>2, <1>3
<1>5. \A t \in Supervisors : triage'[t].op # "none" => triage'[t].alert \in AlertRows
  BY <1>1, <1>2, <1>3
<1>6. triaged' \in 0..MaxTriage
  BY <1>1, <1>2, SightingFacts
<1>7. sightings' \in [Kiosks -> AskRecords] /\ \A j \in Kiosks : AskStands(sightings[j])'
  BY <1>1, NoWatch
<1> QED BY <1>1, <1>4, <1>5, <1>6, <1>7 DEF SightingIInv, SightingTypeOK, TailgatersWereTwo, Clock

\* An alert keeps its event and its type.
LEMMA WriteAlertSound ==
    ASSUME SightingIInv, NEW s \in Supervisors, WriteAlert(s)
    PROVE  SightingIInv'
<1> DEFINE op == triage[s].op
           Is(a) == a.type = triage[s].alert.type /\ a.event = triage[s].alert.event
           Put(a) == IF Is(a) THEN [a EXCEPT !.status = op] ELSE a
<1>1. /\ op # "none"
      /\ alerts' = {Put(a) : a \in alerts}
      /\ triage' = [triage EXCEPT ![s] = NoTriage]
      /\ UNCHANGED <<now, sightings, lastEvent, recognitions, unknownMark, alertMark, pictures,
                     present, triaged>>
  BY Zenon DEF WriteAlert
<1>2. /\ alerts \subseteq AlertRows /\ TailgatersWereTwo
      /\ triage \in [Supervisors -> TriageRecords]
      /\ \A t \in Supervisors : triage[t].op # "none" => triage[t].alert \in AlertRows
  BY DEF SightingIInv, SightingTypeOK, AlertRows
<1>3. op \in {"acknowledged", "resolved"}
  <2>1. triage[s] \in TriageRecords
    BY <1>2
  <2> QED BY <1>1, <2>1 DEF TriageRecords
<1> HIDE DEF op
<1>4. \A a \in AlertRows : /\ Put(a) \in AlertRows
                           /\ Put(a).type = a.type /\ Put(a).event = a.event
  <2> TAKE a \in AlertRows
  <2>1. /\ [a EXCEPT !.status = op] \in AlertRows
        /\ [a EXCEPT !.status = op].type = a.type
        /\ [a EXCEPT !.status = op].event = a.event
    BY <1>3 DEF AlertRows
  <2> QED BY <2>1, Zenon
<1> HIDE DEF Put
<1>5. alerts' \subseteq AlertRows
  BY <1>1, <1>2, <1>4
<1>6. TailgatersWereTwo'
  <2> SUFFICES ASSUME NEW b \in alerts', b.type = "tailgating"
               PROVE  \E e, f \in recognitions : /\ e.id = b.event /\ e.who # Nil
                                                 /\ f.who \notin {Nil, e.who}
                                                 /\ f.at + TailWindow >= e.at
    BY <1>1 DEF TailgatersWereTwo
  <2>1. PICK a \in alerts : b = Put(a)
    BY <1>1
  <2>2. a.type = "tailgating" /\ a.event = b.event
    BY <1>2, <1>4, <2>1
  <2> QED BY <1>2, <2>2 DEF TailgatersWereTwo
<1>7. NoTriage \in TriageRecords /\ NoTriage.op = "none"
  BY DEF NoTriage, TriageRecords
<1>8. triage' \in [Supervisors -> TriageRecords] /\ DOMAIN triage' = Supervisors
  BY <1>1, <1>2, <1>7
<1>9. \A t \in Supervisors : triage'[t].op # "none" => triage'[t].alert \in AlertRows
  BY <1>1, <1>2, <1>7
<1>10. sightings' \in [Kiosks -> AskRecords] /\ \A j \in Kiosks : AskStands(sightings[j])'
  BY <1>1, NoWatch
<1> QED BY <1>1, <1>5, <1>6, <1>8, <1>9, <1>10 DEF SightingIInv, SightingTypeOK, AlertRows, Clock

-----------------------------------------------------------------------------
(* The rest, and the theorems *)

\* Steps of the clock, of the clean-up and of those who leave.
LEMMA AroundSightingSound ==
    ASSUME SightingIInv, (\E e \in Workmates : Leave(e)) \/ PurgeOldSnapshots \/ SightingTick
    PROVE  SightingIInv'
<1>1. /\ UNCHANGED <<sightings, lastEvent, recognitions, alerts, unknownMark, alertMark,
                     triage, triaged>>
      /\ pictures' \subseteq pictures /\ present' \subseteq present
  BY DEF Leave, PurgeOldSnapshots, SightingTick
<1>2. now' \in Clock
  <2>1. now \in Clock /\ LastTime \in Nat
    BY SightingFacts DEF SightingIInv, SightingTypeOK
  <2>2. now' = now \/ (now < LastTime /\ now' = now + 1)
    BY DEF Leave, PurgeOldSnapshots, SightingTick
  <2> QED BY <2>1, <2>2 DEF Clock
<1>3. sightings' \in [Kiosks -> AskRecords] /\ \A j \in Kiosks : AskStands(sightings[j])'
  BY <1>1, NoWatch
<1> QED BY <1>1, <1>2, <1>3 DEF SightingIInv, SightingTypeOK, TailgatersWereTwo, Clock

LEMMA SightingInitSound == SightingInit => SightingIInv
<1> SUFFICES ASSUME SightingInit PROVE SightingIInv
  OBVIOUS
<1>1. SightingTypeOK
  BY SightingFacts DEF SightingInit, SightingTypeOK, SightingAssumption
<1>2. NoTriage \in TriageRecords /\ NoTriage.op = "none"
  BY DEF NoTriage, TriageRecords
<1>3. /\ sightings \in [Kiosks -> AskRecords] /\ triage \in [Supervisors -> TriageRecords]
      /\ \A s \in Supervisors : triage[s] = NoTriage
      /\ \A k \in Kiosks : sightings[k] = NoSighting
  BY <1>2, NoSightingStands DEF SightingInit
<1>4. TailgatersWereTwo
  BY DEF SightingInit, TailgatersWereTwo
<1> QED BY <1>1, <1>2, <1>3, <1>4, NoSightingStands DEF SightingIInv

LEMMA SightingStepSound == SightingIInv /\ [SightingNext]_sightingVars => SightingIInv'
<1> SUFFICES ASSUME SightingIInv, [SightingNext]_sightingVars PROVE SightingIInv'
  OBVIOUS
<1>1. ASSUME NEW k \in Kiosks, KioskFree(k),
             \E view \in Views, requireLiveness \in BOOLEAN :
               RecordMatch(k, view, requireLiveness) \/ RecordNoMatch(k, view, requireLiveness)
      PROVE  SightingIInv'
  BY <1>1, RecordMatchSound, RecordNoMatchSound
<1>2. ASSUME NEW k \in Kiosks,
             (\E works \in BOOLEAN : Evaluate(k, works)) \/ CommitSighting(k) \/ AbortSighting(k)
      PROVE  SightingIInv'
  BY <1>2, EvaluateSound, CommitSightingSound, AbortSightingSound
<1>3. ASSUME NEW s \in Supervisors,
             \/ \E a \in alerts, op \in {"acknowledged", "resolved"} : ReadAlert(s, a, op)
             \/ WriteAlert(s)
      PROVE  SightingIInv'
  BY <1>3, ReadAlertSound, WriteAlertSound
<1>4. CASE (\E e \in Workmates : Leave(e)) \/ PurgeOldSnapshots \/ SightingTick
  BY <1>4, AroundSightingSound
<1>5. CASE UNCHANGED sightingVars
  <2>1. UNCHANGED <<sightings, recognitions>>
    BY <1>5 DEF sightingVars
  <2>2. sightings' \in [Kiosks -> AskRecords] /\ \A j \in Kiosks : AskStands(sightings[j])'
    BY <2>1, NoWatch
  <2> QED BY <1>5, <2>2 DEF sightingVars, SightingIInv, SightingTypeOK, TailgatersWereTwo, Clock
<1> QED BY <1>1, <1>2, <1>3, <1>4, <1>5 DEF SightingNext

\* What the requests carry from the look at the camera to the commit: an id
\* the sequence gave them, and company for every tailgating alert they raise.
THEOREM SightingsInductive == SightingSpec => []SightingIInv
BY SightingInitSound, SightingStepSound, PTL DEF SightingSpec

\* evaluate_matched, create_alert and the commit: an alert of tailgating has
\* its event on record, and one of somebody else within the window, however
\* many requests at the camera are evaluated together or rolled back.
THEOREM TailgatersTwo == SightingSpec => []TailgatersWereTwo
<1>1. SightingIInv => TailgatersWereTwo
  BY DEF SightingIInv
<1> QED BY <1>1, SightingsInductive, PTL

-----------------------------------------------------------------------------
(* Faces *)

FaceOps == Enrols \cup Removes \cup {"none", "activate"}

ClerkRecords ==
    [op : FaceOps, stage : {"none", "read", "touched"}, left : SUBSET Persons,
     who : Persons \cup {Nil}, was : BOOLEAN,
     rows : SUBSET [id : Nat, who : Persons, active : {TRUE}],
     flagged : SUBSET Persons, alone : BOOLEAN, cleared : BOOLEAN]

\* The employees a request is about, and among them those it has added vectors of.
About(k) == k.left \cup ({k.who} \ {Nil}) \cup {r.who : r \in k.rows}
Added(k) == {r.who : r \in k.rows}

RowOf(i, p) == [id |-> i, who |-> p, active |-> TRUE]

\* Who nobody is at work on: the flag tells of the vectors, and they have their rows.
Agrees(p) ==
    /\ (p \in enrolled) <=> (vectors[p] # {} \/ p \in blank \cap enrolled)
    /\ \A i \in vectors[p] : RowOf(i, p) \in faceRows

\* The fields of a request, by what it is asked for.
ClerkFits(k) ==
    /\ k.stage = "none" => k = NoClerk
    /\ k.op \notin Enrols => k.rows = {} /\ k.flagged = {}
    /\ k.op \in Removes /\ k.stage = "touched" => k.who # Nil
    /\ k.op \in Removes /\ k.stage = "touched" /\ k.alone => vectors[k.who] = {}
    /\ k.op \notin Removes /\ k.stage = "touched" => k.who = Nil

\* Enrolments are not of those who are forgotten, nor of those a removal that began
\* and stayed without one is about.
Forgotten ==
    /\ \A p \in settled : vectors[p] = {}
    /\ \A c \in Clerks : clerks[c].op \in Enrols => About(clerks[c]) \cap settled = {}
    /\ \A c, e \in Clerks :
          clerks[c].op \in Removes /\ clerks[c].alone /\ clerks[e].op \in Enrols
          => About(clerks[c]) \cap About(clerks[e]) = {}

\* What a request leaves of its employees until it commits: who is still to come agrees,
\* and so does who was read; who was added has vectors, whose rows and flag it carries.
Midway(k) ==
    /\ k.left \cap Added(k) = {} /\ k.who \notin k.left \cup Added(k)
    /\ \A p \in k.left : Agrees(p)
    /\ k.who # Nil => /\ k.was = (k.who \in enrolled)
                      /\ k.stage = "read" => Agrees(k.who)
                      /\ k.op \in Removes /\ k.stage = "touched" => vectors[k.who] = {}
    /\ k.flagged \subseteq Added(k)
    /\ \A p \in Added(k) : /\ vectors[p] # {} /\ p \in enrolled \cup k.flagged
                           /\ \A i \in vectors[p] : RowOf(i, p) \in faceRows \cup k.rows

\* As long as no two requests of an employee overlapped and none failed half-way.
Apart ==
    mixed \/
        /\ \A c, e \in Clerks : c # e => About(clerks[c]) \cap About(clerks[e]) = {}
        /\ \A c \in Clerks : Midway(clerks[c])
        /\ \A p \in Persons : (\E c \in Clerks : p \in About(clerks[c])) \/ Agrees(p)

FaceIInv ==
    /\ FaceTypeOK
    /\ clerks \in [Clerks -> ClerkRecords]
    /\ \A c \in Clerks : ClerkFits(clerks[c])
    /\ Forgotten
    /\ Apart

LEMMA FaceTypes ==
  ASSUME FaceIInv
  PROVE  /\ employed \subseteq Persons /\ enrolled \subseteq Persons
         /\ vectors \in [Persons -> SUBSET (1..lastFace)]
         /\ lastFace \in Nat /\ LastFaceId \in Nat /\ lastFace <= LastFaceId
         /\ clerks \in [Clerks -> ClerkRecords] /\ Nil \notin Persons
         /\ blank \subseteq Persons /\ settled \subseteq Persons /\ mixed \in BOOLEAN
         /\ faceAsks \in 0..MaxFaceAsks /\ MaxFaceAsks \in Nat
         /\ faceRows \subseteq [id : 1..lastFace, who : Persons, active : BOOLEAN]
         /\ \A c \in Clerks : clerks[c].rows \subseteq [id : 1..lastFace, who : Persons, active : {TRUE}]
<1>1. FaceTypeOK /\ clerks \in [Clerks -> ClerkRecords]
  BY DEF FaceIInv
<1>2. lastFace \in 0..LastFaceId /\ LastFaceId \in Nat /\ MaxFaceAsks \in Nat /\ Nil \notin Persons
  BY <1>1, FaceAssumption DEF FaceTypeOK
<1>3. lastFace \in Nat /\ lastFace <= LastFaceId
  BY <1>2
<1> QED BY <1>1, <1>2, <1>3, Zenon DEF FaceTypeOK

LEMMA NoClerkTyped ==
  /\ NoClerk \in ClerkRecords /\ NoClerk.op = "none" /\ NoClerk.stage = "none"
  /\ NoClerk.rows = {} /\ NoClerk.flagged = {} /\ NoClerk.left = {} /\ NoClerk.who = Nil
  /\ ~NoClerk.alone /\ About(NoClerk) = {} /\ Added(NoClerk) = {}
<1>1. NoClerk \in ClerkRecords
  BY DEF NoClerk, ClerkRecords, FaceOps
<1> QED BY <1>1 DEF NoClerk, About, Added

LEMMA OpsApart ==
  /\ Enrols \cap Removes = {} /\ "none" \notin Enrols \cup Removes
  /\ "activate" \notin Enrols \cup Removes
BY DEF Enrols, Removes

LEMMA ConcernedIsAbout == \A c \in Clerks : Concerned(c) = About(clerks[c])
BY DEF Concerned, About

LEMMA AboutPersons ==
  ASSUME NEW k \in ClerkRecords
  PROVE  /\ About(k) \subseteq Persons /\ Added(k) \subseteq About(k) /\ k.left \subseteq About(k)
         /\ k.who # Nil => k.who \in About(k)
<1>1. \A r \in k.rows : r.who \in Persons
  BY DEF ClerkRecords
<1>2. k.left \subseteq Persons /\ k.who \in Persons \cup {Nil}
  BY DEF ClerkRecords
<1> QED BY <1>1, <1>2 DEF About, Added

-----------------------------------------------------------------------------
(* What a step leaves to the other requests *)

Untouched(p) ==
    /\ vectors'[p] = vectors[p]
    /\ (p \in enrolled') <=> (p \in enrolled)
    /\ (p \in blank') <=> (p \in blank)
    /\ \A i : RowOf(i, p) \in faceRows => RowOf(i, p) \in faceRows'

LEMMA UntouchedAgrees ==
  ASSUME NEW p, Untouched(p), Agrees(p)
  PROVE  Agrees(p)'
<1>1. (p \in enrolled') <=> (vectors'[p] # {} \/ p \in blank' \cap enrolled')
  BY DEF Untouched, Agrees
<1>2. \A i \in vectors'[p] : RowOf(i, p) \in faceRows'
  BY DEF Untouched, Agrees
<1> QED BY <1>1, <1>2 DEF Agrees

LEMMA UntouchedMidway ==
  ASSUME NEW k \in ClerkRecords, \A p \in About(k) : Untouched(p), Midway(k)
  PROVE  Midway(k)'
<1>1. \A p \in k.left : Agrees(p)'
  BY AboutPersons, UntouchedAgrees DEF Midway
<1>2. ASSUME k.who # Nil
      PROVE  /\ k.was = (k.who \in enrolled')
             /\ k.stage = "read" => Agrees(k.who)'
             /\ k.op \in Removes /\ k.stage = "touched" => vectors'[k.who] = {}
  <2>1. Untouched(k.who)
    BY <1>2, AboutPersons
  <2>2. k.stage = "read" => Agrees(k.who)'
    BY <1>2, <2>1, UntouchedAgrees DEF Midway
  <2>3. k.was = (k.who \in enrolled')
    <3>1. k.was = (k.who \in enrolled) /\ ((k.who \in enrolled') <=> (k.who \in enrolled))
      BY <1>2, <2>1 DEF Midway, Untouched
    <3> QED BY <3>1
  <2>4. k.op \in Removes /\ k.stage = "touched" => vectors'[k.who] = {}
    BY <1>2, <2>1 DEF Midway, Untouched
  <2> QED BY <2>2, <2>3, <2>4
<1>3. ASSUME NEW p \in Added(k)
      PROVE  /\ vectors'[p] # {} /\ p \in enrolled' \cup k.flagged
             /\ \A i \in vectors'[p] : RowOf(i, p) \in faceRows' \cup k.rows
  <2>1. Untouched(p)
    BY AboutPersons
  <2>2. /\ vectors[p] # {} /\ p \in enrolled \cup k.flagged
        /\ \A i \in vectors[p] : RowOf(i, p) \in faceRows \cup k.rows
    BY DEF Midway
  <2> QED BY <2>1, <2>2 DEF Untouched
<1>4. k.left \cap Added(k) = {} /\ k.who \notin k.left \cup Added(k) /\ k.flagged \subseteq Added(k)
  BY DEF Midway
<1> HIDE DEF Agrees
<1> QED BY <1>1, <1>2, <1>3, <1>4 DEF Midway

\* A step of one request, which touches nobody else's employees, and leaves those it
\* lets go of in agreement.
LEMMA ApartKeeps ==
  ASSUME FaceIInv, NEW c \in Clerks, NEW k \in ClerkRecords,
         clerks' = [clerks EXCEPT ![c] = k], mixed => mixed',
         About(k) \subseteq About(clerks[c]),
         ~mixed' => /\ \A p \in Persons \ About(clerks[c]) : Untouched(p)
                    /\ Midway(k)' /\ \A p \in About(clerks[c]) \ About(k) : Agrees(p)'
  PROVE  Apart'
<1> SUFFICES ASSUME ~mixed'
             PROVE  /\ \A b, e \in Clerks : b # e => About(clerks'[b]) \cap About(clerks'[e]) = {}
                    /\ \A b \in Clerks : Midway(clerks[b])'
                    /\ \A p \in Persons : (\E b \in Clerks : p \in About(clerks'[b])) \/ Agrees(p)'
  BY DEF Apart, About
<1>1. /\ \A b, e \in Clerks : b # e => About(clerks[b]) \cap About(clerks[e]) = {}
      /\ \A b \in Clerks : Midway(clerks[b])
      /\ \A p \in Persons : (\E b \in Clerks : p \in About(clerks[b])) \/ Agrees(p)
  BY DEF FaceIInv, Apart
<1>2. /\ clerks \in [Clerks -> ClerkRecords]
      /\ \A b \in Clerks : clerks'[b] = IF b = c THEN k ELSE clerks[b]
  BY DEF FaceIInv
<1>3. ASSUME NEW b \in Clerks, NEW q \in ClerkRecords, q = clerks'[b] PROVE Midway(q)'
  <2>1. CASE b = c
    BY <1>2, <1>3, <2>1
  <2>2. CASE b # c
    <3>1. q = clerks[b] /\ Midway(q)
      BY <1>1, <1>2, <1>3, <2>2
    <3>2. \A p \in About(q) : Untouched(p)
      BY <1>1, <2>2, <3>1, AboutPersons
    <3> QED BY <3>1, <3>2, UntouchedMidway
  <2> QED BY <2>1, <2>2
<1>4. \A b \in Clerks : Midway(clerks[b])'
  <2>1. \A b \in Clerks : clerks'[b] \in ClerkRecords
    BY <1>2
  <2> QED BY <1>3, <2>1 DEF Midway, Agrees
<1>5. ASSUME NEW p \in Persons, \A b \in Clerks : p \notin About(clerks'[b]) PROVE Agrees(p)'
  <2>1. CASE p \in About(clerks[c])
    BY <1>2, <1>5, <2>1
  <2>2. CASE p \notin About(clerks[c])
    <3>1. Agrees(p)
      BY <1>1, <1>2, <1>5, <2>2
    <3> QED BY <2>2, <3>1, UntouchedAgrees
  <2> QED BY <2>1, <2>2
<1> QED BY <1>1, <1>2, <1>4, <1>5

\* Vectors are added by enrolments of those they are about only.
AddsItsOwn(c) ==
    \A p \in Persons :
        vectors'[p] \subseteq vectors[p] \/ (clerks[c].op \in Enrols /\ p \in About(clerks[c]))

LEMMA ForgottenKeeps ==
  ASSUME FaceIInv, NEW c \in Clerks, NEW k \in ClerkRecords,
         clerks' = [clerks EXCEPT ![c] = k],
         About(k) \subseteq About(clerks[c]), k.op = clerks[c].op \/ k = NoClerk,
         k.alone => clerks[c].alone, AddsItsOwn(c),
         settled' \subseteq Persons,
         \A p \in settled' :
            \/ p \in settled
            \/ /\ clerks[c].op \in Removes /\ clerks[c].alone /\ p \in About(clerks[c])
               /\ vectors'[p] = {} /\ k = NoClerk
  PROVE  Forgotten'
<1>1. /\ \A p \in settled : vectors[p] = {}
      /\ \A b \in Clerks : clerks[b].op \in Enrols => About(clerks[b]) \cap settled = {}
      /\ \A b, e \in Clerks :
            clerks[b].op \in Removes /\ clerks[b].alone /\ clerks[e].op \in Enrols
            => About(clerks[b]) \cap About(clerks[e]) = {}
  BY DEF FaceIInv, Forgotten
<1>2. \A b \in Clerks : clerks'[b] = IF b = c THEN k ELSE clerks[b]
  BY FaceTypes
<1>3. k.op \in Enrols \cup Removes => k.op = clerks[c].op /\ k # NoClerk
  BY NoClerkTyped, OpsApart
<1>4. ASSUME NEW p \in settled' PROVE vectors'[p] = {}
  BY <1>1, <1>4 DEF AddsItsOwn
<1>5. ASSUME NEW b \in Clerks, clerks'[b].op \in Enrols
      PROVE  About(clerks'[b]) \cap settled' = {}
  <2>1. About(clerks'[b]) \subseteq About(clerks[b]) /\ clerks[b].op \in Enrols
    BY <1>2, <1>3, <1>5
  <2>2. About(clerks[b]) \cap settled = {}
    BY <1>1, <2>1
  <2> SUFFICES ASSUME NEW p \in About(clerks'[b]), p \in settled', p \notin settled PROVE FALSE
    BY <2>1, <2>2
  <2>3. clerks[c].op \in Removes /\ clerks[c].alone /\ p \in About(clerks[c])
    OBVIOUS
  <2> QED BY <1>1, <2>1, <2>3
<1>6. ASSUME NEW b \in Clerks, NEW e \in Clerks,
             clerks'[b].op \in Removes, clerks'[b].alone, clerks'[e].op \in Enrols
      PROVE  About(clerks'[b]) \cap About(clerks'[e]) = {}
  <2>1. About(clerks'[b]) \subseteq About(clerks[b]) /\ clerks[b].op \in Removes /\ clerks[b].alone
    BY <1>2, <1>3, <1>6
  <2>2. About(clerks'[e]) \subseteq About(clerks[e]) /\ clerks[e].op \in Enrols
    BY <1>2, <1>3, <1>6
  <2> QED BY <1>1, <2>1, <2>2
<1> QED BY <1>4, <1>5, <1>6 DEF Forgotten, About

LEMMA FitsKeeps ==
  ASSUME FaceIInv, NEW c \in Clerks, NEW k \in ClerkRecords,
         clerks' = [clerks EXCEPT ![c] = k], AddsItsOwn(c), ClerkFits(k)'
  PROVE  \A b \in Clerks : ClerkFits(clerks[b])'
<1>1. \A b \in Clerks : clerks'[b] = IF b = c THEN k ELSE clerks[b]
  BY FaceTypes
<1>2. ASSUME NEW b \in Clerks, NEW q \in ClerkRecords, q = clerks[b] PROVE ClerkFits(q)'
  <2>1. ClerkFits(q)
    BY <1>2 DEF FaceIInv
  <2>2. ASSUME q.op \in Removes, q.stage = "touched", q.alone PROVE vectors'[q.who] = {}
    <3>1. q.who # Nil /\ vectors[q.who] = {} /\ q.who \in About(q) /\ q.who \in Persons
      BY <2>1, <2>2, AboutPersons DEF ClerkFits
    <3>2. clerks[c].op \in Enrols => q.who \notin About(clerks[c])
      BY <1>2, <2>2, <3>1 DEF FaceIInv, Forgotten
    <3> QED BY <3>1, <3>2 DEF AddsItsOwn
  <2> QED BY <2>1, <2>2 DEF ClerkFits
<1>3. ASSUME NEW b \in Clerks, NEW q \in ClerkRecords, q = clerks'[b] PROVE ClerkFits(q)'
  <2>1. CASE b = c
    BY <1>1, <1>3, <2>1
  <2>2. CASE b # c
    <3>1. q = clerks[b]
      BY <1>1, <1>3, <2>2
    <3> QED BY <3>1, <1>2
  <2> QED BY <2>1, <2>2
<1>4. \A b \in Clerks : clerks'[b] \in ClerkRecords
  BY <1>1, FaceTypes
<1> QED BY <1>3, <1>4 DEF ClerkFits

-----------------------------------------------------------------------------
(* One lemma per step *)

LEMMA FaceInitKeeps ==
  ASSUME FaceInit PROVE FaceIInv
<1>1. \A c \in Clerks : clerks[c] = NoClerk
  BY DEF FaceInit
<1>2. clerks \in [Clerks -> ClerkRecords]
  BY NoClerkTyped DEF FaceInit
<1>3. FaceTypeOK
  <2>1. lastFace = 0 /\ 0 \in 0..LastFaceId /\ 0 \in 0..MaxFaceAsks
    BY FaceAssumption DEF FaceInit
  <2>2. \A c \in Clerks : /\ clerks[c].op \in Enrols \cup Removes \cup {"none", "activate"}
                         /\ clerks[c].stage \in {"none", "read", "touched"}
                         /\ clerks[c].left \subseteq Persons
                         /\ clerks[c].who \in Persons \cup {Nil}
                         /\ clerks[c].rows \subseteq [id : 1..lastFace, who : Persons, active : {TRUE}]
    BY <1>1, NoClerkTyped
  <2> QED BY <2>1, <2>2 DEF FaceInit, FaceTypeOK
<1>4. \A c \in Clerks : ClerkFits(clerks[c])
  BY <1>1, NoClerkTyped, OpsApart DEF ClerkFits
<1>5. Forgotten
  BY <1>1, NoClerkTyped, OpsApart DEF Forgotten, FaceInit
<1>6. Apart
  <2>1. \A p \in Persons : Agrees(p)
    BY DEF Agrees, FaceInit
  <2>2. Midway(NoClerk)
    BY NoClerkTyped, FaceAssumption DEF Midway
  <2> QED BY <1>1, <2>1, <2>2, NoClerkTyped DEF Apart
<1> QED BY <1>2, <1>3, <1>4, <1>5, <1>6 DEF FaceIInv

\* The types after a step of one request.
LEMMA FaceTyped ==
  ASSUME FaceIInv, NEW c \in Clerks, NEW k \in ClerkRecords,
         clerks' = [clerks EXCEPT ![c] = k], faceAsks' = faceAsks,
         lastFace' \in lastFace..LastFaceId,
         k.rows \subseteq [id : 1..lastFace', who : Persons, active : {TRUE}],
         employed' \subseteq Persons, enrolled' \subseteq Persons,
         vectors' \in [Persons -> SUBSET (1..lastFace')],
         faceRows' \subseteq [id : 1..lastFace', who : Persons, active : BOOLEAN],
         blank' \subseteq Persons, settled' \subseteq Persons, mixed' \in BOOLEAN
  PROVE  FaceTypeOK' /\ clerks' \in [Clerks -> ClerkRecords]
<1>1. clerks' \in [Clerks -> ClerkRecords] /\ \A b \in Clerks : clerks'[b] = IF b = c THEN k ELSE clerks[b]
  BY FaceTypes
<1>2. 1..lastFace \subseteq 1..lastFace' /\ lastFace' \in 0..LastFaceId
  BY FaceTypes
<1>3. ASSUME NEW b \in Clerks
      PROVE  clerks'[b].rows \subseteq [id : 1..lastFace', who : Persons, active : {TRUE}]
  <2>1. clerks[b].rows \subseteq [id : 1..lastFace, who : Persons, active : {TRUE}]
    BY FaceTypes
  <2>2. clerks[b].rows \subseteq [id : 1..lastFace', who : Persons, active : {TRUE}]
    BY <1>2, <2>1
  <2> QED BY <1>1, <2>2
<1>4. \A b \in Clerks : /\ clerks'[b].op \in Enrols \cup Removes \cup {"none", "activate"}
                       /\ clerks'[b].stage \in {"none", "read", "touched"}
                       /\ clerks'[b].left \subseteq Persons
                       /\ clerks'[b].who \in Persons \cup {Nil}
  BY <1>1 DEF ClerkRecords, FaceOps
<1>5. faceAsks' \in 0..MaxFaceAsks
  BY FaceTypes
<1> QED BY <1>1, <1>2, <1>3, <1>4, <1>5 DEF FaceTypeOK

\* A step of one request that leaves all rows and vectors as they are.
LEMMA QuietKeeps ==
  ASSUME FaceIInv, NEW c \in Clerks, NEW k \in ClerkRecords,
         clerks' = [clerks EXCEPT ![c] = k],
         UNCHANGED <<enrolled, vectors, faceRows, lastFace, faceAsks, blank, settled>>,
         employed' \subseteq Persons, mixed' \in BOOLEAN, mixed => mixed',
         About(k) \subseteq About(clerks[c]), k.op = clerks[c].op \/ k = NoClerk,
         k.alone => clerks[c].alone, ClerkFits(k),
         k.rows \subseteq clerks[c].rows,
         ~mixed' => Midway(k) /\ \A p \in About(clerks[c]) \ About(k) : Agrees(p)
  PROVE  FaceIInv'
<1>1. FaceTypeOK' /\ clerks' \in [Clerks -> ClerkRecords]
  <2>1. clerks[c].rows \subseteq [id : 1..lastFace, who : Persons, active : {TRUE}]
    BY FaceTypes
  <2>2. lastFace' \in lastFace..LastFaceId
    BY FaceTypes
  <2>3. k.rows \subseteq [id : 1..lastFace', who : Persons, active : {TRUE}]
    BY <2>1
  <2>4. /\ enrolled' \subseteq Persons /\ blank' \subseteq Persons /\ settled' \subseteq Persons
        /\ vectors' \in [Persons -> SUBSET (1..lastFace')]
        /\ faceRows' \subseteq [id : 1..lastFace', who : Persons, active : BOOLEAN]
    BY FaceTypes
  <2> QED BY <2>2, <2>3, <2>4, FaceTyped
<1>2. AddsItsOwn(c)
  BY DEF AddsItsOwn
<1>3. \A b \in Clerks : ClerkFits(clerks[b])'
  <2>1. ClerkFits(k)'
    BY DEF ClerkFits
  <2> QED BY <1>2, <2>1, FitsKeeps
<1>4. Forgotten'
  <2>1. settled' \subseteq Persons /\ \A p \in settled' : p \in settled
    BY FaceTypes
  <2> QED BY <1>2, <2>1, ForgottenKeeps
<1>5. Apart'
  <2>1. \A p : Untouched(p)
    BY DEF Untouched
  <2>2. ~mixed' => Midway(k)'
    BY DEF Midway, Agrees
  <2>3. ~mixed' => \A p \in About(clerks[c]) \ About(k) : Agrees(p)'
    BY DEF Agrees
  <2> QED BY <2>1, <2>2, <2>3, ApartKeeps
<1> QED BY <1>1, <1>3, <1>4, <1>5 DEF FaceIInv

LEMMA AskClerkKeeps ==
  ASSUME FaceIInv, NEW c \in Clerks, NEW op \in Enrols \cup Removes \cup {"activate"},
         NEW P \in SUBSET Persons, AskClerk(c, op, P)
  PROVE  FaceIInv'
<1> DEFINE asked == [NoClerk EXCEPT !.op = op, !.stage = "read", !.left = P,
                                    !.alone = ~\E p \in P : Enrolling(p)]
           kept(e) == [clerks[e] EXCEPT !.alone = @ /\ (op \in Enrols => Concerned(e) \cap P = {})]
<1>1. /\ clerks[c].stage = "none" /\ faceAsks < MaxFaceAsks /\ faceAsks' = faceAsks + 1
      /\ clerks' = [e \in Clerks |-> IF e = c THEN asked ELSE kept(e)]
      /\ settled' = IF op \in Enrols THEN settled \ P ELSE settled
      /\ mixed' = (mixed \/ \E p \in P : Meets(c, p))
      /\ UNCHANGED <<employed, enrolled, vectors, faceRows, lastFace, blank>>
  BY DEF AskClerk
<1>2. clerks[c] = NoClerk
  BY <1>1 DEF FaceIInv, ClerkFits
<1>3. /\ asked \in ClerkRecords /\ asked.op = op /\ asked.stage = "read" /\ asked.left = P
      /\ asked.rows = {} /\ asked.flagged = {} /\ asked.who = Nil
      /\ asked.alone = ~\E p \in P : Enrolling(p)
  <2>1. asked \in ClerkRecords
    BY Zenon, NoClerkTyped DEF NoClerk, ClerkRecords, FaceOps
  <2> QED BY <2>1 DEF NoClerk
<1>4. About(asked) = P /\ Added(asked) = {}
  <2> HIDE DEF asked
  <2> QED BY <1>3 DEF About, Added
<1>5. ASSUME NEW e \in Clerks
      PROVE  /\ kept(e) \in ClerkRecords
             /\ kept(e).op = clerks[e].op /\ kept(e).stage = clerks[e].stage
             /\ kept(e).left = clerks[e].left /\ kept(e).who = clerks[e].who
             /\ kept(e).was = clerks[e].was /\ kept(e).rows = clerks[e].rows
             /\ kept(e).flagged = clerks[e].flagged /\ kept(e).cleared = clerks[e].cleared
             /\ kept(e).alone => clerks[e].alone /\ (op \in Enrols => About(clerks[e]) \cap P = {})
  <2>1. clerks[e] \in ClerkRecords
    BY FaceTypes
  <2>2. Concerned(e) = About(clerks[e])
    BY ConcernedIsAbout
  <2> QED BY <2>1, <2>2 DEF ClerkRecords
<1> HIDE DEF asked, kept
<1>6. \A e \in Clerks : About(kept(e)) = About(clerks[e]) /\ Added(kept(e)) = Added(clerks[e])
  BY <1>5 DEF About, Added
<1>7. \A e \in Clerks : clerks'[e] = IF e = c THEN asked ELSE kept(e)
  BY <1>1
<1>8. clerks' \in [Clerks -> ClerkRecords]
  BY <1>1, <1>3, <1>5
<1>9. FaceTypeOK'
  <2>1. faceAsks' \in 0..MaxFaceAsks
    BY <1>1, FaceTypes
  <2>2. \A b \in Clerks : /\ clerks'[b].op \in Enrols \cup Removes \cup {"none", "activate"}
                         /\ clerks'[b].stage \in {"none", "read", "touched"}
                         /\ clerks'[b].left \subseteq Persons
                         /\ clerks'[b].who \in Persons \cup {Nil}
    BY <1>8 DEF ClerkRecords, FaceOps
  <2>3. \A b \in Clerks : clerks'[b].rows \subseteq [id : 1..lastFace', who : Persons, active : {TRUE}]
    BY <1>1, <1>3, <1>5, <1>7, FaceTypes
  <2>4. settled' \subseteq Persons /\ mixed' \in BOOLEAN
    BY <1>1, FaceTypes
  <2> QED BY <1>1, <2>1, <2>2, <2>3, <2>4 DEF FaceIInv, FaceTypeOK
<1>10. ASSUME NEW b \in Clerks, NEW q \in ClerkRecords, q = clerks'[b] PROVE ClerkFits(q)'
  <2>1. CASE b = c
    BY <1>3, <1>7, <1>10, <2>1 DEF ClerkFits
  <2>2. CASE b # c
    <3>1. ClerkFits(clerks[b]) /\ q = kept(b)
      BY <1>7, <1>10, <2>2 DEF FaceIInv
    <3>2. q.stage = "none" => q = NoClerk
      <4> SUFFICES ASSUME q.stage = "none" PROVE q = NoClerk
        OBVIOUS
      <4>1. clerks[b] = NoClerk
        BY <1>5, <3>1 DEF ClerkFits
      <4>2. q.alone = FALSE
        BY <1>5, <3>1, <4>1, NoClerkTyped DEF ClerkRecords
      <4> QED BY <1>5, <3>1, <4>1, <4>2, NoClerkTyped DEF ClerkRecords, NoClerk
    <3> QED BY <1>1, <1>5, <3>1, <3>2 DEF ClerkFits
  <2> QED BY <2>1, <2>2
<1>11. Forgotten'
  <2>1. settled' \subseteq settled /\ (op \in Enrols => P \cap settled' = {})
    BY <1>1
  <2>2. \A p \in settled' : vectors'[p] = {}
    BY <1>1, <2>1 DEF FaceIInv, Forgotten
  <2>3. ASSUME NEW e \in Clerks, clerks'[e].op \in Enrols PROVE About(clerks'[e]) \cap settled' = {}
    <3>1. CASE e = c
      BY <1>3, <1>4, <1>7, <2>1, <2>3, <3>1
    <3>2. CASE e # c
      <4>1. clerks[e].op \in Enrols /\ About(clerks'[e]) = About(clerks[e])
        BY <1>5, <1>6, <1>7, <2>3, <3>2
      <4> QED BY <2>1, <4>1 DEF FaceIInv, Forgotten
    <3> QED BY <3>1, <3>2
  <2>4. ASSUME NEW b \in Clerks, NEW e \in Clerks, clerks'[b].op \in Removes, clerks'[b].alone,
               clerks'[e].op \in Enrols
        PROVE  About(clerks'[b]) \cap About(clerks'[e]) = {}
    <3>1. b # e
      BY <2>4, OpsApart
    <3>2. CASE b = c
      <4>1. e # c /\ clerks[e].op \in Enrols /\ About(clerks'[e]) = About(clerks[e])
        BY <1>5, <1>6, <1>7, <2>4, <3>1, <3>2
      <4>2. \A p \in P : ~Enrolling(p)
        BY <1>3, <1>7, <2>4, <3>2
      <4>3. \A p \in P : p \notin About(clerks[e])
        BY <4>1, <4>2, ConcernedIsAbout DEF Enrolling
      <4> QED BY <1>4, <1>7, <3>2, <4>1, <4>3
    <3>3. CASE e = c
      <4>1. op \in Enrols /\ About(clerks'[e]) = P
        BY <1>3, <1>4, <1>7, <2>4, <3>3
      <4>2. About(clerks'[b]) = About(clerks[b]) /\ About(clerks[b]) \cap P = {}
        BY <1>5, <1>6, <1>7, <2>4, <3>1, <3>3, <4>1
      <4> QED BY <4>1, <4>2
    <3>4. CASE b # c /\ e # c
      <4>1. /\ clerks[b].op \in Removes /\ clerks[b].alone /\ clerks[e].op \in Enrols
            /\ About(clerks'[b]) = About(clerks[b]) /\ About(clerks'[e]) = About(clerks[e])
        BY <1>5, <1>6, <1>7, <2>4, <3>4
      <4> QED BY <4>1 DEF FaceIInv, Forgotten
    <3> QED BY <3>2, <3>3, <3>4
  <2> QED BY <2>2, <2>3, <2>4 DEF Forgotten, About
<1>12. Apart'
  <2> SUFFICES ASSUME ~mixed'
               PROVE  /\ \A b, e \in Clerks : b # e => About(clerks'[b]) \cap About(clerks'[e]) = {}
                      /\ \A b \in Clerks : Midway(clerks[b])'
                      /\ \A p \in Persons : (\E b \in Clerks : p \in About(clerks'[b])) \/ Agrees(p)'
    BY DEF Apart, About
  <2>1. ~mixed /\ \A p \in P : ~Meets(c, p)
    BY <1>1
  <2>2. \A e \in Clerks \ {c} : About(clerks[e]) \cap P = {}
    BY <2>1, ConcernedIsAbout DEF Meets
  <2>3. /\ \A b, e \in Clerks : b # e => About(clerks[b]) \cap About(clerks[e]) = {}
        /\ \A b \in Clerks : Midway(clerks[b])
        /\ \A p \in Persons : (\E b \in Clerks : p \in About(clerks[b])) \/ Agrees(p)
    BY <2>1 DEF FaceIInv, Apart
  <2>4. \A p \in P : Agrees(p)
    BY <1>2, <2>2, <2>3, NoClerkTyped
  <2>5. ASSUME NEW b \in Clerks, NEW q \in ClerkRecords, q = clerks'[b] PROVE Midway(q)'
    <3>1. Midway(q)
      <4>1. CASE b = c
        BY <1>3, <1>4, <1>7, <2>4, <2>5, <4>1, FaceAssumption DEF Midway
      <4>2. CASE b # c
        BY <1>5, <1>6, <1>7, <2>3, <2>5, <4>2 DEF Midway
      <4> QED BY <4>1, <4>2
    <3> QED BY <1>1, <3>1 DEF Midway, Agrees
  <2>6. \A b \in Clerks : Midway(clerks[b])'
    BY <1>8, <2>5 DEF Midway, Agrees
  <2>7. \A p \in Persons : (\E b \in Clerks : p \in About(clerks'[b])) \/ Agrees(p)
    BY <1>2, <1>6, <1>7, <2>3, NoClerkTyped
  <2>8. \A p \in Persons : (\E b \in Clerks : p \in About(clerks'[b])) \/ Agrees(p)'
    BY <1>1, <2>7 DEF Agrees
  <2>9. \A b, e \in Clerks : b # e => About(clerks'[b]) \cap About(clerks'[e]) = {}
    BY <1>4, <1>6, <1>7, <2>2, <2>3
  <2> QED BY <2>6, <2>8, <2>9
<1>13. \A b \in Clerks : ClerkFits(clerks[b])'
  BY <1>8, <1>10 DEF ClerkFits
<1> QED BY <1>8, <1>9, <1>11, <1>12, <1>13 DEF FaceIInv

LEMMA ReadPersonKeeps ==
  ASSUME FaceIInv, NEW c \in Clerks, NEW p \in Persons, ReadPerson(c, p)
  PROVE  FaceIInv'
<1>1. PICK old \in ClerkRecords : old = clerks[c]
  BY FaceTypes
<1>w. PICK w \in BOOLEAN : w = (p \in enrolled)
  BY (p \in enrolled) \in BOOLEAN, Zenon
<1>2. PICK k : k = [old EXCEPT !.left = @ \ {p}, !.who = p, !.was = w]
  OBVIOUS
<1>3. /\ old.stage = "read" /\ old.who = Nil /\ p \in old.left
      /\ UNCHANGED <<employed, enrolled, vectors, faceRows, lastFace, faceAsks, blank, settled, mixed>>
  BY <1>1 DEF ReadPerson
<1>c. clerks' = [clerks EXCEPT ![c] = k]
  <2>1. clerks' = [clerks EXCEPT ![c] =
                      [clerks[c] EXCEPT !.left = @ \ {p}, !.who = p, !.was = p \in enrolled]]
    BY DEF ReadPerson
  <2>2. [clerks[c] EXCEPT !.left = @ \ {p}, !.who = p, !.was = p \in enrolled] = k
    BY <1>1, <1>2, <1>w, Zenon
  <2> QED BY <2>1, <2>2, Zenon
<1>4. /\ k \in ClerkRecords /\ k.left = old.left \ {p} /\ k.who = p /\ k.was = (p \in enrolled)
      /\ k.op = old.op /\ k.stage = old.stage /\ k.rows = old.rows /\ k.flagged = old.flagged
      /\ k.alone = old.alone
  <2>1. k.left = old.left \ {p} /\ k.who = p /\ k.was = w
        /\ k.op = old.op /\ k.stage = old.stage /\ k.rows = old.rows /\ k.flagged = old.flagged
        /\ k.alone = old.alone
    BY <1>2 DEF ClerkRecords
  <2>2. k \in ClerkRecords
    BY <1>2 DEF ClerkRecords
  <2> QED BY <1>w, <2>1, <2>2
<1>5. p # Nil
  BY FaceTypes
<1>6. About(k) = About(old) /\ Added(k) = Added(old)
  BY <1>3, <1>4, <1>5 DEF About, Added
<1>7. ClerkFits(k)
  <2>1. ClerkFits(old)
    BY <1>1 DEF FaceIInv
  <2> QED BY <1>3, <1>4, <2>1 DEF ClerkFits
<1>8. ~mixed => Midway(k)
  <2>1. ~mixed => Midway(old)
    BY <1>1 DEF FaceIInv, Apart
  <2> QED BY <1>3, <1>4, <1>5, <1>6, <2>1 DEF Midway
<1>9. employed' \subseteq Persons /\ mixed' \in BOOLEAN
  BY <1>3, FaceTypes
<1> QED BY <1>1, <1>3, <1>c, <1>4, <1>6, <1>7, <1>8, <1>9, QuietKeeps

LEMMA GoOnParts ==
  ASSUME NEW k \in ClerkRecords, NEW g, g = GoOn(k)
  PROVE  /\ g \in ClerkRecords /\ g.who = Nil
         /\ g.stage = (IF k.left = {} THEN "touched" ELSE "read")
         /\ g.op = k.op /\ g.left = k.left /\ g.was = k.was /\ g.rows = k.rows
         /\ g.flagged = k.flagged /\ g.alone = k.alone /\ g.cleared = k.cleared
         /\ Added(g) = Added(k) /\ About(g) = k.left \cup Added(k)
<1>1. /\ g.who = Nil /\ g.stage = (IF k.left = {} THEN "touched" ELSE "read")
      /\ g.op = k.op /\ g.left = k.left /\ g.was = k.was /\ g.rows = k.rows
      /\ g.flagged = k.flagged /\ g.alone = k.alone /\ g.cleared = k.cleared
  BY DEF GoOn, ClerkRecords
<1>2. g \in ClerkRecords
  BY DEF GoOn, ClerkRecords
<1>3. Added(g) = Added(k) /\ About(g) = k.left \cup Added(k)
  BY <1>1 DEF Added, About
<1> QED BY <1>1, <1>2, <1>3

\* What a request whose employee is read knows.
LEMMA ReadKnows ==
  ASSUME FaceIInv, NEW c \in Clerks, NEW k \in ClerkRecords, k = clerks[c],
         k.stage = "read", k.who # Nil
  PROVE  /\ ClerkFits(k) /\ k.who \in Persons /\ k.who \in About(k)
         /\ About(k) = k.left \cup Added(k) \cup {k.who}
         /\ k.op \notin Enrols => Added(k) = {}
         /\ ~mixed => /\ Midway(k) /\ Agrees(k.who) /\ \A p \in k.left : Agrees(p)
<1>1. ClerkFits(k) /\ (~mixed => Midway(k))
  BY DEF FaceIInv, Apart
<1>2. k.who \in Persons
  BY DEF ClerkRecords
<1>3. About(k) = k.left \cup Added(k) \cup {k.who}
  BY DEF About, Added
<1>4. k.op \notin Enrols => Added(k) = {}
  BY <1>1 DEF ClerkFits, Added
<1>5. ~mixed => Agrees(k.who) /\ \A p \in k.left : Agrees(p)
  BY <1>1 DEF Midway
<1> QED BY <1>1, <1>2, <1>3, <1>4, <1>5

LEMMA FacesRejectedKeeps ==
  ASSUME FaceIInv, NEW c \in Clerks, FacesRejected(c)
  PROVE  FaceIInv'
<1>1. PICK old \in ClerkRecords : old = clerks[c]
  BY FaceTypes
<1>2. PICK k : k = GoOn(old)
  OBVIOUS
<1>3. /\ old.stage = "read" /\ old.who # Nil /\ old.op \in Enrols
      /\ clerks' = [clerks EXCEPT ![c] = k]
      /\ UNCHANGED <<employed, enrolled, vectors, faceRows, lastFace, faceAsks, blank, settled, mixed>>
  BY <1>1, <1>2 DEF FacesRejected, Judging, Reading
<1>4. /\ k \in ClerkRecords /\ k.who = Nil
      /\ k.stage = (IF old.left = {} THEN "touched" ELSE "read")
      /\ k.op = old.op /\ k.left = old.left /\ k.rows = old.rows
      /\ k.flagged = old.flagged /\ k.alone = old.alone
      /\ Added(k) = Added(old) /\ About(k) = old.left \cup Added(old)
  BY <1>2, GoOnParts
<1>5. /\ About(old) = old.left \cup Added(old) \cup {old.who}
      /\ ~mixed => Midway(old) /\ Agrees(old.who)
  BY <1>1, <1>3, ReadKnows
<1>6. ClerkFits(k)
  BY <1>3, <1>4, OpsApart DEF ClerkFits
<1>7. ~mixed => Midway(k)
  <2>1. Nil \notin k.left \cup Added(k)
    BY <1>4, AboutPersons, FaceTypes
  <2> QED BY <1>4, <1>5, <2>1 DEF Midway
<1>8. ~mixed => \A p \in About(old) \ About(k) : Agrees(p)
  BY <1>4, <1>5
<1>9. employed' \subseteq Persons /\ mixed' \in BOOLEAN /\ (mixed => mixed')
  BY <1>3, FaceTypes
<1>10. About(k) \subseteq About(old)
  BY <1>4, <1>5
<1> QED BY <1>1, <1>3, <1>4, <1>6, <1>7, <1>8, <1>9, <1>10, QuietKeeps

LEMMA ActivateKeeps ==
  ASSUME FaceIInv, NEW c \in Clerks, Activate(c)
  PROVE  FaceIInv'
<1>1. PICK old \in ClerkRecords : old = clerks[c]
  BY FaceTypes
<1>2. /\ old.stage = "read" /\ old.who # Nil /\ old.op = "activate"
      /\ clerks' = [clerks EXCEPT ![c] = NoClerk]
      /\ employed' = employed \cup {old.who}
      /\ UNCHANGED <<enrolled, vectors, faceRows, lastFace, faceAsks, blank, settled, mixed>>
  BY <1>1 DEF Activate, Reading
<1>3. /\ About(old) = old.left \cup {old.who} /\ old.who \in Persons
      /\ ~mixed => Agrees(old.who) /\ \A p \in old.left : Agrees(p)
  BY <1>1, <1>2, ReadKnows, OpsApart
<1>4. ClerkFits(NoClerk) /\ Midway(NoClerk)
  BY NoClerkTyped, OpsApart, FaceAssumption DEF ClerkFits, Midway
<1>5. ~mixed => \A p \in About(old) \ About(NoClerk) : Agrees(p)
  BY <1>3
<1>6. employed' \subseteq Persons /\ mixed' \in BOOLEAN /\ (mixed => mixed')
  BY <1>2, <1>3, FaceTypes
<1> QED BY <1>1, <1>2, <1>4, <1>5, <1>6, NoClerkTyped, QuietKeeps

LEMMA ClerkFailsKeeps ==
  ASSUME FaceIInv, NEW c \in Clerks, ClerkFails(c)
  PROVE  FaceIInv'
<1>1. PICK old \in ClerkRecords : old = clerks[c]
  BY FaceTypes
<1>2. /\ old.stage # "none"
      /\ clerks' = [clerks EXCEPT ![c] = NoClerk]
      /\ mixed' = (mixed \/ old.stage = "touched" \/ old.rows # {})
      /\ UNCHANGED <<employed, enrolled, vectors, faceRows, lastFace, faceAsks, blank, settled>>
  BY <1>1 DEF ClerkFails
<1>3. ClerkFits(NoClerk) /\ Midway(NoClerk)
  BY NoClerkTyped, OpsApart, FaceAssumption DEF ClerkFits, Midway
<1>4. ASSUME ~mixed', NEW p \in About(old) PROVE Agrees(p)
  <2>1. old.stage = "read" /\ old.rows = {} /\ ~mixed
    BY <1>2, <1>4 DEF ClerkRecords
  <2>2. Midway(old)
    BY <1>1, <2>1 DEF FaceIInv, Apart
  <2>3. p \in old.left \/ (p = old.who /\ p # Nil)
    BY <1>4, <2>1 DEF About
  <2> QED BY <2>1, <2>2, <2>3 DEF Midway
<1>5. employed' \subseteq Persons /\ mixed' \in BOOLEAN /\ (mixed => mixed')
  BY <1>2, FaceTypes
<1> QED BY <1>1, <1>2, <1>3, <1>4, <1>5, NoClerkTyped, QuietKeeps

\* Removing all vectors of one employee leaves the others alone.
LEMMA ClearedUntouched ==
  ASSUME FaceIInv, NEW w \in Persons, vectors' = [vectors EXCEPT ![w] = {}]
  PROVE  /\ vectors' \in [Persons -> SUBSET (1..lastFace)] /\ vectors'[w] = {}
         /\ \A p \in Persons : vectors'[p] \subseteq vectors[p]
         /\ \A p \in Persons \ {w} : vectors'[p] = vectors[p]
BY FaceTypes

LEMMA ClearFirstKeeps ==
  ASSUME FaceIInv, NEW c \in Clerks, ClearFirst(c)
  PROVE  FaceIInv'
<1>1. PICK old \in ClerkRecords : old = clerks[c]
  BY FaceTypes
<1>2. PICK k : k = [old EXCEPT !.cleared = TRUE]
  OBVIOUS
<1>3. /\ old.stage = "read" /\ old.who # Nil /\ old.op = "re_enroll"
      /\ clerks' = [clerks EXCEPT ![c] = k]
      /\ vectors' = [vectors EXCEPT ![old.who] = {}] /\ blank' = blank \cup {old.who}
      /\ UNCHANGED <<employed, enrolled, faceRows, lastFace, faceAsks, settled, mixed>>
  BY <1>1, <1>2 DEF ClearFirst, Reading
<1>4. /\ k.who = old.who /\ k.stage = old.stage /\ k.was = old.was
      /\ k.op = old.op /\ k.left = old.left /\ k.rows = old.rows
      /\ k.flagged = old.flagged /\ k.alone = old.alone
  BY <1>2 DEF ClerkRecords
<1>5. k \in ClerkRecords
  BY <1>2 DEF ClerkRecords
<1>6. /\ About(old) = old.left \cup Added(old) \cup {old.who} /\ old.who \in Persons
      /\ ~mixed => Midway(old) /\ Agrees(old.who) /\ \A p \in old.left : Agrees(p)
  BY <1>1, <1>3, ReadKnows
<1>7. About(k) = About(old) /\ Added(k) = Added(old)
  BY <1>4 DEF About, Added
<1>8. old.op \in Enrols /\ old.op \notin Removes
  BY <1>3 DEF Enrols, Removes
<1>9. /\ vectors' \in [Persons -> SUBSET (1..lastFace)] /\ vectors'[old.who] = {}
      /\ \A p \in Persons : vectors'[p] \subseteq vectors[p]
      /\ \A p \in Persons \ {old.who} : vectors'[p] = vectors[p]
  BY <1>3, <1>6, ClearedUntouched
<1>10. FaceTypeOK' /\ clerks' \in [Clerks -> ClerkRecords]
  <2>1. k.rows \subseteq [id : 1..lastFace', who : Persons, active : {TRUE}]
    BY <1>1, <1>3, <1>4, FaceTypes
  <2>2. lastFace' \in lastFace..LastFaceId /\ mixed' \in BOOLEAN
    BY <1>3, FaceTypes
  <2>3. /\ employed' \subseteq Persons /\ enrolled' \subseteq Persons
        /\ vectors' \in [Persons -> SUBSET (1..lastFace')]
        /\ faceRows' \subseteq [id : 1..lastFace', who : Persons, active : BOOLEAN]
        /\ blank' \subseteq Persons /\ settled' \subseteq Persons
    BY <1>3, <1>6, <1>9, FaceTypes
  <2> QED BY <1>3, <1>5, <2>1, <2>2, <2>3, FaceTyped
<1>11. AddsItsOwn(c)
  BY <1>9 DEF AddsItsOwn
<1>12. \A b \in Clerks : ClerkFits(clerks[b])'
  <2>1. ClerkFits(k)'
    BY <1>3, <1>4, <1>8 DEF ClerkFits
  <2> QED BY <1>3, <1>5, <1>11, <2>1, FitsKeeps
<1>13. Forgotten'
  <2>1. settled' \subseteq Persons /\ \A p \in settled' : p \in settled
    BY <1>3, FaceTypes
  <2>2. About(k) \subseteq About(clerks[c]) /\ k.op = clerks[c].op /\ (k.alone => clerks[c].alone)
    BY <1>1, <1>4, <1>7
  <2> QED BY <1>3, <1>5, <1>11, <2>1, <2>2, ForgottenKeeps
<1>14. Apart'
  <2>1. \A p \in Persons \ {old.who} : Untouched(p)
    BY <1>3, <1>9 DEF Untouched
  <2>2. ASSUME ~mixed PROVE Midway(k)'
    <3>1. Midway(old) /\ Agrees(old.who)
      BY <1>6, <2>2
    <3>2. Agrees(old.who)'
      BY <1>3, <1>9 DEF Agrees
    <3>3. old.left \subseteq Persons \ {old.who} /\ Added(old) \subseteq Persons \ {old.who}
      BY <1>6, <3>1, AboutPersons DEF Midway
    <3>4. \A p \in old.left : Agrees(p)'
      BY <2>1, <3>1, <3>3, UntouchedAgrees DEF Midway
    <3>5. \A p \in Added(old) : vectors'[p] = vectors[p]
      BY <1>9, <3>3
    <3> HIDE DEF Agrees
    <3> QED BY <1>3, <1>4, <1>7, <1>8, <3>1, <3>2, <3>4, <3>5 DEF Midway
  <2>3. \A p \in Persons \ About(clerks[c]) : Untouched(p)
    BY <1>1, <1>6, <2>1
  <2> QED BY <1>1, <1>3, <1>5, <1>7, <2>2, <2>3, ApartKeeps
<1> QED BY <1>10, <1>12, <1>13, <1>14 DEF FaceIInv

LEMMA PurgeKeeps ==
  ASSUME FaceIInv, NEW c \in Clerks, Purge(c)
  PROVE  FaceIInv'
<1>1. PICK old \in ClerkRecords : old = clerks[c]
  BY FaceTypes
<1>2. PICK k : k = [old EXCEPT !.stage = "touched"]
  OBVIOUS
<1>3. /\ old.stage = "read" /\ old.who # Nil /\ old.op \in Removes
      /\ clerks' = [clerks EXCEPT ![c] = k]
      /\ vectors' = [vectors EXCEPT ![old.who] = {}]
      /\ UNCHANGED <<employed, enrolled, faceRows, lastFace, faceAsks, blank, settled, mixed>>
  BY <1>1, <1>2 DEF Purge, Reading
<1>4. /\ k.who = old.who /\ k.stage = "touched" /\ k.was = old.was
      /\ k.op = old.op /\ k.left = old.left /\ k.rows = old.rows
      /\ k.flagged = old.flagged /\ k.alone = old.alone
  BY <1>2 DEF ClerkRecords
<1>5. k \in ClerkRecords
  BY <1>2 DEF ClerkRecords
<1>6. /\ ClerkFits(old) /\ old.who \in Persons
      /\ About(old) = old.left \cup {old.who} /\ Added(old) = {}
      /\ ~mixed => Midway(old) /\ \A p \in old.left : Agrees(p)
  BY <1>1, <1>3, ReadKnows, OpsApart
<1>7. About(k) = About(old) /\ Added(k) = {}
  BY <1>4, <1>6 DEF About, Added
<1>8. old.op \notin Enrols
  BY <1>3, OpsApart
<1>9. /\ vectors' \in [Persons -> SUBSET (1..lastFace)] /\ vectors'[old.who] = {}
      /\ \A p \in Persons : vectors'[p] \subseteq vectors[p]
      /\ \A p \in Persons \ {old.who} : vectors'[p] = vectors[p]
  BY <1>3, <1>6, ClearedUntouched
<1>10. FaceTypeOK' /\ clerks' \in [Clerks -> ClerkRecords]
  <2>1. k.rows \subseteq [id : 1..lastFace', who : Persons, active : {TRUE}]
    BY <1>1, <1>3, <1>4, FaceTypes
  <2>2. lastFace' \in lastFace..LastFaceId /\ mixed' \in BOOLEAN
    BY <1>3, FaceTypes
  <2>3. /\ employed' \subseteq Persons /\ enrolled' \subseteq Persons
        /\ vectors' \in [Persons -> SUBSET (1..lastFace')]
        /\ faceRows' \subseteq [id : 1..lastFace', who : Persons, active : BOOLEAN]
        /\ blank' \subseteq Persons /\ settled' \subseteq Persons
    BY <1>3, <1>9, FaceTypes
  <2> QED BY <1>3, <1>5, <2>1, <2>2, <2>3, FaceTyped
<1>11. AddsItsOwn(c)
  BY <1>9 DEF AddsItsOwn
<1>12. \A b \in Clerks : ClerkFits(clerks[b])'
  <2>1. ClerkFits(k)'
    BY <1>3, <1>4, <1>6, <1>8, <1>9 DEF ClerkFits
  <2> QED BY <1>3, <1>5, <1>11, <2>1, FitsKeeps
<1>13. Forgotten'
  <2>1. settled' \subseteq Persons /\ \A p \in settled' : p \in settled
    BY <1>3, FaceTypes
  <2>2. About(k) \subseteq About(clerks[c]) /\ k.op = clerks[c].op /\ (k.alone => clerks[c].alone)
    BY <1>1, <1>4, <1>7
  <2> QED BY <1>3, <1>5, <1>11, <2>1, <2>2, ForgottenKeeps
<1>14. Apart'
  <2>1. \A p \in Persons \ {old.who} : Untouched(p)
    BY <1>3, <1>9 DEF Untouched
  <2>2. ASSUME ~mixed PROVE Midway(k)'
    <3>1. Midway(old)
      BY <1>6, <2>2
    <3>2. old.left \subseteq Persons \ {old.who}
      BY <3>1, AboutPersons DEF Midway, ClerkRecords
    <3>3. \A p \in old.left : Agrees(p)'
      BY <2>1, <3>1, <3>2, UntouchedAgrees DEF Midway
    <3>4. k.was = (k.who \in enrolled')
      BY <1>3, <1>4, <3>1 DEF Midway
    <3>5. k.flagged = {}
      BY <1>4, <1>6, <1>8 DEF ClerkFits
    <3>6. k.who \notin k.left
      BY <1>4, <3>2
    <3> HIDE DEF Agrees
    <3> QED BY <1>4, <1>7, <1>9, <3>3, <3>4, <3>5, <3>6 DEF Midway
  <2>3. \A p \in Persons \ About(clerks[c]) : Untouched(p)
    BY <1>1, <1>6, <2>1
  <2> QED BY <1>1, <1>3, <1>5, <1>7, <2>2, <2>3, ApartKeeps
<1> QED BY <1>10, <1>12, <1>13, <1>14 DEF FaceIInv

LEMMA CommitFacesKeeps ==
  ASSUME FaceIInv, NEW c \in Clerks, CommitFaces(c)
  PROVE  FaceIInv'
<1>1. PICK old \in ClerkRecords : old = clerks[c]
  BY FaceTypes
<1>2. /\ old.stage = "touched" /\ old.op \in Enrols
      /\ clerks' = [clerks EXCEPT ![c] = NoClerk]
      /\ faceRows' = faceRows \cup old.rows /\ enrolled' = enrolled \cup old.flagged
      /\ UNCHANGED <<employed, vectors, lastFace, faceAsks, blank, settled, mixed>>
  BY <1>1 DEF CommitFaces
<1>3. /\ old.who = Nil /\ About(old) = old.left \cup Added(old)
      /\ old.flagged \subseteq Persons
      /\ ~mixed => Midway(old)
  <2>1. old.who = Nil
    BY <1>1, <1>2, OpsApart DEF FaceIInv, ClerkFits
  <2>2. About(old) = old.left \cup Added(old)
    BY <2>1 DEF About, Added
  <2>3. old.flagged \subseteq Persons
    BY DEF ClerkRecords
  <2>4. ~mixed => Midway(old)
    BY <1>1 DEF FaceIInv, Apart
  <2> QED BY <2>1, <2>2, <2>3, <2>4
<1>4. FaceTypeOK' /\ clerks' \in [Clerks -> ClerkRecords]
  <2>1. old.rows \subseteq [id : 1..lastFace, who : Persons, active : {TRUE}]
    BY <1>1, FaceTypes
  <2>2. faceRows' \subseteq [id : 1..lastFace', who : Persons, active : BOOLEAN]
    <3>1. old.rows \subseteq [id : 1..lastFace, who : Persons, active : BOOLEAN]
      BY <2>1
    <3>2. faceRows \subseteq [id : 1..lastFace, who : Persons, active : BOOLEAN]
      BY FaceTypes
    <3> QED BY <1>2, <3>1, <3>2
  <2>3. /\ employed' \subseteq Persons /\ enrolled' \subseteq Persons
        /\ vectors' \in [Persons -> SUBSET (1..lastFace')]
        /\ blank' \subseteq Persons /\ settled' \subseteq Persons
        /\ lastFace' \in lastFace..LastFaceId /\ mixed' \in BOOLEAN
    BY <1>2, <1>3, FaceTypes
  <2> QED BY <1>2, <2>2, <2>3, NoClerkTyped, FaceTyped
<1>5. AddsItsOwn(c)
  BY <1>2 DEF AddsItsOwn
<1>6. \A b \in Clerks : ClerkFits(clerks[b])'
  <2>1. ClerkFits(NoClerk)'
    BY NoClerkTyped, OpsApart DEF ClerkFits
  <2> QED BY <1>2, <1>5, <2>1, NoClerkTyped, FitsKeeps
<1>7. Forgotten'
  <2>1. settled' \subseteq Persons /\ \A p \in settled' : p \in settled
    BY <1>2, FaceTypes
  <2> QED BY <1>2, <1>5, <2>1, NoClerkTyped, ForgottenKeeps
<1>8. Apart'
  <2> SUFFICES ASSUME ~mixed PROVE Apart'
    BY <1>2 DEF Apart
  <2>1. Midway(old)
    BY <1>3
  <2>2. \A p \in Persons \ Added(old) : Untouched(p)
    BY <1>2, <2>1 DEF Untouched, Midway
  <2>3. \A p \in old.left : Agrees(p)'
    <3>1. old.left \subseteq Persons \ Added(old)
      BY <2>1 DEF Midway, ClerkRecords
    <3> QED BY <2>1, <2>2, <3>1, UntouchedAgrees DEF Midway
  <2>4. ASSUME NEW p \in Added(old) PROVE Agrees(p)'
    <3>1. /\ vectors'[p] # {} /\ p \in enrolled'
          /\ \A i \in vectors'[p] : RowOf(i, p) \in faceRows'
      BY <1>2, <2>1 DEF Midway
    <3> QED BY <3>1 DEF Agrees
  <2>5. \A p \in About(clerks[c]) \ About(NoClerk) : Agrees(p)'
    BY <1>1, <1>3, <2>3, <2>4
  <2>6. \A p \in Persons \ About(clerks[c]) : Untouched(p)
    BY <1>1, <1>3, <2>2
  <2>7. Midway(NoClerk)'
    BY NoClerkTyped, FaceAssumption DEF Midway
  <2> QED BY <1>2, <2>5, <2>6, <2>7, NoClerkTyped, ApartKeeps
<1> QED BY <1>4, <1>6, <1>7, <1>8 DEF FaceIInv

LEMMA CommitRemovalKeeps ==
  ASSUME FaceIInv, NEW c \in Clerks, CommitRemoval(c)
  PROVE  FaceIInv'
<1>1. PICK old \in ClerkRecords : old = clerks[c]
  BY FaceTypes
<1>2. /\ old.stage = "touched" /\ old.op \in Removes
      /\ clerks' = [clerks EXCEPT ![c] = NoClerk]
      /\ enrolled' = IF old.was THEN enrolled \ {old.who} ELSE enrolled
      /\ faceRows' = IF old.op = "delete_enrollment"
                     THEN {[r EXCEPT !.active = @ /\ r.who # old.who] : r \in faceRows}
                     ELSE faceRows
      /\ employed' = IF old.op = "delete_enrollment" THEN employed ELSE employed \ {old.who}
      /\ settled' = IF old.alone THEN settled \cup {old.who} ELSE settled
      /\ blank' = blank \ {old.who}
      /\ UNCHANGED <<vectors, lastFace, faceAsks, mixed>>
  BY <1>1 DEF CommitRemoval, Unflagged
<1>3. /\ ClerkFits(old) /\ old.who # Nil /\ old.who \in Persons /\ old.who \in About(old)
      /\ old.alone => vectors[old.who] = {}
      /\ About(old) = old.left \cup {old.who} /\ Added(old) = {}
      /\ ~mixed => Midway(old)
  <2>1. ClerkFits(old) /\ (~mixed => Midway(old))
    BY <1>1 DEF FaceIInv, Apart
  <2>2. old.who # Nil /\ old.rows = {} /\ (old.alone => vectors[old.who] = {})
    BY <1>2, <2>1, OpsApart DEF ClerkFits
  <2>3. old.who \in Persons
    BY <2>2 DEF ClerkRecords
  <2> QED BY <2>1, <2>2, <2>3 DEF About, Added
<1>4. FaceTypeOK' /\ clerks' \in [Clerks -> ClerkRecords]
  <2>1. faceRows' \subseteq [id : 1..lastFace', who : Persons, active : BOOLEAN]
    <3>1. faceRows \subseteq [id : 1..lastFace, who : Persons, active : BOOLEAN]
      BY FaceTypes
    <3>2. \A r \in faceRows : [r EXCEPT !.active = @ /\ r.who # old.who]
                                 \in [id : 1..lastFace, who : Persons, active : BOOLEAN]
      BY <3>1
    <3> QED BY <1>2, <3>1, <3>2
  <2>2. /\ employed' \subseteq Persons /\ enrolled' \subseteq Persons
        /\ vectors' \in [Persons -> SUBSET (1..lastFace')]
        /\ blank' \subseteq Persons /\ settled' \subseteq Persons
        /\ lastFace' \in lastFace..LastFaceId /\ mixed' \in BOOLEAN
    BY <1>2, <1>3, FaceTypes
  <2> QED BY <1>2, <2>1, <2>2, NoClerkTyped, FaceTyped
<1>5. AddsItsOwn(c)
  BY <1>2 DEF AddsItsOwn
<1>6. \A b \in Clerks : ClerkFits(clerks[b])'
  <2>1. ClerkFits(NoClerk)'
    BY NoClerkTyped, OpsApart DEF ClerkFits
  <2> QED BY <1>2, <1>5, <2>1, NoClerkTyped, FitsKeeps
<1>7. Forgotten'
  <2>1. settled' \subseteq Persons
    BY <1>2, <1>3, FaceTypes
  <2>2. \A p \in settled' :
            \/ p \in settled
            \/ /\ clerks[c].op \in Removes /\ clerks[c].alone /\ p \in About(clerks[c])
               /\ vectors'[p] = {} /\ NoClerk = NoClerk
    BY <1>1, <1>2, <1>3
  <2> QED BY <1>2, <1>5, <2>1, <2>2, NoClerkTyped, ForgottenKeeps
<1>8. Apart'
  <2> SUFFICES ASSUME ~mixed PROVE Apart'
    BY <1>2 DEF Apart
  <2>1. Midway(old)
    BY <1>3
  <2>2. ASSUME NEW p \in Persons \ {old.who}, NEW i, RowOf(i, p) \in faceRows
        PROVE  RowOf(i, p) \in faceRows'
    <3>1. [RowOf(i, p) EXCEPT !.active = @ /\ RowOf(i, p).who # old.who] = RowOf(i, p)
      BY DEF RowOf
    <3> QED BY <1>2, <2>2, <3>1
  <2>3. \A p \in Persons \ {old.who} : Untouched(p)
    BY <1>2, <2>2 DEF Untouched
  <2>4. \A p \in old.left : Agrees(p)'
    <3>1. old.left \subseteq Persons \ {old.who}
      BY <2>1 DEF Midway, ClerkRecords
    <3> QED BY <2>1, <2>3, <3>1, UntouchedAgrees DEF Midway
  <2>5. Agrees(old.who)'
    <3>1. vectors'[old.who] = {} /\ old.was = (old.who \in enrolled)
      BY <1>2, <1>3, <2>1 DEF Midway
    <3>2. old.who \notin enrolled'
      BY <1>2, <3>1
    <3> QED BY <3>1, <3>2 DEF Agrees
  <2>6. \A p \in About(clerks[c]) \ About(NoClerk) : Agrees(p)'
    BY <1>1, <1>3, <2>4, <2>5
  <2>7. \A p \in Persons \ About(clerks[c]) : Untouched(p)
    BY <1>1, <1>3, <2>3
  <2>8. Midway(NoClerk)'
    BY NoClerkTyped, FaceAssumption DEF Midway
  <2> QED BY <1>2, <2>6, <2>7, <2>8, NoClerkTyped, ApartKeeps
<1> QED BY <1>4, <1>6, <1>7, <1>8 DEF FaceIInv

\* The images of a request that pass are finitely many.
LEMMA TakenFinite ==
  ASSUME NEW op, NEW g \in Galleries
  PROVE  Cardinality(Taken(op, g)) \in Nat
<1>1. IsFiniteSet(g)
  BY FaceAssumption
<1>2. Taken(op, g) \subseteq g
  BY DEF Taken, SingleTaken, SimpleTaken, BatchTaken, StructuredTaken, FullTaken
<1>3. IsFiniteSet(Taken(op, g))
  BY <1>1, <1>2, FS_Subset
<1> QED BY <1>3, FS_CardinalityType

LEMMA RowTyped ==
  ASSUME NEW S, NEW i \in S, NEW p \in Persons
  PROVE  RowOf(i, p) \in [id : S, who : Persons, active : {TRUE}]
BY Zenon DEF RowOf

LEMMA FacesPassKeeps ==
  ASSUME FaceIInv, NEW c \in Clerks, NEW n \in Nat, FacesPass(c, n)
  PROVE  FaceIInv'
<1>1. PICK old \in ClerkRecords : old = clerks[c]
  BY FaceTypes
<1>2. PICK ids : ids = lastFace + 1..lastFace + n
  OBVIOUS
<1>3. PICK new : new = {RowOf(i, old.who) : i \in ids}
  OBVIOUS
<1>4. PICK flags : flags = IF old.was THEN old.flagged ELSE old.flagged \cup {old.who}
  OBVIOUS
<1>5. PICK mid : mid = [old EXCEPT !.rows = @ \cup new, !.flagged = flags]
  OBVIOUS
<1>6. PICK k : k = GoOn(mid)
  OBVIOUS
<1>7. /\ old.stage = "read" /\ old.who # Nil /\ old.op \in Enrols
      /\ n > 0 /\ lastFace + n <= LastFaceId /\ lastFace' = lastFace + n
      /\ vectors' = [vectors EXCEPT ![old.who] = @ \cup ids]
      /\ blank' = blank \ {old.who}
      /\ UNCHANGED <<employed, enrolled, faceRows, faceAsks, settled, mixed>>
  BY <1>1, <1>2 DEF FacesPass, Judging, Reading
<1>8. clerks' = [clerks EXCEPT ![c] = k]
  <2>1. clerks' = [clerks EXCEPT ![c] =
          GoOn([old EXCEPT !.rows = @ \cup {[id |-> i, who |-> old.who, active |-> TRUE] : i \in ids},
                           !.flagged = IF old.was THEN @ ELSE @ \cup {old.who}])]
    BY <1>1, <1>2, Zenon DEF FacesPass
  <2>2. [old EXCEPT !.rows = @ \cup {[id |-> i, who |-> old.who, active |-> TRUE] : i \in ids},
                    !.flagged = IF old.was THEN @ ELSE @ \cup {old.who}] = mid
    BY <1>3, <1>4, <1>5 DEF RowOf
  <2> QED BY <1>6, <2>1, <2>2, Zenon
<1>9. /\ About(old) = old.left \cup Added(old) \cup {old.who} /\ old.who \in Persons
      /\ ~mixed => Midway(old) /\ Agrees(old.who) /\ \A p \in old.left : Agrees(p)
  BY <1>1, <1>7, ReadKnows
<1>10. ids # {} /\ ids \subseteq 1..lastFace' /\ 1..lastFace \subseteq 1..lastFace' /\ ids \subseteq Nat
  <2>1. lastFace + 1 \in ids
    BY <1>2, <1>7, FaceTypes
  <2> QED BY <1>2, <1>7, <2>1, FaceTypes
<1>11. /\ new \subseteq [id : 1..lastFace', who : Persons, active : {TRUE}]
       /\ new \subseteq [id : Nat, who : Persons, active : {TRUE}]
       /\ {r.who : r \in new} = {old.who}
  <2>1. \A r \in new : \E i \in ids : r = RowOf(i, old.who)
    BY <1>3
  <2>2. /\ new \subseteq [id : 1..lastFace', who : Persons, active : {TRUE}]
        /\ new \subseteq [id : Nat, who : Persons, active : {TRUE}]
    <3>1. ASSUME NEW r \in new
          PROVE  /\ r \in [id : 1..lastFace', who : Persons, active : {TRUE}]
                 /\ r \in [id : Nat, who : Persons, active : {TRUE}]
      <4>1. PICK i \in ids : r = RowOf(i, old.who)
        BY <2>1
      <4>2. i \in 1..lastFace' /\ i \in Nat
        BY <1>10
      <4>3. PICK S : S = 1..lastFace'
        OBVIOUS
      <4>4. i \in S
        BY <4>2, <4>3
      <4>5. RowOf(i, old.who) \in [id : S, who : Persons, active : {TRUE}]
        BY <1>9, <4>4, RowTyped
      <4>6. RowOf(i, old.who) \in [id : Nat, who : Persons, active : {TRUE}]
        BY <1>9, <4>2, RowTyped
      <4> QED BY <4>1, <4>3, <4>5, <4>6, Zenon
    <3> QED BY <3>1
  <2>3. \A r \in new : r.who = old.who
    BY <2>1 DEF RowOf
  <2>4. new # {}
    BY <1>3, <1>10
  <2>5. {r.who : r \in new} = {old.who}
    BY <2>3, <2>4
  <2> QED BY <2>2, <2>5
<1>12. /\ mid.rows = old.rows \cup new /\ mid.flagged = flags /\ mid.who = old.who
       /\ mid.op = old.op /\ mid.left = old.left /\ mid.alone = old.alone
  BY <1>5 DEF ClerkRecords
<1>13. flags \subseteq Persons
  BY <1>4, <1>9 DEF ClerkRecords
<1>14. mid \in ClerkRecords
  <2>1. old.rows \cup new \subseteq [id : Nat, who : Persons, active : {TRUE}]
    BY <1>11 DEF ClerkRecords
  <2> QED BY <1>5, <1>13, <2>1 DEF ClerkRecords
<1>15. Added(mid) = Added(old) \cup {old.who}
  BY <1>11, <1>12 DEF Added
<1>16. /\ k \in ClerkRecords /\ k.who = Nil
       /\ k.stage = (IF old.left = {} THEN "touched" ELSE "read")
       /\ k.op = old.op /\ k.left = old.left /\ k.rows = old.rows \cup new
       /\ k.flagged = flags /\ k.alone = old.alone
       /\ Added(k) = Added(old) \cup {old.who} /\ About(k) = About(old)
  BY <1>6, <1>9, <1>12, <1>14, <1>15, GoOnParts
<1>17. /\ vectors' \in [Persons -> SUBSET (1..lastFace')]
       /\ vectors'[old.who] = vectors[old.who] \cup ids
       /\ \A p \in Persons \ {old.who} : vectors'[p] = vectors[p]
  BY <1>7, <1>9, <1>10, FaceTypes
<1>18. FaceTypeOK' /\ clerks' \in [Clerks -> ClerkRecords]
  <2>1. k.rows \subseteq [id : 1..lastFace', who : Persons, active : {TRUE}]
    <3>1. old.rows \subseteq [id : 1..lastFace, who : Persons, active : {TRUE}]
      BY <1>1, FaceTypes
    <3> QED BY <1>10, <1>11, <1>16, <3>1
  <2>2. faceRows' \subseteq [id : 1..lastFace', who : Persons, active : BOOLEAN]
    <3>1. faceRows \subseteq [id : 1..lastFace, who : Persons, active : BOOLEAN]
      BY FaceTypes
    <3> QED BY <1>7, <1>10, <3>1
  <2>3. lastFace' \in lastFace..LastFaceId
    BY <1>7, FaceTypes
  <2>4. /\ employed' \subseteq Persons /\ enrolled' \subseteq Persons
        /\ blank' \subseteq Persons /\ settled' \subseteq Persons /\ mixed' \in BOOLEAN
    BY <1>7, FaceTypes
  <2> QED BY <1>7, <1>8, <1>16, <1>17, <2>1, <2>2, <2>3, <2>4, FaceTyped
<1>19. AddsItsOwn(c)
  BY <1>1, <1>7, <1>9, <1>17 DEF AddsItsOwn
<1>20. \A b \in Clerks : ClerkFits(clerks[b])'
  <2>1. ClerkFits(k)'
    BY <1>7, <1>16, OpsApart DEF ClerkFits
  <2> QED BY <1>8, <1>16, <1>19, <2>1, FitsKeeps
<1>21. Forgotten'
  <2>1. settled' \subseteq Persons /\ \A p \in settled' : p \in settled
    BY <1>7, FaceTypes
  <2>2. About(k) \subseteq About(clerks[c]) /\ k.op = clerks[c].op /\ (k.alone => clerks[c].alone)
    BY <1>1, <1>16
  <2> QED BY <1>8, <1>16, <1>19, <2>1, <2>2, ForgottenKeeps
<1>22. Apart'
  <2> SUFFICES ASSUME ~mixed PROVE Apart'
    BY <1>7 DEF Apart
  <2>1. Midway(old) /\ Agrees(old.who)
    BY <1>9
  <2>2. \A p \in Persons \ {old.who} : Untouched(p)
    BY <1>7, <1>17 DEF Untouched
  <2>3. /\ old.left \subseteq Persons \ {old.who} /\ Added(old) \subseteq Persons \ {old.who}
        /\ old.left \cap Added(old) = {}
    BY <1>9, <2>1, AboutPersons DEF Midway
  <2>4. \A p \in old.left : Agrees(p)'
    BY <2>1, <2>2, <2>3, UntouchedAgrees DEF Midway
  <2>5. ASSUME NEW p \in Added(old)
        PROVE  /\ vectors'[p] # {} /\ p \in enrolled' \cup k.flagged
               /\ \A i \in vectors'[p] : RowOf(i, p) \in faceRows' \cup k.rows
    BY <1>4, <1>7, <1>16, <1>17, <2>1, <2>3, <2>5 DEF Midway
  <2>6. vectors'[old.who] # {} /\ old.who \in enrolled' \cup k.flagged
    <3>1. vectors'[old.who] # {}
      BY <1>10, <1>17
    <3>2. old.was = (old.who \in enrolled)
      BY <1>7, <2>1 DEF Midway
    <3>3. enrolled' = enrolled /\ k.flagged = flags
      BY <1>7, <1>16
    <3> QED BY <1>4, <3>1, <3>2, <3>3
  <2>7. \A i \in vectors'[old.who] : RowOf(i, old.who) \in faceRows' \cup k.rows
    BY <1>3, <1>7, <1>16, <1>17, <2>1 DEF Agrees
  <2>8. k.flagged \subseteq Added(k)
    BY <1>4, <1>16, <2>1 DEF Midway
  <2>9. Nil \notin k.left \cup Added(k) /\ k.left \cap Added(k) = {}
    BY <1>9, <1>16, <2>3, FaceTypes
  <2>10. Midway(k)'
    <3> HIDE DEF Agrees
    <3> QED BY <1>16, <2>4, <2>5, <2>6, <2>7, <2>8, <2>9 DEF Midway
  <2>11. \A p \in Persons \ About(clerks[c]) : Untouched(p)
    BY <1>1, <1>9, <2>2
  <2> QED BY <1>1, <1>7, <1>8, <1>16, <2>10, <2>11, ApartKeeps
<1> QED BY <1>18, <1>20, <1>21, <1>22 DEF FaceIInv

LEMMA FaceStutterKeeps ==
  ASSUME FaceIInv, UNCHANGED faceVars PROVE FaceIInv'
<1>1. UNCHANGED <<employed, enrolled, vectors, faceRows, lastFace, clerks, faceAsks,
                  blank, settled, mixed>>
  BY DEF faceVars
<1>2. FaceTypeOK' /\ clerks' \in [Clerks -> ClerkRecords]
  BY <1>1 DEF FaceIInv, FaceTypeOK
<1>3. (\A c \in Clerks : ClerkFits(clerks[c])') /\ Forgotten'
  BY <1>1 DEF FaceIInv, ClerkFits, Forgotten
<1>4. Apart'
  <2>1. \A p : Agrees(p)' <=> Agrees(p)
    BY <1>1 DEF Agrees
  <2>2. \A c \in Clerks : Midway(clerks[c])' <=> Midway(clerks[c])
    BY <1>1 DEF Midway, Agrees
  <2> HIDE DEF Agrees, Midway
  <2> QED BY <1>1, <2>1, <2>2 DEF FaceIInv, Apart
<1> QED BY <1>2, <1>3, <1>4 DEF FaceIInv

LEMMA FaceNextKeeps ==
  ASSUME FaceIInv, FaceNext PROVE FaceIInv'
<1>1. PICK c \in Clerks :
        \/ \E p \in Persons :
              \/ EnrollFaceSingle(c, p) \/ EnrollFaceSimple(c, p) \/ EnrollFaceBatch(c, p)
              \/ EnrollFaceStructured(c, p) \/ EnrollFaceFull(c, p) \/ ReEnrollFace(c, p)
              \/ DeleteFaceEnrollment(c, p) \/ DeactivateEmployee(c, p)
              \/ EraseEmployeeData(c, p) \/ ActivateEmployee(c, p)
              \/ ReadPerson(c, p)
        \/ \E P \in (SUBSET Persons) \ {{}} : BulkEnroll(c, P)
        \/ \E g \in Galleries : FacesPass(c, Cardinality(Taken(clerks[c].op, g)))
        \/ ClearFirst(c) \/ FacesRejected(c) \/ Purge(c)
        \/ CommitFaces(c) \/ CommitRemoval(c) \/ Activate(c) \/ ClerkFails(c)
  BY DEF FaceNext
<1>2. CASE \E p \in Persons :
              \/ EnrollFaceSingle(c, p) \/ EnrollFaceSimple(c, p) \/ EnrollFaceBatch(c, p)
              \/ EnrollFaceStructured(c, p) \/ EnrollFaceFull(c, p) \/ ReEnrollFace(c, p)
              \/ DeleteFaceEnrollment(c, p) \/ DeactivateEmployee(c, p)
              \/ EraseEmployeeData(c, p) \/ ActivateEmployee(c, p)
  <2>1. PICK p \in Persons, op \in Enrols \cup Removes \cup {"activate"} : AskClerk(c, op, {p})
    <3>1. /\ {"single", "simple", "batch", "structured", "full", "re_enroll"} \subseteq Enrols
          /\ {"delete_enrollment", "deactivate", "erase"} \subseteq Removes
      BY DEF Enrols, Removes
    <3> QED BY <1>2, <3>1
          DEF EnrollFaceSingle, EnrollFaceSimple, EnrollFaceBatch, EnrollFaceStructured,
              EnrollFaceFull, ReEnrollFace, DeleteFaceEnrollment, DeactivateEmployee,
              EraseEmployeeData, ActivateEmployee
  <2>2. {p} \in SUBSET Persons
    OBVIOUS
  <2> QED BY <2>1, <2>2, AskClerkKeeps
<1>3. CASE \E p \in Persons : ReadPerson(c, p)
  BY <1>3, ReadPersonKeeps
<1>4. CASE \E P \in (SUBSET Persons) \ {{}} : BulkEnroll(c, P)
  <2>1. "bulk" \in Enrols \cup Removes \cup {"activate"}
    BY DEF Enrols
  <2> QED BY <1>4, <2>1, AskClerkKeeps DEF BulkEnroll
<1>5. CASE \E g \in Galleries : FacesPass(c, Cardinality(Taken(clerks[c].op, g)))
  BY <1>5, TakenFinite, FacesPassKeeps
<1>6. CASE ClearFirst(c) \/ FacesRejected(c) \/ Purge(c)
  BY <1>6, ClearFirstKeeps, FacesRejectedKeeps, PurgeKeeps
<1>7. CASE CommitFaces(c) \/ CommitRemoval(c) \/ Activate(c) \/ ClerkFails(c)
  BY <1>7, CommitFacesKeeps, CommitRemovalKeeps, ActivateKeeps, ClerkFailsKeeps
<1> QED BY <1>1, <1>2, <1>3, <1>4, <1>5, <1>6, <1>7

\* The invariant holds of every behaviour of the handlers of enrollment.py, employees.py
\* and privacy.py, whatever the images, the employees and the number of sessions.
THEOREM FacesInductive == FaceSpec => []FaceIInv
<1>1. FaceInit => FaceIInv
  BY FaceInitKeeps
<1>2. FaceIInv /\ [FaceNext]_faceVars => FaceIInv'
  BY FaceNextKeeps, FaceStutterKeeps
<1> QED BY <1>1, <1>2, PTL DEF FaceSpec

\* face_enrolled tells who can be matched and every vector has its active row, as long as
\* no two handlers of an employee overlapped and none failed half-way.
THEOREM FlagTells == FaceSpec => []FlagTellsIndex
<1>1. FaceIInv => FlagTellsIndex
  <2> SUFFICES ASSUME FaceIInv, ~mixed, NEW p \in Persons, \A c \in Clerks : p \notin Concerned(c)
               PROVE  Agrees(p)
    BY DEF FlagTellsIndex, Agrees, RowOf
  <2> QED BY ConcernedIsAbout DEF FaceIInv, Apart
<1> QED BY <1>1, FacesInductive, PTL

\* Whoever was deleted, deactivated or erased with no enrolment under way has no vector
\* until somebody enrols them, through failures and overlapping removals
\* (delete_face_enrollment, delete_employee, erase_employee_data).
THEOREM ForgottenStay == FaceSpec => []ForgottenStayForgotten
<1>1. FaceIInv => ForgottenStayForgotten
  BY DEF FaceIInv, Forgotten, ForgottenStayForgotten
<1> QED BY <1>1, FacesInductive, PTL
=============================================================================
