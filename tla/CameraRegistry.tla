---------------------------- MODULE CameraRegistry ----------------------------
(***************************************************************************)
(* The cameras and the streams the engine holds for them: services         *)
(* /camera_service.py, /streams/add and /start of api/engine.py, the sync  *)
(* of services/stream_sync.py, and the list of GET /cameras that core      *)
(* /cache.py keeps in Redis; and the deletion of their location or company *)
(* (organization_service.py), which the database cascades to their rows.   *)
(*                                                                         *)
(* A camera is in three places: its row, the registry of the stream        *)
(* manager (process memory), and the cached list.  An edit writes its row  *)
(* at flush, drops the list, may register a stream, and commits last, so   *)
(* the other two follow a row that is not there yet.                       *)
(*                                                                         *)
(* The cameras are those of one location of one company.                   *)
(* Left out: heartbeats (the online flag in the list is as old as the      *)
(* entry), the capture of a frame, device ids, and the loops of a stream   *)
(* (StreamLoops).                                                          *)
(***************************************************************************)
EXTENDS Backend

CONSTANTS
    Cams,        \* cameras
    CamUrls,     \* their stream URLs
    Operators,   \* requests that may be served at a time
    MaxCamCalls  \* bound of the requests

ASSUME CameraAssumption == Nil \notin Cams \cup CamUrls /\ MaxCamCalls \in Nat

VARIABLES
    camRows,   \* camRows[c]: the committed row of camera c
    streams,   \* streams[c]: the URL registered for c, Nil for none
    listed,    \* the list in Redis, and whether a race or an error made it stale
    camRequests, \* camRequests[o]: the request o serves
    unsettled, \* history: the cameras whose stream may rightly not be the row's
    located,   \* whether the location of the cameras, and its company, are there
    orphaned,  \* history: the cameras that went with their location
    camCalls

camVars == <<camRows, streams, listed, camRequests, unsettled, located, orphaned, camCalls>>

CamEdits == {"create", "update", "delete", "add"}

\* The deletion of the location and the one of the company.
Closings == {"close", "dissolve"}

\* A camera has a URL or none; active is is_active with status "active".
CamRows == [is : {"unborn", "there", "gone"}, active : BOOLEAN, url : CamUrls \cup {Nil}]
Unborn == [is |-> "unborn", active |-> FALSE, url |-> Nil]

NoCall == [op |-> "none", stage |-> "none", camera |-> Nil, to |-> Unborn,
           seen |-> [c \in Cams |-> Unborn], alone |-> {}]

CameraTypeOK ==
    /\ camRows \in [Cams -> CamRows]
    /\ streams \in [Cams -> CamUrls \cup {Nil}]
    /\ listed = Nil \/ listed \in [rows : [Cams -> CamRows], raced : BOOLEAN]
    /\ camRequests \in [Operators ->
                    [op : CamEdits \cup Closings \cup {"none", "sync", "list"},
                     stage : {"none", "missed", "read", "flushed", "dropped", "registered"},
                     camera : Cams \cup {Nil}, to : CamRows,
                     seen : [Cams -> CamRows], alone : SUBSET Cams]]
    /\ unsettled \subseteq Cams /\ orphaned \subseteq Cams /\ located \in BOOLEAN
    /\ camCalls \in 0..MaxCamCalls

\* The cameras of an earlier day, if any; the engine has not been started.
CameraInit ==
    /\ camRows \in [Cams -> {Unborn} \cup {[is |-> "there", active |-> TRUE, url |-> u] : u \in CamUrls}]
    /\ streams = [c \in Cams |-> Nil]
    /\ listed = Nil
    /\ camRequests = [o \in Operators |-> NoCall]
    /\ unsettled = {} /\ orphaned = {} /\ located = TRUE /\ camCalls = 0

-----------------------------------------------------------------------------
(* Requests that overlap: alone is the set of cameras that nobody else      *)
(* works on while the request lasts.                                        *)

\* What a request of this kind works on, as the request p sees it.  A list takes
\* no notice of a sync, and of a deletion only what orphaned tells.
Works(call, p) ==
    CASE call.op \in CamEdits -> {call.camera}
      [] call.op \in Closings \cup {"sync"} /\ p.op # "list" -> Cams
      [] OTHER -> {}

AloneOn(o, call) == Cams \ UNION {Works(camRequests[p], call) : p \in Operators \ {o}}

CanCall(o) == camRequests[o].op = "none" /\ camCalls < MaxCamCalls

BeginCall(o, call) ==
    /\ CanCall(o)
    /\ camRequests' = [p \in Operators |->
                    IF p = o THEN [call EXCEPT !.alone = AloneOn(o, call)]
                    ELSE [camRequests[p] EXCEPT !.alone = @ \ Works(call, camRequests[p])]]
    /\ camCalls' = camCalls + 1

CallTo(o, stage) == camRequests' = [camRequests EXCEPT ![o].stage = stage]
CallEnds(o) == camRequests' = [camRequests EXCEPT ![o] = NoCall]

-----------------------------------------------------------------------------
(* create_camera, update_camera, delete_camera and add_stream               *)

\* The row is read and the URL judged; what is sent is to.
BeginCamEdit(o, op, c, to) ==
    /\ camRows[c].is = (IF op = "create" THEN "unborn" ELSE "there")
    /\ op = "create" => located
    /\ op \in {"add", "delete"} => to.active = camRows[c].active
    /\ op = "add" => to.url # Nil
    /\ op = "delete" <=> to.is = "gone"
    /\ op = "delete" => to.url = camRows[c].url
    /\ BeginCall(o, [NoCall EXCEPT !.op = op, !.stage = "read", !.camera = c, !.to = to,
                                   !.seen = camRows])
    /\ UNCHANGED <<camRows, streams, listed, unsettled, located, orphaned>>

\* The statement names the columns that differ from what was read.
Written(call) ==
    LET c == call.camera  old == call.seen[c]  now == camRows[c] IN
    [is     |-> call.to.is,
     active |-> IF call.to.active # old.active THEN call.to.active ELSE now.active,
     url    |-> IF call.to.url # old.url THEN call.to.url ELSE now.url]

WritesRow(call) == call.to # call.seen[call.camera]

\* Statements on one row wait for each other; one on a row that is gone fails, and
\* so does a row for a location that is gone.
RowIsFree(o) ==
    LET call == camRequests[o] IN
    WritesRow(call) =>
        /\ IF call.op = "create" THEN located ELSE camRows[call.camera].is = "there"
        /\ \A p \in Operators \ {o} :
               camRequests[p].camera = call.camera /\ WritesRow(camRequests[p])
               => camRequests[p].stage \in {"none", "read"} \/ camRequests[p].op = "delete"

Flush(o) ==
    /\ camRequests[o].op \in CamEdits \ {"delete"} /\ camRequests[o].stage = "read"
    /\ RowIsFree(o)
    /\ CallTo(o, "flushed")
    /\ UNCHANGED <<camRows, streams, listed, unsettled, located, orphaned, camCalls>>

\* Variant: a deletion leaves the list to its expiry.
DropListOfRows(o, ok) ==
    /\ camRequests[o].op \in CamEdits
    /\ camRequests[o].stage = (IF camRequests[o].op = "delete" THEN "read" ELSE "flushed")
    /\ listed' = IF camRequests[o].op = "delete" THEN listed
                 ELSE IF ok \/ listed = Nil THEN Nil ELSE [listed EXCEPT !.raced = TRUE]
    /\ CallTo(o, "dropped")
    /\ UNCHANGED <<camRows, streams, unsettled, located, orphaned, camCalls>>

\* invalidate_prefix: an error of Redis is swallowed, and the list stays.
\* delete_camera has not sent its DELETE by now.
DropList(o, ok) ==
    /\ camRequests[o].op \in CamEdits
    /\ camRequests[o].stage = (IF camRequests[o].op = "delete" THEN "read" ELSE "flushed")
    /\ listed' = IF ok \/ listed = Nil THEN Nil ELSE [listed EXCEPT !.raced = TRUE]
    /\ CallTo(o, "dropped")
    /\ UNCHANGED <<camRows, streams, unsettled, located, orphaned, camCalls>>

\* add_stream puts the stream in the registry, in place of one that is there.
RegisterStream(o) ==
    LET c == camRequests[o].camera IN
    /\ camRequests[o].op = "add" /\ camRequests[o].stage = "dropped"
    /\ streams' = [streams EXCEPT ![c] = camRequests[o].to.url]
    /\ unsettled' = unsettled \cup {c}
    /\ CallTo(o, "registered")
    /\ UNCHANGED <<camRows, listed, located, orphaned, camCalls>>

CommitEdit(o) ==
    LET call == camRequests[o]  c == call.camera  new == Written(call) IN
    /\ call.op \in CamEdits
    /\ call.stage = (IF call.op = "add" THEN "registered" ELSE "dropped")
    /\ call.op = "delete" => RowIsFree(o)
    /\ camRows' = [camRows EXCEPT ![c] = IF WritesRow(call) THEN new ELSE @]
    /\ unsettled' = IF call.op = "add" /\ c \in call.alone THEN unsettled \ {c}
                    ELSE IF camRows'[c].url # camRows[c].url \/ call.op = "delete"
                    THEN unsettled \cup {c} ELSE unsettled
    /\ CallEnds(o)
    /\ UNCHANGED <<streams, listed, located, orphaned, camCalls>>

\* A conflict, a URL that is refused, a failed commit: rolled back.  What is
\* in the registry stays there.
AbortCall(o) ==
    /\ camRequests[o] # NoCall
    /\ CallEnds(o)
    /\ UNCHANGED <<camRows, streams, listed, unsettled, located, orphaned, camCalls>>

-----------------------------------------------------------------------------
(* delete_location and delete_organization                                  *)

\* A location that still has cameras is refused; of a company only the units and
\* the employees are counted.
BeginClosing(o, op) ==
    /\ located
    /\ op = "close" => \A c \in Cams : camRows[c].is # "there"
    /\ BeginCall(o, [NoCall EXCEPT !.op = op, !.stage = "read"])
    /\ UNCHANGED <<camRows, streams, listed, unsettled, located, orphaned>>

\* An edit that has written a row, and has not committed, holds it and its location.
RowsAreHeld ==
    \E p \in Operators :
        /\ camRequests[p].op \in CamEdits \ {"delete"} /\ camRequests[p].stage # "read"
        /\ WritesRow(camRequests[p])

\* The rows go by the cascade of the database; neither the list nor the registry
\* is told.
CommitClosing(o) ==
    LET there == {c \in Cams : camRows[c].is = "there"} IN
    /\ camRequests[o].op \in Closings
    /\ located /\ ~RowsAreHeld
    /\ camRows' = [c \in Cams |-> IF c \in there THEN [camRows[c] EXCEPT !.is = "gone"] ELSE camRows[c]]
    /\ located' = FALSE
    /\ orphaned' = orphaned \cup there
    /\ unsettled' = unsettled \cup there
    /\ CallEnds(o)
    /\ UNCHANGED <<streams, listed, camCalls>>

-----------------------------------------------------------------------------
(* The engine                                                               *)

\* The cameras a sync asks for: active, with a URL.
ToStream(row) == row.is = "there" /\ row.active /\ row.url # Nil

BeginSync(o) ==
    /\ BeginCall(o, [NoCall EXCEPT !.op = "sync", !.stage = "read", !.seen = camRows])
    /\ UNCHANGED <<camRows, streams, listed, unsettled, located, orphaned>>

\* Variant: a camera that has a stream is not looked at.
RegisterNew(o) ==
    LET wanted == {c \in Cams : ToStream(camRequests[o].seen[c])} IN
    /\ camRequests[o].op = "sync"
    /\ streams' = [c \in Cams |-> IF c \in wanted /\ streams[c] = Nil
                                  THEN camRequests[o].seen[c].url ELSE streams[c]]
    /\ unsettled' = (unsettled \ (wanted \cap camRequests[o].alone)) \cup (wanted \ camRequests[o].alone)
    /\ CallEnds(o)
    /\ UNCHANGED <<camRows, listed, located, orphaned, camCalls>>

\* sync_streams_from_db: a stream of the same URL is left alone, one of another
\* is replaced, and the rest of the registry is not looked at.
RegisterAll(o) ==
    LET wanted == {c \in Cams : ToStream(camRequests[o].seen[c])} IN
    /\ camRequests[o].op = "sync"
    /\ streams' = [c \in Cams |-> IF c \in wanted THEN camRequests[o].seen[c].url ELSE streams[c]]
    /\ unsettled' = (unsettled \ (wanted \cap camRequests[o].alone)) \cup (wanted \ camRequests[o].alone)
    /\ CallEnds(o)
    /\ UNCHANGED <<camRows, listed, located, orphaned, camCalls>>

\* DELETE /streams/{id} knows nothing of the row.
RemoveStream(c) ==
    /\ streams[c] # Nil
    /\ streams' = [streams EXCEPT ![c] = Nil]
    /\ UNCHANGED <<camRows, listed, camRequests, unsettled, located, orphaned, camCalls>>

\* The process starts again: the registry is empty, Redis is not.
RestartEngine ==
    /\ \E c \in Cams : streams[c] # Nil
    /\ streams' = [c \in Cams |-> Nil]
    /\ camRequests' = [o \in Operators |-> NoCall]
    /\ unsettled' = {}
    /\ UNCHANGED <<camRows, listed, located, orphaned, camCalls>>

-----------------------------------------------------------------------------
(* GET /cameras: cached_json                                                *)

\* Nothing is cached; what is there would be answered as it is.
BeginList(o) ==
    /\ listed = Nil
    /\ BeginCall(o, [NoCall EXCEPT !.op = "list", !.stage = "missed"])
    /\ UNCHANGED <<camRows, streams, listed, unsettled, located, orphaned>>

ComputeList(o) ==
    /\ camRequests[o].op = "list" /\ camRequests[o].stage = "missed"
    /\ camRequests' = [camRequests EXCEPT ![o].stage = "read", ![o].seen = camRows,
                              ![o].alone = AloneOn(o, camRequests[o])]
    /\ UNCHANGED <<camRows, streams, listed, unsettled, located, orphaned, camCalls>>

\* An error of Redis leaves what is there; the request is answered.
StoreList(o, ok) ==
    /\ camRequests[o].op = "list" /\ camRequests[o].stage = "read"
    /\ listed' = IF ok THEN [rows |-> camRequests[o].seen, raced |-> camRequests[o].alone # Cams] ELSE listed
    /\ CallEnds(o)
    /\ UNCHANGED <<camRows, streams, unsettled, located, orphaned, camCalls>>

\* The time to live of the entry.
ExpireList ==
    /\ listed # Nil
    /\ listed' = Nil
    /\ UNCHANGED <<camRows, streams, camRequests, unsettled, located, orphaned, camCalls>>

CameraNext ==
    \/ \E o \in Operators :
           CanCall(o) /\ \E op \in CamEdits, c \in Cams, to \in CamRows :
                            to.is # "unborn" /\ BeginCamEdit(o, op, c, to)
    \/ \E o \in Operators, ok \in BOOLEAN : DropList(o, ok) \/ StoreList(o, ok)
    \/ \E o \in Operators : \/ Flush(o) \/ RegisterStream(o) \/ CommitEdit(o) \/ AbortCall(o)
                            \/ CommitClosing(o) \/ BeginSync(o) \/ RegisterAll(o)
                            \/ BeginList(o) \/ ComputeList(o)
    \/ \E o \in Operators, op \in Closings : BeginClosing(o, op)
    \/ \E c \in Cams : RemoveStream(c)
    \/ RestartEngine
    \/ ExpireList

CameraSpec == CameraInit /\ [][CameraNext]_camVars

-----------------------------------------------------------------------------
(* What is claimed *)

\* A stream has the URL of its camera's row, after any edits, syncs and
\* restarts, unless the row was changed since the engine was last told, or
\* two requests worked on the camera at once (add_stream, which registers
\* before it commits; sync_streams_from_db, which registers what it read).
StreamsFollowRows ==
    \A c \in Cams : streams[c] # Nil /\ c \notin unsettled => streams[c] = camRows[c].url

\* What a list says of a camera is in the table, or the camera was deleted since
\* with its location.
Tells(rows, c) == rows[c] = camRows[c] \/ (c \in orphaned /\ rows[c].is = "there")

\* The cached list is what the table says, unless it was computed while an edit was
\* under way or Redis failed to drop it (invalidate_prefix runs before the commit;
\* cached_json stores what it read before), but for cameras that went with their
\* company or, created after they were counted, with their location: those it names
\* until it expires (delete_organization and delete_location drop no list).
ListsFollowRows ==
    listed # Nil => listed.raced \/ \A c \in Cams : Tells(listed.rows, c)
=============================================================================
