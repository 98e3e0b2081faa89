----------------------------- MODULE StreamLoops -----------------------------
(***************************************************************************)
(* The read loops of the camera streams: backend/app/engine/               *)
(* stream_manager.py under the requests of api/engine.py that add, remove, *)
(* start and stop streams while loops are reading.                         *)
(*                                                                         *)
(* Everything here runs on one event loop, so an action is what a          *)
(* coroutine does between two awaits; only capture.read() and the opening  *)
(* of a capture run on worker threads, and go on when the task that        *)
(* awaited them is cancelled.  A capture is not thread-safe: releasing it  *)
(* while a read is in flight is what all of this code tries to avoid.      *)
(***************************************************************************)
EXTENDS Naturals, FiniteSets, Functions

CONSTANTS
    Cameras,   \* camera ids
    Streams,   \* CameraStream objects that may be made
    Tasks,     \* asyncio tasks that may run a stream loop
    Captures,  \* cv2.VideoCapture objects that may be opened
    Requests,  \* coroutines that may be inside stop_stream or stop
    Nil        \* stands for None

ASSUME NilAssumption == Nil \notin Cameras \cup Streams \cup Tasks \cup Captures
ASSUME FiniteAssumption == IsFiniteSet(Cameras) /\ IsFiniteSet(Tasks)

VARIABLES
    running,   \* StreamManager._running
    monitor,   \* whether the health monitor task is alive
    registry,  \* registry[c]: _streams[c], or Nil
    stream,    \* stream[s]: the fields of a CameraStream
    loop,      \* loop[t]: where task t is in _stream_loop
    capture,   \* capture[k]: whether it is open, and for which stream it was
    abandoned, \* abandoned[k]: reads in flight that no task awaits any more
    request,   \* request[r]: the tasks a stop is waiting for
    shared,    \* auxiliary: the streams that have had two loops at once
    raced      \* auxiliary: the captures released with a read in flight

vars == <<running, monitor, registry, stream, loop, capture, abandoned, request,
          shared, raced>>
world == <<running, monitor, registry, request>>

-----------------------------------------------------------------------------
NewStream == [made |-> FALSE, running |-> FALSE, status |-> "offline",
              capture |-> Nil, task |-> Nil, framed |-> FALSE]

NewLoop == [pc |-> "unused", camera |-> Nil, stream |-> Nil, cap |-> Nil,
            cancelling |-> FALSE]

Awaiting == {"opening", "reading", "paused"}

Alive(t) == t # Nil /\ loop[t].pc \in {"created"} \cup Awaiting

\* A loop runs over stream s from its first step to its last.
LoopsOver(s) == {t \in Tasks : loop[t].stream = s /\ loop[t].pc \in Awaiting}

InFlight(k) ==
    Cardinality({t \in Tasks : loop[t].pc = "reading" /\ loop[t].cap = k})
      + abandoned[k]

\* Objects that were never used; which of them is taken next does not matter.
FreshStreams == {s \in Streams : ~stream[s].made}
FreshTasks == {t \in Tasks : loop[t].pc = "unused"}
FreshCaptures == {k \in Captures : capture[k].state = "unused"}
Any(S) == CHOOSE x \in S : TRUE

Init ==
    /\ running = FALSE /\ monitor = FALSE
    /\ registry = [c \in Cameras |-> Nil]
    /\ stream = [s \in Streams |-> NewStream]
    /\ loop = [t \in Tasks |-> NewLoop]
    /\ capture = [k \in Captures |-> [state |-> "unused", stream |-> Nil]]
    /\ abandoned = [k \in Captures |-> 0]
    /\ request = [r \in Requests |-> [kind |-> "none", waits |-> {}]]
    /\ shared = {} /\ raced = {}

-----------------------------------------------------------------------------
(* The loop *)

\* Releasing k while `others` reads of it are in flight.
Release(k, others) ==
    IF k = Nil THEN UNCHANGED <<capture, raced>>
    ELSE /\ capture' = [capture EXCEPT ![k].state = "released"]
         /\ raced' = IF others > 0 THEN raced \cup {k} ELSE raced

\* Reads of the capture of stream s by anyone but task t.
OtherReads(t, k) ==
    IF k = Nil THEN 0
    ELSE InFlight(k) - (IF loop[t].pc = "reading" /\ loop[t].cap = k THEN 1 ELSE 0)

\* Variant: the status is left as it was.
ExitSilently(t, s) ==
    /\ Release(stream[s].capture, OtherReads(t, stream[s].capture))
    /\ stream' = [stream EXCEPT ![s].capture = Nil]
    /\ loop' = [loop EXCEPT ![t].pc = "done", ![t].cap = Nil]

\* The finally block: the loop releases the capture of its stream.
Exit(t, s) ==
    /\ Release(stream[s].capture, OtherReads(t, stream[s].capture))
    /\ stream' = [stream EXCEPT ![s].capture = Nil, ![s].status = "offline"]
    /\ loop' = [loop EXCEPT ![t].pc = "done", ![t].cap = Nil]

\* The head of the while loop, with nothing awaited before the next thread call.
Head(t, s, status) ==
    IF stream[s].running /\ running
    THEN /\ loop' = [loop EXCEPT ![t].pc = IF stream[s].capture = Nil
                                           THEN "opening" ELSE "reading",
                                 ![t].cap = stream[s].capture]
         /\ stream' = [stream EXCEPT ![s].status = status]
         /\ UNCHANGED <<capture, raced>>
    ELSE Exit(t, s)

\* First step of the task: the loop takes whatever stream the camera has by now.
Begin(t) ==
    LET s == registry[loop[t].camera] IN
    /\ loop[t].pc = "created" /\ ~loop[t].cancelling
    /\ IF s = Nil
       THEN /\ loop' = [loop EXCEPT ![t].pc = "done"]
            /\ UNCHANGED <<stream, capture, raced, shared>>
       ELSE /\ stream' = [stream EXCEPT
                            ![s].running = TRUE,
                            ![s].status = IF running THEN "connecting" ELSE "offline",
                            ![s].capture = IF running THEN @ ELSE Nil]
            /\ loop' = [loop EXCEPT
                          ![t].stream = s,
                          ![t].pc = IF ~running THEN "done"
                                    ELSE IF stream[s].capture = Nil
                                    THEN "opening" ELSE "reading",
                          ![t].cap = IF running THEN stream[s].capture ELSE Nil]
            /\ IF running THEN UNCHANGED <<capture, raced>>
               ELSE Release(stream[s].capture, OtherReads(t, stream[s].capture))
            /\ shared' = IF LoopsOver(s) # {} THEN shared \cup {s} ELSE shared
    /\ UNCHANGED <<world, abandoned>>

\* _connect_stream opens a capture, and the first read starts at once.
Opened(t) ==
    LET s == loop[t].stream IN
    /\ loop[t].pc = "opening" /\ ~loop[t].cancelling
    /\ FreshCaptures # {}
    /\ LET k == Any(FreshCaptures) IN
          /\ capture' = [capture EXCEPT ![k] = [state |-> "open", stream |-> s]]
          /\ stream' = [stream EXCEPT ![s].capture = k, ![s].status = "active"]
          /\ loop' = [loop EXCEPT ![t].pc = "reading", ![t].cap = k]
    /\ UNCHANGED <<world, abandoned, shared, raced>>

\* An open that fails backs off.
OpenFailed(t) ==
    /\ loop[t].pc = "opening" /\ ~loop[t].cancelling
    /\ loop' = [loop EXCEPT ![t].pc = "paused"]
    /\ stream' = [stream EXCEPT ![loop[t].stream].status = "interrupted"]
    /\ UNCHANGED <<world, capture, abandoned, shared, raced>>

\* A frame: the callbacks and the pacing sleep are awaited.
Frame(t) ==
    /\ loop[t].pc = "reading" /\ ~loop[t].cancelling
    /\ loop' = [loop EXCEPT ![t].pc = "paused", ![t].cap = Nil]
    /\ stream' = [stream EXCEPT ![loop[t].stream].status = "active",
                                ![loop[t].stream].framed = TRUE]
    /\ UNCHANGED <<world, capture, abandoned, shared, raced>>

\* No frame, but not yet a streak: back to the head.
Missed(t) ==
    /\ loop[t].pc = "reading" /\ ~loop[t].cancelling
    /\ Head(t, loop[t].stream, "interrupted")
    /\ UNCHANGED <<world, abandoned, shared>>

\* Variant: the capture is released, but the stream keeps it.
LostKeeping(t) ==
    LET s == loop[t].stream IN
    /\ loop[t].pc = "reading" /\ ~loop[t].cancelling
    /\ Release(stream[s].capture, OtherReads(t, stream[s].capture))
    /\ stream' = [stream EXCEPT ![s].status = "interrupted"]
    /\ loop' = [loop EXCEPT ![t].pc = "paused", ![t].cap = Nil]
    /\ UNCHANGED <<world, abandoned, shared>>

\* A streak of missed frames, or an exception: the capture is released, and the
\* loop backs off.
Lost(t) ==
    LET s == loop[t].stream IN
    /\ loop[t].pc = "reading" /\ ~loop[t].cancelling
    /\ Release(stream[s].capture, OtherReads(t, stream[s].capture))
    /\ stream' = [stream EXCEPT ![s].capture = Nil, ![s].status = "interrupted"]
    /\ loop' = [loop EXCEPT ![t].pc = "paused", ![t].cap = Nil]
    /\ UNCHANGED <<world, abandoned, shared>>

Resume(t) ==
    /\ loop[t].pc = "paused" /\ ~loop[t].cancelling
    /\ Head(t, loop[t].stream, stream[loop[t].stream].status)
    /\ UNCHANGED <<world, abandoned, shared>>

\* Variant: a forced cancellation releases the capture itself.
CancelledReleasing(t) ==
    LET s == loop[t].stream IN
    /\ loop[t].cancelling
    /\ \/ /\ loop[t].pc = "created"
          /\ loop' = [loop EXCEPT ![t].pc = "done"]
          /\ UNCHANGED <<stream, capture, raced>>
       \/ /\ loop[t].pc \in Awaiting
          /\ Release(stream[s].capture, IF stream[s].capture = Nil THEN 0
                                        ELSE InFlight(stream[s].capture))
          /\ stream' = [stream EXCEPT ![s].capture = Nil, ![s].status = "offline"]
          /\ loop' = [loop EXCEPT ![t].pc = "done", ![t].cap = Nil]
    /\ UNCHANGED <<world, abandoned, shared>>

\* CancelledError at an await.  A read that is in flight keeps its capture until
\* it returns; an open in flight is released by its own callback.
Cancelled(t) ==
    LET s == loop[t].stream IN
    /\ loop[t].cancelling
    /\ \/ /\ loop[t].pc = "created"
          /\ loop' = [loop EXCEPT ![t].pc = "done"]
          /\ UNCHANGED <<stream, capture, abandoned, raced>>
       \/ /\ loop[t].pc \in {"opening", "paused"}
          /\ Exit(t, s)
          /\ UNCHANGED abandoned
       \/ /\ loop[t].pc = "reading"
          /\ abandoned' = [abandoned EXCEPT ![loop[t].cap] = @ + 1]
          /\ stream' = [stream EXCEPT ![s].capture = Nil, ![s].status = "offline"]
          /\ loop' = [loop EXCEPT ![t].pc = "done", ![t].cap = Nil]
          /\ UNCHANGED <<capture, raced>>
    /\ UNCHANGED <<world, shared>>

\* Variant: the callback of a read that nobody abandoned.
ReadReturnsAlways(k) ==
    /\ abandoned' = [abandoned EXCEPT ![k] = @ - 1]
    /\ Release(k, InFlight(k) - 1)
    /\ UNCHANGED <<world, stream, loop, shared>>

\* _drain_and_release: the abandoned read has returned.
ReadReturns(k) ==
    /\ abandoned[k] > 0
    /\ abandoned' = [abandoned EXCEPT ![k] = @ - 1]
    /\ Release(k, InFlight(k) - 1)
    /\ UNCHANGED <<world, stream, loop, shared>>

-----------------------------------------------------------------------------
(* The manager *)

Spawned(c) == [NewLoop EXCEPT !.pc = "created", !.camera = c]

\* POST /streams/add: the stream the camera had is removed first.
AddStream(c) ==
    /\ FreshStreams # {}
    /\ LET s == Any(FreshStreams) IN
          /\ registry' = [registry EXCEPT ![c] = s]
          /\ stream' = [x \in Streams |->
                          IF x = s THEN [NewStream EXCEPT !.made = TRUE]
                          ELSE IF x = registry[c] THEN [stream[x] EXCEPT !.running = FALSE]
                          ELSE stream[x]]
    /\ UNCHANGED <<running, monitor, loop, capture, abandoned, request, shared, raced>>

\* Variant: the loop is not told.
RemoveStreamSilently(c) ==
    /\ registry[c] # Nil
    /\ registry' = [registry EXCEPT ![c] = Nil]
    /\ UNCHANGED <<running, monitor, stream, loop, capture, abandoned, request, shared,
                   raced>>

RemoveStream(c) ==
    LET s == registry[c] IN
    /\ s # Nil
    /\ registry' = [registry EXCEPT ![c] = Nil]
    /\ stream' = [stream EXCEPT ![s].running = FALSE]
    /\ UNCHANGED <<running, monitor, loop, capture, abandoned, request, shared, raced>>

\* The cameras whose stream has no live task.
Stopped == {c \in Cameras : registry[c] # Nil /\ ~Alive(stream[registry[c]].task)}

\* A fresh task for each camera of a set.
Spawn(cameras) ==
    /\ Cardinality(cameras) <= Cardinality(FreshTasks)
    /\ LET task == Any(Injection(cameras, FreshTasks)) IN
        /\ loop' = [t \in Tasks |->
                      IF \E c \in cameras : task[c] = t
                      THEN Spawned(CHOOSE c \in cameras : task[c] = t) ELSE loop[t]]
        /\ stream' = [s \in Streams |->
                        IF \E c \in cameras : registry[c] = s
                        THEN [stream[s] EXCEPT !.task =
                                task[CHOOSE c \in cameras : registry[c] = s]]
                        ELSE stream[s]]

StartStream(c) ==
    /\ c \in Stopped
    /\ Spawn({c})
    /\ UNCHANGED <<world, capture, abandoned, shared, raced>>

Start ==
    /\ running' = TRUE
    /\ monitor' = TRUE
    /\ Spawn(Stopped)
    /\ UNCHANGED <<registry, capture, abandoned, request, shared, raced>>

\* stop_stream: signal the loop, then wait for its task, if there is one.
StopStream(r, c) ==
    LET s == registry[c] IN
    /\ s # Nil
    /\ request[r].kind = "none"
    /\ IF Alive(stream[s].task)
       THEN /\ stream' = [stream EXCEPT ![s].running = FALSE]
            /\ request' = [request EXCEPT ![r] =
                             [kind |-> "stop_stream", waits |-> {<<s, stream[s].task>>}]]
       ELSE /\ stream' = [stream EXCEPT ![s].running = FALSE, ![s].task = Nil,
                                        ![s].status = "offline"]
            /\ UNCHANGED request
    /\ UNCHANGED <<running, monitor, registry, loop, capture, abandoned, shared, raced>>

\* stop: signal every registered loop, and gather one waiter for each of them.
Stop(r) ==
    LET registered == {registry[c] : c \in Cameras} \ {Nil} IN
    /\ request[r].kind = "none"
    /\ running' = FALSE
    /\ stream' = [s \in Streams |-> [stream[s] EXCEPT
                                      !.running = @ /\ s \notin registered]]
    /\ request' = [request EXCEPT ![r] =
                     [kind |-> "stop", waits |-> {<<s, Nil>> : s \in registered}]]
    /\ UNCHANGED <<monitor, registry, loop, capture, abandoned, shared, raced>>

\* A gathered waiter starts in a later iteration of the event loop, and waits for
\* the task the stream has by then.
Gathered(r) ==
    \E w \in request[r].waits :
        LET s == w[1]
            task == stream[s].task
        IN
        /\ w[2] = Nil
        /\ stream' = [stream EXCEPT ![s].task = IF Alive(task) THEN task ELSE Nil]
        /\ request' = [request EXCEPT ![r].waits =
                         (@ \ {w}) \cup (IF Alive(task) THEN {<<s, task>>} ELSE {})]
        /\ UNCHANGED <<running, monitor, registry, loop, capture, abandoned, shared,
                       raced>>

\* Variant: the task is awaited without a time limit.
GraceForever(r) == FALSE /\ UNCHANGED vars

\* The grace period is over: the task is cancelled, and awaited again.
GraceOver(r) ==
    \E w \in request[r].waits :
        /\ Alive(w[2]) /\ ~loop[w[2]].cancelling
        /\ loop' = [loop EXCEPT ![w[2]].cancelling = TRUE]
        /\ UNCHANGED <<world, stream, capture, abandoned, shared, raced>>

\* The waiting coroutine is scheduled after its task is done, not at once, and
\* then clears the task of the stream.
Woken(r) ==
    \E w \in request[r].waits :
        /\ w[2] # Nil /\ ~Alive(w[2])
        /\ stream' = [stream EXCEPT
                        ![w[1]].task = Nil,
                        ![w[1]].status = IF request[r].kind = "stop_stream"
                                         THEN "offline" ELSE @]
        /\ request' = [request EXCEPT
                         ![r] = IF @.kind = "stop_stream"
                                THEN [kind |-> "none", waits |-> {}]
                                ELSE [@ EXCEPT !.waits = request[r].waits \ {w}]]
        /\ UNCHANGED <<running, monitor, registry, loop, capture, abandoned, shared,
                       raced>>

\* The last loop is gone: stop cancels the monitor and returns.
StopEnds(r) ==
    /\ request[r].kind = "stop" /\ request[r].waits = {}
    /\ request' = [request EXCEPT ![r].kind = "none"]
    /\ monitor' = FALSE
    /\ UNCHANGED <<running, registry, stream, loop, capture, abandoned, shared, raced>>

\* The monitor finds a stream that has delivered no frame for a while.
Monitor(c) ==
    LET s == registry[c] IN
    /\ monitor /\ s # Nil
    /\ stream[s].status # "offline" /\ stream[s].framed
    /\ IF running /\ ~Alive(stream[s].task)
       THEN /\ FreshTasks # {}
            /\ LET t == Any(FreshTasks) IN
                  /\ loop' = [loop EXCEPT ![t] = Spawned(c)]
                  /\ stream' = [stream EXCEPT ![s].status = "interrupted", ![s].task = t]
       ELSE /\ stream' = [stream EXCEPT ![s].status = "interrupted"]
            /\ UNCHANGED loop
    /\ UNCHANGED <<world, capture, abandoned, shared, raced>>

\* The monitor leaves its own loop once the manager has stopped.
MonitorEnds ==
    /\ monitor /\ ~running
    /\ monitor' = FALSE
    /\ UNCHANGED <<running, registry, stream, loop, capture, abandoned, request, shared,
                   raced>>

-----------------------------------------------------------------------------
Step(t) == Begin(t) \/ Opened(t) \/ OpenFailed(t) \/ Frame(t) \/ Missed(t) \/ Lost(t)
           \/ Resume(t) \/ Cancelled(t)

Await(r) == Gathered(r) \/ GraceOver(r) \/ Woken(r) \/ StopEnds(r)

Next ==
    \/ \E t \in Tasks : Step(t)
    \/ \E k \in Captures : ReadReturns(k)
    \/ \E c \in Cameras : AddStream(c) \/ RemoveStream(c) \/ StartStream(c) \/ Monitor(c)
    \/ \E r \in Requests, c \in Cameras : StopStream(r, c)
    \/ \E r \in Requests : Stop(r) \/ Await(r)
    \/ Start \/ MonitorEnds

\* Tasks are scheduled, a grace period ends, and a read returns in the end (the
\* captures of network streams are opened with a read timeout).
Spec == /\ Init /\ [][Next]_vars
        /\ \A t \in Tasks : WF_vars(Step(t))
        /\ \A k \in Captures : WF_vars(ReadReturns(k))
        /\ \A r \in Requests : WF_vars(Await(r))

-----------------------------------------------------------------------------
(* Properties *)

TypeOK ==
    /\ running \in BOOLEAN /\ monitor \in BOOLEAN
    /\ registry \in [Cameras -> Streams \cup {Nil}]
    /\ stream \in [Streams ->
          [made : BOOLEAN, running : BOOLEAN,
           status : {"offline", "connecting", "active", "interrupted"},
           capture : Captures \cup {Nil}, task : Tasks \cup {Nil}, framed : BOOLEAN]]
    /\ loop \in [Tasks ->
          [pc : {"unused", "created", "done"} \cup Awaiting,
           camera : Cameras \cup {Nil}, stream : Streams \cup {Nil},
           cap : Captures \cup {Nil}, cancelling : BOOLEAN]]
    /\ capture \in [Captures -> [state : {"unused", "open", "released"},
                                 stream : Streams \cup {Nil}]]
    /\ abandoned \in [Captures -> Nat]
    /\ \A r \in Requests : /\ request[r].kind \in {"none", "stop_stream", "stop"}
                           /\ request[r].waits \subseteq Streams \X (Tasks \cup {Nil})
    /\ shared \subseteq Streams /\ raced \subseteq Captures

\* No capture is released while a read of it is in flight, as long as its stream
\* never had two loops: neither a stop, nor a forced cancellation in the middle of
\* a read, nor a reconnect releases under another thread.
\* (_stream_loop 450-461, 470-474, 530-535; remove_stream 238-242.)
ReleaseAwaitsReads == \A k \in raced : capture[k].stream \in shared

\* The captures of streams that never had two loops are used as OpenCV demands: one
\* read at a time, whoever awaits it; let go of once, with the last read or after
\* it, never under it; never read or opened again.
\* (_stream_loop 450-474, 530-541; _drain_and_release; _await_stream_task 306-329.)
Use == INSTANCE CaptureUse WITH
    use <- [k \in Captures |->
              IF capture[k].stream \in shared THEN [state |-> "contended", readers |-> 0]
              ELSE IF k \in raced THEN [state |-> "torn", readers |-> 0]
              ELSE [state |-> capture[k].state, readers |-> InFlight(k)]]
UsedWithCare == Use!Spec

\* Every stop returns, whatever starts, stops and removals overlap with it; a stop
\* that comes before the first step of the loop is undone by that step, and only
\* the end of the grace period saves it.  (_await_stream_task 306-329.)
StopsReturn ==
    \A r \in Requests : request[r].kind # "none" ~> request[r].kind = "none"

\* The capture of a stream that is no longer registered is released in the end:
\* its loop, which nobody waits for, ends by itself.  (remove_stream 235-249.)
RemovedStreamsLetGo ==
    \A k \in Captures :
        /\ capture[k].state = "open"
        /\ \A c \in Cameras : registry[c] # capture[k].stream
        ~> \/ capture[k].state = "released"
           \/ capture[k].stream \in shared

\* A stream that is shown as anything but offline has a loop over it: what ends a
\* loop also takes its stream offline.  So the health monitor, which skips streams
\* that are offline, meets no stream whose loops have all ended.
\* (_stream_loop 530-541; stop_stream 342-343; _health_monitor 701-712.)
LiveMeansLoop == \A s \in Streams : stream[s].status # "offline" => LoopsOver(s) # {}

\* "Never spawn a second loop over a live one: two loops would share one capture
\* (the release-vs-read race) and double-process frames."  (start 256-257.)
OneLoopPerStream == \A s \in Streams : Cardinality(LoopsOver(s)) <= 1
=============================================================================
