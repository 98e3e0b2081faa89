--------------------------- MODULE StreamLoopsProofs ---------------------------
(***************************************************************************)
(* What holds of StreamLoops for any number of cameras, streams, tasks,    *)
(* captures and requests.                                                  *)
(***************************************************************************)
EXTENDS StreamLoops, FiniteSetTheorems, FunctionTheorems, TLAPS

Statuses == {"offline", "connecting", "active", "interrupted"}
StreamRecords == [made : BOOLEAN, running : BOOLEAN, status : Statuses,
                  capture : Captures \cup {Nil}, task : Tasks \cup {Nil}, framed : BOOLEAN]
LoopRecords == [pc : {"unused", "created", "done"} \cup Awaiting,
                camera : Cameras \cup {Nil}, stream : Streams \cup {Nil},
                cap : Captures \cup {Nil}, cancelling : BOOLEAN]
CaptureRecords == [state : {"unused", "open", "released"}, stream : Streams \cup {Nil}]
RequestRecords == [kind : {"none", "stop_stream", "stop"},
                   waits : SUBSET (Streams \X (Tasks \cup {Nil}))]

\* The tasks whose read of the capture k is in flight.
Readers(k) == {t \in Tasks : loop[t].pc = "reading" /\ loop[t].cap = k}

\* A loop has a camera before its first step, a stream that was made after it, and
\* reads a capture of that stream.
LoopsPlaced ==
    \A t \in Tasks :
        /\ loop[t].pc = "created" => loop[t].camera \in Cameras
        /\ loop[t].pc \in Awaiting => loop[t].stream \in Streams /\ stream[loop[t].stream].made
        /\ loop[t].pc = "reading" =>
              /\ loop[t].cap \in Captures
              /\ capture[loop[t].cap].state # "unused"
              /\ capture[loop[t].cap].stream = loop[t].stream

RegistryMade == \A c \in Cameras : registry[c] # Nil => stream[registry[c]].made

\* A capture that was opened belongs to one stream for good; one that was not is nobody's.
CapturesPlaced ==
    /\ \A s \in Streams : stream[s].capture # Nil =>
          /\ capture[stream[s].capture].state # "unused"
          /\ capture[stream[s].capture].stream = s
    /\ \A k \in Captures : IF capture[k].state = "unused" THEN abandoned[k] = 0 /\ k \notin raced
                           ELSE capture[k].stream \in Streams

\* A stream that never had two loops has one reader, of its own capture, or one read
\* that was abandoned and let go of.
Tidy(s) ==
    /\ \A t, u \in LoopsOver(s) : t = u
    /\ \A t \in LoopsOver(s) : loop[t].pc = "reading" => loop[t].cap = stream[s].capture
    /\ stream[s].capture # Nil => abandoned[stream[s].capture] = 0
    /\ \A k \in Captures : capture[k].stream = s => abandoned[k] <= 1

IInv ==
    /\ TypeOK
    /\ request \in [Requests -> RequestRecords]
    /\ LoopsPlaced /\ RegistryMade /\ CapturesPlaced
    /\ \A s \in Streams \ shared : Tidy(s)
    /\ ReleaseAwaitsReads


-----------------------------------------------------------------------------
(* Choosing tasks, and counting reads *)

\* Spawn finds a task for each camera when there are enough of them.
LEMMA EnoughTasks ==
  ASSUME NEW S, IsFiniteSet(S), NEW T, IsFiniteSet(T), Cardinality(S) <= Cardinality(T)
  PROVE  Any(Injection(S, T)) \in Injection(S, T)
<1> DEFINE n == Cardinality(S)
           m == Cardinality(T)
<1>1. n \in Nat /\ ExistsBijection(1..n, S) /\ m \in Nat /\ ExistsBijection(1..m, T)
  BY FS_CardinalityType
<1>2. n <= m
  OBVIOUS
<1> HIDE DEF n, m
<1>3. ExistsInjection(S, 1..n)
  <2>1. ExistsBijection(S, 1..n)
    BY <1>1, Fun_ExistsBijSymmetric
  <2> QED BY <2>1, Fun_ExistsBijEquiv
<1>4. ExistsInjection(1..n, 1..m)
  BY <1>1, <1>2, Fun_NatInjLeq
<1>5. ExistsInjection(1..m, T)
  BY <1>1, Fun_ExistsBijEquiv
<1>6. ExistsInjection(S, T)
  BY <1>3, <1>4, <1>5, Fun_ExistsInjTransitive
<1>7. \E f : f \in Injection(S, T)
  BY <1>6, Fun_ExistsInj
<1> QED BY <1>7 DEF Any

\* What Spawn does to a task and to a stream.
LEMMA SpawnFacts ==
  ASSUME TypeOK, NEW cameras \in SUBSET Cameras, Spawn(cameras)
  PROVE  /\ loop' \in [Tasks -> LoopRecords]
         /\ \A t \in Tasks :
              \/ loop'[t] = loop[t]
              \/ loop[t].pc = "unused" /\ \E c \in Cameras : loop'[t] = Spawned(c)
         /\ stream' \in [Streams -> StreamRecords]
         /\ \A s \in Streams : /\ stream'[s].capture = stream[s].capture
                               /\ stream'[s].made = stream[s].made
                               /\ stream'[s].status = stream[s].status
<1> DEFINE task == Any(Injection(cameras, FreshTasks))
           Task(s) == task[CHOOSE c \in cameras : registry[c] = s]
           Camera(t) == CHOOSE c \in cameras : task[c] = t
<1>1. task \in Injection(cameras, FreshTasks)
  <2>1. IsFiniteSet(cameras) /\ IsFiniteSet(FreshTasks)
    BY FiniteAssumption, FS_Subset DEF FreshTasks
  <2> QED BY <2>1, EnoughTasks DEF Spawn
<1>2. \A c \in cameras : task[c] \in FreshTasks
  BY <1>1 DEF Injection
<1>3. /\ loop' = [t \in Tasks |-> IF \E c \in cameras : task[c] = t
                                 THEN Spawned(Camera(t)) ELSE loop[t]]
      /\ stream' = [s \in Streams |-> IF \E c \in cameras : registry[c] = s
                                     THEN [stream[s] EXCEPT !.task = Task(s)] ELSE stream[s]]
  BY DEF Spawn
<1> HIDE DEF task
<1>4. \A t \in Tasks :
        \/ loop'[t] = loop[t]
        \/ loop[t].pc = "unused" /\ \E c \in Cameras : loop'[t] = Spawned(c)
  <2> SUFFICES ASSUME NEW t \in Tasks, \E c \in cameras : task[c] = t
               PROVE  loop[t].pc = "unused" /\ \E c \in Cameras : loop'[t] = Spawned(c)
    BY <1>3
  <2>1. loop[t].pc = "unused"
    BY <1>2 DEF FreshTasks
  <2>2. Camera(t) \in Cameras
    OBVIOUS
  <2>3. loop'[t] = Spawned(Camera(t))
    BY <1>3
  <2> QED BY <2>1, <2>2, <2>3
<1>5. loop' \in [Tasks -> LoopRecords]
  <2>1. \A c \in Cameras : Spawned(c) \in LoopRecords
    BY DEF Spawned, NewLoop, LoopRecords
  <2>2. \A t \in Tasks : loop[t] \in LoopRecords
    BY DEF TypeOK, LoopRecords
  <2>3. \A t \in Tasks : loop'[t] \in LoopRecords
    BY <1>4, <2>1, <2>2
  <2> QED BY <1>3, <2>3
<1>6. \A s \in Streams : /\ stream'[s] \in StreamRecords
                         /\ stream'[s].capture = stream[s].capture
                         /\ stream'[s].made = stream[s].made
                         /\ stream'[s].status = stream[s].status
  <2> SUFFICES ASSUME NEW s \in Streams
               PROVE  /\ stream'[s] \in StreamRecords
                      /\ stream'[s].capture = stream[s].capture
                      /\ stream'[s].made = stream[s].made
                      /\ stream'[s].status = stream[s].status
    OBVIOUS
  <2>1. stream[s] \in StreamRecords
    BY DEF TypeOK, StreamRecords, Statuses
  <2>2. CASE \E c \in cameras : registry[c] = s
    <3>1. Task(s) \in Tasks
      BY <1>2, <2>2 DEF FreshTasks
    <3>2. stream'[s] = [stream[s] EXCEPT !.task = Task(s)]
      BY <1>3, <2>2
    <3> HIDE DEF Task
    <3> QED BY <2>1, <3>1, <3>2 DEF StreamRecords
  <2>3. CASE ~ \E c \in cameras : registry[c] = s
    BY <1>3, <2>1, <2>3
  <2> QED BY <2>2, <2>3
<1>7. stream' \in [Streams -> StreamRecords]
  BY <1>3, <1>6
<1> QED BY <1>4, <1>5, <1>6, <1>7

\* The reads of the capture of a stream that had one loop: nobody but the task t.
LEMMA NoOtherReads ==
  ASSUME IInv, NEW s \in Streams \ shared, NEW t \in Tasks,
         \A u \in LoopsOver(s) : u = t,
         stream[s].capture # Nil
  PROVE  OtherReads(t, stream[s].capture) = 0
<1> DEFINE k == stream[s].capture
           mine == loop[t].pc = "reading" /\ loop[t].cap = k
<1>1. k \in Captures
  BY DEF IInv, TypeOK
<1>2. abandoned[k] = 0
  BY DEF IInv, Tidy
<1>3. \A u \in Readers(k) : u = t
  BY <1>1 DEF IInv, LoopsPlaced, CapturesPlaced, Readers, LoopsOver, Awaiting
<1>4. k # Nil
  OBVIOUS
<1> HIDE DEF k
<1>5. CASE mine
  <2>1. Readers(k) = {t}
    BY <1>3, <1>5 DEF Readers
  <2>2. Cardinality(Readers(k)) = 1
    BY <2>1, FS_Singleton
  <2>3. InFlight(k) = 1
    BY <1>2, <2>2 DEF InFlight, Readers
  <2>4. OtherReads(t, k) = 0
    BY <1>4, <1>5, <2>3 DEF OtherReads
  <2> QED BY <2>4 DEF k
<1>6. CASE ~mine
  <2>1. Readers(k) = {}
    BY <1>3, <1>6 DEF Readers
  <2>2. Cardinality(Readers(k)) = 0
    BY <2>1, FS_EmptySet
  <2>3. InFlight(k) = 0
    BY <1>2, <2>2 DEF InFlight, Readers
  <2>4. OtherReads(t, k) = InFlight(k) - 0
    BY <1>4, <1>6 DEF OtherReads
  <2>5. OtherReads(t, k) = 0
    BY <2>3, <2>4
  <2> QED BY <2>5 DEF k
<1> QED BY <1>5, <1>6

-----------------------------------------------------------------------------
(* The steps, by what they do to a stream and its capture *)

\* Every variable keeps its type in the step.
Typed ==
    /\ running' \in BOOLEAN /\ monitor' \in BOOLEAN
    /\ registry' \in [Cameras -> Streams \cup {Nil}]
    /\ stream' \in [Streams -> StreamRecords]
    /\ loop' \in [Tasks -> LoopRecords]
    /\ capture' \in [Captures -> CaptureRecords]
    /\ abandoned' \in [Captures -> Nat]
    /\ request' \in [Requests -> RequestRecords]
    /\ shared' \in SUBSET Streams /\ raced' \in SUBSET Captures

\* The types as they are written in TypeOK, from the ones the proofs use.
LEMMA TypedTypes ==
  ASSUME Typed PROVE TypeOK' /\ request' \in [Requests -> RequestRecords]
<1>1. \A r \in Requests : /\ request'[r].kind \in {"none", "stop_stream", "stop"}
                          /\ request'[r].waits \subseteq Streams \X (Tasks \cup {Nil})
  <2> SUFFICES ASSUME NEW r \in Requests
               PROVE  /\ request'[r].kind \in {"none", "stop_stream", "stop"}
                      /\ request'[r].waits \subseteq Streams \X (Tasks \cup {Nil})
    OBVIOUS
  <2>1. request'[r] \in RequestRecords
    BY DEF Typed
  <2> QED BY <2>1 DEF RequestRecords
<1> QED BY <1>1 DEF Typed, TypeOK, StreamRecords, Statuses, LoopRecords, CaptureRecords

\* And back.
LEMMA TypesHeld ==
  ASSUME IInv
  PROVE  /\ running \in BOOLEAN /\ monitor \in BOOLEAN
         /\ registry \in [Cameras -> Streams \cup {Nil}]
         /\ stream \in [Streams -> StreamRecords]
         /\ loop \in [Tasks -> LoopRecords]
         /\ capture \in [Captures -> CaptureRecords]
         /\ abandoned \in [Captures -> Nat]
         /\ request \in [Requests -> RequestRecords]
         /\ shared \in SUBSET Streams /\ raced \in SUBSET Captures
BY DEF IInv, TypeOK, StreamRecords, Statuses, LoopRecords, CaptureRecords

\* The manager's steps: no capture is touched, and a task changes only by being
\* created.
LEMMA ManagerStep ==
  ASSUME IInv, Typed,
         UNCHANGED <<capture, abandoned, shared, raced>>,
         \A s \in Streams :
            /\ stream[s].made => /\ stream'[s].made
                                 /\ stream'[s].capture = stream[s].capture
            /\ ~stream[s].made => stream'[s].capture \in {stream[s].capture, Nil},
         \A t \in Tasks :
            \/ /\ loop'[t].pc = loop[t].pc /\ loop'[t].camera = loop[t].camera
               /\ loop'[t].stream = loop[t].stream /\ loop'[t].cap = loop[t].cap
            \/ loop[t].pc = "unused" /\ \E c \in Cameras : loop'[t] = Spawned(c),
         \A c \in Cameras : registry'[c] # Nil => stream'[registry'[c]].made
  PROVE  IInv'
<1>1. TypeOK' /\ request' \in [Requests -> RequestRecords]
  BY TypedTypes
<1>2. \A t \in Tasks :
        \/ /\ loop'[t].pc = loop[t].pc /\ loop'[t].camera = loop[t].camera
           /\ loop'[t].stream = loop[t].stream /\ loop'[t].cap = loop[t].cap
        \/ loop'[t].pc = "created" /\ loop'[t].camera \in Cameras
  <2>1. \A c \in Cameras : Spawned(c).pc = "created" /\ Spawned(c).camera = c
    BY DEF Spawned, NewLoop
  <2> QED BY <2>1
<1>3. LoopsPlaced'
  <2> SUFFICES ASSUME NEW t \in Tasks
               PROVE  /\ loop'[t].pc = "created" => loop'[t].camera \in Cameras
                      /\ loop'[t].pc \in Awaiting =>
                           loop'[t].stream \in Streams /\ stream'[loop'[t].stream].made
                      /\ loop'[t].pc = "reading" =>
                           /\ loop'[t].cap \in Captures
                           /\ capture'[loop'[t].cap].state # "unused"
                           /\ capture'[loop'[t].cap].stream = loop'[t].stream
    BY DEF LoopsPlaced
  <2>1. /\ loop[t].pc = "created" => loop[t].camera \in Cameras
        /\ loop[t].pc \in Awaiting => loop[t].stream \in Streams /\ stream[loop[t].stream].made
        /\ loop[t].pc = "reading" =>
              /\ loop[t].cap \in Captures
              /\ capture[loop[t].cap].state # "unused"
              /\ capture[loop[t].cap].stream = loop[t].stream
    BY DEF IInv, LoopsPlaced
  <2> QED BY <1>2, <2>1 DEF Awaiting
<1>4. RegistryMade'
  BY DEF RegistryMade
<1>5. CapturesPlaced'
  BY DEF IInv, CapturesPlaced
<1>6. ASSUME NEW s \in Streams \ shared PROVE Tidy(s)'
  <2>1. Tidy(s)
    BY DEF IInv
  <2>2. \A t \in LoopsOver(s)' : /\ t \in LoopsOver(s) /\ loop'[t].pc = loop[t].pc
                                 /\ loop'[t].cap = loop[t].cap
    BY <1>2 DEF LoopsOver, Awaiting
  <2>3. \A t \in LoopsOver(s)' : stream[s].made
    BY <2>2 DEF IInv, LoopsPlaced, LoopsOver
  <2>4. \A t, u \in LoopsOver(s)' : t = u
    BY <2>1, <2>2 DEF Tidy
  <2>5. \A t \in LoopsOver(s)' : loop'[t].pc = "reading" => loop'[t].cap = stream'[s].capture
    BY <2>1, <2>2, <2>3 DEF Tidy
  <2>6. stream'[s].capture # Nil => abandoned'[stream'[s].capture] = 0
    BY <2>1 DEF Tidy
  <2>7. \A k \in Captures : capture'[k].stream = s => abandoned'[k] <= 1
    BY <2>1 DEF Tidy
  <2> QED BY <2>4, <2>5, <2>6, <2>7 DEF Tidy
<1>7. ReleaseAwaitsReads'
  BY DEF IInv, ReleaseAwaitsReads
<1> QED BY <1>1, <1>3, <1>4, <1>5, <1>6, <1>7 DEF IInv

\* A loop goes on, or ends, without touching a capture.
LEMMA LoopStep ==
  ASSUME IInv, Typed, NEW t \in Tasks, NEW s, NEW new \in LoopRecords,
         UNCHANGED <<registry, capture, abandoned, raced>>,
         loop' = [loop EXCEPT ![t] = new],
         \A x \in Streams : /\ stream'[x].made = stream[x].made
                            /\ stream'[x].capture = stream[x].capture,
         new.pc \in {"done"} \cup Awaiting,
         new.pc # "done" => /\ new.stream = s /\ s \in Streams /\ stream[s].made
                            /\ (\A u \in LoopsOver(s) : u = t) \/ s \in shared',
         new.pc = "reading" => new.cap = stream[s].capture /\ new.cap # Nil,
         shared \subseteq shared'
  PROVE  IInv'
<1>1. TypeOK' /\ request' \in [Requests -> RequestRecords]
  BY TypedTypes
<1>2. /\ loop'[t] = new
      /\ \A u \in Tasks : u # t => loop'[u] = loop[u]
  BY TypesHeld
<1>3. new.pc = "reading" => /\ new.cap \in Captures /\ capture[new.cap].state # "unused"
                            /\ capture[new.cap].stream = s
  BY DEF IInv, CapturesPlaced, TypeOK
<1>4. LoopsPlaced'
  <2> SUFFICES ASSUME NEW u \in Tasks
               PROVE  /\ loop'[u].pc = "created" => loop'[u].camera \in Cameras
                      /\ loop'[u].pc \in Awaiting =>
                           loop'[u].stream \in Streams /\ stream'[loop'[u].stream].made
                      /\ loop'[u].pc = "reading" =>
                           /\ loop'[u].cap \in Captures
                           /\ capture'[loop'[u].cap].state # "unused"
                           /\ capture'[loop'[u].cap].stream = loop'[u].stream
    BY DEF LoopsPlaced
  <2>1. CASE u = t
    BY <1>2, <1>3, <2>1 DEF Awaiting
  <2>2. CASE u # t
    BY <1>2, <2>2 DEF IInv, LoopsPlaced
  <2> QED BY <2>1, <2>2
<1>5. RegistryMade'
  BY TypesHeld DEF IInv, RegistryMade
<1>6. CapturesPlaced'
  BY DEF IInv, CapturesPlaced
<1>7. ASSUME NEW x \in Streams \ shared' PROVE Tidy(x)'
  <2>1. Tidy(x)
    BY <1>7 DEF IInv
  <2>2. \A u \in LoopsOver(x)' : IF u = t THEN x = s /\ new.pc # "done" ELSE u \in LoopsOver(x)
    BY <1>2 DEF LoopsOver, Awaiting
  <2>3. \A u, v \in LoopsOver(x)' : u = v
    BY <2>1, <2>2 DEF Tidy
  <2>4. \A u \in LoopsOver(x)' : loop'[u].pc = "reading" => loop'[u].cap = stream'[x].capture
    BY <1>2, <2>1, <2>2 DEF Tidy
  <2>5. stream'[x].capture # Nil => abandoned'[stream'[x].capture] = 0
    BY <2>1 DEF Tidy
  <2>6. \A k \in Captures : capture'[k].stream = x => abandoned'[k] <= 1
    BY <2>1 DEF Tidy
  <2> QED BY <2>3, <2>4, <2>5, <2>6 DEF Tidy
<1>8. ReleaseAwaitsReads'
  BY DEF IInv, ReleaseAwaitsReads
<1> QED BY <1>1, <1>4, <1>5, <1>6, <1>7, <1>8 DEF IInv

\* A loop releases the capture of its stream, and ends or pauses.
LEMMA ReleaseStep ==
  ASSUME IInv, Typed, NEW t \in Tasks, NEW s \in Streams, NEW new \in LoopRecords,
         UNCHANGED <<registry, abandoned>>,
         Release(stream[s].capture, OtherReads(t, stream[s].capture)),
         loop' = [loop EXCEPT ![t] = new],
         stream'[s].capture = Nil,
         \A x \in Streams : /\ stream'[x].made = stream[x].made
                            /\ x # s => stream'[x].capture = stream[x].capture,
         new.pc \in {"done", "paused"},
         new.stream = s, stream[s].made,
         (\A u \in LoopsOver(s) : u = t) \/ s \in shared',
         shared \subseteq shared'
  PROVE  IInv'
<1> DEFINE k == stream[s].capture
<1>1. TypeOK' /\ request' \in [Requests -> RequestRecords]
  BY TypedTypes
<1>2. /\ loop'[t] = new
      /\ \A u \in Tasks : u # t => loop'[u] = loop[u]
  BY TypesHeld
<1>3. k \in Captures \cup {Nil} /\ (k # Nil => capture[k].stream = s /\ capture[k].state # "unused")
  BY DEF IInv, TypeOK, CapturesPlaced
<1>4. /\ \A j \in Captures : /\ capture'[j].stream = capture[j].stream
                             /\ capture'[j].state = "unused" <=> capture[j].state = "unused"
      /\ raced' \subseteq raced \cup ({k} \ {Nil})
      /\ k # Nil /\ s \notin shared' => raced' = raced
  <2>1. CASE k = Nil
    BY <2>1 DEF Release
  <2>2. CASE k # Nil
    <3>1. s \notin shared' => OtherReads(t, k) = 0
      BY <2>2, NoOtherReads
    <3>2. /\ capture' = [capture EXCEPT ![k].state = "released"]
          /\ raced' = IF OtherReads(t, k) > 0 THEN raced \cup {k} ELSE raced
      BY <2>2 DEF Release
    <3> HIDE DEF k
    <3>3. \A j \in Captures : capture[j] \in CaptureRecords
      BY TypesHeld
    <3>4. k \in Captures
      BY <1>3, <2>2
    <3>5. \A j \in Captures : /\ capture'[j].stream = capture[j].stream
                              /\ capture'[j].state = "unused" <=> capture[j].state = "unused"
      BY <1>3, <2>2, <3>2, <3>3, <3>4, TypesHeld DEF CaptureRecords
    <3> QED BY <2>2, <3>1, <3>2, <3>5
  <2> QED BY <2>1, <2>2
<1>5. LoopsPlaced'
  <2> SUFFICES ASSUME NEW u \in Tasks
               PROVE  /\ loop'[u].pc = "created" => loop'[u].camera \in Cameras
                      /\ loop'[u].pc \in Awaiting =>
                           loop'[u].stream \in Streams /\ stream'[loop'[u].stream].made
                      /\ loop'[u].pc = "reading" =>
                           /\ loop'[u].cap \in Captures
                           /\ capture'[loop'[u].cap].state # "unused"
                           /\ capture'[loop'[u].cap].stream = loop'[u].stream
    BY DEF LoopsPlaced
  <2>1. CASE u = t
    BY <1>2, <2>1 DEF Awaiting
  <2>2. CASE u # t
    BY <1>2, <1>4, <2>2 DEF IInv, LoopsPlaced
  <2> QED BY <2>1, <2>2
<1>6. RegistryMade'
  BY TypesHeld DEF IInv, RegistryMade
<1>7. CapturesPlaced'
  <2>1. \A x \in Streams : stream'[x].capture # Nil =>
          stream'[x].capture = stream[x].capture /\ stream[x].capture \in Captures
    BY DEF IInv, TypeOK
  <2>2. \A x \in Streams : stream'[x].capture # Nil =>
          /\ capture'[stream'[x].capture].state # "unused"
          /\ capture'[stream'[x].capture].stream = x
    BY <1>4, <2>1 DEF IInv, CapturesPlaced
  <2>3. \A j \in Captures : IF capture'[j].state = "unused" THEN abandoned'[j] = 0 /\ j \notin raced'
                            ELSE capture'[j].stream \in Streams
    BY <1>3, <1>4 DEF IInv, CapturesPlaced
  <2> QED BY <2>2, <2>3 DEF CapturesPlaced
<1>8. ASSUME NEW x \in Streams \ shared' PROVE Tidy(x)'
  <2>1. Tidy(x)
    BY <1>8 DEF IInv
  <2>2. \A u \in LoopsOver(x)' : IF u = t THEN x = s /\ new.pc = "paused" ELSE u \in LoopsOver(x)
    BY <1>2 DEF LoopsOver, Awaiting
  <2>3. \A u, v \in LoopsOver(x)' : u = v
    BY <2>1, <2>2, <1>8 DEF Tidy
  <2>4. \A u \in LoopsOver(x)' : loop'[u].pc = "reading" => u # t /\ x # s
    BY <1>2, <1>8, <2>2
  <2>5. \A u \in LoopsOver(x)' : loop'[u].pc = "reading" => loop'[u].cap = stream'[x].capture
    BY <1>2, <2>1, <2>2, <2>4 DEF Tidy
  <2>6. stream'[x].capture # Nil => abandoned'[stream'[x].capture] = 0
    BY <2>1 DEF Tidy
  <2>7. \A j \in Captures : capture'[j].stream = x => abandoned'[j] <= 1
    BY <1>4, <2>1 DEF Tidy
  <2> QED BY <2>3, <2>5, <2>6, <2>7 DEF Tidy
<1>9. ReleaseAwaitsReads'
  BY <1>3, <1>4 DEF IInv, ReleaseAwaitsReads, TypeOK
<1> QED BY <1>1, <1>5, <1>6, <1>7, <1>8, <1>9 DEF IInv

\* What Release leaves of the captures' types.
LEMMA ReleaseTypes ==
  ASSUME IInv, NEW k \in Captures \cup {Nil}, NEW n, Release(k, n)
  PROVE  capture' \in [Captures -> CaptureRecords] /\ raced' \in SUBSET Captures
<1>1. CASE k = Nil
  BY <1>1, TypesHeld DEF Release
<1>2. CASE k # Nil
  <2> DEFINE new == [capture[k] EXCEPT !.state = "released"]
  <2>1. k \in Captures
    BY <1>2
  <2>2. new \in CaptureRecords
    BY <2>1, TypesHeld DEF CaptureRecords
  <2>3. capture' = [capture EXCEPT ![k] = new] /\ raced' \subseteq raced \cup {k}
    BY <1>2 DEF Release
  <2> HIDE DEF new
  <2> QED BY <2>1, <2>2, <2>3, TypesHeld
<1> QED BY <1>1, <1>2

\* The finally block of a loop that runs.
LEMMA ExitStep ==
  ASSUME IInv, NEW t \in Tasks, loop[t].pc \in Awaiting, Exit(t, loop[t].stream),
         UNCHANGED <<world, abandoned, shared>>
  PROVE  IInv'
<1> DEFINE s == loop[t].stream
           k == stream[s].capture
           new == [loop[t] EXCEPT !.pc = "done", !.cap = Nil]
           fresh == [stream[s] EXCEPT !.capture = Nil, !.status = "offline"]
<1>1. s \in Streams /\ stream[s].made
  BY DEF IInv, LoopsPlaced
<1>2. \/ s \in shared'
      \/ \A u \in LoopsOver(s) : u = t
  <2>1. t \in LoopsOver(s)
    BY DEF LoopsOver
  <2> QED BY <1>1, <2>1 DEF IInv, Tidy
<1>3. loop[t] \in LoopRecords /\ stream[s] \in StreamRecords /\ k \in Captures \cup {Nil}
  BY <1>1, TypesHeld DEF StreamRecords
<1>4. loop' = [loop EXCEPT ![t] = new] /\ stream' = [stream EXCEPT ![s] = fresh]
  BY DEF Exit
<1>5. new \in LoopRecords /\ new.stream = s /\ new.pc = "done"
  BY <1>3 DEF LoopRecords
<1>6. fresh \in StreamRecords /\ fresh.made = stream[s].made /\ fresh.capture = Nil
  <2> HIDE DEF s
  <2> QED BY <1>3 DEF StreamRecords, Statuses
<1>7. Release(stream[s].capture, OtherReads(t, stream[s].capture))
  BY DEF Exit
<1> HIDE DEF new, fresh
<1>8. Typed
  <2>1. capture' \in [Captures -> CaptureRecords] /\ raced' \in SUBSET Captures
    BY <1>3, <1>7, ReleaseTypes
  <2> QED BY <1>1, <1>4, <1>5, <1>6, <2>1, TypesHeld DEF Typed, world
<1>9. /\ stream'[s].capture = Nil
      /\ \A x \in Streams : /\ stream'[x].made = stream[x].made
                            /\ x # s => stream'[x].capture = stream[x].capture
  BY <1>1, <1>4, <1>6, TypesHeld
<1> HIDE DEF s
<1> QED BY <1>1, <1>2, <1>4, <1>5, <1>7, <1>8, <1>9, ReleaseStep DEF world

-----------------------------------------------------------------------------
(* The steps that do more *)

\* The loop's while condition: on, or out through the finally block.
LEMMA HeadStep ==
  ASSUME IInv, NEW t \in Tasks, loop[t].pc \in Awaiting, NEW status \in Statuses,
         Head(t, loop[t].stream, status),
         UNCHANGED <<world, abandoned, shared>>
  PROVE  IInv'
<1> DEFINE s == loop[t].stream
           k == stream[s].capture
<1>1. s \in Streams /\ stream[s].made
  BY DEF IInv, LoopsPlaced
<1>2. \/ s \in shared'
      \/ \A u \in LoopsOver(s) : u = t
  <2>1. t \in LoopsOver(s)
    BY DEF LoopsOver
  <2> QED BY <1>1, <2>1 DEF IInv, Tidy
<1>3. loop[t] \in LoopRecords /\ stream[s] \in StreamRecords /\ k \in Captures \cup {Nil}
  BY <1>1, TypesHeld DEF StreamRecords
<1>4. CASE stream[s].running /\ running
  <2> DEFINE new == [loop[t] EXCEPT !.pc = IF k = Nil THEN "opening" ELSE "reading", !.cap = k]
             fresh == [stream[s] EXCEPT !.status = status]
  <2>1. loop' = [loop EXCEPT ![t] = new]
    BY <1>4 DEF Head
  <2>2. stream' = [stream EXCEPT ![s] = fresh] /\ UNCHANGED <<capture, raced>>
    BY <1>4 DEF Head
  <2>3. /\ new \in LoopRecords /\ new.stream = s /\ new.cap = k
        /\ new.pc = IF k = Nil THEN "opening" ELSE "reading"
    BY <1>3 DEF LoopRecords, Awaiting
  <2>4. fresh \in StreamRecords /\ fresh.made = stream[s].made /\ fresh.capture = k
    BY <1>3 DEF StreamRecords
  <2> HIDE DEF new, fresh, k
  <2>5. Typed
    BY <1>1, <2>1, <2>2, <2>3, <2>4, TypesHeld DEF Typed, world
  <2>6. \A x \in Streams : /\ stream'[x].made = stream[x].made
                           /\ stream'[x].capture = stream[x].capture
    BY <1>1, <2>2, <2>4, TypesHeld DEF k
  <2>7. new.pc \in Awaiting /\ (new.pc = "reading" => new.cap # Nil)
    BY <2>3 DEF Awaiting
  <2>8. new.cap = stream[s].capture
    BY <2>3 DEF k
  <2> HIDE DEF s
  <2> QED BY <1>1, <1>2, <2>1, <2>2, <2>3, <2>5, <2>6, <2>7, <2>8, LoopStep DEF world
<1>5. CASE ~(stream[s].running /\ running)
  <2>1. Exit(t, s)
    BY <1>5 DEF Head
  <2> QED BY <1>1, <1>2, <2>1, ExitStep DEF world
<1> QED BY <1>4, <1>5

-----------------------------------------------------------------------------
(* The loop's actions *)

\* A loop is over a stream that was made, and is the only one unless it is shared.
LEMMA LoopPlace ==
  ASSUME IInv, NEW t \in Tasks, loop[t].pc \in Awaiting
  PROVE  /\ loop[t].stream \in Streams /\ stream[loop[t].stream].made
         /\ loop[t].stream \in shared \/ \A u \in LoopsOver(loop[t].stream) : u = t
         /\ loop[t] \in LoopRecords /\ stream[loop[t].stream] \in StreamRecords
<1>1. loop[t].stream \in Streams /\ stream[loop[t].stream].made
  BY DEF IInv, LoopsPlaced
<1>2. t \in LoopsOver(loop[t].stream)
  BY DEF LoopsOver
<1> QED BY <1>1, <1>2, TypesHeld DEF IInv, Tidy

LEMMA BeginKeeps ==
  ASSUME IInv, NEW t \in Tasks, Begin(t) PROVE IInv'
<1> DEFINE s == registry[loop[t].camera]
           k == stream[s].capture
           done == [loop[t] EXCEPT !.pc = "done"]
           new == [loop[t] EXCEPT !.stream = s,
                                  !.pc = IF ~running THEN "done"
                                         ELSE IF k = Nil THEN "opening" ELSE "reading",
                                  !.cap = IF running THEN k ELSE Nil]
           fresh == [stream[s] EXCEPT !.running = TRUE,
                                      !.status = IF running THEN "connecting" ELSE "offline",
                                      !.capture = IF running THEN @ ELSE Nil]
<1>1. loop[t] \in LoopRecords /\ loop[t].camera \in Cameras
  BY TypesHeld DEF Begin, IInv, LoopsPlaced
<1>2. s \in Streams \cup {Nil} /\ (s # Nil => stream[s].made)
  BY <1>1, TypesHeld DEF IInv, RegistryMade
<1>3. CASE s = Nil
  <2>1. loop' = [loop EXCEPT ![t] = done] /\ UNCHANGED <<world, stream, capture, abandoned, raced, shared>>
    BY <1>3 DEF Begin
  <2>2. done \in LoopRecords /\ done.pc = "done"
    BY <1>1 DEF LoopRecords
  <2> HIDE DEF done
  <2>3. Typed
    BY <2>1, <2>2, TypesHeld DEF Typed, world
  <2> QED BY <2>1, <2>2, <2>3, LoopStep DEF world, Awaiting
<1>4. CASE s # Nil
  <2>1. s \in Streams /\ stream[s].made /\ stream[s] \in StreamRecords
    BY <1>2, <1>4, TypesHeld
  <2>2. k \in Captures \cup {Nil}
    BY <2>1 DEF StreamRecords
  <2>3. /\ stream' = [stream EXCEPT ![s] = fresh]
        /\ loop' = [loop EXCEPT ![t] = new]
        /\ shared' = IF LoopsOver(s) # {} THEN shared \cup {s} ELSE shared
        /\ UNCHANGED <<world, abandoned>>
    BY <1>4 DEF Begin
  <2>4. \/ running /\ UNCHANGED <<capture, raced>>
        \/ ~running /\ Release(k, OtherReads(t, k))
    BY <1>4 DEF Begin
  <2>5. (\A u \in LoopsOver(s) : u = t) \/ s \in shared'
    BY <2>3
  <2>6. /\ new \in LoopRecords /\ new.stream = s
        /\ new.pc = IF ~running THEN "done" ELSE IF k = Nil THEN "opening" ELSE "reading"
        /\ new.cap = IF running THEN k ELSE Nil
    <3> HIDE DEF s, k
    <3> QED BY <1>1, <2>1, <2>2 DEF LoopRecords, Awaiting
  <2>7. /\ fresh \in StreamRecords /\ fresh.made = stream[s].made
        /\ fresh.capture = IF running THEN stream[s].capture ELSE Nil
    <3> HIDE DEF s
    <3> QED BY <2>1 DEF StreamRecords, Statuses
  <2> HIDE DEF new, fresh
  <2>8. Typed
    <3>1. capture' \in [Captures -> CaptureRecords] /\ raced' \in SUBSET Captures
      BY <2>2, <2>4, ReleaseTypes, TypesHeld
    <3>2. shared' \in SUBSET Streams
      BY <2>1, <2>3, TypesHeld
    <3> HIDE DEF s, k
    <3> QED BY <2>1, <2>3, <2>6, <2>7, <3>1, <3>2, TypesHeld DEF Typed, world
  <2>9. \A x \in Streams : /\ stream'[x].made = stream[x].made
                           /\ x # s => stream'[x].capture = stream[x].capture
    BY <2>1, <2>3, <2>7, TypesHeld
  <2>10. stream'[s].capture = IF running THEN stream[s].capture ELSE Nil
    BY <2>1, <2>3, <2>7, TypesHeld
  <2>11. shared \subseteq shared'
    BY <2>3
  <2>12. CASE running
    <3>1. \A x \in Streams : /\ stream'[x].made = stream[x].made
                             /\ stream'[x].capture = stream[x].capture
      BY <2>9, <2>10, <2>12
    <3>2. UNCHANGED <<capture, raced>>
      BY <2>4, <2>12
    <3>3. /\ new.pc \in Awaiting
          /\ new.pc = "reading" => new.cap = stream[s].capture /\ new.cap # Nil
      BY <2>6, <2>12 DEF Awaiting
    <3> HIDE DEF s, k
    <3> QED BY <2>1, <2>3, <2>5, <2>6, <2>8, <2>11, <3>1, <3>2, <3>3, LoopStep DEF world
  <2>13. CASE ~running
    <3>1. Release(stream[s].capture, OtherReads(t, stream[s].capture))
      BY <2>4, <2>13
    <3>2. stream'[s].capture = Nil /\ new.pc = "done"
      BY <2>6, <2>10, <2>13
    <3> HIDE DEF s, k
    <3> QED BY <2>1, <2>3, <2>5, <2>6, <2>8, <2>9, <2>11, <3>1, <3>2, ReleaseStep DEF world
  <2> QED BY <2>12, <2>13
<1> QED BY <1>3, <1>4

LEMMA OpenedKeeps ==
  ASSUME IInv, NEW t \in Tasks, Opened(t) PROVE IInv'
<1> DEFINE s == loop[t].stream
           k == Any(FreshCaptures)
           new == [loop[t] EXCEPT !.pc = "reading", !.cap = k]
           fresh == [stream[s] EXCEPT !.capture = k, !.status = "active"]
           opened == [state |-> "open", stream |-> s]
<1>1. /\ s \in Streams /\ stream[s].made
      /\ s \in shared \/ \A u \in LoopsOver(s) : u = t
      /\ loop[t] \in LoopRecords /\ stream[s] \in StreamRecords
  BY LoopPlace DEF Opened, Awaiting
<1>2. k \in Captures /\ capture[k].state = "unused"
  BY DEF Opened, FreshCaptures, Any
<1>3. /\ loop' = [loop EXCEPT ![t] = new]
      /\ stream' = [stream EXCEPT ![s] = fresh]
      /\ capture' = [capture EXCEPT ![k] = opened]
      /\ UNCHANGED <<world, abandoned, shared, raced>>
  BY DEF Opened
<1> HIDE DEF s, k
<1>4. new \in LoopRecords /\ new.pc = "reading" /\ new.stream = s /\ new.cap = k
  BY <1>1, <1>2 DEF LoopRecords, Awaiting, s
<1>5. fresh \in StreamRecords /\ fresh.made = stream[s].made /\ fresh.capture = k
  BY <1>1, <1>2 DEF StreamRecords, Statuses
<1>6. opened \in CaptureRecords /\ opened.state = "open" /\ opened.stream = s
  BY <1>1 DEF CaptureRecords
<1> HIDE DEF new, fresh, opened
<1>7. Typed
  BY <1>1, <1>2, <1>3, <1>4, <1>5, <1>6, TypesHeld DEF Typed, world
<1>8. TypeOK' /\ request' \in [Requests -> RequestRecords]
  BY <1>7, TypedTypes
<1>9. /\ loop'[t] = new /\ \A u \in Tasks : u # t => loop'[u] = loop[u]
      /\ stream'[s].capture = k
      /\ \A x \in Streams : /\ stream'[x].made = stream[x].made
                            /\ x # s => stream'[x].capture = stream[x].capture
      /\ capture'[k] = opened /\ \A j \in Captures : j # k => capture'[j] = capture[j]
      /\ abandoned[k] = 0 /\ k \notin raced
  BY <1>1, <1>2, <1>3, <1>4, <1>5, TypesHeld DEF IInv, CapturesPlaced
<1>10. LoopsPlaced'
  <2> SUFFICES ASSUME NEW u \in Tasks
               PROVE  /\ loop'[u].pc = "created" => loop'[u].camera \in Cameras
                      /\ loop'[u].pc \in Awaiting =>
                           loop'[u].stream \in Streams /\ stream'[loop'[u].stream].made
                      /\ loop'[u].pc = "reading" =>
                           /\ loop'[u].cap \in Captures
                           /\ capture'[loop'[u].cap].state # "unused"
                           /\ capture'[loop'[u].cap].stream = loop'[u].stream
    BY DEF LoopsPlaced
  <2>1. CASE u = t
    BY <1>1, <1>2, <1>4, <1>6, <1>9, <2>1
  <2>2. CASE u # t
    BY <1>2, <1>9, <2>2 DEF IInv, LoopsPlaced
  <2> QED BY <2>1, <2>2
<1>11. RegistryMade'
  BY <1>3, <1>9, TypesHeld DEF IInv, RegistryMade, world
<1>12. CapturesPlaced'
  <2>1. \A x \in Streams : stream[x].capture # Nil => stream[x].capture # k
    BY <1>2 DEF IInv, CapturesPlaced
  <2>2. \A x \in Streams : stream[x].capture \in Captures \cup {Nil}
    BY DEF IInv, TypeOK
  <2>3. \A x \in Streams : stream'[x].capture # Nil =>
          /\ capture'[stream'[x].capture].state # "unused"
          /\ capture'[stream'[x].capture].stream = x
    <3> SUFFICES ASSUME NEW x \in Streams, stream'[x].capture # Nil
                 PROVE  /\ capture'[stream'[x].capture].state # "unused"
                        /\ capture'[stream'[x].capture].stream = x
      OBVIOUS
    <3>1. CASE x = s
      BY <1>6, <1>9, <3>1
    <3>2. CASE x # s
      BY <1>9, <2>1, <2>2, <3>2 DEF IInv, CapturesPlaced
    <3> QED BY <3>1, <3>2
  <2>4. \A j \in Captures : IF capture'[j].state = "unused" THEN abandoned'[j] = 0 /\ j \notin raced'
                            ELSE capture'[j].stream \in Streams
    BY <1>1, <1>3, <1>6, <1>9 DEF IInv, CapturesPlaced
  <2> QED BY <2>3, <2>4 DEF CapturesPlaced
<1>13. ASSUME NEW x \in Streams \ shared' PROVE Tidy(x)'
  <2>1. Tidy(x) /\ x \notin shared
    BY <1>3, <1>13 DEF IInv
  <2>2. \A u \in LoopsOver(x)' : IF u = t THEN x = s ELSE u \in LoopsOver(x)
    BY <1>4, <1>9 DEF LoopsOver, Awaiting
  <2>3. \A u \in LoopsOver(x)' : u \in LoopsOver(x)
    <3>1. t \in LoopsOver(s)
      BY DEF Opened, LoopsOver, Awaiting, s
    <3> QED BY <2>2, <3>1
  <2>4. \A u, v \in LoopsOver(x)' : u = v
    BY <2>1, <2>3 DEF Tidy
  <2>5. \A u \in LoopsOver(x)' : loop'[u].pc = "reading" => loop'[u].cap = stream'[x].capture
    <3> SUFFICES ASSUME NEW u \in LoopsOver(x)', loop'[u].pc = "reading"
                 PROVE  loop'[u].cap = stream'[x].capture
      OBVIOUS
    <3>1. CASE u = t
      BY <1>4, <1>9, <2>2, <3>1
    <3>2. CASE u # t
      <4>1. x # s
        BY <1>1, <2>1, <2>3, <3>2
      <4>2. u \in Tasks
        BY DEF LoopsOver
      <4> QED BY <1>9, <2>1, <2>3, <3>2, <4>1, <4>2 DEF Tidy
    <3> QED BY <3>1, <3>2
  <2>6. stream'[x].capture # Nil => abandoned'[stream'[x].capture] = 0
    BY <1>3, <1>9, <2>1 DEF Tidy
  <2>7. \A j \in Captures : capture'[j].stream = x => abandoned'[j] <= 1
    BY <1>3, <1>9, <2>1 DEF Tidy
  <2> QED BY <2>4, <2>5, <2>6, <2>7 DEF Tidy
<1>14. ReleaseAwaitsReads'
  BY <1>3, <1>9 DEF IInv, ReleaseAwaitsReads, TypeOK
<1> QED BY <1>8, <1>10, <1>11, <1>12, <1>13, <1>14 DEF IInv

LEMMA FrameKeeps ==
  ASSUME IInv, NEW t \in Tasks, OpenFailed(t) \/ Frame(t) PROVE IInv'
<1> DEFINE s == loop[t].stream
           new == [loop[t] EXCEPT !.pc = "paused", !.cap = IF OpenFailed(t) THEN @ ELSE Nil]
           fresh == [stream[s] EXCEPT !.status = IF OpenFailed(t) THEN "interrupted" ELSE "active",
                                      !.framed = IF OpenFailed(t) THEN @ ELSE TRUE]
<1>1. /\ s \in Streams /\ stream[s].made
      /\ s \in shared \/ \A u \in LoopsOver(s) : u = t
      /\ loop[t] \in LoopRecords /\ stream[s] \in StreamRecords
  BY LoopPlace DEF OpenFailed, Frame, Awaiting
<1>2. /\ loop' = [loop EXCEPT ![t] = new]
      /\ stream' = [stream EXCEPT ![s] = fresh]
      /\ UNCHANGED <<world, capture, abandoned, shared, raced>>
  <2>1. CASE OpenFailed(t)
    <3>1. new = [loop[t] EXCEPT !.pc = "paused"]
      BY <1>1, <2>1 DEF LoopRecords
    <3>2. fresh = [stream[s] EXCEPT !.status = "interrupted"]
      BY <1>1, <2>1 DEF StreamRecords
    <3> HIDE DEF new, fresh
    <3> QED BY <2>1, <3>1, <3>2 DEF OpenFailed
  <2>2. CASE ~OpenFailed(t)
    <3>1. new = [loop[t] EXCEPT !.pc = "paused", !.cap = Nil]
      BY <2>2
    <3>2. fresh = [stream[s] EXCEPT !.status = "active", !.framed = TRUE]
      BY <2>2
    <3>3. Frame(t)
      BY <2>2
    <3> HIDE DEF new, fresh
    <3> QED BY <3>1, <3>2, <3>3 DEF Frame
  <2> QED BY <2>1, <2>2
<1> HIDE DEF s
<1>3. new \in LoopRecords /\ new.pc = "paused" /\ new.stream = s
  BY <1>1 DEF LoopRecords, Awaiting, s
<1>4. fresh \in StreamRecords /\ fresh.made = stream[s].made /\ fresh.capture = stream[s].capture
  BY <1>1 DEF StreamRecords, Statuses
<1> HIDE DEF new, fresh
<1>5. Typed
  BY <1>1, <1>2, <1>3, <1>4, TypesHeld DEF Typed, world
<1>6. \A x \in Streams : /\ stream'[x].made = stream[x].made
                         /\ stream'[x].capture = stream[x].capture
  BY <1>1, <1>2, <1>4, TypesHeld
<1> QED BY <1>1, <1>2, <1>3, <1>5, <1>6, LoopStep DEF world, Awaiting

LEMMA LostKeeps ==
  ASSUME IInv, NEW t \in Tasks, Lost(t) PROVE IInv'
<1> DEFINE s == loop[t].stream
           k == stream[s].capture
           new == [loop[t] EXCEPT !.pc = "paused", !.cap = Nil]
           fresh == [stream[s] EXCEPT !.capture = Nil, !.status = "interrupted"]
<1>1. /\ s \in Streams /\ stream[s].made
      /\ s \in shared \/ \A u \in LoopsOver(s) : u = t
      /\ loop[t] \in LoopRecords /\ stream[s] \in StreamRecords
  BY LoopPlace DEF Lost, Awaiting
<1>2. /\ loop' = [loop EXCEPT ![t] = new]
      /\ stream' = [stream EXCEPT ![s] = fresh]
      /\ Release(stream[s].capture, OtherReads(t, stream[s].capture))
      /\ UNCHANGED <<world, abandoned, shared>>
  BY DEF Lost
<1>3. stream[s].capture \in Captures \cup {Nil}
  BY <1>1 DEF StreamRecords
<1>4. new \in LoopRecords /\ new.pc = "paused" /\ new.stream = s
  BY <1>1 DEF LoopRecords, Awaiting
<1>5. fresh \in StreamRecords /\ fresh.made = stream[s].made /\ fresh.capture = Nil
  <2> HIDE DEF s
  <2> QED BY <1>1 DEF StreamRecords, Statuses
<1> HIDE DEF s, new, fresh
<1>6. Typed
  <2>1. capture' \in [Captures -> CaptureRecords] /\ raced' \in SUBSET Captures
    BY <1>2, <1>3, ReleaseTypes
  <2> QED BY <1>1, <1>2, <1>4, <1>5, <2>1, TypesHeld DEF Typed, world
<1>7. /\ stream'[s].capture = Nil
      /\ \A x \in Streams : /\ stream'[x].made = stream[x].made
                            /\ x # s => stream'[x].capture = stream[x].capture
  BY <1>1, <1>2, <1>5, TypesHeld
<1> QED BY <1>1, <1>2, <1>4, <1>6, <1>7, ReleaseStep DEF world

LEMMA HeadKeeps ==
  ASSUME IInv, NEW t \in Tasks, Missed(t) \/ Resume(t) PROVE IInv'
<1> DEFINE status == IF Missed(t) THEN "interrupted" ELSE stream[loop[t].stream].status
<1>1. loop[t].pc \in Awaiting /\ UNCHANGED <<world, abandoned, shared>>
  BY DEF Missed, Resume, Awaiting
<1>2. stream[loop[t].stream] \in StreamRecords
  BY <1>1, LoopPlace
<1>3. status \in Statuses
  BY <1>2 DEF StreamRecords, Statuses
<1>4. Head(t, loop[t].stream, status)
  BY DEF Missed, Resume
<1> HIDE DEF status
<1> QED BY <1>1, <1>3, <1>4, HeadStep

\* A cancelled read: the capture is left to the read that is in flight.
Abandon(t) ==
    /\ loop' = [loop EXCEPT ![t].pc = "done", ![t].cap = Nil]
    /\ abandoned' = [abandoned EXCEPT ![loop[t].cap] = @ + 1]
    /\ stream' = [stream EXCEPT ![loop[t].stream].capture = Nil,
                                ![loop[t].stream].status = "offline"]
    /\ UNCHANGED <<world, capture, shared, raced>>

LEMMA AbandonedKeeps ==
  ASSUME IInv, NEW t \in Tasks, loop[t].pc = "reading", Abandon(t) PROVE IInv'
<1> DEFINE s == loop[t].stream
           k == loop[t].cap
           new == [loop[t] EXCEPT !.pc = "done", !.cap = Nil]
           fresh == [stream[s] EXCEPT !.capture = Nil, !.status = "offline"]
<1>1. /\ s \in Streams /\ stream[s].made
      /\ loop[t] \in LoopRecords /\ stream[s] \in StreamRecords
  BY LoopPlace DEF Awaiting
<1>2. k \in Captures /\ capture[k].state # "unused" /\ capture[k].stream = s
  BY DEF IInv, LoopsPlaced
<1>3. /\ loop' = [loop EXCEPT ![t] = new]
      /\ stream' = [stream EXCEPT ![s] = fresh]
      /\ abandoned' = [abandoned EXCEPT ![k] = abandoned[k] + 1]
      /\ UNCHANGED <<world, capture, shared, raced>>
  BY DEF Abandon
<1>4. new \in LoopRecords /\ new.pc = "done"
  BY <1>1 DEF LoopRecords
<1>5. fresh \in StreamRecords /\ fresh.made = stream[s].made /\ fresh.capture = Nil
  <2> HIDE DEF s
  <2> QED BY <1>1 DEF StreamRecords, Statuses
<1>6. s \notin shared => stream[s].capture = k
  <2>1. t \in LoopsOver(s)
    BY DEF LoopsOver, Awaiting
  <2> QED BY <1>1, <2>1 DEF IInv, Tidy
<1> HIDE DEF s, k, new, fresh
<1>7. /\ abandoned' \in [Captures -> Nat] /\ abandoned'[k] = abandoned[k] + 1
      /\ \A j \in Captures : j # k => abandoned'[j] = abandoned[j]
  BY <1>2, <1>3, TypesHeld
<1>8. Typed
  <2>1. stream' \in [Streams -> StreamRecords] /\ loop' \in [Tasks -> LoopRecords]
    BY <1>1, <1>3, <1>4, <1>5, TypesHeld
  <2> QED BY <1>3, <1>7, <2>1, TypesHeld DEF Typed, world
<1>9. TypeOK' /\ request' \in [Requests -> RequestRecords]
  BY <1>8, TypedTypes
<1>10. /\ loop'[t] = new /\ \A u \in Tasks : u # t => loop'[u] = loop[u]
       /\ stream'[s].capture = Nil
       /\ \A x \in Streams : /\ stream'[x].made = stream[x].made
                             /\ x # s => stream'[x].capture = stream[x].capture
       /\ \A x \in Streams : stream'[x].capture # Nil => stream'[x].capture = stream[x].capture
  BY <1>1, <1>3, <1>5, TypesHeld
<1>11. LoopsPlaced'
  <2>1. \A u \in Tasks : loop'[u].pc \in {"created"} \cup Awaiting => u # t /\ loop'[u] = loop[u]
    BY <1>4, <1>10 DEF Awaiting
  <2> QED BY <1>3, <1>10, <2>1 DEF IInv, LoopsPlaced, Awaiting
<1>12. RegistryMade'
  BY <1>3, <1>10, TypesHeld DEF IInv, RegistryMade, world
<1>13. CapturesPlaced'
  BY <1>2, <1>3, <1>7, <1>10 DEF IInv, CapturesPlaced
<1>14. ASSUME NEW x \in Streams \ shared' PROVE Tidy(x)'
  <2>1. Tidy(x) /\ x \notin shared
    BY <1>3, <1>14 DEF IInv
  <2>2. \A u \in LoopsOver(x)' : u \in LoopsOver(x) /\ u # t /\ loop'[u] = loop[u]
    BY <1>4, <1>10 DEF LoopsOver, Awaiting
  <2>3. \A u, v \in LoopsOver(x)' : u = v
    BY <2>1, <2>2 DEF Tidy
  <2>4. x = s => LoopsOver(x)' = {}
    <3>1. t \in LoopsOver(s)
      BY DEF LoopsOver, Awaiting, s
    <3> QED BY <2>1, <2>2, <3>1 DEF Tidy
  <2>5. \A u \in LoopsOver(x)' : loop'[u].pc = "reading" => loop'[u].cap = stream'[x].capture
    BY <1>10, <2>1, <2>2, <2>4 DEF Tidy
  <2>6. stream'[x].capture # Nil => abandoned'[stream'[x].capture] = 0
    <3> SUFFICES ASSUME stream'[x].capture # Nil PROVE abandoned'[stream'[x].capture] = 0
      OBVIOUS
    <3>1. x # s /\ stream'[x].capture = stream[x].capture
      BY <1>10
    <3>2. capture[stream[x].capture].stream = x /\ stream[x].capture \in Captures
      BY <3>1 DEF IInv, CapturesPlaced, TypeOK
    <3>3. stream[x].capture # k
      BY <1>2, <3>1, <3>2
    <3> QED BY <1>7, <2>1, <3>1, <3>2, <3>3 DEF Tidy
  <2>7. \A j \in Captures : capture'[j].stream = x => abandoned'[j] <= 1
    <3> SUFFICES ASSUME NEW j \in Captures, capture'[j].stream = x PROVE abandoned'[j] <= 1
      OBVIOUS
    <3>1. CASE j = k
      <4>1. x = s
        BY <1>2, <1>3, <3>1
      <4>2. abandoned[k] = 0
        BY <1>2, <1>6, <2>1, <4>1, NilAssumption DEF Tidy
      <4> QED BY <1>7, <3>1, <4>2
    <3>2. CASE j # k
      BY <1>3, <1>7, <2>1, <3>2 DEF Tidy
    <3> QED BY <3>1, <3>2
  <2> QED BY <2>3, <2>5, <2>6, <2>7 DEF Tidy
<1>15. ReleaseAwaitsReads'
  BY <1>3 DEF IInv, ReleaseAwaitsReads
<1> QED BY <1>9, <1>11, <1>12, <1>13, <1>14, <1>15 DEF IInv

LEMMA CancelledKeeps ==
  ASSUME IInv, NEW t \in Tasks, Cancelled(t) PROVE IInv'
<1> DEFINE new == [loop[t] EXCEPT !.pc = "done"]
<1>1. UNCHANGED <<world, shared>>
  BY DEF Cancelled
<1>2. CASE /\ loop[t].pc = "created"
           /\ loop' = [loop EXCEPT ![t].pc = "done"]
           /\ UNCHANGED <<stream, capture, abandoned, raced>>
  <2>1. loop' = [loop EXCEPT ![t] = new]
    BY <1>2
  <2>2. new \in LoopRecords /\ new.pc = "done"
    BY TypesHeld DEF LoopRecords
  <2> HIDE DEF new
  <2>3. Typed
    BY <1>1, <1>2, <2>1, <2>2, TypesHeld DEF Typed, world
  <2> QED BY <1>1, <1>2, <2>1, <2>2, <2>3, LoopStep DEF world
<1>3. CASE /\ loop[t].pc \in {"opening", "paused"}
           /\ Exit(t, loop[t].stream)
           /\ UNCHANGED abandoned
  BY <1>1, <1>3, ExitStep DEF Awaiting
<1>4. CASE /\ loop[t].pc = "reading"
           /\ abandoned' = [abandoned EXCEPT ![loop[t].cap] = @ + 1]
           /\ stream' = [stream EXCEPT ![loop[t].stream].capture = Nil,
                                       ![loop[t].stream].status = "offline"]
           /\ loop' = [loop EXCEPT ![t].pc = "done", ![t].cap = Nil]
           /\ UNCHANGED <<capture, raced>>
  BY <1>1, <1>4, AbandonedKeeps DEF Abandon
<1> QED BY <1>2, <1>3, <1>4 DEF Cancelled

\* The abandoned read has returned, and its capture is released.
LEMMA ReadReturnsKeeps ==
  ASSUME IInv, NEW k \in Captures, ReadReturns(k) PROVE IInv'
<1> DEFINE s == capture[k].stream
           new == [capture[k] EXCEPT !.state = "released"]
<1>1. abandoned[k] \in Nat /\ abandoned[k] > 0 /\ capture[k] \in CaptureRecords
  BY TypesHeld DEF ReadReturns
<1>2. capture[k].state # "unused" /\ s \in Streams
  BY <1>1 DEF IInv, CapturesPlaced
<1>3. s \notin shared => abandoned[k] = 1 /\ Readers(k) = {}
  <2> SUFFICES ASSUME s \notin shared PROVE abandoned[k] = 1 /\ Readers(k) = {}
    OBVIOUS
  <2>1. Tidy(s)
    BY <1>2 DEF IInv
  <2>2. abandoned[k] = 1
    BY <1>1, <2>1 DEF Tidy
  <2>3. stream[s].capture # k
    BY <2>1, <2>2, NilAssumption DEF Tidy
  <2>4. \A u \in Readers(k) : u \in LoopsOver(s) /\ loop[u].pc = "reading" /\ loop[u].cap = k
    BY DEF IInv, LoopsPlaced, Readers, LoopsOver, Awaiting
  <2>5. Readers(k) = {}
    BY <2>1, <2>3, <2>4 DEF Tidy
  <2> QED BY <2>2, <2>5
<1>4. s \notin shared => InFlight(k) - 1 = 0
  <2> SUFFICES ASSUME s \notin shared PROVE InFlight(k) - 1 = 0
    OBVIOUS
  <2>1. Cardinality(Readers(k)) = 0
    BY <1>3, FS_EmptySet
  <2>2. InFlight(k) = 1
    BY <1>3, <2>1 DEF InFlight, Readers
  <2> QED BY <2>2
<1>5. /\ capture' = [capture EXCEPT ![k] = new]
      /\ raced' \subseteq raced \cup {k}
      /\ s \notin shared => raced' = raced
      /\ abandoned' = [abandoned EXCEPT ![k] = @ - 1]
      /\ UNCHANGED <<world, stream, loop, shared>>
  <2>1. k # Nil
    BY NilAssumption
  <2> QED BY <1>4, <2>1 DEF ReadReturns, Release
<1>6. new \in CaptureRecords /\ new.state = "released" /\ new.stream = s
  BY <1>1 DEF CaptureRecords
<1> HIDE DEF s, new
<1>7. /\ capture'[k] = new /\ \A j \in Captures : j # k => capture'[j] = capture[j]
      /\ abandoned'[k] = abandoned[k] - 1
      /\ \A j \in Captures : j # k => abandoned'[j] = abandoned[j]
  BY <1>5, TypesHeld
<1>8. abandoned' \in [Captures -> Nat]
  BY <1>1, <1>5, TypesHeld
<1>9. Typed
  BY <1>5, <1>6, <1>8, TypesHeld DEF Typed, world
<1>10. TypeOK' /\ request' \in [Requests -> RequestRecords]
  BY <1>9, TypedTypes
<1>11. \A j \in Captures : /\ capture'[j].stream = capture[j].stream
                           /\ capture'[j].state = "unused" <=> capture[j].state = "unused"
                           /\ abandoned'[j] <= abandoned[j]
  BY <1>1, <1>2, <1>6, <1>7, TypesHeld DEF s
<1>12. LoopsPlaced'
  BY <1>5, <1>11 DEF IInv, LoopsPlaced
<1>13. RegistryMade'
  BY <1>5 DEF IInv, RegistryMade, world
<1>14. CapturesPlaced'
  <2>1. \A x \in Streams : stream[x].capture \in Captures \cup {Nil}
    BY DEF IInv, TypeOK
  <2>2. \A x \in Streams : stream'[x].capture # Nil =>
          /\ capture'[stream'[x].capture].state # "unused"
          /\ capture'[stream'[x].capture].stream = x
    BY <1>5, <1>11, <2>1 DEF IInv, CapturesPlaced
  <2>3. \A j \in Captures : IF capture'[j].state = "unused" THEN abandoned'[j] = 0 /\ j \notin raced'
                            ELSE capture'[j].stream \in Streams
    BY <1>2, <1>5, <1>7, <1>11 DEF IInv, CapturesPlaced
  <2> QED BY <2>2, <2>3 DEF CapturesPlaced
<1>15. ASSUME NEW x \in Streams \ shared' PROVE Tidy(x)'
  <2>1. Tidy(x)
    BY <1>5, <1>15 DEF IInv
  <2>2. LoopsOver(x)' = LoopsOver(x)
    BY <1>5 DEF LoopsOver
  <2>3. stream'[x].capture # Nil => abandoned'[stream'[x].capture] = 0
    <3> SUFFICES ASSUME stream[x].capture # Nil PROVE abandoned'[stream[x].capture] = 0
      BY <1>5
    <3>1. abandoned[stream[x].capture] = 0 /\ stream[x].capture \in Captures
      BY <2>1 DEF Tidy, IInv, TypeOK
    <3> QED BY <1>1, <1>7, <3>1
  <2>4. \A j \in Captures : capture'[j].stream = x => abandoned'[j] <= 1
    <3> SUFFICES ASSUME NEW j \in Captures, capture'[j].stream = x PROVE abandoned'[j] <= 1
      OBVIOUS
    <3>1. abandoned[j] <= 1 /\ abandoned[j] \in Nat /\ abandoned'[j] \in Nat
      BY <1>8, <1>11, <2>1, TypesHeld DEF Tidy
    <3> QED BY <1>11, <3>1
  <2> QED BY <1>5, <2>1, <2>2, <2>3, <2>4 DEF Tidy
<1>16. ReleaseAwaitsReads'
  BY <1>5, <1>11 DEF IInv, ReleaseAwaitsReads, TypeOK, s
<1> QED BY <1>10, <1>12, <1>13, <1>14, <1>15, <1>16 DEF IInv

-----------------------------------------------------------------------------
(* The manager's actions *)

LEMMA AddStreamKeeps ==
  ASSUME IInv, NEW c \in Cameras, AddStream(c) PROVE IInv'
<1> DEFINE s == Any(FreshStreams)
           fresh == [NewStream EXCEPT !.made = TRUE]
           old(x) == [stream[x] EXCEPT !.running = FALSE]
<1>1. s \in Streams /\ ~stream[s].made
  BY DEF AddStream, FreshStreams, Any
<1>2. /\ registry' = [registry EXCEPT ![c] = s]
      /\ stream' = [x \in Streams |-> IF x = s THEN fresh
                                      ELSE IF x = registry[c] THEN old(x) ELSE stream[x]]
      /\ UNCHANGED <<running, monitor, loop, capture, abandoned, request, shared, raced>>
  BY DEF AddStream
<1>3. fresh \in StreamRecords /\ fresh.made /\ fresh.capture = Nil
  BY DEF NewStream, StreamRecords, Statuses
<1>4. \A x \in Streams : /\ old(x) \in StreamRecords /\ old(x).made = stream[x].made
                         /\ old(x).capture = stream[x].capture
  <2> TAKE x \in Streams
  <2>1. stream[x] \in StreamRecords
    BY TypesHeld
  <2> QED BY <2>1 DEF StreamRecords
<1> HIDE DEF s, fresh, old
<1>5. \A x \in Streams : /\ stream'[x] \in StreamRecords
                         /\ stream[x].made => /\ stream'[x].made
                                              /\ stream'[x].capture = stream[x].capture
                         /\ ~stream[x].made => stream'[x].capture \in {stream[x].capture, Nil}
  BY <1>1, <1>2, <1>3, <1>4, TypesHeld
<1>6. Typed
  <2>1. stream' \in [Streams -> StreamRecords]
    BY <1>2, <1>5
  <2> QED BY <1>1, <1>2, <2>1, TypesHeld DEF Typed
<1>7. \A d \in Cameras : registry'[d] # Nil => stream'[registry'[d]].made
  <2>1. stream'[s].made
    BY <1>1, <1>2, <1>3
  <2>2. \A d \in Cameras : registry'[d] = s \/ registry'[d] = registry[d]
    BY <1>2, TypesHeld
  <2> QED BY <1>5, <2>1, <2>2, TypesHeld DEF IInv, RegistryMade
<1> QED BY <1>2, <1>5, <1>6, <1>7, ManagerStep

\* A step of the manager that touches neither a capture of a stream nor a task.
LEMMA QuietStep ==
  ASSUME IInv, Typed,
         UNCHANGED <<capture, abandoned, shared, raced>>,
         \A s \in Streams : /\ stream'[s].made = stream[s].made
                            /\ stream'[s].capture = stream[s].capture,
         \A t \in Tasks :
            /\ loop'[t].pc = loop[t].pc /\ loop'[t].camera = loop[t].camera
            /\ loop'[t].stream = loop[t].stream /\ loop'[t].cap = loop[t].cap,
         \A c \in Cameras : registry'[c] \in {registry[c], Nil}
  PROVE  IInv'
<1>1. \A c \in Cameras : registry'[c] # Nil => stream'[registry'[c]].made
  BY TypesHeld DEF IInv, RegistryMade
<1> QED BY <1>1, ManagerStep

LEMMA RemoveStreamKeeps ==
  ASSUME IInv, NEW c \in Cameras, RemoveStream(c) PROVE IInv'
<1> DEFINE s == registry[c]
           new == [stream[s] EXCEPT !.running = FALSE]
<1>1. s \in Streams /\ stream[s] \in StreamRecords
  BY TypesHeld DEF RemoveStream
<1>2. /\ registry' = [registry EXCEPT ![c] = Nil]
      /\ stream' = [stream EXCEPT ![s] = new]
      /\ UNCHANGED <<running, monitor, loop, capture, abandoned, request, shared, raced>>
  BY DEF RemoveStream
<1>3. new \in StreamRecords /\ new.made = stream[s].made /\ new.capture = stream[s].capture
  <2> HIDE DEF s
  <2> QED BY <1>1 DEF StreamRecords
<1> HIDE DEF s, new
<1>4. Typed
  BY <1>1, <1>2, <1>3, TypesHeld DEF Typed
<1>5. \A x \in Streams : /\ stream'[x].made = stream[x].made
                         /\ stream'[x].capture = stream[x].capture
  BY <1>1, <1>2, <1>3, TypesHeld
<1>6. \A d \in Cameras : registry'[d] \in {registry[d], Nil}
  BY <1>2, TypesHeld
<1> QED BY <1>2, <1>4, <1>5, <1>6, QuietStep

LEMMA StartKeeps ==
  ASSUME IInv, NEW cameras \in SUBSET Cameras, Spawn(cameras),
         running' \in BOOLEAN, monitor' \in BOOLEAN,
         UNCHANGED <<registry, capture, abandoned, request, shared, raced>>
  PROVE  IInv'
<1>1. TypeOK
  BY DEF IInv
<1>2. /\ loop' \in [Tasks -> LoopRecords]
      /\ \A t \in Tasks :
           \/ loop'[t] = loop[t]
           \/ loop[t].pc = "unused" /\ \E c \in Cameras : loop'[t] = Spawned(c)
      /\ stream' \in [Streams -> StreamRecords]
      /\ \A s \in Streams : /\ stream'[s].capture = stream[s].capture
                            /\ stream'[s].made = stream[s].made
  BY <1>1, SpawnFacts
<1>3. Typed
  BY <1>2, TypesHeld DEF Typed
<1>4. \A c \in Cameras : registry'[c] # Nil => stream'[registry'[c]].made
  BY <1>2, TypesHeld DEF IInv, RegistryMade
<1>5. \A t \in Tasks :
        \/ /\ loop'[t].pc = loop[t].pc /\ loop'[t].camera = loop[t].camera
           /\ loop'[t].stream = loop[t].stream /\ loop'[t].cap = loop[t].cap
        \/ loop[t].pc = "unused" /\ \E c \in Cameras : loop'[t] = Spawned(c)
  BY <1>2
<1>6. \A s \in Streams :
        /\ stream[s].made => stream'[s].made /\ stream'[s].capture = stream[s].capture
        /\ ~stream[s].made => stream'[s].capture \in {stream[s].capture, Nil}
  BY <1>2
<1> QED BY <1>3, <1>4, <1>5, <1>6, ManagerStep

LEMMA StopStreamKeeps ==
  ASSUME IInv, NEW r \in Requests, NEW c \in Cameras, StopStream(r, c) PROVE IInv'
<1> DEFINE s == registry[c]
           alive == Alive(stream[s].task)
           new == IF alive THEN [stream[s] EXCEPT !.running = FALSE]
                  ELSE [stream[s] EXCEPT !.running = FALSE, !.task = Nil, !.status = "offline"]
           asked == [kind |-> "stop_stream", waits |-> {<<s, stream[s].task>>}]
<1>1. s \in Streams /\ stream[s] \in StreamRecords
  BY TypesHeld DEF StopStream
<1>2. /\ stream' = [stream EXCEPT ![s] = new]
      /\ request' = [request EXCEPT ![r] = asked] \/ UNCHANGED request
      /\ UNCHANGED <<running, monitor, registry, loop, capture, abandoned, shared, raced>>
  <2>1. CASE alive
    BY <2>1 DEF StopStream
  <2>2. CASE ~alive
    BY <2>2 DEF StopStream
  <2> QED BY <2>1, <2>2
<1>3. new \in StreamRecords /\ new.made = stream[s].made /\ new.capture = stream[s].capture
  <2> HIDE DEF s, alive
  <2> QED BY <1>1 DEF StreamRecords, Statuses
<1>4. asked \in RequestRecords
  <2> DEFINE w == <<s, stream[s].task>>
  <2>1. w \in Streams \X (Tasks \cup {Nil})
    BY <1>1 DEF StreamRecords
  <2> HIDE DEF w
  <2>2. {w} \in SUBSET (Streams \X (Tasks \cup {Nil}))
    BY <2>1
  <2>3. asked = [kind |-> "stop_stream", waits |-> {w}]
    BY DEF w
  <2> QED BY <2>2, <2>3 DEF RequestRecords
<1> HIDE DEF s, new, asked, alive
<1>5. Typed
  BY <1>1, <1>2, <1>3, <1>4, TypesHeld DEF Typed
<1>6. \A x \in Streams : /\ stream'[x].made = stream[x].made
                         /\ stream'[x].capture = stream[x].capture
  BY <1>1, <1>2, <1>3, TypesHeld
<1> QED BY <1>2, <1>5, <1>6, QuietStep

LEMMA StopKeeps ==
  ASSUME IInv, NEW r \in Requests, Stop(r) PROVE IInv'
<1> DEFINE registered == {registry[c] : c \in Cameras} \ {Nil}
           new(s) == [stream[s] EXCEPT !.running = @ /\ s \notin registered]
           asked == [kind |-> "stop", waits |-> {<<s, Nil>> : s \in registered}]
<1>1. registered \subseteq Streams
  BY TypesHeld
<1>2. /\ running' = FALSE
      /\ stream' = [s \in Streams |-> new(s)]
      /\ request' = [request EXCEPT ![r] = asked]
      /\ UNCHANGED <<monitor, registry, loop, capture, abandoned, shared, raced>>
  BY DEF Stop
<1> HIDE DEF registered
<1>3. \A s \in Streams : /\ new(s) \in StreamRecords /\ new(s).made = stream[s].made
                         /\ new(s).capture = stream[s].capture
  <2> TAKE s \in Streams
  <2>1. stream[s] \in StreamRecords
    BY TypesHeld
  <2> QED BY <2>1 DEF StreamRecords
<1>4. asked \in RequestRecords
  BY <1>1 DEF RequestRecords
<1> HIDE DEF new, asked
<1>5. Typed
  <2>1. stream' \in [Streams -> StreamRecords]
    BY <1>2, <1>3
  <2> QED BY <1>2, <1>4, <2>1, TypesHeld DEF Typed
<1>6. \A x \in Streams : /\ stream'[x].made = stream[x].made
                         /\ stream'[x].capture = stream[x].capture
  BY <1>2, <1>3
<1> QED BY <1>2, <1>5, <1>6, QuietStep

\* The task a coroutine waits for, and the stream it waits for it on.
LEMMA WaitTypes ==
  ASSUME IInv, NEW r \in Requests, NEW w \in request[r].waits
  PROVE  /\ w[1] \in Streams /\ w[2] \in Tasks \cup {Nil} /\ request[r] \in RequestRecords
         /\ stream[w[1]] \in StreamRecords
<1>1. request[r] \in RequestRecords
  BY TypesHeld
<1>2. w \in Streams \X (Tasks \cup {Nil})
  BY <1>1 DEF RequestRecords
<1> QED BY <1>1, <1>2, TypesHeld

LEMMA GatheredKeeps ==
  ASSUME IInv, NEW r \in Requests, Gathered(r) PROVE IInv'
<1> DEFINE Task(s) == stream[s].task
           Left(w) == (request[r].waits \ {w})
                        \cup (IF Alive(Task(w[1])) THEN {<<w[1], Task(w[1])>>} ELSE {})
<1>1. PICK w \in request[r].waits :
        /\ stream' = [stream EXCEPT ![w[1]].task = IF Alive(Task(w[1])) THEN Task(w[1]) ELSE Nil]
        /\ request' = [request EXCEPT ![r].waits = Left(w)]
        /\ UNCHANGED <<running, monitor, registry, loop, capture, abandoned, shared, raced>>
  BY DEF Gathered
<1> DEFINE s == w[1]
           task == IF Alive(Task(s)) THEN Task(s) ELSE Nil
           new == [stream[s] EXCEPT !.task = task]
           asked == [request[r] EXCEPT !.waits = Left(w)]
<1>2. /\ s \in Streams /\ request[r] \in RequestRecords
      /\ stream[s] \in StreamRecords
  BY WaitTypes
<1>3. Task(s) \in Tasks \cup {Nil} /\ task \in Tasks \cup {Nil}
  BY <1>2 DEF StreamRecords
<1>4. Left(w) \in SUBSET (Streams \X (Tasks \cup {Nil}))
  <2> DEFINE v == <<s, Task(s)>>
  <2>1. v \in Streams \X (Tasks \cup {Nil})
    BY <1>2, <1>3
  <2>2. request[r].waits \in SUBSET (Streams \X (Tasks \cup {Nil}))
    BY <1>2 DEF RequestRecords
  <2>3. Left(w) \subseteq request[r].waits \cup {v}
    OBVIOUS
  <2> HIDE DEF v, Left
  <2> QED BY <2>1, <2>2, <2>3
<1>5. stream' = [stream EXCEPT ![s] = new] /\ request' = [request EXCEPT ![r] = asked]
  BY <1>1
<1> HIDE DEF s, task, Left
<1>6. new \in StreamRecords /\ new.made = stream[s].made /\ new.capture = stream[s].capture
  BY <1>2, <1>3 DEF StreamRecords
<1>7. asked \in RequestRecords
  BY <1>2, <1>4 DEF RequestRecords
<1> HIDE DEF new, asked
<1>8. Typed
  BY <1>1, <1>2, <1>5, <1>6, <1>7, TypesHeld DEF Typed
<1>9. \A x \in Streams : /\ stream'[x].made = stream[x].made
                         /\ stream'[x].capture = stream[x].capture
  BY <1>2, <1>5, <1>6, TypesHeld
<1> QED BY <1>1, <1>8, <1>9, QuietStep

LEMMA GraceOverKeeps ==
  ASSUME IInv, NEW r \in Requests, GraceOver(r) PROVE IInv'
<1>1. PICK w \in request[r].waits :
        /\ Alive(w[2])
        /\ loop' = [loop EXCEPT ![w[2]].cancelling = TRUE]
        /\ UNCHANGED <<world, stream, capture, abandoned, shared, raced>>
  BY DEF GraceOver
<1> DEFINE t == w[2]
           new == [loop[t] EXCEPT !.cancelling = TRUE]
<1>2. t \in Tasks
  BY <1>1, WaitTypes DEF Alive
<1>3. loop' = [loop EXCEPT ![t] = new]
  BY <1>1
<1> HIDE DEF t
<1>4. /\ new \in LoopRecords /\ new.pc = loop[t].pc /\ new.camera = loop[t].camera
      /\ new.stream = loop[t].stream /\ new.cap = loop[t].cap
  BY <1>2, TypesHeld DEF LoopRecords
<1> HIDE DEF new
<1>5. Typed
  BY <1>1, <1>2, <1>3, <1>4, TypesHeld DEF Typed, world
<1>6. \A u \in Tasks :
        /\ loop'[u].pc = loop[u].pc /\ loop'[u].camera = loop[u].camera
        /\ loop'[u].stream = loop[u].stream /\ loop'[u].cap = loop[u].cap
  BY <1>2, <1>3, <1>4, TypesHeld
<1> QED BY <1>1, <1>5, <1>6, QuietStep DEF world

LEMMA WokenKeeps ==
  ASSUME IInv, NEW r \in Requests, Woken(r) PROVE IInv'
<1>1. PICK w \in request[r].waits :
        /\ stream' = [stream EXCEPT
                        ![w[1]].task = Nil,
                        ![w[1]].status = IF request[r].kind = "stop_stream"
                                         THEN "offline" ELSE @]
        /\ request' = [request EXCEPT
                         ![r] = IF @.kind = "stop_stream"
                                THEN [kind |-> "none", waits |-> {}]
                                ELSE [@ EXCEPT !.waits = request[r].waits \ {w}]]
        /\ UNCHANGED <<running, monitor, registry, loop, capture, abandoned, shared, raced>>
  BY DEF Woken
<1> DEFINE s == w[1]
           alone == request[r].kind = "stop_stream"
           asked == IF alone THEN [kind |-> "none", waits |-> {}]
                    ELSE [request[r] EXCEPT !.waits = @ \ {w}]
           new == [stream[s] EXCEPT !.task = Nil, !.status = IF alone THEN "offline" ELSE @]
<1>2. /\ s \in Streams /\ request[r] \in RequestRecords
      /\ stream[s] \in StreamRecords
  BY WaitTypes
<1>3. new \in StreamRecords /\ new.made = stream[s].made /\ new.capture = stream[s].capture
  <2> HIDE DEF s, alone
  <2> QED BY <1>2 DEF StreamRecords, Statuses
<1>4. asked \in RequestRecords
  <2>1. request[r].waits \ {w} \in SUBSET (Streams \X (Tasks \cup {Nil}))
    BY <1>2 DEF RequestRecords
  <2> HIDE DEF alone
  <2> QED BY <1>2, <2>1 DEF RequestRecords
<1>5. stream' = [stream EXCEPT ![s] = new]
  <2>1. CASE alone
    BY <1>1, <2>1
  <2>2. CASE ~alone
    <3>1. stream' = [stream EXCEPT ![s].task = Nil, ![s].status = @]
      BY <1>1, <2>2
    <3> HIDE DEF s
    <3>2. stream' = [stream EXCEPT ![s] = [stream[s] EXCEPT !.task = Nil]]
      BY <1>2, <3>1, TypesHeld DEF StreamRecords
    <3>3. new = [stream[s] EXCEPT !.task = Nil]
      BY <1>2, <2>2 DEF StreamRecords
    <3> QED BY <3>2, <3>3
  <2> QED BY <2>1, <2>2
<1>6. request' = [request EXCEPT ![r] = asked]
  <2>1. CASE alone
    BY <1>1, <2>1
  <2>2. CASE ~alone
    BY <1>1, <2>2
  <2> QED BY <2>1, <2>2
<1>7. UNCHANGED <<running, monitor, registry, loop, capture, abandoned, shared, raced>>
  BY <1>1
<1> HIDE DEF s, alone, new, asked
<1>8. Typed
  BY <1>2, <1>3, <1>4, <1>5, <1>6, <1>7, TypesHeld DEF Typed
<1>9. \A x \in Streams : /\ stream'[x].made = stream[x].made
                         /\ stream'[x].capture = stream[x].capture
  BY <1>2, <1>3, <1>5, TypesHeld
<1> QED BY <1>7, <1>8, <1>9, QuietStep

LEMMA StopEndsKeeps ==
  ASSUME IInv, NEW r \in Requests, StopEnds(r) PROVE IInv'
<1> DEFINE asked == [request[r] EXCEPT !.kind = "none"]
<1>1. /\ request' = [request EXCEPT ![r] = asked]
      /\ monitor' = FALSE
      /\ UNCHANGED <<running, registry, stream, loop, capture, abandoned, shared, raced>>
  BY DEF StopEnds
<1>2. asked \in RequestRecords
  BY TypesHeld DEF RequestRecords
<1> HIDE DEF asked
<1>3. Typed
  BY <1>1, <1>2, TypesHeld DEF Typed
<1> QED BY <1>1, <1>3, QuietStep

LEMMA MonitorKeeps ==
  ASSUME IInv, NEW c \in Cameras, Monitor(c) PROVE IInv'
<1> DEFINE s == registry[c]
           t == Any(FreshTasks)
           restart == running /\ ~Alive(stream[s].task)
           new == [stream[s] EXCEPT !.status = "interrupted",
                                    !.task = IF restart THEN t ELSE @]
<1>1. s \in Streams /\ stream[s] \in StreamRecords
  BY TypesHeld DEF Monitor
<1>2. restart => t \in Tasks /\ loop[t].pc = "unused"
  BY DEF Monitor, FreshTasks, Any
<1>3. /\ stream' = [stream EXCEPT ![s] = new]
      /\ UNCHANGED <<world, capture, abandoned, shared, raced>>
  <2>1. CASE restart
    <3>1. new = [stream[s] EXCEPT !.status = "interrupted", !.task = t]
      BY <2>1
    <3> HIDE DEF new
    <3> QED BY <2>1, <3>1 DEF Monitor
  <2>2. CASE ~restart
    <3>1. new = [stream[s] EXCEPT !.status = "interrupted"]
      <4> HIDE DEF s, restart, t
      <4> QED BY <1>1, <2>2 DEF StreamRecords
    <3> HIDE DEF new
    <3> QED BY <2>2, <3>1 DEF Monitor
  <2> QED BY <2>1, <2>2
<1>4. IF restart THEN loop' = [loop EXCEPT ![t] = Spawned(c)] ELSE UNCHANGED loop
  BY DEF Monitor
<1> HIDE DEF s, t, restart
<1>5. new \in StreamRecords /\ new.made = stream[s].made /\ new.capture = stream[s].capture
  BY <1>1, <1>2 DEF StreamRecords, Statuses
<1>6. Spawned(c) \in LoopRecords
  BY DEF Spawned, NewLoop, LoopRecords
<1> HIDE DEF new
<1>7. /\ loop' \in [Tasks -> LoopRecords]
      /\ \A u \in Tasks :
           \/ loop'[u] = loop[u]
           \/ loop[u].pc = "unused" /\ \E d \in Cameras : loop'[u] = Spawned(d)
  BY <1>2, <1>4, <1>6, TypesHeld
<1>8. Typed
  BY <1>1, <1>3, <1>5, <1>7, TypesHeld DEF Typed, world
<1>9. \A x \in Streams : /\ stream'[x].made = stream[x].made
                         /\ stream'[x].capture = stream[x].capture
  BY <1>1, <1>3, <1>5, TypesHeld
<1>10. \A d \in Cameras : registry'[d] # Nil => stream'[registry'[d]].made
  BY <1>3, <1>9, TypesHeld DEF IInv, RegistryMade, world
<1>11. \A u \in Tasks :
         \/ /\ loop'[u].pc = loop[u].pc /\ loop'[u].camera = loop[u].camera
            /\ loop'[u].stream = loop[u].stream /\ loop'[u].cap = loop[u].cap
         \/ loop[u].pc = "unused" /\ \E d \in Cameras : loop'[u] = Spawned(d)
  BY <1>7
<1>12. \A x \in Streams :
         /\ stream[x].made => stream'[x].made /\ stream'[x].capture = stream[x].capture
         /\ ~stream[x].made => stream'[x].capture \in {stream[x].capture, Nil}
  BY <1>9
<1> QED BY <1>3, <1>8, <1>10, <1>11, <1>12, ManagerStep

LEMMA MonitorEndsKeeps ==
  ASSUME IInv, MonitorEnds PROVE IInv'
<1>1. /\ monitor' = FALSE
      /\ UNCHANGED <<running, registry, stream, loop, capture, abandoned, request, shared, raced>>
  BY DEF MonitorEnds
<1>2. Typed
  BY <1>1, TypesHeld DEF Typed
<1> QED BY <1>1, <1>2, QuietStep

-----------------------------------------------------------------------------
(* The theorems *)

LEMMA InitInv == Init => IInv
<1> SUFFICES ASSUME Init PROVE IInv
  OBVIOUS
<1>1. NewStream \in StreamRecords /\ ~NewStream.made /\ NewStream.capture = Nil
  BY DEF NewStream, StreamRecords, Statuses
<1>2. NewLoop \in LoopRecords /\ NewLoop.pc = "unused"
  BY DEF NewLoop, LoopRecords
<1>3. /\ stream \in [Streams -> StreamRecords] /\ loop \in [Tasks -> LoopRecords]
      /\ capture \in [Captures -> CaptureRecords]
      /\ request \in [Requests -> RequestRecords]
  BY <1>1, <1>2 DEF Init, CaptureRecords, RequestRecords
<1>4. TypeOK
  <2>1. \A r \in Requests : /\ request[r].kind \in {"none", "stop_stream", "stop"}
                            /\ request[r].waits \subseteq Streams \X (Tasks \cup {Nil})
    BY DEF Init
  <2> QED BY <1>3, <2>1 DEF TypeOK, Init, StreamRecords, Statuses, LoopRecords, CaptureRecords
<1>5. \A t \in Tasks : loop[t].pc = "unused"
  BY <1>2 DEF Init
<1>6. \A s \in Streams : LoopsOver(s) = {}
  BY <1>5 DEF LoopsOver, Awaiting
<1>7. LoopsPlaced
  BY <1>5 DEF LoopsPlaced, Awaiting
<1>8. RegistryMade
  BY DEF Init, RegistryMade
<1>9. \A s \in Streams : stream[s].capture = Nil
  BY <1>1 DEF Init
<1>10. CapturesPlaced
  BY <1>9 DEF CapturesPlaced, Init
<1>11. \A s \in Streams : Tidy(s)
  BY <1>6, <1>9 DEF Tidy, Init
<1>12. ReleaseAwaitsReads
  BY DEF Init, ReleaseAwaitsReads
<1> QED BY <1>3, <1>4, <1>7, <1>8, <1>10, <1>11, <1>12 DEF IInv

LEMMA LoopKeeps ==
  ASSUME IInv, NEW t \in Tasks, Step(t) PROVE IInv'
<1>1. CASE Begin(t)
  BY <1>1, BeginKeeps
<1>2. CASE Opened(t)
  BY <1>2, OpenedKeeps
<1>3. CASE OpenFailed(t) \/ Frame(t)
  BY <1>3, FrameKeeps
<1>4. CASE Missed(t) \/ Resume(t)
  BY <1>4, HeadKeeps
<1>5. CASE Lost(t)
  BY <1>5, LostKeeps
<1>6. CASE Cancelled(t)
  BY <1>6, CancelledKeeps
<1> QED BY <1>1, <1>2, <1>3, <1>4, <1>5, <1>6 DEF Step

LEMMA NextInv == IInv /\ [Next]_vars => IInv'
<1> SUFFICES ASSUME IInv, [Next]_vars PROVE IInv'
  OBVIOUS
<1>1. CASE \E t \in Tasks : Step(t)
  BY <1>1, LoopKeeps
<1>2. CASE \E k \in Captures : ReadReturns(k)
  BY <1>2, ReadReturnsKeeps
<1>3. ASSUME NEW c \in Cameras, AddStream(c) PROVE IInv'
  BY <1>3, AddStreamKeeps
<1>4. ASSUME NEW c \in Cameras, RemoveStream(c) PROVE IInv'
  BY <1>4, RemoveStreamKeeps
<1>5. ASSUME NEW c \in Cameras, StartStream(c) PROVE IInv'
  <2>1. /\ Spawn({c}) /\ {c} \in SUBSET Cameras
        /\ UNCHANGED <<running, monitor, registry, capture, abandoned, request, shared, raced>>
    BY <1>5 DEF StartStream, world
  <2> QED BY <2>1, TypesHeld, StartKeeps
<1>6. ASSUME NEW c \in Cameras, Monitor(c) PROVE IInv'
  BY <1>6, MonitorKeeps
<1>7. ASSUME NEW r \in Requests, NEW c \in Cameras, StopStream(r, c) PROVE IInv'
  BY <1>7, StopStreamKeeps
<1>8. ASSUME NEW r \in Requests, Stop(r) \/ Await(r) PROVE IInv'
  BY <1>8, StopKeeps, GatheredKeeps, GraceOverKeeps, WokenKeeps, StopEndsKeeps DEF Await
<1>9. CASE Start
  <2>1. Stopped \in SUBSET Cameras
    BY DEF Stopped
  <2> QED BY <1>9, <2>1, StartKeeps DEF Start
<1>10. CASE MonitorEnds
  BY <1>10, MonitorEndsKeeps
<1>11. CASE UNCHANGED vars
  BY <1>11 DEF vars, world, IInv, TypeOK, LoopsPlaced, RegistryMade, CapturesPlaced, Tidy,
               LoopsOver, ReleaseAwaitsReads
<1> QED BY <1>1, <1>2, <1>3, <1>4, <1>5, <1>6, <1>7, <1>8, <1>9, <1>10, <1>11 DEF Next

\* The invariant behind the theorems below holds in every state: a stream that never
\* had two loops has at most one reader, of its own capture, or one abandoned read of
\* a capture it has let go of.  (_stream_loop 450-535.)
THEOREM StreamsInductive == Spec => []IInv
<1>1. IInv /\ [Next]_vars => IInv'
  BY NextInv
<1> QED BY InitInv, <1>1, PTL DEF Spec

\* The streams, loops, captures and stop requests keep their types.  (CameraStream
\* and StreamManager in stream_manager.py.)
THEOREM StreamsTyped == Spec => []TypeOK
<1>1. IInv => TypeOK
  BY DEF IInv
<1> QED BY StreamsInductive, <1>1, PTL

\* No capture is released while a read of it is in flight, as long as its stream never
\* had two loops, whatever adds, removals, starts, stops, forced cancellations and
\* reconnects overlap.  (_stream_loop 450-461, 470-474, 530-535; remove_stream 238-242.)
THEOREM ReleasesAwaitReads == Spec => []ReleaseAwaitsReads
<1>1. IInv => ReleaseAwaitsReads
  BY DEF IInv
<1> QED BY StreamsInductive, <1>1, PTL
-----------------------------------------------------------------------------
(* Streams that are shown as live *)

\* A loop that goes on, or takes its stream offline, disturbs no other stream.
LEMMA LiveLoop ==
  ASSUME LiveMeansLoop, NEW t \in Tasks, NEW s,
         \A u \in Tasks : u # t => loop'[u] = loop[u],
         \A x \in Streams : x # s => stream'[x].status = stream[x].status,
         loop[t].pc \in Awaiting => loop[t].stream = s,
         \/ loop'[t].stream = s /\ loop'[t].pc \in Awaiting
         \/ stream'[s].status = "offline"
  PROVE  LiveMeansLoop'
<1> SUFFICES ASSUME NEW x \in Streams, stream'[x].status # "offline"
             PROVE  \E u \in Tasks : loop'[u].stream = x /\ loop'[u].pc \in Awaiting
  BY DEF LiveMeansLoop, LoopsOver
<1>1. CASE x = s
  BY <1>1
<1>2. CASE x # s
  <2>1. PICK u \in Tasks : loop[u].stream = x /\ loop[u].pc \in Awaiting
    BY <1>2 DEF LiveMeansLoop, LoopsOver
  <2>2. u # t
    BY <1>2, <2>1
  <2> QED BY <2>1, <2>2
<1> QED BY <1>1, <1>2

\* The manager shows no stream as live that was not, and ends no loop.
LEMMA LiveManager ==
  ASSUME LiveMeansLoop,
         \A u \in Tasks : loop[u].pc \in Awaiting => /\ loop'[u].pc = loop[u].pc
                                                     /\ loop'[u].stream = loop[u].stream,
         \A x \in Streams : stream[x].status = "offline" => stream'[x].status = "offline"
  PROVE  LiveMeansLoop'
BY DEF LiveMeansLoop, LoopsOver

LEMMA LiveExit ==
  ASSUME IInv, LiveMeansLoop, NEW t \in Tasks, loop[t].pc \in Awaiting, Exit(t, loop[t].stream)
  PROVE  LiveMeansLoop'
<1>1. loop[t].stream \in Streams
  BY LoopPlace
<1>2. /\ stream'[loop[t].stream].status = "offline"
      /\ \A x \in Streams : x # loop[t].stream => stream'[x].status = stream[x].status
      /\ \A u \in Tasks : u # t => loop'[u] = loop[u]
  BY <1>1, TypesHeld DEF Exit, StreamRecords
<1> QED BY <1>2, LiveLoop

LEMMA LiveHead ==
  ASSUME IInv, LiveMeansLoop, NEW t \in Tasks, loop[t].pc \in Awaiting, NEW status,
         Head(t, loop[t].stream, status)
  PROVE  LiveMeansLoop'
<1> DEFINE s == loop[t].stream
<1>1. CASE stream[s].running /\ running
  <2>1. /\ loop' = [loop EXCEPT ![t].pc = IF stream[s].capture = Nil THEN "opening" ELSE "reading",
                                ![t].cap = stream[s].capture]
        /\ stream' = [stream EXCEPT ![s].status = status]
    BY <1>1 DEF Head
  <2>2. /\ loop'[t].stream = s /\ loop'[t].pc \in Awaiting
        /\ \A u \in Tasks : u # t => loop'[u] = loop[u]
    BY <2>1, TypesHeld DEF LoopRecords, Awaiting
  <2>3. \A x \in Streams : x # s => stream'[x].status = stream[x].status
    BY <2>1, TypesHeld
  <2> QED BY <2>2, <2>3, LiveLoop
<1>2. CASE ~(stream[s].running /\ running)
  BY <1>2, LiveExit DEF Head
<1> QED BY <1>1, <1>2

LEMMA BeginLive ==
  ASSUME IInv, LiveMeansLoop, NEW t \in Tasks, Begin(t)
  PROVE  LiveMeansLoop'
<1> DEFINE s == registry[loop[t].camera]
<1>1. loop[t].pc = "created" /\ loop[t].pc \notin Awaiting
  BY DEF Begin, Awaiting
<1>2. CASE s = Nil
  <2>1. loop' = [loop EXCEPT ![t].pc = "done"] /\ UNCHANGED stream
    BY <1>2 DEF Begin
  <2>2. \A u \in Tasks : u # t => loop'[u] = loop[u]
    BY <2>1, TypesHeld
  <2> QED BY <1>1, <2>1, <2>2, LiveManager
<1>3. CASE s # Nil
  <2>1. s \in Streams
    BY <1>1, <1>3, TypesHeld DEF IInv, LoopsPlaced
  <2>2. /\ stream' = [stream EXCEPT
                        ![s].running = TRUE,
                        ![s].status = IF running THEN "connecting" ELSE "offline",
                        ![s].capture = IF running THEN @ ELSE Nil]
        /\ loop' = [loop EXCEPT
                      ![t].stream = s,
                      ![t].pc = IF ~running THEN "done"
                                ELSE IF stream[s].capture = Nil THEN "opening" ELSE "reading",
                      ![t].cap = IF running THEN stream[s].capture ELSE Nil]
    BY <1>3 DEF Begin
  <2> HIDE DEF s
  <2>3. /\ \A x \in Streams : x # s => stream'[x].status = stream[x].status
        /\ ~running => stream'[s].status = "offline"
    BY <2>1, <2>2, TypesHeld DEF StreamRecords
  <2>4. /\ \A u \in Tasks : u # t => loop'[u] = loop[u]
        /\ running => loop'[t].stream = s /\ loop'[t].pc \in Awaiting
    BY <2>2, TypesHeld DEF LoopRecords, Awaiting
  <2> QED BY <1>1, <2>3, <2>4, LiveLoop
<1> QED BY <1>2, <1>3

LEMMA LoopLive ==
  ASSUME IInv, LiveMeansLoop, NEW t \in Tasks, Step(t)
  PROVE  LiveMeansLoop'
<1> DEFINE s == loop[t].stream
<1>1. CASE Opened(t) \/ OpenFailed(t) \/ Frame(t) \/ Lost(t)
  <2>1. loop[t].pc \in Awaiting
    BY <1>1 DEF Opened, OpenFailed, Frame, Lost, Awaiting
  <2>2. s \in Streams
    BY <2>1, LoopPlace
  <2>3. /\ loop'[t].stream = s /\ loop'[t].pc \in Awaiting
        /\ \A u \in Tasks : u # t => loop'[u] = loop[u]
    BY <1>1, TypesHeld DEF Opened, OpenFailed, Frame, Lost, LoopRecords, Awaiting
  <2>4. \A x \in Streams : x # s => stream'[x].status = stream[x].status
    BY <1>1, <2>2, TypesHeld DEF Opened, OpenFailed, Frame, Lost
  <2> QED BY <2>3, <2>4, LiveLoop
<1>2. CASE Missed(t) \/ Resume(t)
  <2>1. loop[t].pc \in Awaiting
    BY <1>2 DEF Missed, Resume, Awaiting
  <2> QED BY <1>2, <2>1, LiveHead DEF Missed, Resume
<1>3. CASE Cancelled(t)
  <2>1. CASE loop[t].pc = "created"
    <3>1. loop' = [loop EXCEPT ![t].pc = "done"] /\ UNCHANGED stream /\ loop[t].pc \notin Awaiting
      BY <1>3, <2>1 DEF Cancelled, Awaiting
    <3>2. \A u \in Tasks : u # t => loop'[u] = loop[u]
      BY <3>1, TypesHeld
    <3> QED BY <3>1, <3>2, LiveManager
  <2>2. CASE loop[t].pc \in {"opening", "paused"}
    <3>1. Exit(t, s) /\ loop[t].pc \in Awaiting
      BY <1>3, <2>2 DEF Cancelled, Awaiting
    <3> QED BY <3>1, LiveExit
  <2>3. CASE loop[t].pc = "reading"
    <3>1. loop[t].pc \in Awaiting
      BY <2>3 DEF Awaiting
    <3>2. /\ stream' = [stream EXCEPT ![s].capture = Nil, ![s].status = "offline"]
          /\ loop' = [loop EXCEPT ![t].pc = "done", ![t].cap = Nil]
      BY <1>3, <2>3 DEF Cancelled
    <3>3. s \in Streams
      BY <3>1, LoopPlace
    <3>4. /\ stream'[s].status = "offline"
          /\ \A x \in Streams : x # s => stream'[x].status = stream[x].status
      BY <3>2, <3>3, TypesHeld DEF StreamRecords
    <3>5. \A u \in Tasks : u # t => loop'[u] = loop[u]
      BY <3>2, TypesHeld
    <3> QED BY <3>4, <3>5, LiveLoop
  <2> QED BY <1>3, <2>1, <2>2, <2>3 DEF Cancelled
<1> QED BY <1>1, <1>2, <1>3, BeginLive DEF Step

\* The manager's actions, by what they do to a status and to a task.
LEMMA SpawnLive ==
  ASSUME IInv, LiveMeansLoop, NEW cameras \in SUBSET Cameras, Spawn(cameras)
  PROVE  LiveMeansLoop'
<1>1. \A t \in Tasks : loop'[t] = loop[t] \/ loop[t].pc = "unused"
  BY SpawnFacts DEF IInv
<1>2. \A s \in Streams : stream'[s].status = stream[s].status
  BY SpawnFacts DEF IInv
<1>3. "unused" \notin Awaiting
  BY DEF Awaiting
<1> QED BY <1>1, <1>2, <1>3, LiveManager

LEMMA MonitorLive ==
  ASSUME IInv, LiveMeansLoop, NEW c \in Cameras, Monitor(c)
  PROVE  LiveMeansLoop'
<1> DEFINE s == registry[c]
           t == Any(FreshTasks)
<1>1. s \in Streams /\ stream[s].status # "offline"
  BY TypesHeld DEF Monitor
<1>2. \A x \in Streams : x # s => stream'[x].status = stream[x].status
  BY <1>1, TypesHeld DEF Monitor
<1>3. \A u \in Tasks : loop'[u] = loop[u] \/ loop[u].pc = "unused"
  <2>1. CASE running /\ ~Alive(stream[s].task)
    <3>1. t \in FreshTasks /\ loop' = [loop EXCEPT ![t] = Spawned(c)]
      BY <2>1 DEF Monitor, Any
    <3> QED BY <3>1, TypesHeld DEF FreshTasks
  <2>2. CASE ~(running /\ ~Alive(stream[s].task))
    BY <2>2 DEF Monitor
  <2> QED BY <2>1, <2>2
<1>4. "unused" \notin Awaiting
  BY DEF Awaiting
<1> QED BY <1>1, <1>2, <1>3, <1>4, LiveManager

LEMMA AddStreamLive ==
  ASSUME IInv, LiveMeansLoop, NEW c \in Cameras, AddStream(c)
  PROVE  LiveMeansLoop'
<1>1. /\ UNCHANGED loop
      /\ \A x \in Streams : \/ stream'[x] = [NewStream EXCEPT !.made = TRUE]
                            \/ stream'[x] = [stream[x] EXCEPT !.running = FALSE]
                            \/ stream'[x] = stream[x]
  BY DEF AddStream
<1>2. \A x \in Streams : stream[x] \in StreamRecords
  BY TypesHeld
<1>3. \A x \in Streams : stream'[x].status \in {"offline", stream[x].status}
  BY <1>1, <1>2 DEF StreamRecords, NewStream
<1> QED BY <1>1, <1>3, LiveManager

LEMMA StopLive ==
  ASSUME IInv, LiveMeansLoop, NEW r \in Requests, Stop(r) \/ Await(r)
  PROVE  LiveMeansLoop'
<1>1. CASE Stop(r)
  <2>1. \A x \in Streams : stream'[x].status = stream[x].status
    BY <1>1, TypesHeld DEF Stop, StreamRecords
  <2> QED BY <1>1, <2>1, LiveManager DEF Stop
<1>2. CASE Gathered(r)
  <2>1. \A x \in Streams : stream'[x].status = stream[x].status
    BY <1>2, TypesHeld DEF Gathered, StreamRecords
  <2> QED BY <1>2, <2>1, LiveManager DEF Gathered
<1>3. CASE GraceOver(r)
  <2>1. UNCHANGED stream
    BY <1>3 DEF GraceOver
  <2>2. \A u \in Tasks : loop'[u].pc = loop[u].pc /\ loop'[u].stream = loop[u].stream
    BY <1>3, TypesHeld DEF GraceOver, LoopRecords
  <2> QED BY <2>1, <2>2, LiveManager
<1>4. CASE Woken(r)
  <2>1. UNCHANGED loop
    BY <1>4 DEF Woken
  <2>2. \A x \in Streams : stream'[x].status \in {"offline", stream[x].status}
    BY <1>4, TypesHeld DEF Woken, StreamRecords
  <2> QED BY <2>1, <2>2, LiveManager
<1>5. CASE StopEnds(r)
  BY <1>5, LiveManager DEF StopEnds
<1> QED BY <1>1, <1>2, <1>3, <1>4, <1>5 DEF Await

LEMMA NextLive == IInv /\ LiveMeansLoop /\ [Next]_vars => LiveMeansLoop'
<1> SUFFICES ASSUME IInv, LiveMeansLoop, [Next]_vars PROVE LiveMeansLoop'
  OBVIOUS
<1>1. CASE UNCHANGED <<stream, loop>>
  BY <1>1, LiveManager
<1>2. ASSUME NEW k \in Captures, ReadReturns(k) PROVE LiveMeansLoop'
  BY <1>1, <1>2 DEF ReadReturns
<1>3. ASSUME NEW c \in Cameras, RemoveStream(c) PROVE LiveMeansLoop'
  <2>1. \A x \in Streams : stream'[x].status = stream[x].status
    BY <1>3, TypesHeld DEF RemoveStream, StreamRecords
  <2> QED BY <1>3, <2>1, LiveManager DEF RemoveStream
<1>4. ASSUME NEW c \in Cameras, StartStream(c) PROVE LiveMeansLoop'
  BY <1>4, SpawnLive DEF StartStream
<1>5. CASE Start
  <2>1. Stopped \in SUBSET Cameras
    BY DEF Stopped
  <2> QED BY <1>5, <2>1, SpawnLive DEF Start
<1>6. ASSUME NEW r \in Requests, NEW c \in Cameras, StopStream(r, c) PROVE LiveMeansLoop'
  <2>1. \A x \in Streams : stream'[x].status \in {"offline", stream[x].status}
    BY <1>6, TypesHeld DEF StopStream, StreamRecords
  <2> QED BY <1>6, <2>1, LiveManager DEF StopStream
<1>7. CASE MonitorEnds \/ UNCHANGED vars
  BY <1>1, <1>7 DEF MonitorEnds, vars
<1> QED BY <1>2, <1>3, <1>4, <1>5, <1>6, <1>7, LoopLive, AddStreamLive, MonitorLive, StopLive
    DEF Next

LEMMA InitLive == Init => LiveMeansLoop
BY DEF Init, LiveMeansLoop, NewStream

\* A stream that is not offline has a loop over it, also when several loops, stops and
\* restarts of it overlap: whatever ends a loop takes its stream offline.  (_stream_loop
\* 530-541; stop_stream 342-343; _health_monitor 701-712.)
THEOREM LiveStreamsHaveLoops == Spec => []LiveMeansLoop
BY InitLive, NextLive, StreamsInductive, PTL DEF Spec

\* So the restart of the health monitor never revives a stream: whenever it starts a loop,
\* there is one over that stream already.  (_health_monitor 701-721.)
THEOREM RestartsJoinALoop ==
  Spec => [][\A c \in Cameras : Monitor(c) /\ loop' # loop => LoopsOver(registry[c]) # {}]_vars
<1> DEFINE Joins == \A c \in Cameras : Monitor(c) /\ loop' # loop => LoopsOver(registry[c]) # {}
<1>1. IInv /\ LiveMeansLoop => Joins
  <2> SUFFICES ASSUME IInv, LiveMeansLoop, NEW c \in Cameras, Monitor(c)
               PROVE  LoopsOver(registry[c]) # {}
    OBVIOUS
  <2> QED BY TypesHeld DEF Monitor, LiveMeansLoop
<1>2. IInv /\ LiveMeansLoop /\ [Next]_vars => [Joins]_vars
  BY <1>1
<1>3. Spec => [][Joins]_vars
  BY <1>2, StreamsInductive, LiveStreamsHaveLoops, PTL DEF Spec
<1> QED BY <1>3
-----------------------------------------------------------------------------
(* The captures, as CaptureUse sees them *)

\* A capture with a read in flight, awaited or abandoned.
Read(k) == Readers(k) # {} \/ abandoned[k] > 0

\* What the loop of an unshared stream has hold of, or still reads, is open; what was never
\* opened is nobody's.
CapturesOpen ==
    /\ \A k \in Captures : capture[k].state = "unused" => capture[k].stream = Nil
    /\ \A s \in Streams \ shared :
          stream[s].capture # Nil => capture[stream[s].capture].state = "open"
    /\ \A k \in Captures :
          abandoned[k] > 0 /\ capture[k].stream \notin shared => capture[k].state = "open"

\* A capture nobody contends has one read in flight at most, and was not released under it.
OneRead ==
    \A k \in Captures :
        capture[k].stream \notin shared =>
            /\ InFlight(k) = IF Read(k) THEN 1 ELSE 0
            /\ Read(k) => capture[k].state = "open"
            /\ k \notin raced

LEMMA OneReadHolds == IInv /\ CapturesOpen => OneRead
<1> SUFFICES ASSUME IInv, CapturesOpen, NEW k \in Captures, capture[k].stream \notin shared
             PROVE  /\ InFlight(k) = IF Read(k) THEN 1 ELSE 0
                    /\ Read(k) => capture[k].state = "open"
  BY DEF OneRead, IInv, ReleaseAwaitsReads
<1>1. ASSUME NEW t \in Readers(k)
      PROVE  /\ t \in Tasks /\ loop[t].stream \in Streams \ shared /\ t \in LoopsOver(loop[t].stream)
             /\ capture[k].stream = loop[t].stream /\ k = stream[loop[t].stream].capture
  <2>1. /\ t \in Tasks /\ loop[t].pc = "reading" /\ loop[t].cap = k /\ loop[t].pc \in Awaiting
    BY DEF Readers, Awaiting
  <2>2. loop[t].stream \in Streams /\ capture[k].stream = loop[t].stream
    BY <2>1 DEF IInv, LoopsPlaced
  <2>3. t \in LoopsOver(loop[t].stream)
    BY <2>1 DEF LoopsOver
  <2> QED BY <2>1, <2>2, <2>3 DEF IInv, Tidy
<1>2. ASSUME NEW t \in Readers(k)
      PROVE  Readers(k) = {t} /\ abandoned[k] = 0 /\ capture[k].state = "open"
  <2>1. abandoned[k] = 0 /\ capture[k].state = "open"
    BY <1>1, NilAssumption DEF IInv, Tidy, CapturesOpen
  <2>2. \A u \in Readers(k) : u = t
    BY <1>1 DEF IInv, Tidy
  <2> QED BY <2>1, <2>2
<1>3. abandoned[k] \in {0, 1}
  <2>1. abandoned[k] \in Nat
    BY TypesHeld
  <2>2. capture[k].state # "unused" => capture[k].stream \in Streams \ shared
    BY DEF IInv, CapturesPlaced
  <2>3. capture[k].state # "unused" => abandoned[k] <= 1
    BY <2>2 DEF IInv, Tidy
  <2>4. capture[k].state = "unused" => abandoned[k] = 0
    BY DEF IInv, CapturesPlaced
  <2> QED BY <2>1, <2>3, <2>4
<1>4. CASE Readers(k) = {}
  <2>1. InFlight(k) = 0 + abandoned[k]
    BY <1>4, FS_EmptySet DEF InFlight, Readers
  <2> QED BY <1>3, <1>4, <2>1 DEF Read, CapturesOpen
<1>5. ASSUME NEW t \in Readers(k) PROVE InFlight(k) = 1 /\ Read(k) /\ capture[k].state = "open"
  <2>1. Cardinality(Readers(k)) = 1
    BY <1>2, FS_Singleton
  <2>2. InFlight(k) = 1 + 0
    BY <1>2, <2>1 DEF InFlight, Readers
  <2> QED BY <1>2, <2>2 DEF Read
<1> QED BY <1>4, <1>5

Seen == [k \in Captures |->
           IF capture[k].stream \in shared THEN Use!Contended
           ELSE [state |-> capture[k].state, readers |-> InFlight(k)]]

\* The state of CaptureUse, while no capture is released under its read.
Shown == [k \in Captures |->
            IF capture[k].stream \in shared THEN [state |-> "contended", readers |-> 0]
            ELSE IF k \in raced THEN [state |-> "torn", readers |-> 0]
            ELSE [state |-> capture[k].state, readers |-> InFlight(k)]]

LEMMA ShownIsSeen ==
  ASSUME OneRead PROVE Shown = Seen
BY DEF Shown, Seen, OneRead, Use!Contended

LEMMA ShownIsSeenAfter ==
  ASSUME OneRead' PROVE Shown' = Seen'
BY DEF Shown, Seen, OneRead, Use!Contended

\* The steps of CaptureUse, over what it sees.
LEMMA SeenSteps ==
  ASSUME OneRead, OneRead',
         \/ Seen' = Seen
         \/ \E k \in Captures :
              \/ Seen[k] = Use!Unused /\ Seen' = [Seen EXCEPT ![k] = Use!Open(1)]
              \/ Seen[k] = Use!Open(0) /\ Seen' = [Seen EXCEPT ![k] = Use!Open(1)]
              \/ Seen[k] = Use!Open(1) /\ Seen' = [Seen EXCEPT ![k] = Use!Open(0)]
              \/ /\ Seen[k] \in {Use!Open(0), Use!Open(1)}
                 /\ Seen' = [Seen EXCEPT ![k] = Use!Released]
         \/ \E K \in SUBSET Captures :
              Seen' = [k \in Captures |-> IF k \in K THEN Use!Contended ELSE Seen[k]]
  PROVE  [Use!Next]_(Use!vars)
<1>0. Shown = Seen /\ Shown' = Seen'
  BY ShownIsSeen, ShownIsSeenAfter
<1>1. CASE Seen' = Seen
  <2>1. Shown' = Shown
    BY <1>0, <1>1
  <2> QED BY <2>1 DEF Shown, Use!vars
<1>2. ASSUME NEW k \in Captures,
             \/ Seen[k] = Use!Unused /\ Seen' = [Seen EXCEPT ![k] = Use!Open(1)]
             \/ Seen[k] = Use!Open(0) /\ Seen' = [Seen EXCEPT ![k] = Use!Open(1)]
             \/ Seen[k] = Use!Open(1) /\ Seen' = [Seen EXCEPT ![k] = Use!Open(0)]
             \/ /\ Seen[k] \in {Use!Open(0), Use!Open(1)}
                /\ Seen' = [Seen EXCEPT ![k] = Use!Released]
      PROVE  Use!Next
  <2>1. Use!Obtain(k) \/ Use!Read(k) \/ Use!Return(k) \/ Use!Let(k)
    <3>1. \/ Shown[k] = Use!Unused /\ Shown' = [Shown EXCEPT ![k] = Use!Open(1)]
          \/ Shown[k] = Use!Open(0) /\ Shown' = [Shown EXCEPT ![k] = Use!Open(1)]
          \/ Shown[k] = Use!Open(1) /\ Shown' = [Shown EXCEPT ![k] = Use!Open(0)]
          \/ /\ Shown[k] \in {Use!Open(0), Use!Open(1)}
             /\ Shown' = [Shown EXCEPT ![k] = Use!Released]
      BY <1>0, <1>2
    <3> QED BY <3>1 DEF Shown, Use!Obtain, Use!Read, Use!Return, Use!Let
  <2> QED BY <2>1 DEF Use!Next
<1>3. ASSUME NEW K \in SUBSET Captures,
             Seen' = [k \in Captures |-> IF k \in K THEN Use!Contended ELSE Seen[k]]
      PROVE  Use!Next
  <2>1. Use!Contend(K)
    <3>1. Shown' = [k \in Captures |-> IF k \in K THEN Use!Contended ELSE Shown[k]]
      BY <1>0, <1>3
    <3> QED BY <3>1 DEF Shown, Use!Contend
  <2> QED BY <2>1 DEF Use!Next
<1> QED BY <1>1, <1>2, <1>3

\* A step that does to one capture, at most, what CaptureUse allows, given that the
\* invariants hold before and after it.
LEMMA UseStep ==
  ASSUME IInv, CapturesOpen, OneRead, OneRead', UNCHANGED shared, NEW k,
         \A j \in Captures : j # k => /\ capture'[j] = capture[j]
                                      /\ capture[j].stream \in shared \/ (Read(j)' <=> Read(j)),
         k \in Captures =>
            \/ capture'[k] = capture[k]
            \/ /\ capture'[k] = [capture[k] EXCEPT !.state = "released"]
               /\ capture[k].state = "open" \/ capture[k].stream \in shared
            \/ /\ capture[k].state = "unused"
               /\ capture'[k].state = "open" /\ Read(k)'
  PROVE  [Use!Next]_(Use!vars)
<1>1. \A j \in Captures : capture[j] \in CaptureRecords
  BY TypesHeld
<1>2. \A j \in Captures : j # k => Seen'[j] = Seen[j]
  <2> SUFFICES ASSUME NEW j \in Captures, j # k PROVE Seen'[j] = Seen[j]
    OBVIOUS
  <2>1. capture'[j] = capture[j] /\ (capture[j].stream \in shared \/ (Read(j)' <=> Read(j)))
    OBVIOUS
  <2>2. CASE capture[j].stream \in shared
    BY <2>1, <2>2 DEF Seen, Use!Contended
  <2>3. CASE capture[j].stream \notin shared
    <3>1. InFlight(j)' = InFlight(j)
      BY <2>1, <2>3 DEF OneRead
    <3> QED BY <2>1, <2>3, <3>1 DEF Seen
  <2> QED BY <2>2, <2>3
<1>3. Seen' = [j \in Captures |-> Seen'[j]] /\ Seen = [j \in Captures |-> Seen[j]]
  BY DEF Seen
<1>4. CASE k \notin Captures
  <2>1. Seen' = Seen
    <3> HIDE DEF Seen
    <3> QED BY <1>2, <1>3, <1>4
  <2> QED BY <2>1, SeenSteps
<1>5. CASE k \in Captures /\ capture'[k].stream \in shared
  <2>1. Seen'[k] = Use!Contended
    BY <1>5 DEF Seen, Use!Contended
  <2>2. Seen' = [j \in Captures |-> IF j \in {k} THEN Use!Contended ELSE Seen[j]]
    <3> HIDE DEF Seen
    <3> QED BY <1>2, <1>3, <1>5, <2>1
  <2>3. {k} \in SUBSET Captures
    BY <1>5
  <2> QED BY <2>2, <2>3, SeenSteps
<1>6. CASE k \in Captures /\ capture'[k].stream \notin shared
  <2>1. Seen'[k] = [state |-> capture'[k].state, readers |-> IF Read(k)' THEN 1 ELSE 0]
    BY <1>6 DEF Seen, OneRead
  <2>2. Read(k)' => capture'[k].state = "open"
    BY <1>6 DEF OneRead
  <2>3. capture[k].stream \notin shared
    <3>1. capture[k].state = "unused" => capture[k].stream = Nil
      BY <1>6 DEF CapturesOpen
    <3>2. Nil \notin shared
      BY TypesHeld, NilAssumption
    <3> QED BY <1>1, <1>6, <3>1, <3>2 DEF CaptureRecords
  <2>4. Seen[k] = [state |-> capture[k].state, readers |-> IF Read(k) THEN 1 ELSE 0]
    BY <1>6, <2>3 DEF Seen, OneRead
  <2>5. Read(k) => capture[k].state = "open"
    BY <1>6, <2>3 DEF OneRead
  <2>6. Seen' = [Seen EXCEPT ![k] = Seen'[k]]
    <3> HIDE DEF Seen
    <3> QED BY <1>2, <1>3, <1>6
  <2>7. capture'[k].state \in {"unused", "open", "released"}
    BY <1>1, <1>6 DEF CaptureRecords
  <2> HIDE DEF Seen
  <2>8. CASE capture'[k] = capture[k]
    <3>1. CASE Read(k)' <=> Read(k)
      <4>1. Seen'[k] = Seen[k]
        BY <2>1, <2>4, <2>8, <3>1
      <4>2. Seen' = Seen
        BY <1>2, <1>3, <4>1
      <4> QED BY <4>2, SeenSteps
    <3>2. CASE Read(k)' /\ ~Read(k)
      <4>1. Seen[k] = Use!Open(0) /\ Seen'[k] = Use!Open(1)
        BY <2>1, <2>2, <2>4, <2>8, <3>2 DEF Use!Open
      <4> QED BY <1>6, <2>6, <4>1, SeenSteps
    <3>3. CASE ~Read(k)' /\ Read(k)
      <4>1. Seen[k] = Use!Open(1) /\ Seen'[k] = Use!Open(0)
        BY <2>1, <2>4, <2>5, <2>8, <3>3 DEF Use!Open
      <4> QED BY <1>6, <2>6, <4>1, SeenSteps
    <3> QED BY <3>1, <3>2, <3>3
  <2>9. CASE capture'[k] = [capture[k] EXCEPT !.state = "released"] /\ capture[k].state = "open"
    <3>1. capture'[k].state = "released"
      BY <1>1, <1>6, <2>9 DEF CaptureRecords
    <3>2. Seen'[k] = Use!Released
      BY <2>1, <2>2, <3>1 DEF Use!Released
    <3>3. Seen[k] \in {Use!Open(0), Use!Open(1)}
      BY <2>4, <2>9 DEF Use!Open
    <3> QED BY <1>6, <2>6, <3>2, <3>3, SeenSteps
  <2>10. CASE capture[k].state = "unused" /\ capture'[k].state = "open" /\ Read(k)'
    <3>1. Seen'[k] = Use!Open(1) /\ Seen[k] = Use!Unused
      BY <2>1, <2>4, <2>5, <2>10 DEF Use!Open, Use!Unused
    <3> QED BY <1>6, <2>6, <3>1, SeenSteps
  <2> QED BY <1>6, <2>3, <2>8, <2>9, <2>10
<1> QED BY <1>4, <1>5, <1>6

\* A second loop makes the captures of its stream contended.
LEMMA UseContended ==
  ASSUME OneRead, OneRead', NEW s, shared' = shared \cup {s},
         \A j \in Captures : /\ capture'[j].stream = capture[j].stream
                             /\ capture[j].stream # s => /\ capture'[j] = capture[j]
                                                         /\ Read(j)' <=> Read(j)
  PROVE  [Use!Next]_(Use!vars)
<1> DEFINE K == {j \in Captures : capture[j].stream = s}
<1>1. ASSUME NEW j \in Captures
      PROVE  Seen'[j] = IF j \in K THEN Use!Contended ELSE Seen[j]
  <2>1. CASE j \in K
    BY <2>1 DEF Seen, Use!Contended
  <2>2. CASE j \notin K /\ capture[j].stream \in shared
    BY <2>2 DEF Seen, Use!Contended
  <2>3. CASE j \notin K /\ capture[j].stream \notin shared
    <3>1. InFlight(j)' = InFlight(j) /\ capture'[j] = capture[j] /\ capture'[j].stream \notin shared'
      BY <2>3 DEF OneRead
    <3> QED BY <2>3, <3>1 DEF Seen
  <2> QED BY <2>1, <2>2, <2>3
<1>2. Seen' = [j \in Captures |-> Seen'[j]]
  BY DEF Seen
<1> HIDE DEF K, Seen
<1>3. Seen' = [j \in Captures |-> IF j \in K THEN Use!Contended ELSE Seen[j]]
  BY <1>1, <1>2
<1>4. K \in SUBSET Captures
  BY DEF K
<1> QED BY <1>3, <1>4, SeenSteps

LEMMA OneReadAfter == IInv' /\ CapturesOpen' => OneRead'
BY OneReadHolds, PTL

\* What the capture of a stream is, when it has one.
LEMMA StreamCapture ==
  ASSUME IInv, CapturesOpen, NEW s \in Streams, stream[s].capture # Nil
  PROVE  /\ stream[s].capture \in Captures /\ capture[stream[s].capture].stream = s
         /\ capture[stream[s].capture].state # "unused"
         /\ s \notin shared => /\ capture[stream[s].capture].state = "open"
                               /\ abandoned[stream[s].capture] = 0
<1>1. stream[s].capture \in Captures
  BY TypesHeld DEF StreamRecords
<1> QED BY <1>1 DEF IInv, CapturesPlaced, CapturesOpen, Tidy

\* A loop that goes on touches no capture but reads that of its stream.
LEMMA ProceedUse ==
  ASSUME IInv, IInv', CapturesOpen, NEW t \in Tasks, NEW s \in Streams,
         loop[t].pc \in Awaiting => loop[t].stream = s,
         \A u \in Tasks : u # t => loop'[u] = loop[u],
         UNCHANGED <<capture, abandoned, shared>>,
         \A x \in Streams : stream'[x].capture = stream[x].capture,
         loop'[t].pc = "reading" => loop'[t].cap = stream[s].capture
  PROVE  CapturesOpen' /\ [Use!Next]_(Use!vars)
<1>1. CapturesOpen'
  BY DEF CapturesOpen
<1>2. OneRead /\ OneRead'
  BY <1>1, OneReadHolds, OneReadAfter
<1>3. ASSUME NEW j \in Captures, j # stream[s].capture, capture[j].stream \notin shared
      PROVE  Read(j)' <=> Read(j)
  <2>1. loop'[t].pc = "reading" => loop'[t].cap # j
    BY <1>3
  <2>2. ~(loop[t].pc = "reading" /\ loop[t].cap = j)
    <3> SUFFICES ASSUME loop[t].pc = "reading", loop[t].cap = j PROVE FALSE
      OBVIOUS
    <3>1. loop[t].stream = s /\ capture[j].stream = s /\ t \in LoopsOver(s)
      BY DEF IInv, LoopsPlaced, LoopsOver, Awaiting
    <3> QED BY <1>3, <3>1 DEF IInv, Tidy
  <2>3. Readers(j)' = Readers(j)
    BY <2>1, <2>2 DEF Readers
  <2> QED BY <2>3 DEF Read
<1> QED BY <1>1, <1>2, <1>3, UseStep

\* A loop that releases the capture of its stream, and reads nothing any more.
LEMMA ReleaseUse ==
  ASSUME IInv, IInv', CapturesOpen, NEW t \in Tasks, NEW s \in Streams,
         loop[t].pc \in Awaiting => loop[t].stream = s,
         \A u \in Tasks : u # t => loop'[u] = loop[u],
         loop'[t].pc # "reading",
         UNCHANGED <<abandoned, shared>>, NEW n, Release(stream[s].capture, n),
         stream'[s].capture = Nil,
         \A x \in Streams : x # s => stream'[x].capture = stream[x].capture
  PROVE  CapturesOpen' /\ [Use!Next]_(Use!vars)
<1> DEFINE k == stream[s].capture
<1>1. /\ \A j \in Captures : j # k => capture'[j] = capture[j]
      /\ k \in Captures => capture'[k] = [capture[k] EXCEPT !.state = "released"]
  BY TypesHeld, NilAssumption DEF Release
<1>2. \A j \in Captures : /\ capture'[j].stream = capture[j].stream
                          /\ j # k => capture'[j].state = capture[j].state
                          /\ j = k => capture'[j].state = "released"
  <2>1. \A j \in Captures : capture[j] \in CaptureRecords
    BY TypesHeld
  <2> HIDE DEF k
  <2> QED BY <1>1, <2>1 DEF CaptureRecords
<1>3. k \in Captures => /\ capture[k].stream = s
                        /\ s \notin shared => capture[k].state = "open" /\ abandoned[k] = 0
  BY StreamCapture, NilAssumption
<1>4. CapturesOpen'
  <2>1. ASSUME NEW x \in Streams \ shared, stream'[x].capture # Nil
        PROVE  capture'[stream'[x].capture].state = "open"
    <3>1. x # s /\ stream'[x].capture = stream[x].capture
      BY <2>1
    <3>2. /\ stream[x].capture \in Captures /\ capture[stream[x].capture].stream = x
          /\ capture[stream[x].capture].state = "open"
      BY <2>1, <3>1, StreamCapture
    <3>3. stream[x].capture # k
      BY <1>3, <3>1, <3>2
    <3> QED BY <1>2, <3>1, <3>2, <3>3
  <2>2. ASSUME NEW j \in Captures, abandoned[j] > 0, capture[j].stream \notin shared
        PROVE  capture'[j].state = "open"
    <3>1. j # k
      BY <1>3, <2>2
    <3> QED BY <1>2, <2>2, <3>1 DEF CapturesOpen
  <2> QED BY <1>2, <2>1, <2>2 DEF CapturesOpen
<1>5. OneRead /\ OneRead'
  BY <1>4, OneReadHolds, OneReadAfter
<1>6. ASSUME NEW j \in Captures, j # k, capture[j].stream \notin shared
      PROVE  Read(j)' <=> Read(j)
  <2>1. ~(loop[t].pc = "reading" /\ loop[t].cap = j)
    <3> SUFFICES ASSUME loop[t].pc = "reading", loop[t].cap = j PROVE FALSE
      OBVIOUS
    <3>1. loop[t].stream = s /\ capture[j].stream = s /\ t \in LoopsOver(s)
      BY DEF IInv, LoopsPlaced, LoopsOver, Awaiting
    <3> QED BY <1>6, <3>1 DEF IInv, Tidy
  <2>2. Readers(j)' = Readers(j)
    BY <2>1 DEF Readers
  <2> QED BY <2>2 DEF Read
<1> HIDE DEF k
<1> QED BY <1>1, <1>3, <1>4, <1>5, <1>6, UseStep

\* The manager reads and releases nothing.
LEMMA ManagerUse ==
  ASSUME IInv, IInv', CapturesOpen, UNCHANGED <<capture, abandoned, shared>>,
         \A x \in Streams : stream'[x].capture \in {stream[x].capture, Nil},
         \A u \in Tasks : \/ loop'[u].pc = loop[u].pc /\ loop'[u].cap = loop[u].cap
                          \/ loop[u].pc # "reading" /\ loop'[u].pc # "reading"
  PROVE  CapturesOpen' /\ [Use!Next]_(Use!vars)
<1>1. CapturesOpen'
  BY DEF CapturesOpen
<1>2. OneRead /\ OneRead'
  BY <1>1, OneReadHolds, OneReadAfter
<1>3. \A j \in Captures : Read(j)' <=> Read(j)
  BY DEF Read, Readers
<1> QED BY <1>1, <1>2, <1>3, NilAssumption, UseStep

LEMMA ExitUse ==
  ASSUME IInv, IInv', CapturesOpen, NEW t \in Tasks, loop[t].pc \in Awaiting,
         Exit(t, loop[t].stream), UNCHANGED <<abandoned, shared>>
  PROVE  CapturesOpen' /\ [Use!Next]_(Use!vars)
<1>1. loop[t].stream \in Streams
  BY LoopPlace
<1>2. /\ stream'[loop[t].stream].capture = Nil
      /\ \A x \in Streams : x # loop[t].stream => stream'[x].capture = stream[x].capture
      /\ \A u \in Tasks : u # t => loop'[u] = loop[u]
      /\ loop'[t].pc # "reading"
      /\ Release(stream[loop[t].stream].capture, OtherReads(t, stream[loop[t].stream].capture))
  BY <1>1, TypesHeld DEF Exit, StreamRecords, LoopRecords
<1> QED BY <1>1, <1>2, ReleaseUse

LEMMA HeadUse ==
  ASSUME IInv, IInv', CapturesOpen, NEW t \in Tasks, loop[t].pc \in Awaiting, NEW status,
         Head(t, loop[t].stream, status), UNCHANGED <<abandoned, shared>>
  PROVE  CapturesOpen' /\ [Use!Next]_(Use!vars)
<1> DEFINE s == loop[t].stream
<1>1. CASE stream[s].running /\ running
  <2>1. /\ loop' = [loop EXCEPT ![t].pc = IF stream[s].capture = Nil THEN "opening" ELSE "reading",
                                ![t].cap = stream[s].capture]
        /\ stream' = [stream EXCEPT ![s].status = status] /\ UNCHANGED capture
    BY <1>1 DEF Head
  <2>2. s \in Streams
    BY LoopPlace
  <2>3. /\ loop'[t].cap = stream[s].capture
        /\ \A u \in Tasks : u # t => loop'[u] = loop[u]
    BY <2>1, TypesHeld DEF LoopRecords
  <2>4. \A x \in Streams : stream'[x].capture = stream[x].capture
    BY <2>1, TypesHeld DEF StreamRecords
  <2> QED BY <2>1, <2>2, <2>3, <2>4, ProceedUse
<1>2. CASE ~(stream[s].running /\ running)
  BY <1>2, ExitUse DEF Head
<1> QED BY <1>1, <1>2

LEMMA BeginUse ==
  ASSUME IInv, IInv', CapturesOpen, NEW t \in Tasks, Begin(t)
  PROVE  CapturesOpen' /\ [Use!Next]_(Use!vars)
<1> DEFINE s == registry[loop[t].camera]
           k == stream[s].capture
<1>1. loop[t].pc = "created" /\ loop[t].pc \notin Awaiting /\ loop[t].pc # "reading" /\ UNCHANGED abandoned
  BY DEF Begin, Awaiting
<1>2. CASE s = Nil
  <2>1. loop' = [loop EXCEPT ![t].pc = "done"] /\ UNCHANGED <<stream, capture, shared>>
    BY <1>2 DEF Begin
  <2>2. /\ \A u \in Tasks : u # t => loop'[u] = loop[u]
        /\ loop'[t].pc # "reading"
    BY <2>1, TypesHeld DEF LoopRecords
  <2> QED BY <1>1, <2>1, <2>2, ManagerUse
<1>3. CASE s # Nil
  <2>1. s \in Streams
    BY <1>1, <1>3, TypesHeld DEF IInv, LoopsPlaced
  <2>2. /\ stream' = [stream EXCEPT
                        ![s].running = TRUE,
                        ![s].status = IF running THEN "connecting" ELSE "offline",
                        ![s].capture = IF running THEN @ ELSE Nil]
        /\ loop' = [loop EXCEPT
                      ![t].stream = s,
                      ![t].pc = IF ~running THEN "done"
                                ELSE IF stream[s].capture = Nil THEN "opening" ELSE "reading",
                      ![t].cap = IF running THEN stream[s].capture ELSE Nil]
        /\ IF running THEN UNCHANGED <<capture, raced>>
           ELSE Release(stream[s].capture, OtherReads(t, stream[s].capture))
        /\ shared' = shared \/ shared' = shared \cup {s}
    BY <1>3 DEF Begin
  <2> HIDE DEF s
  <2>3. /\ \A x \in Streams : x # s => stream'[x].capture = stream[x].capture
        /\ stream'[s].capture = IF running THEN stream[s].capture ELSE Nil
    BY <2>1, <2>2, TypesHeld DEF StreamRecords
  <2>4. /\ \A u \in Tasks : u # t => loop'[u] = loop[u]
        /\ loop'[t].cap = IF running THEN stream[s].capture ELSE Nil
        /\ ~running => loop'[t].pc # "reading"
        /\ loop'[t].pc = "reading" => running /\ stream[s].capture # Nil
    BY <2>2, TypesHeld DEF LoopRecords
  <2>5. CASE shared' = shared /\ running
    <3>1. \A x \in Streams : stream'[x].capture = stream[x].capture
      BY <2>3, <2>5
    <3>2. UNCHANGED <<capture, abandoned, shared>>
      BY <1>1, <2>2, <2>5
    <3> QED BY <1>1, <2>1, <2>4, <2>5, <3>1, <3>2, ProceedUse
  <2>6. CASE shared' = shared /\ ~running
    <3>1. stream'[s].capture = Nil /\ loop'[t].pc # "reading"
      BY <2>3, <2>4, <2>6
    <3>2. Release(stream[s].capture, OtherReads(t, stream[s].capture))
      BY <2>2, <2>6
    <3> QED BY <1>1, <2>1, <2>3, <2>4, <2>6, <3>1, <3>2, ReleaseUse
  <2>7. CASE shared' = shared \cup {s}
    <3>1. k \in Captures => capture[k].stream = s /\ capture[k].state # "unused"
      BY <2>1, StreamCapture, NilAssumption
    <3>2. \A j \in Captures : j # k => capture'[j] = capture[j]
      BY <2>2, TypesHeld DEF Release
    <3>3. k \in Captures => /\ capture'[k].stream = capture[k].stream
                            /\ capture'[k].state # "unused"
      <4>1. k \in Captures => capture[k] \in CaptureRecords
        BY TypesHeld
      <4> QED BY <2>2, <3>1, <4>1, TypesHeld, NilAssumption DEF Release, CaptureRecords
    <3>4. \A j \in Captures : /\ capture'[j].stream = capture[j].stream
                              /\ capture[j].stream # s => capture'[j] = capture[j]
      BY <3>1, <3>2, <3>3
    <3>5. CapturesOpen'
      <4>1. \A j \in Captures : capture'[j].state = "unused" => capture'[j].stream = Nil
        BY <3>2, <3>3 DEF CapturesOpen
      <4>2. ASSUME NEW x \in Streams \ shared', stream'[x].capture # Nil
            PROVE  capture'[stream'[x].capture].state = "open"
        <5>1. x # s /\ x \in Streams \ shared /\ stream'[x].capture = stream[x].capture
          BY <2>3, <2>7, <4>2
        <5>2. /\ stream[x].capture \in Captures /\ capture[stream[x].capture].stream = x
              /\ capture[stream[x].capture].state = "open"
          BY <4>2, <5>1, StreamCapture
        <5> QED BY <3>4, <5>1, <5>2
      <4>3. ASSUME NEW j \in Captures, abandoned'[j] > 0, capture'[j].stream \notin shared'
            PROVE  capture'[j].state = "open"
        <5>1. capture[j].stream # s /\ capture[j].stream \notin shared
          BY <2>7, <3>4, <4>3
        <5> QED BY <1>1, <3>4, <4>3, <5>1 DEF CapturesOpen
      <4> QED BY <4>1, <4>2, <4>3 DEF CapturesOpen
    <3>6. OneRead /\ OneRead'
      BY <3>5, OneReadHolds, OneReadAfter
    <3>7. ASSUME NEW j \in Captures, capture[j].stream # s PROVE Read(j)' <=> Read(j)
      <4>1. j # k
        BY <3>1, <3>7
      <4>2. Readers(j)' = Readers(j)
        BY <1>1, <2>4, <4>1 DEF Readers
      <4> QED BY <1>1, <4>2 DEF Read
    <3> QED BY <2>7, <3>4, <3>5, <3>6, <3>7, UseContended
  <2> QED BY <2>2, <2>5, <2>6, <2>7
<1> QED BY <1>2, <1>3

LEMMA OpenedUse ==
  ASSUME IInv, IInv', CapturesOpen, NEW t \in Tasks, Opened(t)
  PROVE  CapturesOpen' /\ [Use!Next]_(Use!vars)
<1>1. PICK k \in Captures : k = Any(FreshCaptures) /\ capture[k].state = "unused"
  BY DEF Opened, Any, FreshCaptures
<1> DEFINE s == loop[t].stream
<1>2. s \in Streams
  BY LoopPlace DEF Opened, Awaiting
<1>3. /\ capture' = [capture EXCEPT ![k] = [state |-> "open", stream |-> s]]
      /\ stream' = [stream EXCEPT ![s].capture = k, ![s].status = "active"]
      /\ loop' = [loop EXCEPT ![t].pc = "reading", ![t].cap = k]
      /\ loop[t].pc = "opening" /\ UNCHANGED <<abandoned, shared>>
  BY <1>1 DEF Opened
<1> HIDE DEF s
<1>4. /\ capture'[k] = [state |-> "open", stream |-> s]
      /\ \A j \in Captures : j # k => capture'[j] = capture[j]
  BY <1>1, <1>3, TypesHeld
<1>5. /\ stream'[s].capture = k
      /\ \A x \in Streams : x # s => stream'[x].capture = stream[x].capture
  BY <1>2, <1>3, TypesHeld DEF StreamRecords
<1>6. /\ loop'[t].pc = "reading" /\ loop'[t].cap = k
      /\ \A u \in Tasks : u # t => loop'[u] = loop[u]
  BY <1>3, TypesHeld DEF LoopRecords
<1>7. CapturesOpen'
  <2>1. ASSUME NEW x \in Streams \ shared, stream'[x].capture # Nil
        PROVE  capture'[stream'[x].capture].state = "open"
    <3>1. CASE x = s
      BY <1>4, <1>5, <3>1
    <3>2. CASE x # s
      <4>1. /\ stream'[x].capture = stream[x].capture /\ stream[x].capture \in Captures
            /\ capture[stream[x].capture].state = "open"
        BY <1>5, <2>1, <3>2, StreamCapture
      <4> QED BY <1>1, <1>4, <4>1
    <3> QED BY <3>1, <3>2
  <2>2. \A j \in Captures : capture'[j].state = "unused" => capture'[j].stream = Nil
    BY <1>4 DEF CapturesOpen
  <2>3. \A j \in Captures :
           abandoned[j] > 0 /\ capture'[j].stream \notin shared => capture'[j].state = "open"
    BY <1>4 DEF CapturesOpen
  <2> QED BY <1>3, <2>1, <2>2, <2>3 DEF CapturesOpen
<1>8. OneRead /\ OneRead'
  BY <1>7, OneReadHolds, OneReadAfter
<1>9. ASSUME NEW j \in Captures, j # k PROVE Read(j)' <=> Read(j)
  <2>1. Readers(j)' = Readers(j)
    BY <1>3, <1>6, <1>9 DEF Readers
  <2> QED BY <1>3, <2>1 DEF Read
<1>10. Read(k)' /\ capture'[k].state = "open"
  <2>1. t \in Readers(k)'
    BY <1>6 DEF Readers
  <2> QED BY <1>4, <2>1 DEF Read
<1> QED BY <1>1, <1>3, <1>4, <1>7, <1>8, <1>9, <1>10, UseStep

\* A read that is abandoned goes on.
LEMMA AbandonedUse ==
  ASSUME IInv, IInv', CapturesOpen, NEW t \in Tasks, Cancelled(t), loop[t].pc = "reading"
  PROVE  CapturesOpen' /\ [Use!Next]_(Use!vars)
<1> DEFINE s == loop[t].stream
           k == loop[t].cap
<1>1. loop[t].pc \in Awaiting /\ s \in Streams /\ t \in LoopsOver(s)
  BY LoopPlace DEF Awaiting, LoopsOver
<1>2. k \in Captures /\ capture[k].stream = s
  BY DEF IInv, LoopsPlaced
<1>3. /\ abandoned' = [abandoned EXCEPT ![k] = @ + 1]
      /\ stream' = [stream EXCEPT ![s].capture = Nil, ![s].status = "offline"]
      /\ loop' = [loop EXCEPT ![t].pc = "done", ![t].cap = Nil]
      /\ UNCHANGED <<capture, shared>>
  BY DEF Cancelled
<1>4. s \notin shared => k = stream[s].capture
  BY <1>1 DEF IInv, Tidy
<1>5. s \notin shared => capture[k].state = "open"
  BY <1>1, <1>2, <1>4, NilAssumption DEF CapturesOpen
<1> HIDE DEF s, k
<1>6. /\ abandoned'[k] = abandoned[k] + 1 /\ abandoned'[k] > 0
      /\ \A j \in Captures : j # k => abandoned'[j] = abandoned[j]
  <2>1. abandoned[k] \in Nat
    BY <1>2, TypesHeld
  <2> QED BY <1>2, <1>3, <2>1, TypesHeld
<1>7. /\ stream'[s].capture = Nil
      /\ \A x \in Streams : x # s => stream'[x].capture = stream[x].capture
  BY <1>1, <1>3, TypesHeld DEF StreamRecords
<1>8. /\ loop'[t].pc # "reading"
      /\ \A u \in Tasks : u # t => loop'[u] = loop[u]
  BY <1>3, TypesHeld DEF LoopRecords
<1>9. CapturesOpen'
  BY <1>2, <1>3, <1>5, <1>6, <1>7 DEF CapturesOpen
<1>10. OneRead /\ OneRead'
  BY <1>9, OneReadHolds, OneReadAfter
<1>11. ASSUME NEW j \in Captures, j # k PROVE Read(j)' <=> Read(j)
  <2>1. Readers(j)' = Readers(j)
    BY <1>8, <1>11 DEF Readers, k
  <2> QED BY <1>6, <1>11, <2>1 DEF Read
<1> QED BY <1>3, <1>9, <1>10, <1>11, UseStep

\* An abandoned read returns, and lets its capture go.
LEMMA ReadReturnsUse ==
  ASSUME IInv, IInv', CapturesOpen, NEW k \in Captures, ReadReturns(k)
  PROVE  CapturesOpen' /\ [Use!Next]_(Use!vars)
<1>1. /\ abandoned[k] > 0 /\ abandoned' = [abandoned EXCEPT ![k] = @ - 1]
      /\ Release(k, InFlight(k) - 1) /\ UNCHANGED <<stream, loop, shared>>
  BY DEF ReadReturns
<1>2. capture' = [capture EXCEPT ![k].state = "released"]
  BY <1>1, NilAssumption DEF Release
<1>3. /\ capture'[k] = [capture[k] EXCEPT !.state = "released"]
      /\ \A j \in Captures : j # k => capture'[j] = capture[j]
  BY <1>2, TypesHeld
<1>4. capture'[k].stream = capture[k].stream /\ capture'[k].state = "released"
  <2>1. capture[k] \in CaptureRecords
    BY TypesHeld
  <2> QED BY <1>3, <2>1 DEF CaptureRecords
<1>5. capture[k].stream \notin shared => capture[k].state = "open"
  BY <1>1 DEF CapturesOpen
<1>6. /\ abandoned'[k] = abandoned[k] - 1
      /\ \A j \in Captures : j # k => abandoned'[j] = abandoned[j]
  BY <1>1, TypesHeld
<1>7. capture[k].stream \notin shared => ~(abandoned'[k] > 0)
  <2>1. capture[k].stream \in Streams
    BY <1>1 DEF IInv, CapturesPlaced
  <2>2. capture[k].stream \notin shared => abandoned[k] <= 1
    BY <2>1 DEF IInv, Tidy
  <2>3. abandoned[k] \in Nat
    BY TypesHeld
  <2> QED BY <1>1, <1>6, <2>2, <2>3
<1>8. CapturesOpen'
  <2>1. ASSUME NEW x \in Streams \ shared, stream[x].capture # Nil
        PROVE  capture'[stream[x].capture].state = "open"
    <3>1. /\ stream[x].capture \in Captures /\ capture[stream[x].capture].state = "open"
          /\ abandoned[stream[x].capture] = 0
      BY <2>1, StreamCapture
    <3> QED BY <1>1, <1>3, <3>1
  <2>2. ASSUME NEW j \in Captures, abandoned'[j] > 0, capture'[j].stream \notin shared
        PROVE  capture'[j].state = "open"
    <3>1. j # k
      BY <1>4, <1>7, <2>2
    <3> QED BY <1>3, <1>6, <2>2, <3>1 DEF CapturesOpen
  <2>3. \A j \in Captures : capture'[j].state = "unused" => capture'[j].stream = Nil
    BY <1>3, <1>4 DEF CapturesOpen
  <2> QED BY <1>1, <2>1, <2>2, <2>3 DEF CapturesOpen
<1>9. OneRead /\ OneRead'
  BY <1>8, OneReadHolds, OneReadAfter
<1>10. ASSUME NEW j \in Captures, j # k PROVE Read(j)' <=> Read(j)
  <2>1. Readers(j)' = Readers(j)
    BY <1>1 DEF Readers
  <2> QED BY <1>6, <1>10, <2>1 DEF Read
<1> QED BY <1>1, <1>3, <1>5, <1>8, <1>9, <1>10, UseStep

LEMMA LoopUse ==
  ASSUME IInv, IInv', CapturesOpen, NEW t \in Tasks, Step(t)
  PROVE  CapturesOpen' /\ [Use!Next]_(Use!vars)
<1> DEFINE s == loop[t].stream
<1>1. CASE OpenFailed(t) \/ Frame(t)
  <2>1. s \in Streams /\ UNCHANGED <<capture, abandoned, shared>>
    BY <1>1, LoopPlace DEF OpenFailed, Frame, Awaiting
  <2>2. /\ loop'[t].pc # "reading"
        /\ \A u \in Tasks : u # t => loop'[u] = loop[u]
    BY <1>1, TypesHeld DEF OpenFailed, Frame, LoopRecords
  <2>3. \A x \in Streams : stream'[x].capture = stream[x].capture
    <3>1. CASE OpenFailed(t)
      BY <1>1, <3>1, TypesHeld DEF OpenFailed, StreamRecords
    <3>2. CASE Frame(t)
      BY <1>1, <3>2, TypesHeld DEF Frame, StreamRecords
    <3> QED BY <1>1, <3>1, <3>2
  <2> QED BY <2>1, <2>2, <2>3, ProceedUse
<1>2. CASE Missed(t) \/ Resume(t)
  <2>1. loop[t].pc \in Awaiting
    BY <1>2 DEF Missed, Resume, Awaiting
  <2> QED BY <1>2, <2>1, HeadUse DEF Missed, Resume
<1>3. CASE Lost(t)
  <2>1. s \in Streams
    BY <1>3, LoopPlace DEF Lost, Awaiting
  <2>2. /\ loop'[t].pc # "reading"
        /\ \A u \in Tasks : u # t => loop'[u] = loop[u]
    BY <1>3, TypesHeld DEF Lost, LoopRecords
  <2>3. /\ stream'[s].capture = Nil
        /\ \A x \in Streams : x # s => stream'[x].capture = stream[x].capture
    BY <1>3, <2>1, TypesHeld DEF Lost, StreamRecords
  <2>4. Release(stream[s].capture, OtherReads(t, stream[s].capture)) /\ UNCHANGED <<abandoned, shared>>
    BY <1>3 DEF Lost
  <2> QED BY <2>1, <2>2, <2>3, <2>4, ReleaseUse
<1>4. CASE Cancelled(t)
  <2>1. CASE loop[t].pc = "created"
    <3>1. /\ loop' = [loop EXCEPT ![t].pc = "done"]
          /\ UNCHANGED <<stream, capture, abandoned, shared>>
      BY <1>4, <2>1 DEF Cancelled
    <3>2. /\ \A u \in Tasks : u # t => loop'[u] = loop[u]
          /\ loop'[t].pc # "reading"
      BY <3>1, TypesHeld DEF LoopRecords
    <3> QED BY <2>1, <3>1, <3>2, ManagerUse
  <2>2. CASE loop[t].pc \in {"opening", "paused"}
    <3>1. Exit(t, s) /\ loop[t].pc \in Awaiting /\ UNCHANGED <<abandoned, shared>>
      BY <1>4, <2>2 DEF Cancelled, Awaiting
    <3> QED BY <3>1, ExitUse
  <2> QED BY <1>4, <2>1, <2>2, AbandonedUse DEF Cancelled
<1> QED BY <1>1, <1>2, <1>3, <1>4, BeginUse, OpenedUse DEF Step

\* What the manager's actions leave of the captures and the reads.
LEMMA ManagerCaptures ==
  ASSUME IInv,
         \/ \E c \in Cameras : AddStream(c) \/ RemoveStream(c) \/ StartStream(c) \/ Monitor(c)
         \/ \E r \in Requests, c \in Cameras : StopStream(r, c)
         \/ \E r \in Requests : Stop(r) \/ Await(r)
         \/ Start \/ MonitorEnds
  PROVE  /\ UNCHANGED <<capture, abandoned, shared>>
         /\ \A x \in Streams : stream'[x].capture \in {stream[x].capture, Nil}
         /\ \A u \in Tasks : \/ loop'[u].pc = loop[u].pc /\ loop'[u].cap = loop[u].cap
                             \/ loop[u].pc # "reading" /\ loop'[u].pc # "reading"
<1> DEFINE Quiet == /\ UNCHANGED <<capture, abandoned, shared>>
                    /\ \A x \in Streams : stream'[x].capture \in {stream[x].capture, Nil}
                    /\ \A u \in Tasks : \/ loop'[u].pc = loop[u].pc /\ loop'[u].cap = loop[u].cap
                                        \/ loop[u].pc # "reading" /\ loop'[u].pc # "reading"
<1>1. \A c \in Cameras : Spawned(c).pc = "created"
  BY DEF Spawned, NewLoop
<1>2. ASSUME NEW cameras \in SUBSET Cameras, Spawn(cameras), UNCHANGED <<capture, abandoned, shared>>
      PROVE  Quiet
  <2>1. \A x \in Streams : stream'[x].capture = stream[x].capture
    BY <1>2, SpawnFacts DEF IInv
  <2>2. \A u \in Tasks : \/ loop'[u] = loop[u]
                         \/ loop[u].pc = "unused" /\ \E c \in Cameras : loop'[u] = Spawned(c)
    BY <1>2, SpawnFacts DEF IInv
  <2> QED BY <1>1, <1>2, <2>1, <2>2
<1>3. ASSUME NEW c \in Cameras, AddStream(c) PROVE Quiet
  <2>1. /\ UNCHANGED <<loop, capture, abandoned, shared>>
        /\ \A x \in Streams : \/ stream'[x] = [NewStream EXCEPT !.made = TRUE]
                              \/ stream'[x] = [stream[x] EXCEPT !.running = FALSE]
                              \/ stream'[x] = stream[x]
    BY <1>3 DEF AddStream
  <2>2. \A x \in Streams : stream[x] \in StreamRecords
    BY TypesHeld
  <2>3. \A x \in Streams : stream'[x].capture \in {stream[x].capture, Nil}
    BY <2>1, <2>2 DEF StreamRecords, NewStream
  <2> QED BY <2>1, <2>3
<1>4. ASSUME NEW c \in Cameras, RemoveStream(c) PROVE Quiet
  <2>1. \A x \in Streams : stream'[x].capture = stream[x].capture
    BY <1>4, TypesHeld DEF RemoveStream, StreamRecords
  <2> QED BY <1>4, <2>1 DEF RemoveStream
<1>5. ASSUME NEW c \in Cameras, StartStream(c) PROVE Quiet
  BY <1>2, <1>5 DEF StartStream
<1>6. ASSUME NEW c \in Cameras, Monitor(c) PROVE Quiet
  <2> DEFINE t == Any(FreshTasks)
  <2>1. \A x \in Streams : stream'[x].capture = stream[x].capture
    <3>1. \A x \in Streams :
             \/ stream'[x] = stream[x]
             \/ stream'[x] = [stream[x] EXCEPT !.status = "interrupted"]
             \/ stream'[x] = [stream[x] EXCEPT !.status = "interrupted", !.task = t]
      BY <1>6, TypesHeld DEF Monitor
    <3>2. \A x \in Streams : stream[x] \in StreamRecords
      BY TypesHeld
    <3> HIDE DEF t
    <3> QED BY <3>1, <3>2 DEF StreamRecords
  <2>2. CASE running /\ ~Alive(stream[registry[c]].task)
    <3>1. t \in FreshTasks /\ loop' = [loop EXCEPT ![t] = Spawned(c)]
      BY <1>6, <2>2 DEF Monitor, Any
    <3>2. \A u \in Tasks : loop'[u] = loop[u] \/ (loop[u].pc = "unused" /\ loop'[u].pc = "created")
      BY <1>1, <3>1, TypesHeld DEF FreshTasks
    <3> QED BY <1>6, <2>1, <3>2 DEF Monitor
  <2>3. CASE ~(running /\ ~Alive(stream[registry[c]].task))
    BY <1>6, <2>1, <2>3 DEF Monitor
  <2> QED BY <2>2, <2>3
<1>7. ASSUME NEW r \in Requests, NEW c \in Cameras, StopStream(r, c) PROVE Quiet
  <2>1. \A x \in Streams : stream'[x].capture = stream[x].capture
    <3>1. registry[c] \in Streams
      BY <1>7, TypesHeld DEF StopStream
    <3>2. \/ stream' = [stream EXCEPT ![registry[c]].running = FALSE]
          \/ stream' = [stream EXCEPT ![registry[c]].running = FALSE, ![registry[c]].task = Nil,
                                      ![registry[c]].status = "offline"]
      BY <1>7 DEF StopStream
    <3> QED BY <3>1, <3>2, TypesHeld DEF StreamRecords
  <2> QED BY <1>7, <2>1 DEF StopStream
<1>8. ASSUME NEW r \in Requests, Stop(r) PROVE Quiet
  <2>1. \A x \in Streams : stream'[x].capture = stream[x].capture
    BY <1>8, TypesHeld DEF Stop, StreamRecords
  <2> QED BY <1>8, <2>1 DEF Stop
<1>9. ASSUME NEW r \in Requests, Await(r) PROVE Quiet
  <2>1. UNCHANGED <<capture, abandoned, shared>>
    BY <1>9 DEF Await, Gathered, GraceOver, Woken, StopEnds
  <2>2. \A x \in Streams : stream'[x].capture = stream[x].capture
    <3>1. CASE Gathered(r)
      BY <3>1, TypesHeld DEF Gathered, StreamRecords
    <3>2. CASE Woken(r)
      BY <3>2, TypesHeld DEF Woken, StreamRecords
    <3>3. CASE GraceOver(r) \/ StopEnds(r)
      BY <3>3 DEF GraceOver, StopEnds
    <3> QED BY <1>9, <3>1, <3>2, <3>3 DEF Await
  <2>3. \A u \in Tasks : loop'[u].pc = loop[u].pc /\ loop'[u].cap = loop[u].cap
    <3>1. CASE GraceOver(r)
      BY <3>1, TypesHeld DEF GraceOver, LoopRecords
    <3>2. CASE Gathered(r) \/ Woken(r) \/ StopEnds(r)
      BY <3>2 DEF Gathered, Woken, StopEnds
    <3> QED BY <1>9, <3>1, <3>2 DEF Await
  <2> QED BY <2>1, <2>2, <2>3
<1>10. CASE Start
  <2>1. Stopped \in SUBSET Cameras
    BY DEF Stopped
  <2> QED BY <1>2, <1>10, <2>1 DEF Start
<1>11. CASE MonitorEnds
  BY <1>11 DEF MonitorEnds
<1> QED BY <1>3, <1>4, <1>5, <1>6, <1>7, <1>8, <1>9, <1>10, <1>11

LEMMA NextUse ==
  IInv /\ IInv' /\ CapturesOpen /\ [Next]_vars => CapturesOpen' /\ [Use!Next]_(Use!vars)
<1> SUFFICES ASSUME IInv, IInv', CapturesOpen, [Next]_vars
             PROVE  CapturesOpen' /\ [Use!Next]_(Use!vars)
  OBVIOUS
<1>1. CASE UNCHANGED vars
  BY <1>1, ManagerUse DEF vars
<1>2. CASE \E t \in Tasks : Step(t)
  BY <1>2, LoopUse
<1>3. CASE \E k \in Captures : ReadReturns(k)
  BY <1>3, ReadReturnsUse
<1>4. CASE \/ \E c \in Cameras : AddStream(c) \/ RemoveStream(c) \/ StartStream(c) \/ Monitor(c)
           \/ \E r \in Requests, c \in Cameras : StopStream(r, c)
           \/ \E r \in Requests : Stop(r) \/ Await(r)
           \/ Start \/ MonitorEnds
  <2> HIDE DEF Use!Next
  <2> QED BY <1>4, ManagerCaptures, ManagerUse
<1> QED BY <1>1, <1>2, <1>3, <1>4 DEF Next

\* StreamLoops implements CaptureUse: the captures of streams that never had two loops have
\* one read at a time, also when a forced cancellation leaves a read behind that nobody
\* awaits; each is let go of once, with its last read or after it, and never touched again.
\* (_stream_loop 450-474, 530-541; _drain_and_release 152-161.)
THEOREM CapturesUsedWithCare == Spec => UsedWithCare
<1>1. Init => CapturesOpen /\ Use!Init
  <2> SUFFICES ASSUME Init PROVE CapturesOpen /\ Use!Init
    OBVIOUS
  <2>1. \A k \in Captures : Readers(k) = {} /\ abandoned[k] = 0
    BY DEF Init, NewLoop, Readers
  <2>2. \A k \in Captures : InFlight(k) = 0
    BY <2>1, FS_EmptySet DEF InFlight, Readers
  <2>3. CapturesOpen
    BY DEF Init, CapturesOpen, NewStream
  <2> QED BY <2>2, <2>3 DEF Init, Use!Init, Use!Unused
<1>2. Spec => [](IInv /\ CapturesOpen)
  BY <1>1, InitInv, NextInv, NextUse, PTL DEF Spec
<1>3. IInv /\ CapturesOpen /\ [Next]_vars => [Use!Next]_(Use!vars)
  BY NextInv, NextUse
<1> QED BY <1>1, <1>2, <1>3, PTL DEF Spec, UsedWithCare, Use!Spec
=============================================================================
