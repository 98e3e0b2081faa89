-------------------------- MODULE EventPipelineProofs --------------------------
(***************************************************************************)
(* What holds of EventPipeline for any number of threads, people, events   *)
(* and instants, whatever the two windows and the length of the queue are. *)
(***************************************************************************)
EXTENDS EventPipeline, SequenceTheorems, FiniteSetTheorems, TLAPS

EventIds == 1 .. MaxEvents
Intents == EventTypes \cup {"toggle"}
Attempts == [action : EventTypes \cup {"none"}, at : Stamp]
Rows == [in : Stamp, out : Stamp]

\* What a worker thread holds at each of its points; only a request writes inline.
ThreadRecords ==
    {Idle}
    \cup [pc : {"mark"}, person : People, type : EventTypes, intent : Intents, since : Time]
    \cup [pc : {"inline"}, person : Employees, intent : Intents]
    \cup [pc : {"commit"}, person : Employees, attempt : [action : EventTypes, at : Time]]

ThreadsTyped ==
    /\ thread \in [Threads -> ThreadRecords]
    /\ \A h \in Threads : thread[h].pc \in {"inline", "commit"} => h \in Requests

-----------------------------------------------------------------------------
(* The events of a sequence, and their ids *)

Events(s) == {s[k] : k \in 1 .. Len(s)}
IdsOf(s) == {v.id : v \in Events(s)}

Distinct(s) == \A j, k \in 1 .. Len(s) : s[j].id = s[k].id => j = k

Waiting == Events(retry) \cup Events(batch) \cup Events(queue)

\* Every event that waits is open, and waits in one place; ids not given out are free.
HeldOnce ==
    /\ Distinct(retry) /\ Distinct(batch) /\ Distinct(queue)
    /\ IdsOf(retry) \cap IdsOf(batch) = {}
    /\ IdsOf(retry) \cap IdsOf(queue) = {}
    /\ IdsOf(batch) \cap IdsOf(queue) = {}
    /\ \A i \in EventIds :
          /\ outcome[i] = "open" <=> i \in IdsOf(retry) \cup IdsOf(batch) \cup IdsOf(queue)
          /\ i > issued => outcome[i] = "none" /\ writes[i] = 0

-----------------------------------------------------------------------------
(* What the consumer and the ledger know of each other *)

Busy == consumer \in {"arm", "commit", "unarm"}

\* The transaction of the consumer works on an employee; what it decided is what the
\* event says, and was never written for it before.
Attempted ==
    /\ Busy => event.person \in Employees
    /\ consumer = "arm" => attempt.action # "none"
    /\ attempt.action # "none" =>
          /\ Busy /\ attempt.at \in Time /\ attempt.action = event.type
          /\ writes[event.id] = 0

\* A check-out needs a check-in, also one that is not committed yet.
RowsInOrder ==
    /\ \A e \in Employees : ledger[e].out # None => ledger[e].in # None
    /\ attempt.action = "check_out" => ledger[event.person].in # None
    /\ \A h \in Threads : thread[h].pc = "commit" /\ thread[h].attempt.action = "check_out"
                          => ledger[thread[h].person].in # None

Recorded(v) ==
    /\ v.person \in Employees
    /\ ledger[v.person].in # None
    /\ v.type = "check_out" => ledger[v.person].out # None

\* An event that was written and is still held finds its stamp in the ledger.
WritesRecorded ==
    /\ writes \in [EventIds -> {0, 1}]
    /\ \A v \in Waiting : writes[v.id] = 1 => Recorded(v)

\* A marker without its check-in: it leaked, or its transaction is open.
Excused(e) ==
    \/ e \in leaked
    \/ \E h \in Requests : thread[h].pc = "commit" /\ thread[h].person = e

MarkersExplained ==
    \A e \in Employees :
        marker[e] # None /\ ledger[e].in = None =>
            \/ Excused(e)
            \/ consumer \in {"commit", "unarm"} /\ attempt.action # "none" /\ event.person = e

NoopExplained ==
    consumer = "commit" /\ attempt.action = "none" /\ event.type = "check_in"
    => ledger[event.person].in # None \/ Excused(event.person)

IInv ==
    /\ TypeOK /\ ThreadsTyped
    /\ HeldOnce
    /\ Attempted /\ RowsInOrder /\ WritesRecorded
    /\ MarkersExplained /\ NoopExplained

-----------------------------------------------------------------------------
(* Lemmas about the operators of the model *)

LEMMA NoneIsNoTime == None \notin Time /\ Time \subseteq Stamp /\ None \in Stamp
BY PipelineAssumption DEF None, Time, Stamp

\* The events of a concatenation (retry + queue, retry + what a drain leaves).
LEMMA ConcatEvents ==
  ASSUME NEW s \in Seq(Event), NEW t \in Seq(Event)
  PROVE  /\ s \o t \in Seq(Event)
         /\ Events(s \o t) = Events(s) \cup Events(t)
         /\ IdsOf(s \o t) = IdsOf(s) \cup IdsOf(t)
         /\ Distinct(s) /\ Distinct(t) /\ IdsOf(s) \cap IdsOf(t) = {} => Distinct(s \o t)
<1> DEFINE u == s \o t
<1>1. /\ u \in Seq(Event) /\ Len(u) = Len(s) + Len(t) /\ Len(s) \in Nat /\ Len(t) \in Nat
      /\ \A i \in 1 .. Len(s) + Len(t) : u[i] = IF i <= Len(s) THEN s[i] ELSE t[i - Len(s)]
  BY ConcatProperties
<1> HIDE DEF u
<1>2. \A i \in 1 .. Len(s) : i \in 1 .. Len(u) /\ u[i] = s[i]
  BY <1>1
<1>3. \A i \in 1 .. Len(t) : i + Len(s) \in 1 .. Len(u) /\ u[i + Len(s)] = t[i]
  <2> SUFFICES ASSUME NEW i \in 1 .. Len(t)
               PROVE  i + Len(s) \in 1 .. Len(u) /\ u[i + Len(s)] = t[i]
    OBVIOUS
  <2>1. i + Len(s) \in 1 .. Len(s) + Len(t) /\ ~(i + Len(s) <= Len(s)) /\ (i + Len(s)) - Len(s) = i
    BY <1>1
  <2> QED BY <1>1, <2>1
<1>4. \A i \in 1 .. Len(u) :
          IF i \in 1 .. Len(s) THEN u[i] = s[i]
          ELSE i - Len(s) \in 1 .. Len(t) /\ u[i] = t[i - Len(s)]
  <2> SUFFICES ASSUME NEW i \in 1 .. Len(u), i \notin 1 .. Len(s)
               PROVE  i - Len(s) \in 1 .. Len(t) /\ u[i] = t[i - Len(s)]
    BY <1>2
  <2>1. i \in Nat /\ i > Len(s) /\ i <= Len(s) + Len(t)
    BY <1>1
  <2> QED BY <1>1, <2>1
<1>5. Events(u) = Events(s) \cup Events(t)
  <2>1. ASSUME NEW v \in Events(u) PROVE v \in Events(s) \cup Events(t)
    <3>1. PICK i \in 1 .. Len(u) : v = u[i]
      BY DEF Events
    <3> QED BY <1>4, <3>1 DEF Events
  <2>2. ASSUME NEW v \in Events(s) PROVE v \in Events(u)
    BY <1>2 DEF Events
  <2>3. ASSUME NEW v \in Events(t) PROVE v \in Events(u)
    BY <1>3 DEF Events
  <2> QED BY <2>1, <2>2, <2>3
<1>6. IdsOf(u) = IdsOf(s) \cup IdsOf(t)
  BY <1>5 DEF IdsOf
<1>7. ASSUME Distinct(s), Distinct(t), IdsOf(s) \cap IdsOf(t) = {} PROVE Distinct(u)
  <2> SUFFICES ASSUME NEW j \in 1 .. Len(u), NEW k \in 1 .. Len(u), u[j].id = u[k].id PROVE j = k
    BY DEF Distinct
  <2>1. \A i \in 1 .. Len(s) : s[i].id \in IdsOf(s)
    BY DEF IdsOf, Events
  <2>2. \A i \in 1 .. Len(t) : t[i].id \in IdsOf(t)
    BY DEF IdsOf, Events
  <2>3. CASE j \in 1 .. Len(s) /\ k \in 1 .. Len(s)
    BY <1>2, <1>7, <2>3 DEF Distinct
  <2>4. CASE j \notin 1 .. Len(s) /\ k \notin 1 .. Len(s)
    <3>1. j - Len(s) \in 1 .. Len(t) /\ k - Len(s) \in 1 .. Len(t)
          /\ t[j - Len(s)].id = t[k - Len(s)].id
      BY <1>4, <2>4
    <3>2. j - Len(s) = k - Len(s)
      BY <1>7, <3>1 DEF Distinct
    <3> QED BY <1>1, <3>2
  <2>5. CASE j \in 1 .. Len(s) /\ k \notin 1 .. Len(s)
    <3>1. u[j].id \in IdsOf(s) /\ u[k].id \in IdsOf(t)
      BY <1>2, <1>4, <2>1, <2>2, <2>5
    <3> QED BY <1>7, <3>1
  <2>6. CASE j \notin 1 .. Len(s) /\ k \in 1 .. Len(s)
    <3>1. u[k].id \in IdsOf(s) /\ u[j].id \in IdsOf(t)
      BY <1>2, <1>4, <2>1, <2>2, <2>6
    <3> QED BY <1>7, <3>1
  <2> QED BY <2>3, <2>4, <2>5, <2>6
<1> QED BY <1>1, <1>5, <1>6, <1>7 DEF u

LEMMA EmptyEvents ==
  /\ <<>> \in Seq(Event) /\ Len(<<>>) = 0
  /\ Events(<<>>) = {} /\ IdsOf(<<>>) = {} /\ Distinct(<<>>)
<1>1. <<>> \in Seq(Event) /\ Len(<<>>) = 0
  OBVIOUS
<1>2. 1 .. 0 = {}
  OBVIOUS
<1> QED BY <1>1, <1>2 DEF Events, IdsOf, Distinct

\* What is left when the first event is taken (popleft, the loop of a drain).
LEMMA TakenEvents ==
  ASSUME NEW s \in Seq(Event), s # <<>>
  PROVE  /\ Head(s) \in Event /\ Tail(s) \in Seq(Event) /\ Len(Tail(s)) = Len(s) - 1
         /\ Events(s) = {Head(s)} \cup Events(Tail(s))
         /\ IdsOf(s) = {Head(s).id} \cup IdsOf(Tail(s))
         /\ Distinct(s) => Distinct(Tail(s)) /\ Head(s).id \notin IdsOf(Tail(s))
<1> DEFINE t == Tail(s)
<1>1. /\ Head(s) \in Event /\ t \in Seq(Event) /\ Len(t) = Len(s) - 1
      /\ \A i \in 1 .. Len(t) : t[i] = s[i + 1]
  BY HeadTailProperties
<1>2. Len(s) \in Nat \ {0} /\ Head(s) = s[1]
  OBVIOUS
<1> HIDE DEF t
<1>3. Events(s) = {Head(s)} \cup Events(t)
  <2>1. ASSUME NEW v \in Events(s) PROVE v = Head(s) \/ v \in Events(t)
    <3>1. PICK k \in 1 .. Len(s) : v = s[k]
      BY DEF Events
    <3>2. CASE k = 1
      BY <1>2, <3>1, <3>2
    <3>3. CASE k # 1
      <4>1. k - 1 \in 1 .. Len(t) /\ t[k - 1] = s[k]
        BY <1>1, <1>2, <3>3
      <4> QED BY <3>1, <4>1 DEF Events
    <3> QED BY <3>2, <3>3
  <2>2. Head(s) \in Events(s)
    <3>1. 1 \in 1 .. Len(s)
      BY <1>2
    <3> QED BY <1>2, <3>1 DEF Events
  <2>3. ASSUME NEW v \in Events(t) PROVE v \in Events(s)
    <3>1. PICK k \in 1 .. Len(t) : v = t[k]
      BY DEF Events
    <3>2. k + 1 \in 1 .. Len(s) /\ v = s[k + 1]
      BY <1>1, <1>2, <3>1
    <3> QED BY <3>2 DEF Events
  <2> QED BY <2>1, <2>2, <2>3
<1>4. IdsOf(s) = {Head(s).id} \cup IdsOf(t)
  BY <1>3 DEF IdsOf
<1>5. ASSUME Distinct(s) PROVE Distinct(t) /\ Head(s).id \notin IdsOf(t)
  <2>1. ASSUME NEW j \in 1 .. Len(t), NEW k \in 1 .. Len(t), t[j].id = t[k].id PROVE j = k
    <3>1. j + 1 \in 1 .. Len(s) /\ k + 1 \in 1 .. Len(s) /\ s[j + 1].id = s[k + 1].id
      BY <1>1, <1>2, <2>1
    <3>2. j + 1 = k + 1
      BY <1>5, <3>1 DEF Distinct
    <3> QED BY <3>2
  <2>2. ASSUME NEW v \in Events(t) PROVE v.id # Head(s).id
    <3>1. PICK k \in 1 .. Len(t) : v = t[k]
      BY DEF Events
    <3>2. k + 1 \in 1 .. Len(s) /\ v = s[k + 1] /\ 1 \in 1 .. Len(s) /\ k + 1 # 1
      BY <1>1, <1>2, <3>1
    <3> QED BY <1>2, <1>5, <3>2 DEF Distinct
  <2> QED BY <2>1, <2>2 DEF Distinct, IdsOf
<1> QED BY <1>1, <1>3, <1>4, <1>5 DEF t

LEMMA AddedEvent ==
  ASSUME NEW s \in Seq(Event), NEW v \in Event
  PROVE  /\ Append(s, v) \in Seq(Event) /\ Len(Append(s, v)) = Len(s) + 1
         /\ Events(Append(s, v)) = Events(s) \cup {v}
         /\ IdsOf(Append(s, v)) = IdsOf(s) \cup {v.id}
         /\ Distinct(s) /\ v.id \notin IdsOf(s) => Distinct(Append(s, v))
<1> DEFINE a == Append(s, v)
           one == <<v>>
<1>1. a = s \o one /\ one \in Seq(Event) /\ a \in Seq(Event)
  BY AppendIsConcat, AppendProperties
<1>2. Len(a) = Len(s) + 1
  BY AppendProperties
<1>3. Len(one) = 1 /\ one[1] = v /\ 1 .. 1 = {1}
  OBVIOUS
<1> HIDE DEF a, one
<1>4. Events(one) = {v}
  BY <1>3 DEF Events
<1>5. IdsOf(one) = {v.id}
  BY <1>4 DEF IdsOf
<1>6. Distinct(one)
  BY <1>3 DEF Distinct
<1>7. /\ Events(a) = Events(s) \cup Events(one) /\ IdsOf(a) = IdsOf(s) \cup IdsOf(one)
      /\ Distinct(s) /\ Distinct(one) /\ IdsOf(s) \cap IdsOf(one) = {} => Distinct(a)
  BY <1>1, ConcatEvents
<1> QED BY <1>1, <1>2, <1>4, <1>5, <1>6, <1>7 DEF a

\* One event that waits has one position, and none where it does not.
LEMMA OnePosition ==
  ASSUME NEW s \in Seq(Event), Distinct(s), NEW i
  PROVE  Cardinality({k \in DOMAIN s : s[k].id = i}) = IF i \in IdsOf(s) THEN 1 ELSE 0
<1> DEFINE K == {k \in DOMAIN s : s[k].id = i}
<1>1. DOMAIN s = 1 .. Len(s)
  OBVIOUS
<1>2. CASE i \in IdsOf(s)
  <2>1. PICK k \in 1 .. Len(s) : s[k].id = i
    BY <1>2 DEF IdsOf, Events
  <2>2. K = {k}
    BY <1>1, <2>1 DEF Distinct
  <2> QED BY <1>2, <2>2, FS_Singleton
<1>3. CASE i \notin IdsOf(s)
  <2>1. K = {}
    BY <1>1, <1>3 DEF IdsOf, Events
  <2> QED BY <1>3, <2>1, FS_EmptySet
<1> QED BY <1>2, <1>3

LEMMA ThreadFields ==
  ASSUME ThreadsTyped, NEW h \in Threads
  PROVE  /\ thread[h].pc \in {"idle", "mark", "inline", "commit"}
         /\ thread[h].pc = "mark" =>
               /\ thread[h].person \in People /\ thread[h].type \in EventTypes
               /\ thread[h].intent \in Intents /\ thread[h].since \in Time
         /\ thread[h].pc = "inline" =>
               h \in Requests /\ thread[h].person \in Employees /\ thread[h].intent \in Intents
         /\ thread[h].pc = "commit" =>
               /\ h \in Requests /\ thread[h].person \in Employees
               /\ thread[h].attempt.action \in EventTypes /\ thread[h].attempt.at \in Time
<1>1. thread[h] \in ThreadRecords
  BY DEF ThreadsTyped
<1> QED BY <1>1 DEF ThreadsTyped, ThreadRecords, Idle

\* What process_recognition may decide.
LEMMA DecideBounds ==
  ASSUME NEW e \in Employees, NEW intent \in Intents, ledger \in [Employees -> Rows],
         ledger[e].out # None => ledger[e].in # None
  PROVE  /\ Decide(e, intent) \in EventTypes \cup {"none"}
         /\ Decide(e, intent) = "check_in" => ledger[e].in = None /\ intent # "check_out"
         /\ Decide(e, intent) = "check_out" =>
               ledger[e].in # None /\ ledger[e].out = None /\ intent # "check_in"
         /\ Decide(e, intent) = "none" /\ intent = "check_in" => ledger[e].in # None \/ marker[e] # None
BY DEF Decide, Armed, RecentAction, EventTypes, Intents

LEMMA WrittenRows ==
  ASSUME NEW e \in Employees, NEW made, made.action \in EventTypes \cup {"none"},
         made.action # "none" => made.at \in Time, ledger \in [Employees -> Rows],
         ledger' = Written(e, made)
  PROVE  /\ ledger' \in [Employees -> Rows]
         /\ \A d \in Employees : d # e => ledger'[d] = ledger[d]
         /\ made.action = "none" => ledger' = ledger
         /\ made.action = "check_in" => ledger'[e].in = made.at /\ ledger'[e].out = ledger[e].out
         /\ made.action = "check_out" => ledger'[e].out = made.at /\ ledger'[e].in = ledger[e].in
<1>1. ledger[e] \in Rows
  OBVIOUS
<1>2. CASE made.action = "none"
  BY <1>2 DEF Written
<1>3. CASE made.action = "check_in"
  <2> DEFINE row == [ledger[e] EXCEPT !.in = made.at]
  <2>1. row \in Rows /\ row.in = made.at /\ row.out = ledger[e].out
    BY <1>1, <1>3, NoneIsNoTime DEF Rows
  <2>2. ledger' = [ledger EXCEPT ![e] = row]
    BY <1>3 DEF Written
  <2> HIDE DEF row
  <2> QED BY <1>3, <2>1, <2>2
<1>4. CASE made.action = "check_out"
  <2> DEFINE row == [ledger[e] EXCEPT !.out = made.at]
  <2>1. row \in Rows /\ row.out = made.at /\ row.in = ledger[e].in
    BY <1>1, <1>4, NoneIsNoTime DEF Rows
  <2>2. ledger' = [ledger EXCEPT ![e] = row]
    BY <1>4 DEF Written
  <2> HIDE DEF row
  <2> QED BY <1>4, <2>1, <2>2
<1> QED BY <1>2, <1>3, <1>4 DEF EventTypes

-----------------------------------------------------------------------------
(* What a step keeps, by the parts of the invariant *)

Grown ==
    \A e \in Employees : /\ ledger[e].in # None => ledger'[e].in # None
                         /\ ledger[e].out # None => ledger'[e].out # None

LEMMA TypeFacts ==
  ASSUME IInv
  PROVE  /\ clock \in Time /\ ledger \in [Employees -> Rows] /\ marker \in [Employees -> Stamp]
         /\ retry \in Seq(Event) /\ batch \in Seq(Event) /\ queue \in Seq(Event)
         /\ leaked \subseteq Employees /\ issued \in 0 .. MaxEvents
         /\ attempt \in Attempts
BY DEF IInv, TypeOK, Rows, Attempts

\* The event at hand, whenever there is one.
LEMMA EventAtHand ==
  ASSUME IInv, consumer \in {"event", "arm", "commit", "unarm"}
  PROVE  /\ batch # <<>> /\ event \in Event /\ event \in Waiting
         /\ event.id \in EventIds /\ outcome[event.id] = "open"
         /\ Tail(batch) \in Seq(Event)
<1>1. batch # <<>> /\ batch \in Seq(Event)
  BY DEF IInv, TypeOK
<1>2. /\ event \in Event /\ event \in Waiting /\ event.id \in IdsOf(batch)
      /\ Tail(batch) \in Seq(Event)
  BY <1>1, TakenEvents DEF event, Waiting
<1>3. event.id \in EventIds
  BY <1>2 DEF Event, EventIds
<1> QED BY <1>1, <1>2, <1>3 DEF IInv, HeldOnce

LEMMA ExcusedKept ==
  ASSUME leaked \subseteq leaked',
         \A h \in Requests : thread[h].pc = "commit" => thread'[h] = thread[h]
  PROVE  \A e \in Employees : Excused(e) => Excused(e)'
BY DEF Excused

LEMMA WritesKept ==
  ASSUME IInv, UNCHANGED writes, Grown, \A v \in Waiting' : v \in Waiting \/ writes[v.id] = 0
  PROVE  WritesRecorded'
BY DEF IInv, WritesRecorded, Recorded, Grown

LEMMA RowsKept ==
  ASSUME IInv, Grown,
         \A e \in Employees : ledger'[e].out # None => ledger'[e].in # None,
         attempt'.action = "check_out" => attempt.action = "check_out" /\ batch' = batch,
         \A h \in Threads : thread'[h] = thread[h] \/ thread'[h].pc # "commit"
  PROVE  RowsInOrder'
<1>1. attempt'.action = "check_out" => event' = event /\ event.person \in Employees
  BY DEF event, IInv, Attempted
<1>2. \A h \in Threads : thread[h].pc = "commit" => thread[h].person \in Employees
  BY ThreadFields DEF IInv
<1> QED BY <1>1, <1>2 DEF IInv, RowsInOrder, Grown

LEMMA NoopKept ==
  ASSUME IInv, Grown,
         \A e \in Employees : Excused(e) /\ ledger'[e].in = None => Excused(e)',
         consumer' = "commit" /\ attempt'.action = "none" =>
             consumer = "commit" /\ attempt.action = "none" /\ batch' = batch
  PROVE  NoopExplained'
<1> SUFFICES ASSUME consumer' = "commit", attempt'.action = "none", event'.type = "check_in",
                    ledger'[event'.person].in = None
             PROVE  Excused(event.person)'
  BY DEF NoopExplained
<1>1. event' = event /\ consumer = "commit" /\ attempt.action = "none"
  BY DEF event
<1>2. event.person \in Employees
  BY <1>1 DEF IInv, Attempted, Busy
<1>3. ledger[event.person].in = None
  BY <1>1, <1>2 DEF Grown
<1>4. Excused(event.person)
  BY <1>1, <1>3 DEF IInv, NoopExplained
<1> QED BY <1>1, <1>2, <1>4

\* What the threads and the clock do leaves the consumer where it is.
LEMMA ConsumerWaits ==
  ASSUME IInv, TypeOK', ThreadsTyped', HeldOnce', UNCHANGED <<batch, consumer, attempt, writes>>, Grown,
         RowsInOrder',
         \A e \in Employees : Excused(e) /\ ledger'[e].in = None => Excused(e)',
         \A e \in Employees : marker'[e] # None => marker[e] # None \/ Excused(e)',
         \A v \in Waiting' : v \in Waiting \/ writes[v.id] = 0
  PROVE  IInv'
<1>1. Attempted'
  BY DEF IInv, Attempted, Busy, event
<1>2. WritesRecorded'
  BY WritesKept
<1>3. NoopExplained'
  BY NoopKept
<1>4. MarkersExplained'
  <2> SUFFICES ASSUME NEW e \in Employees, marker'[e] # None, ledger'[e].in = None, ~Excused(e)'
               PROVE  consumer' \in {"commit", "unarm"} /\ attempt'.action # "none" /\ event'.person = e
    BY DEF MarkersExplained
  <2>1. marker[e] # None /\ ledger[e].in = None /\ ~Excused(e)
    BY DEF Grown
  <2> QED BY <2>1 DEF IInv, MarkersExplained, event
<1> QED BY <1>1, <1>2, <1>3, <1>4 DEF IInv

-----------------------------------------------------------------------------
(* Each step keeps the invariant *)

LEMMA InitIInv == Init => IInv
<1> SUFFICES ASSUME Init PROVE IInv
  OBVIOUS
<1>1. /\ clock = 0 /\ retry = <<>> /\ batch = <<>> /\ queue = <<>> /\ now = 0 /\ consumer = "sleep"
      /\ stopping = FALSE /\ attempt = NoAttempt /\ issued = 0 /\ leaked = {}
      /\ tracker = [p \in People |-> [k \in EventTypes |-> None]]
      /\ thread = [h \in Threads |-> Idle]
      /\ ledger = [e \in Employees |-> [in |-> None, out |-> None]]
      /\ marker = [e \in Employees |-> None]
      /\ outcome = [i \in 1 .. MaxEvents |-> "none"]
      /\ writes = [i \in 1 .. MaxEvents |-> 0]
  BY DEF Init
<1>2. 0 \in Time /\ 0 \in 0 .. MaxEvents /\ 0 <= MaxPending
  BY PipelineAssumption DEF Time
<1>3. ThreadsTyped
  BY <1>1 DEF ThreadsTyped, ThreadRecords, Idle
<1>4. TypeOK
  <2>1. tracker \in [People -> [EventTypes -> Stamp]]
    BY <1>1, NoneIsNoTime
  <2>2. \A h \in Threads : thread[h].pc = "idle"
    BY <1>1 DEF Idle
  <2>3. ledger \in [Employees -> [in : Stamp, out : Stamp]] /\ marker \in [Employees -> Stamp]
    BY <1>1, NoneIsNoTime
  <2>4. attempt \in [action : EventTypes \cup {"none"}, at : Stamp]
    BY <1>1, NoneIsNoTime DEF NoAttempt
  <2> QED BY <1>1, <1>2, <2>1, <2>2, <2>3, <2>4, EmptyEvents DEF TypeOK
<1>5. HeldOnce
  BY <1>1, EmptyEvents DEF HeldOnce, EventIds
<1>6. Attempted /\ NoopExplained
  BY <1>1 DEF Attempted, Busy, NoAttempt, NoopExplained
<1>7. RowsInOrder
  BY <1>1 DEF RowsInOrder, NoAttempt, Idle
<1>8. WritesRecorded
  BY <1>1, EmptyEvents DEF WritesRecorded, EventIds, Waiting
<1>9. MarkersExplained
  BY <1>1 DEF MarkersExplained
<1> QED BY <1>3, <1>4, <1>5, <1>6, <1>7, <1>8, <1>9 DEF IInv

LEMMA TickIInv ==
  ASSUME IInv, Tick
  PROVE  IInv'
<1>1. /\ clock' = clock + 1 /\ clock < MaxTime
      /\ UNCHANGED <<tracker, thread, queue, retry, batch, now, consumer, stopping,
                   attempt, ledger, marker, issued, outcome, writes, leaked>>
  BY DEF Tick
<1>2. TypeOK'
  BY <1>1, PipelineAssumption DEF IInv, TypeOK, Time
<1>3. ThreadsTyped' /\ HeldOnce' /\ RowsInOrder' /\ Grown
  BY <1>1 DEF IInv, ThreadsTyped, HeldOnce, RowsInOrder, Grown, event
<1> QED BY <1>1, <1>2, <1>3, ConsumerWaits DEF Excused, Waiting

LEMMA ThreadSet ==
  ASSUME ThreadsTyped, NEW h \in Threads, NEW r \in ThreadRecords, thread' = [thread EXCEPT ![h] = r],
         r.pc \in {"inline", "commit"} => h \in Requests
  PROVE  /\ ThreadsTyped' /\ thread'[h] = r
         /\ \A g \in Threads : g # h => thread'[g] = thread[g]
         /\ \A g \in Threads : thread'[g].pc \in {"idle", "mark", "inline", "commit"}
<1>1. thread \in [Threads -> ThreadRecords]
  BY DEF ThreadsTyped
<1>2. thread' \in [Threads -> ThreadRecords] /\ thread'[h] = r
      /\ \A g \in Threads : g # h => thread'[g] = thread[g]
  BY <1>1
<1>3. ThreadsTyped'
  BY <1>2 DEF ThreadsTyped
<1>4. \A g \in Threads : thread'[g].pc \in {"idle", "mark", "inline", "commit"}
  <2> SUFFICES ASSUME NEW g \in Threads PROVE thread'[g].pc \in {"idle", "mark", "inline", "commit"}
    OBVIOUS
  <2>1. thread'[g] \in ThreadRecords
    BY <1>2
  <2> QED BY <2>1 DEF ThreadRecords, Idle
<1> QED BY <1>2, <1>3, <1>4

\* A look at the tracker.
LEMMA CheckIInv ==
  ASSUME IInv, NEW h \in Threads, NEW p \in People, NEW kind \in EventTypes, NEW intent \in Intents,
         Check(h, p, kind, intent)
  PROVE  IInv'
<1> DEFINE r == [pc |-> "mark", person |-> p, type |-> kind, intent |-> intent, since |-> clock]
<1>1. /\ thread[h].pc = "idle" /\ thread' = [thread EXCEPT ![h] = r]
      /\ UNCHANGED <<clock, tracker, queue, retry, batch, now, consumer, stopping,
                     attempt, ledger, marker, issued, outcome, writes, leaked>>
  BY DEF Check, auxiliary
<1>2. r \in ThreadRecords /\ r.pc = "mark"
  BY TypeFacts DEF ThreadRecords
<1> HIDE DEF r
<1>3. /\ ThreadsTyped' /\ thread'[h].pc = "mark"
      /\ \A g \in Threads : g # h => thread'[g] = thread[g]
      /\ \A g \in Threads : thread'[g].pc \in {"idle", "mark", "inline", "commit"}
  BY <1>1, <1>2, ThreadSet DEF IInv
<1>4. TypeOK'
  BY <1>1, <1>3 DEF IInv, TypeOK
<1>5. HeldOnce' /\ Grown
  BY <1>1 DEF IInv, HeldOnce, Grown
<1>6. RowsInOrder'
  BY <1>1, <1>3, <1>5, RowsKept DEF IInv, RowsInOrder
<1>7. \A e \in Employees : Excused(e) => Excused(e)'
  BY <1>1, <1>3, ExcusedKept DEF Threads
<1> QED BY <1>1, <1>3, <1>4, <1>5, <1>6, <1>7, ConsumerWaits DEF Waiting

\* The event of a camera; the oldest one makes room for it.
LEMMA EnqueueIInv ==
  ASSUME IInv, NEW h \in Threads, Enqueue(h)
  PROVE  IInv'
<1> DEFINE v == [id |-> issued + 1, person |-> thread[h].person, type |-> thread[h].type,
                 timestamp |-> clock]
           rest == IF Overflowing = {} THEN queue ELSE Tail(queue)
<1>1. /\ thread[h].pc = "mark" /\ issued < MaxEvents /\ issued' = issued + 1
      /\ tracker' = [tracker EXCEPT ![thread[h].person][thread[h].type] = thread[h].since]
      /\ queue' = Append(rest, v)
      /\ outcome' = [i \in DOMAIN outcome |->
                       IF i = issued + 1 THEN "open"
                       ELSE IF i \in Overflowing THEN "dropped" ELSE outcome[i]]
      /\ thread' = [thread EXCEPT ![h] = Idle]
      /\ UNCHANGED <<clock, retry, batch, now, consumer, stopping, attempt, ledger, marker, writes, leaked>>
  BY DEF Enqueue, auxiliary
<1>2. /\ thread[h].person \in People /\ thread[h].type \in EventTypes /\ thread[h].since \in Time
  BY <1>1, ThreadFields DEF IInv
<1>3. issued + 1 \in EventIds /\ issued + 1 \in 0 .. MaxEvents
  BY <1>1, TypeFacts, PipelineAssumption DEF EventIds
<1>4. v \in Event /\ v.id = issued + 1
  BY <1>2, <1>3, TypeFacts DEF Event, EventIds
<1> HIDE DEF v
<1>5. /\ rest \in Seq(Event) /\ Len(rest) < MaxPending
      /\ Events(rest) \subseteq Events(queue) /\ IdsOf(rest) = IdsOf(queue) \ Overflowing
      /\ Distinct(rest)
  <2>1. /\ queue \in Seq(Event) /\ Len(queue) <= MaxPending /\ Distinct(queue) /\ Len(queue) \in Nat
        /\ MaxPending \in Nat \ {0}
    BY PipelineAssumption DEF IInv, TypeOK, HeldOnce
  <2>2. CASE Len(queue) = MaxPending
    <3>1. Overflowing = {Head(queue).id} /\ rest = Tail(queue)
      BY <2>2 DEF Overflowing
    <3>2. queue # <<>>
      BY <2>1, <2>2
    <3>3. /\ rest \in Seq(Event) /\ Len(rest) = Len(queue) - 1
          /\ Events(queue) = {Head(queue)} \cup Events(rest)
          /\ IdsOf(queue) = {Head(queue).id} \cup IdsOf(rest)
          /\ Distinct(rest) /\ Head(queue).id \notin IdsOf(rest)
      BY <2>1, <3>1, <3>2, TakenEvents
    <3>4. Len(rest) < MaxPending
      BY <2>1, <3>3
    <3>5. IdsOf(rest) = IdsOf(queue) \ Overflowing
      BY <3>1, <3>3
    <3> QED BY <3>3, <3>4, <3>5
  <2>3. CASE Len(queue) # MaxPending
    <3>1. Overflowing = {} /\ rest = queue
      BY <2>3 DEF Overflowing
    <3> QED BY <2>1, <2>3, <3>1
  <2> QED BY <2>2, <2>3
<1> HIDE DEF rest
<1>6. /\ outcome[issued + 1] = "none" /\ writes[issued + 1] = 0
      /\ issued + 1 \notin IdsOf(retry) \cup IdsOf(batch) \cup IdsOf(queue)
  BY <1>3, TypeFacts DEF IInv, HeldOnce
<1>7. /\ queue' \in Seq(Event) /\ Len(queue') = Len(rest) + 1 /\ Distinct(queue')
      /\ Events(queue') = Events(rest) \cup {v} /\ IdsOf(queue') = IdsOf(rest) \cup {issued + 1}
  BY <1>1, <1>4, <1>5, <1>6, AddedEvent
<1>8. /\ ThreadsTyped' /\ thread'[h] = Idle
      /\ \A g \in Threads : g # h => thread'[g] = thread[g]
      /\ \A g \in Threads : thread'[g].pc \in {"idle", "mark", "inline", "commit"}
  BY <1>1, ThreadSet DEF IInv, ThreadRecords, Idle
<1>9. TypeOK'
  <2>1. tracker' \in [People -> [EventTypes -> Stamp]]
    <3> DEFINE marks == [tracker[thread[h].person] EXCEPT ![thread[h].type] = thread[h].since]
    <3>1. tracker \in [People -> [EventTypes -> Stamp]]
      BY DEF IInv, TypeOK
    <3>2. marks \in [EventTypes -> Stamp]
      BY <1>2, <3>1, NoneIsNoTime
    <3>3. tracker' = [tracker EXCEPT ![thread[h].person] = marks]
      BY <1>1
    <3> HIDE DEF marks
    <3> QED BY <3>1, <3>2, <3>3
  <2>2. outcome' \in [1 .. MaxEvents -> {"none", "open", "persisted", "noop", "skipped", "dropped"}]
    BY <1>1 DEF IInv, TypeOK
  <2>3. Len(queue') <= MaxPending
    BY <1>5, <1>7, PipelineAssumption
  <2> QED BY <1>1, <1>3, <1>7, <1>8, <2>1, <2>2, <2>3 DEF IInv, TypeOK
<1>10. HeldOnce'
  <2>1. /\ Distinct(retry') /\ Distinct(batch')
        /\ IdsOf(retry') = IdsOf(retry) /\ IdsOf(batch') = IdsOf(batch)
    BY <1>1 DEF IInv, HeldOnce
  <2>2. /\ IdsOf(retry) \cap IdsOf(batch) = {}
        /\ IdsOf(retry) \cap IdsOf(queue) = {} /\ IdsOf(batch) \cap IdsOf(queue) = {}
    BY DEF IInv, HeldOnce
  <2>3. ASSUME NEW i \in EventIds
        PROVE  /\ outcome'[i] = "open" <=> i \in IdsOf(retry') \cup IdsOf(batch') \cup IdsOf(queue')
               /\ i > issued' => outcome'[i] = "none" /\ writes'[i] = 0
    <3>1. outcome'[i] = IF i = issued + 1 THEN "open"
                        ELSE IF i \in Overflowing THEN "dropped" ELSE outcome[i]
      BY <1>1 DEF IInv, TypeOK, EventIds
    <3>2. Overflowing \subseteq IdsOf(queue)
      <4>1. CASE Len(queue) = MaxPending
        <5>1. queue # <<>>
          BY <4>1, PipelineAssumption
        <5> QED BY <4>1, <5>1, TypeFacts, TakenEvents DEF Overflowing
      <4>2. CASE Len(queue) # MaxPending
        BY <4>2 DEF Overflowing
      <4> QED BY <4>1, <4>2
    <3>3. /\ outcome[i] = "open" <=> i \in IdsOf(retry) \cup IdsOf(batch) \cup IdsOf(queue)
          /\ i > issued => outcome[i] = "none" /\ writes[i] = 0
      BY DEF IInv, HeldOnce
    <3>4. i > issued' => i > issued /\ i # issued + 1
      BY <1>1, TypeFacts DEF EventIds
    <3>5. outcome'[i] = "open" <=> i \in IdsOf(retry') \cup IdsOf(batch') \cup IdsOf(queue')
      BY <1>5, <1>7, <2>1, <2>2, <3>1, <3>2, <3>3
    <3>6. i \in Overflowing => outcome[i] = "open"
      BY <3>2, <3>3
    <3> QED BY <1>1, <3>1, <3>3, <3>4, <3>5, <3>6
  <2> QED BY <1>5, <1>6, <1>7, <2>1, <2>2, <2>3 DEF HeldOnce
<1>11. Grown
  BY <1>1 DEF Grown
<1>12. RowsInOrder'
  BY <1>1, <1>8, <1>11, RowsKept DEF IInv, RowsInOrder, Idle
<1>13. \A e \in Employees : Excused(e) => Excused(e)'
  BY <1>1, <1>8, ExcusedKept DEF Threads
<1>14. \A w \in Waiting' : w \in Waiting \/ writes[w.id] = 0
  BY <1>1, <1>4, <1>5, <1>6, <1>7 DEF Waiting
<1> QED BY <1>1, <1>8, <1>9, <1>10, <1>11, <1>12, <1>13, <1>14, ConsumerWaits

\* A request marks the tracker and goes on inline, if the ledger takes the person.
LEMMA MarkInlineIInv ==
  ASSUME IInv, NEW h \in Threads, MarkInline(h)
  PROVE  IInv'
<1> DEFINE p == thread[h].person
           r == IF p \in Employees THEN [pc |-> "inline", person |-> p, intent |-> thread[h].intent]
                ELSE Idle
<1>1. /\ h \in Requests /\ thread[h].pc = "mark" /\ thread' = [thread EXCEPT ![h] = r]
      /\ tracker' = [tracker EXCEPT ![p][thread[h].type] = thread[h].since]
      /\ UNCHANGED <<clock, queue, retry, batch, now, consumer, stopping, attempt,
                     ledger, marker, issued, outcome, writes, leaked>>
  BY DEF MarkInline, auxiliary
<1>2. /\ p \in People /\ thread[h].type \in EventTypes /\ thread[h].since \in Time
      /\ thread[h].intent \in Intents
  BY <1>1, ThreadFields DEF IInv
<1>3. r \in ThreadRecords /\ r.pc # "commit"
  BY <1>2 DEF ThreadRecords, Idle
<1>4. tracker' \in [People -> [EventTypes -> Stamp]]
  <2> DEFINE marks == [tracker[p] EXCEPT ![thread[h].type] = thread[h].since]
  <2>1. tracker \in [People -> [EventTypes -> Stamp]]
    BY DEF IInv, TypeOK
  <2>2. marks \in [EventTypes -> Stamp]
    BY <1>2, <2>1, NoneIsNoTime
  <2>3. tracker' = [tracker EXCEPT ![p] = marks]
    BY <1>1
  <2> HIDE DEF marks, p
  <2> QED BY <2>1, <2>2, <2>3
<1> HIDE DEF r
<1>5. /\ ThreadsTyped' /\ thread'[h].pc # "commit"
      /\ \A g \in Threads : g # h => thread'[g] = thread[g]
      /\ \A g \in Threads : thread'[g].pc \in {"idle", "mark", "inline", "commit"}
  BY <1>1, <1>3, ThreadSet DEF IInv
<1>6. TypeOK'
  BY <1>1, <1>4, <1>5 DEF IInv, TypeOK
<1>7. HeldOnce' /\ Grown
  BY <1>1 DEF IInv, HeldOnce, Grown
<1>8. RowsInOrder'
  BY <1>1, <1>5, <1>7, RowsKept DEF IInv, RowsInOrder
<1>9. \A e \in Employees : Excused(e) => Excused(e)'
  BY <1>1, <1>5, ExcusedKept DEF Threads
<1> QED BY <1>1, <1>5, <1>6, <1>7, <1>8, <1>9, ConsumerWaits DEF Waiting

\* The marker is armed before the row is committed: its request is the excuse.
LEMMA FlushInlineIInv ==
  ASSUME IInv, NEW h \in Threads, FlushInline(h)
  PROVE  IInv'
<1> DEFINE p == thread[h].person
           action == Decide(p, thread[h].intent)
           r == IF action = "none" THEN Idle
                ELSE [pc |-> "commit", person |-> p, attempt |-> [action |-> action, at |-> clock]]
<1>1. /\ thread[h].pc = "inline" /\ thread' = [thread EXCEPT ![h] = r]
      /\ marker' = IF action = "none" THEN marker ELSE Arming(p)
      /\ UNCHANGED <<clock, tracker, queue, retry, batch, now, consumer, stopping,
                     attempt, ledger, issued, outcome, writes, leaked>>
  BY DEF FlushInline, auxiliary
<1>2. /\ p \in Employees /\ thread[h].intent \in Intents /\ h \in Requests
  BY <1>1, ThreadFields DEF IInv
<1>3. /\ action \in EventTypes \cup {"none"}
      /\ action = "check_out" => ledger[p].in # None
  BY <1>2, TypeFacts, DecideBounds DEF IInv, RowsInOrder
<1> HIDE DEF action, p
<1>4. /\ r \in ThreadRecords
      /\ r.pc = "commit" => action # "none" /\ r.person = p /\ r.attempt.action = action
      /\ action # "none" => r.pc = "commit" /\ r.person = p
  BY <1>2, <1>3, TypeFacts DEF ThreadRecords, Idle
<1> HIDE DEF r
<1>5. /\ ThreadsTyped' /\ thread'[h] = r
      /\ \A g \in Threads : g # h => thread'[g] = thread[g]
      /\ \A g \in Threads : thread'[g].pc \in {"idle", "mark", "inline", "commit"}
  BY <1>1, <1>2, <1>4, ThreadSet DEF IInv
<1>6. marker' \in [Employees -> Stamp]
      /\ \A e \in Employees : marker'[e] # None => marker[e] # None \/ (e = p /\ action # "none")
  BY <1>1, <1>2, TypeFacts, NoneIsNoTime DEF Arming
<1>7. TypeOK'
  BY <1>1, <1>5, <1>6 DEF IInv, TypeOK
<1>8. HeldOnce' /\ Grown
  BY <1>1 DEF IInv, HeldOnce, Grown
<1>9. RowsInOrder'
  BY <1>1, <1>3, <1>4, <1>5 DEF IInv, RowsInOrder, event
<1>10. \A e \in Employees : Excused(e) => Excused(e)'
  BY <1>1, <1>5, ExcusedKept DEF Threads
<1>11. \A e \in Employees : e = p /\ action # "none" => Excused(e)'
  BY <1>2, <1>4, <1>5 DEF Excused
<1> QED BY <1>1, <1>5, <1>6, <1>7, <1>8, <1>9, <1>10, <1>11, ConsumerWaits DEF Waiting

\* The request writes its stamp, or leaves the marker behind.
LEMMA EndInlineIInv ==
  ASSUME IInv, NEW h \in Threads, EndInline(h)
  PROVE  IInv'
<1> DEFINE p == thread[h].person
           made == thread[h].attempt
<1>1. /\ thread[h].pc = "commit" /\ thread' = [thread EXCEPT ![h] = Idle]
      /\ \/ ledger' = Written(p, made) /\ UNCHANGED leaked
         \/ leaked' = leaked \cup {p} /\ UNCHANGED ledger
      /\ UNCHANGED <<clock, tracker, queue, retry, batch, now, consumer, stopping,
                     attempt, marker, issued, outcome, writes>>
  BY DEF EndInline
<1>2. /\ p \in Employees /\ made.action \in EventTypes /\ made.at \in Time /\ h \in Requests
      /\ made.at # None
  BY <1>1, ThreadFields, NoneIsNoTime DEF IInv
<1>3. made.action = "check_out" => ledger[p].in # None
  BY <1>1 DEF IInv, RowsInOrder
<1> HIDE DEF p, made
<1>4. /\ ThreadsTyped' /\ thread'[h] = Idle
      /\ \A g \in Threads : g # h => thread'[g] = thread[g]
      /\ \A g \in Threads : thread'[g].pc \in {"idle", "mark", "inline", "commit"}
  BY <1>1, ThreadSet DEF IInv, ThreadRecords, Idle
<1>5. /\ ledger' \in [Employees -> Rows] /\ Grown /\ leaked' \subseteq Employees
      /\ leaked \subseteq leaked' /\ (ledger'[p].in # None \/ p \in leaked')
      /\ \A e \in Employees : ledger'[e].out # None => ledger'[e].in # None
  <2>1. CASE ledger' = Written(p, made) /\ UNCHANGED leaked
    <3>1. /\ ledger' \in [Employees -> Rows]
          /\ \A d \in Employees : d # p => ledger'[d] = ledger[d]
          /\ made.action = "check_in" => ledger'[p].in = made.at /\ ledger'[p].out = ledger[p].out
          /\ made.action = "check_out" => ledger'[p].out = made.at /\ ledger'[p].in = ledger[p].in
      BY <1>2, <2>1, TypeFacts, WrittenRows
    <3>2. made.action = "check_in" \/ made.action = "check_out"
      BY <1>2 DEF EventTypes
    <3>3. ledger'[p].in # None
      BY <1>2, <1>3, <3>1, <3>2
    <3>4. Grown
      BY <1>2, <3>1, <3>2 DEF Grown
    <3>5. \A e \in Employees : ledger'[e].out # None => ledger'[e].in # None
      BY <3>1, <3>3 DEF IInv, RowsInOrder
    <3> QED BY <2>1, <3>1, <3>3, <3>4, <3>5, TypeFacts
  <2>2. CASE leaked' = leaked \cup {p} /\ UNCHANGED ledger
    BY <1>2, <2>2, TypeFacts DEF Grown, IInv, RowsInOrder
  <2> QED BY <1>1, <2>1, <2>2
<1>6. TypeOK'
  BY <1>1, <1>4, <1>5 DEF IInv, TypeOK, Rows
<1>7. HeldOnce'
  BY <1>1 DEF IInv, HeldOnce
<1>8. RowsInOrder'
  BY <1>1, <1>4, <1>5, RowsKept DEF Idle
<1>9. \A e \in Employees : Excused(e) /\ ledger'[e].in = None => Excused(e)'
  <2> SUFFICES ASSUME NEW e \in Employees, Excused(e), ledger'[e].in = None PROVE Excused(e)'
    OBVIOUS
  <2>1. CASE e \in leaked'
    BY <2>1 DEF Excused
  <2>2. CASE e \notin leaked'
    <3>1. PICK g \in Requests : thread[g].pc = "commit" /\ thread[g].person = e
      BY <1>5, <2>2 DEF Excused
    <3>2. g # h
      BY <1>5, <2>2, <3>1 DEF p
    <3> QED BY <1>4, <3>1, <3>2 DEF Excused, Threads
  <2> QED BY <2>1, <2>2
<1> QED BY <1>1, <1>4, <1>5, <1>6, <1>7, <1>8, <1>9, ConsumerWaits DEF Waiting

-----------------------------------------------------------------------------
(* The consumer *)

\* Between two events the consumer owes nobody a marker.
LEMMA EventLeft ==
  ASSUME IInv, TypeOK', UNCHANGED thread, HeldOnce', consumer' \in {"sleep", "event", "stopped"},
         attempt'.action = "none", Grown, leaked \subseteq leaked', WritesRecorded',
         \A e \in Employees : ledger'[e].out # None => ledger'[e].in # None,
         \A e \in Employees : marker'[e] # None => marker[e] # None,
         consumer \in {"commit", "unarm"} /\ attempt.action # "none" =>
             \/ event.person \in leaked' \/ ledger'[event.person].in # None
             \/ marker'[event.person] = None
  PROVE  IInv'
<1>1. Attempted' /\ NoopExplained' /\ ThreadsTyped'
  BY DEF Attempted, Busy, NoopExplained, IInv, ThreadsTyped
<1>2. RowsInOrder'
  BY RowsKept
<1>3. \A e \in Employees : Excused(e) => Excused(e)'
  BY ExcusedKept
<1>4. MarkersExplained'
  <2> SUFFICES ASSUME NEW e \in Employees, marker'[e] # None, ledger'[e].in = None PROVE Excused(e)'
    BY DEF MarkersExplained
  <2>1. marker[e] # None /\ ledger[e].in = None
    BY DEF Grown
  <2>2. CASE Excused(e)
    BY <1>3, <2>2
  <2>3. CASE ~Excused(e)
    <3>1. consumer \in {"commit", "unarm"} /\ attempt.action # "none" /\ event.person = e
      BY <2>1, <2>3 DEF IInv, MarkersExplained
    <3> QED BY <3>1 DEF Excused
  <2> QED BY <2>2, <2>3
<1> QED BY <1>1, <1>2, <1>4 DEF IInv

LEMMA WaitingEvents ==
  ASSUME IInv
  PROVE  \A v \in Waiting : v \in Event /\ v.id \in EventIds
<1>1. \A s \in Seq(Event) : \A v \in Events(s) : v \in Event
  BY DEF Events
<1>2. \A v \in Event : v.id \in EventIds
  BY DEF Event, EventIds
<1> QED BY <1>1, <1>2, TypeFacts DEF Waiting

LEMMA SameEvent ==
  ASSUME IInv
  PROVE  \A v, w \in Waiting : v.id = w.id => v = w
<1>1. \A s : Distinct(s) => \A v, w \in Events(s) : v.id = w.id => v = w
  BY DEF Distinct, Events
<1>2. \A s : \A v \in Events(s) : v.id \in IdsOf(s)
  BY DEF IdsOf
<1> QED BY <1>1, <1>2 DEF IInv, HeldOnce, Waiting

LEMMA StartDrainIInv ==
  ASSUME IInv, StartDrain
  PROVE  IInv'
<1>1. /\ consumer = "sleep" /\ batch' = retry \o queue /\ retry' = <<>> /\ queue' = <<>> /\ now' = clock
      /\ consumer' = IF batch' = <<>> THEN "stopped" ELSE "event"
      /\ UNCHANGED <<clock, tracker, thread, stopping, attempt, ledger, marker, issued,
                     outcome, writes, leaked>>
  BY DEF StartDrain, producing, auxiliary
<1>2. batch = <<>> /\ attempt.action = "none"
  BY <1>1 DEF IInv, TypeOK, Attempted, Busy
<1>3. /\ retry \in Seq(Event) /\ queue \in Seq(Event) /\ Distinct(retry) /\ Distinct(queue)
      /\ IdsOf(retry) \cap IdsOf(queue) = {}
  BY DEF IInv, TypeOK, HeldOnce
<1>4. /\ batch' \in Seq(Event) /\ Events(batch') = Events(retry) \cup Events(queue)
      /\ IdsOf(batch') = IdsOf(retry) \cup IdsOf(queue) /\ Distinct(batch')
  BY <1>1, <1>3, ConcatEvents
<1>5. TypeOK'
  <2>1. 0 <= MaxPending
    BY PipelineAssumption
  <2> QED BY <1>1, <1>4, <2>1, EmptyEvents DEF IInv, TypeOK
<1>6. HeldOnce'
  BY <1>1, <1>2, <1>4, EmptyEvents DEF IInv, HeldOnce
<1>7. Waiting' = Waiting
  BY <1>1, <1>2, <1>4, EmptyEvents DEF Waiting
<1>8. Grown /\ \A e \in Employees : ledger'[e].out # None => ledger'[e].in # None
  BY <1>1 DEF Grown, IInv, RowsInOrder
<1>9. WritesRecorded'
  BY <1>1, <1>7, <1>8, WritesKept
<1> QED BY <1>1, <1>2, <1>5, <1>6, <1>8, <1>9, EventLeft

LEMMA NextEventTyped ==
  ASSUME IInv, consumer \in {"event", "arm", "commit", "unarm"}, NextEvent, stopping' = stopping
  PROVE  /\ batch' = Tail(batch) /\ batch' \in Seq(Event)
         /\ consumer' \in {"sleep", "event", "stopped"}
         /\ consumer' = "event" <=> batch' # <<>>
         /\ attempt'.action = "none"
         /\ attempt' \in [action : EventTypes \cup {"none"}, at : Stamp]
BY EventAtHand, NoneIsNoTime DEF NextEvent, AfterDrain, NoAttempt

\* What is settled is held no more.
LEMMA SettledOnce ==
  ASSUME IInv, consumer \in {"event", "arm", "commit", "unarm"}, NEW result, result # "open",
         result # "none", Settle(result), UNCHANGED <<queue, retry, issued>>,
         \A i \in EventIds : i # event.id => writes'[i] = writes[i]
  PROVE  /\ HeldOnce' /\ Waiting' \subseteq Waiting
         /\ \A v \in Waiting' : v.id # event.id
<1>1. /\ batch' = Tail(batch) /\ outcome' = [outcome EXCEPT ![event.id] = result]
  BY DEF Settle, NextEvent
<1>2. /\ batch # <<>> /\ event.id \in EventIds /\ outcome[event.id] = "open"
      /\ batch \in Seq(Event) /\ Distinct(batch)
  BY EventAtHand, TypeFacts DEF IInv, HeldOnce
<1>3. /\ Events(batch) = {event} \cup Events(batch') /\ IdsOf(batch) = {event.id} \cup IdsOf(batch')
      /\ Distinct(batch') /\ event.id \notin IdsOf(batch')
  BY <1>1, <1>2, TakenEvents DEF event
<1>4. event.id \notin IdsOf(retry) \cup IdsOf(queue)
  BY <1>3 DEF IInv, HeldOnce
<1>5. event.id <= issued
  BY <1>2, TypeFacts DEF IInv, HeldOnce, EventIds
<1>6. \A i \in EventIds : outcome'[i] = IF i = event.id THEN result ELSE outcome[i]
  BY <1>1, <1>2 DEF IInv, TypeOK, EventIds
<1>7. HeldOnce'
  <2>1. ASSUME NEW i \in EventIds
        PROVE  /\ outcome'[i] = "open" <=> i \in IdsOf(retry') \cup IdsOf(batch') \cup IdsOf(queue')
               /\ i > issued' => outcome'[i] = "none" /\ writes'[i] = 0
    <3>1. i > issued => i # event.id
      BY <1>5, TypeFacts DEF EventIds
    <3> QED BY <1>3, <1>4, <1>6, <3>1 DEF IInv, HeldOnce
  <2> QED BY <1>3, <2>1 DEF IInv, HeldOnce
<1>8. \A v \in Waiting' : v.id # event.id
  BY <1>3, <1>4 DEF Waiting, IdsOf
<1> QED BY <1>3, <1>7, <1>8 DEF Waiting

LEMMA SkipIInv ==
  ASSUME IInv, Skip
  PROVE  IInv'
<1>1. /\ consumer = "event" /\ Settle("skipped") /\ NextEvent
      /\ outcome' = [outcome EXCEPT ![event.id] = "skipped"]
      /\ UNCHANGED <<clock, tracker, thread, queue, retry, now, stopping, ledger, marker,
                     issued, writes, leaked>>
  BY DEF Skip, Settle, producing, auxiliary
<1>2. TypeOK'
  BY <1>1, NextEventTyped DEF IInv, TypeOK
<1>3. HeldOnce' /\ Waiting' \subseteq Waiting
  BY <1>1, SettledOnce
<1>4. Grown /\ \A e \in Employees : ledger'[e].out # None => ledger'[e].in # None
  BY <1>1 DEF Grown, IInv, RowsInOrder
<1>5. WritesRecorded'
  BY <1>1, <1>3, <1>4, WritesKept
<1> QED BY <1>1, <1>2, <1>3, <1>4, <1>5, NextEventTyped, EventLeft

\* What is decided was not written before, not even for a replayed event.
LEMMA FlushIInv ==
  ASSUME IInv, Flush
  PROVE  IInv'
<1> DEFINE action == Decide(event.person, event.type)
<1>1. /\ consumer = "event" /\ event.person \in Employees
      /\ \/ action = "none" /\ consumer' = "commit" /\ attempt' = NoAttempt
         \/ action # "none" /\ consumer' = "arm" /\ attempt' = [action |-> action, at |-> clock]
      /\ UNCHANGED <<clock, tracker, thread, queue, retry, batch, now, stopping, ledger,
                     marker, issued, outcome, writes, leaked>>
  BY DEF Flush, producing, auxiliary
<1>2. /\ batch # <<>> /\ event \in Event /\ event \in Waiting /\ event.type \in EventTypes
      /\ event.id \in EventIds
  BY <1>1, EventAtHand DEF Event
<1>3. /\ action \in EventTypes \cup {"none"}
      /\ action = "check_in" => ledger[event.person].in = None /\ event.type # "check_out"
      /\ action = "check_out" => /\ ledger[event.person].in # None /\ ledger[event.person].out = None
                                 /\ event.type # "check_in"
      /\ action = "none" /\ event.type = "check_in" =>
             ledger[event.person].in # None \/ marker[event.person] # None
  <2>1. event.type \in Intents /\ ledger[event.person].out # None => ledger[event.person].in # None
    BY <1>1, <1>2 DEF Intents, IInv, RowsInOrder
  <2>2. event.type \in Intents
    BY <1>2 DEF Intents
  <2> QED BY <1>1, <2>1, <2>2, TypeFacts, DecideBounds
<1> HIDE DEF action
<1>4. action # "none" => action = event.type /\ writes[event.id] = 0
  <2>1. writes[event.id] = 1 => Recorded(event)
    BY <1>2 DEF IInv, WritesRecorded
  <2>2. writes[event.id] \in {0, 1}
    BY <1>2 DEF IInv, WritesRecorded
  <2> QED BY <1>2, <1>3, <2>1, <2>2 DEF Recorded, EventTypes
<1>5. /\ consumer' \in {"commit", "arm"} /\ consumer' = "arm" <=> attempt'.action # "none"
      /\ attempt'.action = action /\ attempt' \in [action : EventTypes \cup {"none"}, at : Stamp]
      /\ action # "none" => attempt'.at \in Time
  BY <1>1, <1>3, TypeFacts, NoneIsNoTime DEF NoAttempt
<1>6. TypeOK'
  BY <1>1, <1>2, <1>5 DEF IInv, TypeOK
<1>7. event' = event
  BY <1>1 DEF event
<1>8. Attempted'
  BY <1>1, <1>4, <1>5, <1>7 DEF Attempted, Busy
<1>9. RowsInOrder'
  BY <1>1, <1>3, <1>5, <1>7 DEF IInv, RowsInOrder
<1>10. \A e \in Employees : marker[e] # None /\ ledger[e].in = None => Excused(e)
  BY <1>1 DEF IInv, MarkersExplained
<1>11. \A e \in Employees : Excused(e)' <=> Excused(e)
  BY <1>1 DEF Excused
<1>12. MarkersExplained' /\ NoopExplained'
  BY <1>1, <1>3, <1>5, <1>7, <1>10, <1>11 DEF MarkersExplained, NoopExplained
<1>13. ThreadsTyped' /\ HeldOnce' /\ Grown /\ Waiting' = Waiting
  BY <1>1 DEF IInv, ThreadsTyped, HeldOnce, Grown, Waiting
<1>14. WritesRecorded'
  BY <1>1, <1>13, WritesKept
<1> QED BY <1>6, <1>8, <1>9, <1>12, <1>13, <1>14 DEF IInv

\* The marker is armed while the transaction is open.
LEMMA ArmIInv ==
  ASSUME IInv, Arm
  PROVE  IInv'
<1>1. /\ consumer = "arm" /\ marker' = Arming(event.person) /\ consumer' = "commit"
      /\ UNCHANGED <<clock, tracker, thread, queue, retry, batch, now, stopping, attempt,
                     ledger, issued, outcome, writes, leaked>>
  BY DEF Arm, producing, auxiliary
<1>2. event.person \in Employees /\ attempt.action # "none"
  BY <1>1 DEF IInv, Attempted, Busy
<1>3. /\ marker' \in [Employees -> Stamp]
      /\ \A e \in Employees : marker'[e] # None => marker[e] # None \/ e = event.person
  BY <1>1, <1>2, TypeFacts, NoneIsNoTime DEF Arming
<1>4. TypeOK'
  BY <1>1, <1>3 DEF IInv, TypeOK
<1>5. event' = event
  BY <1>1 DEF event
<1>6. Attempted' /\ NoopExplained' /\ RowsInOrder'
  BY <1>1, <1>2, <1>5 DEF IInv, Attempted, Busy, NoopExplained, RowsInOrder
<1>7. \A e \in Employees : marker[e] # None /\ ledger[e].in = None => Excused(e)
  BY <1>1 DEF IInv, MarkersExplained
<1>8. \A e \in Employees : Excused(e)' <=> Excused(e)
  BY <1>1 DEF Excused
<1>9. MarkersExplained'
  BY <1>1, <1>2, <1>3, <1>5, <1>7, <1>8 DEF MarkersExplained
<1>10. ThreadsTyped' /\ HeldOnce' /\ Grown /\ Waiting' = Waiting
  BY <1>1 DEF IInv, ThreadsTyped, HeldOnce, Grown, Waiting
<1>11. WritesRecorded'
  BY <1>1, <1>10, WritesKept
<1> QED BY <1>4, <1>6, <1>9, <1>10, <1>11 DEF IInv

\* What a commit that goes through leaves in the ledger.
LEMMA CommittingGrows ==
  ASSUME IInv, consumer = "commit", Committing
  PROVE  /\ ledger' \in [Employees -> Rows] /\ Grown
         /\ \A e \in Employees : ledger'[e].out # None => ledger'[e].in # None
         /\ writes' \in [EventIds -> {0, 1}]
         /\ \A i \in EventIds : i # event.id => writes'[i] = writes[i]
         /\ attempt.action # "none" => ledger'[event.person].in # None
         /\ attempt.action # "none" /\ event.type = "check_out" =>
                ledger'[event.person].out # None
         /\ attempt.action = "none" => writes' = writes
<1> DEFINE p == event.person
<1>1. /\ ledger' = Written(p, attempt)
      /\ writes' = IF attempt.action = "none" THEN writes
                   ELSE [writes EXCEPT ![event.id] = writes[event.id] + 1]
  BY DEF Committing
<1>2. /\ p \in Employees /\ attempt.action \in EventTypes \cup {"none"} /\ event.id \in EventIds
      /\ event.type \in EventTypes
  BY TypeFacts, EventAtHand DEF IInv, Attempted, Busy, Attempts, Event
<1>3. attempt.action # "none" =>
          attempt.at \in Time /\ attempt.at # None /\ attempt.action = event.type /\ writes[event.id] = 0
  BY NoneIsNoTime DEF IInv, Attempted
<1>4. attempt.action = "check_out" => ledger[p].in # None
  BY DEF IInv, RowsInOrder
<1> HIDE DEF p
<1>5. /\ ledger' \in [Employees -> Rows]
      /\ \A d \in Employees : d # p => ledger'[d] = ledger[d]
      /\ attempt.action = "none" => ledger' = ledger
      /\ attempt.action = "check_in" => ledger'[p].in = attempt.at /\ ledger'[p].out = ledger[p].out
      /\ attempt.action = "check_out" => ledger'[p].out = attempt.at /\ ledger'[p].in = ledger[p].in
  BY <1>1, <1>2, <1>3, TypeFacts, WrittenRows
<1>6. Grown
  BY <1>2, <1>3, <1>5 DEF Grown, EventTypes
<1>7. attempt.action # "none" => ledger'[p].in # None
  BY <1>2, <1>3, <1>4, <1>5 DEF EventTypes
<1>8. \A e \in Employees : ledger'[e].out # None => ledger'[e].in # None
  BY <1>2, <1>5, <1>7 DEF IInv, RowsInOrder
<1>9. attempt.action # "none" /\ event.type = "check_out" => ledger'[p].out # None
  BY <1>3, <1>5
<1>10. writes \in [EventIds -> {0, 1}]
  BY DEF IInv, WritesRecorded
<1>11. /\ writes' \in [EventIds -> {0, 1}]
       /\ \A i \in EventIds : i # event.id => writes'[i] = writes[i]
  BY <1>1, <1>2, <1>3, <1>10
<1> QED BY <1>1, <1>2, <1>5, <1>6, <1>7, <1>8, <1>9, <1>11 DEF p

LEMMA CommitIInv ==
  ASSUME IInv, Commit
  PROVE  IInv'
<1> DEFINE result == IF attempt.action = "none" THEN "noop" ELSE "persisted"
<1>1. /\ consumer = "commit" /\ Committing /\ Settle(result) /\ NextEvent
      /\ outcome' = [outcome EXCEPT ![event.id] = result]
      /\ UNCHANGED <<clock, tracker, thread, queue, retry, now, stopping, marker, issued, leaked>>
  BY DEF Commit, Settle, producing
<1>2. result \in {"noop", "persisted"}
  OBVIOUS
<1> HIDE DEF result
<1>3. /\ ledger' \in [Employees -> Rows] /\ Grown
      /\ \A e \in Employees : ledger'[e].out # None => ledger'[e].in # None
      /\ writes' \in [EventIds -> {0, 1}]
      /\ \A i \in EventIds : i # event.id => writes'[i] = writes[i]
      /\ attempt.action # "none" => ledger'[event.person].in # None
  BY <1>1, CommittingGrows
<1>4. TypeOK'
  BY <1>1, <1>2, <1>3, NextEventTyped DEF IInv, TypeOK, Rows
<1>5. /\ HeldOnce' /\ Waiting' \subseteq Waiting
      /\ \A v \in Waiting' : v.id # event.id
  BY <1>1, <1>2, <1>3, SettledOnce
<1>6. WritesRecorded'
  <2>1. \A v \in Waiting' : v.id \in EventIds
    BY <1>5, WaitingEvents
  <2>2. \A v \in Waiting' : writes'[v.id] = 1 => writes[v.id] = 1 /\ Recorded(v)
    BY <1>3, <1>5, <2>1 DEF IInv, WritesRecorded
  <2>3. \A v : Recorded(v) => Recorded(v)'
    BY <1>3 DEF Recorded, Grown
  <2> QED BY <1>3, <2>2, <2>3 DEF WritesRecorded
<1> QED BY <1>1, <1>3, <1>4, <1>5, <1>6, NextEventTyped, EventLeft

LEMMA FailIInv ==
  ASSUME IInv, Fail
  PROVE  IInv'
<1>1. /\ InTransaction /\ consumer' = "unarm"
      /\ UNCHANGED <<clock, tracker, thread, queue, retry, batch, now, stopping, attempt,
                     ledger, marker, issued, outcome, writes, leaked>>
  BY DEF Fail, producing, auxiliary
<1>2. /\ consumer \in {"event", "commit"} /\ event.person \in Employees /\ batch # <<>>
  BY <1>1, EventAtHand DEF InTransaction, IInv, Attempted, Busy
<1>3. consumer = "event" => attempt.action = "none"
  BY DEF IInv, Attempted, Busy
<1>4. TypeOK'
  BY <1>1, <1>2 DEF IInv, TypeOK
<1>5. event' = event
  BY <1>1 DEF event
<1>6. Attempted' /\ NoopExplained' /\ RowsInOrder'
  BY <1>1, <1>2, <1>3, <1>5 DEF IInv, Attempted, Busy, NoopExplained, RowsInOrder
<1>7. \A e \in Employees : Excused(e)' <=> Excused(e)
  BY <1>1 DEF Excused
<1>8. MarkersExplained'
  BY <1>1, <1>2, <1>5, <1>7 DEF IInv, MarkersExplained
<1>9. ThreadsTyped' /\ HeldOnce' /\ Grown /\ Waiting' = Waiting
  BY <1>1 DEF IInv, ThreadsTyped, HeldOnce, Grown, Waiting
<1>10. WritesRecorded'
  BY <1>1, <1>9, WritesKept
<1> QED BY <1>4, <1>6, <1>8, <1>9, <1>10 DEF IInv

\* The event goes from the batch to the stash.
LEMMA UnarmIInv ==
  ASSUME IInv, Unarm
  PROVE  IInv'
<1>1. /\ consumer = "unarm" /\ marker' = [marker EXCEPT ![event.person] = None]
      /\ retry' = Append(retry, event) /\ NextEvent
      /\ UNCHANGED <<clock, tracker, thread, queue, now, stopping, ledger, issued, outcome,
                     writes, leaked>>
  BY DEF Unarm, producing, auxiliary
<1>2. /\ event.person \in Employees /\ batch # <<>> /\ event \in Event
      /\ batch \in Seq(Event) /\ retry \in Seq(Event) /\ Distinct(batch) /\ Distinct(retry)
  BY <1>1, EventAtHand, TypeFacts DEF IInv, Attempted, Busy, HeldOnce
<1>3. /\ batch' = Tail(batch) /\ Events(batch) = {event} \cup Events(batch')
      /\ IdsOf(batch) = {event.id} \cup IdsOf(batch')
      /\ Distinct(batch') /\ event.id \notin IdsOf(batch')
  BY <1>1, <1>2, TakenEvents DEF event, NextEvent
<1>4. event.id \notin IdsOf(retry) \cup IdsOf(queue)
  BY <1>3 DEF IInv, HeldOnce
<1>5. /\ retry' \in Seq(Event) /\ Events(retry') = Events(retry) \cup {event}
      /\ IdsOf(retry') = IdsOf(retry) \cup {event.id} /\ Distinct(retry')
  BY <1>1, <1>2, <1>4, AddedEvent
<1>6. /\ marker' \in [Employees -> Stamp] /\ marker'[event.person] = None
      /\ \A e \in Employees : marker'[e] # None => marker[e] # None
  BY <1>1, <1>2, TypeFacts, NoneIsNoTime
<1>7. TypeOK'
  BY <1>1, <1>5, <1>6, NextEventTyped DEF IInv, TypeOK
<1>8. HeldOnce'
  BY <1>1, <1>3, <1>4, <1>5 DEF IInv, HeldOnce
<1>9. Waiting' = Waiting
  BY <1>1, <1>3, <1>5 DEF Waiting
<1>10. Grown /\ \A e \in Employees : ledger'[e].out # None => ledger'[e].in # None
  BY <1>1 DEF Grown, IInv, RowsInOrder
<1>11. WritesRecorded'
  BY <1>1, <1>9, <1>10, WritesKept
<1> QED BY <1>1, <1>6, <1>7, <1>8, <1>10, <1>11, NextEventTyped, EventLeft

\* A drain that ends early leaves its events in the stash.
LEMMA AbandonHeld ==
  ASSUME IInv, Abandon, UNCHANGED <<queue, issued, outcome>>,
         \A i \in EventIds : i > issued => writes'[i] = 0
  PROVE  /\ retry' \in Seq(Event) /\ batch' = <<>> /\ batch' \in Seq(Event)
         /\ attempt' \in [action : EventTypes \cup {"none"}, at : Stamp] /\ attempt'.action = "none"
         /\ HeldOnce' /\ Waiting' = Waiting
<1>1. retry' = retry \o batch /\ batch' = <<>> /\ attempt' = NoAttempt
  BY DEF Abandon, Stash
<1>2. /\ retry \in Seq(Event) /\ batch \in Seq(Event) /\ Distinct(retry) /\ Distinct(batch)
      /\ IdsOf(retry) \cap IdsOf(batch) = {}
  BY TypeFacts DEF IInv, HeldOnce
<1>3. /\ retry' \in Seq(Event) /\ Events(retry') = Events(retry) \cup Events(batch)
      /\ IdsOf(retry') = IdsOf(retry) \cup IdsOf(batch) /\ Distinct(retry')
  BY <1>1, <1>2, ConcatEvents
<1>4. HeldOnce'
  BY <1>1, <1>3, EmptyEvents DEF IInv, HeldOnce
<1>5. Waiting' = Waiting
  BY <1>1, <1>3, EmptyEvents DEF Waiting
<1> QED BY <1>1, <1>3, <1>4, <1>5, EmptyEvents, NoneIsNoTime DEF NoAttempt

LEMMA FailRollbackIInv ==
  ASSUME IInv, FailRollback
  PROVE  IInv'
<1>1. /\ InTransaction /\ Abandon /\ consumer' = AfterDrain /\ leaked' = leaked \cup Leaking
      /\ UNCHANGED <<clock, tracker, thread, queue, now, stopping, ledger, marker, issued,
                     outcome, writes>>
  BY DEF FailRollback, producing
<1>2. /\ consumer \in {"event", "commit"} /\ event.person \in Employees
  BY <1>1 DEF InTransaction, IInv, Attempted, Busy
<1>3. /\ leaked' \subseteq Employees
      /\ consumer \in {"commit", "unarm"} /\ attempt.action # "none" => event.person \in leaked'
  BY <1>1, <1>2, TypeFacts DEF Leaking
<1>4. /\ retry' \in Seq(Event) /\ batch' = <<>> /\ batch' \in Seq(Event)
      /\ attempt' \in [action : EventTypes \cup {"none"}, at : Stamp] /\ attempt'.action = "none"
      /\ HeldOnce' /\ Waiting' = Waiting
  BY <1>1, AbandonHeld DEF IInv, HeldOnce
<1>5. consumer' \in {"sleep", "stopped"}
  BY <1>1 DEF AfterDrain
<1>6. TypeOK'
  BY <1>1, <1>3, <1>4, <1>5 DEF IInv, TypeOK
<1>7. Grown /\ \A e \in Employees : ledger'[e].out # None => ledger'[e].in # None
  BY <1>1 DEF Grown, IInv, RowsInOrder
<1>8. WritesRecorded'
  BY <1>1, <1>4, <1>7, WritesKept
<1> QED BY <1>1, <1>3, <1>4, <1>5, <1>6, <1>7, <1>8, EventLeft

\* A cancelled commit may have gone through: its event is kept, its stamp is there.
LEMMA StopIInv ==
  ASSUME IInv, Stop
  PROVE  IInv'
<1>1. /\ stopping' = TRUE /\ Abandon /\ consumer' = "sleep"
      /\ \/ leaked' = leaked \cup Leaking /\ UNCHANGED <<ledger, writes>>
         \/ consumer = "commit" /\ Committing /\ UNCHANGED leaked
      /\ UNCHANGED <<clock, tracker, thread, queue, now, marker, issued, outcome>>
  BY DEF Stop, producing
<1>2. writes \in [EventIds -> {0, 1}]
  BY DEF IInv, WritesRecorded
<1>3. /\ ledger' \in [Employees -> Rows] /\ Grown /\ writes' \in [EventIds -> {0, 1}]
      /\ \A e \in Employees : ledger'[e].out # None => ledger'[e].in # None
      /\ \A i \in EventIds : writes'[i] # writes[i] =>
            /\ consumer = "commit" /\ attempt.action # "none" /\ i = event.id
            /\ event.person \in Employees /\ ledger'[event.person].in # None
            /\ event.type = "check_out" => ledger'[event.person].out # None
      /\ consumer \in {"commit", "unarm"} /\ attempt.action # "none" =>
            event.person \in leaked' \/ ledger'[event.person].in # None
      /\ leaked \subseteq leaked' /\ leaked' \subseteq Employees
  <2>1. CASE leaked' = leaked \cup Leaking /\ UNCHANGED <<ledger, writes>>
    <3>1. Leaking \subseteq Employees
      BY DEF Leaking, IInv, Attempted, Busy
    <3>2. consumer \in {"commit", "unarm"} /\ attempt.action # "none" => event.person \in leaked'
      BY <2>1 DEF Leaking
    <3> QED BY <1>2, <2>1, <3>1, <3>2, TypeFacts DEF Grown, IInv, RowsInOrder
  <2>2. CASE consumer = "commit" /\ Committing /\ UNCHANGED leaked
    <3>1. event.person \in Employees
      BY <2>2 DEF IInv, Attempted, Busy
    <3> QED BY <2>2, <3>1, CommittingGrows, TypeFacts
  <2> QED BY <1>1, <2>1, <2>2
<1>4. \A i \in EventIds : i > issued => writes'[i] = 0
  <2> SUFFICES ASSUME NEW i \in EventIds, i > issued PROVE writes'[i] = 0
    OBVIOUS
  <2>1. writes[i] = 0 /\ outcome[i] # "open"
    BY DEF IInv, HeldOnce
  <2>2. consumer = "commit" => i # event.id
    BY <2>1, EventAtHand
  <2> QED BY <1>3, <2>1, <2>2
<1>5. /\ retry' \in Seq(Event) /\ batch' = <<>> /\ batch' \in Seq(Event)
      /\ attempt' \in [action : EventTypes \cup {"none"}, at : Stamp] /\ attempt'.action = "none"
      /\ HeldOnce' /\ Waiting' = Waiting
  BY <1>1, <1>4, AbandonHeld
<1>6. TypeOK'
  BY <1>1, <1>3, <1>5 DEF IInv, TypeOK, Rows
<1>7. WritesRecorded'
  <2> SUFFICES ASSUME NEW v \in Waiting, writes'[v.id] = 1 PROVE Recorded(v)'
    BY <1>3, <1>5 DEF WritesRecorded
  <2>1. v.id \in EventIds
    BY WaitingEvents
  <2>2. CASE writes[v.id] = 1
    BY <1>3, <2>2 DEF IInv, WritesRecorded, Recorded, Grown
  <2>3. CASE writes[v.id] # 1
    <3>1. consumer = "commit" /\ v.id = event.id
      BY <1>3, <2>1, <2>3
    <3>2. v = event
      BY <3>1, EventAtHand, SameEvent
    <3> QED BY <1>3, <2>1, <2>3, <3>2 DEF Recorded
  <2> QED BY <2>2, <2>3
<1> QED BY <1>1, <1>3, <1>5, <1>6, <1>7, EventLeft

LEMMA NextIInv == IInv /\ [Next]_vars => IInv'
<1> SUFFICES ASSUME IInv, [Next]_vars PROVE IInv'
  OBVIOUS
<1>1. CASE UNCHANGED vars
  <2>1. /\ UNCHANGED <<clock, tracker, thread, queue, retry, batch, now>>
        /\ UNCHANGED <<consumer, stopping, attempt, ledger, marker, issued, outcome, writes, leaked>>
    BY <1>1 DEF vars
  <2>2. TypeOK' /\ ThreadsTyped' /\ HeldOnce' /\ RowsInOrder' /\ Grown
    BY <2>1 DEF IInv, TypeOK, ThreadsTyped, HeldOnce, RowsInOrder, Grown, event
  <2> QED BY <2>1, <2>2, ConsumerWaits DEF Excused, Waiting
<1>2. ASSUME NEW h \in Cameras, CameraMatch(h) PROVE IInv'
  BY <1>2, CheckIInv DEF CameraMatch, Threads, Intents
<1>3. ASSUME NEW h \in Requests, RequestMatch(h) PROVE IInv'
  <2>1. "check_in" \in EventTypes /\ "toggle" \in Intents /\ EventTypes \subseteq Intents
    BY DEF EventTypes, Intents
  <2> QED BY <1>3, <2>1, CheckIInv DEF RequestMatch, Threads
<1>4. ASSUME NEW h \in Threads, Work(h) PROVE IInv'
  BY <1>4, EnqueueIInv, MarkInlineIInv, FlushInlineIInv, EndInlineIInv DEF Work
<1>5. CASE Drain
  BY <1>5, StartDrainIInv, SkipIInv, FlushIInv, ArmIInv, CommitIInv, FailIInv, UnarmIInv,
     FailRollbackIInv DEF Drain
<1> QED BY <1>1, <1>2, <1>3, <1>4, <1>5, TickIInv, StopIInv DEF Next

-----------------------------------------------------------------------------
(* What follows *)

\* The inductive invariant of the pipeline: where each event is, what was written for it,
\* and which transaction every marker belongs to.
THEOREM PipelineInductive == Spec => []IInv
BY InitIInv, NextIInv, PTL DEF Spec

\* Threads, queues and the ledger have the types of the model; the queue never exceeds its
\* length (attendance_generator.py, deque maxlen), and the consumer works on an event
\* whenever it says so.
THEOREM PipelineTyped == Spec => []TypeOK
BY PipelineInductive, PTL DEF IInv

\* No event is lost, doubled or replayed after it was settled, whatever fails or is
\* cancelled (drain_once, _persist_event, stop).
THEOREM EventsInOnePlace == Spec => []OnePlace
<1>1. IInv => OnePlace
  <2> SUFFICES ASSUME IInv, NEW i \in 1 .. MaxEvents
               PROVE  LET held == retry \o batch \o queue IN
                      Cardinality({k \in DOMAIN held : held[k].id = i})
                          = IF outcome[i] = "open" THEN 1 ELSE 0
    BY DEF OnePlace
  <2> DEFINE held == retry \o batch \o queue
  <2>1. /\ retry \o batch \in Seq(Event) /\ Distinct(retry \o batch)
        /\ IdsOf(retry \o batch) = IdsOf(retry) \cup IdsOf(batch)
    BY TypeFacts, ConcatEvents DEF IInv, HeldOnce
  <2>2. IdsOf(retry \o batch) \cap IdsOf(queue) = {} /\ Distinct(queue)
    BY <2>1 DEF IInv, HeldOnce
  <2>3. /\ held \in Seq(Event) /\ Distinct(held)
        /\ IdsOf(held) = IdsOf(retry) \cup IdsOf(batch) \cup IdsOf(queue)
    BY <2>1, <2>2, TypeFacts, ConcatEvents
  <2>4. outcome[i] = "open" <=> i \in IdsOf(held)
    BY <2>3 DEF IInv, HeldOnce, EventIds
  <2> HIDE DEF held
  <2>5. Cardinality({k \in DOMAIN held : held[k].id = i}) = IF i \in IdsOf(held) THEN 1 ELSE 0
    BY <2>3, OnePosition
  <2> QED BY <2>4, <2>5 DEF held
<1> QED BY <1>1, PipelineInductive, PTL

\* An event is written at most once, also when the final flush replays a commit that was
\* cancelled after it went through (process_recognition finds the stamp).
THEOREM EventsWrittenOnce == Spec => []WrittenOnce
<1>1. IInv => WrittenOnce
  BY DEF IInv, WritesRecorded, WrittenOnce, EventIds
<1> QED BY <1>1, PipelineInductive, PTL

\* A check-in that is settled without a write is in the ledger, or its marker belongs to a
\* transaction that is open or that leaked it (_persist_event, process_recognition).
THEOREM NoopIsRecorded == Spec => NoopMeansRecorded
<1> DEFINE Told(e) ==
       ledger'[e].in = None
       /\ (\E i \in 1 .. MaxEvents :
              /\ outcome[i] = "open" /\ outcome'[i] = "noop"
              /\ event.id = i /\ event.person = e /\ event.type = "check_in")
       => \/ e \in leaked
          \/ \E h \in Requests : thread[h].pc = "commit" /\ thread[h].person = e
<1>1. IInv /\ [Next]_vars => \A e \in Employees : Told(e)
  <2> SUFFICES ASSUME IInv, [Next]_vars, NEW e \in Employees, ledger'[e].in = None,
                      NEW i \in EventIds, outcome[i] = "open", outcome'[i] = "noop",
                      event.id = i, event.person = e, event.type = "check_in"
               PROVE  Excused(e)
    BY DEF Excused, EventIds
  <2>1. outcome \in [EventIds -> {"none", "open", "persisted", "noop", "skipped", "dropped"}]
    BY DEF IInv, TypeOK, EventIds
  <2>2. Commit
    <3>1. ~UNCHANGED outcome
      OBVIOUS
    <3>2. ~Tick /\ ~Stop /\ ~StartDrain /\ ~Flush /\ ~Arm /\ ~Fail /\ ~Unarm /\ ~FailRollback
      BY <3>1 DEF Tick, Stop, StartDrain, Flush, Arm, Fail, Unarm, FailRollback
    <3>3. \A h : ~MarkInline(h) /\ ~FlushInline(h) /\ ~EndInline(h)
      BY <3>1 DEF MarkInline, FlushInline, EndInline
    <3>4. \A h : ~CameraMatch(h) /\ ~RequestMatch(h)
      BY <3>1 DEF CameraMatch, RequestMatch, Check
    <3>5. \A h : ~Enqueue(h)
      BY <2>1 DEF Enqueue
    <3>6. ~Skip
      BY <2>1 DEF Skip, Settle
    <3>7. ~UNCHANGED vars
      BY <3>1 DEF vars
    <3> QED BY <3>2, <3>3, <3>4, <3>5, <3>6, <3>7 DEF Next, Work, Drain
  <2>3. consumer = "commit" /\ Committing /\ outcome'[i] = IF attempt.action = "none" THEN "noop" ELSE "persisted"
    BY <2>1, <2>2 DEF Commit, Settle
  <2>4. attempt.action = "none" /\ Grown
    BY <2>3, CommittingGrows
  <2>5. ledger[e].in = None
    BY <2>4 DEF Grown
  <2> QED BY <2>3, <2>4, <2>5 DEF IInv, NoopExplained
<1>2. IInv /\ [Next]_vars => [\A e \in Employees : Told(e)]_vars
  BY <1>1
<1>3. Spec => [][\A e \in Employees : Told(e)]_vars
  BY <1>2, PipelineInductive, PTL DEF Spec
<1> QED BY <1>3 DEF NoopMeansRecorded
-----------------------------------------------------------------------------
(* In the order of the sightings *)

Ascending(s) == \A j, k \in 1 .. Len(s) : j < k => s[j].id < s[k].id
Below(I, J) == \A i \in I, j \in J : i < j

\* What failed is older than what is left to try, and that than what was enqueued since.
InOrder ==
    /\ Ascending(retry) /\ Ascending(batch) /\ Ascending(queue)
    /\ Below(IdsOf(retry), IdsOf(batch))
    /\ Below(IdsOf(retry), IdsOf(queue))
    /\ Below(IdsOf(batch), IdsOf(queue))

LEMMA EventHasId ==
  ASSUME NEW s \in Seq(Event)
  PROVE  IdsOf(s) \subseteq EventIds /\ \A k \in 1 .. Len(s) : s[k].id \in IdsOf(s)
<1>1. \A k \in 1 .. Len(s) : s[k] \in Event /\ s[k] \in Events(s)
  BY DEF Events
<1> QED BY <1>1 DEF Events, IdsOf, Event, EventIds

LEMMA ConcatAscends ==
  ASSUME NEW s \in Seq(Event), NEW t \in Seq(Event), Ascending(s), Ascending(t),
         Below(IdsOf(s), IdsOf(t))
  PROVE  Ascending(s \o t)
<1> DEFINE u == s \o t
<1>1. /\ Len(u) = Len(s) + Len(t) /\ Len(s) \in Nat /\ Len(t) \in Nat
      /\ \A i \in 1 .. Len(s) + Len(t) : u[i] = IF i <= Len(s) THEN s[i] ELSE t[i - Len(s)]
  BY ConcatProperties
<1> HIDE DEF u
<1> SUFFICES ASSUME NEW j \in 1 .. Len(u), NEW k \in 1 .. Len(u), j < k
             PROVE  u[j].id < u[k].id
  BY DEF Ascending, u
<1>2. CASE k <= Len(s)
  <2>1. j \in 1 .. Len(s) /\ k \in 1 .. Len(s) /\ u[j] = s[j] /\ u[k] = s[k]
    BY <1>1, <1>2
  <2> QED BY <2>1 DEF Ascending
<1>3. CASE j <= Len(s) /\ ~(k <= Len(s))
  <2>1. j \in 1 .. Len(s) /\ k - Len(s) \in 1 .. Len(t) /\ u[j] = s[j] /\ u[k] = t[k - Len(s)]
    BY <1>1, <1>3
  <2>2. u[j].id \in IdsOf(s) /\ u[k].id \in IdsOf(t)
    BY <2>1, EventHasId
  <2> QED BY <2>2 DEF Below
<1>4. CASE ~(j <= Len(s)) /\ ~(k <= Len(s))
  <2>1. /\ j - Len(s) \in 1 .. Len(t) /\ k - Len(s) \in 1 .. Len(t) /\ j - Len(s) < k - Len(s)
        /\ u[j] = t[j - Len(s)] /\ u[k] = t[k - Len(s)]
    BY <1>1, <1>4
  <2> QED BY <2>1 DEF Ascending
<1> QED BY <1>1, <1>2, <1>3, <1>4

\* The first event is the oldest, and the others stay in order when it is taken.
LEMMA TakenAscends ==
  ASSUME NEW s \in Seq(Event), s # <<>>, Ascending(s)
  PROVE  Ascending(Tail(s)) /\ Below({Head(s).id}, IdsOf(Tail(s)))
<1> DEFINE t == Tail(s)
<1>1. /\ t \in Seq(Event) /\ Len(t) = Len(s) - 1 /\ Len(s) \in Nat \ {0} /\ Head(s) = s[1]
      /\ \A i \in 1 .. Len(t) : t[i] = s[i + 1]
  BY HeadTailProperties
<1> HIDE DEF t
<1>2. Ascending(t)
  <2> SUFFICES ASSUME NEW j \in 1 .. Len(t), NEW k \in 1 .. Len(t), j < k PROVE t[j].id < t[k].id
    BY DEF Ascending
  <2>1. /\ j + 1 \in 1 .. Len(s) /\ k + 1 \in 1 .. Len(s) /\ j + 1 < k + 1
        /\ t[j] = s[j + 1] /\ t[k] = s[k + 1]
    BY <1>1
  <2> QED BY <2>1 DEF Ascending
<1>3. ASSUME NEW i \in IdsOf(t) PROVE Head(s).id < i
  <2>1. PICK k \in 1 .. Len(t) : i = t[k].id
    BY DEF IdsOf, Events
  <2>2. 1 \in 1 .. Len(s) /\ k + 1 \in 1 .. Len(s) /\ 1 < k + 1 /\ t[k] = s[k + 1]
    BY <1>1
  <2> QED BY <1>1, <2>1, <2>2 DEF Ascending
<1> QED BY <1>2, <1>3 DEF Below, t

LEMMA AddedAscends ==
  ASSUME NEW s \in Seq(Event), NEW v \in Event, Ascending(s), Below(IdsOf(s), {v.id})
  PROVE  Ascending(Append(s, v))
<1> DEFINE a == Append(s, v)
<1>1. /\ Len(a) = Len(s) + 1 /\ Len(s) \in Nat /\ a[Len(s) + 1] = v
      /\ \A i \in 1 .. Len(s) : a[i] = s[i]
  BY AppendProperties
<1> HIDE DEF a
<1> SUFFICES ASSUME NEW j \in 1 .. Len(a), NEW k \in 1 .. Len(a), j < k
             PROVE  a[j].id < a[k].id
  BY DEF Ascending, a
<1>2. CASE k = Len(s) + 1
  <2>1. j \in 1 .. Len(s) /\ a[j] = s[j] /\ a[k] = v
    BY <1>1, <1>2
  <2>2. a[j].id \in IdsOf(s)
    BY <2>1, EventHasId
  <2> QED BY <2>1, <2>2 DEF Below
<1>3. CASE k # Len(s) + 1
  <2>1. j \in 1 .. Len(s) /\ k \in 1 .. Len(s) /\ a[j] = s[j] /\ a[k] = s[k]
    BY <1>1, <1>3
  <2> QED BY <2>1 DEF Ascending
<1> QED BY <1>2, <1>3

LEMMA NothingAscends == Ascending(<<>>)
BY EmptyEvents DEF Ascending

\* Every id that is held has been given out.
LEMMA HeldIssued ==
  ASSUME IInv, NEW i \in IdsOf(retry) \cup IdsOf(batch) \cup IdsOf(queue)
  PROVE  i \in EventIds /\ i <= issued
<1>1. i \in EventIds
  BY TypeFacts, EventHasId
<1> QED BY <1>1, TypeFacts DEF IInv, HeldOnce, EventIds

\* The event at hand leaves the batch; what it leaves behind is younger.
LEMMA TakenInOrder ==
  ASSUME IInv, InOrder, batch # <<>>, batch' = Tail(batch), UNCHANGED queue
  PROVE  /\ Ascending(batch') /\ IdsOf(batch) = {event.id} \cup IdsOf(batch')
         /\ Below({event.id}, IdsOf(batch')) /\ Below(IdsOf(batch'), IdsOf(queue'))
         /\ Below(IdsOf(retry), IdsOf(batch'))
<1>1. IdsOf(batch) = {event.id} \cup IdsOf(batch')
  BY TypeFacts, TakenEvents DEF event
<1>2. Ascending(batch') /\ Below({event.id}, IdsOf(batch'))
  BY TypeFacts, TakenAscends DEF event, InOrder
<1> QED BY <1>1, <1>2 DEF InOrder, Below

LEMMA EnqueueInOrder ==
  ASSUME IInv, InOrder, NEW h \in Threads, Enqueue(h)
  PROVE  InOrder'
<1> DEFINE v == [id |-> issued + 1, person |-> thread[h].person, type |-> thread[h].type,
                 timestamp |-> clock]
           rest == IF Overflowing = {} THEN queue ELSE Tail(queue)
<1>1. /\ thread[h].pc = "mark" /\ issued < MaxEvents
      /\ queue' = Append(rest, v) /\ UNCHANGED <<retry, batch>>
  BY DEF Enqueue
<1>2. v \in Event /\ v.id = issued + 1
  <2>1. thread[h].person \in People /\ thread[h].type \in EventTypes
    BY <1>1, ThreadFields DEF IInv
  <2>2. issued + 1 \in 1 .. MaxEvents
    BY <1>1, TypeFacts, PipelineAssumption
  <2> QED BY <2>1, <2>2, TypeFacts DEF Event
<1> HIDE DEF v
<1>3. rest \in Seq(Event) /\ Ascending(rest) /\ IdsOf(rest) \subseteq IdsOf(queue)
  <2>1. CASE Overflowing = {}
    BY <2>1, TypeFacts DEF InOrder
  <2>2. CASE Overflowing # {}
    <3>1. queue # <<>>
      <4>1. Len(queue) = MaxPending /\ Len(<<>>) = 0
        BY <2>2 DEF Overflowing
      <4> QED BY <4>1, PipelineAssumption
    <3>2. queue \in Seq(Event) /\ Ascending(queue) /\ rest = Tail(queue)
      BY <2>2, TypeFacts DEF InOrder
    <3>3. Tail(queue) \in Seq(Event) /\ IdsOf(Tail(queue)) \subseteq IdsOf(queue)
      BY <3>1, <3>2, TakenEvents
    <3>4. Ascending(Tail(queue))
      BY <3>1, <3>2, TakenAscends
    <3> QED BY <3>2, <3>3, <3>4
  <2> QED BY <2>1, <2>2
<1> HIDE DEF rest
<1>4. \A i \in IdsOf(retry) \cup IdsOf(batch) \cup IdsOf(queue) : i < v.id
  BY <1>2, HeldIssued, TypeFacts DEF EventIds
<1>5. Ascending(queue') /\ IdsOf(queue') = IdsOf(rest) \cup {v.id}
  BY <1>1, <1>2, <1>3, <1>4, AddedAscends, AddedEvent DEF Below
<1> QED BY <1>1, <1>3, <1>4, <1>5 DEF InOrder, Below

\* A drain takes the stash first and the queue behind it.
LEMMA StartDrainInOrder ==
  ASSUME IInv, InOrder, StartDrain
  PROVE  InOrder'
<1>1. batch' = retry \o queue /\ retry' = <<>> /\ queue' = <<>>
  BY DEF StartDrain
<1>2. Ascending(batch')
  BY <1>1, TypeFacts, ConcatAscends DEF InOrder
<1> QED BY <1>1, <1>2, EmptyEvents, NothingAscends DEF InOrder, Below

\* The event that failed is younger than those that failed before it.
LEMMA UnarmInOrder ==
  ASSUME IInv, InOrder, Unarm
  PROVE  InOrder'
<1>1. /\ retry' = Append(retry, event) /\ batch' = Tail(batch) /\ UNCHANGED queue
      /\ batch # <<>> /\ event \in Event
  BY EventAtHand DEF Unarm, NextEvent
<1>2. /\ Ascending(batch') /\ IdsOf(batch) = {event.id} \cup IdsOf(batch')
      /\ Below({event.id}, IdsOf(batch')) /\ Below(IdsOf(batch'), IdsOf(queue'))
      /\ Below(IdsOf(retry), IdsOf(batch'))
  BY <1>1, TakenInOrder
<1>3. Below(IdsOf(retry), {event.id}) /\ Below({event.id}, IdsOf(queue))
  BY <1>2 DEF InOrder, Below
<1>4. Ascending(retry') /\ IdsOf(retry') = IdsOf(retry) \cup {event.id}
  BY <1>1, <1>3, TypeFacts, AddedAscends, AddedEvent DEF InOrder
<1> QED BY <1>1, <1>2, <1>3, <1>4 DEF InOrder, Below

\* A drain that ends early puts what it has not tried behind what failed.
LEMMA AbandonInOrder ==
  ASSUME IInv, InOrder, Abandon, UNCHANGED queue
  PROVE  InOrder'
<1>1. retry' = retry \o batch /\ batch' = <<>>
  BY DEF Abandon, Stash
<1>2. Ascending(retry') /\ IdsOf(retry') = IdsOf(retry) \cup IdsOf(batch)
  BY <1>1, TypeFacts, ConcatAscends, ConcatEvents DEF IInv, HeldOnce, InOrder
<1> QED BY <1>1, <1>2, EmptyEvents, NothingAscends DEF InOrder, Below

LEMMA SettleInOrder ==
  ASSUME IInv, InOrder, consumer \in {"event", "commit"}, NextEvent, UNCHANGED <<retry, queue>>
  PROVE  InOrder'
<1>1. batch # <<>> /\ batch' = Tail(batch)
  BY EventAtHand DEF NextEvent
<1> QED BY <1>1, TakenInOrder DEF InOrder

LEMMA NextInOrder == IInv /\ InOrder /\ [Next]_vars => InOrder'
<1> SUFFICES ASSUME IInv, InOrder, [Next]_vars PROVE InOrder'
  OBVIOUS
<1>1. CASE UNCHANGED <<retry, batch, queue>>
  BY <1>1 DEF InOrder
<1>2. CASE Tick \/ Flush \/ Arm \/ Fail \/ UNCHANGED vars
  <2>1. UNCHANGED <<retry, batch, queue>>
    BY <1>2 DEF Tick, Flush, Arm, Fail, vars
  <2> QED BY <1>1, <2>1
<1>3. ASSUME NEW h \in Threads, CameraMatch(h) \/ RequestMatch(h) PROVE InOrder'
  <2>1. UNCHANGED <<retry, batch, queue>>
    BY <1>3 DEF CameraMatch, RequestMatch, Check
  <2> QED BY <1>1, <2>1
<1>4. ASSUME NEW h \in Threads, Work(h) PROVE InOrder'
  <2>1. CASE MarkInline(h) \/ FlushInline(h) \/ EndInline(h)
    <3>1. UNCHANGED <<retry, batch, queue>>
      BY <2>1 DEF MarkInline, FlushInline, EndInline
    <3> QED BY <1>1, <3>1
  <2> QED BY <1>4, <2>1, EnqueueInOrder DEF Work
<1>5. CASE Skip \/ Commit
  <2>1. consumer \in {"event", "commit"} /\ NextEvent /\ UNCHANGED <<retry, queue>>
    BY <1>5 DEF Skip, Commit, Settle
  <2> QED BY <2>1, SettleInOrder
<1>6. CASE FailRollback \/ Stop
  <2>1. Abandon /\ UNCHANGED queue
    BY <1>6 DEF FailRollback, Stop
  <2> QED BY <2>1, AbandonInOrder
<1> QED BY <1>2, <1>3, <1>4, <1>5, <1>6, StartDrainInOrder, UnarmInOrder DEF Next, Drain, Threads

\* Events are taken up in the order of their sightings, whatever fails, overflows or is
\* cancelled: what failed before what is untried, and that before what is enqueued since
\* (drain_once: the stash in front of the queue, the rest behind what failed).
THEOREM EventsInOrder == Spec => []ReplayedInOrder
<1>1. Init => InOrder
  BY EmptyEvents, NothingAscends DEF Init, InOrder, Below
<1>2. IInv /\ InOrder => ReplayedInOrder
  <2> SUFFICES ASSUME IInv, InOrder PROVE ReplayedInOrder
    OBVIOUS
  <2>1. /\ retry \o batch \in Seq(Event) /\ Ascending(retry \o batch)
        /\ IdsOf(retry \o batch) = IdsOf(retry) \cup IdsOf(batch)
    BY TypeFacts, ConcatEvents, ConcatAscends DEF InOrder
  <2>2. Below(IdsOf(retry \o batch), IdsOf(queue))
    BY <2>1 DEF InOrder, Below
  <2>3. (retry \o batch) \o queue \in Seq(Event) /\ Ascending((retry \o batch) \o queue)
    BY <2>1, <2>2, TypeFacts, ConcatEvents, ConcatAscends DEF InOrder
  <2>4. DOMAIN ((retry \o batch) \o queue) = 1 .. Len((retry \o batch) \o queue)
    BY <2>3
  <2> QED BY <2>3, <2>4 DEF Ascending, ReplayedInOrder
<1> QED BY <1>1, <1>2, NextInOrder, PipelineInductive, PTL DEF Spec

\* Every event is handed on once, written at most once and taken up in its turn, for any
\* limits of the queue, number of employees and order of failures (drain_once,
\* _persist_event, generator.drain).
THEOREM Delivered == Spec => []DeliveredOnceInOrder
BY EventsInOnePlace, EventsWrittenOnce, EventsInOrder, PTL DEF DeliveredOnceInOrder
=============================================================================
