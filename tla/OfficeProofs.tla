---------------------------- MODULE OfficeProofs ----------------------------
(***************************************************************************)
(* Theorems about the office: the conversations of the chat (ChatRooms),   *)
(* who is online (PresenceHub), shift policies and holidays (DutyRules),   *)
(* the anomalies of the attendance (AnomalyTriage) and the units of the    *)
(* organization (OrganizationTree), for any users, sockets, workers,       *)
(* policies, sessions, days and trees.                                     *)
(***************************************************************************)
EXTENDS ChatRooms, PresenceHub, DutyRules, AnomalyTriage, OrganizationTree,
        FiniteSetTheorems, TLAPS

-----------------------------------------------------------------------------
(* Chat *)

ThreadRecords == [op : ChatOps \cup {"none"}, stage : {"none", "read", "flushed", "claimed"},
                  who : Chatters \cup {Nil}, target : Chatters \cup {Nil},
                  message : Ids \cup {Nil}, mark : Marks, joined : Nat, seen : BOOLEAN]

\* A handler that was begun has a user; one about a message has one that was given out, an
\* edit or a deletion has read its row.  A sender is behind its own message, and what is
\* asked to be read has been given out, unless the user is ahead.
ThreadPlaced(k) ==
    /\ k.op # "none" => k.who \in Chatters
    /\ k.op \in {"send"} \cup OnMessage => k.message \in Ids /\ k.message <= lastMessage
    /\ k.op = "send" => k.mark < k.message \/ k.who \in ahead
    /\ k.op = "read" => k.mark <= lastMessage \/ k.who \in ahead
    /\ k.op \in {"edit", "delete"} => messages[k.message] \in Row

\* A mark is below the last id given, but for the marks of those who are ahead.
MarksPlaced ==
    /\ \A u \in Chatters : readUpTo[u] <= lastMessage \/ u \in ahead
    /\ \A m \in Ids : messages[m] # Nil => m <= lastMessage

Inserting(t) == threads[t].op = "direct" /\ threads[t].stage = "flushed"

\* At most one insert of the direct conversation is under way, before there is one.
DirectOnce ==
    /\ directs <= 1
    /\ \A t \in Threads : Inserting(t) => directs = 0
    /\ \A t, e \in Threads : Inserting(t) /\ Inserting(e) => t = e

\* At most one handler holds the claim of the call, before there is an entry.
CallOnce ==
    \/ blip
    \/ /\ callLogs <= 1
       /\ callLogs > 0 => callClaimed
       /\ \A t \in Threads : threads[t].stage = "claimed" => callClaimed /\ callLogs = 0
       /\ \A t, e \in Threads : threads[t].stage = "claimed" /\ threads[e].stage = "claimed" => t = e

ChatIInv ==
    /\ ChatTypeOK
    /\ threads \in [Threads -> ThreadRecords]
    /\ \A t \in Threads : ThreadPlaced(threads[t])
    /\ MarksPlaced
    /\ DirectOnce
    /\ CallOnce
    /\ SentByMembers

ChatTyped ==
    /\ chatAsked' \in ChatAsked
    /\ roomType' \in {"group", "channel"} /\ archived' \in BOOLEAN
    /\ members' \in [Chatters -> {"owner", "member", Nil}]
    /\ joined' \in [Chatters -> Nat]
    /\ readUpTo' \in [Chatters -> Marks]
    /\ pinned' \subseteq {u \in Chatters : members'[u] # Nil}
    /\ messages' \in [Ids -> Row \cup {Nil}]
    /\ lastMessage' \in 0..LastMessage
    /\ reactions' \subseteq Ids \X Chatters
    /\ directs' \in Nat /\ callLogs' \in Nat
    /\ callClaimed' \in BOOLEAN /\ blip' \in BOOLEAN
    /\ stray' \subseteq Chatters /\ ahead' \subseteq Chatters
    /\ chatAsks' \in 0..MaxChatAsks

LEMMA MarksAreNaturals == Marks \subseteq Nat /\ 0 \in Marks /\ 0..LastMessage \subseteq Marks
<1>1. LastMessage \in Nat /\ ClientMarks \subseteq Nat
  BY ChatAssumption
<1>2. 0 \in 0..LastMessage /\ 0..LastMessage \subseteq Nat
  BY <1>1
<1> HIDE DEF Marks
<1>3. Marks = 0..LastMessage \cup ClientMarks
  BY DEF Marks
<1> QED BY <1>1, <1>2, <1>3

\* A step replaces one thread; the marks move up with the ids.
LEMMA ChatStep ==
  ASSUME ChatIInv, ChatTyped, NEW t \in Threads, NEW k \in ThreadRecords,
         threads' = [threads EXCEPT ![t] = k],
         k.op # "none" => k.who \in Chatters,
         k.op \in {"send"} \cup OnMessage => k.message \in Ids /\ k.message <= lastMessage',
         k.op = "send" => k.mark < k.message \/ k.who \in ahead',
         k.op = "read" => k.mark <= lastMessage' \/ k.who \in ahead',
         k.op \in {"edit", "delete"} => messages'[k.message] \in Row,
         lastMessage <= lastMessage', ahead \subseteq ahead',
         \A u \in Chatters : readUpTo'[u] <= lastMessage' \/ u \in ahead',
         \A m \in Ids : /\ messages[m] \in Row => messages'[m] \in Row
                        /\ messages'[m] # Nil => m <= lastMessage',
         DirectOnce', CallOnce', SentByMembers'
  PROVE  ChatIInv'
<1>1. \A e \in Threads : threads'[e] = IF e = t THEN k ELSE threads[e]
  BY DEF ChatIInv
<1>2. threads' \in [Threads -> ThreadRecords]
  BY DEF ChatIInv
<1>3. ChatTypeOK'
  <2>1. \A e \in Threads : /\ threads'[e].op \in ChatOps \cup {"none"}
                           /\ threads'[e].stage \in {"none", "read", "flushed", "claimed"}
                           /\ threads'[e].mark \in Marks
    BY <1>2 DEF ThreadRecords
  <2> QED BY <2>1 DEF ChatTyped, ChatTypeOK
<1>4. ASSUME NEW e \in Threads PROVE ThreadPlaced(threads[e])'
  <2>1. CASE e = t
    BY <1>1, <2>1 DEF ThreadPlaced
  <2>2. CASE e # t
    <3>1. ThreadPlaced(threads[e]) /\ threads'[e] = threads[e]
      BY <1>1, <2>2 DEF ChatIInv
    <3>2. lastMessage \in Nat /\ lastMessage' \in Nat
      BY ChatAssumption DEF ChatIInv, ChatTypeOK, ChatTyped
    <3> DEFINE j == threads[e]
    <3>3. /\ \A m \in Ids : m \in Nat
          /\ j.mark \in Nat
      <4>1. j \in ThreadRecords
        BY DEF ChatIInv
      <4>2. j.mark \in Marks
        BY <4>1 DEF ThreadRecords
      <4>3. \A m \in Ids : m \in Nat
        BY ChatAssumption DEF Ids
      <4> HIDE DEF j
      <4> QED BY <4>2, <4>3, MarksAreNaturals
    <3> HIDE DEF j
    <3>4. ThreadPlaced(j)
      BY <3>1 DEF j
    <3>5. /\ j.op \in {"send"} \cup OnMessage => j.message <= lastMessage'
          /\ j.op = "read" => j.mark <= lastMessage' \/ j.who \in ahead'
      BY <3>2, <3>3, <3>4 DEF ThreadPlaced
    <3>6. j.op \in {"edit", "delete"} => messages'[j.message] \in Row
      BY <3>4 DEF ThreadPlaced, OnMessage
    <3>7. threads'[e] = j
      BY <3>1 DEF j
    <3> QED BY <3>4, <3>5, <3>6, <3>7 DEF ThreadPlaced
  <2> QED BY <2>1, <2>2
<1>5. MarksPlaced'
  BY DEF MarksPlaced
<1> QED BY <1>2, <1>3, <1>4, <1>5 DEF ChatIInv

\* A step of a thread that inserts nothing.
LEMMA ChatQuiet ==
  ASSUME ChatIInv, NEW t \in Threads, NEW k, threads' = [threads EXCEPT ![t] = k],
         ~(k.op = "direct" /\ k.stage = "flushed"), k.stage # "claimed",
         UNCHANGED calls
  PROVE  DirectOnce' /\ CallOnce'
<1>1. \A e \in Threads : threads'[e] = IF e = t THEN k ELSE threads[e]
  BY DEF ChatIInv
<1>2. \A e \in Threads : /\ Inserting(e)' => Inserting(e)
                         /\ threads'[e].stage = "claimed" => threads[e].stage = "claimed"
  BY <1>1 DEF Inserting
<1>3. DirectOnce'
  BY <1>2 DEF ChatIInv, DirectOnce, calls
<1>4. CallOnce'
  BY <1>2 DEF ChatIInv, CallOnce, calls
<1> QED BY <1>3, <1>4

LEMMA NoThreadPlaced ==
  NoThread \in ThreadRecords /\ NoThread.op = "none" /\ NoThread.stage = "none"
BY MarksAreNaturals DEF NoThread, ThreadRecords

LEMMA ChatTypes ==
  ASSUME ChatIInv
  PROVE  /\ chatAsked \in ChatAsked /\ chatAsked \subseteq ChatOps
         /\ threads \in [Threads -> ThreadRecords]
         /\ members \in [Chatters -> {"owner", "member", Nil}]
         /\ joined \in [Chatters -> Nat] /\ readUpTo \in [Chatters -> Marks] /\ Marks \subseteq Nat
         /\ messages \in [Ids -> Row \cup {Nil}]
         /\ lastMessage \in 0..LastMessage /\ LastMessage \in Nat /\ MaxChatAsks \in Nat
         /\ directs \in Nat /\ callLogs \in Nat /\ chatAsks \in 0..MaxChatAsks
         /\ NoThread \in ThreadRecords
BY ChatAssumption, MarksAreNaturals, NoThreadPlaced DEF ChatIInv, ChatTypeOK

\* A handler ends, and the marks have not moved down.
LEMMA ChatEnds ==
  ASSUME ChatIInv, ChatTyped, NEW t \in Threads, Ended(t),
         lastMessage' = lastMessage, ahead' = ahead,
         \A u \in Chatters : readUpTo'[u] <= lastMessage \/ u \in ahead,
         \A m \in Ids : /\ messages[m] \in Row => messages'[m] \in Row
                        /\ messages'[m] # Nil => m <= lastMessage,
         DirectOnce', CallOnce', SentByMembers'
  PROVE  ChatIInv'
<1>1. lastMessage <= lastMessage'
  BY ChatAssumption DEF ChatIInv, ChatTypeOK
<1> QED BY <1>1, NoThreadPlaced, ChatStep DEF Ended, OnMessage

\* A handler begins.
LEMMA ChatBegins ==
  ASSUME ChatIInv, NEW t \in Threads, NEW op, NEW k \in ThreadRecords, BeginThread(t, op, k),
         UNCHANGED <<room, calls>>, ahead \subseteq ahead', ahead' \subseteq Chatters,
         k.stage = "read",
         k.op # "none" => k.who \in Chatters,
         k.op \in OnMessage => k.message \in Ids /\ messages[k.message] # Nil,
         k.op = "read" => k.mark <= lastMessage \/ k.who \in ahead',
         k.op # "send"
  PROVE  ChatIInv'
<1>1. ChatTyped
  BY ChatAssumption DEF ChatIInv, ChatTypeOK, ChatTyped, BeginThread, room, calls
<1>2. DirectOnce' /\ CallOnce'
  BY ChatQuiet DEF BeginThread
<1>3. SentByMembers'
  BY DEF ChatIInv, SentByMembers, BeginThread
<1>4. lastMessage \in Nat
  BY ChatAssumption DEF ChatIInv, ChatTypeOK
<1>5. k.op \in {"send"} \cup OnMessage => k.message \in Ids /\ k.message <= lastMessage
  BY DEF ChatIInv, MarksPlaced
<1>6. /\ threads' = [threads EXCEPT ![t] = k]
      /\ lastMessage' = lastMessage /\ messages' = messages /\ readUpTo' = readUpTo
  BY DEF BeginThread, room
<1>7. /\ \A u \in Chatters : readUpTo[u] <= lastMessage \/ u \in ahead
      /\ \A m \in Ids : messages[m] # Nil => m <= lastMessage
  BY DEF ChatIInv, MarksPlaced
<1>8. lastMessage <= lastMessage'
  BY <1>4, <1>6
<1>9. k.op \in {"edit", "delete"} => messages'[k.message] \in Row
  BY <1>6, ChatTypes DEF OnMessage
<1> QED BY <1>1, <1>2, <1>3, <1>5, <1>6, <1>7, <1>8, <1>9, ChatStep

LEMMA AskRoomKeeps ==
  ASSUME ChatIInv, NEW t \in Threads, NEW op, NEW u \in Chatters, NEW v \in Chatters, AskRoom(t, op, u, v)
  PROVE  ChatIInv'
<1> DEFINE k == [NoThread EXCEPT !.op = op, !.stage = "read", !.who = u, !.target = v,
                                 !.joined = joined[v]]
<1>1. op \in Managing \cup {"leave", "pin"}
  BY DEF AskRoom
<1>2. /\ k \in ThreadRecords /\ k.op = op /\ k.stage = "read" /\ k.who = u
  BY <1>1, ChatTypes DEF ThreadRecords, ChatOps, Managing
<1>3. BeginThread(t, op, k) /\ UNCHANGED <<room, calls>> /\ ahead' = ahead /\ ahead \subseteq Chatters
  BY DEF AskRoom, ChatIInv, ChatTypeOK
<1>4. k.op \notin {"send", "read"} \cup OnMessage
  BY <1>1, <1>2 DEF Managing, OnMessage
<1> HIDE DEF k
<1> QED BY <1>2, <1>3, <1>4, ChatBegins

\* join_channel, the first read of the direct conversation, and the end of a call.
LEMMA AskPlainKeeps ==
  ASSUME ChatIInv, NEW t \in Threads, NEW u \in Chatters,
         AskJoin(t, u) \/ AskDirect(t, u) \/ AskEndCall(t, u)
  PROVE  ChatIInv'
<1>1. CASE AskJoin(t, u)
  <2> DEFINE k == [NoThread EXCEPT !.op = "join", !.stage = "read", !.who = u, !.target = u]
  <2>1. k \in ThreadRecords /\ k.op = "join" /\ k.stage = "read" /\ k.who = u
    BY ChatTypes DEF ThreadRecords, ChatOps
  <2>2. BeginThread(t, "join", k) /\ UNCHANGED <<room, calls>> /\ ahead' = ahead /\ ahead \subseteq Chatters
    BY <1>1 DEF AskJoin, ChatIInv, ChatTypeOK
  <2> HIDE DEF k
  <2> QED BY <2>1, <2>2, ChatBegins DEF OnMessage
<1>2. CASE AskDirect(t, u)
  <2> DEFINE k == [NoThread EXCEPT !.op = "direct", !.stage = "read", !.who = u]
  <2>1. k \in ThreadRecords /\ k.op = "direct" /\ k.stage = "read" /\ k.who = u
    BY ChatTypes DEF ThreadRecords, ChatOps
  <2>2. BeginThread(t, "direct", k) /\ UNCHANGED <<room, calls>> /\ ahead' = ahead /\ ahead \subseteq Chatters
    BY <1>2 DEF AskDirect, ChatIInv, ChatTypeOK
  <2> HIDE DEF k
  <2> QED BY <2>1, <2>2, ChatBegins DEF OnMessage
<1>3. CASE AskEndCall(t, u)
  <2> DEFINE k == [NoThread EXCEPT !.op = "end_call", !.stage = "read", !.who = u]
  <2>1. k \in ThreadRecords /\ k.op = "end_call" /\ k.stage = "read" /\ k.who = u
    BY ChatTypes DEF ThreadRecords, ChatOps
  <2>2. BeginThread(t, "end_call", k) /\ UNCHANGED <<room, calls>> /\ ahead' = ahead /\ ahead \subseteq Chatters
    BY <1>3 DEF AskEndCall, ChatIInv, ChatTypeOK
  <2> HIDE DEF k
  <2> QED BY <2>1, <2>2, ChatBegins DEF OnMessage
<1> QED BY <1>1, <1>2, <1>3

\* Who asks to mark an id that has not been given out is ahead from then on.
LEMMA AskReadKeeps ==
  ASSUME ChatIInv, NEW t \in Threads, NEW u \in Chatters, NEW mark \in ClientMarks, AskRead(t, u, mark)
  PROVE  ChatIInv'
<1> DEFINE k == [NoThread EXCEPT !.op = "read", !.stage = "read", !.who = u,
                                 !.mark = mark, !.joined = joined[u]]
<1>1. mark \in Marks /\ mark \in Nat /\ joined[u] \in Nat
  BY ChatAssumption, ChatTypes DEF Marks
<1>2. k \in ThreadRecords /\ k.op = "read" /\ k.stage = "read" /\ k.who = u /\ k.mark = mark
  BY <1>1, ChatTypes DEF ThreadRecords, ChatOps
<1>3. /\ BeginThread(t, "read", k) /\ UNCHANGED <<room, calls>>
      /\ ahead' = IF mark > lastMessage THEN ahead \cup {u} ELSE ahead
  BY DEF AskRead
<1>4. ahead \subseteq ahead' /\ ahead' \subseteq Chatters
  BY <1>3 DEF ChatIInv, ChatTypeOK
<1>5. mark <= lastMessage \/ u \in ahead'
  BY <1>1, <1>3, ChatTypes
<1> HIDE DEF k
<1> QED BY <1>2, <1>3, <1>4, <1>5, ChatBegins DEF OnMessage

LEMMA AskMessageKeeps ==
  ASSUME ChatIInv, NEW t \in Threads, NEW op \in OnMessage, NEW u \in Chatters, NEW m \in Ids,
         AskMessage(t, op, u, m)
  PROVE  ChatIInv'
<1> DEFINE seen == <<m, u>> \in reactions
           k == [NoThread EXCEPT !.op = op, !.stage = "read", !.who = u, !.message = m, !.seen = seen]
<1>1. /\ BeginThread(t, op, k) /\ UNCHANGED <<room, calls>> /\ messages[m] # Nil
      /\ ahead' = ahead /\ ahead \subseteq Chatters
  BY DEF AskMessage, ChatIInv, ChatTypeOK
<1>2. seen \in BOOLEAN
  OBVIOUS
<1> HIDE DEF seen
<1>3. k \in ThreadRecords /\ k.op = op /\ k.stage = "read" /\ k.who = u /\ k.message = m
  BY <1>2, ChatTypes DEF ThreadRecords, ChatOps, OnMessage
<1>4. k.op # "send" /\ k.op # "read"
  BY <1>3 DEF OnMessage
<1> HIDE DEF k
<1> QED BY <1>1, <1>3, <1>4, ChatBegins

LEMMA AskSendKeeps ==
  ASSUME ChatIInv, NEW t \in Threads, NEW u \in Chatters, AskSend(t, u)
  PROVE  ChatIInv'
<1> DEFINE k == [NoThread EXCEPT !.op = "send", !.stage = "flushed", !.who = u,
                                 !.message = lastMessage + 1, !.mark = readUpTo[u],
                                 !.joined = joined[u]]
<1>1. /\ readUpTo[u] \in Marks /\ joined[u] \in Nat
      /\ readUpTo[u] <= lastMessage \/ u \in ahead
      /\ lastMessage + 1 \in Ids /\ lastMessage + 1 \in 0..LastMessage
  BY ChatTypes DEF AskSend, Ids, ChatIInv, MarksPlaced
<1>2. /\ k \in ThreadRecords /\ k.op = "send" /\ k.stage = "flushed" /\ k.who = u
      /\ k.message = lastMessage + 1 /\ k.mark = readUpTo[u]
  BY <1>1, ChatTypes DEF ThreadRecords, ChatOps
<1>3. /\ BeginThread(t, "send", k) /\ lastMessage' = lastMessage + 1
      /\ UNCHANGED <<roomType, archived, members, joined, readUpTo, pinned, messages, reactions,
                     ahead, calls>>
  BY DEF AskSend
<1> HIDE DEF k
<1>4. threads' = [threads EXCEPT ![t] = k] /\ stray' = stray /\ chatAsks' \in 0..MaxChatAsks
  BY <1>3, ChatTypes DEF BeginThread
<1>5. ChatTyped
  BY <1>1, <1>3, <1>4 DEF ChatIInv, ChatTypeOK, ChatTyped, BeginThread, calls
<1>6. DirectOnce' /\ CallOnce'
  BY <1>2, <1>3, <1>4, ChatQuiet
<1>7. /\ lastMessage <= lastMessage'
      /\ k.message <= lastMessage'
      /\ k.mark < k.message \/ k.who \in ahead'
  BY <1>1, <1>2, <1>3, ChatTypes
<1>8. /\ \A w \in Chatters : readUpTo'[w] <= lastMessage' \/ w \in ahead'
      /\ \A m \in Ids : messages'[m] # Nil => m <= lastMessage'
  <2>1. MarksPlaced
    BY DEF ChatIInv
  <2>2. /\ \A w \in Chatters : readUpTo[w] \in Nat
        /\ \A m \in Ids : m \in Nat
        /\ lastMessage \in Nat
    BY ChatTypes DEF Ids
  <2> QED BY <1>3, <2>1, <2>2 DEF MarksPlaced
<1>9. SentByMembers' /\ ahead \subseteq ahead'
  BY <1>3, <1>4 DEF ChatIInv, SentByMembers
<1> QED BY <1>1, <1>2, <1>3, <1>4, <1>5, <1>6, <1>7, <1>8, <1>9, ChatStep

-----------------------------------------------------------------------------
\* What a handler has read, as far as the commit uses it.
LEMMA ThreadTypes ==
  ASSUME ChatIInv, NEW t \in Threads
  PROVE  threads[t] \in ThreadRecords /\ ThreadPlaced(threads[t])
BY DEF ChatIInv

\* A commit that leaves messages, marks and calls alone.
LEMMA ChatPlainEnd ==
  ASSUME ChatIInv, NEW t \in Threads, Ended(t), ChatTyped,
         UNCHANGED <<readUpTo, messages, lastMessage, calls, stray, ahead>>
  PROVE  ChatIInv'
<1>1. DirectOnce' /\ CallOnce'
  BY NoThreadPlaced, ChatQuiet DEF Ended
<1> QED BY <1>1, ChatEnds DEF ChatIInv, MarksPlaced, SentByMembers

LEMMA AddMemberKeeps ==
  ASSUME ChatIInv, NEW t \in Threads, AddMember(t) PROVE ChatIInv'
<1> DEFINE v == threads[t].target
<1>1. /\ members[v] = Nil /\ members' = [members EXCEPT ![v] = "member"]
      /\ joined' = [joined EXCEPT ![v] = @ + 1]
      /\ readUpTo' = [readUpTo EXCEPT ![v] = 0] /\ Ended(t)
      /\ UNCHANGED <<chatAsked, roomType, archived, pinned, messages, lastMessage, reactions,
                     calls, chatAsks, stray, ahead>>
  BY DEF AddMember
<1> HIDE DEF v
<1>2. \A u \in Chatters : members[u] # Nil => members'[u] # Nil
  BY <1>1, ChatTypes
<1>3. pinned' \subseteq {u \in Chatters : members'[u] # Nil}
  BY <1>1, <1>2 DEF ChatIInv, ChatTypeOK
<1>4. \A u \in Chatters : readUpTo'[u] = readUpTo[u] \/ readUpTo'[u] = 0
  <2>1. readUpTo' = [readUpTo EXCEPT ![v] = 0]
    BY <1>1
  <2>2. readUpTo \in [Chatters -> Marks]
    BY ChatTypes
  <2> QED BY <2>1, <2>2
<1>5. /\ readUpTo' \in [Chatters -> Marks] /\ members' \in [Chatters -> {"owner", "member", Nil}]
      /\ joined' \in [Chatters -> Nat]
  <2>1. 0 \in Marks
    BY MarksAreNaturals
  <2>2. readUpTo' = [readUpTo EXCEPT ![v] = 0] /\ readUpTo \in [Chatters -> Marks]
    BY <1>1, ChatTypes
  <2>3. members' \in [Chatters -> {"owner", "member", Nil}]
    BY <1>1, ChatTypes
  <2>4. joined' \in [Chatters -> Nat]
    <3>1. joined \in [Chatters -> Nat] /\ joined' = [joined EXCEPT ![v] = joined[v] + 1]
      BY <1>1, ChatTypes
    <3>2. v \in Chatters => joined[v] + 1 \in Nat
      BY <3>1
    <3> QED BY <3>1, <3>2
  <2> QED BY <2>1, <2>2, <2>3, <2>4
<1>6. ChatTyped
  BY <1>1, <1>3, <1>5 DEF ChatTyped, ChatIInv, ChatTypeOK, calls
<1>7. DirectOnce' /\ CallOnce'
  BY <1>1, NoThreadPlaced, ChatQuiet DEF Ended
<1>8. \A u \in Chatters : readUpTo'[u] <= lastMessage \/ u \in ahead
  BY <1>4, ChatTypes DEF ChatIInv, MarksPlaced
<1>9. \A m \in Ids : messages[m] # Nil => m <= lastMessage
  BY DEF ChatIInv, MarksPlaced
<1>10. SentByMembers' /\ ahead' = ahead /\ lastMessage' = lastMessage /\ messages' = messages
  BY <1>1 DEF ChatIInv, SentByMembers
<1> QED BY <1>1, <1>6, <1>7, <1>8, <1>9, <1>10, ChatEnds

LEMMA RemoveMemberKeeps ==
  ASSUME ChatIInv, NEW t \in Threads, RemoveMember(t) PROVE ChatIInv'
<1> DEFINE v == threads[t].target
<1>1. /\ \/ members' = [members EXCEPT ![v] = Nil] /\ pinned' = pinned \ {v}
         \/ UNCHANGED <<members, pinned>>
      /\ Ended(t)
      /\ UNCHANGED <<chatAsked, roomType, archived, joined, readUpTo, messages, lastMessage, reactions,
                     calls, chatAsks, stray, ahead>>
  BY DEF RemoveMember
<1> HIDE DEF v
<1>2. pinned' \subseteq {u \in Chatters : members'[u] # Nil}
  BY <1>1, ChatTypes DEF ChatIInv, ChatTypeOK
<1>3. members' \in [Chatters -> {"owner", "member", Nil}]
  BY <1>1, ChatTypes
<1>4. ChatTyped
  BY <1>1, <1>2, <1>3 DEF ChatTyped, ChatIInv, ChatTypeOK, calls
<1> QED BY <1>1, <1>4, ChatPlainEnd

\* update_conversation, set_pinned, a reaction, and a handler that fails.
LEMMA ChatAsideKeeps ==
  ASSUME ChatIInv, NEW t \in Threads,
         UpdateConversation(t) \/ SetPinned(t) \/ React(t) \/ ThreadFails(t)
  PROVE  ChatIInv'
<1>1. /\ Ended(t)
      /\ UNCHANGED <<chatAsked, roomType, members, joined, readUpTo, messages, lastMessage, calls,
                     chatAsks, stray, ahead>>
  BY DEF UpdateConversation, SetPinned, React, ThreadFails, room
<1>2. archived' \in BOOLEAN
  BY DEF UpdateConversation, SetPinned, React, ThreadFails, room, ChatIInv, ChatTypeOK
<1>3. pinned' \subseteq {u \in Chatters : members'[u] # Nil}
  <2>1. CASE SetPinned(t)
    <3> DEFINE u == threads[t].who
    <3>1. members[u] # Nil /\ pinned' \subseteq pinned \cup {u} /\ threads[t].op # "none"
      BY <2>1 DEF SetPinned, StillJoined
    <3>2. u \in Chatters
      BY <3>1, ThreadTypes DEF ThreadPlaced
    <3> QED BY <1>1, <3>1, <3>2 DEF ChatIInv, ChatTypeOK
  <2>2. CASE UpdateConversation(t) \/ React(t) \/ ThreadFails(t)
    BY <1>1, <2>2 DEF UpdateConversation, React, ThreadFails, room, ChatIInv, ChatTypeOK
  <2> QED BY <2>1, <2>2
<1>4. reactions' \subseteq Ids \X Chatters
  <2>1. CASE React(t)
    <3> DEFINE r == <<threads[t].message, threads[t].who>>
    <3>1. threads[t].op = "react" /\ reactions' \subseteq reactions \cup {r}
      BY <2>1 DEF React
    <3>2. r \in Ids \X Chatters
      BY <3>1, ThreadTypes DEF ThreadPlaced, OnMessage
    <3> HIDE DEF r
    <3> QED BY <3>1, <3>2 DEF ChatIInv, ChatTypeOK
  <2>2. CASE UpdateConversation(t) \/ SetPinned(t) \/ ThreadFails(t)
    BY <2>2 DEF UpdateConversation, SetPinned, ThreadFails, room, ChatIInv, ChatTypeOK
  <2> QED BY <2>1, <2>2
<1>5. ChatTyped
  BY <1>1, <1>2, <1>3, <1>4 DEF ChatTyped, ChatIInv, ChatTypeOK, calls
<1> QED BY <1>1, <1>5, ChatPlainEnd

\* The commit of a send writes the mark of a sender whom it finds among the members; only
\* who is ahead has a mark that needs no writing.
LEMMA CommitSendKeeps ==
  ASSUME ChatIInv, NEW t \in Threads, CommitSend(t) PROVE ChatIInv'
<1> DEFINE k == threads[t]
           mark == MarkAfterSend(k)
           row == [sender |-> k.who, deleted |-> FALSE, body |-> "text"]
<1>1. /\ k.op = "send" /\ k \in ThreadRecords /\ k.who \in Chatters
      /\ k.message \in Ids /\ k.message <= lastMessage
      /\ k.mark < k.message \/ k.who \in ahead
  BY ThreadTypes DEF CommitSend, ThreadPlaced
<1>2. k.mark \in Nat /\ k.mark \in Marks /\ k.message \in Nat /\ k.message \in Marks
  <2>1. k.mark \in Marks
    BY <1>1 DEF ThreadRecords
  <2>2. k.message \in Nat /\ k.message \in 0..LastMessage
    BY <1>1 DEF Ids
  <2> QED BY <2>1, <2>2, MarksAreNaturals
<1>3. mark = k.message \/ (mark = k.mark /\ k.who \in ahead)
  BY <1>1, <1>2 DEF MarkAfterSend
<1>4. mark = k.mark => k.who \in ahead
  BY <1>1, <1>2 DEF MarkAfterSend
<1>5. /\ mark # k.mark => members[k.who] # Nil
      /\ messages' = [messages EXCEPT ![k.message] = row]
      /\ readUpTo' = IF mark # k.mark THEN [readUpTo EXCEPT ![k.who] = mark] ELSE readUpTo
      /\ stray' = IF members[k.who] = Nil THEN stray \cup {k.who} ELSE stray
      /\ archived' = FALSE /\ Ended(t)
      /\ UNCHANGED <<chatAsked, roomType, members, joined, pinned, lastMessage, reactions, calls,
                     chatAsks, ahead>>
  BY DEF CommitSend, StillJoined
<1>6. row \in Row
  BY <1>1 DEF Row
<1> HIDE DEF k, mark, row
<1>7. messages' \in [Ids -> Row \cup {Nil}] /\ \A m \in Ids : messages[m] \in Row => messages'[m] \in Row
  BY <1>1, <1>5, <1>6, ChatTypes
<1>8. mark \in Marks
  BY <1>2, <1>3
<1>9. readUpTo' \in [Chatters -> Marks]
  BY <1>1, <1>5, <1>8, ChatTypes
<1>10. stray' \subseteq Chatters /\ SentByMembers'
  BY <1>1, <1>4, <1>5 DEF ChatIInv, ChatTypeOK, SentByMembers
<1>11. ChatTyped
  BY <1>5, <1>7, <1>9, <1>10 DEF ChatTyped, ChatIInv, ChatTypeOK, calls
<1>12. DirectOnce' /\ CallOnce'
  BY <1>5, NoThreadPlaced, ChatQuiet DEF Ended
<1>13. \A u \in Chatters : readUpTo'[u] <= lastMessage \/ u \in ahead
  <2> TAKE u \in Chatters
  <2>1. readUpTo[u] <= lastMessage \/ u \in ahead
    BY DEF ChatIInv, MarksPlaced
  <2>2. readUpTo'[u] = readUpTo[u] \/ (u = k.who /\ readUpTo'[u] = mark)
    BY <1>5, ChatTypes
  <2> QED BY <1>1, <1>3, <2>1, <2>2
<1>14. \A m \in Ids : messages'[m] # Nil => m <= lastMessage
  BY <1>1, <1>5, ChatTypes DEF ChatIInv, MarksPlaced
<1> QED BY <1>5, <1>7, <1>10, <1>11, <1>12, <1>13, <1>14, ChatEnds

LEMMA MarkReadKeeps ==
  ASSUME ChatIInv, NEW t \in Threads, MarkRead(t) PROVE ChatIInv'
<1> DEFINE k == threads[t]
<1>1. k.who \in Chatters /\ k.mark \in Marks /\ (k.mark <= lastMessage \/ k.who \in ahead)
  BY ThreadTypes DEF MarkRead, ThreadPlaced, ThreadRecords
<1>2. /\ readUpTo' = [readUpTo EXCEPT ![k.who] = k.mark] /\ Ended(t)
      /\ UNCHANGED <<chatAsked, roomType, archived, members, joined, pinned, messages,
                     lastMessage, reactions, calls, chatAsks, stray, ahead>>
  BY DEF MarkRead
<1> HIDE DEF k
<1>3. readUpTo' \in [Chatters -> Marks]
  BY <1>1, <1>2, ChatTypes
<1>4. ChatTyped
  BY <1>2, <1>3 DEF ChatTyped, ChatIInv, ChatTypeOK, calls
<1>5. DirectOnce' /\ CallOnce'
  BY <1>2, NoThreadPlaced, ChatQuiet DEF Ended
<1>6. \A u \in Chatters : readUpTo'[u] <= lastMessage \/ u \in ahead
  <2> TAKE u \in Chatters
  <2>1. readUpTo[u] <= lastMessage \/ u \in ahead
    BY DEF ChatIInv, MarksPlaced
  <2>2. readUpTo'[u] = readUpTo[u] \/ (u = k.who /\ readUpTo'[u] = k.mark)
    BY <1>2, ChatTypes
  <2> QED BY <1>1, <2>1, <2>2
<1>7. \A m \in Ids : messages[m] # Nil => m <= lastMessage
  BY DEF ChatIInv, MarksPlaced
<1>8. SentByMembers' /\ ahead' = ahead /\ lastMessage' = lastMessage /\ messages' = messages
  BY <1>2 DEF ChatIInv, SentByMembers
<1> QED BY <1>2, <1>4, <1>5, <1>6, <1>7, <1>8, ChatEnds

LEMMA RewrittenKeeps ==
  ASSUME ChatIInv, NEW t \in Threads, EditMessage(t) \/ DeleteMessage(t) PROVE ChatIInv'
<1> DEFINE m == threads[t].message
           row == IF EditMessage(t) THEN [messages[m] EXCEPT !.body = "edited"]
                  ELSE [messages[m] EXCEPT !.body = "none", !.deleted = TRUE]
<1>1. m \in Ids /\ m <= lastMessage /\ messages[m] \in Row
  BY ThreadTypes DEF EditMessage, DeleteMessage, ThreadPlaced, OnMessage
<1>2. row \in Row
  <2> HIDE DEF m
  <2> QED BY <1>1 DEF Row
<1>3. /\ messages' = [messages EXCEPT ![m] = row] /\ Ended(t)
      /\ UNCHANGED <<chatAsked, roomType, archived, members, joined, readUpTo, pinned, lastMessage,
                     reactions, calls, chatAsks, stray, ahead>>
  <2>1. CASE EditMessage(t)
    BY <2>1 DEF EditMessage, Rewritten
  <2>2. CASE ~EditMessage(t)
    BY <2>2 DEF DeleteMessage, Rewritten
  <2> QED BY <2>1, <2>2
<1> HIDE DEF m, row
<1>4. messages' \in [Ids -> Row \cup {Nil}] /\ \A n \in Ids : messages[n] \in Row => messages'[n] \in Row
  BY <1>1, <1>2, <1>3, ChatTypes
<1>5. ChatTyped
  BY <1>3, <1>4 DEF ChatTyped, ChatIInv, ChatTypeOK, calls
<1>6. DirectOnce' /\ CallOnce'
  BY <1>3, NoThreadPlaced, ChatQuiet DEF Ended
<1>7. \A n \in Ids : messages'[n] # Nil => n <= lastMessage
  BY <1>1, <1>3, ChatTypes DEF ChatIInv, MarksPlaced
<1>8. /\ SentByMembers' /\ ahead' = ahead /\ lastMessage' = lastMessage
      /\ \A u \in Chatters : readUpTo'[u] <= lastMessage \/ u \in ahead
  BY <1>3 DEF ChatIInv, SentByMembers, MarksPlaced
<1> QED BY <1>3, <1>4, <1>5, <1>6, <1>7, <1>8, ChatEnds

-----------------------------------------------------------------------------
(* The direct conversation and the call *)

\* A step of the direct conversation or the call: the room stays as it is.
LEMMA CallStep ==
  ASSUME ChatIInv, NEW t \in Threads, NEW k \in ThreadRecords, threads' = [threads EXCEPT ![t] = k],
         k = NoThread \/ (k.op = threads[t].op /\ k.who = threads[t].who
                          /\ k.message = threads[t].message /\ k.mark = threads[t].mark),
         UNCHANGED <<chatAsked, room, chatAsks, stray, ahead>>,
         directs' \in Nat, callLogs' \in Nat, callClaimed' \in BOOLEAN, blip' \in BOOLEAN,
         DirectOnce', CallOnce'
  PROVE  ChatIInv'
<1>1. ChatTyped
  BY DEF ChatTyped, ChatIInv, ChatTypeOK, room
<1>2. UNCHANGED <<readUpTo, messages, lastMessage, ahead>>
  BY DEF room
<1>3. /\ k.op # "none" => k.who \in Chatters
      /\ k.op \in {"send"} \cup OnMessage => k.message \in Ids /\ k.message <= lastMessage'
      /\ k.op = "send" => k.mark < k.message \/ k.who \in ahead'
      /\ k.op = "read" => k.mark <= lastMessage' \/ k.who \in ahead'
      /\ k.op \in {"edit", "delete"} => messages'[k.message] \in Row
  <2>1. CASE k = NoThread
    BY <2>1, NoThreadPlaced DEF OnMessage
  <2>2. CASE k # NoThread
    BY <1>2, <2>2, ThreadTypes DEF ThreadPlaced
  <2> QED BY <2>1, <2>2
<1>4. SentByMembers' /\ lastMessage <= lastMessage' /\ ahead \subseteq ahead'
  BY <1>2, ChatTypes DEF ChatIInv, SentByMembers
<1>5. /\ \A u \in Chatters : readUpTo'[u] <= lastMessage' \/ u \in ahead'
      /\ \A m \in Ids : messages'[m] # Nil => m <= lastMessage'
  BY <1>2 DEF ChatIInv, MarksPlaced
<1> QED BY <1>1, <1>2, <1>3, <1>4, <1>5, ChatStep

LEMMA InsertDirectKeeps ==
  ASSUME ChatIInv, NEW t \in Threads, InsertDirect(t) PROVE ChatIInv'
<1> DEFINE k == [threads[t] EXCEPT !.stage = "flushed"]
<1>0. k \in ThreadRecords /\ k.op = "direct" /\ k.stage = "flushed" /\ k.who = threads[t].who
      /\ k.message = threads[t].message /\ k.mark = threads[t].mark /\ threads[t].op = "direct"
  BY ThreadTypes DEF InsertDirect, ThreadRecords
<1>1. UNCHANGED <<chatAsked, room, chatAsks, stray, ahead>> /\ UNCHANGED calls
  BY DEF InsertDirect
<1>2. directs' \in Nat /\ callLogs' \in Nat /\ callClaimed' \in BOOLEAN /\ blip' \in BOOLEAN
  BY <1>1 DEF ChatIInv, ChatTypeOK, calls
<1>3. CASE directs > 0
  <2>1. threads' = [threads EXCEPT ![t] = NoThread]
    BY <1>3 DEF InsertDirect, Ended
  <2>2. DirectOnce' /\ CallOnce'
    BY <1>1, <2>1, NoThreadPlaced, ChatQuiet
  <2> QED BY <1>1, <1>2, <2>1, <2>2, NoThreadPlaced, CallStep
<1>4. CASE ~(directs > 0)
  <2>1. threads' = [threads EXCEPT ![t] = k]
    BY <1>4 DEF InsertDirect
  <2> HIDE DEF k
  <2>2. \A e \in Threads : threads'[e] = IF e = t THEN k ELSE threads[e]
    BY <2>1, ChatTypes
  <2>3. directs = 0 /\ directs' = 0
    BY <1>1, <1>4, ChatTypes DEF calls
  <2>4. \A e \in Threads : Inserting(e)' => e = t
    BY <2>2 DEF InsertDirect, Inserting
  <2>5. DirectOnce'
    BY <2>3, <2>4 DEF DirectOnce
  <2>6. \A e \in Threads : threads'[e].stage = "claimed" => threads[e].stage = "claimed"
    BY <1>0, <2>2
  <2>7. CallOnce'
    BY <1>1, <2>6 DEF ChatIInv, CallOnce, calls
  <2> QED BY <1>0, <1>1, <1>2, <2>1, <2>5, <2>7, CallStep
<1> QED BY <1>3, <1>4

LEMMA CommitDirectKeeps ==
  ASSUME ChatIInv, NEW t \in Threads, CommitDirect(t) PROVE ChatIInv'
<1>1. /\ Inserting(t) /\ directs' = directs + 1 /\ threads' = [threads EXCEPT ![t] = NoThread]
      /\ UNCHANGED <<chatAsked, room, callClaimed, callLogs, blip, chatAsks, stray, ahead>>
  BY DEF CommitDirect, Inserting, Ended
<1>2. \A e \in Threads : threads'[e] = IF e = t THEN NoThread ELSE threads[e]
  BY <1>1, ChatTypes
<1>3. \A e \in Threads : Inserting(e)' => Inserting(e) /\ e # t
  BY <1>2, NoThreadPlaced DEF Inserting
<1>4. \A e \in Threads : threads'[e].stage = "claimed" => threads[e].stage = "claimed"
  BY <1>2, NoThreadPlaced
<1>5. directs' = 1
  BY <1>1 DEF ChatIInv, DirectOnce
<1>6. DirectOnce'
  BY <1>1, <1>3, <1>5 DEF ChatIInv, DirectOnce
<1>7. CallOnce'
  BY <1>1, <1>4 DEF ChatIInv, CallOnce
<1>8. directs' \in Nat /\ callLogs' \in Nat /\ callClaimed' \in BOOLEAN /\ blip' \in BOOLEAN
  BY <1>1, <1>5 DEF ChatIInv, ChatTypeOK
<1> QED BY <1>1, <1>6, <1>7, <1>8, NoThreadPlaced, CallStep

LEMMA ClaimCallKeeps ==
  ASSUME ChatIInv, NEW t \in Threads, ClaimCall(t) PROVE ChatIInv'
<1> DEFINE k == [threads[t] EXCEPT !.stage = "claimed"]
<1>0. k \in ThreadRecords /\ k.op = "end_call" /\ k.stage = "claimed" /\ k.who = threads[t].who
      /\ k.message = threads[t].message /\ k.mark = threads[t].mark /\ threads[t].op = "end_call"
  BY ThreadTypes DEF ClaimCall, ThreadRecords
<1>1. /\ threads' = [threads EXCEPT ![t] = NoThread] \/ threads' = [threads EXCEPT ![t] = k]
      /\ ~blip' => /\ ~blip /\ callClaimed'
                   /\ threads' # [threads EXCEPT ![t] = NoThread] => ~callClaimed
      /\ callClaimed' \in BOOLEAN /\ blip' \in BOOLEAN
      /\ UNCHANGED <<chatAsked, room, directs, callLogs, chatAsks, stray, ahead>>
  BY DEF ClaimCall, Ended, ChatIInv, ChatTypeOK
<1> HIDE DEF k
<1>2. PICK j \in {NoThread, k} : threads' = [threads EXCEPT ![t] = j]
  BY <1>1
<1>3. \A e \in Threads : threads'[e] = IF e = t THEN j ELSE threads[e]
  BY <1>2, ChatTypes
<1>4. \A e \in Threads : Inserting(e)' => Inserting(e)
  BY <1>0, <1>3, NoThreadPlaced DEF Inserting
<1>5. DirectOnce'
  BY <1>1, <1>4 DEF ChatIInv, DirectOnce
<1>6. CallOnce'
  <2> SUFFICES ASSUME ~blip' PROVE CallOnce'
    BY DEF CallOnce
  <2>1. ~blip /\ callClaimed' /\ callLogs' = callLogs
    BY <1>1
  <2>2. CASE j = NoThread
    <3>1. \A e \in Threads : threads'[e].stage = "claimed" => threads[e].stage = "claimed"
      BY <1>3, <2>2, NoThreadPlaced
    <3> QED BY <2>1, <3>1 DEF ChatIInv, CallOnce
  <2>3. CASE j # NoThread
    <3>1. ~callClaimed
      <4>1. threads'[t] = k /\ k # NoThread
        BY <1>2, <1>3, <2>3
      <4>2. [threads EXCEPT ![t] = NoThread][t] = NoThread
        BY ChatTypes
      <4> QED BY <1>1, <4>1, <4>2
    <3>2. \A e \in Threads : threads[e].stage # "claimed"
      BY <2>1, <3>1 DEF ChatIInv, CallOnce
    <3>3. callLogs = 0
      BY <2>1, <3>1, ChatTypes DEF ChatIInv, CallOnce
    <3>4. \A e \in Threads : threads'[e].stage = "claimed" => e = t
      BY <1>3, <3>2
    <3> QED BY <2>1, <3>3, <3>4 DEF CallOnce
  <2> QED BY <2>2, <2>3
<1>7. directs' \in Nat /\ callLogs' \in Nat
  BY <1>1, ChatTypes
<1> QED BY <1>0, <1>1, <1>2, <1>5, <1>6, <1>7, NoThreadPlaced, CallStep

LEMMA LogCallKeeps ==
  ASSUME ChatIInv, NEW t \in Threads, LogCall(t) PROVE ChatIInv'
<1>1. /\ threads[t].stage = "claimed" /\ callLogs' = callLogs + 1
      /\ threads' = [threads EXCEPT ![t] = NoThread]
      /\ UNCHANGED <<chatAsked, room, directs, callClaimed, blip, chatAsks, stray, ahead>>
  BY DEF LogCall, Ended
<1>2. \A e \in Threads : threads'[e] = IF e = t THEN NoThread ELSE threads[e]
  BY <1>1, ChatTypes
<1>3. \A e \in Threads : /\ Inserting(e)' => Inserting(e)
                         /\ threads'[e].stage = "claimed" => threads[e].stage = "claimed" /\ e # t
  BY <1>2, NoThreadPlaced DEF Inserting
<1>4. DirectOnce'
  BY <1>1, <1>3 DEF ChatIInv, DirectOnce
<1>5. CallOnce'
  <2> SUFFICES ASSUME ~blip PROVE CallOnce'
    BY <1>1 DEF CallOnce
  <2>1. callClaimed /\ callLogs = 0 /\ \A e \in Threads : threads[e].stage = "claimed" => e = t
    BY <1>1 DEF ChatIInv, CallOnce
  <2> QED BY <1>1, <1>3, <2>1 DEF CallOnce
<1>6. callLogs' \in Nat /\ directs' \in Nat /\ callClaimed' \in BOOLEAN /\ blip' \in BOOLEAN
  BY <1>1, ChatTypes DEF ChatIInv, ChatTypeOK
<1> QED BY <1>1, <1>4, <1>5, <1>6, NoThreadPlaced, CallStep

-----------------------------------------------------------------------------
LEMMA ChatInitInv == ChatInit => ChatIInv
<1> SUFFICES ASSUME ChatInit PROVE ChatIInv
  OBVIOUS
<1>1. NoThread.mark = 0 /\ 0 \in Marks /\ 0 \in 0..LastMessage /\ 0 \in 0..MaxChatAsks
  BY ChatAssumption, MarksAreNaturals DEF NoThread
<1>2. threads \in [Threads -> ThreadRecords] /\ \A t \in Threads : threads[t] = NoThread
  BY NoThreadPlaced DEF ChatInit
<1>3. ChatTypeOK
  BY <1>1, <1>2, NoThreadPlaced DEF ChatInit, ChatTypeOK
<1>4. \A t \in Threads : ThreadPlaced(threads[t])
  BY <1>2, NoThreadPlaced DEF ThreadPlaced, OnMessage
<1>5. MarksPlaced /\ SentByMembers
  BY DEF ChatInit, MarksPlaced, SentByMembers
<1>6. DirectOnce /\ CallOnce
  BY <1>2, NoThreadPlaced DEF ChatInit, DirectOnce, CallOnce, Inserting
<1> QED BY <1>2, <1>3, <1>4, <1>5, <1>6 DEF ChatIInv

LEMMA ChatNextInv == ChatIInv /\ [ChatNext]_chatVars => ChatIInv'
<1> SUFFICES ASSUME ChatIInv, [ChatNext]_chatVars PROVE ChatIInv'
  OBVIOUS
<1>1. ASSUME NEW t \in Threads, NEW u \in Chatters, NEW v \in Chatters,
             AskAdd(t, u, v) \/ AskRemove(t, u, v) PROVE ChatIInv'
  BY <1>1, AskRoomKeeps DEF AskAdd, AskRemove
<1>2. ASSUME NEW t \in Threads, NEW u \in Chatters, NEW m \in Ids,
             AskEdit(t, u, m) \/ AskDelete(t, u, m) \/ AskReact(t, u, m)
      PROVE  ChatIInv'
  BY <1>2, AskMessageKeeps DEF AskEdit, AskDelete, AskReact, OnMessage
<1>8. ASSUME NEW t \in Threads, NEW u \in Chatters, NEW mark \in ClientMarks, AskRead(t, u, mark)
      PROVE  ChatIInv'
  BY <1>8, AskReadKeeps
<1>3. ASSUME NEW t \in Threads, NEW u \in Chatters,
             AskUpdate(t, u) \/ AskPin(t, u) \/ AskJoin(t, u) \/ AskSend(t, u) \/ AskDirect(t, u)
               \/ AskEndCall(t, u)
      PROVE  ChatIInv'
  BY <1>3, AskRoomKeeps, AskPlainKeeps, AskSendKeeps DEF AskUpdate, AskPin
<1>4. ASSUME NEW t \in Threads,
             AddMember(t) \/ RemoveMember(t) \/ UpdateConversation(t) \/ SetPinned(t)
               \/ React(t) \/ ThreadFails(t)
      PROVE  ChatIInv'
  BY <1>4, AddMemberKeeps, RemoveMemberKeeps, ChatAsideKeeps
<1>5. ASSUME NEW t \in Threads,
             CommitSend(t) \/ MarkRead(t) \/ EditMessage(t) \/ DeleteMessage(t)
      PROVE  ChatIInv'
  BY <1>5, CommitSendKeeps, MarkReadKeeps, RewrittenKeeps
<1>6. ASSUME NEW t \in Threads,
             InsertDirect(t) \/ CommitDirect(t) \/ ClaimCall(t) \/ LogCall(t)
      PROVE  ChatIInv'
  BY <1>6, InsertDirectKeeps, CommitDirectKeeps, ClaimCallKeeps, LogCallKeeps
<1>7. CASE UNCHANGED chatVars
  BY <1>7 DEF chatVars, ChatIInv, ChatTypeOK, ThreadPlaced, MarksPlaced, DirectOnce, CallOnce,
              Inserting, SentByMembers
<1> QED BY <1>1, <1>2, <1>3, <1>4, <1>5, <1>6, <1>7, <1>8 DEF ChatNext

\* The invariant behind the two theorems on the chat: every message is below the last id
\* given, and so is every mark but those of users who asked for more, whose sends need not
\* update their membership; one handler at most is about to insert a row there may be one of.
THEOREM ChatInductive == ChatSpec => []ChatIInv
<1>1. ChatIInv /\ [ChatNext]_chatVars => ChatIInv'
  BY ChatNextInv
<1> QED BY ChatInitInv, <1>1, PTL DEF ChatSpec

\* No message of somebody who was removed appears after the removal, unless the user had asked
\* to mark ids that were not given yet: the send that was under way updates the mark of its
\* sender, who is gone.  (send_message, remove_member, mark_read.)
THEOREM MembersSend == ChatSpec => []SentByMembers
<1>1. ChatIInv => SentByMembers
  BY DEF ChatIInv
<1> QED BY ChatInductive, <1>1, PTL

\* Two users have one direct conversation, and a call one entry in their history unless
\* Redis failed, however their requests race.  (get_or_create_direct, call_end.)
THEOREM OneRowPerRace == ChatSpec => []RacersInsertOnce
<1>1. ChatIInv => RacersInsertOnce
  BY DEF ChatIInv, DirectOnce, CallOnce, RacersInsertOnce, OneDirectPerPair, OneEntryPerCall
<1> QED BY ChatInductive, <1>1, PTL

-----------------------------------------------------------------------------
(* Presence *)

\* A socket holds a root from its increment there to its decrement.
Online(s, r) ==
    /\ ScopeOf[s] # Nil /\ r \in ScopeOf[s]
    /\ \/ phase[s] = "joining" /\ r \notin todo[s]
       \/ phase[s] = "open"
       \/ phase[s] = "leaving" /\ r \in todo[s]

OnlineAs(r, u) == {s \in Sockets : UserOf[s] = u /\ Online(s, r)}

ClearedBy(r, u) == {s \in Sockets : UserOf[s] = u /\ clearing[s] = r}

\* A socket has a presence loop while it joins or leaves, over the roots of its scope.
SocketStands(s) ==
    /\ phase[s] \in {"joining", "leaving"} => ScopeOf[s] # Nil
    /\ todo[s] # {} => phase[s] \in {"joining", "leaving"} /\ todo[s] \subseteq ScopeOf[s]
    /\ clearing[s] # Nil => phase[s] = "leaving" /\ clearing[s] \in ScopeOf[s]

\* A counter is no more than those who hold it, and one that is used up is about to go.
Counted(r, u) ==
    count[r][u] # Nil /\ <<r, u>> \notin lost =>
        /\ count[r][u] <= Cardinality(OnlineAs(r, u))
        /\ count[r][u] <= 0 => ClearedBy(r, u) # {}

HubIInv ==
    /\ HubTypeOK
    /\ count \in [Roots -> [Users -> Int \cup {Nil}]]
    /\ inbox \in [Workers -> Seq(HubEvents)]
    /\ \A s \in Sockets : SocketStands(s)
    /\ \A r \in Roots, u \in Users : Counted(r, u)

LEMMA HubTypes ==
  ASSUME HubIInv
  PROVE  /\ phase \in [Sockets -> Phases] /\ connections \subseteq Sockets
         /\ todo \in [Sockets -> SUBSET Roots] /\ news \in [Sockets -> SUBSET Roots]
         /\ clearing \in [Sockets -> Roots \cup {Nil}]
         /\ queue \in [Sockets -> 0..MaxQueued] /\ count \in [Roots -> [Users -> Int \cup {Nil}]]
         /\ alive \subseteq Workers /\ channel \in [Workers -> {"none", "on", "broken"}]
         /\ inbox \in [Workers -> Seq(HubEvents)] /\ unsent \subseteq Emitted
         /\ faults \in 0..MaxFaults /\ lost \subseteq Roots \X Users
BY DEF HubIInv, HubTypeOK

LEMMA HubConstants ==
  /\ \A s \in Sockets : WorkerOf[s] \in Workers /\ UserOf[s] \in Users
  /\ \A s \in Sockets : ScopeOf[s] # Nil => ScopeOf[s] \subseteq Roots
  /\ MaxQueued \in Nat /\ MaxFaults \in Nat /\ Nil \notin Roots
  /\ Emitted \subseteq HubEvents
BY HubAssumption DEF Users, Roots, HubEvents

\* The two halves of a step's types: what presence is made of, and what events are.
PresenceTyped ==
    /\ phase' \in [Sockets -> Phases] /\ connections' \subseteq Sockets
    /\ todo' \in [Sockets -> SUBSET Roots] /\ news' \in [Sockets -> SUBSET Roots]
    /\ clearing' \in [Sockets -> Roots \cup {Nil}]
    /\ count' \in [Roots -> [Users -> Int \cup {Nil}]]
    /\ lost' \subseteq Roots \X Users

EventsTyped ==
    /\ queue' \in [Sockets -> 0..MaxQueued] /\ inbox' \in [Workers -> Seq(HubEvents)]
    /\ unsent' \subseteq Emitted /\ alive' \subseteq Workers
    /\ channel' \in [Workers -> {"none", "on", "broken"}] /\ faults' \in 0..MaxFaults

LEMMA HubTyped ==
  ASSUME PresenceTyped, EventsTyped,
         \A s \in Sockets : SocketStands(s)', \A r \in Roots, u \in Users : Counted(r, u)'
  PROVE  HubIInv'
<1>1. \A r \in Roots, u \in Users : count'[r][u] = Nil \/ count'[r][u] \in Int
  BY DEF PresenceTyped
<1>2. \A w \in Workers : inbox'[w] \in Seq(HubEvents)
  BY DEF EventsTyped
<1>3. HubTypeOK'
  BY <1>1, <1>2 DEF PresenceTyped, EventsTyped, HubTypeOK
<1> QED BY <1>3 DEF HubIInv, PresenceTyped, EventsTyped

LEMMA UnpaidNothing ==
  ASSUME HubIInv, NEW s \in Sockets
  PROVE  /\ Unpaid(s) \subseteq Roots
         /\ Unpaid(s) = {} => todo[s] = {} /\ clearing[s] = Nil
<1>1. todo[s] \subseteq Roots /\ clearing[s] \in Roots \cup {Nil} /\ Nil \notin Roots
  BY HubTypes, HubConstants
<1>2. Unpaid(s) = (todo[s] \cup {clearing[s]}) \ {Nil}
  BY DEF Unpaid
<1> QED BY <1>1, <1>2

LEMMA SameSocket ==
  ASSUME NEW s \in Sockets, phase'[s] = phase[s], todo'[s] = todo[s], clearing'[s] = clearing[s]
  PROVE  /\ SocketStands(s) => SocketStands(s)'
         /\ \A r \in Roots : Online(s, r)' <=> Online(s, r)
BY DEF SocketStands, Online

\* Nobody leaves a counter, nor gives up to delete it, unless that is lost.
Kept(r, u) ==
    <<r, u>> \notin lost' => \A s \in Sockets : UserOf[s] = u =>
        (Online(s, r) => Online(s, r)') /\ (clearing[s] = r => clearing'[s] = r)

\* A counter that nobody moves stays covered while nobody leaves it.
LEMMA CountedStays ==
  ASSUME HubIInv, NEW r \in Roots, NEW u \in Users, count'[r][u] = count[r][u],
         lost \subseteq lost', Kept(r, u)
  PROVE  Counted(r, u)'
<1> SUFFICES ASSUME count[r][u] # Nil, <<r, u>> \notin lost'
             PROVE  /\ count[r][u] <= Cardinality(OnlineAs(r, u)')
                    /\ count[r][u] <= 0 => ClearedBy(r, u)' # {}
  BY DEF Counted
<1>1. Counted(r, u) /\ <<r, u>> \notin lost
  BY DEF HubIInv
<1>2. OnlineAs(r, u) \subseteq OnlineAs(r, u)' /\ ClearedBy(r, u) \subseteq ClearedBy(r, u)'
  BY DEF OnlineAs, ClearedBy, Kept
<1>3. OnlineAs(r, u)' \subseteq Sockets
  BY DEF OnlineAs
<1>4. IsFiniteSet(OnlineAs(r, u)')
  BY <1>3, HubAssumption, FS_Subset
<1>5. /\ Cardinality(OnlineAs(r, u)) <= Cardinality(OnlineAs(r, u)')
      /\ Cardinality(OnlineAs(r, u)) \in Nat /\ Cardinality(OnlineAs(r, u)') \in Nat
  BY <1>2, <1>4, FS_Subset, FS_CardinalityType
<1>6. count[r][u] \in Int
  BY HubTypes
<1> QED BY <1>1, <1>2, <1>5, <1>6 DEF Counted

\* Steps of one socket that touch no counter.
LEMMA SocketStep ==
  ASSUME HubIInv, PresenceTyped, EventsTyped, NEW s \in Sockets,
         count' = count, lost' = lost,
         \A t \in Sockets : t # s =>
            phase'[t] = phase[t] /\ todo'[t] = todo[t] /\ clearing'[t] = clearing[t],
         SocketStands(s)',
         \A r \in Roots : (Online(s, r) => Online(s, r)') /\ (clearing[s] = r => clearing'[s] = r)
  PROVE  HubIInv'
<1>1. \A t \in Sockets : SocketStands(t)'
  BY SameSocket DEF HubIInv
<1>2. ASSUME NEW r \in Roots, NEW u \in Users PROVE Counted(r, u)'
  <2>1. ASSUME NEW t \in Sockets
        PROVE  (Online(t, r) => Online(t, r)') /\ (clearing[t] = r => clearing'[t] = r)
    BY <2>1, SameSocket
  <2>2. Kept(r, u)
    BY <2>1 DEF Kept
  <2> QED BY <2>2, CountedStays
<1> QED BY <1>1, <1>2, HubTyped

\* Steps that touch no socket's presence.
LEMMA EventStep ==
  ASSUME HubIInv, EventsTyped, UNCHANGED <<phase, todo, clearing, count, lost>>,
         connections' \subseteq Sockets, news' \in [Sockets -> SUBSET Roots]
  PROVE  HubIInv'
<1>1. PresenceTyped
  BY HubTypes DEF PresenceTyped
<1>2. \A t \in Sockets : SocketStands(t)'
  BY SameSocket DEF HubIInv
<1>3. ASSUME NEW r \in Roots, NEW u \in Users PROVE Counted(r, u)'
  <2>1. ASSUME NEW t \in Sockets
        PROVE  (Online(t, r) => Online(t, r)') /\ (clearing[t] = r => clearing'[t] = r)
    BY <2>1, SameSocket
  <2>2. Kept(r, u)
    BY <2>1 DEF Kept
  <2> QED BY <2>2, CountedStays
<1> QED BY <1>1, <1>2, <1>3, HubTyped

LEMMA DeliveredTyped ==
  ASSUME HubIInv, NEW w, NEW e PROVE Delivered(w, e) \in [Sockets -> 0..MaxQueued]
<1> SUFFICES ASSUME NEW s \in Sockets, queue[s] < MaxQueued PROVE queue[s] + 1 \in 0..MaxQueued
  BY HubTypes DEF Delivered
<1> QED BY HubTypes, HubConstants

LEMMA FaultTyped ==
  ASSUME HubIInv, Fault PROVE faults' \in 0..MaxFaults
BY HubTypes, HubConstants DEF Fault

LEMMA Published ==
  ASSUME HubIInv, NEW w, NEW e \in HubEvents, Publish(w, e)
  PROVE  /\ inbox' \in [Workers -> Seq(HubEvents)] /\ queue' \in [Sockets -> 0..MaxQueued]
         /\ faults' \in 0..MaxFaults
<1> DEFINE sent == [v \in Workers |-> IF channel[v] = "on" THEN Append(inbox[v], e) ELSE inbox[v]]
<1>1. sent \in [Workers -> Seq(HubEvents)]
  <2> SUFFICES ASSUME NEW v \in Workers PROVE Append(inbox[v], e) \in Seq(HubEvents) /\ inbox[v] \in Seq(HubEvents)
    OBVIOUS
  <2>1. inbox[v] \in Seq(HubEvents)
    BY HubTypes
  <2> QED BY <2>1
<1>2. inbox' \in {inbox, sent}
  BY DEF Publish
<1>3. queue' \in {queue} \cup {Delivered(w, e)} /\ (Fault \/ faults' = faults)
  BY DEF Publish
<1> HIDE DEF sent
<1> QED BY <1>1, <1>2, <1>3, DeliveredTyped, FaultTyped, HubTypes

LEMMA EmitKeeps ==
  ASSUME HubIInv, NEW w \in Workers, NEW e \in unsent, Emit(w, e) PROVE HubIInv'
<1>1. /\ unsent' = unsent \ {e} /\ Publish(w, e)
      /\ UNCHANGED <<phase, connections, todo, news, clearing, count, lost, alive, channel>>
  BY DEF Emit, presence
<1>2. e \in HubEvents
  BY HubTypes, HubConstants
<1>3. EventsTyped
  BY <1>1, <1>2, Published, HubTypes DEF EventsTyped
<1> QED BY <1>1, <1>3, HubTypes, EventStep

LEMMA AnnounceKeeps ==
  ASSUME HubIInv, NEW s \in Sockets, NEW r \in Roots, Announce(s, r) PROVE HubIInv'
<1> DEFINE e == Presence(r, UserOf[s], IF phase[s] = "joining" THEN "on" ELSE "off")
<1>1. /\ news' = [news EXCEPT ![s] = news[s] \ {r}] /\ Publish(WorkerOf[s], e)
      /\ UNCHANGED <<phase, connections, todo, clearing, count, lost, alive, channel, unsent>>
  BY DEF Announce
<1>2. e \in HubEvents
  BY HubConstants DEF HubEvents
<1> HIDE DEF e
<1>3. EventsTyped
  BY <1>1, <1>2, Published, HubTypes DEF EventsTyped
<1>4. news' \in [Sockets -> SUBSET Roots]
  BY <1>1, HubTypes
<1> QED BY <1>1, <1>3, <1>4, HubTypes, EventStep

LEMMA PumpKeeps ==
  ASSUME HubIInv, NEW s \in Sockets, Pump(s) PROVE HubIInv'
<1>1. /\ queue[s] > 0 /\ queue' = [queue EXCEPT ![s] = queue[s] - 1]
      /\ UNCHANGED <<phase, connections, todo, news, clearing, count, lost, alive, channel,
                     inbox, unsent, faults>>
  BY DEF Pump, presence
<1>2. queue[s] - 1 \in 0..MaxQueued
  BY <1>1, HubTypes, HubConstants
<1>3. EventsTyped
  BY <1>1, <1>2, HubTypes DEF EventsTyped
<1> QED BY <1>1, <1>3, HubTypes, EventStep

LEMMA WorkerKeeps ==
  ASSUME HubIInv, NEW w \in Workers, SubscriberTurn(w) \/ Break(w) \/ Restart(w)
  PROVE  HubIInv'
<1>1. UNCHANGED <<phase, connections, todo, news, clearing, count, lost>>
  BY DEF SubscriberTurn, Subscribe, Poll, Reset, Break, Restart, hub, presence
<1>2. ASSUME Poll(w) PROVE EventsTyped
  <2>1. /\ inbox[w] # <<>> /\ queue' = Delivered(w, Head(inbox[w]))
        /\ inbox' = [inbox EXCEPT ![w] = Tail(inbox[w])]
        /\ UNCHANGED <<unsent, alive, channel, faults>>
    BY <1>2 DEF Poll
  <2>2. inbox[w] \in Seq(HubEvents)
    BY HubTypes
  <2>3. Tail(inbox[w]) \in Seq(HubEvents)
    BY <2>1, <2>2
  <2> QED BY <2>1, <2>3, HubTypes, DeliveredTyped DEF EventsTyped
<1>3. ASSUME Break(w) PROVE EventsTyped
  BY <1>3, HubTypes, FaultTyped DEF Break, EventsTyped
<1>4. ASSUME Subscribe(w) \/ Reset(w) \/ Restart(w) PROVE EventsTyped
  BY <1>4, HubTypes DEF Subscribe, Reset, Restart, events, EventsTyped
<1>5. EventsTyped
  BY <1>2, <1>3, <1>4 DEF SubscriberTurn
<1> QED BY <1>1, <1>5, HubTypes, EventStep

LEMMA EventsAlike ==
  ASSUME HubIInv, UNCHANGED <<queue, inbox, unsent, alive, channel>>, faults' \in 0..MaxFaults
  PROVE  EventsTyped
BY HubTypes DEF EventsTyped

LEMMA RegisterKeeps ==
  ASSUME HubIInv, NEW s \in Sockets, Register(s) PROVE HubIInv'
<1>1. /\ phase[s] = "new" /\ phase' \in {[phase EXCEPT ![s] = "over"], [phase EXCEPT ![s] = "registered"]}
      /\ connections' \in {connections, connections \cup {s}}
      /\ UNCHANGED <<todo, news, clearing, count, lost, queue, inbox, unsent, alive, channel, faults>>
  BY DEF Register, At, To, presence, events
<1>2. /\ phase' \in [Sockets -> Phases] /\ phase'[s] \in {"over", "registered"}
      /\ \A t \in Sockets : t # s => phase'[t] = phase[t]
  BY <1>1, HubTypes DEF Phases
<1>3. PresenceTyped /\ EventsTyped
  BY <1>1, <1>2, HubTypes, EventsAlike DEF PresenceTyped
<1>4. SocketStands(s)'
  BY <1>1, <1>2 DEF HubIInv, SocketStands
<1>5. \A r \in Roots : ~Online(s, r)
  BY <1>1 DEF Online
<1> QED BY <1>1, <1>2, <1>3, <1>4, <1>5, SocketStep

LEMMA AcceptFailsKeeps ==
  ASSUME HubIInv, NEW s \in Sockets, AcceptFails(s) PROVE HubIInv'
<1>1. /\ phase[s] = "registered" /\ phase' = [phase EXCEPT ![s] = "over"]
      /\ UNCHANGED <<connections, todo, news, clearing, count, lost, queue, inbox, unsent,
                     alive, channel, faults>>
  BY DEF AcceptFails, At, To, presence, events
<1>2. /\ phase' \in [Sockets -> Phases] /\ phase'[s] = "over"
      /\ \A t \in Sockets : t # s => phase'[t] = phase[t]
  BY <1>1, HubTypes DEF Phases
<1>3. PresenceTyped /\ EventsTyped
  BY <1>1, <1>2, HubTypes, EventsAlike DEF PresenceTyped
<1>4. SocketStands(s)'
  BY <1>1, <1>2 DEF HubIInv, SocketStands
<1>5. \A r \in Roots : ~Online(s, r)
  BY <1>1 DEF Online
<1> QED BY <1>1, <1>2, <1>3, <1>4, <1>5, SocketStep

LEMMA AcceptKeeps ==
  ASSUME HubIInv, NEW s \in Sockets, Accept(s) PROVE HubIInv'
<1> DEFINE where == IF ScopeOf[s] = Nil THEN "open" ELSE "joining"
           due == IF ScopeOf[s] = Nil THEN {} ELSE ScopeOf[s]
<1>1. /\ phase[s] = "registered" /\ phase' = [phase EXCEPT ![s] = where]
      /\ todo' = [todo EXCEPT ![s] = due]
      /\ UNCHANGED <<connections, news, clearing, count, lost, queue, inbox, unsent,
                     alive, channel, faults>>
  BY DEF Accept, At, To, events
<1>2. where \in {"open", "joining"} /\ due \subseteq Roots
  BY HubConstants
<1>3. /\ phase' \in [Sockets -> Phases] /\ phase'[s] = where
      /\ todo' \in [Sockets -> SUBSET Roots] /\ todo'[s] = due
      /\ \A t \in Sockets : t # s => phase'[t] = phase[t] /\ todo'[t] = todo[t]
  <2> HIDE DEF where, due
  <2> QED BY <1>1, <1>2, HubTypes DEF Phases
<1>4. PresenceTyped /\ EventsTyped
  BY <1>1, <1>3, HubTypes, EventsAlike DEF PresenceTyped
<1>5. clearing[s] = Nil
  BY <1>1 DEF HubIInv, SocketStands
<1>6. SocketStands(s)'
  BY <1>1, <1>3, <1>5 DEF SocketStands
<1>7. \A r \in Roots : ~Online(s, r)
  BY <1>1 DEF Online
<1> QED BY <1>1, <1>3, <1>4, <1>6, <1>7, SocketStep

LEMMA AnnouncedKeeps ==
  ASSUME HubIInv, NEW s \in Sockets, Announced(s) PROVE HubIInv'
<1> DEFINE where == IF phase[s] = "joining" THEN "open" ELSE "over"
<1>1. /\ phase[s] \in {"joining", "leaving"} /\ Unpaid(s) = {}
      /\ phase' = [phase EXCEPT ![s] = where]
      /\ UNCHANGED <<connections, todo, news, clearing, count, lost, queue, inbox, unsent,
                     alive, channel, faults>>
  BY DEF Announced, To, presence, events
<1>2. /\ phase' \in [Sockets -> Phases] /\ phase'[s] = where
      /\ \A t \in Sockets : t # s => phase'[t] = phase[t]
  BY <1>1, HubTypes DEF Phases
<1>3. PresenceTyped /\ EventsTyped
  BY <1>1, <1>2, HubTypes, EventsAlike DEF PresenceTyped
<1>4. todo[s] = {} /\ clearing[s] = Nil
  BY <1>1, UnpaidNothing
<1>5. SocketStands(s)'
  BY <1>1, <1>2, <1>4 DEF SocketStands
<1>6. \A r \in Roots : (Online(s, r) => Online(s, r)') /\ (clearing[s] = r => clearing'[s] = r)
  BY <1>1, <1>2, <1>4 DEF Online
<1> QED BY <1>1, <1>2, <1>3, <1>5, <1>6, SocketStep

LEMMA CloseSocketKeeps ==
  ASSUME HubIInv, NEW s \in Sockets, CloseSocket(s) PROVE HubIInv'
<1> DEFINE where == IF ScopeOf[s] = Nil THEN "over" ELSE "leaving"
           due == IF ScopeOf[s] = Nil THEN {} ELSE ScopeOf[s]
<1>1. /\ phase[s] = "open" /\ phase' = [phase EXCEPT ![s] = where]
      /\ todo' = [todo EXCEPT ![s] = due] /\ connections' = connections \ {s}
      /\ queue' = [queue EXCEPT ![s] = 0]
      /\ UNCHANGED <<news, clearing, count, lost, alive, channel, inbox, unsent, faults>>
  BY DEF CloseSocket, At, To
<1>2. where \in {"over", "leaving"} /\ due \subseteq Roots
  BY HubConstants
<1>3. /\ phase' \in [Sockets -> Phases] /\ phase'[s] = where
      /\ todo' \in [Sockets -> SUBSET Roots] /\ todo'[s] = due
      /\ \A t \in Sockets : t # s => phase'[t] = phase[t] /\ todo'[t] = todo[t]
  <2> HIDE DEF where, due
  <2> QED BY <1>1, <1>2, HubTypes DEF Phases
<1>4. PresenceTyped
  BY <1>1, <1>3, HubTypes DEF PresenceTyped
<1>5. EventsTyped
  <2>1. 0 \in 0..MaxQueued
    BY HubConstants
  <2> QED BY <2>1, <1>1, HubTypes DEF EventsTyped
<1>6. clearing[s] = Nil
  BY <1>1 DEF HubIInv, SocketStands
<1>7. SocketStands(s)'
  BY <1>1, <1>3, <1>6 DEF SocketStands
<1>8. \A r \in Roots : (Online(s, r) => Online(s, r)') /\ (clearing[s] = r => clearing'[s] = r)
  BY <1>1, <1>3 DEF Online
<1> QED BY <1>1, <1>3, <1>4, <1>5, <1>7, <1>8, SocketStep

\* One counter is written.
CountTo(r, u, n) == count' = [count EXCEPT ![r][u] = n]

LEMMA CountMoved ==
  ASSUME HubIInv, NEW r \in Roots, NEW u \in Users, NEW n \in Int \cup {Nil}, CountTo(r, u, n)
  PROVE  /\ count' \in [Roots -> [Users -> Int \cup {Nil}]] /\ count'[r][u] = n
         /\ \A q \in Roots, v \in Users : q # r \/ v # u => count'[q][v] = count[q][v]
<1> DEFINE row == [count[r] EXCEPT ![u] = n]
<1>1. count' = [count EXCEPT ![r] = row]
  BY HubTypes DEF CountTo
<1>2. count[r] \in [Users -> Int \cup {Nil}]
  BY HubTypes
<1>3. /\ row \in [Users -> Int \cup {Nil}] /\ row[u] = n
      /\ \A v \in Users : v # u => row[v] = count[r][v]
  BY <1>2
<1> HIDE DEF row
<1> QED BY <1>1, <1>3, HubTypes

LEMMA FieldTyped ==
  ASSUME HubIInv, NEW r \in Roots, NEW u \in Users
  PROVE  Field(r, u) \in Int /\ (count[r][u] # Nil => Field(r, u) = count[r][u])
         /\ (count[r][u] = Nil => Field(r, u) = 0)
BY HubTypes DEF Field

\* Steps of one socket that move one counter.
LEMMA CounterStep ==
  ASSUME HubIInv, PresenceTyped, EventsTyped, NEW s \in Sockets, NEW r \in Roots, lost' = lost,
         \A t \in Sockets : t # s =>
            phase'[t] = phase[t] /\ todo'[t] = todo[t] /\ clearing'[t] = clearing[t],
         SocketStands(s)', Counted(r, UserOf[s])',
         \A q \in Roots, v \in Users : q # r \/ v # UserOf[s] => count'[q][v] = count[q][v],
         \A q \in Roots : q # r =>
            (Online(s, q) => Online(s, q)') /\ (clearing[s] = q => clearing'[s] = q)
  PROVE  HubIInv'
<1>1. \A t \in Sockets : SocketStands(t)'
  BY SameSocket DEF HubIInv
<1>2. ASSUME NEW q \in Roots, NEW v \in Users, q # r \/ v # UserOf[s] PROVE Counted(q, v)'
  <2>1. ASSUME NEW t \in Sockets, UserOf[t] = v
        PROVE  (Online(t, q) => Online(t, q)') /\ (clearing[t] = q => clearing'[t] = q)
    <3>1. CASE t = s
      BY <3>1, <2>1, <1>2
    <3>2. CASE t # s
      BY <3>2, SameSocket
    <3> QED BY <3>1, <3>2
  <2>2. count'[q][v] = count[q][v] /\ lost \subseteq lost'
    BY <1>2
  <2>3. Kept(q, v)
    BY <2>1 DEF Kept
  <2> QED BY <2>2, <2>3, CountedStays
<1>3. \A q \in Roots, v \in Users : Counted(q, v)'
  BY <1>2
<1> QED BY <1>1, <1>3, HubTyped

\* An increment by a socket that was not online there.
LEMMA CountedMore ==
  ASSUME HubIInv, NEW s \in Sockets, NEW r \in Roots, lost' = lost, clearing' = clearing,
         \A t \in Sockets : t # s => phase'[t] = phase[t] /\ todo'[t] = todo[t],
         ~Online(s, r), Online(s, r)', count'[r][UserOf[s]] = Field(r, UserOf[s]) + 1
  PROVE  Counted(r, UserOf[s])'
<1> DEFINE u == UserOf[s]
<1>1. u \in Users
  BY HubConstants
<1>2. \A t \in Sockets : t # s => (Online(t, r)' <=> Online(t, r))
  BY SameSocket
<1>3. OnlineAs(r, u)' = OnlineAs(r, u) \cup {s} /\ s \notin OnlineAs(r, u)
  BY <1>2 DEF OnlineAs
<1>4. OnlineAs(r, u) \subseteq Sockets
  BY DEF OnlineAs
<1>5. IsFiniteSet(OnlineAs(r, u))
  BY <1>4, HubAssumption, FS_Subset
<1>6. Cardinality(OnlineAs(r, u)) \in Nat
  BY <1>5, FS_CardinalityType
<1>7. Cardinality(OnlineAs(r, u)') = Cardinality(OnlineAs(r, u)) + 1
  BY <1>3, <1>5, FS_AddElement
<1>8. ClearedBy(r, u)' = ClearedBy(r, u)
  BY DEF ClearedBy
<1>9. Counted(r, u)
  BY <1>1 DEF HubIInv
<1>10. Field(r, u) \in Int /\ (count[r][u] # Nil => Field(r, u) = count[r][u])
       /\ (count[r][u] = Nil => Field(r, u) = 0)
  BY <1>1, FieldTyped
<1> HIDE DEF u
<1>11. <<r, u>> \notin lost =>
         /\ Field(r, u) + 1 <= Cardinality(OnlineAs(r, u)) + 1
         /\ Field(r, u) + 1 <= 0 => ClearedBy(r, u) # {}
  BY <1>6, <1>9, <1>10 DEF Counted
<1>12. count'[r][u] = Field(r, u) + 1
  BY DEF u
<1>13. Counted(r, u)'
  BY <1>7, <1>8, <1>11, <1>12 DEF Counted
<1> QED BY <1>13 DEF u

LEMMA JoinKeeps ==
  ASSUME HubIInv, NEW s \in Sockets, NEW r \in Roots, Join(s, r) PROVE HubIInv'
<1> DEFINE u == UserOf[s]
           told == IF Field(r, UserOf[s]) = 0 THEN news[s] \cup {r} ELSE news[s]
<1>1. /\ phase[s] = "joining" /\ r \in todo[s]
      /\ CountTo(r, u, Field(r, u) + 1)
      /\ todo' = [todo EXCEPT ![s] = todo[s] \ {r}]
      /\ news' = [news EXCEPT ![s] = told]
      /\ UNCHANGED <<phase, connections, clearing, lost, queue, inbox, unsent, alive, channel, faults>>
  BY DEF Join, At, Moved, events, CountTo
<1>2. u \in Users /\ Field(r, u) + 1 \in Int
  BY HubConstants, FieldTyped
<1>3. told \subseteq Roots
  BY HubTypes
<1> HIDE DEF u, told
<1>4. /\ count' \in [Roots -> [Users -> Int \cup {Nil}]] /\ count'[r][u] = Field(r, u) + 1
      /\ \A q \in Roots, v \in Users : q # r \/ v # u => count'[q][v] = count[q][v]
  BY <1>1, <1>2, CountMoved
<1>5. /\ todo' \in [Sockets -> SUBSET Roots] /\ todo'[s] = todo[s] \ {r}
      /\ \A t \in Sockets : t # s => todo'[t] = todo[t]
      /\ news' \in [Sockets -> SUBSET Roots]
  BY <1>1, <1>3, HubTypes
<1>6. PresenceTyped /\ EventsTyped
  BY <1>1, <1>4, <1>5, HubTypes, EventsAlike DEF PresenceTyped
<1>7. SocketStands(s)'
  BY <1>1, <1>5 DEF HubIInv, SocketStands
<1>8. r \in ScopeOf[s] /\ ScopeOf[s] # Nil
  BY <1>1 DEF HubIInv, SocketStands
<1>9. ~Online(s, r) /\ Online(s, r)'
  BY <1>1, <1>5, <1>8 DEF Online
<1>10. Counted(r, UserOf[s])'
  BY <1>1, <1>4, <1>5, <1>9, CountedMore DEF u
<1>11. \A q \in Roots : q # r => (Online(s, q) => Online(s, q)')
  BY <1>1, <1>5 DEF Online
<1> QED BY <1>1, <1>4, <1>5, <1>6, <1>7, <1>10, <1>11, CounterStep DEF u

\* A loop that failed may have moved the counter it was at; the rest counts as held.
LEMMA JoinFailsKeeps ==
  ASSUME HubIInv, NEW s \in Sockets, NEW r \in Roots, JoinFails(s, r) PROVE HubIInv'
<1> DEFINE u == UserOf[s]
<1>1. /\ phase[s] = "joining" /\ r \in todo[s] /\ Fault
      /\ count' = count \/ CountTo(r, u, Field(r, u) + 1)
      /\ todo' = [todo EXCEPT ![s] = {}]
      /\ UNCHANGED <<phase, connections, news, clearing, lost, queue, inbox, unsent, alive, channel>>
  BY DEF JoinFails, At, Moved, events, CountTo
<1>2. u \in Users /\ Field(r, u) + 1 \in Int
  BY HubConstants, FieldTyped
<1> HIDE DEF u
<1>3. /\ count' \in [Roots -> [Users -> Int \cup {Nil}]]
      /\ count' = count \/ count'[r][u] = Field(r, u) + 1
      /\ \A q \in Roots, v \in Users : q # r \/ v # u => count'[q][v] = count[q][v]
  BY <1>1, <1>2, CountMoved, HubTypes
<1>4. /\ todo' \in [Sockets -> SUBSET Roots] /\ todo'[s] = {}
      /\ \A t \in Sockets : t # s => todo'[t] = todo[t]
  BY <1>1, HubTypes
<1>5. PresenceTyped /\ EventsTyped
  BY <1>1, <1>3, <1>4, HubTypes, FaultTyped, EventsAlike DEF PresenceTyped
<1>6. SocketStands(s)'
  BY <1>1, <1>4 DEF HubIInv, SocketStands
<1>7. r \in ScopeOf[s] /\ ScopeOf[s] # Nil
  BY <1>1 DEF HubIInv, SocketStands
<1>8. ~Online(s, r) /\ Online(s, r)'
  BY <1>1, <1>4, <1>7 DEF Online
<1>9. \A q \in Roots : (Online(s, q) => Online(s, q)')
  BY <1>1, <1>4 DEF Online
<1>10. CASE count' = count
  BY <1>10, <1>1, <1>4, <1>5, <1>6, <1>9, SocketStep
<1>11. CASE count'[r][u] = Field(r, u) + 1
  <2>1. Counted(r, UserOf[s])'
    BY <1>1, <1>4, <1>8, <1>11, CountedMore DEF u
  <2> QED BY <2>1, <1>1, <1>3, <1>4, <1>5, <1>6, <1>9, CounterStep DEF u
<1> QED BY <1>3, <1>10, <1>11

\* A decrement leaves a counter that is used up to the delete.
LEMMA PartKeeps ==
  ASSUME HubIInv, NEW s \in Sockets, NEW r \in Roots, Part(s, r) PROVE HubIInv'
<1> DEFINE u == UserOf[s]
           next == IF IsLast(Field(r, UserOf[s]) - 1) THEN r ELSE Nil
<1>1. /\ phase[s] = "leaving" /\ clearing[s] = Nil /\ r \in todo[s]
      /\ CountTo(r, u, Field(r, u) + -1)
      /\ todo' = [todo EXCEPT ![s] = todo[s] \ {r}]
      /\ clearing' = [clearing EXCEPT ![s] = next]
      /\ UNCHANGED <<phase, connections, news, lost, queue, inbox, unsent, alive, channel, faults>>
  BY DEF Part, At, Moved, events, CountTo
<1>2. /\ u \in Users /\ Field(r, u) \in Int /\ (count[r][u] # Nil => Field(r, u) = count[r][u])
      /\ (count[r][u] = Nil => Field(r, u) = 0)
  BY HubConstants, FieldTyped
<1>3. next \in {r, Nil} /\ (Field(r, u) + -1 <= 0 => next = r)
  BY <1>2 DEF IsLast
<1> HIDE DEF u, next
<1>4. Field(r, u) + -1 \in Int
  BY <1>2
<1>5. /\ count' \in [Roots -> [Users -> Int \cup {Nil}]] /\ count'[r][u] = Field(r, u) + -1
      /\ \A q \in Roots, v \in Users : q # r \/ v # u => count'[q][v] = count[q][v]
  BY <1>1, <1>2, <1>4, CountMoved
<1>6. /\ todo' \in [Sockets -> SUBSET Roots] /\ todo'[s] = todo[s] \ {r}
      /\ clearing' \in [Sockets -> Roots \cup {Nil}] /\ clearing'[s] = next
      /\ \A t \in Sockets : t # s => todo'[t] = todo[t] /\ clearing'[t] = clearing[t]
  BY <1>1, <1>3, HubTypes
<1>7. PresenceTyped /\ EventsTyped
  BY <1>1, <1>5, <1>6, HubTypes, EventsAlike DEF PresenceTyped
<1>8. ScopeOf[s] # Nil /\ todo[s] \subseteq ScopeOf[s]
  BY <1>1 DEF HubIInv, SocketStands
<1>9. SocketStands(s)'
  BY <1>1, <1>3, <1>6, <1>8 DEF SocketStands
<1>10. Online(s, r) /\ ~Online(s, r)'
  BY <1>1, <1>6, <1>8 DEF Online
<1>11. \A t \in Sockets : t # s => (Online(t, r)' <=> Online(t, r))
  BY <1>1, <1>6, SameSocket
<1>12. /\ OnlineAs(r, u)' = OnlineAs(r, u) \ {s} /\ s \in OnlineAs(r, u)
  BY <1>10, <1>11 DEF OnlineAs, u
<1>13. OnlineAs(r, u) \subseteq Sockets
  BY DEF OnlineAs
<1>14. IsFiniteSet(OnlineAs(r, u)) /\ IsFiniteSet(OnlineAs(r, u)')
  BY <1>12, <1>13, HubAssumption, FS_Subset, FS_RemoveElement
<1>15. /\ Cardinality(OnlineAs(r, u)) \in Nat /\ Cardinality(OnlineAs(r, u)') \in Nat
       /\ Cardinality(OnlineAs(r, u)') = Cardinality(OnlineAs(r, u)) - 1
  BY <1>12, <1>14, FS_RemoveElement, FS_CardinalityType
<1>16. count'[r][u] <= 0 => ClearedBy(r, u)' # {}
  BY <1>3, <1>5, <1>6 DEF ClearedBy, u
<1>17. Counted(r, u)
  BY <1>2 DEF HubIInv
<1>18. <<r, u>> \notin lost => Field(r, u) + -1 <= Cardinality(OnlineAs(r, u)')
  BY <1>2, <1>15, <1>17 DEF Counted
<1>19. Counted(r, u)'
  BY <1>1, <1>5, <1>16, <1>18 DEF Counted
<1>20. \A q \in Roots : q # r => (Online(s, q) => Online(s, q)')
                                   /\ (clearing[s] = q => clearing'[s] = q)
  BY <1>1, <1>6, HubConstants DEF Online
<1> QED BY <1>1, <1>5, <1>6, <1>7, <1>9, <1>19, <1>20, CounterStep DEF u

LEMMA ClearKeeps ==
  ASSUME HubIInv, NEW s \in Sockets, Clear(s) PROVE HubIInv'
<1> DEFINE u == UserOf[s]
<1>1. PICK r \in Roots : r = clearing[s]
  BY HubTypes DEF Clear
<1>2. /\ phase[s] = "leaving" /\ r # Nil
      /\ CountTo(r, u, Nil)
      /\ clearing' = [clearing EXCEPT ![s] = Nil]
      /\ news' = [news EXCEPT ![s] = news[s] \cup {r}]
      /\ UNCHANGED <<phase, connections, todo, lost, queue, inbox, unsent, alive, channel, faults>>
  BY <1>1 DEF Clear, At, events, CountTo
<1>3. u \in Users /\ r \in Roots
  BY <1>2, HubConstants, HubTypes
<1>4. \A q \in Roots : q # r => clearing[s] # q
  BY <1>1
<1> HIDE DEF u
<1>5. /\ count' \in [Roots -> [Users -> Int \cup {Nil}]] /\ count'[r][u] = Nil
      /\ \A q \in Roots, v \in Users : q # r \/ v # u => count'[q][v] = count[q][v]
  BY <1>2, <1>3, CountMoved
<1>6. /\ clearing' \in [Sockets -> Roots \cup {Nil}] /\ clearing'[s] = Nil
      /\ \A t \in Sockets : t # s => clearing'[t] = clearing[t]
      /\ news' \in [Sockets -> SUBSET Roots]
  BY <1>2, <1>3, HubTypes
<1>7. PresenceTyped /\ EventsTyped
  BY <1>2, <1>5, <1>6, HubTypes, EventsAlike DEF PresenceTyped
<1>8. SocketStands(s)'
  BY <1>2, <1>6 DEF HubIInv, SocketStands
<1>9. Counted(r, UserOf[s])'
  BY <1>5 DEF Counted, u
<1>10. \A q \in Roots : Online(s, q) => Online(s, q)'
  BY <1>2 DEF Online
<1> QED BY <1>2, <1>3, <1>4, <1>5, <1>6, <1>7, <1>8, <1>9, <1>10, CounterStep DEF u

\* What a loop gives up is lost, and so is the counter it was at.
LEMMA PartFailsKeeps ==
  ASSUME HubIInv, NEW s \in Sockets, PartFails(s) PROVE HubIInv'
<1> DEFINE u == UserOf[s]
<1>1. /\ phase[s] = "leaving" /\ Fault
      /\ \/ count' = count
         \/ clearing[s] # Nil /\ CountTo(clearing[s], u, Nil)
         \/ \E r \in todo[s] : CountTo(r, u, Field(r, u) + -1)
      /\ lost' = lost \cup (Unpaid(s) \X {u})
      /\ todo' = [todo EXCEPT ![s] = {}]
      /\ clearing' = [clearing EXCEPT ![s] = Nil]
      /\ UNCHANGED <<phase, connections, news, queue, inbox, unsent, alive, channel>>
  BY DEF PartFails, At, Moved, events, CountTo
<1>2. /\ u \in Users /\ todo[s] \subseteq Roots /\ clearing[s] \in Roots \cup {Nil}
      /\ Unpaid(s) \subseteq Roots /\ todo[s] \subseteq Unpaid(s)
      /\ clearing[s] # Nil => clearing[s] \in Unpaid(s)
  <2>1. u \in Users /\ todo[s] \subseteq Roots /\ clearing[s] \in Roots \cup {Nil} /\ Nil \notin Roots
    BY HubConstants, HubTypes
  <2>2. Unpaid(s) = (todo[s] \cup {clearing[s]}) \ {Nil}
    BY DEF Unpaid
  <2> QED BY <2>1, <2>2
<1>3. /\ count' \in [Roots -> [Users -> Int \cup {Nil}]]
      /\ \A q \in Roots, v \in Users : q \notin Unpaid(s) \/ v # u => count'[q][v] = count[q][v]
  <2> HIDE DEF u
  <2>1. ASSUME clearing[s] # Nil, CountTo(clearing[s], u, Nil)
        PROVE  /\ count' \in [Roots -> [Users -> Int \cup {Nil}]]
               /\ \A q \in Roots, v \in Users : q # clearing[s] \/ v # u => count'[q][v] = count[q][v]
    <3>1. clearing[s] \in Roots
      BY <2>1, <1>2
    <3> QED BY <3>1, <2>1, <1>2, CountMoved
  <2>2. ASSUME NEW r \in todo[s], CountTo(r, u, Field(r, u) + -1)
        PROVE  /\ count' \in [Roots -> [Users -> Int \cup {Nil}]]
               /\ \A q \in Roots, v \in Users : q # r \/ v # u => count'[q][v] = count[q][v]
    <3>1. r \in Roots
      BY <1>2
    <3>2. Field(r, u) + -1 \in Int
      BY <3>1, <1>2, FieldTyped
    <3> QED BY <3>1, <3>2, <2>2, <1>2, CountMoved
  <2>3. CASE count' = count
    BY <2>3, HubTypes
  <2> QED BY <2>1, <2>2, <2>3, <1>1, <1>2
<1>4. lost' \subseteq Roots \X Users
  BY <1>1, <1>2, HubTypes
<1>5. /\ todo' \in [Sockets -> SUBSET Roots] /\ todo'[s] = {}
      /\ clearing' \in [Sockets -> Roots \cup {Nil}] /\ clearing'[s] = Nil
      /\ \A t \in Sockets : t # s => todo'[t] = todo[t] /\ clearing'[t] = clearing[t]
  BY <1>1, HubTypes
<1>6. PresenceTyped /\ EventsTyped
  BY <1>1, <1>3, <1>4, <1>5, HubTypes, FaultTyped, EventsAlike DEF PresenceTyped
<1>7. ASSUME NEW t \in Sockets PROVE SocketStands(t)'
  <2>1. CASE t = s
    BY <2>1, <1>1, <1>5 DEF HubIInv, SocketStands
  <2>2. CASE t # s
    BY <2>2, <1>1, <1>5, SameSocket DEF HubIInv
  <2> QED BY <2>1, <2>2
<1>8. ASSUME NEW q \in Roots, NEW v \in Users PROVE Counted(q, v)'
  <2>1. CASE <<q, v>> \in lost'
    BY <2>1 DEF Counted
  <2>2. CASE <<q, v>> \notin lost'
    <3>1. q \notin Unpaid(s) \/ v # u
      BY <2>2, <1>1
    <3>2. count'[q][v] = count[q][v] /\ lost \subseteq lost'
      BY <3>1, <1>1, <1>3
    <3>3. ASSUME NEW t \in Sockets, UserOf[t] = v
          PROVE  (Online(t, q) => Online(t, q)') /\ (clearing[t] = q => clearing'[t] = q)
      <4>1. CASE t # s
        BY <4>1, <1>1, <1>5, SameSocket
      <4>2. CASE t = s
        <5>1. q \notin todo[s] /\ clearing[s] # q
          BY <4>2, <3>1, <3>3, <1>2, HubConstants
        <5>2. ~Online(s, q)
          BY <5>1, <1>1 DEF Online
        <5> QED BY <5>1, <5>2, <4>2
      <4> QED BY <4>1, <4>2
    <3>4. Kept(q, v)
      BY <3>3 DEF Kept
    <3> QED BY <3>2, <3>4, CountedStays
  <2> QED BY <2>1, <2>2
<1> QED BY <1>6, <1>7, <1>8, HubTyped

\* What the sockets of a worker held when it died is lost.
LEMMA CrashKeeps ==
  ASSUME HubIInv, NEW w \in Workers, Crash(w) PROVE HubIInv'
<1> DEFINE here == {s \in Sockets : WorkerOf[s] = w}
           held(s) == IF phase[s] \in {"joining", "open"} /\ ScopeOf[s] # Nil
                      THEN ScopeOf[s] ELSE Unpaid(s)
<1>1. /\ Fault /\ alive' = alive \ {w}
      /\ phase' = [s \in Sockets |-> IF s \in here /\ phase[s] # "new" THEN "over" ELSE phase[s]]
      /\ connections' = connections \ here
      /\ todo' = [s \in Sockets |-> IF s \in here THEN {} ELSE todo[s]]
      /\ news' = [s \in Sockets |-> IF s \in here THEN {} ELSE news[s]]
      /\ clearing' = [s \in Sockets |-> IF s \in here THEN Nil ELSE clearing[s]]
      /\ queue' = [s \in Sockets |-> IF s \in here THEN 0 ELSE queue[s]]
      /\ lost' = lost \cup UNION {held(s) \X {UserOf[s]} : s \in here}
      /\ channel' = [channel EXCEPT ![w] = "none"] /\ inbox' = [inbox EXCEPT ![w] = <<>>]
      /\ UNCHANGED <<count, unsent>>
  BY DEF Crash
<1>2. \A s \in Sockets : held(s) \subseteq Roots
  BY HubConstants, UnpaidNothing
<1>3. \A s \in here, q \in Roots : Online(s, q) \/ clearing[s] = q => q \in held(s)
  <2> SUFFICES ASSUME NEW s \in here, NEW q \in Roots, Online(s, q) \/ clearing[s] = q
               PROVE  q \in held(s)
    OBVIOUS
  <2>1. SocketStands(s) /\ q # Nil
    BY HubConstants DEF HubIInv
  <2>2. Unpaid(s) = (todo[s] \cup {clearing[s]}) \ {Nil}
    BY DEF Unpaid
  <2> QED BY <2>1, <2>2 DEF Online, SocketStands
<1>4. \A s \in here : \A q \in held(s) : <<q, UserOf[s]>> \in lost'
  BY <1>1
<1>5. here \subseteq Sockets /\ (\A s \in Sockets : s \in here \/ s \notin here)
  OBVIOUS
<1>6. lost' \subseteq Roots \X Users
  <2>1. \A s \in here : held(s) \X {UserOf[s]} \subseteq Roots \X Users
    BY <1>2, HubConstants
  <2> QED BY <2>1, <1>1, HubTypes
<1> HIDE DEF held, here
<1>7. /\ phase' \in [Sockets -> Phases] /\ todo' \in [Sockets -> SUBSET Roots]
      /\ news' \in [Sockets -> SUBSET Roots] /\ clearing' \in [Sockets -> Roots \cup {Nil}]
  BY <1>1, HubTypes DEF Phases
<1>8. PresenceTyped
  BY <1>1, <1>6, <1>7, HubTypes DEF PresenceTyped
<1>9. EventsTyped
  <2>1. 0 \in 0..MaxQueued
    BY HubConstants
  <2>2. <<>> \in Seq(HubEvents)
    OBVIOUS
  <2>3. queue' \in [Sockets -> 0..MaxQueued]
    BY <2>1, <1>1, HubTypes
  <2>4. inbox' \in [Workers -> Seq(HubEvents)]
    BY <2>2, <1>1, HubTypes
  <2> QED BY <2>3, <2>4, <1>1, HubTypes, FaultTyped DEF EventsTyped
<1>10. /\ \A s \in here : todo'[s] = {} /\ clearing'[s] = Nil /\ phase'[s] \in {"new", "over"}
       /\ \A s \in Sockets : s \notin here =>
             phase'[s] = phase[s] /\ todo'[s] = todo[s] /\ clearing'[s] = clearing[s]
  BY <1>1, <1>5
<1>11. ASSUME NEW s \in Sockets PROVE SocketStands(s)'
  <2>1. CASE s \in here
    BY <2>1, <1>10 DEF SocketStands
  <2>2. CASE s \notin here
    BY <2>2, <1>10, SameSocket DEF HubIInv
  <2> QED BY <2>1, <2>2
<1>12. ASSUME NEW q \in Roots, NEW v \in Users PROVE Counted(q, v)'
  <2>1. ASSUME <<q, v>> \notin lost', NEW t \in Sockets, UserOf[t] = v
        PROVE  (Online(t, q) => Online(t, q)') /\ (clearing[t] = q => clearing'[t] = q)
    <3>1. CASE t \in here
      BY <3>1, <2>1, <1>3, <1>4
    <3>2. CASE t \notin here
      BY <3>2, <1>10, SameSocket
    <3> QED BY <3>1, <3>2
  <2>2. count'[q][v] = count[q][v] /\ lost \subseteq lost'
    BY <1>1
  <2>3. Kept(q, v)
    BY <2>1 DEF Kept
  <2> QED BY <2>2, <2>3, CountedStays
<1> QED BY <1>8, <1>9, <1>11, <1>12, HubTyped

LEMMA HubInvInit ==
  ASSUME HubInit PROVE HubIInv
<1>1. /\ \A s \in Sockets : phase[s] = "new" /\ todo[s] = {} /\ clearing[s] = Nil
      /\ \A r \in Roots, u \in Users : count[r][u] = Nil
  BY DEF HubInit
<1>2. 0 \in 0..MaxQueued /\ 0 \in 0..MaxFaults /\ <<>> \in Seq(HubEvents)
  BY HubConstants
<1>3. count \in [Roots -> [Users -> Int \cup {Nil}]] /\ inbox \in [Workers -> Seq(HubEvents)]
  BY <1>2 DEF HubInit
<1>4. queue \in [Sockets -> 0..MaxQueued] /\ faults \in 0..MaxFaults
  BY <1>2 DEF HubInit
<1>5. /\ phase \in [Sockets -> Phases] /\ todo \in [Sockets -> SUBSET Roots]
      /\ news \in [Sockets -> SUBSET Roots] /\ clearing \in [Sockets -> Roots \cup {Nil}]
      /\ channel \in [Workers -> {"none", "on", "broken"}]
  BY DEF HubInit, Phases
<1>6. connections \subseteq Sockets /\ alive \subseteq Workers /\ unsent \subseteq Emitted
      /\ lost \subseteq Roots \X Users
  BY DEF HubInit
<1>7. HubTypeOK
  BY <1>1, <1>3, <1>4, <1>5, <1>6 DEF HubTypeOK
<1>8. \A s \in Sockets : SocketStands(s)
  BY <1>1 DEF SocketStands
<1>9. \A r \in Roots, u \in Users : Counted(r, u)
  BY <1>1 DEF Counted
<1> QED BY <1>3, <1>7, <1>8, <1>9 DEF HubIInv

LEMMA HubInvNext ==
  ASSUME HubIInv, [HubNext]_hubVars PROVE HubIInv'
<1>1. CASE UNCHANGED hubVars
  <2>1. UNCHANGED <<phase, connections, todo, news, clearing, queue, count, alive,
                    channel, inbox, unsent, faults, lost>>
    BY <1>1 DEF hubVars
  <2> QED BY <2>1, HubTypes, EventsAlike, EventStep
<1>2. CASE HubNext
  <2>1. ASSUME NEW s \in Sockets,
               \/ Register(s) \/ Accept(s) \/ AcceptFails(s) \/ Announced(s)
               \/ Pump(s) \/ CloseSocket(s) \/ Clear(s) \/ PartFails(s)
        PROVE  HubIInv'
    BY <2>1, RegisterKeeps, AcceptKeeps, AcceptFailsKeeps, AnnouncedKeeps, PumpKeeps,
       CloseSocketKeeps, ClearKeeps, PartFailsKeeps
  <2>2. ASSUME NEW s \in Sockets, NEW r \in Roots,
               Join(s, r) \/ JoinFails(s, r) \/ Announce(s, r) \/ Part(s, r)
        PROVE  HubIInv'
    BY <2>2, JoinKeeps, JoinFailsKeeps, AnnounceKeeps, PartKeeps
  <2>3. ASSUME NEW w \in Workers,
               SubscriberTurn(w) \/ Break(w) \/ Crash(w) \/ Restart(w)
        PROVE  HubIInv'
    BY <2>3, WorkerKeeps, CrashKeeps
  <2> QED BY <1>2, <2>1, <2>2, <2>3, EmitKeeps DEF HubNext
<1> QED BY <1>1, <1>2

\* What the handlers, their failures and the crashes rest on: a counter is at most the
\* number of sockets that hold it, or one of its steps was lost.
THEOREM PresenceInductive == HubSpec => []HubIInv
BY HubInvInit, HubInvNext, PTL DEF HubSpec

\* Whoever is counted has a socket, or was lost.
LEMMA CountsHaveSockets == HubIInv => NoGhosts
<1>1. ASSUME HubIInv, NEW r \in Roots, NEW u \in Users, count[r][u] # Nil, <<r, u>> \notin lost
      PROVE  \E s \in Sockets :
                /\ UserOf[s] = u /\ ScopeOf[s] # Nil /\ r \in ScopeOf[s]
                /\ phase[s] \in {"joining", "open", "leaving"}
  <2>1. Counted(r, u) /\ count[r][u] \in Int
    BY <1>1, HubTypes DEF HubIInv
  <2>2. CASE OnlineAs(r, u) # {}
    BY <2>2 DEF OnlineAs, Online
  <2>3. CASE OnlineAs(r, u) = {}
    <3>1. Cardinality(OnlineAs(r, u)) = 0
      BY <2>3, FS_EmptySet
    <3>2. count[r][u] <= 0
      BY <3>1, <2>1, <1>1 DEF Counted
    <3>3. PICK s \in Sockets : UserOf[s] = u /\ clearing[s] = r
      BY <3>2, <2>1, <1>1 DEF Counted, ClearedBy
    <3>4. phase[s] = "leaving" /\ r \in ScopeOf[s] /\ ScopeOf[s] # Nil
      BY <3>3, <1>1, HubConstants DEF HubIInv, SocketStands
    <3> QED BY <3>3, <3>4
  <2> QED BY <2>2, <2>3
<1> QED BY <1>1 DEF NoGhosts

\* Who is listed online has a socket on its way in, open or on its way out, unless a
\* decrement or a delete was lost: a counter never exceeds those who hold it, and one
\* that is used up has somebody about to delete it.  (presence_connect,
\* presence_disconnect.)
THEOREM GhostsAreLosses == HubSpec => []NoGhosts
BY CountsHaveSockets, PresenceInductive, PTL

-----------------------------------------------------------------------------
(* Policies and holidays *)

Defaults == {p \in Policies : policies[p].default}

\* A request has a policy, and one that creates says whether it is the default.
RuleStands(call) ==
    /\ call # NoRuleCall => call.policy \in Policies
    /\ call.op = "create" => call.default \in BOOLEAN

\* Who chooses a default with another chooser at its side is not alone.
ChoosersMeet ==
    \A c, d \in RuleCalls :
        c # d /\ Chooses(ruleCalls[c]) /\ Chooses(ruleCalls[d]) => ~ruleCalls[c].alone

\* What a chooser that is alone has read is all there is to clear.
AllCleared ==
    \A c \in RuleCalls :
        LET call == ruleCalls[c] IN
        call.stage = "cleared" /\ Chooses(call) /\ call.alone
        => Defaults \subseteq call.others \cup {call.policy}

DutyIInv ==
    /\ DutyTypeOK
    /\ \A c \in RuleCalls : RuleStands(ruleCalls[c])
    /\ ChoosersMeet /\ AllCleared
    /\ bothDefault \/ \A p, q \in Defaults : p = q
    /\ \A b \in Branches \cup {Nil} : holidays[b] <= 1

RuleRecords == [op : {"none", "create", "update"}, stage : {"none", "read", "cleared"},
                policy : Policies \cup {Nil}, default : BOOLEAN \cup {Nil},
                seen : BOOLEAN, others : SUBSET Policies, alone : BOOLEAN]

LEMMA NoRuleTyped ==
  /\ NoRuleCall \in RuleRecords /\ NoRuleCall.op = "none" /\ NoRuleCall.stage = "none"
  /\ ~Chooses(NoRuleCall)
<1>1. NoRuleCall \in RuleRecords
  BY DEF NoRuleCall, RuleRecords
<1>2. Nil # TRUE
  BY DutyAssumption
<1> QED BY <1>1, <1>2 DEF NoRuleCall, Chooses

LEMMA DutyTypes ==
  ASSUME DutyIInv
  PROVE  /\ policies \in [Policies -> [there : BOOLEAN, default : BOOLEAN]]
         /\ ruleCalls \in [RuleCalls -> RuleRecords]
         /\ holidays \in [Branches \cup {Nil} -> 0..2]
         /\ branches \subseteq Branches /\ ruleCount \in 0..MaxRuleCalls /\ MaxRuleCalls \in Nat
         /\ bothDefault \in BOOLEAN
BY DutyAssumption DEF DutyIInv, DutyTypeOK, RuleRecords

LEMMA DutyInvInit ==
  ASSUME DutyInit PROVE DutyIInv
<1>1. ruleCalls \in [RuleCalls -> RuleRecords] /\ \A c \in RuleCalls : ruleCalls[c] = NoRuleCall
  BY NoRuleTyped DEF DutyInit
<1>2. /\ policies \in [Policies -> [there : BOOLEAN, default : BOOLEAN]]
      /\ \A p \in Policies : policies[p].default = FALSE
  BY DEF DutyInit
<1>3. DutyTypeOK
  <2>1. holidays \in [Branches \cup {Nil} -> 0..2]
    <3>1. 0 \in 0..2
      OBVIOUS
    <3> QED BY <3>1 DEF DutyInit
  <2>2. branches \subseteq Branches /\ bothDefault \in BOOLEAN
    BY DEF DutyInit
  <2>3. ruleCount \in 0..MaxRuleCalls
    BY DutyAssumption DEF DutyInit
  <2> QED BY <1>1, <1>2, <2>1, <2>2, <2>3 DEF DutyTypeOK, RuleRecords
<1>4. Defaults = {}
  BY <1>2 DEF Defaults
<1>5. ChoosersMeet /\ AllCleared
  BY <1>1, <1>4, NoRuleTyped DEF ChoosersMeet, AllCleared
<1>6. \A b \in Branches \cup {Nil} : holidays[b] <= 1
  BY DEF DutyInit
<1>7. \A c \in RuleCalls : RuleStands(ruleCalls[c])
  BY <1>1, NoRuleTyped DEF RuleStands
<1> QED BY <1>3, <1>4, <1>5, <1>6, <1>7 DEF DutyIInv

\* A request that begins takes the solitude of the choosers it meets.
LEMMA BeginPolicyKeeps ==
  ASSUME DutyIInv, NEW c \in RuleCalls, NEW op \in {"create", "update"}, NEW p \in Policies,
         NEW default \in BOOLEAN \cup {Nil}, BeginPolicy(c, op, p, default)
  PROVE  DutyIInv'
<1> DEFINE first == [NoRuleCall EXCEPT !.op = op, !.stage = "read", !.policy = p,
                                       !.default = default, !.seen = policies[p].default]
           rivals == {d \in RuleCalls : Chooses(ruleCalls[d]) /\ Chooses(first)}
           new == [first EXCEPT !.alone = (rivals = {})]
           beside(d) == [ruleCalls[d] EXCEPT !.alone = ruleCalls[d].alone /\ d \notin rivals]
<1>1. /\ ruleCalls[c] = NoRuleCall
      /\ ruleCalls' = [d \in RuleCalls |-> IF d = c THEN new ELSE beside(d)]
      /\ ruleCount < MaxRuleCalls /\ ruleCount' = ruleCount + 1
      /\ UNCHANGED <<policies, bothDefault, holidays, branches>>
  BY DEF BeginPolicy
<1>2. /\ first \in RuleRecords /\ first.stage = "read" /\ first.policy = p
      /\ new \in RuleRecords /\ new.stage = "read" /\ new.policy = p
      /\ new.default = first.default /\ new.alone = (rivals = {})
      /\ new.op = op /\ new.default = default /\ (op = "create" => default \in BOOLEAN)
  <2>1. policies[p].default \in BOOLEAN
    BY DutyTypes
  <2>2. /\ first \in RuleRecords /\ first.stage = "read" /\ first.policy = p
        /\ first.op = op /\ first.default = default
    BY <2>1, NoRuleTyped DEF RuleRecords
  <2> HIDE DEF first, rivals
  <2>3. (rivals = {}) \in BOOLEAN
    OBVIOUS
  <2>4. op = "create" => default \in BOOLEAN
    BY DEF BeginPolicy
  <2> QED BY <2>2, <2>3, <2>4 DEF RuleRecords
<1>3. Chooses(new) <=> Chooses(first)
  BY <1>2 DEF Chooses
<1>4. \A d \in RuleCalls : /\ beside(d) \in RuleRecords
                           /\ beside(d).stage = ruleCalls[d].stage
                           /\ beside(d).policy = ruleCalls[d].policy
                           /\ beside(d).others = ruleCalls[d].others
                           /\ beside(d).default = ruleCalls[d].default
                           /\ beside(d).op = ruleCalls[d].op
                           /\ beside(d).alone = (ruleCalls[d].alone /\ d \notin rivals)
                           /\ d \notin rivals => beside(d) = ruleCalls[d]
  <2> TAKE d \in RuleCalls
  <2>1. ruleCalls[d] \in RuleRecords
    BY DutyTypes
  <2>2. d \notin rivals => (ruleCalls[d].alone /\ d \notin rivals) = ruleCalls[d].alone
    BY <2>1 DEF RuleRecords
  <2> HIDE DEF rivals
  <2> QED BY <2>1, <2>2 DEF RuleRecords
<1>5. \A d \in RuleCalls : Chooses(beside(d)) <=> Chooses(ruleCalls[d])
  BY <1>4 DEF Chooses
<1>6. \A d \in rivals : d \in RuleCalls /\ Chooses(ruleCalls[d])
  OBVIOUS
<1>7. Chooses(first) => \A d \in RuleCalls : Chooses(ruleCalls[d]) => d \in rivals
  OBVIOUS
<1> HIDE DEF new, first, rivals, beside
<1>8. /\ ruleCalls'[c] = new
      /\ \A d \in RuleCalls : d # c => ruleCalls'[d] = beside(d)
      /\ ruleCalls' \in [RuleCalls -> RuleRecords]
  BY <1>1, <1>2, <1>4
<1>9. ruleCount' \in 0..MaxRuleCalls
  BY <1>1, DutyTypes
<1>10. DutyTypeOK'
  BY <1>1, <1>8, <1>9, DutyTypes DEF DutyTypeOK, RuleRecords, DutyIInv
<1>11. \A d \in RuleCalls : RuleStands(ruleCalls'[d])
  <2>1. RuleStands(new)
    BY <1>2 DEF RuleStands
  <2>2. ASSUME NEW d \in RuleCalls, d # c PROVE RuleStands(beside(d))
    BY <2>2, <1>4, <1>6, NoRuleTyped DEF RuleStands, DutyIInv
  <2> QED BY <2>1, <2>2, <1>8
<1>12. ChoosersMeet'
  <2> SUFFICES ASSUME NEW d \in RuleCalls, NEW e \in RuleCalls, d # e,
                      Chooses(ruleCalls'[d]), Chooses(ruleCalls'[e])
               PROVE  ~ruleCalls'[d].alone
    BY DEF ChoosersMeet, Chooses
  <2>1. CASE d = c
    BY <2>1, <1>2, <1>3, <1>5, <1>7, <1>8
  <2>2. CASE e = c
    BY <2>2, <1>3, <1>4, <1>5, <1>7, <1>8
  <2>3. CASE d # c /\ e # c
    BY <2>3, <1>4, <1>5, <1>8 DEF DutyIInv, ChoosersMeet
  <2> QED BY <2>1, <2>2, <2>3
<1>13. AllCleared'
  <2> SUFFICES ASSUME NEW d \in RuleCalls, ruleCalls'[d].stage = "cleared",
                      Chooses(ruleCalls'[d]), ruleCalls'[d].alone
               PROVE  Defaults' \subseteq ruleCalls'[d].others \cup {ruleCalls'[d].policy}
    BY DEF AllCleared, Chooses
  <2>1. d # c
    BY <1>2, <1>8
  <2>2. Defaults' = Defaults
    BY <1>1 DEF Defaults
  <2>3. ruleCalls[d].stage = "cleared" /\ Chooses(ruleCalls[d]) /\ ruleCalls[d].alone
    BY <2>1, <1>4, <1>5, <1>8
  <2>4. Defaults \subseteq ruleCalls[d].others \cup {ruleCalls[d].policy}
    BY <2>3 DEF DutyIInv, AllCleared
  <2> QED BY <2>1, <2>2, <2>4, <1>4, <1>8
<1> QED BY <1>1, <1>10, <1>11, <1>12, <1>13 DEF DutyIInv, Defaults

LEMMA ClearDefaultsKeeps ==
  ASSUME DutyIInv, NEW c \in RuleCalls, ClearDefaults(c) PROVE DutyIInv'
<1> DEFINE old == ruleCalls[c]
           others == OtherDefaults(old.policy, old.op)
           new == [old EXCEPT !.stage = "cleared", !.others = others]
<1>1. /\ old.stage = "read" /\ Chooses(old)
      /\ ruleCalls' = [ruleCalls EXCEPT ![c] = new]
      /\ UNCHANGED <<policies, bothDefault, holidays, branches, ruleCount>>
  BY DutyTypes DEF ClearDefaults, RuleRecords
<1>2. others \in SUBSET Policies /\ Defaults \subseteq others \cup {old.policy}
  BY DEF OtherDefaults, Defaults
<1> HIDE DEF others
<1>3. /\ new \in RuleRecords /\ new.others = others /\ new.policy = old.policy
      /\ new.default = old.default /\ new.alone = old.alone /\ new.op = old.op
  <2>1. old \in RuleRecords
    BY DutyTypes
  <2> HIDE DEF old
  <2> QED BY <1>2, <2>1 DEF RuleRecords
<1>4. old # NoRuleCall
  BY <1>1, NoRuleTyped
<1>5. Chooses(new)
  BY <1>1, <1>3 DEF Chooses
<1> HIDE DEF new, old
<1>6. /\ ruleCalls'[c] = new
      /\ \A d \in RuleCalls : d # c => ruleCalls'[d] = ruleCalls[d]
      /\ ruleCalls' \in [RuleCalls -> RuleRecords]
  BY <1>1, <1>3, DutyTypes
<1>7. DutyTypeOK'
  BY <1>1, <1>6, DutyTypes DEF DutyTypeOK, RuleRecords, DutyIInv
<1>8. \A d \in RuleCalls : RuleStands(ruleCalls'[d])
  <2>1. RuleStands(old)
    BY DEF DutyIInv, old
  <2>2. RuleStands(new)
    BY <2>1, <1>3, <1>4 DEF RuleStands
  <2> QED BY <2>2, <1>6 DEF DutyIInv
<1>9. \A d \in RuleCalls : /\ Chooses(ruleCalls'[d]) <=> Chooses(ruleCalls[d])
                           /\ ruleCalls'[d].alone = ruleCalls[d].alone
  BY <1>1, <1>3, <1>5, <1>6 DEF old
<1>10. ChoosersMeet'
  BY <1>9 DEF DutyIInv, ChoosersMeet, Chooses
<1>11. Defaults' = Defaults
  BY <1>1 DEF Defaults
<1>12. AllCleared'
  <2> SUFFICES ASSUME NEW d \in RuleCalls, ruleCalls'[d].stage = "cleared",
                      Chooses(ruleCalls'[d]), ruleCalls'[d].alone
               PROVE  Defaults' \subseteq ruleCalls'[d].others \cup {ruleCalls'[d].policy}
    BY DEF AllCleared, Chooses
  <2>1. CASE d = c
    BY <2>1, <1>2, <1>3, <1>6, <1>11
  <2>2. CASE d # c
    BY <2>2, <1>6, <1>11 DEF DutyIInv, AllCleared
  <2> QED BY <2>1, <2>2
<1> QED BY <1>1, <1>7, <1>8, <1>10, <1>11, <1>12 DEF DutyIInv

\* A chooser that is alone leaves its own default, any other request adds none.
LEMMA CommitPolicyKeeps ==
  ASSUME DutyIInv, NEW c \in RuleCalls, CommitPolicy(c) PROVE DutyIInv'
<1> DEFINE call == ruleCalls[c]
           own == IF call.op = "create" THEN call.default
                  ELSE IF call.default \in {Nil, call.seen} THEN policies[call.policy].default
                  ELSE call.default
           row(q) == IF q = call.policy THEN [there |-> TRUE, default |-> own]
                     ELSE [policies[q] EXCEPT !.default = policies[q].default /\ q \notin call.others]
<1>1. /\ call.stage = (IF Chooses(call) THEN "cleared" ELSE "read") /\ call.op # "none"
      /\ policies' = [q \in Policies |-> row(q)]
      /\ bothDefault' = IF Chooses(call) THEN ~call.alone ELSE bothDefault
      /\ ruleCalls' = [ruleCalls EXCEPT ![c] = NoRuleCall]
      /\ UNCHANGED <<holidays, branches, ruleCount>>
  BY DEF CommitPolicy
<1>2. call \in RuleRecords /\ call # NoRuleCall /\ call.policy \in Policies
  BY <1>1, NoRuleTyped, DutyTypes DEF DutyIInv, RuleStands
<1>3. \A q \in Policies : policies[q] \in [there : BOOLEAN, default : BOOLEAN]
  BY DutyTypes
<1>4. own \in BOOLEAN /\ (~Chooses(call) /\ own => policies[call.policy].default)
  <2>1. call.default \in BOOLEAN \cup {Nil} /\ call.seen \in BOOLEAN
        /\ (call.op = "create" => call.default \in BOOLEAN)
    BY <1>2 DEF RuleRecords, DutyIInv, RuleStands
  <2>2. policies[call.policy].default \in BOOLEAN
    BY <1>2, <1>3
  <2> HIDE DEF call
  <2> QED BY <2>1, <2>2 DEF Chooses
<1>5. \A q \in Policies : row(q) \in [there : BOOLEAN, default : BOOLEAN]
                         /\ (row(q).default => IF q = call.policy THEN own
                                               ELSE policies[q].default /\ q \notin call.others)
  <2> TAKE q \in Policies
  <2>1. CASE q = call.policy
    BY <2>1, <1>4
  <2>2. CASE q # call.policy
    BY <2>2, <1>3
  <2> QED BY <2>1, <2>2
<1> HIDE DEF row, own
<1>6. /\ policies' \in [Policies -> [there : BOOLEAN, default : BOOLEAN]]
      /\ \A q \in Policies : policies'[q] = row(q)
  BY <1>1, <1>5
<1>7. Chooses(call) /\ call.alone => Defaults' \subseteq {call.policy}
  <2> SUFFICES ASSUME Chooses(call), call.alone, NEW q \in Policies, policies'[q].default
               PROVE  q = call.policy
    BY DEF Defaults
  <2>1. call.stage = "cleared"
    BY <1>1
  <2>2. Defaults \subseteq call.others \cup {call.policy}
    BY <2>1 DEF DutyIInv, AllCleared
  <2>3. q # call.policy => policies[q].default /\ q \notin call.others
    BY <1>5, <1>6
  <2> QED BY <2>2, <2>3 DEF Defaults
<1>8. ~Chooses(call) => Defaults' \subseteq Defaults
  BY <1>4, <1>5, <1>6 DEF Defaults
<1>9. Chooses(call) \/ ~Chooses(call)
  OBVIOUS
<1>10. bothDefault' \in BOOLEAN
  BY <1>1, <1>2, DutyTypes DEF RuleRecords
<1> HIDE DEF call
<1>11. /\ ruleCalls' \in [RuleCalls -> RuleRecords] /\ ruleCalls'[c] = NoRuleCall
       /\ \A d \in RuleCalls : d # c => ruleCalls'[d] = ruleCalls[d]
  BY <1>1, NoRuleTyped, DutyTypes
<1>12. DutyTypeOK'
  BY <1>1, <1>6, <1>10, <1>11, DutyTypes DEF DutyTypeOK, RuleRecords, DutyIInv
<1>13. \A d \in RuleCalls : RuleStands(ruleCalls'[d])
  BY <1>11, NoRuleTyped DEF RuleStands, DutyIInv
<1>14. ChoosersMeet'
  BY <1>11, NoRuleTyped DEF DutyIInv, ChoosersMeet, Chooses
<1>15. AllCleared'
  <2> SUFFICES ASSUME NEW d \in RuleCalls, ruleCalls'[d].stage = "cleared",
                      Chooses(ruleCalls'[d]), ruleCalls'[d].alone
               PROVE  Defaults' \subseteq ruleCalls'[d].others \cup {ruleCalls'[d].policy}
    BY DEF AllCleared, Chooses
  <2>1. d # c /\ ruleCalls'[d] = ruleCalls[d]
    BY <1>11, NoRuleTyped
  <2>2. Defaults \subseteq ruleCalls[d].others \cup {ruleCalls[d].policy}
    BY <2>1 DEF DutyIInv, AllCleared
  <2>3. ~Chooses(call)
    BY <2>1 DEF DutyIInv, ChoosersMeet, call
  <2> QED BY <2>1, <2>2, <2>3, <1>8
<1>16. bothDefault' \/ \A p, q \in Defaults' : p = q
  <2>1. CASE Chooses(call)
    BY <2>1, <1>1, <1>7
  <2>2. CASE ~Chooses(call)
    BY <2>2, <1>1, <1>8 DEF DutyIInv
  <2> QED BY <2>1, <2>2
<1> QED BY <1>1, <1>12, <1>13, <1>14, <1>15, <1>16 DEF DutyIInv

LEMMA AbortPolicyKeeps ==
  ASSUME DutyIInv, NEW c \in RuleCalls, AbortPolicy(c) PROVE DutyIInv'
<1>1. /\ ruleCalls' \in [RuleCalls -> RuleRecords] /\ ruleCalls'[c] = NoRuleCall
      /\ \A d \in RuleCalls : d # c => ruleCalls'[d] = ruleCalls[d]
      /\ UNCHANGED <<policies, bothDefault, holidays, branches, ruleCount>>
  BY NoRuleTyped, DutyTypes DEF AbortPolicy
<1>2. DutyTypeOK'
  BY <1>1, DutyTypes DEF DutyTypeOK, RuleRecords, DutyIInv
<1>3. \A d \in RuleCalls : RuleStands(ruleCalls'[d])
  BY <1>1, NoRuleTyped DEF RuleStands, DutyIInv
<1>4. ChoosersMeet'
  BY <1>1, NoRuleTyped DEF DutyIInv, ChoosersMeet, Chooses
<1>5. Defaults' = Defaults
  BY <1>1 DEF Defaults
<1>6. AllCleared'
  <2> SUFFICES ASSUME NEW d \in RuleCalls, ruleCalls'[d].stage = "cleared",
                      Chooses(ruleCalls'[d]), ruleCalls'[d].alone
               PROVE  Defaults' \subseteq ruleCalls'[d].others \cup {ruleCalls'[d].policy}
    BY DEF AllCleared, Chooses
  <2>1. ruleCalls'[d] = ruleCalls[d]
    BY <1>1, NoRuleTyped
  <2> QED BY <2>1, <1>5 DEF DutyIInv, AllCleared
<1> QED BY <1>1, <1>2, <1>3, <1>4, <1>5, <1>6 DEF DutyIInv

\* The two actions on holidays, and the steps that change nothing.
LEMMA HolidaysKeep ==
  ASSUME DutyIInv, UNCHANGED <<policies, ruleCalls, bothDefault, ruleCount>>,
         holidays' \in [Branches \cup {Nil} -> 0..2], branches' \subseteq Branches,
         \A b \in Branches \cup {Nil} : holidays'[b] <= 1
  PROVE  DutyIInv'
<1>1. DutyTypeOK'
  BY DEF DutyTypeOK, DutyIInv
<1>2. ChoosersMeet'
  BY DEF DutyIInv, ChoosersMeet, Chooses
<1>3. AllCleared'
  BY DEF DutyIInv, AllCleared, Chooses, Defaults
<1> QED BY <1>1, <1>2, <1>3 DEF DutyIInv, Defaults

LEMMA CreateHolidayKeeps ==
  ASSUME DutyIInv, NEW b \in Branches \cup {Nil}, CreateHoliday(b) PROVE DutyIInv'
<1>1. /\ holidays[b] < 2 /\ UniqueHoliday(holidays')
      /\ holidays' = [holidays EXCEPT ![b] = holidays[b] + 1]
      /\ UNCHANGED <<policies, ruleCalls, bothDefault, branches, ruleCount>>
  BY DEF CreateHoliday
<1>2. holidays[b] + 1 \in 0..2
  BY <1>1, DutyTypes
<1>3. holidays' \in [Branches \cup {Nil} -> 0..2]
  BY <1>1, <1>2, DutyTypes
<1>4. \A d \in Branches \cup {Nil} : holidays'[d] <= 1
  BY <1>1, <1>3 DEF UniqueHoliday
<1> QED BY <1>1, <1>3, <1>4, DutyTypes, HolidaysKeep

LEMMA DeleteBranchKeeps ==
  ASSUME DutyIInv, NEW b \in Branches, DeleteBranch(b) PROVE DutyIInv'
<1> DEFINE h == [[holidays EXCEPT ![Nil] = holidays[Nil] + holidays[b]] EXCEPT ![b] = 0]
<1>1. /\ holidays' = h /\ h[Nil] <= 2 /\ UniqueHoliday(h)
      /\ branches' = branches \ {b}
      /\ UNCHANGED <<policies, ruleCalls, bothDefault, ruleCount>>
  BY DEF DeleteBranch
<1>2. b # Nil
  BY DutyAssumption
<1>3. /\ h = [d \in Branches \cup {Nil} |-> IF d = b THEN 0 ELSE
                 IF d = Nil THEN holidays[Nil] + holidays[b] ELSE holidays[d]]
  BY DutyTypes
<1>4. holidays[Nil] + holidays[b] \in 0..2
  BY <1>1, <1>2, <1>3, DutyTypes
<1>5. h \in [Branches \cup {Nil} -> 0..2]
  BY <1>3, <1>4, DutyTypes
<1> HIDE DEF h
<1>6. \A d \in Branches \cup {Nil} : h[d] <= 1
  BY <1>1, <1>5 DEF UniqueHoliday
<1> QED BY <1>1, <1>5, <1>6, DutyTypes, HolidaysKeep

LEMMA DutyInvNext ==
  ASSUME DutyIInv, [DutyNext]_dutyVars PROVE DutyIInv'
<1>1. CASE UNCHANGED dutyVars
  <2>1. /\ UNCHANGED <<policies, ruleCalls, bothDefault, ruleCount>>
        /\ holidays' = holidays /\ branches' = branches
    BY <1>1 DEF dutyVars
  <2>2. \A b \in Branches \cup {Nil} : holidays'[b] <= 1
    BY <2>1 DEF DutyIInv
  <2> QED BY <2>1, <2>2, DutyTypes, HolidaysKeep
<1>2. CASE DutyNext
  BY <1>2, BeginPolicyKeeps, ClearDefaultsKeeps, CommitPolicyKeeps, AbortPolicyKeeps,
     CreateHolidayKeeps, DeleteBranchKeeps DEF DutyNext
<1> QED BY <1>1, <1>2

\* What creating, changing and deleting policies, holidays and branches rests on: a
\* default that no other request chose at once is the only one when it commits.
THEOREM DutyInductive == DutySpec => []DutyIInv
BY DutyInvInit, DutyInvNext, PTL DEF DutySpec

\* A company has one default policy unless two requests chose one at once, and
\* one holiday for the company and for each branch on a date.  (_clear_default_policies and
\* its callers in shift_service.py, the unique index of holidays.)
THEOREM RulesUnambiguous == DutySpec => []RulesAreUnambiguous
<1>1. ASSUME DutyIInv PROVE RulesAreUnambiguous
  <2>1. ASSUME \A p, q \in Defaults : p = q PROVE Cardinality(Defaults) <= 1
    <3>1. CASE Defaults = {}
      BY <3>1, FS_EmptySet
    <3>2. CASE Defaults # {}
      <4>1. PICK p \in Defaults : TRUE
        BY <3>2
      <4>2. Defaults = {p}
        BY <2>1, <4>1
      <4> QED BY <4>2, FS_Singleton
    <3> QED BY <3>1, <3>2
  <2>2. bothDefault \/ Cardinality({p \in Policies : policies[p].default}) <= 1
    BY <1>1, <2>1 DEF DutyIInv, Defaults
  <2>3. DOMAIN holidays = Branches \cup {Nil}
    BY <1>1, DutyTypes
  <2> QED BY <1>1, <2>2, <2>3 DEF DutyIInv, RulesAreUnambiguous
<1> QED BY <1>1, DutyInductive, PTL

-----------------------------------------------------------------------------
(* Anomalies *)

Uses == {"acknowledged"} \cup Closed
ReviewRecords == [key : AnomalyKeys \cup {Nil}, to : {"open"} \cup Uses, seen : AnomalyRows \cup {Nil}]

\* A row that was looked at says when, and when it was closed.
Signed(row) ==
    /\ row.status # "open" => row.ackAt # Nil
    /\ row.status \in Closed => row.resolvedAt # Nil

\* A row keeps a time that it had when it was read.
Since(seen, row) ==
    /\ seen.ackAt # Nil => row.ackAt # Nil
    /\ seen.resolvedAt # Nil => row.resolvedAt # Nil

\* A request has an anomaly that it read, and unless the anomaly is disputed it
\* is the only one to hold it and has its row as it is.
ReviewStands(u) ==
    LET call == reviews[u] IN
    call # NoReview =>
        /\ call.key \in DOMAIN anomalies /\ call.to \in Uses
        /\ call.seen \in AnomalyRows /\ Signed(call.seen) /\ judged >= 1
        /\ Since(call.seen, anomalies[call.key])
        /\ call.key \notin disputed =>
              /\ call.seen = anomalies[call.key]
              /\ \A v \in Triagers \ {u} : reviews[v] # NoReview => reviews[v].key # call.key

\* Each run inserts rows of its own.
RunsInOrder ==
    \A k \in DOMAIN anomalies :
        /\ k.run <= runCount
        /\ detection.stage = "read" => k.run < runCount

AnomalyIInv ==
    /\ AnomalyTypeOK /\ TriageIsSigned /\ RunsInOrder
    /\ anomalies \in [DOMAIN anomalies -> AnomalyRows]
    /\ reviews \in [Triagers -> ReviewRecords]
    /\ \A u \in Triagers : ReviewStands(u)

LEMMA TriageTypes ==
  ASSUME AnomalyIInv
  PROVE  /\ workdays \in [WorkDays -> WorkRecords \cup {Nil}]
         /\ DOMAIN anomalies \subseteq AnomalyKeys
         /\ anomalies \in [DOMAIN anomalies -> AnomalyRows]
         /\ reviews \in [Triagers -> ReviewRecords]
         /\ \A k \in DOMAIN anomalies : anomalies[k] \in AnomalyRows /\ Signed(anomalies[k])
         /\ runCount \in 0..MaxRuns /\ judged \in 0..MaxJudgements
         /\ MaxRuns \in Nat /\ MaxJudgements \in Nat
BY AnomalyAssumption DEF AnomalyIInv, AnomalyTypeOK, TriageIsSigned, Signed

LEMMA OpenedTyped ==
  /\ Opened \in AnomalyRows /\ Opened.status = "open" /\ Opened.ackAt = Nil /\ Signed(Opened)
  /\ NoReview \in ReviewRecords
<1>1. NoReview \in ReviewRecords
  BY DEF NoReview, ReviewRecords
<1> QED BY <1>1 DEF Opened, AnomalyRows, Signed, Closed

LEMMA AnomalyInvInit ==
  ASSUME AnomalyInit PROVE AnomalyIInv
<1>1. DOMAIN anomalies = {}
  BY DEF AnomalyInit
<1>2. /\ \A u \in Triagers : reviews[u] = NoReview /\ reviews[u].key = Nil
      /\ detection.stage = "none"
  BY DEF AnomalyInit, NoReview, NoDetection
<1>3. runCount \in 0..MaxRuns /\ judged \in 0..MaxJudgements
  BY AnomalyAssumption DEF AnomalyInit
<1>4. workdays \in [WorkDays -> WorkRecords \cup {Nil}] /\ disputed = {}
  BY DEF AnomalyInit
<1>5. AnomalyTypeOK
  BY <1>1, <1>2, <1>3, <1>4 DEF AnomalyTypeOK
<1>6. \A u \in Triagers : ReviewStands(u)
  BY <1>2 DEF ReviewStands
<1>7. anomalies \in [DOMAIN anomalies -> AnomalyRows] /\ reviews \in [Triagers -> ReviewRecords]
  BY <1>1, OpenedTyped DEF AnomalyInit
<1> QED BY <1>1, <1>5, <1>6, <1>7 DEF AnomalyIInv, TriageIsSigned, RunsInOrder

\* Steps that change no row and at most end a request or a detection.
LEMMA AnomalyQuiet ==
  ASSUME AnomalyIInv, UNCHANGED <<anomalies, disputed, runCount, judged>>,
         workdays' \in [WorkDays -> WorkRecords \cup {Nil}],
         detection'.stage \in {detection.stage, "none"},
         reviews' \in [Triagers -> ReviewRecords],
         \A u \in Triagers : reviews'[u] \in {reviews[u], NoReview}
  PROVE  AnomalyIInv'
<1>1. \A u \in Triagers : reviews'[u] # NoReview => reviews'[u] = reviews[u]
  OBVIOUS
<1>2. NoReview.key = Nil
  BY DEF NoReview
<1>3. AnomalyTypeOK'
  BY <1>2 DEF AnomalyIInv, AnomalyTypeOK
<1>4. ASSUME NEW u \in Triagers PROVE ReviewStands(u)'
  <2> SUFFICES ASSUME reviews'[u] # NoReview PROVE ReviewStands(u)'
    BY DEF ReviewStands
  <2>1. reviews'[u] = reviews[u] /\ ReviewStands(u)
    BY <1>1 DEF AnomalyIInv
  <2> QED BY <1>1, <2>1 DEF ReviewStands
<1> QED BY <1>3, <1>4 DEF AnomalyIInv, TriageIsSigned, RunsInOrder

LEMMA DayGoesOnKeeps ==
  ASSUME AnomalyIInv, NEW d \in WorkDays, DayGoesOn(d) PROVE AnomalyIInv'
<1> DEFINE arrived == [Bare EXCEPT !.in = TRUE]
<1>1. Bare \in WorkRecords /\ arrived \in WorkRecords
  BY DEF Bare, WorkRecords
<1>2. Outcomes \subseteq WorkRecords
  BY DEF Outcomes
<1>3. \/ workdays' = [workdays EXCEPT ![d] = Bare]
      \/ workdays' = [workdays EXCEPT ![d] = arrived]
      \/ \E r \in Outcomes : workdays' = [workdays EXCEPT ![d] = r]
  BY DEF DayGoesOn
<1> HIDE DEF arrived
<1>4. workdays' \in [WorkDays -> WorkRecords \cup {Nil}]
  BY <1>1, <1>2, <1>3, TriageTypes
<1>5. UNCHANGED <<anomalies, disputed, runCount, judged, detection, reviews>>
  BY DEF DayGoesOn
<1> QED BY <1>4, <1>5, TriageTypes, AnomalyQuiet

LEMMA BeginDetectionKeeps ==
  ASSUME AnomalyIInv, BeginDetection PROVE AnomalyIInv'
<1>1. /\ detection = NoDetection /\ runCount < MaxRuns /\ runCount' = runCount + 1
      /\ detection'.stage = "read"
      /\ UNCHANGED <<workdays, anomalies, reviews, disputed, judged>>
  BY DEF BeginDetection
<1>2. runCount' \in 0..MaxRuns
  BY <1>1, TriageTypes
<1>3. AnomalyTypeOK'
  BY <1>1, <1>2 DEF AnomalyIInv, AnomalyTypeOK
<1>4. RunsInOrder'
  <2> SUFFICES ASSUME NEW k \in DOMAIN anomalies PROVE k.run <= runCount' /\ k.run < runCount'
    BY <1>1 DEF RunsInOrder
  <2>1. k.run \in Nat /\ k.run <= runCount
    BY TriageTypes DEF AnomalyIInv, RunsInOrder, AnomalyKeys
  <2> QED BY <2>1, <1>1, TriageTypes
<1>5. \A u \in Triagers : ReviewStands(u)'
  BY <1>1 DEF AnomalyIInv, ReviewStands
<1> QED BY <1>1, <1>3, <1>4, <1>5 DEF AnomalyIInv, TriageIsSigned

\* The rows of a run are new: no request holds one of them.
LEMMA SaveDetectionKeeps ==
  ASSUME AnomalyIInv, NEW outliers \in SUBSET WorkDays, SaveDetection(outliers)
  PROVE  AnomalyIInv'
<1> DEFINE new == Found(runCount, detection.seen, outliers)
<1>1. /\ detection.stage = "read" /\ detection' = NoDetection
      /\ anomalies' = [k \in DOMAIN anomalies \cup new |->
                          IF k \in new THEN Opened ELSE anomalies[k]]
      /\ UNCHANGED <<workdays, reviews, disputed, runCount, judged>>
  BY DEF SaveDetection
<1>2. \A k \in new : k \in AnomalyKeys /\ k.run = runCount
  BY DEF Found
<1> HIDE DEF new
<1>3. /\ DOMAIN anomalies' = DOMAIN anomalies \cup new
      /\ \A k \in new : anomalies'[k] = Opened
      /\ \A k \in DOMAIN anomalies : k \notin new => anomalies'[k] = anomalies[k]
  BY <1>1
<1>4. \A k \in DOMAIN anomalies : k \notin new
  <2> TAKE k \in DOMAIN anomalies
  <2>1. k.run \in Nat /\ k.run < runCount
    BY <1>1, TriageTypes DEF AnomalyIInv, RunsInOrder, AnomalyKeys
  <2> QED BY <2>1, <1>2, TriageTypes
<1>5. \A k \in DOMAIN anomalies' : anomalies'[k] \in AnomalyRows /\ Signed(anomalies'[k])
  BY <1>3, OpenedTyped, TriageTypes
<1>6. /\ AnomalyTypeOK'
      /\ anomalies' \in [DOMAIN anomalies' -> AnomalyRows]
  BY <1>1, <1>2, <1>3, <1>5 DEF AnomalyIInv, AnomalyTypeOK, NoDetection
<1>7. TriageIsSigned'
  <2> SUFFICES ASSUME NEW k \in DOMAIN anomalies', anomalies'[k].ackAt # Nil, k \notin disputed
               PROVE  anomalies'[k].ackBy = anomalies'[k].ackAt.who
    BY <1>1, <1>5 DEF TriageIsSigned, Signed
  <2>1. k \in DOMAIN anomalies /\ anomalies'[k] = anomalies[k]
    BY <1>3, OpenedTyped
  <2> QED BY <2>1 DEF AnomalyIInv, TriageIsSigned
<1>8. RunsInOrder'
  <2> SUFFICES ASSUME NEW k \in DOMAIN anomalies' PROVE k.run <= runCount'
    BY <1>1 DEF RunsInOrder, NoDetection
  <2>1. CASE k \in new
    BY <2>1, <1>1, <1>2, TriageTypes
  <2>2. CASE k \in DOMAIN anomalies
    BY <2>2, <1>1 DEF AnomalyIInv, RunsInOrder
  <2> QED BY <1>3, <2>1, <2>2
<1>9. ASSUME NEW u \in Triagers PROVE ReviewStands(u)'
  <2> SUFFICES ASSUME reviews[u] # NoReview PROVE ReviewStands(u)'
    BY <1>1 DEF ReviewStands
  <2>1. ReviewStands(u) /\ reviews[u].key \in DOMAIN anomalies
    BY DEF AnomalyIInv, ReviewStands
  <2>2. anomalies'[reviews[u].key] = anomalies[reviews[u].key]
    BY <2>1, <1>3, <1>4
  <2> QED BY <2>1, <2>2, <1>1, <1>3 DEF ReviewStands
<1> QED BY <1>1, <1>6, <1>7, <1>8, <1>9 DEF AnomalyIInv

\* A row that somebody holds is disputed from now on.
LEMMA BeginTriageKeeps ==
  ASSUME AnomalyIInv, NEW u \in Triagers, NEW k \in AnomalyKeys, NEW to \in Uses,
         BeginTriage(u, k, to)
  PROVE  AnomalyIInv'
<1> DEFINE new == [key |-> k, to |-> to, seen |-> anomalies[k]]
<1>1. /\ reviews[u] = NoReview /\ judged < MaxJudgements /\ k \in DOMAIN anomalies
      /\ reviews' = [reviews EXCEPT ![u] = new]
      /\ disputed' = IF \E v \in Triagers : reviews[v].key = k THEN disputed \cup {k} ELSE disputed
      /\ judged' = judged + 1
      /\ UNCHANGED <<workdays, detection, anomalies, runCount>>
  BY DEF BeginTriage
<1>2. new.key = k /\ new.to = to /\ new.seen = anomalies[k]
  OBVIOUS
<1> HIDE DEF new
<1>3. reviews' \in [Triagers -> ReviewRecords]
  BY <1>1, <1>2, TriageTypes DEF new, ReviewRecords
<1>4. /\ reviews'[u] = new
      /\ \A v \in Triagers : v # u => reviews'[v] = reviews[v]
  BY <1>1, TriageTypes
<1>5. judged' \in 0..MaxJudgements /\ judged' >= 1
  BY <1>1, TriageTypes
<1>6. AnomalyTypeOK'
  BY <1>1, <1>2, <1>4, <1>5 DEF AnomalyIInv, AnomalyTypeOK
<1>7. TriageIsSigned'
  BY <1>1 DEF AnomalyIInv, TriageIsSigned
<1>8. ReviewStands(u)'
  <2>1. k \notin disputed' => \A v \in Triagers : reviews[v].key # k
    BY <1>1
  <2> QED BY <2>1, <1>1, <1>2, <1>4, <1>5, TriageTypes DEF ReviewStands, Since
<1>9. ASSUME NEW v \in Triagers, v # u PROVE ReviewStands(v)'
  <2> SUFFICES ASSUME reviews[v] # NoReview PROVE ReviewStands(v)'
    BY <1>4, <1>9 DEF ReviewStands
  <2>1. ReviewStands(v)
    BY DEF AnomalyIInv
  <2>2. disputed \subseteq disputed' /\ (k \notin disputed' => reviews[v].key # k)
    BY <1>1
  <2>3. reviews[v].key \notin disputed' => \A w \in Triagers \ {v} : reviews'[w] # NoReview => reviews'[w].key # reviews[v].key
    BY <2>1, <2>2, <1>2, <1>4 DEF ReviewStands
  <2> QED BY <2>1, <2>2, <2>3, <1>1, <1>4, <1>5, <1>9 DEF ReviewStands
<1> QED BY <1>1, <1>3, <1>6, <1>7, <1>8, <1>9 DEF AnomalyIInv, RunsInOrder

\* The row that a request leaves, made of what it read and what is there.
LEMMA TriagedRow ==
  ASSUME NEW seen \in AnomalyRows, NEW row \in AnomalyRows, NEW to \in Uses, NEW u \in Triagers,
         NEW now \in Stamps, now.who = u, Signed(seen), Signed(row), Since(seen, row)
  PROVE  LET new == Triaged(seen, to, u, now)
             put == [f \in DOMAIN row |-> IF new[f] # seen[f] THEN new[f] ELSE row[f]]
         IN  /\ put \in AnomalyRows /\ Signed(put) /\ Since(row, put)
             /\ seen = row /\ (row.ackAt # Nil => row.ackBy = row.ackAt.who)
                => put.ackBy = put.ackAt.who
<1> DEFINE new == Triaged(seen, to, u, now)
           put == [f \in DOMAIN row |-> IF new[f] # seen[f] THEN new[f] ELSE row[f]]
<1>1. now # Nil
  BY AnomalyAssumption
<1>2. /\ new \in AnomalyRows /\ new.status = to
      /\ IF to = "acknowledged" \/ seen.ackAt = Nil THEN new.ackAt = now /\ new.ackBy = u
         ELSE new.ackAt = seen.ackAt /\ new.ackBy = seen.ackBy
      /\ new.resolvedAt = IF to = "acknowledged" THEN seen.resolvedAt ELSE now
  BY DEF Triaged, AnomalyRows, Uses, Closed
<1> HIDE DEF new
<1>3. DOMAIN row = {"status", "ackAt", "ackBy", "resolvedAt"}
  BY DEF AnomalyRows
<1>4. /\ put.status = IF new.status # seen.status THEN new.status ELSE row.status
      /\ put.ackAt = IF new.ackAt # seen.ackAt THEN new.ackAt ELSE row.ackAt
      /\ put.ackBy = IF new.ackBy # seen.ackBy THEN new.ackBy ELSE row.ackBy
      /\ put.resolvedAt = IF new.resolvedAt # seen.resolvedAt THEN new.resolvedAt ELSE row.resolvedAt
  BY <1>3
<1>5. put = [status |-> put.status, ackAt |-> put.ackAt, ackBy |-> put.ackBy,
             resolvedAt |-> put.resolvedAt]
  BY <1>3
<1> HIDE DEF put
<1>6. put \in AnomalyRows
  BY <1>2, <1>4, <1>5 DEF AnomalyRows
<1>7. put.ackAt # Nil
  BY <1>1, <1>2, <1>4 DEF Since
<1>8. put.status \in Closed => put.resolvedAt # Nil
  BY <1>1, <1>2, <1>4 DEF Since, Signed, Uses, Closed
<1>9. Since(row, put)
  BY <1>1, <1>2, <1>4, <1>7 DEF Since
<1>10. seen = row /\ (row.ackAt # Nil => row.ackBy = row.ackAt.who) => put.ackBy = put.ackAt.who
  BY <1>2, <1>4
<1> QED BY <1>6, <1>7, <1>8, <1>9, <1>10 DEF Signed, new, put

LEMMA CommitTriageKeeps ==
  ASSUME AnomalyIInv, NEW u \in Triagers, CommitTriage(u) PROVE AnomalyIInv'
<1> DEFINE call == reviews[u]
           row == anomalies[call.key]
           now == [at |-> judged, who |-> u]
           new == Triaged(call.seen, call.to, u, now)
           put == [f \in DOMAIN row |-> IF new[f] # call.seen[f] THEN new[f] ELSE row[f]]
<1>1. /\ call # NoReview
      /\ anomalies' = [anomalies EXCEPT ![call.key] = put]
      /\ reviews' = [reviews EXCEPT ![u] = NoReview]
      /\ UNCHANGED <<workdays, detection, disputed, runCount, judged>>
  BY DEF CommitTriage
<1>2. /\ call.key \in DOMAIN anomalies /\ call.to \in Uses /\ call.seen \in AnomalyRows
      /\ judged >= 1 /\ Since(call.seen, row)
      /\ call.key \notin disputed => call.seen = row
  BY <1>1 DEF AnomalyIInv, ReviewStands
<1>3. row \in AnomalyRows /\ Signed(row)
  BY <1>2, TriageTypes
<1>4. now \in Stamps /\ now.who = u
  BY <1>2, TriageTypes DEF Stamps
<1>5. Signed(call.seen)
  BY <1>1 DEF AnomalyIInv, ReviewStands
<1> HIDE DEF now
<1>6. /\ put \in AnomalyRows /\ Signed(put) /\ Since(row, put)
      /\ call.key \notin disputed => put.ackBy = put.ackAt.who
  <2>1. call.key \notin disputed => (row.ackAt # Nil => row.ackBy = row.ackAt.who)
    BY <1>2 DEF AnomalyIInv, TriageIsSigned
  <2>2. /\ put \in AnomalyRows /\ Signed(put) /\ Since(row, put)
        /\ call.seen = row /\ (row.ackAt # Nil => row.ackBy = row.ackAt.who)
           => put.ackBy = put.ackAt.who
    <3> HIDE DEF row
    <3> QED BY <1>2, <1>3, <1>4, <1>5, TriagedRow
  <2> QED BY <2>1, <2>2, <1>2
<1> HIDE DEF put
<1>7. /\ DOMAIN anomalies' = DOMAIN anomalies /\ anomalies' \in [DOMAIN anomalies' -> AnomalyRows]
      /\ anomalies'[call.key] = put
      /\ \A k \in DOMAIN anomalies : k # call.key => anomalies'[k] = anomalies[k]
  BY <1>1, <1>2, <1>6, TriageTypes
<1>8. /\ reviews' \in [Triagers -> ReviewRecords] /\ reviews'[u] = NoReview
      /\ \A v \in Triagers : v # u => reviews'[v] = reviews[v]
  BY <1>1, OpenedTyped, TriageTypes
<1>9. AnomalyTypeOK'
  BY <1>1, <1>7, <1>8 DEF AnomalyIInv, AnomalyTypeOK, NoReview
<1>10. TriageIsSigned'
  <2> SUFFICES ASSUME NEW k \in DOMAIN anomalies
               PROVE  /\ Signed(anomalies'[k])
                      /\ anomalies'[k].ackAt # Nil /\ k \notin disputed
                         => anomalies'[k].ackBy = anomalies'[k].ackAt.who
    BY <1>1, <1>7 DEF TriageIsSigned, Signed
  <2>1. CASE k = call.key
    BY <2>1, <1>6, <1>7
  <2>2. CASE k # call.key
    BY <2>2, <1>7 DEF AnomalyIInv, TriageIsSigned, Signed
  <2> QED BY <2>1, <2>2
<1>11. ASSUME NEW v \in Triagers PROVE ReviewStands(v)'
  <2> SUFFICES ASSUME reviews'[v] # NoReview PROVE ReviewStands(v)'
    BY DEF ReviewStands
  <2>1. v # u /\ reviews'[v] = reviews[v] /\ ReviewStands(v)
    BY <1>8 DEF AnomalyIInv
  <2>2. CASE reviews[v].key = call.key
    <3>1. call.key \in disputed
      BY <2>1, <2>2, <1>1 DEF ReviewStands, AnomalyIInv
    <3>2. Since(reviews[v].seen, put)
      BY <2>1, <2>2, <1>6 DEF ReviewStands, Since
    <3> QED BY <2>1, <2>2, <3>1, <3>2, <1>1, <1>7 DEF ReviewStands
  <2>3. CASE reviews[v].key # call.key
    BY <2>1, <2>3, <1>1, <1>7, <1>8 DEF ReviewStands
  <2> QED BY <2>2, <2>3
<1> QED BY <1>1, <1>7, <1>8, <1>9, <1>10, <1>11 DEF AnomalyIInv, RunsInOrder

LEMMA AnomalyInvNext ==
  ASSUME AnomalyIInv, [AnomalyNext]_anomalyVars PROVE AnomalyIInv'
<1>1. CASE UNCHANGED anomalyVars
  BY <1>1, TriageTypes, AnomalyQuiet DEF anomalyVars
<1>2. ASSUME NEW u \in Triagers, DropTriage(u) PROVE AnomalyIInv'
  <2>1. /\ reviews' = [reviews EXCEPT ![u] = NoReview]
        /\ UNCHANGED <<workdays, detection, anomalies, disputed, runCount, judged>>
    BY <1>2 DEF DropTriage
  <2>2. reviews' \in [Triagers -> ReviewRecords]
    BY <2>1, OpenedTyped, TriageTypes
  <2>3. \A v \in Triagers : reviews'[v] \in {reviews[v], NoReview}
    BY <2>1, TriageTypes
  <2> QED BY <2>1, <2>2, <2>3, TriageTypes, AnomalyQuiet
<1>3. CASE DropDetection
  <2>1. /\ detection'.stage = "none"
        /\ UNCHANGED <<workdays, anomalies, reviews, disputed, runCount, judged>>
    BY <1>3 DEF DropDetection, NoDetection
  <2> QED BY <2>1, TriageTypes, AnomalyQuiet
<1>4. ASSUME NEW u \in Triagers, NEW k \in AnomalyKeys, NEW to \in {"acknowledged"} \cup Closed,
             BeginTriage(u, k, to)
      PROVE  AnomalyIInv'
  BY <1>4, BeginTriageKeeps DEF Uses
<1>5. CASE AnomalyNext
  BY <1>2, <1>3, <1>4, <1>5, DayGoesOnKeeps, BeginDetectionKeeps, SaveDetectionKeeps,
     CommitTriageKeeps DEF AnomalyNext
<1> QED BY <1>1, <1>5

\* What a detection and a triage rest on: a row that one request held is as it read it,
\* and each run inserts rows of its own.
THEOREM AnomaliesInductive == AnomalySpec => []AnomalyIInv
BY AnomalyInvInit, AnomalyInvNext, PTL DEF AnomalySpec

\* An anomaly that was looked at says when, by whom, and when it was closed,
\* unless two requests held it at once.  (update_anomaly.)
THEOREM TriageSigned == AnomalySpec => []TriageIsSigned
<1>1. AnomalyIInv => TriageIsSigned
  BY DEF AnomalyIInv
<1> QED BY <1>1, AnomaliesInductive, PTL

-----------------------------------------------------------------------------
(* The organization tree *)

\* First about trees: a set U of nodes and their parents p.  What Under walks is Reach,
\* the least set of nodes that holds the top and is closed downwards; every fact about
\* it is one about a closed set.

Downwards(U, p, S) == \A m \in U : p[m] \in S => m \in S

Reach(U, p, top) ==
    {n \in U : top \in U /\ \A S \in SUBSET U : top \in S /\ Downwards(U, p, S) => n \in S}

Acyclic(U, p) == \A S \in SUBSET U : S # {} => \E n \in S : p[n] \notin S

\* p gives every node of U a parent in U, or none; q gives n another one.
Forest(U, p) ==
    /\ Nil \notin Nodes /\ U \subseteq Nodes
    /\ p \in [Nodes -> Nodes \cup {Nil}]
    /\ \A n \in U : p[n] \in U \cup {Nil}

TreeRoots(U, p) == {r \in U : p[r] = Nil}

-----------------------------------------------------------------------------
(* What is reached *)

LEMMA ReachTop == ASSUME NEW U, NEW p, NEW x \in U PROVE x \in Reach(U, p, x)
  BY DEF Reach

LEMMA ReachDown ==
  ASSUME NEW U, NEW p, NEW x, NEW m \in U, p[m] \in Reach(U, p, x)
  PROVE  m \in Reach(U, p, x)
  BY DEF Reach, Downwards

LEMMA ReachLeast ==
  ASSUME NEW U, NEW p, NEW x, NEW S \in SUBSET U, x \in S, Downwards(U, p, S)
  PROVE  Reach(U, p, x) \subseteq S
  BY DEF Reach

\* What is reached from x, but x itself, is reached through its parent.
LEMMA ReachUp ==
  ASSUME NEW U, NEW p, NEW x, NEW n \in Reach(U, p, x), n # x
  PROVE  p[n] \in Reach(U, p, x)
<1> DEFINE S == Reach(U, p, x) \ {n}
<1> SUFFICES ASSUME p[n] \notin Reach(U, p, x) PROVE FALSE
  OBVIOUS
<1>1. x \in U /\ S \in SUBSET U
  BY DEF Reach
<1>2. x \in S
  BY <1>1, ReachTop
<1>3. Downwards(U, p, S)
  <2> SUFFICES ASSUME NEW m \in U, p[m] \in S PROVE m \in S
    BY DEF Downwards
  <2>1. m \in Reach(U, p, x)
    BY ReachDown
  <2>2. m # n
    OBVIOUS
  <2> QED BY <2>1, <2>2
<1>4. Reach(U, p, x) \subseteq S
  <2> HIDE DEF S
  <2> QED BY <1>1, <1>2, <1>3, ReachLeast
<1> QED BY <1>4

\* Companies have no node in common.
LEMMA RootsApart ==
  ASSUME NEW U, NEW p, Forest(U, p), NEW r \in TreeRoots(U, p), NEW s \in TreeRoots(U, p), r # s
  PROVE  Reach(U, p, r) \cap Reach(U, p, s) = {}
<1> DEFINE D == Reach(U, p, r) \ Reach(U, p, s)
<1>1. r \in U /\ s \in U /\ p[r] = Nil /\ p[s] = Nil /\ Nil \notin U
  BY DEF TreeRoots, Forest
<1>2. r \notin Reach(U, p, s)
  <2>1. r \in Reach(U, p, s) => Nil \in Reach(U, p, s)
    BY <1>1, ReachUp
  <2> QED BY <1>1, <2>1 DEF Reach
<1>3. D \in SUBSET U /\ r \in D
  BY <1>1, <1>2, ReachTop DEF Reach
<1>4. Downwards(U, p, D)
  <2> SUFFICES ASSUME NEW m \in U, p[m] \in D PROVE m \in D
    BY DEF Downwards
  <2>1. m \in Reach(U, p, r)
    BY ReachDown
  <2>2. m # s
    BY <1>1 DEF Reach
  <2>3. m \notin Reach(U, p, s)
    BY <2>2, ReachUp
  <2> QED BY <2>1, <2>3
<1>5. Reach(U, p, r) \subseteq D
  <2> HIDE DEF D
  <2> QED BY <1>3, <1>4, ReachLeast
<1> QED BY <1>5

\* Without a cycle, every node is in a company.
LEMMA HasRoot ==
  ASSUME NEW U, NEW p, Forest(U, p), Acyclic(U, p), NEW n \in U
  PROVE  \E r \in TreeRoots(U, p) : n \in Reach(U, p, r)
<1> DEFINE S == {m \in U : \A r \in TreeRoots(U, p) : m \notin Reach(U, p, r)}
<1> SUFFICES ASSUME S # {} PROVE FALSE
  OBVIOUS
<1>1. PICK m \in S : p[m] \notin S
  BY DEF Acyclic
<1>2. p[m] \in U \cup {Nil}
  BY DEF Forest
<1>3. CASE p[m] = Nil
  <2>1. m \in TreeRoots(U, p)
    BY <1>3 DEF TreeRoots
  <2> QED BY <2>1, ReachTop
<1>4. CASE p[m] \in U
  <2>1. PICK r \in TreeRoots(U, p) : p[m] \in Reach(U, p, r)
    BY <1>1, <1>4
  <2>2. m \in Reach(U, p, r)
    BY <2>1, ReachDown
  <2> QED BY <2>2
<1> QED BY <1>2, <1>3, <1>4
-----------------------------------------------------------------------------
(* What a step does to what is reached *)

\* A node that moves below one that is not under it leaves the tree a forest.
LEMMA MoveAcyclic ==
  ASSUME NEW U, NEW p, Forest(U, p), Acyclic(U, p), NEW m \in U, NEW t \in U,
         t \notin Reach(U, p, m)
  PROVE  Forest(U, [p EXCEPT ![m] = t]) /\ Acyclic(U, [p EXCEPT ![m] = t])
<1> DEFINE q == [p EXCEPT ![m] = t]
<1>1. Forest(U, q) /\ q[m] = t /\ \A n \in U \ {m} : q[n] = p[n]
  BY DEF Forest
<1>2. Acyclic(U, q)
  <2> SUFFICES ASSUME NEW S \in SUBSET U, S # {}, \A n \in S : q[n] \in S PROVE FALSE
    BY DEF Acyclic
  <2> DEFINE T == S \ Reach(U, p, m)
  <2>1. m \in S
    <3>1. PICK n \in S : p[n] \notin S
      BY DEF Acyclic
    <3> QED BY <3>1, <1>1
  <2>2. T \in SUBSET U /\ t \in T
    BY <2>1, <1>1
  <2>3. PICK n \in T : p[n] \notin T
    BY <2>2 DEF Acyclic
  <2>4. n # m
    BY <2>3, ReachTop
  <2>5. p[n] \in S
    BY <2>3, <2>4, <1>1
  <2>6. n \in Reach(U, p, m)
    BY <2>3, <2>5, ReachDown
  <2> QED BY <2>3, <2>6
<1> QED BY <1>1, <1>2

\* It takes along what is under it, and stays in the company.
LEMMA MoveKeeps ==
  ASSUME NEW U, NEW p, Forest(U, p), NEW m \in U, NEW t \in U,
         t \notin Reach(U, p, m),
         NEW c \in TreeRoots(U, p), m \in Reach(U, p, c), t \in Reach(U, p, c),
         NEW r \in TreeRoots(U, p)
  PROVE  Reach(U, p, r) \subseteq Reach(U, [p EXCEPT ![m] = t], r)
<1> DEFINE q == [p EXCEPT ![m] = t]
<1>1. q[m] = t /\ (\A n \in U \ {m} : q[n] = p[n]) /\ Nil \notin U
  BY DEF Forest
<1> SUFFICES ASSUME NEW n \in Reach(U, p, r), NEW T \in SUBSET U, r \in T,
                    Downwards(U, q, T)
             PROVE  n \in T
  BY DEF Reach, TreeRoots
<1>2. \A k \in U : q[k] \in T => k \in T
  BY DEF Downwards
<1> HIDE DEF q
\* Whatever is above m, or beside it, is in T.
<1>3. Reach(U, p, r) \subseteq T \cup Reach(U, p, m)
  <2> DEFINE S == T \cup Reach(U, p, m)
  <2>1. S \in SUBSET U /\ r \in S
    BY DEF Reach
  <2>2. ASSUME NEW k \in U, p[k] \in S PROVE k \in S
    <3>1. CASE p[k] \in Reach(U, p, m)
      BY <3>1, ReachDown
    <3>2. CASE p[k] \in T /\ k # m
      BY <3>2, <1>1, <1>2
    <3>3. CASE k = m
      BY <3>3, ReachTop
    <3> QED BY <2>2, <3>1, <3>2, <3>3
  <2>3. Downwards(U, p, S)
    BY <2>2 DEF Downwards
  <2> HIDE DEF S
  <2> QED BY <2>1, <2>3, ReachLeast DEF S
<1>4. CASE r # c
  <2>1. n \notin Reach(U, p, c)
    BY <1>4, RootsApart
  <2>2. Reach(U, p, m) \subseteq Reach(U, p, c)
    <3>1. Reach(U, p, c) \in SUBSET U /\ Downwards(U, p, Reach(U, p, c))
      BY ReachDown DEF Reach, Downwards
    <3> QED BY <3>1, ReachLeast
  <2> QED BY <1>3, <2>1, <2>2
<1>5. CASE r = c
  <2>1. m \in T
    BY <1>5, <1>3, <1>1, <1>2
  <2>2. Reach(U, p, m) \subseteq T
    <3> DEFINE S == T \cup (U \ Reach(U, p, m))
    <3>1. S \in SUBSET U /\ m \in S
      BY <2>1
    <3>2. ASSUME NEW k \in U, p[k] \in S PROVE k \in S
      <4> SUFFICES ASSUME k \in Reach(U, p, m), k # m PROVE k \in T
        BY <2>1
      <4>1. p[k] \in Reach(U, p, m)
        BY ReachUp
      <4>2. p[k] \in T
        BY <3>2, <4>1
      <4> QED BY <4>2, <1>1, <1>2
    <3>3. Downwards(U, p, S)
      BY <3>2 DEF Downwards
    <3>4. Reach(U, p, m) \subseteq S
      <4> HIDE DEF S
      <4> QED BY <3>1, <3>3, ReachLeast
    <3> QED BY <3>4
  <2> QED BY <1>3, <2>2
<1> QED BY <1>4, <1>5

\* It brings nothing under a node of another company.
LEMMA MoveElsewhere ==
  ASSUME NEW U, NEW p, Forest(U, p), NEW m \in U, NEW t \in U,
         NEW c \in TreeRoots(U, p), t \in Reach(U, p, c),
         NEW r \in TreeRoots(U, p), r # c, NEW x \in Reach(U, p, r)
  PROVE  Reach(U, [p EXCEPT ![m] = t], x) \subseteq Reach(U, p, x)
<1> DEFINE q == [p EXCEPT ![m] = t]
<1>1. q[m] = t /\ \A n \in U \ {m} : q[n] = p[n]
  BY DEF Forest
<1>2. Reach(U, p, r) \in SUBSET U /\ Downwards(U, p, Reach(U, p, r))
  BY ReachDown DEF Reach, Downwards
<1>3. Reach(U, p, x) \subseteq Reach(U, p, r)
  BY <1>2, ReachLeast
<1>4. t \notin Reach(U, p, x)
  BY <1>3, RootsApart
<1>5. Downwards(U, q, Reach(U, p, x))
  <2> SUFFICES ASSUME NEW k \in U, q[k] \in Reach(U, p, x) PROVE k \in Reach(U, p, x)
    BY DEF Downwards
  <2>1. k # m
    BY <1>1, <1>4
  <2> QED BY <1>1, <2>1, ReachDown
<1>6. x \in U /\ Reach(U, p, x) \in SUBSET U
  BY <1>2 DEF Reach
<1> HIDE DEF q
<1> QED BY <1>5, <1>6, ReachTop, ReachLeast DEF q

\* A new row, a company's or one below an old node, changes nothing among the old ones.
LEMMA GrowAcyclic ==
  ASSUME NEW U, NEW p, Forest(U, p), Acyclic(U, p), NEW n \in Nodes \ U, NEW t \in U \cup {Nil}
  PROVE  Forest(U \cup {n}, [p EXCEPT ![n] = t]) /\ Acyclic(U \cup {n}, [p EXCEPT ![n] = t])
<1> DEFINE q == [p EXCEPT ![n] = t]
<1>1. q[n] = t /\ (\A k \in U : q[k] = p[k] /\ q[k] # n) /\ t # n
  BY DEF Forest
<1>2. Forest(U \cup {n}, q)
  BY <1>1 DEF Forest
<1>3. Acyclic(U \cup {n}, q)
  <2> SUFFICES ASSUME NEW S \in SUBSET (U \cup {n}), S # {}, \A k \in S : q[k] \in S
               PROVE  FALSE
    BY DEF Acyclic
  <2>1. t \in U \cup {Nil} /\ Nil \notin U \cup {n}
    BY DEF Forest
  <2>2. S \ {n} \in SUBSET U /\ S \ {n} # {}
    BY <1>1, <2>1
  <2>3. PICK k \in S \ {n} : p[k] \notin S \ {n}
    BY <2>2 DEF Acyclic
  <2> QED BY <1>1, <2>2, <2>3
<1> QED BY <1>2, <1>3

LEMMA GrowKeeps ==
  ASSUME NEW U, NEW p, Forest(U, p), NEW n \in Nodes \ U, NEW t \in U \cup {Nil},
         NEW x \in U
  PROVE  /\ Reach(U, p, x) \subseteq Reach(U \cup {n}, [p EXCEPT ![n] = t], x)
         /\ Reach(U \cup {n}, [p EXCEPT ![n] = t], x) \subseteq Reach(U, p, x) \cup {n}
<1> DEFINE q == [p EXCEPT ![n] = t]
           V == U \cup {n}
<1>1. q[n] = t /\ (\A k \in U : q[k] = p[k] /\ q[k] # n) /\ t # n
  BY DEF Forest
<1>2. Reach(U, p, x) \subseteq Reach(V, q, x)
  <2> SUFFICES ASSUME NEW k \in Reach(U, p, x), NEW S \in SUBSET V, x \in S, Downwards(V, q, S)
               PROVE  k \in S
    BY DEF Reach
  <2>1. Downwards(U, p, S \cap U)
    BY <1>1 DEF Downwards
  <2>2. Reach(U, p, x) \subseteq S \cap U
    BY <2>1, ReachLeast
  <2> QED BY <2>2
<1>3. Reach(V, q, x) \subseteq Reach(U, p, x) \cup {n}
  <2> DEFINE S == Reach(U, p, x) \cup {n}
  <2>1. S \in SUBSET V /\ x \in S
    BY ReachTop DEF Reach
  <2>2. Downwards(V, q, S)
    <3> SUFFICES ASSUME NEW k \in U, q[k] \in S PROVE k \in S
      BY DEF Downwards
    <3> QED BY <1>1, ReachDown
  <2> HIDE DEF S, V, q
  <2> QED BY <2>1, <2>2, ReachLeast DEF S
<1> QED BY <1>2, <1>3

\* A row that goes has nothing below it.
LEMMA ShrinkAcyclic ==
  ASSUME NEW U, NEW p, Forest(U, p), Acyclic(U, p), NEW n \in U, \A m \in U : p[m] # n
  PROVE  Forest(U \ {n}, [p EXCEPT ![n] = Nil]) /\ Acyclic(U \ {n}, [p EXCEPT ![n] = Nil])
<1> DEFINE q == [p EXCEPT ![n] = Nil]
<1>1. \A k \in U \ {n} : q[k] = p[k] /\ q[k] # n
  BY DEF Forest
<1>2. Forest(U \ {n}, q)
  BY <1>1 DEF Forest
<1>3. Acyclic(U \ {n}, q)
  BY <1>1 DEF Acyclic
<1> QED BY <1>2, <1>3

LEMMA ShrinkKeeps ==
  ASSUME NEW U, NEW p, Forest(U, p), NEW n \in U, \A m \in U : p[m] # n, NEW x \in U \ {n}
  PROVE  /\ Reach(U, p, x) \ {n} \subseteq Reach(U \ {n}, [p EXCEPT ![n] = Nil], x)
         /\ Reach(U \ {n}, [p EXCEPT ![n] = Nil], x) \subseteq Reach(U, p, x)
<1> DEFINE q == [p EXCEPT ![n] = Nil]
           V == U \ {n}
<1>1. \A k \in V : q[k] = p[k] /\ q[k] # n
  BY DEF Forest
<1>2. Reach(U, p, x) \ {n} \subseteq Reach(V, q, x)
  <2> SUFFICES ASSUME NEW k \in Reach(U, p, x) \ {n}, NEW S \in SUBSET V, x \in S,
                      Downwards(V, q, S)
               PROVE  k \in S
    BY DEF Reach
  <2>1. Downwards(U, p, S \cup {n})
    BY <1>1 DEF Downwards
  <2>2. Reach(U, p, x) \subseteq S \cup {n}
    BY <2>1, ReachLeast
  <2> QED BY <2>2
<1>3. Reach(V, q, x) \subseteq Reach(U, p, x)
  <2> DEFINE S == Reach(U, p, x) \ {n}
  <2>1. S \in SUBSET V /\ x \in S
    BY ReachTop DEF Reach
  <2>2. Downwards(V, q, S)
    <3> SUFFICES ASSUME NEW k \in V, q[k] \in S PROVE k \in S
      BY DEF Downwards
    <3> QED BY <1>1, ReachDown
  <2>3. Reach(V, q, x) \subseteq S
    <3> HIDE DEF S, V, q
    <3> QED BY <2>1, <2>2, ReachLeast
  <2> QED BY <2>3
<1> QED BY <1>2, <1>3
-----------------------------------------------------------------------------
(* The inductive invariant *)

\* A request that would move a node of U below another: both are in one company, and
\* once it has that company's lock, its cycle guard is true until it writes.
MoveFits(U, p, r) ==
    r.op = "move" /\ r.node \in U /\ r.to \in U =>
        /\ \E c \in TreeRoots(U, p) : r.node \in Reach(U, p, c) /\ r.to \in Reach(U, p, c)
        /\ r.locks # Nil =>
              /\ r.to \notin Reach(U, p, r.node)
              /\ r.locks \in TreeRoots(U, p)
              /\ r.node \in Reach(U, p, r.locks) /\ r.to \in Reach(U, p, r.locks)

\* The fields a request carries, by what it is asked for.
Asked(r) ==
    /\ r.op # "move" => r.locks = Nil
    /\ r.op \in {"create", "delete"} => r.node \in Nodes
    /\ r.op \in {"hire", "edit"} => r.emp \in Staff
    /\ r.op = "hire" => r.place \in Places \cup {Nil}
    /\ r.op = "close" => r.place \in Places

\* The nodes of a move are rows, or were: an id that is free now is none of them.
KnownByRequest(V, r) == r.op = "move" => r.node \in V /\ r.to \in V

LockedOnce ==
    \A a, b \in Admins :
        a # b /\ request[a].locks # Nil => request[a].locks # request[b].locks

\* Whoever is on a node that is being deleted came after the count.
CountedBelow == \A a \in Admins :
    request[a].op = "delete" => MembersOf({request[a].node}) \subseteq newcomers[a]

TreeIInv ==
    /\ TreeTypeOK
    /\ Forest(units, parent)
    /\ Acyclic(units, parent)
    /\ \A a \in Admins : Asked(request[a])
    /\ \A a \in Admins : KnownByRequest(units \cup gone, request[a])
    /\ \A a \in Admins : MoveFits(units, parent, request[a])
    /\ LockedOnce
    /\ CountedBelow

-----------------------------------------------------------------------------
(* What the steps of others leave of a move *)

LEMMA FitsGrow ==
  ASSUME NEW U, NEW p, Forest(U, p), NEW n \in Nodes \ U, NEW t \in U \cup {Nil},
         NEW r, MoveFits(U, p, r), r.op = "move" => r.node # n /\ r.to # n
  PROVE  MoveFits(U \cup {n}, [p EXCEPT ![n] = t], r)
<1> DEFINE q == [p EXCEPT ![n] = t]
           V == U \cup {n}
<1> SUFFICES ASSUME r.op = "move", r.node \in V, r.to \in V
             PROVE  MoveFits(V, q, r)
  BY DEF MoveFits
<1>1. r.node \in U /\ r.to \in U
  OBVIOUS
<1>2. \A x \in TreeRoots(U, p) : x \in U /\ x \in TreeRoots(V, q)
  BY DEF TreeRoots, Forest
<1>3. \A x \in U : Reach(U, p, x) \subseteq Reach(V, q, x) /\ Reach(V, q, x) \subseteq Reach(U, p, x) \cup {n}
  BY GrowKeeps
<1> HIDE DEF q, V
<1> QED BY <1>1, <1>2, <1>3 DEF MoveFits

LEMMA FitsShrink ==
  ASSUME NEW U, NEW p, Forest(U, p), NEW n \in U, \A m \in U : p[m] # n,
         NEW r, MoveFits(U, p, r)
  PROVE  MoveFits(U \ {n}, [p EXCEPT ![n] = Nil], r)
<1> DEFINE q == [p EXCEPT ![n] = Nil]
           V == U \ {n}
<1> SUFFICES ASSUME r.op = "move", r.node \in V, r.to \in V
             PROVE  MoveFits(V, q, r)
  BY DEF MoveFits
<1>1. r.node \in U /\ r.to \in U /\ r.node # n /\ r.to # n
  OBVIOUS
\* The company is not the row that goes: it has somebody below it.
<1>2. Reach(U, p, n) \subseteq {n}
  <2>1. Downwards(U, p, {n})
    BY DEF Downwards
  <2> QED BY <2>1, ReachLeast
<1>3. \A x \in TreeRoots(U, p) : r.node \in Reach(U, p, x) => x \in V /\ x \in TreeRoots(V, q)
  BY <1>1, <1>2 DEF TreeRoots, Forest
<1>4. \A x \in V : Reach(U, p, x) \ {n} \subseteq Reach(V, q, x) /\ Reach(V, q, x) \subseteq Reach(U, p, x)
  BY ShrinkKeeps
<1> HIDE DEF q, V
<1> QED BY <1>1, <1>3, <1>4 DEF MoveFits

LEMMA FitsMove ==
  ASSUME NEW U, NEW p, Forest(U, p), NEW s, MoveFits(U, p, s),
         s.op = "move", s.node \in U, s.to \in U, s.locks # Nil,
         NEW r, MoveFits(U, p, r), r.locks # Nil => r.locks # s.locks
  PROVE  MoveFits(U, [p EXCEPT ![s.node] = s.to], r)
<1> DEFINE m == s.node
           t == s.to
           q == [p EXCEPT ![m] = t]
<1> SUFFICES ASSUME r.op = "move", r.node \in U, r.to \in U
             PROVE  MoveFits(U, q, r)
  BY DEF MoveFits
<1>1. /\ t \notin Reach(U, p, m) /\ s.locks \in TreeRoots(U, p)
      /\ m \in Reach(U, p, s.locks) /\ t \in Reach(U, p, s.locks)
  BY DEF MoveFits
<1>2. m \notin TreeRoots(U, p)
  <2>1. m \in TreeRoots(U, p) => m = s.locks
    BY <1>1, RootsApart, ReachTop
  <2> QED BY <1>1, <2>1
<1>3. \A x \in TreeRoots(U, p) : x \in TreeRoots(U, q)
  BY <1>2 DEF TreeRoots, Forest
<1>4. \A x \in TreeRoots(U, p) : Reach(U, p, x) \subseteq Reach(U, q, x)
  BY <1>1, MoveKeeps
<1>5. ASSUME r.locks # Nil PROVE Reach(U, q, r.node) \subseteq Reach(U, p, r.node)
  <2>1. r.locks \in TreeRoots(U, p) /\ r.node \in Reach(U, p, r.locks)
    BY <1>5 DEF MoveFits
  <2> QED BY <1>1, <1>5, <2>1, MoveElsewhere
<1> HIDE DEF q
<1> QED BY <1>3, <1>4, <1>5 DEF MoveFits
-----------------------------------------------------------------------------
(* The walks of the model in these terms *)

LEMMA UnderIsReach == \A x : Under(x) = Reach(units, parent, x)
  BY DEF Under, Reach, Downwards

LEMMA CompaniesAreRoots == Companies = TreeRoots(units, parent)
  BY DEF Companies, TreeRoots

LEMMA RootOfNode ==
  ASSUME Forest(units, parent), Acyclic(units, parent), NEW n \in units
  PROVE  RootOf(n) \in TreeRoots(units, parent) /\ n \in Reach(units, parent, RootOf(n))
<1> DEFINE above == {r \in Companies : n \in Under(r)}
<1>1. above # {}
  BY HasRoot, UnderIsReach, CompaniesAreRoots
<1>2. RootOf(n) \in above
  BY <1>1 DEF RootOf
<1> QED BY <1>2, UnderIsReach, CompaniesAreRoots

LEMMA TreeInitIInv == TreeInit => TreeIInv
<1> SUFFICES ASSUME TreeInit PROVE TreeIInv
  OBVIOUS
<1> USE DEF TreeInit
<1>1. PICK t \in FirstTrees : units = t.units /\ parent = t.parent
  OBVIOUS
<1>2. Forest(units, parent) /\ Acyclic(units, parent)
  BY <1>1, TreeAssumption DEF Forest, Acyclic
<1>3. \A a \in Admins : request[a] = NoRequest
  OBVIOUS
<1>4. TreeTypeOK
  BY <1>2, <1>3 DEF TreeTypeOK, Forest, Requests, NoRequest, Ops
<1> QED BY <1>2, <1>3, <1>4 DEF TreeIInv, Asked, KnownByRequest, MoveFits, LockedOnce, CountedBelow, NoRequest

-----------------------------------------------------------------------------
(* Steps that change no row of organizations *)

\* A handler that has read and decided.
LEMMA BeginTreeIInv ==
  ASSUME TreeIInv, NEW a \in Admins, NEW f \in Requests, Begin(a, f), UNCHANGED rows,
         f.locks = Nil, Asked(f), KnownByRequest(units \cup gone, f), MoveFits(units, parent, f),
         f.op = "delete" => MembersOf({f.node}) = {}
  PROVE  TreeIInv'
<1> USE DEF TreeIInv, Begin, rows
<1>1. request' = [request EXCEPT ![a] = f] /\ request \in [Admins -> Requests]
  BY DEF TreeTypeOK
<1>2. TreeTypeOK'
  BY <1>1 DEF TreeTypeOK
<1>3. \A b \in Admins : Asked(request'[b]) /\ KnownByRequest(units \cup gone, request'[b])
                          /\ MoveFits(units, parent, request'[b])
  BY <1>1
<1>4. LockedOnce'
  BY <1>1 DEF LockedOnce
<1>5. CountedBelow'
  BY <1>1 DEF CountedBelow, MembersOf, TreeTypeOK
<1> QED BY <1>2, <1>3, <1>4, <1>5

\* One that has written, or failed.
LEMMA DoneFields ==
  ASSUME TreeIInv, NEW a \in Admins, Done(a)
  PROVE  /\ request' \in [Admins -> Requests]
         /\ \A b \in Admins : request'[b] = IF b = a THEN NoRequest ELSE request[b]
         /\ \A b \in Admins : Asked(request'[b])
         /\ LockedOnce'
<1> USE DEF TreeIInv, Done
<1>1. request' = [request EXCEPT ![a] = NoRequest] /\ request \in [Admins -> Requests]
  BY DEF TreeTypeOK
<1>2. NoRequest \in Requests /\ Asked(NoRequest) /\ NoRequest.locks = Nil
  BY DEF NoRequest, Requests, Asked, Ops
<1> QED BY <1>1, <1>2 DEF LockedOnce

\* The tree is as it was, and ids that are gone stay gone.
LEMMA DoneIInv ==
  ASSUME TreeIInv, NEW a \in Admins, Done(a), UNCHANGED <<units, parent>>, gone \subseteq gone',
         TreeTypeOK', CountedBelow'
  PROVE  TreeIInv'
<1>1. \A b \in Admins : request'[b] = NoRequest \/ request'[b] = request[b]
  BY DoneFields
<1>2. \A b \in Admins : KnownByRequest(units' \cup gone', request'[b]) /\ MoveFits(units, parent, request'[b])
  BY <1>1 DEF TreeIInv, KnownByRequest, MoveFits, NoRequest
<1> QED BY <1>2, DoneFields DEF TreeIInv
-----------------------------------------------------------------------------
(* One lemma per action *)

LEMMA BeginsIInv ==
  ASSUME TreeIInv, NEW a \in Admins,
         \/ \E n \in Nodes : BeginDelete(a, n)
         \/ \E n, to \in Nodes : BeginCreate(a, n, to)
         \/ \E l \in Places : BeginClose(a, l) \/ \E n \in Nodes : BeginOpen(a, l, n)
         \/ \E e \in Staff, n \in Nodes, l \in Places \cup {Nil} : BeginHire(a, e, n, l)
         \/ \E e \in Staff, n \in Nodes \cup {Unset}, l \in Places \cup {Nil, Unset} :
               BeginEdit(a, e, n, l)
  PROVE  TreeIInv'
<1> USE DEF Ops, Requests, NoRequest, Asked, KnownByRequest, MoveFits
<1>1. ASSUME NEW n \in Nodes, BeginDelete(a, n) PROVE TreeIInv'
  <2> DEFINE f == [NoRequest EXCEPT !.op = "delete", !.node = n]
  <2>1. f \in Requests /\ f.op = "delete" /\ f.node = n /\ f.locks = Nil
    OBVIOUS
  <2>2. Begin(a, f) /\ UNCHANGED rows /\ MembersOf({n}) = {}
    BY <1>1 DEF BeginDelete
  <2> HIDE DEF f
  <2> QED BY <2>1, <2>2, BeginTreeIInv
<1>2. ASSUME NEW n \in Nodes, NEW to \in Nodes, BeginCreate(a, n, to) PROVE TreeIInv'
  <2> DEFINE f == [NoRequest EXCEPT !.op = "create", !.node = n, !.to = to]
  <2>1. f \in Requests /\ f.op = "create" /\ f.node = n /\ f.locks = Nil
    OBVIOUS
  <2>2. Begin(a, f) /\ UNCHANGED rows
    BY <1>2 DEF BeginCreate
  <2> HIDE DEF f
  <2> QED BY <2>1, <2>2, BeginTreeIInv
<1>3. ASSUME NEW l \in Places, BeginClose(a, l) PROVE TreeIInv'
  <2> DEFINE f == [NoRequest EXCEPT !.op = "close", !.place = l]
  <2>1. f \in Requests /\ f.op = "close" /\ f.place = l /\ f.locks = Nil
    OBVIOUS
  <2>2. Begin(a, f) /\ UNCHANGED rows
    BY <1>3 DEF BeginClose
  <2> HIDE DEF f
  <2> QED BY <2>1, <2>2, BeginTreeIInv
<1>4. ASSUME NEW l \in Places, NEW n \in Nodes, BeginOpen(a, l, n) PROVE TreeIInv'
  <2> DEFINE f == [NoRequest EXCEPT !.op = "open", !.place = l, !.to = n]
  <2>1. f \in Requests /\ f.op = "open" /\ f.place = l /\ f.locks = Nil
    OBVIOUS
  <2>2. Begin(a, f) /\ UNCHANGED rows
    BY <1>4 DEF BeginOpen
  <2> HIDE DEF f
  <2> QED BY <2>1, <2>2, BeginTreeIInv
<1>5. ASSUME NEW e \in Staff, NEW n \in Nodes, NEW l \in Places \cup {Nil},
             BeginHire(a, e, n, l)
      PROVE  TreeIInv'
  <2> DEFINE f == [NoRequest EXCEPT !.op = "hire", !.emp = e, !.to = n, !.place = l]
  <2>1. f \in Requests /\ f.op = "hire" /\ f.emp = e /\ f.place = l /\ f.locks = Nil
    OBVIOUS
  <2>2. Begin(a, f) /\ UNCHANGED rows
    BY <1>5 DEF BeginHire
  <2> HIDE DEF f
  <2> QED BY <2>1, <2>2, BeginTreeIInv
<1>6. ASSUME NEW e \in Staff, NEW n \in Nodes \cup {Unset}, NEW l \in Places \cup {Nil, Unset},
             BeginEdit(a, e, n, l)
      PROVE  TreeIInv'
  <2> DEFINE f == [NoRequest EXCEPT !.op = "edit", !.emp = e, !.to = n, !.place = l]
  <2>1. f \in Requests /\ f.op = "edit" /\ f.emp = e /\ f.place = l /\ f.locks = Nil
    OBVIOUS
  <2>2. Begin(a, f) /\ UNCHANGED rows
    BY <1>6 DEF BeginEdit
  <2> HIDE DEF f
  <2> QED BY <2>1, <2>2, BeginTreeIInv
<1> QED BY <1>1, <1>2, <1>3, <1>4, <1>5, <1>6

\* A move is asked for within one company.
LEMMA BeginMoveIInv ==
  ASSUME TreeIInv, NEW a \in Admins, NEW n \in Nodes, NEW to \in Nodes, BeginMove(a, n, to)
  PROVE  TreeIInv'
<1> DEFINE f == [NoRequest EXCEPT !.op = "move", !.node = n, !.to = to]
<1>1. f \in Requests /\ f.op = "move" /\ f.node = n /\ f.to = to /\ f.locks = Nil
  BY DEF Ops, Requests, NoRequest
<1>2. Begin(a, f) /\ UNCHANGED rows
  BY DEF BeginMove
<1>3. n \in units /\ to \in units /\ RootOf(to) = RootOf(n)
  BY DEF BeginMove, InTenant
<1>4. MoveFits(units, parent, f)
  <2>1. /\ RootOf(n) \in TreeRoots(units, parent)
        /\ n \in Reach(units, parent, RootOf(n))
        /\ to \in Reach(units, parent, RootOf(n))
    BY <1>3, RootOfNode DEF TreeIInv
  <2> HIDE DEF f
  <2> QED BY <1>1, <2>1 DEF MoveFits
<1>5. Asked(f) /\ KnownByRequest(units \cup gone, f)
  BY <1>1, <1>3 DEF Asked, KnownByRequest
<1> HIDE DEF f
<1> QED BY <1>1, <1>2, <1>4, <1>5, BeginTreeIInv

\* The lock is that of the company both nodes are still in.
LEMMA LockForMoveIInv ==
  ASSUME TreeIInv, NEW a \in Admins, LockForMove(a)
  PROVE  TreeIInv'
<1> DEFINE r == request[a]
           root == RootOf(r.node)
           f == [r EXCEPT !.locks = root, !.barred = Under(r.node)]
<1> USE DEF TreeIInv
<1>1. /\ r.op = "move" /\ r.to \notin Reach(units, parent, r.node)
      /\ \A b \in Admins : request[b].locks = Nil \/ request[b].locks # root
      /\ request' = [request EXCEPT ![a] = f]
      /\ UNCHANGED <<rows, newcomers>>
  BY UnderIsReach DEF LockForMove
<1>2. r \in Requests /\ request \in [Admins -> Requests]
  BY DEF TreeTypeOK
<1>3. root \in Nodes \cup {Nil}
  <2>1. root = Nil \/ root \in Companies
    BY DEF RootOf
  <2> QED BY <2>1 DEF Companies, Forest
<1>4. /\ f \in Requests /\ f.op = "move" /\ f.node = r.node /\ f.to = r.to
      /\ f.locks = root
  <2>1. Under(r.node) \subseteq Nodes
    BY DEF Under, Forest
  <2> QED BY <1>1, <1>2, <1>3, <2>1 DEF Requests
<1>5. MoveFits(units, parent, f)
  <2> SUFFICES ASSUME r.node \in units, r.to \in units PROVE MoveFits(units, parent, f)
    BY <1>4 DEF MoveFits
  <2>1. root \in TreeRoots(units, parent) /\ r.node \in Reach(units, parent, root)
    BY RootOfNode
  <2>2. PICK c \in TreeRoots(units, parent) :
          r.node \in Reach(units, parent, c) /\ r.to \in Reach(units, parent, c)
    BY <1>1 DEF MoveFits
  <2>3. c = root
    BY <2>1, <2>2, RootsApart
  <2> HIDE DEF f
  <2> QED BY <1>1, <1>4, <2>1, <2>2, <2>3 DEF MoveFits
<1> HIDE DEF f
<1>6. \A b \in Admins : request'[b] = IF b = a THEN f ELSE request[b]
  BY <1>1, <1>2
<1>7. TreeTypeOK'
  BY <1>1, <1>2, <1>4 DEF TreeTypeOK, rows
<1>8. LockedOnce'
  BY <1>1, <1>4, <1>6 DEF LockedOnce
<1>9. \A b \in Admins : Asked(request'[b]) /\ KnownByRequest(units \cup gone, request'[b])
                          /\ MoveFits(units, parent, request'[b])
  <2>1. Asked(f) /\ KnownByRequest(units \cup gone, f)
    BY <1>1, <1>4 DEF Asked, KnownByRequest
  <2> QED BY <1>5, <1>6, <2>1
<1>10. CountedBelow'
  BY <1>1, <1>4, <1>6 DEF CountedBelow, MembersOf, rows
<1> QED BY <1>1, <1>7, <1>8, <1>9, <1>10 DEF rows
LEMMA CreateOrganizationIInv ==
  ASSUME TreeIInv, NEW a \in Admins, NEW n \in Nodes, CreateOrganization(a, n)
  PROVE  TreeIInv'
<1> USE DEF TreeIInv
<1>1. /\ n \in Nodes \ units /\ n \notin units \cup gone
      /\ units' = units \cup {n} /\ parent' = [parent EXCEPT ![n] = Nil]
      /\ UNCHANGED <<roster, gone, unit, place, company, request, newcomers>>
  BY DEF CreateOrganization
<1>2. Forest(units', parent') /\ Acyclic(units', parent')
  BY <1>1, GrowAcyclic
<1>3. \A b \in Admins : MoveFits(units', parent', request[b])
  BY <1>1, FitsGrow DEF KnownByRequest
<1>4. TreeTypeOK'
  BY <1>1, <1>2 DEF TreeTypeOK, Forest
<1> QED BY <1>1, <1>2, <1>3, <1>4 DEF KnownByRequest, LockedOnce, CountedBelow, MembersOf

LEMMA CreateIInv ==
  ASSUME TreeIInv, NEW a \in Admins, Create(a)
  PROVE  TreeIInv'
<1> DEFINE n == request[a].node
           t == request[a].to
<1> USE DEF TreeIInv
<1>1. /\ n \in Nodes \ units /\ n \notin units \cup gone /\ t \in units
      /\ units' = units \cup {n} /\ parent' = [parent EXCEPT ![n] = t]
      /\ Done(a) /\ UNCHANGED <<roster, gone, unit, place, company, newcomers>>
  BY DEF Create, Asked
<1>2. Forest(units', parent') /\ Acyclic(units', parent')
  BY <1>1, GrowAcyclic
<1>3. \A b \in Admins : request'[b] = NoRequest \/ request'[b] = request[b]
  BY <1>1, DoneFields
<1>4. \A b \in Admins : MoveFits(units', parent', request[b])
  <2> HIDE DEF n, t
  <2> QED BY <1>1, FitsGrow DEF KnownByRequest
<1>5. \A b \in Admins : MoveFits(units', parent', request'[b])
  BY <1>3, <1>4 DEF MoveFits, NoRequest
<1>6. TreeTypeOK'
  BY <1>1, <1>2, DoneFields DEF TreeTypeOK, Forest
<1>7. \A b \in Admins : KnownByRequest(units' \cup gone', request'[b])
  BY <1>1, <1>3 DEF KnownByRequest, NoRequest
<1>8. CountedBelow'
  BY <1>1, <1>3 DEF CountedBelow, MembersOf, NoRequest
<1> QED BY <1>1, <1>2, <1>5, <1>6, <1>7, <1>8, DoneFields

\* The lock keeps the cycle guard true until here, and other companies are not moved by it.
LEMMA MoveIInv ==
  ASSUME TreeIInv, NEW a \in Admins, Move(a)
  PROVE  TreeIInv'
<1> DEFINE r == request[a]
<1> USE DEF TreeIInv
<1>1. /\ r.op = "move" /\ r.locks # Nil /\ r.node \in units /\ r.to \in units
      /\ parent' = [parent EXCEPT ![r.node] = r.to]
      /\ Done(a) /\ UNCHANGED <<roster, units, gone, unit, place, company, newcomers>>
  BY DEF Move
<1>2. r.to \notin Reach(units, parent, r.node)
  BY <1>1 DEF MoveFits
<1>3. Forest(units', parent') /\ Acyclic(units', parent')
  BY <1>1, <1>2, MoveAcyclic
<1>4. \A b \in Admins : b # a => MoveFits(units', parent', request[b])
  <2> SUFFICES ASSUME NEW b \in Admins, b # a PROVE MoveFits(units', parent', request[b])
    OBVIOUS
  <2>1. request[b].locks # Nil => request[b].locks # r.locks
    BY DEF LockedOnce
  <2> QED BY <1>1, <2>1, FitsMove
<1>5. \A b \in Admins : request'[b] = IF b = a THEN NoRequest ELSE request[b]
  BY <1>1, DoneFields
<1>6. \A b \in Admins : MoveFits(units', parent', request'[b])
  BY <1>4, <1>5 DEF MoveFits, NoRequest
<1>7. TreeTypeOK'
  BY <1>1, <1>3, DoneFields DEF TreeTypeOK, Forest
<1>8. \A b \in Admins : KnownByRequest(units' \cup gone', request'[b])
  BY <1>1, <1>5 DEF KnownByRequest, NoRequest
<1>9. CountedBelow'
  BY <1>1, <1>5 DEF CountedBelow, MembersOf, NoRequest
<1> QED BY <1>1, <1>3, <1>6, <1>7, <1>8, <1>9, DoneFields

LEMMA DeleteIInv ==
  ASSUME TreeIInv, NEW a \in Admins, Delete(a)
  PROVE  TreeIInv'
<1> DEFINE n == request[a].node
           swept == MembersOf({n})
           closed == {l \in Places : company[l] = n}
<1> USE DEF TreeIInv
<1>1. /\ n \in units /\ Children(n) = {} /\ units' = units \ {n}
      /\ parent' = [parent EXCEPT ![n] = Nil]
      /\ gone' = gone \cup {n} \cup swept \cup closed
      /\ unit' = [e \in Staff |-> IF e \in swept THEN Nil ELSE unit[e]]
      /\ place' = [e \in Staff |-> IF e \in swept \/ place[e] \in closed THEN Nil ELSE place[e]]
      /\ company' = [l \in Places |-> IF l \in closed THEN Nil ELSE company[l]]
      /\ Done(a) /\ UNCHANGED <<roster, newcomers>>
  BY DEF Delete
<1>2. \A m \in units : parent[m] # n
  BY <1>1 DEF Children
<1>3. Forest(units', parent') /\ Acyclic(units', parent')
  BY <1>1, <1>2, ShrinkAcyclic
<1>4. \A b \in Admins : request'[b] = NoRequest \/ request'[b] = request[b]
  BY <1>1, DoneFields
<1>5. \A b \in Admins : MoveFits(units', parent', request[b])
  <2> HIDE DEF n
  <2> QED BY <1>1, <1>2, FitsShrink
<1>6. \A b \in Admins : MoveFits(units', parent', request'[b])
  BY <1>4, <1>5 DEF MoveFits, NoRequest
<1>7. swept \subseteq Staff /\ closed \subseteq Places /\ n \in Nodes
  BY <1>1 DEF MembersOf, Forest
<1>8. TreeTypeOK'
  <2> HIDE DEF swept, closed, n
  <2>1. unit' \in [Staff -> Nodes \cup {Nil}] /\ place' \in [Staff -> Places \cup {Nil}]
        /\ company' \in [Places -> Nodes \cup {Nil}]
    BY <1>1 DEF TreeTypeOK
  <2>2. units' \subseteq Nodes /\ parent' \in [Nodes -> Nodes \cup {Nil}]
    BY <1>3 DEF Forest
  <2> QED BY <1>1, <1>7, <2>1, <2>2, DoneFields DEF TreeTypeOK
<1>9. \A b \in Admins : KnownByRequest(units' \cup gone', request'[b])
  <2> HIDE DEF swept, closed, n
  <2> QED BY <1>1, <1>4 DEF KnownByRequest, NoRequest
<1>10. CountedBelow'
  <2> SUFFICES ASSUME NEW b \in Admins, request'[b].op = "delete",
                      NEW e \in Staff, unit'[e] = request'[b].node
               PROVE  e \in newcomers[b]
    BY <1>1 DEF CountedBelow, MembersOf
  <2>1. request'[b] = request[b]
    BY <1>4 DEF NoRequest
  <2>2. unit[e] = request[b].node
    <3>1. request[b].node \in Nodes /\ Nil \notin Nodes
      BY <2>1 DEF Asked, Forest
    <3> HIDE DEF swept
    <3> QED BY <1>1, <2>1, <3>1
  <2> QED BY <2>1, <2>2 DEF CountedBelow, MembersOf
<1> QED BY <1>1, <1>3, <1>6, <1>8, <1>9, <1>10, DoneFields

LEMMA OpenCloseIInv ==
  ASSUME TreeIInv, NEW a \in Admins, Open(a) \/ Close(a)
  PROVE  TreeIInv'
<1> USE DEF TreeIInv
<1>1. Done(a) /\ UNCHANGED <<roster, units, parent, unit, newcomers>> /\ gone \subseteq gone'
  BY DEF Open, Close
<1>2. \A b \in Admins : request'[b] = NoRequest \/ request'[b] = request[b]
  BY <1>1, DoneFields
<1>3. CountedBelow'
  BY <1>1, <1>2 DEF CountedBelow, MembersOf, NoRequest
<1>4. TreeTypeOK'
  <2>1. request' \in [Admins -> Requests]
    BY <1>1, DoneFields
  <2>2. CASE Open(a)
    BY <1>1, <2>1, <2>2 DEF TreeTypeOK, Open
  <2>3. CASE Close(a)
    <3>1. request[a].place \in Places
      BY <2>3 DEF Close, Asked
    <3> QED BY <1>1, <2>1, <2>3, <3>1 DEF TreeTypeOK, Close
  <2> QED BY <2>2, <2>3
<1> QED BY <1>1, <1>3, <1>4, DoneIInv

\* Whoever is placed on a node that is being deleted is a newcomer to the deletion.
LEMMA PlacedIInv ==
  ASSUME TreeIInv, NEW a \in Admins, NEW e \in Staff, NEW n, NEW l \in Places \cup {Nil},
         Placed(a, e, n, l)
  PROVE  TreeIInv'
<1> USE DEF TreeIInv
<1>1. /\ n \in units /\ unit' = [unit EXCEPT ![e] = n] /\ place' = [place EXCEPT ![e] = l]
      /\ newcomers' = [b \in Admins |->
                          IF request[b].op = "delete" THEN newcomers[b] \cup {e} ELSE {}]
      /\ Done(a) /\ UNCHANGED <<roster, units, parent, gone, company>>
  BY DEF Placed
<1>2. \A b \in Admins : request'[b] = NoRequest \/ request'[b] = request[b]
  BY <1>1, DoneFields
<1>3. CountedBelow'
  <2> SUFFICES ASSUME NEW b \in Admins, request'[b].op = "delete",
                      NEW d \in Staff, unit'[d] = request'[b].node
               PROVE  d \in newcomers'[b]
    BY DEF CountedBelow, MembersOf
  <2>1. request'[b] = request[b]
    BY <1>2 DEF NoRequest
  <2>2. newcomers'[b] = newcomers[b] \cup {e}
    BY <1>1, <2>1
  <2>3. d # e => unit[d] = request[b].node
    BY <1>1, <2>1 DEF TreeTypeOK
  <2> QED BY <2>1, <2>2, <2>3 DEF CountedBelow, MembersOf
<1>4. TreeTypeOK'
  BY <1>1, DoneFields DEF TreeTypeOK, Forest
<1> QED BY <1>1, <1>3, <1>4, DoneIInv

LEMMA HireEditIInv ==
  ASSUME TreeIInv, NEW a \in Admins, Hire(a) \/ Edit(a)
  PROVE  TreeIInv'
<1> USE DEF TreeIInv
<1>1. CASE Hire(a)
  <2>1. request[a].emp \in Staff /\ request[a].place \in Places \cup {Nil}
    BY <1>1 DEF Hire, Asked
  <2> QED BY <1>1, <2>1, PlacedIInv DEF Hire
<1>2. CASE Edit(a)
  <2> DEFINE r == request[a]
             n == IF r.to = Unset THEN unit[r.emp] ELSE r.to
             l == IF r.place = Unset THEN place[r.emp] ELSE r.place
  <2>1. r.emp \in Staff /\ r \in Requests /\ Placed(a, r.emp, n, l)
    BY <1>2 DEF Edit, Asked, TreeTypeOK
  <2>2. l \in Places \cup {Nil}
    BY <2>1 DEF TreeTypeOK, Requests
  <2> HIDE DEF n, l, r
  <2> QED BY <2>1, <2>2, PlacedIInv
<1> QED BY <1>1, <1>2

LEMMA DropIInv ==
  ASSUME TreeIInv, NEW a \in Admins, Drop(a)
  PROVE  TreeIInv'
<1> USE DEF TreeIInv
<1>1. Done(a) /\ UNCHANGED <<rows, newcomers>>
  BY DEF Drop
<1>2. \A b \in Admins : request'[b] = NoRequest \/ request'[b] = request[b]
  BY <1>1, DoneFields
<1>3. CountedBelow'
  BY <1>1, <1>2 DEF CountedBelow, MembersOf, NoRequest, rows
<1>4. TreeTypeOK'
  BY <1>1, DoneFields DEF TreeTypeOK, rows
<1> QED BY <1>1, <1>3, <1>4, DoneIInv DEF rows

LEMMA StepIInv == TreeIInv /\ [TreeNext]_treeVars => TreeIInv'
<1> SUFFICES ASSUME TreeIInv, [TreeNext]_treeVars PROVE TreeIInv'
  OBVIOUS
<1>1. CASE UNCHANGED treeVars
  BY <1>1 DEF treeVars, TreeIInv, TreeTypeOK, LockedOnce, CountedBelow, MembersOf
<1>2. ASSUME NEW a \in Admins, NEW n \in Nodes, CreateOrganization(a, n) PROVE TreeIInv'
  BY <1>2, CreateOrganizationIInv
<1>3. ASSUME NEW a \in Admins, NEW n \in Nodes, NEW to \in Nodes, BeginMove(a, n, to) PROVE TreeIInv'
  BY <1>3, BeginMoveIInv
<1>4. ASSUME NEW a \in Admins,
             \/ LockForMove(a) \/ Create(a) \/ Move(a) \/ Delete(a) \/ Open(a) \/ Close(a)
             \/ Hire(a) \/ Edit(a) \/ Drop(a)
      PROVE  TreeIInv'
  BY <1>4, LockForMoveIInv, CreateIInv, MoveIInv, DeleteIInv, OpenCloseIInv, HireEditIInv, DropIInv
<1>5. ASSUME NEW a \in Admins,
             \/ \E n \in Nodes : BeginDelete(a, n)
             \/ \E n, to \in Nodes : BeginCreate(a, n, to)
             \/ \E l \in Places : BeginClose(a, l) \/ \E n \in Nodes : BeginOpen(a, l, n)
             \/ \E e \in Staff, n \in Nodes, l \in Places \cup {Nil} : BeginHire(a, e, n, l)
             \/ \E e \in Staff, n \in Nodes \cup {Unset}, l \in Places \cup {Nil, Unset} :
                   BeginEdit(a, e, n, l)
      PROVE  TreeIInv'
  BY <1>5, BeginsIInv
<1> QED BY <1>1, <1>2, <1>3, <1>4, <1>5 DEF TreeNext

\* Only three of the steps touch where somebody is placed.
LEMMA WhoMoves ==
  ASSUME TreeNext
  PROVE  \E a \in Admins : unit' = unit \/ Delete(a) \/ Hire(a) \/ Edit(a)
<1>1. ASSUME NEW a \in Admins, NEW n \in Nodes, CreateOrganization(a, n) \/ BeginDelete(a, n)
      PROVE  unit' = unit
  BY <1>1 DEF CreateOrganization, BeginDelete, rows
<1>2. ASSUME NEW a \in Admins, NEW n \in Nodes, NEW to \in Nodes,
             BeginCreate(a, n, to) \/ BeginMove(a, n, to)
      PROVE  unit' = unit
  BY <1>2 DEF BeginCreate, BeginMove, rows
<1>3. ASSUME NEW a \in Admins, NEW l \in Places,
             BeginClose(a, l) \/ \E n \in Nodes : BeginOpen(a, l, n)
      PROVE  unit' = unit
  BY <1>3 DEF BeginClose, BeginOpen, rows
<1>4. ASSUME NEW a \in Admins, NEW e \in Staff, NEW n, NEW l,
             BeginHire(a, e, n, l) \/ BeginEdit(a, e, n, l)
      PROVE  unit' = unit
  <2>1. CASE BeginHire(a, e, n, l)
    BY <2>1 DEF BeginHire, rows
  <2>2. CASE BeginEdit(a, e, n, l)
    BY <2>2 DEF BeginEdit, rows
  <2> QED BY <1>4, <2>1, <2>2
<1>5. ASSUME NEW a \in Admins, LockForMove(a) \/ Create(a) \/ Move(a) \/ Open(a) \/ Close(a) \/ Drop(a)
      PROVE  unit' = unit
  BY <1>5 DEF LockForMove, Create, Move, Open, Close, Drop, rows
<1>6. PICK a \in Admins :
        \/ unit' = unit
        \/ LockForMove(a) \/ Create(a) \/ Move(a) \/ Delete(a) \/ Open(a) \/ Close(a)
        \/ Hire(a) \/ Edit(a) \/ Drop(a)
  <2> HIDE DEF TreeNext
  <2> QED BY <1>1, <1>2, <1>3, <1>4 DEF TreeNext
<1> QED BY <1>5, <1>6

-----------------------------------------------------------------------------
(* The theorems *)

\* The inductive invariant: besides what it is for, that a move is within one company,
\* and that no two moves hold the lock of one company.
THEOREM TreeInductive == TreeSpec => []TreeIInv
<1> QED BY TreeInitIInv, StepIInv, PTL DEF TreeSpec

\* The rows keep their types, and requests the fields their handlers were given.
THEOREM TreeTyped == TreeSpec => []TreeTypeOK
<1>1. TreeIInv => TreeTypeOK
  BY DEF TreeIInv
<1> QED BY <1>1, TreeInductive, PTL

\* No node is ever above itself, whatever is moved, created and deleted at once: the
\* lock of the company (organization_service.py 396-410) suffices for any tree.
THEOREM MovesMakeNoCycle == TreeSpec => []NoCycle
<1>1. TreeIInv => NoCycle
  BY DEF TreeIInv, Acyclic, NoCycle
<1> QED BY <1>1, TreeInductive, PTL

\* Only who was placed on a node after its deletion had counted goes with it
\* (organization_service.py 434-440).
THEOREM CountBoundsLoss == TreeSpec => OnlyNewcomersAreLost
<1> DEFINE Lose ==
      \A e \in Staff : unit[e] # Nil /\ unit'[e] = Nil =>
          \E a \in Admins : request[a].op = "delete" /\ e \in newcomers[a]
<1>1. TreeIInv /\ [TreeNext]_treeVars => [Lose]_treeVars
  <2> SUFFICES ASSUME TreeIInv, TreeNext, NEW e \in Staff, unit[e] # Nil, unit'[e] = Nil
               PROVE  \E a \in Admins : request[a].op = "delete" /\ e \in newcomers[a]
    BY DEF treeVars
  <2>1. PICK a \in Admins : unit' = unit \/ Delete(a) \/ Hire(a) \/ Edit(a)
    BY WhoMoves
  <2>2. CASE Delete(a)
    <3>1. e \in MembersOf({request[a].node})
      BY <2>2 DEF Delete
    <3> QED BY <2>2, <3>1 DEF Delete, TreeIInv, CountedBelow
  <2>3. CASE Hire(a) \/ Edit(a)
    <3>1. unit'[e] = unit[e] \/ unit'[e] \in units
      BY <2>3 DEF Hire, Edit, Placed, TreeIInv, TreeTypeOK
    <3> QED BY <3>1 DEF TreeIInv, Forest
  <2> QED BY <2>1, <2>2, <2>3
<1> QED BY <1>1, TreeInductive, PTL DEF TreeSpec, OnlyNewcomersAreLost
-----------------------------------------------------------------------------
(* Who stands on which location *)

\* No user is granted nodes of two companies.
GrantsStayHome ==
    \A a \in Admins \ SuperAdmins :
        \A m, n \in Granted[a] \cap units : RootOf(m) = RootOf(n)

\* The company of n among the nodes U with parents p; RootOf, of a given tree.
AnyOf(S) == IF S = {} THEN Nil ELSE CHOOSE r \in S : TRUE
RootIn(U, p, n) == AnyOf({r \in TreeRoots(U, p) : n \in Reach(U, p, r)})

\* A location is one of a company, or is gone for good.
PlaceFits(l, root) == company[l] = root \/ (company[l] = Nil /\ l \in gone)

\* Who is to be hired: the node is there, and the location is one of its company, as
\* long as both are there.
HireFits(r) ==
    r.op = "hire" =>
        /\ r.to \in units \/ r.to \in gone
        /\ r.to \in units /\ r.place \in Places
             => PlaceFits(r.place, RootIn(units, parent, r.to))

\* Who is to be edited stays in the company, and on its locations, or is gone.
EditFits(r) ==
    r.op = "edit" =>
        /\ unit[r.emp] = Nil => r.emp \in gone
        /\ unit[r.emp] # Nil =>
              /\ r.to # Unset => /\ r.to \in units \/ r.to \in gone
                                 /\ r.to \in units => RootIn(units, parent, r.to)
                                                        = RootIn(units, parent, unit[r.emp])
              /\ r.place # Unset /\ r.place \in Places
                    => PlaceFits(r.place, RootIn(units, parent, unit[r.emp]))

RowsFit ==
    /\ \A e \in Staff : unit[e] # Nil => unit[e] \in units
    /\ \A e \in Staff : place[e] # Nil => company[place[e]] # Nil /\ unit[e] # Nil
    /\ \A e \in Staff : place[e] # Nil => company[place[e]] = RootIn(units, parent, unit[e])

PlaceIInv ==
    /\ TreeIInv
    /\ RowsFit
    /\ \A a \in Admins : HireFits(request[a]) /\ EditFits(request[a])

LEMMA RootOfIsIn == \A n : RootOf(n) = RootIn(units, parent, n)
<1> TAKE n
<1>1. {r \in Companies : n \in Under(r)} = {r \in TreeRoots(units, parent) : n \in Reach(units, parent, r)}
  BY UnderIsReach, CompaniesAreRoots
<1>2. RootOf(n) = AnyOf({r \in Companies : n \in Under(r)})
  BY Zenon DEF RootOf, AnyOf
<1> QED BY <1>1, <1>2 DEF RootIn

LEMMA RootInTree ==
  ASSUME NEW U, NEW p, Forest(U, p), Acyclic(U, p), NEW n \in U
  PROVE  /\ RootIn(U, p, n) \in TreeRoots(U, p) /\ n \in Reach(U, p, RootIn(U, p, n))
         /\ RootIn(U, p, n) \in U /\ RootIn(U, p, n) # Nil
<1> DEFINE above == {r \in TreeRoots(U, p) : n \in Reach(U, p, r)}
<1>1. above # {}
  BY HasRoot
<1>2. RootIn(U, p, n) \in above
  BY <1>1 DEF RootIn, AnyOf
<1> QED BY <1>2 DEF TreeRoots, Forest

\* There is no other.
LEMMA RootInOnly ==
  ASSUME NEW U, NEW p, Forest(U, p), Acyclic(U, p), NEW n \in U,
         NEW r \in TreeRoots(U, p), n \in Reach(U, p, r)
  PROVE  RootIn(U, p, n) = r
BY RootInTree, RootsApart

\* Whatever is under a node is in its company.
LEMMA CompanyOfUnder ==
  ASSUME TreeIInv, NEW g, NEW n \in Under(g)
  PROVE  g \in units /\ n \in units /\ RootIn(units, parent, n) = RootIn(units, parent, g)
<1>1. n \in Reach(units, parent, g) /\ g \in units /\ n \in units
  BY UnderIsReach DEF Reach
<1> DEFINE r == RootIn(units, parent, g)
<1>2. r \in TreeRoots(units, parent) /\ g \in Reach(units, parent, r)
  BY <1>1, RootInTree DEF TreeIInv
<1> HIDE DEF r
<1>3. Downwards(units, parent, Reach(units, parent, r)) /\ Reach(units, parent, r) \in SUBSET units
  BY ReachDown DEF Downwards, Reach
<1>4. n \in Reach(units, parent, r)
  BY <1>1, <1>2, <1>3, ReachLeast
<1>5. RootIn(units, parent, n) = r
  BY <1>1, <1>2, <1>4, RootInOnly DEF TreeIInv
<1> QED BY <1>1, <1>5 DEF r

\* What a step may do to the rows: no node changes its company, no id comes back, and
\* who is employed stays so in the company, or goes for good.
KeepsCompanies ==
    /\ gone \subseteq gone'
    /\ \A n \in units : /\ n \in units' => RootIn(units', parent', n) = RootIn(units, parent, n)
                        /\ n \notin units' => n \in gone'
    /\ \A n \in units' : n \in units \/ n \notin gone
    /\ \A l \in Places : \/ company'[l] = company[l]
                         \/ company'[l] = Nil /\ l \in gone'
                         \/ company[l] = Nil /\ l \notin gone
    /\ \A e \in Staff : unit'[e] # Nil => unit'[e] \in units'
    /\ \A e \in Staff : \/ unit'[e] = unit[e]
                        \/ unit'[e] = Nil /\ e \in gone'
                        \/ unit[e] = Nil /\ e \notin gone
                        \/ /\ {unit[e], unit'[e]} \subseteq units \cap units'
                           /\ RootIn(units, parent, unit'[e]) = RootIn(units, parent, unit[e])

LEMMA KeepsHire ==
  ASSUME TreeIInv, KeepsCompanies, NEW r \in Requests, HireFits(r)
  PROVE  HireFits(r)'
<1> SUFFICES ASSUME r.op = "hire"
             PROVE  /\ r.to \in units' \/ r.to \in gone'
                    /\ r.to \in units' /\ r.place \in Places
                         => \/ company'[r.place] = RootIn(units', parent', r.to)
                            \/ company'[r.place] = Nil /\ r.place \in gone'
  BY DEF HireFits, PlaceFits
<1>1. r.to \in units' \/ r.to \in gone'
  BY DEF HireFits, KeepsCompanies
<1>2. ASSUME r.to \in units', r.place \in Places
      PROVE  \/ company'[r.place] = RootIn(units', parent', r.to)
             \/ company'[r.place] = Nil /\ r.place \in gone'
  <2>1. r.to \in units /\ RootIn(units', parent', r.to) = RootIn(units, parent, r.to)
    BY <1>2 DEF HireFits, KeepsCompanies
  <2>2. PlaceFits(r.place, RootIn(units, parent, r.to))
    BY <1>2, <2>1 DEF HireFits
  <2>3. RootIn(units, parent, r.to) # Nil
    BY <2>1, RootInTree DEF TreeIInv
  <2> QED BY <1>2, <2>1, <2>2, <2>3 DEF PlaceFits, KeepsCompanies
<1> QED BY <1>1, <1>2

\* Where somebody is employed before and after a step is one company.
LEMMA KeepsUnit ==
  ASSUME TreeIInv, RowsFit, KeepsCompanies, NEW e \in Staff, unit[e] # Nil, unit'[e] # Nil
  PROVE  /\ unit[e] \in units /\ unit'[e] \in units'
         /\ RootIn(units', parent', unit'[e]) = RootIn(units, parent, unit[e])
<1>1. unit[e] \in units
  BY DEF RowsFit
<1>2. CASE unit'[e] = unit[e]
  BY <1>1, <1>2 DEF KeepsCompanies
<1>3. CASE /\ {unit[e], unit'[e]} \subseteq units \cap units'
           /\ RootIn(units, parent, unit'[e]) = RootIn(units, parent, unit[e])
  BY <1>3 DEF KeepsCompanies
<1> QED BY <1>2, <1>3 DEF KeepsCompanies

LEMMA KeepsEdit ==
  ASSUME TreeIInv, RowsFit, KeepsCompanies, NEW r \in Requests, Asked(r), EditFits(r)
  PROVE  EditFits(r)'
<1> SUFFICES ASSUME r.op = "edit" PROVE EditFits(r)'
  BY DEF EditFits
<1> DEFINE e == r.emp
<1>1. e \in Staff /\ Nil \notin units
  BY DEF Asked, TreeIInv, Forest
<1>2. unit'[e] = Nil => e \in gone'
  BY <1>1 DEF EditFits, KeepsCompanies
<1>3. ASSUME unit'[e] # Nil
      PROVE  /\ r.to # Unset => /\ r.to \in units' \/ r.to \in gone'
                                /\ r.to \in units' => RootIn(units', parent', r.to)
                                                        = RootIn(units', parent', unit'[e])
             /\ r.place # Unset /\ r.place \in Places
                  => \/ company'[r.place] = RootIn(units', parent', unit'[e])
                     \/ company'[r.place] = Nil /\ r.place \in gone'
  <2>1. unit[e] # Nil
    BY <1>1, <1>3 DEF EditFits, KeepsCompanies
  <2> DEFINE root == RootIn(units, parent, unit[e])
  <2>2. unit[e] \in units /\ RootIn(units', parent', unit'[e]) = root
    BY <1>1, <1>3, <2>1, KeepsUnit
  <2>3. root # Nil
    BY <2>2, RootInTree DEF TreeIInv
  <2> HIDE DEF root
  <2>4. /\ r.to # Unset => /\ r.to \in units \/ r.to \in gone
                           /\ r.to \in units => RootIn(units, parent, r.to) = root
        /\ r.place # Unset /\ r.place \in Places => PlaceFits(r.place, root)
    BY <2>1 DEF EditFits, root
  <2> HIDE DEF e
  <2>5. r.to # Unset => /\ r.to \in units' \/ r.to \in gone'
                        /\ r.to \in units' => RootIn(units', parent', r.to) = root
    BY <2>4 DEF KeepsCompanies
  <2>6. r.place # Unset /\ r.place \in Places
          => company'[r.place] = root \/ (company'[r.place] = Nil /\ r.place \in gone')
    BY <2>3, <2>4 DEF PlaceFits, KeepsCompanies
  <2> QED BY <2>2, <2>5, <2>6
<1> QED BY <1>2, <1>3 DEF EditFits, PlaceFits

\* What holds of the rows after a step: who keeps the location keeps the company, and
\* who is given one has been placed in its company.
LEMMA RowsStand ==
  ASSUME TreeIInv, RowsFit, KeepsCompanies,
         \A e \in Staff :
            \/ place'[e] = Nil
            \/ /\ place'[e] = place[e] /\ unit[e] # Nil /\ unit'[e] # Nil
               /\ company'[place[e]] = company[place[e]]
            \/ /\ unit'[e] # Nil /\ company'[place'[e]] # Nil
               /\ company'[place'[e]] = RootIn(units', parent', unit'[e])
  PROVE  RowsFit'
<1>1. \A e \in Staff : unit'[e] # Nil => unit'[e] \in units'
  BY DEF KeepsCompanies
<1>2. ASSUME NEW e \in Staff, place'[e] # Nil
      PROVE  /\ company'[place'[e]] # Nil /\ unit'[e] # Nil
             /\ company'[place'[e]] = RootIn(units', parent', unit'[e])
  <2>1. CASE /\ place'[e] = place[e] /\ unit[e] # Nil /\ unit'[e] # Nil
             /\ company'[place[e]] = company[place[e]]
    <3>1. company[place[e]] # Nil /\ company[place[e]] = RootIn(units, parent, unit[e])
      BY <1>2, <2>1 DEF RowsFit
    <3>2. RootIn(units', parent', unit'[e]) = RootIn(units, parent, unit[e])
      BY <2>1, KeepsUnit
    <3> QED BY <2>1, <3>1, <3>2
  <2> QED BY <1>2, <2>1
<1> QED BY <1>1, <1>2 DEF RowsFit

\* The requests under way stand, and the one that ends is no more.
LEMMA PlaceStands ==
  ASSUME PlaceIInv, TreeIInv', RowsFit', KeepsCompanies,
         \A a \in Admins : request'[a] = NoRequest \/ request'[a] = request[a]
  PROVE  PlaceIInv'
<1>1. ASSUME NEW a \in Admins, NEW r \in Requests, r = request'[a]
      PROVE  HireFits(r)' /\ EditFits(r)'
  <2>1. CASE r = NoRequest
    BY <2>1 DEF NoRequest, HireFits, EditFits
  <2>2. CASE r = request[a]
    <3>1. Asked(r) /\ HireFits(r) /\ EditFits(r)
      BY <2>2 DEF PlaceIInv, TreeIInv
    <3> QED BY <3>1, KeepsHire, KeepsEdit DEF PlaceIInv
  <2> QED BY <1>1, <2>1, <2>2
<1>2. \A a \in Admins : request'[a] \in Requests
  BY DEF TreeIInv, TreeTypeOK
<1>3. \A a \in Admins : HireFits(request[a])' /\ EditFits(request[a])'
  BY <1>1, <1>2 DEF HireFits, EditFits, PlaceFits
<1> QED BY <1>3 DEF PlaceIInv

-----------------------------------------------------------------------------
(* No node changes its company *)

LEMMA GrowRoots ==
  ASSUME NEW U, NEW p, Forest(U, p), Acyclic(U, p), NEW n \in Nodes \ U, NEW t \in U \cup {Nil},
         NEW x \in U
  PROVE  RootIn(U \cup {n}, [p EXCEPT ![n] = t], x) = RootIn(U, p, x)
<1> DEFINE q == [p EXCEPT ![n] = t]
           V == U \cup {n}
           r == RootIn(U, p, x)
<1>1. r \in TreeRoots(U, p) /\ x \in Reach(U, p, r) /\ r \in U
  BY RootInTree
<1>2. Forest(V, q) /\ Acyclic(V, q)
  BY GrowAcyclic
<1> HIDE DEF r
<1>3. x \in Reach(V, q, r)
  BY <1>1, GrowKeeps
<1>4. r \in TreeRoots(V, q) /\ x \in V
  BY <1>1 DEF TreeRoots, Forest
<1> HIDE DEF q, V
<1>5. RootIn(V, q, x) = r
  BY <1>2, <1>3, <1>4, RootInOnly
<1> QED BY <1>5 DEF q, V, r

LEMMA ShrinkRoots ==
  ASSUME NEW U, NEW p, Forest(U, p), Acyclic(U, p), NEW n \in U, \A m \in U : p[m] # n,
         NEW x \in U \ {n}
  PROVE  RootIn(U \ {n}, [p EXCEPT ![n] = Nil], x) = RootIn(U, p, x)
<1> DEFINE q == [p EXCEPT ![n] = Nil]
           V == U \ {n}
           r == RootIn(U, p, x)
<1>1. r \in TreeRoots(U, p) /\ x \in Reach(U, p, r) /\ r \in U
  BY RootInTree
<1>2. Forest(V, q) /\ Acyclic(V, q)
  BY ShrinkAcyclic
<1> HIDE DEF r
<1>3. r # n
  <2>1. Downwards(U, p, {n})
    BY DEF Downwards
  <2>2. Reach(U, p, n) \subseteq {n}
    BY <2>1, ReachLeast
  <2> QED BY <1>1, <2>2
<1>4. x \in Reach(V, q, r)
  BY <1>1, <1>3, ShrinkKeeps
<1>5. r \in TreeRoots(V, q) /\ x \in V
  BY <1>1, <1>3 DEF TreeRoots, Forest
<1> HIDE DEF q, V
<1>6. RootIn(V, q, x) = r
  BY <1>2, <1>4, <1>5, RootInOnly
<1> QED BY <1>6 DEF q, V, r

LEMMA MoveRoots ==
  ASSUME NEW U, NEW p, Forest(U, p), Acyclic(U, p), NEW m \in U, NEW t \in U,
         t \notin Reach(U, p, m),
         NEW c \in TreeRoots(U, p), m \in Reach(U, p, c), t \in Reach(U, p, c),
         NEW x \in U
  PROVE  RootIn(U, [p EXCEPT ![m] = t], x) = RootIn(U, p, x)
<1> DEFINE q == [p EXCEPT ![m] = t]
           r == RootIn(U, p, x)
<1>1. r \in TreeRoots(U, p) /\ x \in Reach(U, p, r) /\ r \in U
  BY RootInTree
<1>2. Forest(U, q) /\ Acyclic(U, q)
  BY MoveAcyclic
<1> HIDE DEF r
<1>3. x \in Reach(U, q, r)
  BY <1>1, MoveKeeps
<1>4. r # m
  <2>1. m \in TreeRoots(U, p) => m = c
    BY RootsApart, ReachTop
  <2> QED BY <1>1, <2>1
<1>5. r \in TreeRoots(U, q)
  BY <1>1, <1>4 DEF TreeRoots, Forest
<1> HIDE DEF q
<1>6. RootIn(U, q, x) = r
  BY <1>2, <1>3, <1>5, RootInOnly
<1> QED BY <1>6 DEF q, r

-----------------------------------------------------------------------------
(* One lemma per action that writes *)

CompaniesStay ==
    /\ gone \subseteq gone'
    /\ \A n \in units : /\ n \in units' => RootIn(units', parent', n) = RootIn(units, parent, n)
                        /\ n \notin units' => n \in gone'
    /\ \A n \in units' : n \in units \/ n \notin gone

\* The rows of employees and locations are as they were.
LEMMA GrowPlaces ==
  ASSUME PlaceIInv, TreeIInv', CompaniesStay, units \subseteq units', UNCHANGED <<unit, place, company>>,
         \A a \in Admins : request'[a] = NoRequest \/ request'[a] = request[a]
  PROVE  PlaceIInv'
<1>1. KeepsCompanies
  BY DEF CompaniesStay, KeepsCompanies, PlaceIInv, RowsFit
<1>2. RowsFit'
  BY <1>1, RowsStand DEF PlaceIInv, RowsFit
<1> QED BY <1>1, <1>2, PlaceStands

LEMMA CreateOrganizationPlaces ==
  ASSUME PlaceIInv, NEW a \in Admins, NEW n \in Nodes, CreateOrganization(a, n)
  PROVE  PlaceIInv'
<1>1. TreeIInv' /\ TreeIInv
  BY CreateOrganizationIInv DEF PlaceIInv
<1>2. /\ n \in Nodes \ units /\ n \notin units \cup gone
      /\ units' = units \cup {n} /\ parent' = [parent EXCEPT ![n] = Nil]
      /\ UNCHANGED <<gone, unit, place, company, request>>
  BY DEF CreateOrganization
<1>3. ASSUME NEW x \in units PROVE RootIn(units', parent', x) = RootIn(units, parent, x)
  <2>1. /\ Forest(units, parent) /\ Acyclic(units, parent) /\ Nil \in units \cup {Nil}
        /\ n \in Nodes \ units
    BY <1>1, <1>2 DEF TreeIInv
  <2>2. RootIn(units \cup {n}, [parent EXCEPT ![n] = Nil], x) = RootIn(units, parent, x)
    BY <2>1, GrowRoots
  <2> QED BY <1>2, <2>2
<1>4. CompaniesStay
  BY <1>2, <1>3 DEF CompaniesStay
<1> QED BY <1>1, <1>2, <1>4, GrowPlaces

LEMMA CreatePlaces ==
  ASSUME PlaceIInv, NEW a \in Admins, Create(a)
  PROVE  PlaceIInv'
<1> DEFINE n == request[a].node
           t == request[a].to
<1>1. TreeIInv' /\ TreeIInv
  BY CreateIInv DEF PlaceIInv
<1>2. /\ n \in Nodes \ units /\ n \notin units \cup gone /\ t \in units
      /\ units' = units \cup {n} /\ parent' = [parent EXCEPT ![n] = t]
      /\ Done(a) /\ UNCHANGED <<gone, unit, place, company>>
  BY <1>1 DEF Create, Asked, TreeIInv
<1>3. \A b \in Admins : request'[b] = NoRequest \/ request'[b] = request[b]
  BY <1>1, <1>2, DoneFields
<1> HIDE DEF n, t
<1>4. ASSUME NEW x \in units PROVE RootIn(units', parent', x) = RootIn(units, parent, x)
  <2>1. /\ Forest(units, parent) /\ Acyclic(units, parent) /\ t \in units \cup {Nil}
        /\ n \in Nodes \ units
    BY <1>1, <1>2 DEF TreeIInv
  <2>2. RootIn(units \cup {n}, [parent EXCEPT ![n] = t], x) = RootIn(units, parent, x)
    BY <2>1, GrowRoots
  <2> QED BY <1>2, <2>2
<1>5. CompaniesStay
  BY <1>2, <1>4 DEF CompaniesStay
<1> QED BY <1>1, <1>2, <1>3, <1>5, GrowPlaces

LEMMA MovePlaces ==
  ASSUME PlaceIInv, NEW a \in Admins, Move(a)
  PROVE  PlaceIInv'
<1> DEFINE r == request[a]
<1>1. TreeIInv' /\ TreeIInv
  BY MoveIInv DEF PlaceIInv
<1>2. /\ r.op = "move" /\ r.locks # Nil /\ r.node \in units /\ r.to \in units
      /\ parent' = [parent EXCEPT ![r.node] = r.to]
      /\ Done(a) /\ UNCHANGED <<units, gone, unit, place, company>>
  BY DEF Move
<1>3. \A b \in Admins : request'[b] = NoRequest \/ request'[b] = request[b]
  BY <1>1, <1>2, DoneFields
<1>4. /\ r.to \notin Reach(units, parent, r.node)
      /\ r.locks \in TreeRoots(units, parent)
      /\ r.node \in Reach(units, parent, r.locks) /\ r.to \in Reach(units, parent, r.locks)
  BY <1>1, <1>2 DEF MoveFits, TreeIInv
<1> HIDE DEF r
<1>5. \A x \in units : RootIn(units', parent', x) = RootIn(units, parent, x)
  BY <1>1, <1>2, <1>4, MoveRoots DEF TreeIInv
<1>6. CompaniesStay
  BY <1>2, <1>5 DEF CompaniesStay
<1> QED BY <1>1, <1>2, <1>3, <1>6, GrowPlaces

\* Who stood on the node goes with it, and so do its locations and who stood there.
LEMMA DeletePlaces ==
  ASSUME PlaceIInv, NEW a \in Admins, Delete(a)
  PROVE  PlaceIInv'
<1> DEFINE n == request[a].node
           swept == MembersOf({n})
           closed == {l \in Places : company[l] = n}
<1>1. TreeIInv' /\ TreeIInv /\ RowsFit
  BY DeleteIInv DEF PlaceIInv
<1>2. /\ n \in units /\ Children(n) = {} /\ units' = units \ {n}
      /\ parent' = [parent EXCEPT ![n] = Nil]
      /\ gone' = gone \cup {n} \cup swept \cup closed
      /\ unit' = [e \in Staff |-> IF e \in swept THEN Nil ELSE unit[e]]
      /\ place' = [e \in Staff |-> IF e \in swept \/ place[e] \in closed THEN Nil ELSE place[e]]
      /\ company' = [l \in Places |-> IF l \in closed THEN Nil ELSE company[l]]
      /\ Done(a)
  BY DEF Delete
<1>3. \A b \in Admins : request'[b] = NoRequest \/ request'[b] = request[b]
  BY <1>1, <1>2, DoneFields
<1>4. \A m \in units : parent[m] # n
  BY <1>2 DEF Children
<1>5. \A e \in Staff : e \in swept <=> unit[e] = n
  BY DEF MembersOf
<1>6. \A l \in Places : l \in closed <=> company[l] = n
  OBVIOUS
<1> HIDE DEF n, swept, closed
<1>7. \A x \in units \ {n} : RootIn(units', parent', x) = RootIn(units, parent, x)
  BY <1>1, <1>2, <1>4, ShrinkRoots DEF TreeIInv
<1>8. \A e \in Staff : unit'[e] # Nil => unit'[e] = unit[e] /\ unit'[e] \in units'
  BY <1>1, <1>2, <1>5 DEF RowsFit
<1>9. KeepsCompanies
  <2>1. gone \subseteq gone' /\ \A x \in units' : x \in units
    BY <1>2
  <2>2. \A x \in units : /\ x \in units' => RootIn(units', parent', x) = RootIn(units, parent, x)
                         /\ x \notin units' => x \in gone'
    BY <1>2, <1>7
  <2>3. \A l \in Places : company'[l] = company[l] \/ (company'[l] = Nil /\ l \in gone')
    BY <1>2
  <2>4. \A e \in Staff : unit'[e] = unit[e] \/ (unit'[e] = Nil /\ e \in gone')
    BY <1>2
  <2> QED BY <1>8, <2>1, <2>2, <2>3, <2>4 DEF KeepsCompanies
<1>10. ASSUME NEW e \in Staff, place'[e] # Nil
       PROVE  /\ place'[e] = place[e] /\ unit[e] # Nil /\ unit'[e] # Nil
              /\ company'[place[e]] = company[place[e]]
  <2>1. place'[e] = place[e] /\ e \notin swept /\ place[e] \notin closed
    BY <1>2, <1>10
  <2>2. place[e] \in Places /\ unit[e] # Nil
    BY <1>1, <1>10, <2>1 DEF TreeIInv, TreeTypeOK, RowsFit
  <2> QED BY <1>2, <2>1, <2>2
<1>11. RowsFit'
  BY <1>1, <1>9, <1>10, RowsStand
<1> QED BY <1>1, <1>3, <1>9, <1>11, PlaceStands DEF PlaceIInv

LEMMA OpenPlaces ==
  ASSUME PlaceIInv, NEW a \in Admins, Open(a)
  PROVE  PlaceIInv'
<1> DEFINE l == request[a].place
<1>1. TreeIInv' /\ TreeIInv /\ RowsFit
  BY OpenCloseIInv DEF PlaceIInv
<1>2. /\ company[l] = Nil /\ l \notin gone
      /\ company' = [company EXCEPT ![l] = request[a].to]
      /\ Done(a) /\ UNCHANGED <<units, parent, gone, unit, place>>
  BY DEF Open
<1>3. \A b \in Admins : request'[b] = NoRequest \/ request'[b] = request[b]
  BY <1>1, <1>2, DoneFields
<1> HIDE DEF l
<1>4. \A k \in Places : k # l => company'[k] = company[k]
  BY <1>1, <1>2 DEF TreeIInv, TreeTypeOK
<1>5. KeepsCompanies
  BY <1>1, <1>2, <1>4 DEF KeepsCompanies, RowsFit
<1>6. ASSUME NEW e \in Staff, place'[e] # Nil
      PROVE  /\ place'[e] = place[e] /\ unit[e] # Nil /\ unit'[e] # Nil
             /\ company'[place[e]] = company[place[e]]
  <2>1. place[e] \in Places /\ unit[e] # Nil /\ company[place[e]] # Nil
    BY <1>1, <1>2, <1>6 DEF TreeIInv, TreeTypeOK, RowsFit
  <2> QED BY <1>2, <1>4, <2>1
<1>7. RowsFit'
  BY <1>1, <1>5, <1>6, RowsStand
<1> QED BY <1>1, <1>3, <1>5, <1>7, PlaceStands DEF PlaceIInv

LEMMA ClosePlaces ==
  ASSUME PlaceIInv, NEW a \in Admins, Close(a)
  PROVE  PlaceIInv'
<1> DEFINE l == request[a].place
<1>1. TreeIInv' /\ TreeIInv /\ RowsFit
  BY OpenCloseIInv DEF PlaceIInv
<1>2. /\ company' = [company EXCEPT ![l] = Nil] /\ gone' = gone \cup {l}
      /\ place' = [e \in Staff |-> IF place[e] = l THEN Nil ELSE place[e]]
      /\ Done(a) /\ UNCHANGED <<units, parent, unit>>
  BY DEF Close
<1>3. \A b \in Admins : request'[b] = NoRequest \/ request'[b] = request[b]
  BY <1>1, <1>2, DoneFields
<1> HIDE DEF l
<1>4. \A k \in Places : company'[k] = IF k = l THEN Nil ELSE company[k]
  BY <1>1, <1>2 DEF TreeIInv, TreeTypeOK
<1>5. KeepsCompanies
  BY <1>1, <1>2, <1>4 DEF KeepsCompanies, RowsFit
<1>6. ASSUME NEW e \in Staff, place'[e] # Nil
      PROVE  /\ place'[e] = place[e] /\ unit[e] # Nil /\ unit'[e] # Nil
             /\ company'[place[e]] = company[place[e]]
  <2>1. place'[e] = place[e] /\ place[e] # l
    BY <1>2, <1>6
  <2>2. place[e] \in Places /\ unit[e] # Nil
    BY <1>1, <1>6, <2>1 DEF TreeIInv, TreeTypeOK, RowsFit
  <2> QED BY <1>2, <1>4, <2>1, <2>2
<1>7. RowsFit'
  BY <1>1, <1>5, <1>6, RowsStand
<1> QED BY <1>1, <1>3, <1>5, <1>7, PlaceStands DEF PlaceIInv

\* Somebody is placed on a node of the company they are employed by, if any, and on a
\* location of it.
LEMMA PlacedPlaces ==
  ASSUME PlaceIInv, TreeIInv', NEW a \in Admins, NEW e \in Staff, NEW n \in units,
         NEW l \in Places \cup {Nil}, Placed(a, e, n, l),
         \/ unit[e] = Nil /\ e \notin gone
         \/ unit[e] \in units /\ RootIn(units, parent, n) = RootIn(units, parent, unit[e]),
         l \in Places => company[l] = RootIn(units, parent, n)
  PROVE  PlaceIInv'
<1>1. TreeIInv /\ RowsFit
  BY DEF PlaceIInv
<1>2. /\ unit' = [unit EXCEPT ![e] = n] /\ place' = [place EXCEPT ![e] = l]
      /\ Done(a) /\ UNCHANGED <<units, parent, gone, company>>
      /\ l \in Places => company[l] # Nil
  BY DEF Placed
<1>3. \A b \in Admins : request'[b] = NoRequest \/ request'[b] = request[b]
  BY <1>1, <1>2, DoneFields
<1>4. /\ \A d \in Staff : unit'[d] = IF d = e THEN n ELSE unit[d]
      /\ \A d \in Staff : place'[d] = IF d = e THEN l ELSE place[d]
  BY <1>1, <1>2 DEF TreeIInv, TreeTypeOK
<1>5. KeepsCompanies
  <2>1. \A d \in Staff : unit'[d] # Nil => unit'[d] \in units'
    BY <1>1, <1>2, <1>4 DEF RowsFit
  <2>2. ASSUME NEW d \in Staff
        PROVE  \/ unit'[d] = unit[d]
               \/ unit[d] = Nil /\ d \notin gone
               \/ /\ {unit[d], unit'[d]} \subseteq units \cap units'
                  /\ RootIn(units, parent, unit'[d]) = RootIn(units, parent, unit[d])
    BY <1>2, <1>4
  <2>3. /\ gone \subseteq gone'
        /\ \A x \in units : /\ x \in units' => RootIn(units', parent', x) = RootIn(units, parent, x)
                            /\ x \notin units' => x \in gone'
        /\ \A x \in units' : x \in units \/ x \notin gone
        /\ \A k \in Places : company'[k] = company[k]
    BY <1>2
  <2> QED BY <2>1, <2>2, <2>3 DEF KeepsCompanies
<1>6. ASSUME NEW d \in Staff, place'[d] # Nil
      PROVE  \/ /\ place'[d] = place[d] /\ unit[d] # Nil /\ unit'[d] # Nil
                /\ company'[place[d]] = company[place[d]]
             \/ /\ unit'[d] # Nil /\ company'[place'[d]] # Nil
                /\ company'[place'[d]] = RootIn(units', parent', unit'[d])
  <2>1. CASE d = e
    <3>1. unit'[d] = n /\ place'[d] = l /\ l \in Places /\ n # Nil
      BY <1>1, <1>4, <1>6, <2>1 DEF TreeIInv, Forest
    <3> QED BY <1>2, <3>1
  <2>2. CASE d # e
    <3>1. unit'[d] = unit[d] /\ place'[d] = place[d] /\ unit[d] # Nil
      BY <1>1, <1>4, <1>6, <2>2 DEF RowsFit
    <3> QED BY <1>2, <3>1
  <2> QED BY <2>1, <2>2
<1>7. RowsFit'
  BY <1>1, <1>5, <1>6, RowsStand
<1> QED BY <1>1, <1>3, <1>5, <1>7, PlaceStands DEF PlaceIInv

LEMMA HirePlaces ==
  ASSUME PlaceIInv, NEW a \in Admins, Hire(a)
  PROVE  PlaceIInv'
<1> DEFINE r == request[a]
<1>1. TreeIInv' /\ TreeIInv /\ HireFits(r)
  BY HireEditIInv DEF PlaceIInv
<1>2. /\ r.op = "hire" /\ unit[r.emp] = Nil /\ r.emp \notin gone
      /\ Placed(a, r.emp, r.to, r.place)
  BY DEF Hire
<1>3. r.emp \in Staff /\ r.place \in Places \cup {Nil}
  BY <1>1, <1>2 DEF TreeIInv, Asked
<1>4. r.to \in units /\ (r.place \in Places => company[r.place] # Nil)
  BY <1>2 DEF Placed
<1>5. r.place \in Places => company[r.place] = RootIn(units, parent, r.to)
  BY <1>1, <1>2, <1>4 DEF HireFits, PlaceFits
<1> HIDE DEF r
<1> QED BY <1>1, <1>2, <1>3, <1>4, <1>5, PlacedPlaces

LEMMA EditPlaces ==
  ASSUME PlaceIInv, NEW a \in Admins, Edit(a)
  PROVE  PlaceIInv'
<1> DEFINE r == request[a]
           n == IF r.to = Unset THEN unit[r.emp] ELSE r.to
           l == IF r.place = Unset THEN place[r.emp] ELSE r.place
<1>1. TreeIInv' /\ TreeIInv /\ EditFits(r) /\ RowsFit /\ r \in Requests
  BY HireEditIInv DEF PlaceIInv, TreeIInv, TreeTypeOK
<1>2. r.op = "edit" /\ unit[r.emp] # Nil /\ Placed(a, r.emp, n, l)
  BY DEF Edit
<1>3. r.emp \in Staff /\ unit[r.emp] \in units
  BY <1>1, <1>2 DEF TreeIInv, Asked, RowsFit
<1>4. n \in units /\ (l \in Places => company[l] # Nil)
  BY <1>2 DEF Placed
<1>5. l \in Places \cup {Nil}
  BY <1>1, <1>3 DEF TreeIInv, TreeTypeOK, Requests
<1>6. RootIn(units, parent, n) = RootIn(units, parent, unit[r.emp])
  <2>1. CASE r.to = Unset
    BY <2>1
  <2>2. CASE r.to # Unset
    BY <1>1, <1>2, <1>4, <2>2 DEF EditFits
  <2> QED BY <2>1, <2>2
<1>7. l \in Places => company[l] = RootIn(units, parent, unit[r.emp])
  <2>1. CASE r.place = Unset
    <3>1. l = place[r.emp] /\ Nil \notin Places
      BY <2>1, TreeAssumption
    <3> HIDE DEF r, l
    <3> QED BY <1>1, <1>3, <3>1 DEF RowsFit
  <2>2. CASE r.place # Unset
    BY <1>1, <1>2, <1>4, <2>2 DEF EditFits, PlaceFits
  <2> QED BY <2>1, <2>2
<1> HIDE DEF r, n, l
<1> QED BY <1>1, <1>2, <1>3, <1>4, <1>5, <1>6, <1>7, PlacedPlaces

-----------------------------------------------------------------------------
(* What a handler has judged *)

LEMMA BeginPlaces ==
  ASSUME PlaceIInv, TreeIInv', NEW a \in Admins, NEW f, request' = [request EXCEPT ![a] = f],
         UNCHANGED rows, HireFits(f), EditFits(f)
  PROVE  PlaceIInv'
<1>1. \A b \in Admins : request'[b] = IF b = a THEN f ELSE request[b]
  BY DEF PlaceIInv, TreeIInv, TreeTypeOK
<1>2. RowsFit'
  BY DEF PlaceIInv, RowsFit, rows
<1>3. ASSUME NEW b \in Admins PROVE HireFits(request[b])' /\ EditFits(request[b])'
  <2>1. HireFits(request'[b]) /\ EditFits(request'[b])
    BY <1>1 DEF PlaceIInv
  <2> QED BY <2>1 DEF HireFits, EditFits, PlaceFits, rows
<1> QED BY <1>2, <1>3 DEF PlaceIInv

\* Two nodes within one scope are in one company.
LEMMA ScopeIsHome ==
  ASSUME TreeIInv, GrantsStayHome, NEW a \in Admins, NEW scope \in NodeScopes(a),
         NEW m, NEW n, InScope(m, scope), MayMoveTo(n, scope, RootOf(m))
  PROVE  RootIn(units, parent, n) = RootIn(units, parent, m)
<1>1. CASE scope = Everywhere
  <2>1. PICK r \in Companies : m \in Under(r)
    BY <1>1 DEF InScope, UnderAny
  <2>2. m \in units
    BY <2>1, CompanyOfUnder
  <2>3. m \in Under(RootOf(m)) /\ RootOf(m) \in Nodes
    BY <2>2, RootOfNode, UnderIsReach DEF TreeIInv, TreeRoots, Forest
  <2>4. n \in Under(RootOf(m))
    <3>1. InScope(n, {RootOf(m)}) /\ {RootOf(m)} # Everywhere
      BY <1>1, <2>3, TreeAssumption DEF MayMoveTo, Everywhere
    <3> QED BY <3>1 DEF InScope, UnderAny
  <2> QED BY <2>3, <2>4, CompanyOfUnder
<1>2. CASE scope # Everywhere
  <2>1. PICK g \in scope : m \in Under(g)
    BY <1>2 DEF InScope, UnderAny
  <2>2. PICK h \in scope : n \in Under(h)
    BY <1>2 DEF MayMoveTo, InScope, UnderAny
  <2>3. g \in units /\ RootIn(units, parent, m) = RootIn(units, parent, g)
    BY <2>1, CompanyOfUnder
  <2>4. h \in units /\ RootIn(units, parent, n) = RootIn(units, parent, h)
    BY <2>2, CompanyOfUnder
  <2>5. RootOf(g) = RootOf(h)
    <3>1. CASE a \in SuperAdmins
      <4>1. PICK r \in Companies : scope = {r}
        BY <1>2, <3>1 DEF NodeScopes
      <4> QED BY <4>1
    <3>2. CASE a \notin SuperAdmins
      <4>1. scope \subseteq Granted[a]
        BY <1>2, <3>2 DEF NodeScopes
      <4> QED BY <2>3, <2>4, <3>2, <4>1 DEF GrantsStayHome
    <3> QED BY <3>1, <3>2
  <2>6. RootIn(units, parent, g) = RootIn(units, parent, h)
    BY <2>5, RootOfIsIn
  <2> QED BY <2>3, <2>4, <2>6
<1> QED BY <1>1, <1>2

LEMMA BeginHirePlaces ==
  ASSUME PlaceIInv, NEW a \in Admins, NEW e \in Staff, NEW n \in Nodes,
         NEW l \in Places \cup {Nil}, BeginHire(a, e, n, l)
  PROVE  PlaceIInv'
<1> DEFINE f == [NoRequest EXCEPT !.op = "hire", !.emp = e, !.to = n, !.place = l]
<1>1. f.op = "hire" /\ f.emp = e /\ f.to = n /\ f.place = l
  BY DEF NoRequest
<1>2. TreeIInv' /\ TreeIInv
  BY BeginsIInv DEF PlaceIInv
<1>3. request' = [request EXCEPT ![a] = f] /\ UNCHANGED rows
  BY DEF BeginHire, Begin
<1>4. n \in units /\ PlaceIn(l, RootOf(n))
  BY DEF BeginHire, InTenant
<1>5. l \in Places => company[l] = RootIn(units, parent, n)
  BY <1>4, RootOfIsIn DEF PlaceIn
<1> HIDE DEF f
<1>6. HireFits(f) /\ EditFits(f)
  BY <1>1, <1>4, <1>5 DEF HireFits, EditFits, PlaceFits
<1> QED BY <1>2, <1>3, <1>6, BeginPlaces

LEMMA BeginEditPlaces ==
  ASSUME PlaceIInv, GrantsStayHome, NEW a \in Admins, NEW e \in Staff,
         NEW n \in Nodes \cup {Unset}, NEW l \in Places \cup {Nil, Unset},
         BeginEdit(a, e, n, l)
  PROVE  PlaceIInv'
<1> DEFINE f == [NoRequest EXCEPT !.op = "edit", !.emp = e, !.to = n, !.place = l]
<1>1. f.op = "edit" /\ f.emp = e /\ f.to = n /\ f.place = l
  BY DEF NoRequest
<1>2. TreeIInv' /\ TreeIInv /\ RowsFit
  BY BeginsIInv DEF PlaceIInv
<1>3. request' = [request EXCEPT ![a] = f] /\ UNCHANGED rows
  BY DEF BeginEdit, Begin
<1>4. PICK scope \in NodeScopes(a) :
        /\ InScope(unit[e], scope)
        /\ n # Unset => n \in units /\ MayMoveTo(n, scope, RootOf(unit[e]))
  BY DEF BeginEdit
<1>5. unit[e] # Nil /\ (l # Unset => PlaceIn(l, RootOf(IF n = Unset THEN unit[e] ELSE n)))
  BY DEF BeginEdit
<1>6. n # Unset => n \in units /\ RootIn(units, parent, n) = RootIn(units, parent, unit[e])
  BY <1>2, <1>4, ScopeIsHome
<1>7. l # Unset /\ l \in Places => company[l] = RootIn(units, parent, unit[e])
  <2>1. CASE n = Unset
    BY <1>5, <2>1, RootOfIsIn DEF PlaceIn
  <2>2. CASE n # Unset
    <3>1. RootOf(n) = RootIn(units, parent, unit[e])
      BY <1>6, <2>2, RootOfIsIn
    <3> QED BY <1>5, <2>2, <3>1 DEF PlaceIn
  <2> QED BY <2>1, <2>2
<1> HIDE DEF f
<1>8. HireFits(f) /\ EditFits(f)
  BY <1>1, <1>5, <1>6, <1>7 DEF HireFits, EditFits, PlaceFits
<1> QED BY <1>2, <1>3, <1>8, BeginPlaces

\* The other handlers place nobody.
LEMMA OthersPlaces ==
  ASSUME PlaceIInv, TreeIInv', NEW a \in Admins,
         NEW f, request' = [request EXCEPT ![a] = f], UNCHANGED rows, f.op \notin {"hire", "edit"}
  PROVE  PlaceIInv'
<1>1. HireFits(f) /\ EditFits(f)
  BY DEF HireFits, EditFits
<1> QED BY <1>1, BeginPlaces

LEMMA BeginOthersPlaces ==
  ASSUME PlaceIInv, NEW a \in Admins,
         \/ \E n \in Nodes : BeginDelete(a, n)
         \/ \E n, to \in Nodes : BeginCreate(a, n, to) \/ BeginMove(a, n, to)
         \/ \E l \in Places : BeginClose(a, l) \/ \E n \in Nodes : BeginOpen(a, l, n)
         \/ LockForMove(a) \/ Drop(a)
  PROVE  PlaceIInv'
<1>1. TreeIInv
  BY DEF PlaceIInv
<1>2. ASSUME NEW n \in Nodes, BeginDelete(a, n) PROVE PlaceIInv'
  <2> DEFINE f == [NoRequest EXCEPT !.op = "delete", !.node = n]
  <2>1. f.op = "delete" /\ request' = [request EXCEPT ![a] = f] /\ UNCHANGED rows
    BY <1>2 DEF BeginDelete, Begin, NoRequest
  <2>2. TreeIInv'
    BY <1>1, <1>2, BeginsIInv
  <2> HIDE DEF f
  <2> QED BY <2>1, <2>2, OthersPlaces
<1>3. ASSUME NEW n \in Nodes, NEW to \in Nodes, BeginCreate(a, n, to) PROVE PlaceIInv'
  <2> DEFINE f == [NoRequest EXCEPT !.op = "create", !.node = n, !.to = to]
  <2>1. f.op = "create" /\ request' = [request EXCEPT ![a] = f] /\ UNCHANGED rows
    BY <1>3 DEF BeginCreate, Begin, NoRequest
  <2>2. TreeIInv'
    BY <1>1, <1>3, BeginsIInv
  <2> HIDE DEF f
  <2> QED BY <2>1, <2>2, OthersPlaces
<1>4. ASSUME NEW n \in Nodes, NEW to \in Nodes, BeginMove(a, n, to) PROVE PlaceIInv'
  <2> DEFINE f == [NoRequest EXCEPT !.op = "move", !.node = n, !.to = to]
  <2>1. f.op = "move" /\ request' = [request EXCEPT ![a] = f] /\ UNCHANGED rows
    BY <1>4 DEF BeginMove, Begin, NoRequest
  <2>2. TreeIInv'
    BY <1>1, <1>4, BeginMoveIInv
  <2> HIDE DEF f
  <2> QED BY <2>1, <2>2, OthersPlaces
<1>5. ASSUME NEW l \in Places, BeginClose(a, l) PROVE PlaceIInv'
  <2> DEFINE f == [NoRequest EXCEPT !.op = "close", !.place = l]
  <2>1. f.op = "close" /\ request' = [request EXCEPT ![a] = f] /\ UNCHANGED rows
    BY <1>5 DEF BeginClose, Begin, NoRequest
  <2>2. TreeIInv'
    BY <1>1, <1>5, BeginsIInv
  <2> HIDE DEF f
  <2> QED BY <2>1, <2>2, OthersPlaces
<1>6. ASSUME NEW l \in Places, NEW n \in Nodes, BeginOpen(a, l, n) PROVE PlaceIInv'
  <2> DEFINE f == [NoRequest EXCEPT !.op = "open", !.place = l, !.to = n]
  <2>1. f.op = "open" /\ request' = [request EXCEPT ![a] = f] /\ UNCHANGED rows
    BY <1>6 DEF BeginOpen, Begin, NoRequest
  <2>2. TreeIInv'
    BY <1>1, <1>6, BeginsIInv
  <2> HIDE DEF f
  <2> QED BY <2>1, <2>2, OthersPlaces
<1>7. CASE LockForMove(a)
  <2> DEFINE f == [request[a] EXCEPT !.locks = RootOf(request[a].node), !.barred = Under(request[a].node)]
  <2>1. request' = [request EXCEPT ![a] = f] /\ UNCHANGED rows /\ request[a].op = "move"
    BY <1>7 DEF LockForMove
  <2>2. f.op = "move"
    BY <1>1, <2>1 DEF TreeIInv, TreeTypeOK, Requests
  <2>3. TreeIInv'
    BY <1>1, <1>7, LockForMoveIInv
  <2> HIDE DEF f
  <2> QED BY <2>1, <2>2, <2>3, OthersPlaces
<1>8. CASE Drop(a)
  <2>1. request' = [request EXCEPT ![a] = NoRequest] /\ UNCHANGED rows /\ NoRequest.op = "none"
    BY <1>8 DEF Drop, Done, NoRequest
  <2>2. TreeIInv'
    BY <1>1, <1>8, DropIInv
  <2> QED BY <2>1, <2>2, OthersPlaces
<1> QED BY <1>2, <1>3, <1>4, <1>5, <1>6, <1>7, <1>8

LEMMA InitPlaces == TreeInit => PlaceIInv
<1> SUFFICES ASSUME TreeInit PROVE PlaceIInv
  OBVIOUS
<1>1. \A a \in Admins : request[a] = NoRequest
  BY DEF TreeInit
<1>2. RowsFit
  BY DEF TreeInit, RowsFit
<1> QED BY <1>1, <1>2, TreeInitIInv DEF PlaceIInv, HireFits, EditFits, NoRequest

LEMMA StepPlaces == PlaceIInv /\ GrantsStayHome /\ [TreeNext]_treeVars => PlaceIInv'
<1> SUFFICES ASSUME PlaceIInv, GrantsStayHome, [TreeNext]_treeVars PROVE PlaceIInv'
  OBVIOUS
<1>1. CASE UNCHANGED treeVars
  <2>1. TreeIInv'
    BY <1>1, StepIInv DEF PlaceIInv
  <2>2. RowsFit'
    BY <1>1 DEF treeVars, PlaceIInv, RowsFit
  <2>3. \A a \in Admins : HireFits(request[a])' /\ EditFits(request[a])'
    BY <1>1 DEF treeVars, PlaceIInv, HireFits, EditFits, PlaceFits
  <2> QED BY <2>1, <2>2, <2>3 DEF PlaceIInv
<1>2. ASSUME NEW a \in Admins, NEW n \in Nodes, CreateOrganization(a, n) PROVE PlaceIInv'
  BY <1>2, CreateOrganizationPlaces
<1>3. ASSUME NEW a \in Admins,
             \/ Create(a) \/ Move(a) \/ Delete(a) \/ Open(a) \/ Close(a) \/ Hire(a) \/ Edit(a)
      PROVE  PlaceIInv'
  BY <1>3, CreatePlaces, MovePlaces, DeletePlaces, OpenPlaces, ClosePlaces, HirePlaces, EditPlaces
<1>4. ASSUME NEW a \in Admins,
             \/ \E n \in Nodes : BeginDelete(a, n)
             \/ \E n, to \in Nodes : BeginCreate(a, n, to) \/ BeginMove(a, n, to)
             \/ \E l \in Places : BeginClose(a, l) \/ \E n \in Nodes : BeginOpen(a, l, n)
             \/ LockForMove(a) \/ Drop(a)
      PROVE  PlaceIInv'
  BY <1>4, BeginOthersPlaces
<1>5. ASSUME NEW a \in Admins, NEW e \in Staff, NEW n \in Nodes, NEW l \in Places \cup {Nil},
             BeginHire(a, e, n, l)
      PROVE  PlaceIInv'
  BY <1>5, BeginHirePlaces
<1>6. ASSUME NEW a \in Admins, NEW e \in Staff, NEW n \in Nodes \cup {Unset},
             NEW l \in Places \cup {Nil, Unset}, BeginEdit(a, e, n, l)
      PROVE  PlaceIInv'
  BY <1>6, BeginEditPlaces
<1> QED BY <1>1, <1>2, <1>3, <1>4, <1>5, <1>6 DEF TreeNext

\* Whoever is placed is on a location of the company of their unit, and the edits under
\* way will leave it so, as long as no user is granted nodes of two companies.
THEOREM PlacesInductive == TreeSpec /\ []GrantsStayHome => []PlaceIInv
<1> QED BY InitPlaces, StepPlaces, PTL DEF TreeSpec

\* An employee stands on a location of the company that employs them, however hires, edits,
\* moves and deletions overlap, as long as no user is granted nodes of two companies
\* (employees.py 179-206, organization_service.py): a node never changes its company.
THEOREM PlacesFit == TreeSpec /\ []GrantsStayHome => []PlacesFitCompanies
<1>1. PlaceIInv => PlacesFitCompanies
  BY RootOfIsIn DEF PlaceIInv, RowsFit, PlacesFitCompanies
<1> QED BY <1>1, PlacesInductive, PTL
=============================================================================
