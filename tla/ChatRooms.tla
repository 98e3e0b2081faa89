------------------------------- MODULE ChatRooms -------------------------------
(***************************************************************************)
(* Chat: backend/app/services/chat_service.py behind backend/app/api/chat. *)
(* One room (a group or a channel) with its members, read marks and        *)
(* messages, and the direct conversation of one pair with the log of one   *)
(* call.                                                                   *)
(*                                                                         *)
(* A handler loads the membership (404 without one) and what else it       *)
(* decides by, and writes in one commit.  A message has its id from the    *)
(* flush before that, so messages may appear out of the order of their     *)
(* ids.  An UPDATE of a row that is gone, or an INSERT of a unique key     *)
(* that is taken, fails the handler.  Events are PresenceHub's.            *)
(***************************************************************************)
EXTENDS Backend

CONSTANTS
    Chatters,      \* users of the company
    Founder,       \* who created the room
    Pair,          \* the two users of the direct conversation
    Threads,       \* sessions of the handlers
    LastMessage,   \* bound of the ids of messages
    ClientMarks,   \* what clients ask to mark as read: any integers, of messages or not
    MaxChatAsks,   \* bound of the handlers
    ChatAsked      \* the operations of a run, as sets

Managing == {"add", "remove", "archive"}
OnMessage == {"edit", "delete", "react"}
ChatOps == Managing \cup OnMessage \cup {"join", "leave", "send", "read", "pin", "direct", "end_call"}

ASSUME ChatAssumption ==
    /\ Founder \in Chatters /\ Pair \subseteq Chatters
    /\ {LastMessage, MaxChatAsks} \subseteq Nat /\ ClientMarks \subseteq Nat
    /\ ChatAsked \subseteq SUBSET ChatOps
    /\ Nil \notin Chatters

VARIABLES
    chatAsked,  \* the operations of this run
    roomType,   \* "group" or "channel"
    archived,   \* is_archived of the room
    members,    \* members[u]: the role of u in the room, or Nil
    joined,     \* joined[u]: how many membership rows u has had; the last is the one there is
    readUpTo,   \* readUpTo[u]: last_read_message_id
    pinned,     \* members with is_pinned
    messages,   \* messages[m]: the row of message m, or Nil
    lastMessage,\* ids given
    reactions,  \* pairs of message and user
    directs,    \* direct conversations of Pair, each with both members
    callClaimed,\* the marker of the call in Redis
    callLogs,   \* call-history messages of the call
    threads,    \* threads[t]: what the handler in session t has read
    chatAsks,   \* handlers begun
    stray,      \* auxiliary: users whose message was committed when they were no members
    ahead,      \* auxiliary: users who asked to mark an id that had not been given yet
    blip        \* auxiliary: Redis failed when a call was claimed

chatVars == <<chatAsked, roomType, archived, members, joined, readUpTo, pinned, messages,
              lastMessage, reactions, directs, callClaimed, callLogs, threads, chatAsks,
              stray, ahead, blip>>
room == <<roomType, archived, members, joined, readUpTo, pinned, messages, lastMessage, reactions>>
calls == <<directs, callClaimed, callLogs, blip>>

Ids == 1..LastMessage
Marks == 0..LastMessage \cup ClientMarks
Row == [sender : Chatters \cup {Nil}, deleted : BOOLEAN, body : {"text", "edited", "none"}]
NoThread == [op |-> "none", stage |-> "none", who |-> Nil, target |-> Nil, message |-> Nil,
             mark |-> 0, joined |-> 0, seen |-> FALSE]

ChatTypeOK ==
    /\ chatAsked \in ChatAsked
    /\ roomType \in {"group", "channel"} /\ archived \in BOOLEAN
    /\ members \in [Chatters -> {"owner", "member", Nil}]
    /\ joined \in [Chatters -> Nat]
    /\ readUpTo \in [Chatters -> Marks]
    /\ pinned \subseteq {u \in Chatters : members[u] # Nil}
    /\ messages \in [Ids -> Row \cup {Nil}]
    /\ lastMessage \in 0..LastMessage
    /\ reactions \subseteq Ids \X Chatters
    /\ directs \in Nat /\ callLogs \in Nat
    /\ callClaimed \in BOOLEAN /\ blip \in BOOLEAN
    /\ stray \subseteq Chatters /\ ahead \subseteq Chatters
    /\ \A t \in Threads : /\ threads[t].op \in ChatOps \cup {"none"}
                          /\ threads[t].stage \in {"none", "read", "flushed", "claimed"}
                          /\ threads[t].mark \in Marks
    /\ chatAsks \in 0..MaxChatAsks

\* create_conversation: the creator is the owner.
ChatInit ==
    /\ chatAsked \in ChatAsked
    /\ roomType \in {"group", "channel"}
    /\ archived = FALSE
    /\ members = [u \in Chatters |-> IF u = Founder THEN "owner" ELSE Nil]
    /\ joined = [u \in Chatters |-> IF u = Founder THEN 1 ELSE 0]
    /\ readUpTo = [u \in Chatters |-> 0]
    /\ pinned = {}
    /\ messages = [m \in Ids |-> Nil]
    /\ lastMessage = 0
    /\ reactions = {}
    /\ directs = 0
    /\ callClaimed = FALSE /\ callLogs = 0
    /\ threads = [t \in Threads |-> NoThread]
    /\ chatAsks = 0
    /\ stray = {} /\ ahead = {} /\ blip = FALSE

-----------------------------------------------------------------------------
BeginThread(t, op, k) ==
    /\ threads[t].stage = "none"
    /\ op \in chatAsked
    /\ chatAsks < MaxChatAsks
    /\ chatAsks' = chatAsks + 1
    /\ threads' = [threads EXCEPT ![t] = k]
    /\ UNCHANGED <<chatAsked, stray>>

Ended(t) == threads' = [threads EXCEPT ![t] = NoThread]

\* get_conversation_for_user, and _require_role where the operation asks for a role.
MayAct(op, u) == members[u] # Nil /\ (op \in Managing => members[u] = "owner")

\* add_members, remove_member (also of oneself), update_conversation, set_pinned.
AskRoom(t, op, u, target) ==
    /\ MayAct(op, u)
    /\ op = "add" => members[target] = Nil
    /\ op \in {"remove", "leave"} => members[target] # Nil
    /\ op \in {"leave", "archive", "pin"} => target = u
    /\ op \in Managing \cup {"leave", "pin"}
    /\ BeginThread(t, op, [NoThread EXCEPT !.op = op, !.stage = "read", !.who = u,
                                     !.target = target, !.joined = joined[target]])
    /\ UNCHANGED <<room, ahead, calls>>

AskAdd(t, u, v) == AskRoom(t, "add", u, v)
AskRemove(t, u, v) == AskRoom(t, "remove", u, v) \/ AskRoom(t, "leave", u, v)
AskUpdate(t, u) == AskRoom(t, "archive", u, u)
AskPin(t, u) == AskRoom(t, "pin", u, u)

\* join_channel.
AskJoin(t, u) ==
    /\ roomType = "channel" /\ members[u] = Nil
    /\ BeginThread(t, "join", [NoThread EXCEPT !.op = "join", !.stage = "read", !.who = u, !.target = u])
    /\ UNCHANGED <<room, ahead, calls>>

\* The message is flushed and has its id; it is not committed.
AskSend(t, u) ==
    /\ MayAct("send", u)
    /\ lastMessage < LastMessage
    /\ lastMessage' = lastMessage + 1
    /\ BeginThread(t, "send", [NoThread EXCEPT !.op = "send", !.stage = "flushed", !.who = u,
                                         !.message = lastMessage + 1, !.mark = readUpTo[u],
                                         !.joined = joined[u]])
    /\ UNCHANGED <<roomType, archived, members, joined, readUpTo, pinned, messages, reactions,
                   ahead, calls>>

\* mark_read takes any integer the client sends; a smaller mark than the one there is no change.
AskRead(t, u, mark) ==
    /\ MayAct("read", u)
    /\ mark > readUpTo[u]
    /\ ahead' = IF mark > lastMessage THEN ahead \cup {u} ELSE ahead
    /\ BeginThread(t, "read", [NoThread EXCEPT !.op = "read", !.stage = "read", !.who = u,
                                         !.mark = mark, !.joined = joined[u]])
    /\ UNCHANGED <<room, calls>>

\* edit_message of one's own, delete_message also by an owner, toggle_reaction by anyone.
AskMessage(t, op, u, m) ==
    /\ MayAct(op, u)
    /\ messages[m] # Nil /\ ~messages[m].deleted
    /\ op = "react" \/ messages[m].sender = u \/ (op = "delete" /\ members[u] = "owner")
    /\ BeginThread(t, op, [NoThread EXCEPT !.op = op, !.stage = "read", !.who = u, !.message = m,
                                     !.seen = <<m, u>> \in reactions])
    /\ UNCHANGED <<room, ahead, calls>>

AskEdit(t, u, m) == AskMessage(t, "edit", u, m)
AskDelete(t, u, m) == AskMessage(t, "delete", u, m)
AskReact(t, u, m) == AskMessage(t, "react", u, m)

-----------------------------------------------------------------------------
\* The membership row that the handler has loaded is still there: a user who was removed
\* and added again has another one.
StillJoined(k, u) == members[u] # Nil /\ joined[u] = k.joined

\* Joins and leaves also post a system message, which nobody sent and no mark counts.
AddMember(t) ==
    LET k == threads[t] IN
    /\ k.op \in {"add", "join"}
    /\ members[k.target] = Nil
    /\ members' = [members EXCEPT ![k.target] = "member"]
    /\ joined' = [joined EXCEPT ![k.target] = @ + 1]
    /\ readUpTo' = [readUpTo EXCEPT ![k.target] = 0]
    /\ Ended(t)
    /\ UNCHANGED <<chatAsked, roomType, archived, pinned, messages, lastMessage,
                   reactions, calls, chatAsks, stray, ahead>>

\* A DELETE of a row that is gone already deletes nothing, and fails nothing.
RemoveMember(t) ==
    LET k == threads[t] IN
    /\ k.op \in {"remove", "leave"}
    /\ IF StillJoined(k, k.target)
       THEN /\ members' = [members EXCEPT ![k.target] = Nil]
            /\ pinned' = pinned \ {k.target}
       ELSE UNCHANGED <<members, pinned>>
    /\ Ended(t)
    /\ UNCHANGED <<chatAsked, roomType, archived, joined, readUpTo, messages, lastMessage,
                   reactions, calls, chatAsks, stray, ahead>>

UpdateConversation(t) ==
    /\ threads[t].op = "archive"
    /\ archived' = ~archived
    /\ Ended(t)
    /\ UNCHANGED <<chatAsked, roomType, members, joined, readUpTo, pinned, messages, lastMessage,
                   reactions, calls, chatAsks, stray, ahead>>

SetPinned(t) ==
    LET u == threads[t].who IN
    /\ threads[t].op = "pin" /\ StillJoined(threads[t], u)
    /\ pinned' = IF u \in pinned THEN pinned \ {u} ELSE pinned \cup {u}
    /\ Ended(t)
    /\ UNCHANGED <<chatAsked, roomType, archived, members, joined, readUpTo, messages, lastMessage,
                   reactions, calls, chatAsks, stray, ahead>>

\* Variant: sending leaves the mark of the sender alone.
MarkAfterSendKept(k) == k.mark

\* The sender has read their own message.
MarkAfterSend(k) == IF k.message > k.mark THEN k.message ELSE k.mark

\* The mark is an UPDATE of the membership row, which fails when the row is gone.  A mark
\* that is not below the message needs no UPDATE.
CommitSend(t) ==
    LET k == threads[t]
        mark == MarkAfterSend(k)
    IN
    /\ k.op = "send"
    /\ mark # k.mark => StillJoined(k, k.who)
    /\ messages' = [messages EXCEPT ![k.message] =
                      [sender |-> k.who, deleted |-> FALSE, body |-> "text"]]
    /\ readUpTo' = IF mark # k.mark THEN [readUpTo EXCEPT ![k.who] = mark] ELSE readUpTo
    /\ archived' = FALSE
    /\ stray' = IF members[k.who] = Nil THEN stray \cup {k.who} ELSE stray
    /\ Ended(t)
    /\ UNCHANGED <<chatAsked, roomType, members, joined, pinned, lastMessage,
                   reactions, calls, chatAsks, ahead>>

MarkRead(t) ==
    LET k == threads[t] IN
    /\ k.op = "read" /\ StillJoined(k, k.who)
    /\ readUpTo' = [readUpTo EXCEPT ![k.who] = k.mark]
    /\ Ended(t)
    /\ UNCHANGED <<chatAsked, roomType, archived, members, joined, pinned, messages, lastMessage,
                   reactions, calls, chatAsks, stray, ahead>>

\* An edit writes the body, a deletion the tombstone; neither reads the row again.
Rewritten(t, row) ==
    /\ messages' = [messages EXCEPT ![threads[t].message] = row]
    /\ Ended(t)
    /\ UNCHANGED <<chatAsked, roomType, archived, members, joined, readUpTo, pinned, lastMessage,
                   reactions, calls, chatAsks, stray, ahead>>

EditMessage(t) ==
    /\ threads[t].op = "edit"
    /\ Rewritten(t, [messages[threads[t].message] EXCEPT !.body = "edited"])

DeleteMessage(t) ==
    /\ threads[t].op = "delete"
    /\ Rewritten(t, [messages[threads[t].message] EXCEPT !.body = "none", !.deleted = TRUE])

React(t) ==
    LET k == threads[t]
        r == <<k.message, k.who>>
    IN
    /\ k.op = "react" /\ (k.seen \/ r \notin reactions)
    /\ reactions' = IF k.seen THEN reactions \ {r} ELSE reactions \cup {r}
    /\ Ended(t)
    /\ UNCHANGED <<chatAsked, roomType, archived, members, joined, readUpTo, pinned, messages,
                   lastMessage, calls, chatAsks, stray, ahead>>

\* The handler or its commit fails: a stale row, a taken key, a lost connection.
ThreadFails(t) ==
    /\ threads[t].stage # "none"
    /\ Ended(t)
    /\ UNCHANGED <<chatAsked, room, calls, chatAsks, stray, ahead>>

-----------------------------------------------------------------------------
(* The direct conversation of Pair, and one call in it *)

AskDirect(t, u) ==
    /\ u \in Pair
    /\ directs = 0
    /\ BeginThread(t, "direct", [NoThread EXCEPT !.op = "direct", !.stage = "read", !.who = u])
    /\ UNCHANGED <<room, ahead, calls>>

\* Variant: the pair has no unique key.
InsertUnseen(t) ==
    /\ threads[t].op = "direct" /\ threads[t].stage = "read"
    /\ threads' = [threads EXCEPT ![t].stage = "flushed"]
    /\ UNCHANGED <<chatAsked, room, calls, chatAsks, stray, ahead>>

\* The insert waits for another one; when that is committed, its conversation is taken.
InsertDirect(t) ==
    /\ threads[t].op = "direct" /\ threads[t].stage = "read"
    /\ \A e \in Threads : ~(threads[e].op = "direct" /\ threads[e].stage = "flushed")
    /\ IF directs > 0 THEN Ended(t) ELSE threads' = [threads EXCEPT ![t].stage = "flushed"]
    /\ UNCHANGED <<chatAsked, room, calls, chatAsks, stray, ahead>>

CommitDirect(t) ==
    /\ threads[t].op = "direct" /\ threads[t].stage = "flushed"
    /\ directs' = directs + 1
    /\ Ended(t)
    /\ UNCHANGED <<chatAsked, room, callClaimed, callLogs, blip, chatAsks, stray, ahead>>

\* call_end of either user; both may end one call.
AskEndCall(t, u) ==
    /\ directs > 0 /\ u \in Pair
    /\ BeginThread(t, "end_call", [NoThread EXCEPT !.op = "end_call", !.stage = "read", !.who = u])
    /\ UNCHANGED <<room, ahead, calls>>

\* Variant: the marker is looked up, and nobody sets it.
ClaimByLooking(t) ==
    /\ threads[t].op = "end_call" /\ threads[t].stage = "read"
    /\ IF callClaimed THEN Ended(t) ELSE threads' = [threads EXCEPT ![t].stage = "claimed"]
    /\ UNCHANGED <<chatAsked, room, calls, chatAsks, stray, ahead>>

\* SET NX of the call id; a Redis error counts as a claim.
ClaimCall(t) ==
    /\ threads[t].op = "end_call" /\ threads[t].stage = "read"
    /\ \/ /\ IF callClaimed THEN Ended(t) ELSE threads' = [threads EXCEPT ![t].stage = "claimed"]
          /\ callClaimed' = TRUE /\ UNCHANGED blip
       \/ /\ threads' = [threads EXCEPT ![t].stage = "claimed"]
          /\ blip' = TRUE /\ UNCHANGED callClaimed
    /\ UNCHANGED <<chatAsked, room, directs, callLogs, chatAsks, stray, ahead>>

LogCall(t) ==
    /\ threads[t].stage = "claimed"
    /\ callLogs' = callLogs + 1
    /\ Ended(t)
    /\ UNCHANGED <<chatAsked, room, directs, callClaimed, blip, chatAsks, stray, ahead>>

ChatNext ==
    \E t \in Threads :
        \/ \E u \in Chatters :
              \/ \E v \in Chatters : AskAdd(t, u, v) \/ AskRemove(t, u, v)
              \/ \E mark \in ClientMarks : AskRead(t, u, mark)
              \/ \E m \in Ids : AskEdit(t, u, m) \/ AskDelete(t, u, m) \/ AskReact(t, u, m)
              \/ AskUpdate(t, u) \/ AskPin(t, u)
              \/ AskJoin(t, u) \/ AskSend(t, u) \/ AskDirect(t, u) \/ AskEndCall(t, u)
        \/ AddMember(t) \/ RemoveMember(t) \/ UpdateConversation(t) \/ SetPinned(t)
        \/ CommitSend(t) \/ MarkRead(t) \/ EditMessage(t) \/ DeleteMessage(t) \/ React(t)
        \/ InsertDirect(t) \/ CommitDirect(t) \/ ClaimCall(t) \/ LogCall(t)
        \/ ThreadFails(t)

ChatSpec == ChatInit /\ [][ChatNext]_chatVars

-----------------------------------------------------------------------------
(* Properties *)

\* No message of somebody who was removed appears after the removal, since a send that was
\* under way fails on its own read mark (send_message against remove_member) - unless the
\* user has asked to mark ids as read that were not given yet: mark_read takes any integer,
\* and a send whose message is below the mark updates no membership.
SentByMembers == stray \subseteq ahead

\* Two users have one direct conversation, however both ask for it at once and whichever
\* of the two requests fails (get_or_create_direct).
OneDirectPerPair == directs <= 1

\* A call leaves at most one entry in the history when both users end it at once, unless
\* Redis failed (call_end, _claim_call_history).
OneEntryPerCall == blip \/ callLogs <= 1

\* Of two requests that would each insert the one row there may be, one does
\* (get_or_create_direct by the unique key, call_end by the claim in Redis).
RacersInsertOnce == OneDirectPerPair /\ OneEntryPerCall
===============================================================================
