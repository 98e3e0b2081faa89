----------------------------- MODULE PresenceHub -----------------------------
(***************************************************************************)
(* The realtime hub (backend/app/realtime/hub.py) and the handler of its   *)
(* sockets (realtime_ws in backend/app/api/ws.py), with Redis enabled.     *)
(*                                                                         *)
(* Every worker has its own hub: the connections it holds, and one         *)
(* subscriber that hands the events of the shared channel to them.  Who is *)
(* online in a company is a counter per user in a hash of Redis, which all *)
(* workers move and no worker owns.  Every call to Redis is an await: the  *)
(* handlers of other sockets run between two of them, and a call that      *)
(* fails may have been executed.                                           *)
(***************************************************************************)
EXTENDS Backend, Integers, Sequences

CONSTANTS
    Workers,
    Sockets,     \* handshakes with a valid token; each happens once
    WorkerOf,    \* WorkerOf[s]: the worker that accepts it
    UserOf,      \* UserOf[s]
    ScopeOf,     \* ScopeOf[s]: the roots _resolve_identity gives; Nil for every tenant
    Emitted,     \* events that other handlers emit, once each: [root, to, say]
    MaxPerUser,  \* _MAX_CONNECTIONS_PER_USER
    MaxQueued,   \* _MAX_QUEUED_EVENTS
    MaxFaults    \* bound of the failures of calls to Redis and of the workers

Roots == UNION {ScopeOf[s] : s \in {t \in Sockets : ScopeOf[t] # Nil}}
Users == {UserOf[s] : s \in Sockets}

ASSUME HubAssumption ==
    /\ WorkerOf \in [Sockets -> Workers]
    /\ MaxPerUser \in Nat \ {0} /\ MaxQueued \in Nat \ {0} /\ MaxFaults \in Nat
    /\ Nil \notin Roots \cup Users /\ IsFiniteSet(Sockets)

VARIABLES
    phase,       \* phase[s]: where the handler of socket s is
    connections, \* the connections registered at their workers' hubs
    todo,        \* todo[s]: roots the presence loop has not visited
    news,        \* news[s]: roots the user came online in, or went offline in
    clearing,    \* clearing[s]: the root whose field is about to be deleted
    queue,       \* queue[s]: how many events the mailbox of the connection holds
    count,       \* the hashes of Redis: count[r][u], Nil for no field
    alive,       \* workers that run
    channel,     \* channel[w]: the subscription of worker w
    inbox,       \* inbox[w]: events Redis holds for that subscription
    unsent,      \* events of Emitted still to come
    faults,      \* failures so far
    lost         \* auxiliary: users whose decrement or delete at a root failed or was cut off

hubVars == <<phase, connections, todo, news, clearing, queue, count, alive,
             channel, inbox, unsent, faults, lost>>

Phases == {"new", "registered", "joining", "open", "leaving", "over"}

Presence(r, u, say) == [root |-> r, to |-> Nil, say |-> <<u, say>>]
HubEvents == Emitted \cup {Presence(r, u, say) : r \in Roots, u \in Users, say \in {"on", "off"}}

HubTypeOK ==
    /\ phase \in [Sockets -> Phases]
    /\ connections \subseteq Sockets
    /\ todo \in [Sockets -> SUBSET Roots]
    /\ news \in [Sockets -> SUBSET Roots]
    /\ clearing \in [Sockets -> Roots \cup {Nil}]
    /\ queue \in [Sockets -> 0..MaxQueued]
    /\ \A r \in Roots, u \in Users : count[r][u] = Nil \/ count[r][u] \in Int
    /\ alive \subseteq Workers
    /\ channel \in [Workers -> {"none", "on", "broken"}]
    /\ \A w \in Workers : inbox[w] \in Seq(HubEvents)
    /\ unsent \subseteq Emitted
    /\ faults \in 0..MaxFaults
    /\ lost \subseteq Roots \X Users

HubInit ==
    /\ phase = [s \in Sockets |-> "new"]
    /\ connections = {}
    /\ todo = [s \in Sockets |-> {}]
    /\ news = [s \in Sockets |-> {}]
    /\ clearing = [s \in Sockets |-> Nil]
    /\ queue = [s \in Sockets |-> 0]
    /\ count = [r \in Roots |-> [u \in Users |-> Nil]]
    /\ alive = Workers
    /\ channel = [w \in Workers |-> "none"]
    /\ inbox = [w \in Workers |-> <<>>]
    /\ unsent = Emitted
    /\ faults = 0
    /\ lost = {}

Runs(s) == WorkerOf[s] \in alive
At(s, where) == phase[s] = where /\ Runs(s)
To(s, where) == phase' = [phase EXCEPT ![s] = where]
Fault == faults < MaxFaults /\ faults' = faults + 1

presence == <<todo, news, clearing, count, lost>>
events == <<queue, inbox, unsent>>

-----------------------------------------------------------------------------
(* Events: publish and _deliver_local *)

Addressed(s, e) ==
    IF e.to # Nil THEN UserOf[s] \in e.to
    ELSE ScopeOf[s] = Nil \/ (e.root # Nil /\ e.root \in ScopeOf[s])

\* One event put into the mailboxes of a worker; a full mailbox drops it.
Delivered(w, e) ==
    [s \in Sockets |->
        IF s \in connections /\ WorkerOf[s] = w /\ Addressed(s, e) /\ queue[s] < MaxQueued
        THEN queue[s] + 1 ELSE queue[s]]

\* PUBLISH reaches the subscriptions of the moment; when it fails, the worker
\* delivers to its own sockets, which may then see the event twice.
Publish(w, e) ==
    \/ /\ inbox' = [v \in Workers |-> IF channel[v] = "on" THEN Append(inbox[v], e) ELSE inbox[v]]
       /\ UNCHANGED <<queue, faults>>
    \/ /\ Fault
       /\ queue' = Delivered(w, e)
       /\ \/ inbox' = inbox
          \/ inbox' = [v \in Workers |-> IF channel[v] = "on" THEN Append(inbox[v], e) ELSE inbox[v]]

Emit(w, e) ==
    /\ w \in alive
    /\ unsent' = unsent \ {e}
    /\ Publish(w, e)
    /\ UNCHANGED <<phase, connections, presence, alive, channel>>

-----------------------------------------------------------------------------
(* The handler of a socket (realtime_ws) *)

\* Roots a presence loop has still to visit.
Unpaid(s) == (todo[s] \cup {clearing[s]}) \ {Nil}

Mates(s) == {c \in connections : UserOf[c] = UserOf[s] /\ WorkerOf[c] = WorkerOf[s]}

Register(s) ==
    /\ At(s, "new")
    /\ IF Cardinality(Mates(s)) >= MaxPerUser
       THEN To(s, "over") /\ UNCHANGED connections
       ELSE To(s, "registered") /\ connections' = connections \cup {s}
    /\ UNCHANGED <<presence, events, alive, channel, faults>>

\* Presence is skipped for a socket that watches every tenant.
Accept(s) ==
    /\ At(s, "registered")
    /\ To(s, IF ScopeOf[s] = Nil THEN "open" ELSE "joining")
    /\ todo' = [todo EXCEPT ![s] = IF ScopeOf[s] = Nil THEN {} ELSE ScopeOf[s]]
    /\ UNCHANGED <<connections, news, clearing, count, lost, events, alive, channel, faults>>

\* The client is gone before accept or the greeting: nothing unregisters the connection.
AcceptFails(s) ==
    /\ At(s, "registered")
    /\ To(s, "over")
    /\ UNCHANGED <<connections, presence, events, alive, channel, faults>>

Field(r, u) == IF count[r][u] = Nil THEN 0 ELSE count[r][u]
Moved(r, u, by) == [count EXCEPT ![r][u] = Field(r, u) + by]

\* presence_connect: one increment after another.
Join(s, r) ==
    /\ At(s, "joining") /\ r \in todo[s]
    /\ count' = Moved(r, UserOf[s], 1)
    /\ todo' = [todo EXCEPT ![s] = @ \ {r}]
    /\ news' = [news EXCEPT ![s] = IF Field(r, UserOf[s]) = 0 THEN @ \cup {r} ELSE @]
    /\ UNCHANGED <<phase, connections, clearing, lost, events, alive, channel, faults>>

\* A failed call ends the loop: what it announces is partial.
JoinFails(s, r) ==
    /\ At(s, "joining") /\ r \in todo[s]
    /\ Fault
    /\ count' \in {count, Moved(r, UserOf[s], 1)}
    /\ todo' = [todo EXCEPT ![s] = {}]
    /\ UNCHANGED <<phase, connections, news, clearing, lost, events, alive, channel>>

\* What presence_connect or presence_disconnect returned is announced root by root.
Announce(s, r) ==
    /\ Runs(s) /\ Unpaid(s) = {} /\ r \in news[s]
    /\ news' = [news EXCEPT ![s] = @ \ {r}]
    /\ Publish(WorkerOf[s],
               Presence(r, UserOf[s], IF phase[s] = "joining" THEN "on" ELSE "off"))
    /\ UNCHANGED <<phase, connections, todo, clearing, count, lost, alive, channel, unsent>>

\* The sender and the receiver start, or the handler ends.
Announced(s) ==
    /\ Runs(s) /\ phase[s] \in {"joining", "leaving"}
    /\ Unpaid(s) = {} /\ news[s] = {}
    /\ To(s, IF phase[s] = "joining" THEN "open" ELSE "over")
    /\ UNCHANGED <<connections, presence, events, alive, channel, faults>>

Pump(s) ==
    /\ At(s, "open") /\ queue[s] > 0
    /\ queue' = [queue EXCEPT ![s] = @ - 1]
    /\ UNCHANGED <<phase, connections, presence, alive, channel, inbox, unsent, faults>>

\* The client disconnects: the finally block.
CloseSocket(s) ==
    /\ At(s, "open")
    /\ connections' = connections \ {s}
    /\ queue' = [queue EXCEPT ![s] = 0]
    /\ To(s, IF ScopeOf[s] = Nil THEN "over" ELSE "leaving")
    /\ todo' = [todo EXCEPT ![s] = IF ScopeOf[s] = Nil THEN {} ELSE ScopeOf[s]]
    /\ UNCHANGED <<news, clearing, count, lost, alive, channel, inbox, unsent, faults>>

\* Variant: only a counter that is exactly zero is deleted.
IsLastExactly(n) == n = 0
IsLast(n) == n <= 0

\* presence_disconnect: a decrement, and the delete of a counter that is used up.
Part(s, r) ==
    /\ At(s, "leaving") /\ clearing[s] = Nil /\ r \in todo[s]
    /\ count' = Moved(r, UserOf[s], -1)
    /\ todo' = [todo EXCEPT ![s] = @ \ {r}]
    /\ clearing' = [clearing EXCEPT ![s] = IF IsLast(Field(r, UserOf[s]) - 1) THEN r ELSE Nil]
    /\ UNCHANGED <<phase, connections, news, lost, events, alive, channel, faults>>

Clear(s) ==
    LET r == clearing[s] IN
    /\ At(s, "leaving") /\ r # Nil
    /\ count' = [count EXCEPT ![r][UserOf[s]] = Nil]
    /\ clearing' = [clearing EXCEPT ![s] = Nil]
    /\ news' = [news EXCEPT ![s] = @ \cup {r}]
    /\ UNCHANGED <<phase, connections, todo, lost, events, alive, channel, faults>>

\* The rest of the loop is given up.
PartFails(s) ==
    /\ At(s, "leaving") /\ Unpaid(s) # {}
    /\ Fault
    /\ \/ count' = count
       \/ clearing[s] # Nil /\ count' = [count EXCEPT ![clearing[s]][UserOf[s]] = Nil]
       \/ clearing[s] = Nil /\ \E r \in todo[s] : count' = Moved(r, UserOf[s], -1)
    /\ lost' = lost \cup (Unpaid(s) \X {UserOf[s]})
    /\ todo' = [todo EXCEPT ![s] = {}]
    /\ clearing' = [clearing EXCEPT ![s] = Nil]
    /\ UNCHANGED <<phase, connections, news, events, alive, channel>>

-----------------------------------------------------------------------------
(* The subscriber of a worker (_consume) *)

hub == <<phase, connections, presence>>

Subscribe(w) ==
    /\ w \in alive /\ channel[w] = "none"
    /\ channel' = [channel EXCEPT ![w] = "on"]
    /\ UNCHANGED <<hub, events, alive, faults>>

Poll(w) ==
    /\ w \in alive /\ channel[w] = "on" /\ inbox[w] # <<>>
    /\ queue' = Delivered(w, Head(inbox[w]))
    /\ inbox' = [inbox EXCEPT ![w] = Tail(@)]
    /\ UNCHANGED <<hub, unsent, alive, channel, faults>>

\* Redis drops the connection, and with it what it held for the subscription.
Break(w) ==
    /\ w \in alive /\ channel[w] = "on"
    /\ Fault
    /\ channel' = [channel EXCEPT ![w] = "broken"]
    /\ inbox' = [inbox EXCEPT ![w] = <<>>]
    /\ UNCHANGED <<hub, queue, unsent, alive>>

\* Variant: the loop sleeps and polls the same subscription again.
ResetNothing(w) ==
    /\ w \in alive /\ channel[w] = "broken"
    /\ UNCHANGED hubVars

\* The loop's handler of RedisError: the next turn subscribes anew.
Reset(w) ==
    /\ w \in alive /\ channel[w] = "broken"
    /\ channel' = [channel EXCEPT ![w] = "none"]
    /\ UNCHANGED <<hub, events, alive, faults>>

\* A worker dies with its sockets; the hashes of Redis stay.
Crash(w) ==
    LET here == {s \in Sockets : WorkerOf[s] = w}
        Held(s) == IF phase[s] \in {"joining", "open"} /\ ScopeOf[s] # Nil
                   THEN ScopeOf[s] ELSE Unpaid(s)
    IN
    /\ w \in alive
    /\ Fault
    /\ alive' = alive \ {w}
    /\ phase' = [s \in Sockets |-> IF s \in here /\ phase[s] # "new" THEN "over" ELSE phase[s]]
    /\ connections' = connections \ here
    /\ todo' = [s \in Sockets |-> IF s \in here THEN {} ELSE todo[s]]
    /\ news' = [s \in Sockets |-> IF s \in here THEN {} ELSE news[s]]
    /\ clearing' = [s \in Sockets |-> IF s \in here THEN Nil ELSE clearing[s]]
    /\ queue' = [s \in Sockets |-> IF s \in here THEN 0 ELSE queue[s]]
    /\ lost' = lost \cup UNION {Held(s) \X {UserOf[s]} : s \in here}
    /\ channel' = [channel EXCEPT ![w] = "none"]
    /\ inbox' = [inbox EXCEPT ![w] = <<>>]
    /\ UNCHANGED <<count, unsent>>

Restart(w) ==
    /\ w \notin alive
    /\ alive' = alive \cup {w}
    /\ UNCHANGED <<hub, events, channel, faults>>

\* A turn of the subscriber's loop, whichever of them is due.
SubscriberTurn(w) == Subscribe(w) \/ Poll(w) \/ Reset(w)

HubNext ==
    \/ \E s \in Sockets :
          \/ Register(s) \/ Accept(s) \/ AcceptFails(s) \/ Announced(s)
          \/ Pump(s) \/ CloseSocket(s) \/ Clear(s) \/ PartFails(s)
          \/ \E r \in Roots : Join(s, r) \/ JoinFails(s, r) \/ Announce(s, r) \/ Part(s, r)
    \/ \E w \in Workers :
          \/ SubscriberTurn(w) \/ Break(w) \/ Crash(w) \/ Restart(w)
          \/ \E e \in unsent : Emit(w, e)

\* The subscriber's task never stops asking for its next turn.
HubFairness == \A w \in Workers : WF_hubVars(SubscriberTurn(w))

HubSpec == HubInit /\ [][HubNext]_hubVars /\ HubFairness

-----------------------------------------------------------------------------
(* Properties *)

\* Who is listed online has a socket, or one on its way in or out: the race of a
\* decrement, a new connection and the delete (presence_disconnect, 144-150) may hide
\* a user who is there, and leaves no ghost behind.  Only a failed call or a worker
\* that died does.
NoGhosts ==
    \A r \in Roots, u \in Users :
        count[r][u] # Nil /\ <<r, u>> \notin lost =>
            \E s \in Sockets :
                /\ UserOf[s] = u /\ ScopeOf[s] # Nil /\ r \in ScopeOf[s]
                /\ phase[s] \in {"joining", "open", "leaving"}

\* The workers that run do not stay without events: after every loss of Redis each
\* subscriber is back, and hands over all that came in (_consume, 279-303).
CaughtUp == \A w \in alive : channel[w] = "on" /\ inbox[w] = <<>>

SubscribersCatchUp == []<>CaughtUp
===============================================================================
