------------------------------ MODULE EventBus ------------------------------
(***************************************************************************)
(* The in-process event bus and the streams that read it: SSE generators   *)
(* and WebSocket handlers.                                                 *)
(*                                                                         *)
(* publish, subscribe and stop never suspend while they hold the bus lock, *)
(* so that each is one action; a stream suspends at queue.get and at the   *)
(* send to its client.  An event is its position in the order of           *)
(* publication.  Whether an event passes the filter a client has set by    *)
(* then is a choice.                                                       *)
(***************************************************************************)
EXTENDS Integers, Sequences

CONSTANTS
    Streams,
    QueueSize,     \* asyncio.Queue(maxsize=500)
    ReplaySize,    \* REPLAY_BUFFER_SIZE
    MaxEvents      \* bound on the events published

ASSUME BusAssumption ==
    /\ QueueSize \in Nat \ {0} /\ ReplaySize \in 1 .. QueueSize
    /\ MaxEvents \in Nat

VARIABLES
    running,       \* _running
    published,     \* how many events publish has accepted
    buffer,        \* _replay_buffer
    queue,         \* the queue of each stream
    pc,            \* "closed", "waiting" for its queue, "sending" to its client
    holding,       \* the event a stream is sending
    feed,          \* what its client has been sent
    taken,         \* the last event it took from its queue
    lost           \* its queue was full when an event was published

streams == <<queue, pc, holding, feed, taken, lost>>
vars == <<running, published, buffer, streams>>

\* None, the shutdown sentinel.
Sentinel == 0

Connected == {s \in Streams : pc[s] # "closed"}

\* Faulty variant: a queue takes one event too many.
RoomForOneMore(s) == Len(queue[s]) <= QueueSize

\* put_nowait does not raise QueueFull.
HasRoom(s) == Len(queue[s]) < QueueSize

\* Faulty variant: one full queue, and nobody gets the event.
AllOrNobody == IF \A s \in Connected : HasRoom(s) THEN Connected ELSE {}

\* The streams that get what is published now: the others lose it, each by itself.
Receivers == {s \in Connected : HasRoom(s)}

\* Faulty variant: the slice that keeps everything but the oldest.
AllButOldest(b) == Tail(b)

\* buffer[-REPLAY_BUFFER_SIZE:] once it is longer than that.
Trimmed(b) ==
    IF Len(b) > ReplaySize THEN SubSeq(b, Len(b) - ReplaySize + 1, Len(b)) ELSE b

-----------------------------------------------------------------------------
Start ==
    /\ ~running
    /\ running' = TRUE
    /\ UNCHANGED <<published, buffer, streams>>

\* While the bus is not running events are dropped before they have a position.
Publish ==
    /\ running
    /\ published < MaxEvents
    /\ published' = published + 1
    /\ buffer' = Trimmed(Append(buffer, published'))
    /\ queue' = [s \in Streams |-> IF s \in Receivers THEN Append(queue[s], published')
                                                      ELSE queue[s]]
    /\ lost' = [s \in Streams |-> lost[s] \/ (s \in Connected /\ ~HasRoom(s))]
    /\ UNCHANGED <<running, pc, holding, feed, taken>>

\* Faulty variant: the replay in the order of GET /events/recent.
NewestFirst(b) == [i \in DOMAIN b |-> b[Len(b) + 1 - i]]

\* The buffered events, oldest first.  There are never more than a queue holds.
Replayed(b) == b

\* _Subscription.__aenter__: registration and replay under one lock.
Subscribe(s, replay) ==
    /\ pc[s] = "closed"
    /\ pc' = [pc EXCEPT ![s] = "waiting"]
    /\ queue' = [queue EXCEPT ![s] = IF replay THEN Replayed(buffer) ELSE <<>>]
    /\ feed' = [feed EXCEPT ![s] = <<>>]
    /\ taken' = [taken EXCEPT ![s] =
            IF replay THEN published - Len(buffer) ELSE published]
    /\ lost' = [lost EXCEPT ![s] = FALSE]
    /\ UNCHANGED <<running, published, buffer, holding>>

\* __aexit__: the queue is forgotten with what is in it.
Leave(s) ==
    /\ pc' = [pc EXCEPT ![s] = "closed"]
    /\ queue' = [queue EXCEPT ![s] = <<>>]

\* Faulty variant: the sentinel is skipped like a filtered event.
SentinelSkipped(s) ==
    /\ pc[s] = "waiting" /\ queue[s] # <<>>
    /\ queue' = [queue EXCEPT ![s] = Tail(@)]
    /\ IF Head(queue[s]) = Sentinel
       THEN UNCHANGED <<taken, holding, pc>>
       ELSE /\ taken' = [taken EXCEPT ![s] = Head(queue[s])]
            /\ holding' = [holding EXCEPT ![s] = Head(queue[s])]
            /\ pc' = [pc EXCEPT ![s] = "sending"]
    /\ UNCHANGED <<running, published, buffer, feed, lost>>

\* queue.get: the sentinel ends the stream; an event is filtered out or sent.
Take(s) ==
    /\ pc[s] = "waiting" /\ queue[s] # <<>>
    /\ \/ /\ Head(queue[s]) = Sentinel
          /\ Leave(s)
          /\ UNCHANGED <<taken, holding>>
       \/ /\ Head(queue[s]) # Sentinel
          /\ queue' = [queue EXCEPT ![s] = Tail(@)]
          /\ taken' = [taken EXCEPT ![s] = Head(queue[s])]
          /\ \/ UNCHANGED <<pc, holding>>
             \/ /\ pc' = [pc EXCEPT ![s] = "sending"]
                /\ holding' = [holding EXCEPT ![s] = Head(queue[s])]
    /\ UNCHANGED <<running, published, buffer, feed, lost>>

Send(s) ==
    /\ pc[s] = "sending"
    /\ feed' = [feed EXCEPT ![s] = Append(@, holding[s])]
    /\ pc' = [pc EXCEPT ![s] = "waiting"]
    /\ UNCHANGED <<running, published, buffer, queue, holding, taken, lost>>

\* The client has gone: noticed at the next event or heartbeat it should be sent.
Disconnect(s) ==
    /\ pc[s] # "closed"
    /\ Leave(s)
    /\ UNCHANGED <<running, published, buffer, holding, feed, taken, lost>>

\* stop: the sentinel goes to the queues that have room for it.
Stop ==
    /\ running
    /\ running' = FALSE
    /\ queue' = [s \in Streams |-> IF s \in Receivers THEN Append(queue[s], Sentinel)
                                                      ELSE queue[s]]
    /\ UNCHANGED <<published, buffer, pc, holding, feed, taken, lost>>

Init ==
    /\ running = FALSE /\ published = 0 /\ buffer = <<>>
    /\ queue = [s \in Streams |-> <<>>]
    /\ pc = [s \in Streams |-> "closed"]
    /\ holding = [s \in Streams |-> Sentinel]
    /\ feed = [s \in Streams |-> <<>>]
    /\ taken = [s \in Streams |-> 0]
    /\ lost = [s \in Streams |-> FALSE]

Next ==
    \/ Start \/ Publish \/ Stop
    \/ \E s \in Streams, replay \in BOOLEAN : Subscribe(s, replay)
    \/ \E s \in Streams : Take(s) \/ Send(s) \/ Disconnect(s)

Spec == Init /\ [][Next]_vars

\* The event loop runs every stream; a client reads what it is sent or goes away.
FairSpec == Spec /\ \A s \in Streams : WF_vars(Take(s)) /\ WF_vars(Send(s))

-----------------------------------------------------------------------------
(* Properties.                                                             *)

\* Types; a queue never outgrows its maxsize, nor the buffer REPLAY_BUFFER_SIZE.
TypeOK ==
    /\ running \in BOOLEAN /\ published \in 0 .. MaxEvents
    /\ buffer \in Seq(1 .. MaxEvents) /\ Len(buffer) <= ReplaySize
    /\ queue \in [Streams -> Seq(0 .. MaxEvents)]
    /\ \A s \in Streams : Len(queue[s]) <= QueueSize
    /\ pc \in [Streams -> {"closed", "waiting", "sending"}]
    /\ holding \in [Streams -> 0 .. MaxEvents]
    /\ feed \in [Streams -> Seq(1 .. MaxEvents)]
    /\ taken \in [Streams -> 0 .. MaxEvents]
    /\ lost \in [Streams -> BOOLEAN]

\* A stream whose own queue was never full misses nothing: its queue holds every event
\* between the last one it took and the last one published.  A slow stream does not cost
\* the others an event, and replay and live events join without a gap.
NothingMissed ==
    \A s \in Connected : ~lost[s] =>
        {queue[s][i] : i \in DOMAIN queue[s]} \ {Sentinel} = taken[s] + 1 .. published

\* The replay buffer holds the latest events in their order, across stop and start.
ReplayIsLatest ==
    buffer = [i \in 1 .. Len(buffer) |-> published - Len(buffer) + i]
    /\ (published >= ReplaySize => Len(buffer) = ReplaySize)

\* What clients see is a feed in the sense of EventFeed.
Feed == INSTANCE EventFeed WITH log <- published
FeedSpec == Feed!Spec

\* A stream that got the shutdown sentinel ends.
StreamsEnd ==
    \A s \in Streams :
        (\E i \in DOMAIN queue[s] : queue[s][i] = Sentinel) ~> pc[s] = "closed"

=============================================================================
