---------------------------- MODULE EventBusProofs ----------------------------
(***************************************************************************)
(* Theorems about the event bus and its streams, for any number of         *)
(* streams and events and any sizes of the queues and of the replay        *)
(* buffer: no stream loses an event but by its own full queue, and what    *)
(* clients see is the feed of EventFeed.                                   *)
(***************************************************************************)
EXTENDS EventBus, TLAPS

-----------------------------------------------------------------------------
(* One queue q of a stream that has taken event t, when n are published.   *)

\* What is put into a queue with room for it, and what is taken out, stays in bounds.
LEMMA PutFits ==
    ASSUME NEW S, NEW q \in Seq(S), NEW e \in S, NEW n \in Nat, Len(q) < n
    PROVE  Append(q, e) \in Seq(S) /\ Len(Append(q, e)) <= n
<1>1. Append(q, e) \in Seq(S) /\ Len(Append(q, e)) = Len(q) + 1 /\ Len(q) \in Nat
  OBVIOUS
<1> QED  BY <1>1

LEMMA TakenFits ==
    ASSUME NEW S, NEW q \in Seq(S), q # <<>>, NEW n \in Nat, Len(q) <= n
    PROVE  Tail(q) \in Seq(S) /\ Head(q) \in S /\ Len(Tail(q)) <= n
<1>1. Tail(q) \in Seq(S) /\ Head(q) \in S
  OBVIOUS
<1>2. Len(Tail(q)) = Len(q) - 1 /\ Len(q) \in Nat
  OBVIOUS
<1> QED  BY <1>1, <1>2

\* The events in the queue come after the one taken, in their order.
Increasing(q, t, n) ==
    /\ \A i \in 1 .. Len(q) : q[i] # Sentinel => t < q[i] /\ q[i] <= n
    /\ \A i, j \in 1 .. Len(q) :
        i < j /\ q[i] # Sentinel /\ q[j] # Sentinel => q[i] < q[j]

\* None is missing.
Complete(q, t, n) == \A e \in t + 1 .. n : \E i \in 1 .. Len(q) : q[i] = e

\* A published event joins the end of a queue.
LEMMA PublishedJoins ==
    ASSUME NEW q \in Seq(Nat), NEW t \in Nat, NEW n \in Nat, t <= n, Increasing(q, t, n)
    PROVE  /\ Increasing(Append(q, n + 1), t, n + 1)
           /\ Complete(q, t, n) => Complete(Append(q, n + 1), t, n + 1)
<1> DEFINE r == Append(q, n + 1)
<1>1. /\ Len(q) \in Nat /\ Len(r) = Len(q) + 1 /\ r[Len(q) + 1] = n + 1
      /\ \A i \in 1 .. Len(q) : r[i] = q[i] /\ q[i] \in Nat
  OBVIOUS
<1> HIDE DEF r
<1>2. \A i \in 1 .. Len(r) : i \in 1 .. Len(q) \/ i = Len(q) + 1
  BY <1>1
<1>3. ASSUME NEW i \in 1 .. Len(r), r[i] # Sentinel PROVE t < r[i] /\ r[i] <= n + 1
  <2>1. CASE i \in 1 .. Len(q)
    BY <1>1, <1>3, <2>1 DEF Increasing
  <2>2. CASE i = Len(q) + 1
    BY <1>1, <2>2
  <2> QED  BY <1>2, <2>1, <2>2
<1>4. ASSUME NEW i \in 1 .. Len(r), NEW j \in 1 .. Len(r), i < j,
             r[i] # Sentinel, r[j] # Sentinel
      PROVE  r[i] < r[j]
  <2>1. i \in 1 .. Len(q)
    BY <1>1, <1>2, <1>4
  <2>2. r[i] = q[i] /\ q[i] \in Nat /\ q[i] <= n
    BY <1>1, <1>4, <2>1 DEF Increasing
  <2>3. CASE j \in 1 .. Len(q)
    BY <1>1, <1>4, <2>1, <2>3 DEF Increasing
  <2>4. CASE j = Len(q) + 1
    BY <1>1, <2>2, <2>4
  <2> QED  BY <1>2, <2>3, <2>4
<1>5. ASSUME Complete(q, t, n), NEW e \in t + 1 .. n + 1
      PROVE  \E i \in 1 .. Len(r) : r[i] = e
  <2>1. CASE e = n + 1
    <3>1. Len(q) + 1 \in 1 .. Len(r)
      BY <1>1
    <3> QED  BY <1>1, <2>1, <3>1
  <2>2. CASE e \in t + 1 .. n
    <3>1. PICK i \in 1 .. Len(q) : q[i] = e
      BY <1>5, <2>2 DEF Complete
    <3>2. i \in 1 .. Len(r)
      BY <1>1
    <3> QED  BY <1>1, <3>1, <3>2
  <2> QED  BY <2>1, <2>2
<1> QED  BY <1>3, <1>4, <1>5 DEF Increasing, Complete, r

\* A queue that does not get the event keeps its order.
LEMMA LostKeepsOrder ==
    ASSUME NEW q \in Seq(Nat), NEW t \in Nat, NEW n \in Nat, Increasing(q, t, n)
    PROVE  Increasing(q, t, n + 1)
<1>1. ASSUME NEW i \in 1 .. Len(q), q[i] # Sentinel PROVE t < q[i] /\ q[i] <= n + 1
  <2>1. q[i] \in Nat
    OBVIOUS
  <2> QED  BY <1>1, <2>1 DEF Increasing
<1> QED  BY <1>1 DEF Increasing

\* The sentinel is no event.
LEMMA SentinelJoins ==
    ASSUME NEW q \in Seq(Nat), NEW t \in Nat, NEW n \in Nat, Increasing(q, t, n)
    PROVE  /\ Increasing(Append(q, Sentinel), t, n)
           /\ Complete(q, t, n) => Complete(Append(q, Sentinel), t, n)
<1> DEFINE r == Append(q, Sentinel)
<1>1. /\ Len(q) \in Nat /\ Len(r) = Len(q) + 1 /\ r[Len(q) + 1] = Sentinel
      /\ \A i \in 1 .. Len(q) : r[i] = q[i]
  BY DEF Sentinel
<1> HIDE DEF r
<1>2. \A i \in 1 .. Len(r) : r[i] # Sentinel => i \in 1 .. Len(q) /\ r[i] = q[i]
  BY <1>1
<1>3. \A i \in 1 .. Len(q) : i \in 1 .. Len(r)
  BY <1>1
<1> QED  BY <1>1, <1>2, <1>3 DEF Increasing, Complete, r

\* Taking the first event of a queue.
LEMMA TakenLeaves ==
    ASSUME NEW q \in Seq(Nat), NEW t \in Nat, NEW n \in Nat, t <= n,
           Increasing(q, t, n), q # <<>>, Head(q) # Sentinel
    PROVE  /\ Head(q) \in t + 1 .. n /\ Increasing(Tail(q), Head(q), n)
           /\ Complete(q, t, n) => Complete(Tail(q), Head(q), n)
<1> DEFINE r == Tail(q)
<1>1. /\ Len(q) \in Nat \ {0} /\ Len(r) = Len(q) - 1 /\ Head(q) = q[1]
      /\ \A i \in 1 .. Len(r) : r[i] = q[i + 1] /\ i + 1 \in 1 .. Len(q)
      /\ \A i \in 1 .. Len(q) : q[i] \in Nat
  OBVIOUS
<1> HIDE DEF r
<1>2. 1 \in 1 .. Len(q)
  BY <1>1
<1>3. Head(q) \in t + 1 .. n
  BY <1>1, <1>2 DEF Increasing
<1>4. ASSUME NEW i \in 1 .. Len(r), r[i] # Sentinel PROVE Head(q) < r[i] /\ r[i] <= n
  <2>1. i + 1 \in 1 .. Len(q) /\ 1 < i + 1 /\ r[i] = q[i + 1]
    BY <1>1
  <2> QED  BY <1>1, <1>2, <1>4, <2>1 DEF Increasing
<1>5. ASSUME NEW i \in 1 .. Len(r), NEW j \in 1 .. Len(r), i < j,
             r[i] # Sentinel, r[j] # Sentinel
      PROVE  r[i] < r[j]
  <2>1. /\ i + 1 \in 1 .. Len(q) /\ j + 1 \in 1 .. Len(q) /\ i + 1 < j + 1
        /\ r[i] = q[i + 1] /\ r[j] = q[j + 1]
    BY <1>1, <1>5
  <2> QED  BY <1>5, <2>1 DEF Increasing
<1>6. ASSUME Complete(q, t, n), NEW e \in Head(q) + 1 .. n
      PROVE  \E i \in 1 .. Len(r) : r[i] = e
  <2>1. e \in t + 1 .. n /\ e # q[1]
    BY <1>1, <1>3
  <2>2. PICK i \in 1 .. Len(q) : q[i] = e
    BY <1>6, <2>1 DEF Complete
  <2>3. i - 1 \in 1 .. Len(r) /\ (i - 1) + 1 = i
    BY <1>1, <2>1, <2>2
  <2>4. r[i - 1] = e
    BY <1>1, <2>2, <2>3
  <2> QED  BY <2>3, <2>4
<1> QED  BY <1>3, <1>4, <1>5, <1>6 DEF Increasing, Complete, r

\* A complete queue holds the events after t and no others.
LEMMA CompleteIsInterval ==
    ASSUME NEW q \in Seq(Nat), NEW t \in Nat, NEW n \in Nat,
           Increasing(q, t, n), Complete(q, t, n)
    PROVE  {q[i] : i \in DOMAIN q} \ {Sentinel} = t + 1 .. n
<1>1. DOMAIN q = 1 .. Len(q) /\ \A i \in 1 .. Len(q) : q[i] \in Nat
  OBVIOUS
<1>2. ASSUME NEW e \in {q[i] : i \in DOMAIN q} \ {Sentinel} PROVE e \in t + 1 .. n
  BY <1>1 DEF Increasing
<1>3. ASSUME NEW e \in t + 1 .. n PROVE e \in {q[i] : i \in DOMAIN q} \ {Sentinel}
  <2>1. e # Sentinel
    BY DEF Sentinel
  <2> QED  BY <1>1, <2>1 DEF Complete
<1> QED  BY <1>2, <1>3

-----------------------------------------------------------------------------
(* The replay buffer b, when n events are published.                       *)

Latest(b, n) ==
    /\ Len(b) <= n
    /\ \A i \in 1 .. Len(b) : b[i] = n - Len(b) + i
    /\ Len(b) = IF n >= ReplaySize THEN ReplaySize ELSE n

\* What an event leaves of the buffer.
LEMMA TrimmedIsLatest ==
    ASSUME NEW b \in Seq(1 .. MaxEvents), NEW n \in 0 .. MaxEvents, n < MaxEvents,
           Len(b) <= ReplaySize, Latest(b, n)
    PROVE  /\ Trimmed(Append(b, n + 1)) \in Seq(1 .. MaxEvents)
           /\ Len(Trimmed(Append(b, n + 1))) <= ReplaySize
           /\ Latest(Trimmed(Append(b, n + 1)), n + 1)
<1> DEFINE a == Append(b, n + 1)
<1>1. /\ ReplaySize \in Nat \ {0} /\ MaxEvents \in Nat /\ n \in Nat /\ n + 1 \in 1 .. MaxEvents
  BY BusAssumption
<1>2. /\ a \in Seq(1 .. MaxEvents) /\ Len(b) \in Nat /\ Len(a) = Len(b) + 1
      /\ a[Len(b) + 1] = n + 1 /\ \A i \in 1 .. Len(b) : a[i] = b[i]
  BY <1>1
<1> HIDE DEF a
<1>3. ASSUME NEW i \in 1 .. Len(a) PROVE a[i] = n + 1 - Len(a) + i
  <2>1. CASE i \in 1 .. Len(b)
    <3>1. b[i] = n - Len(b) + i /\ a[i] = b[i]
      BY <1>2, <2>1 DEF Latest
    <3> QED  BY <1>1, <1>2, <2>1, <3>1
  <2>2. CASE i = Len(b) + 1
    BY <1>1, <1>2, <2>2
  <2> QED  BY <1>2, <2>1, <2>2
<1>4. CASE Len(a) <= ReplaySize
  <2>1. Trimmed(a) = a
    BY <1>1, <1>2, <1>4 DEF Trimmed
  <2>2. Latest(a, n + 1)
    BY <1>1, <1>2, <1>3, <1>4 DEF Latest
  <2> QED  BY <1>2, <1>4, <2>1, <2>2 DEF a
<1>5. CASE ~(Len(a) <= ReplaySize)
  <2> DEFINE c == SubSeq(a, 2, Len(a))
  <2>1. /\ Len(a) = ReplaySize + 1 /\ Len(b) = ReplaySize
        /\ Len(a) \in Nat /\ Len(a) - ReplaySize + 1 = 2
    BY <1>1, <1>2, <1>5
  <2>2. /\ c \in Seq(1 .. MaxEvents) /\ Len(c) = Len(a) - 1
        /\ \A i \in 1 .. Len(c) : c[i] = a[i + 1] /\ i + 1 \in 1 .. Len(a)
    BY <1>1, <1>2, <2>1
  <2>3. Trimmed(a) = c
    BY <1>5, <2>1 DEF Trimmed
  <2> HIDE DEF c
  <2>4. \A i \in 1 .. Len(c) : c[i] = n + 1 - Len(c) + i
    BY <1>1, <1>3, <2>1, <2>2
  <2>5. Latest(c, n + 1)
    BY <1>1, <2>1, <2>2, <2>4 DEF Latest
  <2> QED  BY <1>1, <2>2, <2>3, <2>5 DEF a
<1> QED  BY <1>4, <1>5

\* Replayed to a new stream, the buffer is what it has missed since it was full.
LEMMA ReplayCatchesUp ==
    ASSUME NEW b \in Seq(1 .. MaxEvents), NEW n \in Nat, Latest(b, n)
    PROVE  /\ n - Len(b) \in 0 .. n
           /\ Increasing(b, n - Len(b), n) /\ Complete(b, n - Len(b), n)
<1>1. Len(b) \in Nat /\ Len(b) <= n /\ \A i \in 1 .. Len(b) : b[i] = n - Len(b) + i
  BY DEF Latest
<1>2. Increasing(b, n - Len(b), n)
  BY <1>1 DEF Increasing
<1>3. ASSUME NEW e \in (n - Len(b)) + 1 .. n PROVE \E i \in 1 .. Len(b) : b[i] = e
  <2>1. e - (n - Len(b)) \in 1 .. Len(b)
    BY <1>1
  <2>2. b[e - (n - Len(b))] = e
    BY <1>1, <2>1
  <2> QED  BY <2>1, <2>2
<1> QED  BY <1>1, <1>2, <1>3 DEF Complete

-----------------------------------------------------------------------------
(* The inductive invariant.                                                *)

\* What a stream has taken comes before what its queue holds, what it has sent before
\* what it is sending.
StreamInv(s) ==
    /\ taken[s] <= published
    /\ Increasing(queue[s], taken[s], published)
    /\ pc[s] # "closed" /\ ~lost[s] => Complete(queue[s], taken[s], published)
    /\ pc[s] = "waiting" => Feed!Newest(s) <= taken[s]
    /\ pc[s] = "sending" =>
            /\ holding[s] = taken[s] /\ taken[s] # Sentinel
            /\ Feed!Newest(s) < taken[s]

BusInv == TypeOK /\ Latest(buffer, published) /\ \A s \in Streams : StreamInv(s)

\* Types as the lemmas above want them.
LEMMA BusTypes ==
    ASSUME TypeOK
    PROVE  /\ published \in Nat /\ MaxEvents \in Nat /\ ReplaySize \in Nat /\ QueueSize \in Nat
           /\ \A s \in Streams :
                /\ queue[s] \in Seq(Nat) /\ queue[s] \in Seq(0 .. MaxEvents)
                /\ taken[s] \in Nat /\ holding[s] \in Nat
                /\ feed[s] \in Seq(1 .. MaxEvents) /\ Feed!Newest(s) \in Nat
<1>1. MaxEvents \in Nat /\ ReplaySize \in Nat /\ QueueSize \in Nat /\ published \in Nat
  BY BusAssumption DEF TypeOK
<1>2. ASSUME NEW s \in Streams
      PROVE  /\ queue[s] \in Seq(Nat) /\ queue[s] \in Seq(0 .. MaxEvents)
             /\ taken[s] \in Nat /\ holding[s] \in Nat
             /\ feed[s] \in Seq(1 .. MaxEvents) /\ Feed!Newest(s) \in Nat
  <2>1. /\ queue[s] \in Seq(0 .. MaxEvents) /\ taken[s] \in 0 .. MaxEvents
        /\ holding[s] \in 0 .. MaxEvents /\ feed[s] \in Seq(1 .. MaxEvents)
    BY DEF TypeOK
  <2>2. queue[s] \in Seq(Nat)
    BY <1>1, <2>1
  <2>3. Feed!Newest(s) \in Nat
    BY <1>1, <2>1 DEF Feed!Newest
  <2> QED  BY <1>1, <2>1, <2>2, <2>3
<1> QED  BY <1>1, <1>2

\* The first states.
LEMMA InitHolds == Init => BusInv
<1> SUFFICES ASSUME Init PROVE BusInv
  OBVIOUS
<1>1. /\ MaxEvents \in Nat /\ ReplaySize \in Nat \ {0} /\ QueueSize \in Nat
      /\ 0 \in 0 .. MaxEvents
  BY BusAssumption
<1>2. /\ published = 0 /\ buffer = <<>> /\ running = FALSE
      /\ \A s \in Streams : /\ queue[s] = <<>> /\ pc[s] = "closed" /\ feed[s] = <<>>
                            /\ taken[s] = 0
  BY DEF Init
<1>3. TypeOK
  <2>1. <<>> \in Seq(1 .. MaxEvents) /\ Len(<<>>) = 0
    OBVIOUS
  <2>2. queue = [s \in Streams |-> <<>>] /\ feed = [s \in Streams |-> <<>>]
    BY DEF Init
  <2>3. /\ queue \in [Streams -> Seq(0 .. MaxEvents)]
        /\ feed \in [Streams -> Seq(1 .. MaxEvents)]
    <3>1. \A S, T : [s \in S |-> <<>>] \in [S -> Seq(T)]
      OBVIOUS
    <3> QED  BY <2>2, <3>1
  <2>4. \A s \in Streams : Len(queue[s]) <= QueueSize
    <3>1. 0 <= QueueSize
      BY <1>1
    <3> QED  BY <1>2, <2>1, <3>1
  <2>5. /\ pc \in [Streams -> {"closed", "waiting", "sending"}]
        /\ holding \in [Streams -> 0 .. MaxEvents] /\ taken \in [Streams -> 0 .. MaxEvents]
        /\ lost \in [Streams -> BOOLEAN]
    BY <1>1 DEF Init, Sentinel
  <2>6. buffer \in Seq(1 .. MaxEvents) /\ Len(buffer) <= ReplaySize
    BY <1>1, <1>2, <2>1
  <2> QED  BY <1>1, <1>2, <2>3, <2>4, <2>5, <2>6 DEF TypeOK
<1>4. Latest(buffer, published)
  BY <1>1, <1>2 DEF Latest
<1>5. ASSUME NEW s \in Streams PROVE StreamInv(s)
  BY <1>2 DEF StreamInv, Increasing
<1> QED  BY <1>3, <1>4, <1>5 DEF BusInv

\* A stream to which nothing happens.
LEMMA UntouchedStream ==
    ASSUME NEW s \in Streams, StreamInv(s), published' = published,
           queue'[s] = queue[s], pc'[s] = pc[s], holding'[s] = holding[s],
           feed'[s] = feed[s], taken'[s] = taken[s], lost'[s] = lost[s]
    PROVE  StreamInv(s)'
BY DEF StreamInv, Feed!Newest

\* An event is published: it joins the queues that have room for it.
LEMMA PublishKeeps ==
    ASSUME BusInv, Publish
    PROVE  BusInv'
<1> USE DEF BusInv
<1>1. /\ published' = published + 1 /\ published \in 0 .. MaxEvents /\ published < MaxEvents
      /\ buffer' = Trimmed(Append(buffer, published + 1))
      /\ UNCHANGED <<running, pc, holding, feed, taken>>
      /\ MaxEvents \in Nat /\ published + 1 \in 0 .. MaxEvents
  BY BusTypes DEF Publish, TypeOK
<1>2. /\ buffer' \in Seq(1 .. MaxEvents) /\ Len(buffer') <= ReplaySize
      /\ Latest(buffer', published')
  BY <1>1, TrimmedIsLatest DEF TypeOK
<1>3. ASSUME NEW s \in Streams
      PROVE  /\ queue'[s] = IF s \in Receivers THEN Append(queue[s], published + 1)
                                               ELSE queue[s]
             /\ lost'[s] = (lost[s] \/ (s \in Connected /\ ~HasRoom(s)))
  BY <1>1 DEF Publish
<1>4. TypeOK'
  <2>1. ASSUME NEW s \in Streams
        PROVE  queue'[s] \in Seq(0 .. MaxEvents) /\ Len(queue'[s]) <= QueueSize
    <3>1. queue[s] \in Seq(0 .. MaxEvents) /\ Len(queue[s]) <= QueueSize
      BY DEF TypeOK
    <3>2. CASE s \in Receivers
      <4>1. Len(queue[s]) < QueueSize
        BY <3>2 DEF Receivers, HasRoom
      <4>2. QueueSize \in Nat /\ published + 1 \in 0 .. MaxEvents
        BY <1>1, BusTypes
      <4>3. queue'[s] = Append(queue[s], published + 1)
        BY <1>3, <3>2
      <4> QED  BY <3>1, <4>1, <4>2, <4>3, PutFits
    <3>3. CASE s \notin Receivers
      BY <1>3, <3>1, <3>3
    <3> QED  BY <3>2, <3>3
  <2>2. DOMAIN queue' = Streams /\ queue' = [s \in Streams |-> queue'[s]]
    BY DEF Publish
  <2>3. queue' \in [Streams -> Seq(0 .. MaxEvents)]
    BY <2>1, <2>2
  <2>4. lost' \in [Streams -> BOOLEAN]
    BY DEF Publish, TypeOK
  <2> QED  BY <1>1, <1>2, <2>1, <2>3, <2>4 DEF TypeOK
<1>5. ASSUME NEW s \in Streams PROVE StreamInv(s)'
  <2>1. /\ StreamInv(s) /\ queue[s] \in Seq(Nat) /\ taken[s] \in Nat /\ published \in Nat
        /\ taken[s] <= published
    BY BusTypes DEF StreamInv
  <2>2. Increasing(queue'[s], taken[s], published + 1)
    BY <1>3, <2>1, PublishedJoins, LostKeepsOrder DEF StreamInv
  <2>3. ASSUME pc[s] # "closed", ~lost'[s]
        PROVE  Complete(queue'[s], taken[s], published + 1)
    <3>1. s \in Receivers /\ ~lost[s]
      BY <1>3, <2>3 DEF Receivers, Connected
    <3>2. queue'[s] = Append(queue[s], published + 1)
      BY <1>3, <3>1
    <3> QED  BY <2>1, <2>3, <3>1, <3>2, PublishedJoins DEF StreamInv
  <2>4. taken[s] <= published + 1
    BY <2>1
  <2>5. Feed!Newest(s)' = Feed!Newest(s)
    BY <1>1 DEF Feed!Newest
  <2> QED  BY <1>1, <2>1, <2>2, <2>3, <2>4, <2>5 DEF StreamInv
<1> QED  BY <1>2, <1>4, <1>5

\* The sentinel joins the queues that have room for it.
LEMMA StopKeeps ==
    ASSUME BusInv, Stop
    PROVE  BusInv'
<1> USE DEF BusInv
<1>1. /\ running' = FALSE
      /\ UNCHANGED <<published, buffer, pc, holding, feed, taken, lost>>
  BY DEF Stop
<1>2. ASSUME NEW s \in Streams
      PROVE  queue'[s] = IF s \in Receivers THEN Append(queue[s], Sentinel) ELSE queue[s]
  BY DEF Stop
<1>3. TypeOK'
  <2>1. ASSUME NEW s \in Streams
        PROVE  queue'[s] \in Seq(0 .. MaxEvents) /\ Len(queue'[s]) <= QueueSize
    <3>1. /\ queue[s] \in Seq(0 .. MaxEvents) /\ Len(queue[s]) <= QueueSize
          /\ Sentinel \in 0 .. MaxEvents
      BY BusTypes DEF TypeOK, Sentinel
    <3>2. CASE s \in Receivers
      <4>1. Len(queue[s]) < QueueSize
        BY <3>2 DEF Receivers, HasRoom
      <4>2. QueueSize \in Nat /\ queue'[s] = Append(queue[s], Sentinel)
        BY <1>2, <3>2, BusTypes
      <4> QED  BY <3>1, <4>1, <4>2, PutFits
    <3>3. CASE s \notin Receivers
      BY <1>2, <3>1, <3>3
    <3> QED  BY <3>2, <3>3
  <2>2. queue' = [s \in Streams |-> queue'[s]]
    BY DEF Stop
  <2>3. queue' \in [Streams -> Seq(0 .. MaxEvents)]
    BY <2>1, <2>2
  <2> QED  BY <1>1, <2>1, <2>3 DEF TypeOK
<1>4. ASSUME NEW s \in Streams PROVE StreamInv(s)'
  <2>1. StreamInv(s) /\ queue[s] \in Seq(Nat) /\ taken[s] \in Nat /\ published \in Nat
    BY BusTypes
  <2>2. Increasing(queue'[s], taken[s], published)
    BY <1>2, <2>1, SentinelJoins DEF StreamInv
  <2>3. Complete(queue[s], taken[s], published) => Complete(queue'[s], taken[s], published)
    BY <1>2, <2>1, SentinelJoins DEF StreamInv
  <2>4. Feed!Newest(s)' = Feed!Newest(s)
    BY <1>1 DEF Feed!Newest
  <2> QED  BY <1>1, <2>1, <2>2, <2>3, <2>4 DEF StreamInv
<1> QED  BY <1>1, <1>3, <1>4

\* A stream is opened.
LEMMA SubscribeKeeps ==
    ASSUME BusInv, NEW s \in Streams, NEW replay \in BOOLEAN, Subscribe(s, replay)
    PROVE  BusInv'
<1> USE DEF BusInv
<1> DEFINE q == IF replay THEN buffer ELSE <<>>
           t == IF replay THEN published - Len(buffer) ELSE published
<1>1. /\ pc' = [pc EXCEPT ![s] = "waiting"] /\ queue' = [queue EXCEPT ![s] = q]
      /\ feed' = [feed EXCEPT ![s] = <<>>] /\ taken' = [taken EXCEPT ![s] = t]
      /\ lost' = [lost EXCEPT ![s] = FALSE]
      /\ UNCHANGED <<running, published, buffer, holding>>
  BY DEF Subscribe, Replayed
<1>2. /\ buffer \in Seq(1 .. MaxEvents) /\ buffer \in Seq(0 .. MaxEvents)
      /\ Len(buffer) <= QueueSize /\ published \in Nat /\ published \in 0 .. MaxEvents
  <2>1. /\ buffer \in Seq(1 .. MaxEvents) /\ Len(buffer) <= ReplaySize
        /\ published \in 0 .. MaxEvents
    BY DEF TypeOK
  <2>2. ReplaySize \in 1 .. QueueSize /\ QueueSize \in Nat /\ MaxEvents \in Nat
    BY BusAssumption
  <2> QED  BY <2>1, <2>2
<1>3. /\ t \in 0 .. published /\ Increasing(q, t, published) /\ Complete(q, t, published)
  <2>1. CASE replay
    BY <1>2, <2>1, ReplayCatchesUp
  <2>2. CASE ~replay
    BY <1>2, <2>2 DEF Increasing, Complete
  <2> QED  BY <2>1, <2>2
<1>4. q \in Seq(0 .. MaxEvents) /\ Len(q) <= QueueSize /\ t \in 0 .. MaxEvents
  <2>1. <<>> \in Seq(0 .. MaxEvents) /\ Len(<<>>) <= QueueSize
    BY BusTypes
  <2>2. t \in 0 .. published /\ published <= MaxEvents /\ MaxEvents \in Nat
    BY <1>2, <1>3, BusTypes
  <2>3. t \in 0 .. MaxEvents
    <3> HIDE DEF t
    <3> QED  BY <1>2, <2>2
  <2> QED  BY <1>2, <2>1, <2>3
<1> HIDE DEF q, t
<1>5. TypeOK'
  BY <1>1, <1>4 DEF TypeOK
<1>6. ASSUME NEW o \in Streams PROVE StreamInv(o)'
  <2>1. CASE o = s
    <3>1. /\ pc'[s] = "waiting" /\ queue'[s] = q /\ taken'[s] = t /\ feed'[s] = <<>>
          /\ published' = published
      BY <1>1 DEF TypeOK
    <3>2. Feed!Newest(s)' = 0
      BY <3>1 DEF Feed!Newest
    <3> QED  BY <1>2, <1>3, <2>1, <3>1, <3>2 DEF StreamInv
  <2>2. CASE o # s
    BY <1>1, <2>2, UntouchedStream DEF TypeOK
  <2> QED  BY <2>1, <2>2
<1> QED  BY <1>1, <1>5, <1>6

\* A stream takes an event or the sentinel, or its client leaves.
LEMMA LeaveKeeps ==
    ASSUME BusInv, NEW s \in Streams, Leave(s),
           UNCHANGED <<running, published, buffer, holding, feed, taken, lost>>
    PROVE  BusInv'
<1> USE DEF BusInv
<1>1. pc' = [pc EXCEPT ![s] = "closed"] /\ queue' = [queue EXCEPT ![s] = <<>>]
  BY DEF Leave
<1>2. TypeOK'
  <2>1. <<>> \in Seq(0 .. MaxEvents) /\ Len(<<>>) <= QueueSize
    BY BusTypes
  <2> QED  BY <1>1, <2>1 DEF TypeOK
<1>3. ASSUME NEW o \in Streams PROVE StreamInv(o)'
  <2>1. CASE o = s
    <3>1. pc'[s] = "closed" /\ queue'[s] = <<>>
      BY <1>1 DEF TypeOK
    <3> QED  BY <2>1, <3>1 DEF StreamInv, Increasing
  <2>2. CASE o # s
    BY <1>1, <2>2, UntouchedStream DEF TypeOK
  <2> QED  BY <2>1, <2>2
<1> QED  BY <1>2, <1>3

LEMMA TakeKeeps ==
    ASSUME BusInv, NEW s \in Streams, Take(s)
    PROVE  BusInv'
<1> USE DEF BusInv
<1>1. CASE Head(queue[s]) = Sentinel
  BY <1>1, LeaveKeeps DEF Take
<1>2. CASE Head(queue[s]) # Sentinel
  <2> DEFINE e == Head(queue[s])
  <2>1. /\ pc[s] = "waiting" /\ queue[s] # <<>>
        /\ queue' = [queue EXCEPT ![s] = Tail(queue[s])]
        /\ taken' = [taken EXCEPT ![s] = e]
        /\ \/ UNCHANGED <<pc, holding>>
           \/ pc' = [pc EXCEPT ![s] = "sending"] /\ holding' = [holding EXCEPT ![s] = e]
        /\ UNCHANGED <<running, published, buffer, feed, lost>>
    BY <1>2 DEF Take
  <2>2. /\ StreamInv(s) /\ queue[s] \in Seq(Nat) /\ queue[s] \in Seq(0 .. MaxEvents)
        /\ taken[s] \in Nat /\ published \in Nat /\ Feed!Newest(s) \in Nat
        /\ Len(queue[s]) <= QueueSize /\ QueueSize \in Nat
    BY BusTypes DEF TypeOK
  <2>3. /\ e \in taken[s] + 1 .. published /\ Increasing(Tail(queue[s]), e, published)
        /\ ~lost[s] => Complete(Tail(queue[s]), e, published)
    BY <1>2, <2>1, <2>2, TakenLeaves DEF StreamInv
  <2>4. /\ Tail(queue[s]) \in Seq(0 .. MaxEvents) /\ Len(Tail(queue[s])) <= QueueSize
        /\ e \in 0 .. MaxEvents
    BY <2>1, <2>2, TakenFits
  <2> HIDE DEF e
  <2>5. TypeOK'
    BY <2>1, <2>4 DEF TypeOK
  <2>6. ASSUME NEW o \in Streams PROVE StreamInv(o)'
    <3>1. CASE o = s
      <4>1. /\ queue'[s] = Tail(queue[s]) /\ taken'[s] = e /\ published' = published
            /\ pc'[s] = "waiting" \/ (pc'[s] = "sending" /\ holding'[s] = e)
            /\ lost'[s] = lost[s]
        BY <2>1 DEF TypeOK
      <4>2. Feed!Newest(s)' = Feed!Newest(s) /\ Feed!Newest(s) <= taken[s]
        BY <2>1, <2>2 DEF StreamInv, Feed!Newest
      <4>3. Feed!Newest(s) < e /\ Feed!Newest(s) <= e /\ e # Sentinel /\ e <= published
        BY <2>2, <2>3, <4>2 DEF Sentinel
      <4> QED  BY <2>3, <3>1, <4>1, <4>2, <4>3 DEF StreamInv
    <3>2. CASE o # s
      BY <2>1, <3>2, UntouchedStream DEF TypeOK
    <3> QED  BY <3>1, <3>2
  <2> QED  BY <2>1, <2>5, <2>6
<1> QED  BY <1>1, <1>2

\* A stream has sent its event.
LEMMA SendKeeps ==
    ASSUME BusInv, NEW s \in Streams, Send(s)
    PROVE  BusInv'
<1> USE DEF BusInv
<1>1. /\ pc[s] = "sending" /\ feed' = [feed EXCEPT ![s] = Append(feed[s], holding[s])]
      /\ pc' = [pc EXCEPT ![s] = "waiting"]
      /\ UNCHANGED <<running, published, buffer, queue, holding, taken, lost>>
  BY DEF Send
<1>2. /\ StreamInv(s) /\ holding[s] = taken[s] /\ holding[s] \in 1 .. MaxEvents
      /\ feed[s] \in Seq(1 .. MaxEvents)
  <2>1. StreamInv(s) /\ holding[s] = taken[s] /\ taken[s] # Sentinel
    BY <1>1 DEF StreamInv
  <2>2. holding[s] \in 0 .. MaxEvents /\ feed[s] \in Seq(1 .. MaxEvents)
    BY DEF TypeOK
  <2> QED  BY <2>1, <2>2, BusTypes DEF Sentinel
<1>3. /\ Append(feed[s], holding[s]) \in Seq(1 .. MaxEvents)
      /\ Append(feed[s], holding[s]) # <<>>
      /\ Append(feed[s], holding[s])[Len(Append(feed[s], holding[s]))] = holding[s]
  BY <1>2
<1>4. TypeOK'
  BY <1>1, <1>3 DEF TypeOK
<1>5. ASSUME NEW o \in Streams PROVE StreamInv(o)'
  <2>1. CASE o = s
    <3>1. pc'[s] = "waiting" /\ feed'[s] = Append(feed[s], holding[s])
      BY <1>1 DEF TypeOK
    <3>2. Feed!Newest(s)' = taken[s]
      BY <1>2, <1>3, <3>1 DEF Feed!Newest
    <3>3. taken[s] <= taken[s]
      BY BusTypes
    <3> QED  BY <1>1, <1>2, <2>1, <3>1, <3>2, <3>3 DEF StreamInv
  <2>2. CASE o # s
    BY <1>1, <2>2, UntouchedStream DEF TypeOK
  <2> QED  BY <2>1, <2>2
<1> QED  BY <1>1, <1>4, <1>5

\* Every step keeps the invariant.
LEMMA StepKeeps == BusInv /\ [Next]_vars => BusInv'
<1> SUFFICES ASSUME BusInv, [Next]_vars PROVE BusInv'
  OBVIOUS
<1>1. CASE UNCHANGED <<published, buffer, streams>> /\ running' \in BOOLEAN
  <2>1. \A s \in Streams : StreamInv(s)'
    BY <1>1, UntouchedStream DEF BusInv, streams
  <2> QED  BY <1>1, <2>1 DEF BusInv, TypeOK, streams
<1>2. ASSUME NEW s \in Streams, Disconnect(s) PROVE BusInv'
  BY <1>2, LeaveKeeps DEF Disconnect
<1>3. CASE Start
  BY <1>1, <1>3 DEF Start
<1>4. CASE UNCHANGED vars
  BY <1>1, <1>4 DEF vars, BusInv, TypeOK
<1>5. CASE \E s \in Streams : Take(s) \/ Send(s) \/ Disconnect(s)
  BY <1>2, <1>5, TakeKeeps, SendKeeps
<1>6. CASE \E s \in Streams, replay \in BOOLEAN : Subscribe(s, replay)
  BY <1>6, SubscribeKeeps
<1> QED  BY <1>3, <1>4, <1>5, <1>6, PublishKeeps, StopKeeps DEF Next

\* Queues and replay buffer never outgrow their bounds.
THEOREM BusTypeCorrect == Spec => []TypeOK
<1>1. BusInv => TypeOK
  BY DEF BusInv
<1> QED  BY <1>1, InitHolds, StepKeeps, PTL DEF Spec

\* A stream whose own queue was never full misses no event, however slow the others are
\* and wherever it joined.
THEOREM NothingMissedHolds == Spec => []NothingMissed
<1>1. ASSUME BusInv PROVE NothingMissed
  <2> SUFFICES ASSUME NEW s \in Connected, ~lost[s]
               PROVE  {queue[s][i] : i \in DOMAIN queue[s]} \ {Sentinel}
                        = taken[s] + 1 .. published
    BY DEF NothingMissed
  <2>1. s \in Streams /\ pc[s] # "closed"
    BY DEF Connected
  <2>2. queue[s] \in Seq(Nat) /\ taken[s] \in Nat /\ published \in Nat
    BY <1>1, <2>1, BusTypes DEF BusInv
  <2> QED  BY <1>1, <2>1, <2>2, CompleteIsInterval DEF BusInv, StreamInv
<1> QED  BY <1>1, InitHolds, StepKeeps, PTL DEF Spec

\* A late client is replayed the latest events, also after a restart of the bus.
THEOREM ReplayIsLatestHolds == Spec => []ReplayIsLatest
<1>1. ASSUME BusInv PROVE ReplayIsLatest
  <2>1. /\ buffer \in Seq(1 .. MaxEvents) /\ Latest(buffer, published)
        /\ Len(buffer) \in Nat
    BY <1>1 DEF BusInv, TypeOK
  <2>2. buffer = [i \in 1 .. Len(buffer) |-> buffer[i]]
    BY <2>1
  <2>3. \A i \in 1 .. Len(buffer) : buffer[i] = published - Len(buffer) + i
    BY <2>1 DEF Latest
  <2> QED  BY <2>1, <2>2, <2>3 DEF ReplayIsLatest, Latest
<1> QED  BY <1>1, InitHolds, StepKeeps, PTL DEF Spec

-----------------------------------------------------------------------------
(* The refinement.                                                         *)

\* Every step of the bus and its streams is a step of the feed, or changes nothing that
\* a client sees.
LEMMA StepRefines ==
    ASSUME BusInv, [Next]_vars
    PROVE  [Feed!Next]_<<published, feed>>
<1>1. CASE Publish
  BY <1>1 DEF Publish, Feed!Next, Feed!Announce
<1>2. ASSUME NEW s \in Streams, NEW replay \in BOOLEAN, Subscribe(s, replay)
      PROVE  Feed!Next
  <2>1. Feed!Open(s)
    BY <1>2 DEF Subscribe, Feed!Open
  <2> QED  BY <2>1 DEF Feed!Next
<1>3. ASSUME NEW s \in Streams, Send(s) PROVE Feed!Next
  <2>1. /\ holding[s] = taken[s] /\ Feed!Newest(s) < taken[s] /\ taken[s] <= published
    BY <1>3 DEF Send, BusInv, StreamInv
  <2>2. taken[s] \in Nat /\ Feed!Newest(s) \in Nat /\ published \in Nat
    BY BusTypes DEF BusInv
  <2>3. holding[s] \in 1 .. published /\ holding[s] > Feed!Newest(s)
    BY <2>1, <2>2
  <2>4. Feed!Deliver(s)
    BY <1>3, <2>3 DEF Send, Feed!Deliver
  <2> QED  BY <2>4 DEF Feed!Next
<1>4. ASSUME \/ Start \/ Stop \/ UNCHANGED vars
             \/ \E s \in Streams : Take(s) \/ Disconnect(s)
      PROVE  UNCHANGED <<published, feed>>
  BY <1>4 DEF Start, Stop, Take, Disconnect, vars, streams
<1> QED  BY <1>1, <1>2, <1>3, <1>4 DEF Next

\* Clients see a feed: published events only, in their order, none twice.
THEOREM FeedImplemented == Spec => FeedSpec
<1>1. Init => Feed!Init
  BY DEF Init, Feed!Init
<1> QED  BY <1>1, InitHolds, StepKeeps, StepRefines, PTL DEF Spec, FeedSpec, Feed!Spec
=============================================================================
