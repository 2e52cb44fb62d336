------------------------- MODULE RateLimiterProofs -------------------------
(***************************************************************************)
(* The bound of the sliding window and the truth of what clients are told  *)
(* of it, for any number of clients, any limits and any window.            *)
(***************************************************************************)
EXTENDS RateLimiter, FiniteSetTheorems, TLAPS

\* What one bucket b remembers of the admissions log of its slot at time t: the newest
\* ones, in order; what it has forgotten has left the window.
SlotInv(b, log, t, limit) ==
    /\ Len(b) <= Len(log) /\ Len(b) <= limit
    /\ \A j \in 1 .. Len(b) : b[j] = log[Len(log) - Len(b) + j]
    /\ \A i \in 1 .. Len(log) - Len(b) : log[i] < t - Window
    /\ \A i, j \in 1 .. Len(log) : i <= j => log[i] <= log[j]
    /\ \A i \in 1 .. Len(log) : log[i] <= t
    /\ \A i \in 1 .. Len(log) : i + limit <= Len(log) => log[i + limit] > log[i] + Window

LimiterInv ==
    /\ TypeOK
    /\ \A s \in Slots : SlotInv(bucket[s], admitted[s], now, Limit(s))

\* What the assumption says of the window and of the limits.
LEMMA LimitTypes ==
    Window \in Nat /\ \A s \in Slots : Limit(s) \in Nat \ {0}
BY LimiterAssumption DEF Slots, Limit

\* Popping expired entries.
LEMMA PopKeeps ==
    ASSUME NEW b \in Seq(Nat), NEW log \in Seq(Nat), NEW t \in Nat, NEW limit \in Nat,
           SlotInv(b, log, t, limit), NEW k \in 0 .. Len(b),
           \A j \in 1 .. k : b[j] < t - Window
    PROVE  /\ SubSeq(b, k + 1, Len(b)) \in Seq(Nat)
           /\ SlotInv(SubSeq(b, k + 1, Len(b)), log, t, limit)
<1> DEFINE c == SubSeq(b, k + 1, Len(b))
<1>1. /\ c \in Seq(Nat) /\ Len(c) = Len(b) - k
      /\ \A j \in 1 .. Len(c) : c[j] = b[j + k]
  OBVIOUS
<1> HIDE DEF c
<1>2. Len(b) \in Nat /\ Len(log) \in Nat /\ Len(c) \in Nat
  BY <1>1
<1>3. ASSUME NEW j \in 1 .. Len(c) PROVE c[j] = log[Len(log) - Len(c) + j]
  <2>1. j + k \in 1 .. Len(b) /\ Len(log) - Len(b) + (j + k) = Len(log) - Len(c) + j
    BY <1>1, <1>2
  <2>2. b[j + k] = log[Len(log) - Len(b) + (j + k)]
    BY <2>1 DEF SlotInv
  <2> QED  BY <1>1, <2>1, <2>2
<1>4. ASSUME NEW i \in 1 .. Len(log) - Len(c) PROVE log[i] < t - Window
  <2>1. CASE i <= Len(log) - Len(b)
    BY <2>1, <1>2 DEF SlotInv
  <2>2. CASE i > Len(log) - Len(b)
    <3>1. i - (Len(log) - Len(b)) \in 1 .. k
      BY <1>1, <1>2, <2>2
    <3>2. b[i - (Len(log) - Len(b))] = log[i]
      BY <1>2, <3>1 DEF SlotInv
    <3> QED  BY <3>1, <3>2
  <2> QED  BY <1>2, <2>1, <2>2
<1>5. Len(c) <= Len(log) /\ Len(c) <= limit
  BY <1>1, <1>2 DEF SlotInv
<1>6. SlotInv(c, log, t, limit)
  BY <1>3, <1>4, <1>5 DEF SlotInv
<1> QED  BY <1>1, <1>6 DEF c

\* Appending an admission when there is room: the admission `limit` places earlier has
\* been popped, so it has left the window.
LEMMA AppendKeeps ==
    ASSUME NEW b \in Seq(Nat), NEW log \in Seq(Nat), NEW t \in Nat,
           NEW limit \in Nat \ {0}, SlotInv(b, log, t, limit), Len(b) < limit
    PROVE  SlotInv(Append(b, t), Append(log, t), t, limit)
<1> DEFINE b2 == Append(b, t)
           log2 == Append(log, t)
<1>1. /\ Len(b2) = Len(b) + 1 /\ Len(log2) = Len(log) + 1
      /\ Len(b) \in Nat /\ Len(log) \in Nat
      /\ \A j \in 1 .. Len(b) : b2[j] = b[j]
      /\ \A j \in 1 .. Len(log) : log2[j] = log[j] /\ log[j] \in Nat
      /\ b2[Len(b) + 1] = t /\ log2[Len(log) + 1] = t
  OBVIOUS
<1> HIDE DEF b2, log2
<1>2. Len(b2) <= Len(log2) /\ Len(b2) <= limit
  BY <1>1 DEF SlotInv
<1> DEFINE m == Len(b)
           n == Len(log)
<1>3. /\ m \in Nat /\ n \in Nat /\ m <= n
      /\ \A j \in 1 .. m : b2[j] = log2[n - m + j]
      /\ \A i \in 1 .. n - m : log2[i] < t - Window
      /\ \A i, j \in 1 .. n : i <= j => log2[i] <= log2[j]
      /\ \A i \in 1 .. n : log2[i] \in Nat /\ log2[i] <= t
      /\ \A i \in 1 .. n : i + limit <= n => log2[i + limit] > log2[i] + Window
      /\ Len(b2) = m + 1 /\ Len(log2) = n + 1 /\ b2[m + 1] = t /\ log2[n + 1] = t
      /\ m < limit
  <2>1. \A j \in 1 .. m : n - m + j \in 1 .. n
    BY <1>1 DEF SlotInv
  <2>2. \A j \in 1 .. m : b2[j] = log2[n - m + j]
    BY <1>1, <2>1 DEF SlotInv
  <2>3. \A i \in 1 .. n - m : i \in 1 .. n
    BY <1>1
  <2>4. \A i \in 1 .. n - m : log2[i] < t - Window
    BY <1>1, <2>3 DEF SlotInv
  <2>5. \A i \in 1 .. n : i + limit <= n => i + limit \in 1 .. n
    BY <1>1
  <2>6. \A i \in 1 .. n : i + limit <= n => log2[i + limit] > log2[i] + Window
    BY <1>1, <2>5 DEF SlotInv
  <2> QED  BY <1>1, <2>2, <2>4, <2>6 DEF SlotInv
<1> HIDE DEF m, n
<1>4. ASSUME NEW j \in 1 .. m + 1 PROVE b2[j] = log2[n - m + j]
  <2>1. CASE j = m + 1
    BY <1>3, <2>1
  <2>2. CASE j \in 1 .. m
    BY <1>3, <2>2
  <2> QED  BY <1>3, <2>1, <2>2
<1>5. ASSUME NEW i \in 1 .. n + 1 PROVE log2[i] \in Nat /\ log2[i] <= t
  <2>1. CASE i = n + 1
    BY <1>3, <2>1
  <2>2. CASE i \in 1 .. n
    BY <1>3, <2>2
  <2> QED  BY <1>3, <2>1, <2>2
<1>6. ASSUME NEW i \in 1 .. n + 1, NEW j \in 1 .. n + 1, i <= j
      PROVE  log2[i] <= log2[j]
  <2>1. CASE j = n + 1
    BY <1>3, <1>5, <2>1
  <2>2. CASE j \in 1 .. n
    <3>1. i \in 1 .. n
      BY <1>3, <1>6, <2>2
    <3> QED  BY <1>3, <1>6, <2>2, <3>1
  <2> QED  BY <1>3, <2>1, <2>2
<1>7. ASSUME NEW i \in 1 .. n + 1, i + limit <= n + 1
      PROVE  log2[i + limit] > log2[i] + Window
  <2>1. CASE i + limit <= n
    <3>1. i \in 1 .. n
      BY <1>3, <2>1
    <3> QED  BY <1>3, <2>1, <3>1
  <2>2. CASE i + limit = n + 1
    <3>1. i \in 1 .. n - m
      BY <1>3, <2>2
    <3>2. log2[i] < t - Window /\ log2[i + limit] = t /\ log2[i] \in Nat
      BY <1>3, <1>5, <2>2, <3>1
    <3> QED  BY <3>2, LimitTypes
  <2> QED  BY <1>3, <1>7, <2>1, <2>2
<1>8. n + 1 - (m + 1) = n - m
  BY <1>3
<1>9. /\ 1 .. Len(b2) = 1 .. m + 1 /\ 1 .. Len(log2) = 1 .. n + 1
      /\ Len(log2) - Len(b2) = n - m /\ Len(log2) = n + 1
  BY <1>3, <1>8
<1>10. SlotInv(b2, log2, t, limit)
  BY <1>2, <1>3, <1>4, <1>5, <1>6, <1>7, <1>9 DEF SlotInv
<1> QED  BY <1>10 DEF b2, log2

\* Deleting a bucket whose newest entry has expired.
LEMMA ForgetKeeps ==
    ASSUME NEW b \in Seq(Nat), NEW log \in Seq(Nat), NEW t \in Nat, NEW limit \in Nat,
           SlotInv(b, log, t, limit), b = <<>> \/ b[Len(b)] < t - Window
    PROVE  SlotInv(<<>>, log, t, limit)
<1>1. CASE b = <<>>
  BY <1>1
<1>2. CASE b # <<>>
  <2>1. Len(b) \in Nat \ {0} /\ Len(log) \in Nat /\ \A i \in 1 .. Len(log) : log[i] \in Nat
    BY <1>2
  <2>2. Len(log) \in 1 .. Len(log) /\ log[Len(log)] = b[Len(b)]
    BY <2>1 DEF SlotInv
  <2>3. \A i \in 1 .. Len(log) : log[i] <= log[Len(log)]
    <3>1. \A i, j \in 1 .. Len(log) : i <= j => log[i] <= log[j]
      BY DEF SlotInv
    <3>2. \A i \in 1 .. Len(log) : i <= Len(log)
      BY <2>1
    <3> QED  BY <2>2, <3>1, <3>2
  <2>4. b[Len(b)] < t - Window
    BY <1>2
  <2>5. \A i \in 1 .. Len(log) : log[i] < t - Window
    <3> SUFFICES ASSUME NEW i \in 1 .. Len(log) PROVE log[i] < t - Window
      OBVIOUS
    <3>1. log[i] \in Nat /\ log[Len(log)] \in Nat
      BY <2>1, <2>2
    <3>2. log[i] <= log[Len(log)] /\ log[Len(log)] < t - Window
      BY <2>2, <2>3, <2>4
    <3> QED  BY <3>1, <3>2, LimitTypes
  <2> QED  BY <2>1, <2>5 DEF SlotInv
<1> QED  BY <1>1, <1>2

\* Time passes.
LEMMA TickKeeps ==
    ASSUME NEW b \in Seq(Nat), NEW log \in Seq(Nat), NEW t \in Nat, NEW limit \in Nat,
           SlotInv(b, log, t, limit)
    PROVE  SlotInv(b, log, t + 1, limit)
<1>1. \A i \in 1 .. Len(log) : log[i] \in Nat /\ Len(log) \in Nat /\ Len(b) \in Nat
  OBVIOUS
<1>2. ASSUME NEW i \in 1 .. Len(log) - Len(b) PROVE log[i] < (t + 1) - Window
  <2>1. log[i] < t - Window /\ i \in 1 .. Len(log)
    BY <1>2 DEF SlotInv
  <2> QED  BY <1>1, <2>1, LimitTypes
<1>3. \A i \in 1 .. Len(log) : log[i] <= t + 1
  BY <1>1 DEF SlotInv
<1> QED  BY <1>2, <1>3 DEF SlotInv

\* Requests, cleanups and ticks keep what the limiter remembers in step with its log.
LEMMA LimiterStep == LimiterInv /\ [Next]_vars => LimiterInv'
<1> SUFFICES ASSUME LimiterInv, [Next]_vars PROVE LimiterInv'
  OBVIOUS
<1>1. /\ now \in Nat /\ bucket \in [Slots -> Seq(Nat)] /\ admitted \in [Slots -> Seq(Nat)]
      /\ DOMAIN answer = Slots
      /\ \A s \in Slots : SlotInv(bucket[s], admitted[s], now, Limit(s))
  BY DEF LimiterInv, TypeOK
<1>2. ASSUME now' \in Nat, bucket' \in [Slots -> Seq(Nat)],
             admitted' \in [Slots -> Seq(Nat)], DOMAIN answer' = Slots,
             \A s \in Slots : SlotInv(bucket'[s], admitted'[s], now', Limit(s))
      PROVE  LimiterInv'
  BY <1>2 DEF LimiterInv, TypeOK, SlotInv, Limit
<1>3. ASSUME NEW s \in Slots, Request(s) PROVE LimiterInv'
  <2>1. PICK k \in 0 .. Len(bucket[s]) :
          /\ Expires(bucket[s], k)
          /\ LET b == SubSeq(bucket[s], k + 1, Len(bucket[s])) IN
             /\ now' = now /\ DOMAIN answer' = Slots
             /\ \/ /\ bucket' = [bucket EXCEPT ![s] = b] /\ UNCHANGED admitted
                \/ /\ Room(s, b) /\ bucket' = [bucket EXCEPT ![s] = Append(b, now)]
                   /\ admitted' = [admitted EXCEPT ![s] = Append(@, now)]
    BY <1>1, <1>3 DEF Request
  <2> DEFINE b == SubSeq(bucket[s], k + 1, Len(bucket[s]))
  <2>2. /\ bucket[s] \in Seq(Nat) /\ admitted[s] \in Seq(Nat) /\ Limit(s) \in Nat \ {0}
        /\ SlotInv(bucket[s], admitted[s], now, Limit(s))
    BY <1>1, LimitTypes
  <2>3. \A j \in 1 .. k : bucket[s][j] < now - Window
    BY <2>1 DEF Expires, cutoff
  <2>4. b \in Seq(Nat) /\ SlotInv(b, admitted[s], now, Limit(s))
    BY <1>1, <2>2, <2>3, PopKeeps
  <2> HIDE DEF b
  <2>5. CASE bucket' = [bucket EXCEPT ![s] = b] /\ UNCHANGED admitted
    BY <1>1, <1>2, <2>1, <2>4, <2>5
  <2>6. CASE /\ Len(b) < Limit(s) /\ bucket' = [bucket EXCEPT ![s] = Append(b, now)]
             /\ admitted' = [admitted EXCEPT ![s] = Append(@, now)]
    <3>1. SlotInv(Append(b, now), Append(admitted[s], now), now, Limit(s))
      BY <1>1, <2>2, <2>4, <2>6, AppendKeeps
    <3>2. Append(b, now) \in Seq(Nat) /\ Append(admitted[s], now) \in Seq(Nat)
      BY <1>1, <2>2, <2>4
    <3> QED  BY <1>1, <1>2, <2>1, <2>6, <3>1, <3>2
  <2> QED  BY <2>1, <2>5, <2>6 DEF Room, b
<1>4. ASSUME NEW l \in Limiters, Cleanup(l) PROVE LimiterInv'
  <2>1. UNCHANGED <<now, admitted, answer>>
    BY <1>4 DEF Cleanup
  <2>2. ASSUME NEW s \in Slots
        PROVE  bucket'[s] \in Seq(Nat) /\ SlotInv(bucket'[s], admitted[s], now, Limit(s))
    <3>1. SlotInv(bucket[s], admitted[s], now, Limit(s)) /\ bucket[s] \in Seq(Nat)
          /\ admitted[s] \in Seq(Nat)
      BY <1>1
    <3>2. CASE bucket'[s] = bucket[s]
      BY <3>1, <3>2
    <3>3. CASE Idle(bucket[s]) /\ bucket'[s] = <<>>
      BY <1>1, <3>1, <3>3, ForgetKeeps, LimitTypes DEF Idle, cutoff
    <3> QED  BY <1>4, <3>2, <3>3 DEF Cleanup
  <2>3. bucket' \in [Slots -> Seq(Nat)]
    BY <1>4, <2>2 DEF Cleanup
  <2> QED  BY <1>1, <1>2, <2>1, <2>2, <2>3
<1>5. CASE Tick
  <2>1. UNCHANGED <<bucket, admitted, answer>> /\ now' = now + 1
    BY <1>5 DEF Tick
  <2>2. \A s \in Slots : SlotInv(bucket[s], admitted[s], now + 1, Limit(s))
    BY <1>1, TickKeeps, LimitTypes
  <2> QED  BY <1>1, <1>2, <2>1, <2>2
<1>6. CASE UNCHANGED vars
  BY <1>1, <1>2, <1>6 DEF vars
<1> QED  BY <1>3, <1>4, <1>5, <1>6 DEF Next

\* No client gets more than max_requests requests through any window, whatever limits,
\* window and number of clients, and whenever cleanup runs.
THEOREM WindowBoundHolds == Spec => [](TypeOK /\ WindowBound)
<1>1. Init => LimiterInv
  BY LimitTypes DEF Init, LimiterInv, TypeOK, SlotInv
<1>2. LimiterInv => TypeOK /\ WindowBound
  <2> SUFFICES ASSUME LimiterInv PROVE WindowBound
    BY DEF LimiterInv
  <2>1. \A s \in Slots : DOMAIN admitted[s] = 1 .. Len(admitted[s])
    BY DEF LimiterInv, TypeOK
  <2> QED  BY <2>1 DEF LimiterInv, SlotInv, WindowBound
<1> QED  BY <1>1, <1>2, LimiterStep, PTL DEF Spec

-----------------------------------------------------------------------------
(* X-RateLimit-Remaining.                                                  *)

\* The admissions of a log that are inside the window at time t.
InWindow(log, t) == {i \in DOMAIN log : log[i] >= t - Window}

\* A bucket from which everything expired has been popped holds just those.
LEMMA WindowCount ==
    ASSUME NEW b \in Seq(Nat), NEW log \in Seq(Nat), NEW t \in Nat, NEW limit \in Nat,
           SlotInv(b, log, t, limit), \A j \in 1 .. Len(b) : b[j] >= t - Window
    PROVE  Cardinality(InWindow(log, t)) = Len(b)
<1> DEFINE m == Len(b)
           n == Len(log)
<1>1. /\ m \in Nat /\ n \in Nat /\ m <= n /\ DOMAIN log = 1 .. n
      /\ \A i \in 1 .. n : log[i] \in Nat
  BY DEF SlotInv
<1>2. \A i \in 1 .. n - m : log[i] < t - Window
  BY DEF SlotInv
<1>3. ASSUME NEW i \in (n - m) + 1 .. n PROVE log[i] >= t - Window
  <2>1. i - (n - m) \in 1 .. m /\ n - m + (i - (n - m)) = i
    BY <1>1
  <2>2. b[i - (n - m)] = log[i]
    BY <2>1 DEF SlotInv
  <2> QED  BY <2>1, <2>2
<1> HIDE DEF m, n
<1>4. InWindow(log, t) = (n - m) + 1 .. n
  <2>1. ASSUME NEW i \in InWindow(log, t) PROVE i \in (n - m) + 1 .. n
    <3>1. i \in 1 .. n /\ log[i] >= t - Window /\ log[i] \in Nat
      BY <1>1, <2>1 DEF InWindow
    <3>2. i \notin 1 .. n - m
      BY <1>2, <3>1, LimitTypes
    <3> QED  BY <1>1, <3>1, <3>2
  <2>2. ASSUME NEW i \in (n - m) + 1 .. n PROVE i \in InWindow(log, t)
    BY <1>1, <1>3, <2>2 DEF InWindow
  <2> QED  BY <2>1, <2>2
<1>5. /\ (n - m) + 1 \in Int /\ n \in Int
      /\ (IF (n - m) + 1 > n THEN 0 ELSE n - ((n - m) + 1) + 1) = m
  BY <1>1
<1>6. Cardinality((n - m) + 1 .. n) = m
  BY <1>5, FS_Interval
<1> QED  BY <1>4, <1>6 DEF m

\* An answer given at this instant says what the window has room for.
AnswerInv ==
    \A s \in Slots :
        /\ answer[s].at \in Int /\ answer[s].at <= now
        /\ answer[s].at = now =>
            answer[s].remaining = Limit(s) - Cardinality(InWindow(admitted[s], now))

\* A request that is answered with bucket b and log: what remains of its limit.
LEMMA AnswerStep ==
    ASSUME LimiterInv, NEW s \in Slots, Request(s)
    PROVE  /\ UNCHANGED now /\ \E a : answer' = [answer EXCEPT ![s] = a]
           /\ \A o \in Slots : o # s => admitted'[o] = admitted[o]
           /\ answer'[s].at = now
           /\ answer'[s].remaining = Limit(s) - Cardinality(InWindow(admitted'[s], now))
<1>1. /\ now \in Nat /\ bucket \in [Slots -> Seq(Nat)] /\ admitted \in [Slots -> Seq(Nat)]
      /\ DOMAIN answer = Slots /\ SlotInv(bucket[s], admitted[s], now, Limit(s))
      /\ bucket[s] \in Seq(Nat) /\ admitted[s] \in Seq(Nat) /\ Limit(s) \in Nat \ {0}
  BY LimitTypes DEF LimiterInv, TypeOK
<1>2. PICK k \in 0 .. Len(bucket[s]) :
        /\ Expires(bucket[s], k)
        /\ LET b == SubSeq(bucket[s], k + 1, Len(bucket[s])) IN
           \/ /\ ~Room(s, b)
              /\ answer' = [answer EXCEPT ![s] = [allowed |-> FALSE, remaining |-> 0, at |-> now]]
              /\ UNCHANGED <<now, admitted>>
           \/ /\ Room(s, b)
              /\ admitted' = [admitted EXCEPT ![s] = Append(admitted[s], now)]
              /\ answer' = [answer EXCEPT ![s] =
                    [allowed |-> TRUE, remaining |-> Remaining(s, b), at |-> now]]
              /\ UNCHANGED now
  BY DEF Request
<1> DEFINE b == SubSeq(bucket[s], k + 1, Len(bucket[s]))
<1>3. \A j \in 1 .. k : bucket[s][j] < now - Window
  BY <1>2 DEF Expires, cutoff
<1>4. b \in Seq(Nat) /\ SlotInv(b, admitted[s], now, Limit(s))
  BY <1>1, <1>3, PopKeeps
<1>5. ASSUME NEW j \in 1 .. Len(b) PROVE b[j] >= now - Window
  <2> DEFINE q == bucket[s]
             log == admitted[s]
             n == Len(log)
             m == Len(q)
  <2>1. q \in Seq(Nat) /\ m \in Nat /\ n \in Nat
    BY <1>1
  <2>2. Len(b) = m - k /\ b[j] = q[j + k] /\ k \in 0 .. m
    <3>1. b = SubSeq(q, k + 1, m) /\ k \in 0 .. m
      OBVIOUS
    <3> HIDE DEF q, m
    <3>2. \A i \in 1 .. m - k : SubSeq(q, k + 1, m)[i] = q[i + k]
      BY <2>1, <3>1
    <3>3. Len(SubSeq(q, k + 1, m)) = m - k
      BY <2>1, <3>1
    <3> QED  BY <3>1, <3>2, <3>3
  <2>3. m <= n /\ (k < m => q[k + 1] >= now - Window)
    <3>1. SlotInv(q, log, now, Limit(s)) /\ Expires(q, k)
      BY <1>1, <1>2
    <3> QED  BY <3>1 DEF SlotInv, Expires, cutoff
  <2>4. \A i \in 1 .. m : q[i] = log[n - m + i] /\ q[i] \in Nat
    <3>1. SlotInv(q, log, now, Limit(s))
      BY <1>1
    <3>2. \A i \in 1 .. m : q[i] \in Nat
      BY <1>1
    <3> QED  BY <3>1, <3>2 DEF SlotInv
  <2>5. \A i, h \in 1 .. n : i <= h => log[i] <= log[h]
    BY <1>1 DEF SlotInv
  <2> HIDE DEF q, log, n, m
  <2>6. j \in 1 .. m - k
    BY <2>2
  <2> HIDE DEF b
  <2>7. k + 1 \in 1 .. m /\ j + k \in 1 .. m /\ k < m /\ k + 1 <= j + k
    BY <2>1, <2>2, <2>6
  <2>8. /\ n - m + (k + 1) \in 1 .. n /\ n - m + (j + k) \in 1 .. n
        /\ n - m + (k + 1) <= n - m + (j + k)
    BY <2>1, <2>3, <2>7
  <2>9. q[k + 1] <= q[j + k]
    BY <2>4, <2>5, <2>7, <2>8
  <2>10. q[k + 1] \in Nat /\ q[j + k] \in Nat /\ q[k + 1] >= now - Window
    BY <2>3, <2>4, <2>7
  <2> QED  BY <1>1, <2>2, <2>9, <2>10, LimitTypes
<1> HIDE DEF b
<1>6. CASE /\ ~Room(s, b) /\ UNCHANGED <<now, admitted>>
           /\ answer' = [answer EXCEPT ![s] = [allowed |-> FALSE, remaining |-> 0, at |-> now]]
  <2>1. Cardinality(InWindow(admitted[s], now)) = Len(b)
    BY <1>1, <1>4, <1>5, WindowCount
  <2>2. Len(b) = Limit(s)
    BY <1>1, <1>4, <1>6 DEF Room, SlotInv
  <2>3. /\ \E a : answer' = [answer EXCEPT ![s] = a]
        /\ answer'[s].at = now /\ answer'[s].remaining = 0
    BY <1>1, <1>6
  <2>4. Limit(s) - Cardinality(InWindow(admitted[s], now)) = 0
    BY <1>1, <2>1, <2>2
  <2> QED  BY <1>6, <2>3, <2>4
<1>7. CASE /\ Room(s, b) /\ UNCHANGED now
           /\ admitted' = [admitted EXCEPT ![s] = Append(admitted[s], now)]
           /\ answer' = [answer EXCEPT ![s] =
                    [allowed |-> TRUE, remaining |-> Remaining(s, b), at |-> now]]
  <2> DEFINE c == Append(b, now)
             log == Append(admitted[s], now)
  <2>1. c \in Seq(Nat) /\ log \in Seq(Nat) /\ Len(c) = Len(b) + 1 /\ Len(b) \in Nat
    BY <1>1, <1>4
  <2>2. SlotInv(c, log, now, Limit(s))
    BY <1>1, <1>4, <1>7, AppendKeeps DEF Room
  <2>3. \A j \in 1 .. Len(c) : c[j] >= now - Window
    <3> SUFFICES ASSUME NEW j \in 1 .. Len(c) PROVE c[j] >= now - Window
      OBVIOUS
    <3>1. CASE j \in 1 .. Len(b)
      BY <1>4, <1>5, <3>1
    <3>2. CASE j = Len(b) + 1
      <4>1. c[j] = now
        BY <1>4, <3>2
      <4> QED  BY <1>1, <4>1, LimitTypes
    <3> QED  BY <2>1, <3>1, <3>2
  <2> HIDE DEF c, log
  <2>4. Cardinality(InWindow(log, now)) = Len(b) + 1
    BY <1>1, <2>1, <2>2, <2>3, WindowCount
  <2>5. admitted'[s] = log /\ \A o \in Slots : o # s => admitted'[o] = admitted[o]
    BY <1>1, <1>7 DEF log
  <2>6. /\ \E a : answer' = [answer EXCEPT ![s] = a]
        /\ answer'[s].at = now /\ answer'[s].remaining = Limit(s) - Len(b) - 1
    BY <1>1, <1>7 DEF Remaining
  <2>7. Limit(s) - Cardinality(InWindow(log, now)) = Limit(s) - Len(b) - 1
    BY <1>1, <2>1, <2>4
  <2> QED  BY <1>7, <2>5, <2>6, <2>7
<1> QED  BY <1>2, <1>6, <1>7 DEF b

\* A client is told what its window still has room for, and is refused only when that
\* is nothing.
THEOREM RemainingIsRoomHolds == Spec => []RemainingIsRoom
<1>1. Init => LimiterInv /\ AnswerInv
  BY LimitTypes DEF Init, LimiterInv, TypeOK, SlotInv, AnswerInv, Silence
<1>2. ASSUME LimiterInv, AnswerInv, [Next]_vars PROVE AnswerInv'
  <2>1. now \in Nat /\ DOMAIN answer = Slots
    BY <1>2 DEF LimiterInv, TypeOK
  <2>2. ASSUME NEW s \in Slots, Request(s) PROVE AnswerInv'
    <3>1. PICK a : answer' = [answer EXCEPT ![s] = a]
      BY <1>2, <2>2, AnswerStep
    <3>2. ASSUME NEW o \in Slots, o # s
          PROVE  /\ answer'[o] = answer[o] /\ admitted'[o] = admitted[o] /\ now' = now
      BY <1>2, <2>2, <3>1, <3>2, AnswerStep
    <3>3. /\ now' = now /\ answer'[s].at = now
          /\ answer'[s].remaining = Limit(s) - Cardinality(InWindow(admitted'[s], now))
      BY <1>2, <2>2, AnswerStep
    <3>4. ASSUME NEW o \in Slots
          PROVE  /\ answer'[o].at \in Int /\ answer'[o].at <= now'
                 /\ answer'[o].at = now' =>
                        answer'[o].remaining = Limit(o) - Cardinality(InWindow(admitted'[o], now'))
      <4>1. CASE o = s
        BY <2>1, <3>3, <4>1
      <4>2. CASE o # s
        BY <1>2, <3>2, <4>2 DEF AnswerInv
      <4> QED  BY <4>1, <4>2
    <3> QED  BY <3>4 DEF AnswerInv, Limit, InWindow
  <2>3. ASSUME NEW l \in Limiters, Cleanup(l) PROVE AnswerInv'
    BY <1>2, <2>3 DEF Cleanup, AnswerInv, InWindow, Limit
  <2>4. CASE Tick
    <3>1. UNCHANGED <<admitted, answer>> /\ now' = now + 1
      BY <2>4 DEF Tick
    <3>2. ASSUME NEW s \in Slots
          PROVE  answer'[s].at \in Int /\ answer'[s].at <= now' /\ answer'[s].at # now'
      BY <1>2, <2>1, <3>1 DEF AnswerInv
    <3> QED  BY <3>2 DEF AnswerInv
  <2>5. CASE UNCHANGED vars
    BY <1>2, <2>5 DEF vars, AnswerInv, InWindow, Limit
  <2> QED  BY <1>2, <2>2, <2>3, <2>4, <2>5 DEF Next
<1>3. AnswerInv => RemainingIsRoom
  BY DEF AnswerInv, RemainingIsRoom, InWindow, cutoff
<1> QED  BY <1>1, <1>2, <1>3, LimiterStep, PTL DEF Spec
=============================================================================
