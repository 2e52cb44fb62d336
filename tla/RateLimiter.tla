---------------------------- MODULE RateLimiter ----------------------------
(***************************************************************************)
(* The sliding-window limiters in front of the API.                        *)
(*                                                                         *)
(* is_allowed never suspends between its lock and its release, so that one *)
(* call is one action.  time.monotonic() advances in ticks; the window is  *)
(* the closed interval of Window ticks that ends now.                      *)
(***************************************************************************)
EXTENDS Integers, Sequences, FiniteSets

CONSTANTS
    Clients,      \* the keys: client addresses
    Limiters,     \* vote_limiter and general_limiter
    MaxRequests,  \* max_requests of each limiter
    Window,       \* window_seconds
    MaxTime       \* bound on the clock

ASSUME LimiterAssumption ==
    /\ MaxRequests \in [Limiters -> Nat \ {0}]
    /\ Window \in Nat /\ MaxTime \in Nat

VARIABLES
    now,          \* time.monotonic()
    bucket,       \* _buckets of each limiter: the admissions it remembers per client
    admitted,     \* every admission there has been, per limiter and client
    answer        \* the last answer: allowed, X-RateLimit-Remaining, and when

vars == <<now, bucket, admitted, answer>>

Slots == Limiters \X Clients

Limit(s) == MaxRequests[s[1]]

cutoff == now - Window

\* No answer yet.
Silence == [allowed |-> TRUE, remaining |-> 0, at |-> -1]

\* Faulty variant: entries are dropped one tick too early.
ExpiresEarly(b, k) ==
    /\ \A j \in 1 .. k : b[j] <= cutoff
    /\ k < Len(b) => b[k + 1] > cutoff

\* The loop `while bucket and bucket[0] < cutoff` pops the first k entries.
Expires(b, k) ==
    /\ \A j \in 1 .. k : b[j] < cutoff
    /\ k < Len(b) => b[k + 1] >= cutoff

\* Fewer than max_requests entries remain.
Room(s, b) == Len(b) < Limit(s)

\* Faulty variant: the count is taken after the append.
CountedTwice(s, b) == Limit(s) - Len(b) - 2

\* X-RateLimit-Remaining of an admitted request.
Remaining(s, b) == Limit(s) - Len(b) - 1

\* is_allowed.
Request(s) ==
    \E k \in 0 .. Len(bucket[s]) :
        /\ Expires(bucket[s], k)
        /\ LET b == SubSeq(bucket[s], k + 1, Len(bucket[s])) IN
           \/ /\ ~Room(s, b)
              /\ bucket' = [bucket EXCEPT ![s] = b]
              /\ answer' = [answer EXCEPT ![s] =
                    [allowed |-> FALSE, remaining |-> 0, at |-> now]]
              /\ UNCHANGED <<now, admitted>>
           \/ /\ Room(s, b)
              /\ bucket' = [bucket EXCEPT ![s] = Append(b, now)]
              /\ admitted' = [admitted EXCEPT ![s] = Append(@, now)]
              /\ answer' = [answer EXCEPT ![s] =
                    [allowed |-> TRUE, remaining |-> Remaining(s, b), at |-> now]]
              /\ UNCHANGED now

\* Faulty variant: the oldest entry decides.
OldestExpired(b) == b = <<>> \/ b[1] < cutoff

\* The newest entry of a bucket decides whether cleanup deletes it.
Idle(b) == b = <<>> \/ b[Len(b)] < cutoff

\* cleanup of one limiter; a deleted key reads as an empty bucket.
Cleanup(l) ==
    /\ bucket' = [s \in Slots |->
                    IF s[1] = l /\ Idle(bucket[s]) THEN <<>> ELSE bucket[s]]
    /\ UNCHANGED <<now, admitted, answer>>

Tick ==
    /\ now < MaxTime
    /\ now' = now + 1
    /\ UNCHANGED <<bucket, admitted, answer>>

Init ==
    /\ now = 0
    /\ bucket = [s \in Slots |-> <<>>]
    /\ admitted = [s \in Slots |-> <<>>]
    /\ answer = [s \in Slots |-> Silence]

\* RateLimitMiddleware picks the limiter by method and path, then asks it.
Next ==
    \/ \E s \in Slots : Request(s)
    \/ \E l \in Limiters : Cleanup(l)
    \/ Tick

Spec == Init /\ [][Next]_vars

-----------------------------------------------------------------------------
(* Properties.                                                             *)

\* Types; a bucket never outgrows its limit.
TypeOK ==
    /\ now \in Nat
    /\ bucket \in [Slots -> Seq(Nat)] /\ admitted \in [Slots -> Seq(Nat)]
    /\ \A s \in Slots : Len(bucket[s]) <= Limit(s)
    /\ DOMAIN answer = Slots

\* Whatever is forgotten when, no client gets more than max_requests admissions into
\* any closed window: max_requests admissions apart are more than a window apart.
WindowBound ==
    \A s \in Slots : \A i \in DOMAIN admitted[s] :
        i + Limit(s) <= Len(admitted[s]) =>
            admitted[s][i + Limit(s)] > admitted[s][i] + Window

\* A client is told the truth: X-RateLimit-Remaining is what the window still has room
\* for at that instant, and a refusal means that it has none.
RemainingIsRoom ==
    \A s \in Slots : answer[s].at = now =>
        answer[s].remaining =
            Limit(s) - Cardinality({i \in DOMAIN admitted[s] : admitted[s][i] >= cutoff})

=============================================================================
