---------------------------- MODULE WebhookProofs ----------------------------
(***************************************************************************)
(* Theorems about the webhook dispatcher, for any events, endpoints and    *)
(* filters and any number of retries: a deactivated endpoint stays         *)
(* deactivated and the retries to it stop, the delivery log has neither    *)
(* gaps nor repeats and shows what reached an endpoint, and the failure    *)
(* counters stay below it.                                                 *)
(***************************************************************************)
EXTENDS Webhooks, FiniteSetTheorems, TLAPS

-----------------------------------------------------------------------------
(* The shape of the state: types, and what a task that serves an endpoint  *)
(* knows of it.                                                            *)

Labels == {"idle", "Scan", "Pick", "Load", "Post", "Flush", "Commit", "Sleep",
           "done", "dead"}

\* Endpoints never vanish from the table.
Known == active \cup retired

Arrivals == [event : Events, endpoint : Endpoints, attempt : 1 .. MaxRetries,
             active : BOOLEAN]

Types ==
    /\ TypeOK /\ IsFiniteSet(deliveries) /\ received \subseteq Arrivals
    /\ pc \in [Events -> Labels] /\ todo \in [Events -> SUBSET Endpoints]
    /\ current \in [Events -> Endpoints \cup {Nowhere}]
    /\ attempt \in [Events -> 0 .. MaxRetries] /\ loaded \in [Events -> Nat]
    /\ success \in [Events -> BOOLEAN] /\ faults \in Nat

\* The POST of the attempt is not in the log yet.
Trying(ev) == pc[ev] \in {"Load", "Post", "Flush", "Commit"}

Serving(ev) == Trying(ev) \/ pc[ev] = "Sleep"

TaskInv(ev) ==
    /\ todo[ev] \subseteq Known
    /\ Serving(ev) =>
            /\ current[ev] \in Known /\ current[ev] \notin todo[ev]
            /\ attempt[ev] \in 1 .. MaxRetries
    /\ pc[ev] = "Sleep" => attempt[ev] < MaxRetries

Shape == Types /\ DeactivationSticks /\ \A ev \in Events : TaskInv(ev)

-----------------------------------------------------------------------------
(* The delivery log.                                                       *)

\* The attempts in the log are 1 .. n, one record each, none successful but the last.
Reads(log, n) ==
    /\ \A d \in log : d.attempt \in 1 .. n /\ (d.success => d.attempt = n)
    /\ \A k \in 1 .. n : \E d \in log : d.attempt = k
    /\ \A c, d \in log : c.attempt = d.attempt => c = d

AllFailed(log) == \A d \in log : ~d.success

\* A task retries while every attempt has failed, and serves an endpoint once.
LogInv(ev, e) ==
    /\ \E n \in Nat : Reads(Attempts(ev, e), n)
    /\ Trying(ev) /\ current[ev] = e =>
            Reads(Attempts(ev, e), attempt[ev] - 1) /\ AllFailed(Attempts(ev, e))
    /\ pc[ev] = "Sleep" /\ current[ev] = e =>
            Reads(Attempts(ev, e), attempt[ev]) /\ AllFailed(Attempts(ev, e))
    /\ e \in todo[ev] \/ pc[ev] \in {"idle", "Scan"} => Attempts(ev, e) = {}

-----------------------------------------------------------------------------
(* What has reached an endpoint.                                           *)

Logged(a) == \E d \in Attempts(a.event, a.endpoint) : d.attempt = a.attempt

\* A POST that is not in the log is the one its task is about to write.
ReceivedInv ==
    \A a \in received :
        \/ Logged(a) \/ pc[a.event] = "dead"
        \/ /\ pc[a.event] \in {"Flush", "Commit"}
           /\ current[a.event] = a.endpoint /\ attempt[a.event] = a.attempt

\* A POST that arrived after the deactivation was under way then; its task does not
\* load that endpoint again.
LateInv ==
    /\ \A a \in received :
        ~a.active => /\ a.endpoint \in retired
                     /\ ~(pc[a.event] = "Post" /\ current[a.event] = a.endpoint)
    /\ RetriesStop

-----------------------------------------------------------------------------
(* The failure counters.                                                   *)

Failed(e) == {d \in deliveries : d.endpoint = e /\ ~d.success}

\* A stale counter was right when it was read.
CountInv ==
    /\ FailuresAreLogged
    /\ \A ev \in Events :
        pc[ev] \in {"Post", "Flush", "Commit"} =>
            loaded[ev] <= Cardinality(Failed(current[ev]))

WebhookInv ==
    /\ Shape /\ ReceivedInv /\ LateInv /\ CountInv
    /\ \A ev \in Events, e \in Endpoints : LogInv(ev, e)

-----------------------------------------------------------------------------
(* The shape is kept.                                                      *)

LEMMA ShapeInit == Init => Shape
<1> SUFFICES ASSUME Init PROVE Shape
  OBVIOUS
<1>1. MaxRetries \in Nat \ {0} /\ Registered \subseteq Endpoints
  BY WebhookAssumption
<1>2. IsFiniteSet(deliveries)
  BY FS_EmptySet DEF Init
<1>3. Types
  BY <1>1, <1>2 DEF Init, Types, TypeOK, Labels
<1>4. DeactivationSticks /\ \A ev \in Events : TaskInv(ev)
  BY DEF Init, DeactivationSticks, TaskInv, Serving, Trying
<1> QED  BY <1>3, <1>4 DEF Shape

LEMMA ShapeKept == Shape /\ [Next]_vars => Shape'
<1> SUFFICES ASSUME Shape, [Next]_vars PROVE Shape'
  OBVIOUS
<1> USE DEF Shape
<1>0. MaxRetries \in Nat \ {0}
  BY WebhookAssumption
<1>1. ASSUME NEW ev \in Events, Dispatch(ev) PROVE Shape'
  BY <1>1 DEF Dispatch, Goto, tables, task, Types, TypeOK, Labels, DeactivationSticks,
              TaskInv, Serving, Trying, Known
<1>2. ASSUME NEW ev \in Events, NEW e \in Endpoints, SendTest(ev, e) PROVE Shape'
  BY <1>2 DEF SendTest, Goto, tables, task, Types, TypeOK, Labels, DeactivationSticks,
              TaskInv, Serving, Trying, Known
<1>3. ASSUME NEW ev \in Events, Scan(ev) PROVE Shape'
  BY <1>3 DEF Scan, Goto, tables, Types, TypeOK, Labels, DeactivationSticks,
              TaskInv, Serving, Trying, Known
<1>4. ASSUME NEW ev \in Events, Pick(ev) PROVE Shape'
  BY <1>0, <1>4 DEF Pick, Goto, tables, Types, TypeOK, Labels, DeactivationSticks,
              TaskInv, Serving, Trying, Known
<1>5. ASSUME NEW ev \in Events, Load(ev) PROVE Shape'
  BY <1>5 DEF Load, Wanted, BreakRetries, Goto, tables, Types, TypeOK, Labels, DeactivationSticks,
              TaskInv, Serving, Trying, Known
<1>6. ASSUME NEW ev \in Events, Post(ev) PROVE Shape'
  <2>1. current[ev] \in Endpoints /\ attempt[ev] \in 1 .. MaxRetries
    BY <1>6 DEF Post, TaskInv, Serving, Trying, Known, Types, TypeOK
  <2>2. received' \subseteq Arrivals
    <3> DEFINE n == [event |-> ev, endpoint |-> current[ev], attempt |-> attempt[ev],
                     active |-> current[ev] \in active]
    <3>1. n \in Arrivals
      <4>1. (current[ev] \in active) \in BOOLEAN
        OBVIOUS
      <4> QED  BY <2>1, <4>1 DEF Arrivals
    <3>2. received' \subseteq received \cup {n}
      BY <1>6 DEF Post
    <3> HIDE DEF n
    <3> QED  BY <3>1, <3>2 DEF Types
  <2>3. success' \in [Events -> BOOLEAN] /\ pc' \in [Events -> Labels]
    BY <1>6 DEF Post, Goto, Types, Labels
  <2>4. Types'
    BY <1>6, <2>2, <2>3 DEF Post, tables, Types, TypeOK, Arrivals
  <2>5. ASSUME NEW o \in Events PROVE TaskInv(o)'
    <3>1. TaskInv(o)
      OBVIOUS
    <3> QED  BY <1>6, <3>1 DEF Post, Goto, tables, TaskInv, Serving, Trying, Known, Types
  <2> QED  BY <1>6, <2>4, <2>5 DEF Post, tables, DeactivationSticks
<1>7. ASSUME NEW ev \in Events, Flush(ev) PROVE Shape'
  BY <1>7 DEF Flush, Goto, tables, task, Types, TypeOK, Labels, DeactivationSticks,
              TaskInv, Serving, Trying, Known
<1>8. ASSUME NEW ev \in Events, Commit(ev) PROVE Shape'
  <2>1. current[ev] \in Endpoints /\ attempt[ev] \in 1 .. MaxRetries
    BY <1>8 DEF Commit, TaskInv, Serving, Trying, Known, Types, TypeOK
  <2> DEFINE d == [event |-> ev, endpoint |-> current[ev], attempt |-> attempt[ev],
                   success |-> success[ev]]
  <2>2. /\ deliveries' = deliveries \cup {d}
        /\ d \in [event : Events, endpoint : Endpoints, attempt : 1 .. MaxRetries,
                  success : BOOLEAN]
    BY <1>8, <2>1 DEF Commit, RecordOf, Types
  <2> HIDE DEF d
  <2>3. IsFiniteSet(deliveries')
    BY <2>2, FS_AddElement DEF Types
  <2>4. CountAfter(ev) \in Nat
    BY <2>1 DEF CountAfter, Types, TypeOK
  <2>5. failures' \in [Endpoints -> Nat]
    BY <1>8, <2>4 DEF Commit, Types, TypeOK
  <2>6. /\ loaded' \in [Events -> Nat] /\ success' \in [Events -> BOOLEAN]
        /\ pc' \in [Events -> Labels]
    BY <1>8 DEF Commit, Goto, Types, Labels
  <2>7. Types'
    BY <1>8, <2>2, <2>3, <2>5, <2>6 DEF Commit, ActiveAfter, Types, TypeOK, Arrivals
  <2>8. ASSUME NEW o \in Events PROVE TaskInv(o)'
    <3>1. TaskInv(o)
      OBVIOUS
    <3>2. CASE o = ev
      BY <1>8, <2>1, <3>1, <3>2, <1>0
      DEF Commit, Goto, ActiveAfter, RetryNeeded, TaskInv, Serving, Trying, Known, Types
    <3>3. CASE o # ev
      BY <1>8, <3>1, <3>3
      DEF Commit, Goto, ActiveAfter, TaskInv, Serving, Trying, Known, Types
    <3> QED  BY <3>2, <3>3
  <2> QED  BY <1>8, <2>7, <2>8 DEF Commit, ActiveAfter, DeactivationSticks
<1>9. ASSUME NEW ev \in Events, Wake(ev) PROVE Shape'
  BY <1>0, <1>9 DEF Wake, Goto, tables, task, Types, TypeOK, Labels, DeactivationSticks,
              TaskInv, Serving, Trying, Known
<1>10. ASSUME NEW ev \in Events, Die(ev) PROVE Shape'
  BY <1>0, <1>10 DEF Die, Goto, tables, task, Types, TypeOK, Labels, DeactivationSticks,
              TaskInv, Serving, Trying, Known
<1>11. ASSUME NEW e \in Endpoints, Register(e) PROVE Shape'
  BY <1>11 DEF Register, tables, task, Types, TypeOK, Labels, DeactivationSticks,
              TaskInv, Serving, Trying, Known
<1>12. ASSUME NEW e \in Endpoints, Deactivate(e) PROVE Shape'
  BY <1>12 DEF Deactivate, tables, task, Types, TypeOK, Labels, DeactivationSticks,
              TaskInv, Serving, Trying, Known
<1>13. CASE UNCHANGED vars
  BY <1>13 DEF vars, tables, task, Types, TypeOK, DeactivationSticks, TaskInv, Serving,
               Trying, Known
<1> QED
  BY <1>1, <1>2, <1>3, <1>4, <1>5, <1>6, <1>7, <1>8, <1>9, <1>10, <1>11, <1>12, <1>13
  DEF Next, Step

\* A deactivated endpoint does not come back.
THEOREM DeactivationSticksHolds == Spec => []DeactivationSticks
<1>1. Shape => DeactivationSticks
  BY DEF Shape
<1> QED  BY <1>1, ShapeInit, ShapeKept, PTL DEF Spec

\* The tables hold what their columns say.
THEOREM WebhookTypeCorrect == Spec => []TypeOK
<1>1. Shape => TypeOK
  BY DEF Shape, Types
<1> QED  BY <1>1, ShapeInit, ShapeKept, PTL DEF Spec

-----------------------------------------------------------------------------
(* What arrives is logged.                                                 *)

LEMMA ReceivedKept == Shape /\ ReceivedInv /\ [Next]_vars => ReceivedInv'
<1> SUFFICES ASSUME Shape, ReceivedInv, [Next]_vars, NEW a \in received'
             PROVE  \/ Logged(a)' \/ pc'[a.event] = "dead"
                    \/ /\ pc'[a.event] \in {"Flush", "Commit"}
                       /\ current'[a.event] = a.endpoint /\ attempt'[a.event] = a.attempt
  BY DEF ReceivedInv
<1> DEFINE Shown == \/ Logged(a)' \/ pc'[a.event] = "dead"
                    \/ /\ pc'[a.event] \in {"Flush", "Commit"}
                       /\ current'[a.event] = a.endpoint /\ attempt'[a.event] = a.attempt
<1>1. ASSUME deliveries \subseteq deliveries', Logged(a) PROVE Logged(a)'
  BY <1>1 DEF Logged, Attempts
<1>2. ASSUME NEW ev \in Events, Post(ev) PROVE Shown
  <2>1. CASE a \in received
    BY <1>1, <1>2, <2>1 DEF Post, Goto, tables, ReceivedInv, Shape, Types
  <2>2. CASE a \notin received
    <3>1. a.event = ev /\ a.endpoint = current[ev] /\ a.attempt = attempt[ev]
      BY <1>2, <2>2 DEF Post
    <3> QED  BY <1>2, <3>1 DEF Post, Goto, Shape, Types
  <2> QED  BY <2>1, <2>2
<1>3. ASSUME NEW ev \in Events, Commit(ev) PROVE Shown
  <2>1. a \in received /\ deliveries \subseteq deliveries'
    BY <1>3 DEF Commit
  <2>2. CASE Logged(a)
    BY <1>1, <2>1, <2>2
  <2>3. CASE ~Logged(a) /\ a.event = ev
    <3> DEFINE d == [event |-> ev, endpoint |-> current[ev], attempt |-> attempt[ev],
                     success |-> success[ev]]
    <3>1. current[ev] = a.endpoint /\ attempt[ev] = a.attempt
      BY <1>3, <2>1, <2>3 DEF Commit, ReceivedInv
    <3>2. d \in deliveries' /\ d.event = ev /\ d.endpoint = current[ev] /\ d.attempt = attempt[ev]
      BY <1>3 DEF Commit, RecordOf
    <3> QED  BY <2>3, <3>1, <3>2 DEF Logged, Attempts
  <2>4. CASE ~Logged(a) /\ a.event # ev
    BY <1>3, <2>1, <2>4 DEF Commit, Goto, ReceivedInv, Shape, Types
  <2> QED  BY <2>2, <2>3, <2>4
<1>4. ASSUME a \in received, UNCHANGED deliveries,
             \A o \in Events : pc[o] \in {"Flush", "Commit", "dead"} =>
                \/ UNCHANGED <<pc[o], current[o], attempt[o]>>
                \/ pc[o] = "Flush" /\ pc'[o] = "Commit" /\ UNCHANGED <<current[o], attempt[o]>>
                \/ pc'[o] = "dead"
      PROVE  Shown
  <2>1. a.event \in Events
    BY <1>4 DEF Shape, Types, Arrivals
  <2>2. CASE Logged(a)
    BY <1>1, <1>4, <2>2
  <2>3. CASE pc[a.event] = "dead"
    BY <1>4, <2>1, <2>3
  <2>4. CASE ~Logged(a) /\ pc[a.event] # "dead"
    <3>1. /\ pc[a.event] \in {"Flush", "Commit"}
          /\ current[a.event] = a.endpoint /\ attempt[a.event] = a.attempt
      BY <1>4, <2>4 DEF ReceivedInv
    <3> QED  BY <1>4, <2>1, <3>1
  <2> QED  BY <2>2, <2>3, <2>4
<1>5. ASSUME NEW ev \in Events, Dispatch(ev) \/ Scan(ev) \/ Wake(ev) PROVE Shown
  BY <1>4, <1>5 DEF Dispatch, Scan, Wake, Goto, tables, task, Shape, Types
<1>6. ASSUME NEW ev \in Events, Pick(ev) \/ Load(ev) PROVE Shown
  BY <1>4, <1>6 DEF Pick, Load, Goto, tables, task, Shape, Types
<1>7. ASSUME NEW ev \in Events, Flush(ev) \/ Die(ev) PROVE Shown
  BY <1>4, <1>7 DEF Flush, Die, Goto, tables, task, Shape, Types
<1>8. ASSUME NEW e \in Endpoints, Register(e) \/ Deactivate(e) PROVE Shown
  BY <1>4, <1>8 DEF Register, Deactivate, task
<1>9. ASSUME NEW ev \in Events, NEW e \in Endpoints, SendTest(ev, e) PROVE Shown
  BY <1>4, <1>9 DEF SendTest, Goto, tables, task, Shape, Types
<1>10. CASE UNCHANGED vars
  BY <1>4, <1>10 DEF vars, tables, task
<1> QED  BY <1>2, <1>3, <1>5, <1>6, <1>7, <1>8, <1>9, <1>10 DEF Next, Step

\* What reached an endpoint is in the log, unless its task is about to write it or died.
THEOREM ReceivedIsLoggedHolds == Spec => []ReceivedIsLogged
<1>1. Init => ReceivedInv
  BY DEF Init, ReceivedInv
<1>2. ReceivedInv => ReceivedIsLogged
  BY DEF ReceivedInv, ReceivedIsLogged, Logged
<1> QED  BY <1>1, <1>2, ShapeInit, ShapeKept, ReceivedKept, PTL DEF Spec

-----------------------------------------------------------------------------
(* Retries stop.                                                           *)

LEMMA LateKept == Shape /\ LateInv /\ [Next]_vars => LateInv'
<1> SUFFICES ASSUME Shape, LateInv, [Next]_vars PROVE LateInv'
  OBVIOUS
<1>1. \A a \in received : a.event \in Events
  BY DEF Shape, Types, Arrivals
<1>2. ASSUME NEW ev \in Events, Post(ev) PROVE LateInv'
  <2> DEFINE n == [event |-> ev, endpoint |-> current[ev], attempt |-> attempt[ev],
                   active |-> current[ev] \in active]
  <2>1. /\ received' \subseteq received \cup {n} /\ pc' = [pc EXCEPT ![ev] = "Flush"]
        /\ pc[ev] = "Post" /\ UNCHANGED <<active, retired, current>>
    BY <1>2 DEF Post, Goto, tables
  <2>2. /\ n.event = ev /\ n.endpoint = current[ev] /\ n.active = (current[ev] \in active)
    OBVIOUS
  <2> HIDE DEF n
  <2>3. current[ev] \in Known
    BY <2>1 DEF Shape, TaskInv, Serving, Trying
  <2>4. ASSUME NEW a \in received', ~a.active
        PROVE  /\ a.endpoint \in retired'
               /\ ~(pc'[a.event] = "Post" /\ current'[a.event] = a.endpoint)
    <3>1. CASE a \in received
      <4>1. a.endpoint \in retired /\ a.event \in Events
            /\ ~(pc[a.event] = "Post" /\ current[a.event] = a.endpoint)
        BY <1>1, <2>4, <3>1 DEF LateInv
      <4> QED  BY <2>1, <4>1 DEF Shape, Types
    <3>2. CASE a = n
      BY <2>1, <2>2, <2>3, <2>4, <3>2 DEF Known, Shape, Types
    <3> QED  BY <2>1, <3>1, <3>2
  <2>5. ASSUME NEW a \in received, ~a.active, a.event = ev, a.endpoint = current[ev]
        PROVE  FALSE
    BY <2>1, <2>5 DEF LateInv
  <2>6. RetriesStop'
    BY <2>1, <2>2, <2>5 DEF LateInv, RetriesStop
  <2> QED  BY <2>4, <2>6 DEF LateInv
<1>3. ASSUME UNCHANGED received, retired \subseteq retired',
             \A o \in Events : pc'[o] = "Post" =>
                \/ pc[o] = "Post" /\ UNCHANGED current[o]
                \/ current'[o] \notin retired
      PROVE  LateInv'
  BY <1>1, <1>3 DEF LateInv, RetriesStop
<1>4. ASSUME NEW ev \in Events, Load(ev) PROVE LateInv'
  <2>1. current[ev] \in active => current[ev] \notin retired
    BY DEF Shape, DeactivationSticks
  <2> QED  BY <1>3, <1>4, <2>1 DEF Load, BreakRetries, Wanted, Goto, tables, Shape, Types
<1>5. ASSUME NEW ev \in Events, Dispatch(ev) \/ Scan(ev) \/ Wake(ev) PROVE LateInv'
  BY <1>3, <1>5 DEF Dispatch, Scan, Wake, Goto, tables, task, Shape, Types
<1>6. ASSUME NEW ev \in Events, Pick(ev) \/ Commit(ev) PROVE LateInv'
  BY <1>3, <1>6 DEF Pick, Commit, Goto, tables, task, Shape, Types
<1>7. ASSUME NEW ev \in Events, Flush(ev) \/ Die(ev) PROVE LateInv'
  BY <1>3, <1>7 DEF Flush, Die, Goto, tables, task, Shape, Types
<1>8. ASSUME NEW e \in Endpoints, Register(e) \/ Deactivate(e) PROVE LateInv'
  BY <1>3, <1>8 DEF Register, Deactivate, task
<1>9. ASSUME NEW ev \in Events, NEW e \in Endpoints, SendTest(ev, e) PROVE LateInv'
  BY <1>3, <1>9 DEF SendTest, Goto, tables, task, Shape, Types
<1>10. CASE UNCHANGED vars
  BY <1>3, <1>10 DEF vars, tables, task
<1> QED  BY <1>2, <1>4, <1>5, <1>6, <1>7, <1>8, <1>9, <1>10 DEF Next, Step

\* A deactivated endpoint gets at most the POST of an event that was under way.
THEOREM RetriesStopHolds == Spec => []RetriesStop
<1>1. Init => LateInv
  BY DEF Init, LateInv, RetriesStop
<1>2. LateInv => RetriesStop
  BY DEF LateInv
<1> QED  BY <1>1, <1>2, ShapeInit, ShapeKept, LateKept, PTL DEF Spec

-----------------------------------------------------------------------------
(* The delivery log.                                                       *)

\* A log that reads 1 .. n has n records.
LEMMA ReadsCounts ==
    ASSUME NEW log, NEW n \in Nat, Reads(log, n)
    PROVE  Cardinality(log) = n /\ {d.attempt : d \in log} = 1 .. n
<1> DEFINE f == [k \in 1 .. n |-> CHOOSE d \in log : d.attempt = k]
<1>1. \A k \in 1 .. n : f[k] \in log /\ f[k].attempt = k
  BY DEF Reads
<1>2. f \in [1 .. n -> log]
  BY <1>1
<1> HIDE DEF f
<1>3. f \in Injection(1 .. n, log)
  BY <1>1, <1>2 DEF Injection, IsInjective
<1>4. \A d \in log : d.attempt \in 1 .. n /\ f[d.attempt] = d
  BY <1>1 DEF Reads
<1>5. f \in Surjection(1 .. n, log)
  BY <1>2, <1>4 DEF Surjection
<1>6. ExistsBijection(1 .. n, log)
  BY <1>3, <1>5 DEF ExistsBijection, Bijection
<1>7. {d.attempt : d \in log} = 1 .. n
  BY <1>4 DEF Reads
<1> QED  BY <1>6, <1>7, FS_CountingElements

\* The record of the attempt a task is at goes to the end of the log.
LEMMA RecordJoins ==
    ASSUME NEW log, NEW d, NEW n \in Nat \ {0}, Reads(log, n - 1), AllFailed(log),
           d.attempt = n
    PROVE  /\ d \notin log /\ Reads(log \cup {d}, n)
           /\ ~d.success => AllFailed(log \cup {d})
<1>1. \A c \in log : c.attempt \in 1 .. n - 1 /\ ~c.success
  BY DEF Reads, AllFailed
<1>2. \A c \in log : c.attempt # n /\ c.attempt \in 1 .. n
  BY <1>1
<1>3. d \notin log
  BY <1>2
<1>4. ASSUME NEW k \in 1 .. n PROVE \E c \in log \cup {d} : c.attempt = k
  <2>1. CASE k \in 1 .. n - 1
    BY <2>1 DEF Reads
  <2>2. CASE k = n
    BY <2>2
  <2> QED  BY <2>1, <2>2
<1>5. n \in 1 .. n
  OBVIOUS
<1>6. \A b, c \in log \cup {d} : b.attempt = c.attempt => b = c
  BY <1>2 DEF Reads
<1>7. Reads(log \cup {d}, n)
  BY <1>1, <1>2, <1>4, <1>5, <1>6 DEF Reads
<1> QED  BY <1>1, <1>3, <1>7 DEF AllFailed

\* A step writes at most the record its task is at; the other logs stay.
LEMMA LogsKept ==
    ASSUME Shape, \A ev \in Events, e \in Endpoints : LogInv(ev, e), [Next]_vars,
           NEW ev \in Events, NEW e \in Endpoints
    PROVE  LogInv(ev, e)'
<1>0. MaxRetries \in Nat \ {0} /\ attempt[ev] \in Nat /\ LogInv(ev, e) /\ TaskInv(ev)
  BY WebhookAssumption DEF Shape, Types
<1>1. ASSUME UNCHANGED deliveries,
             \/ UNCHANGED <<pc[ev], todo[ev], current[ev], attempt[ev]>>
             \/ pc'[ev] \in {"Pick", "done", "dead"} /\ todo'[ev] \subseteq todo[ev]
      PROVE  LogInv(ev, e)'
  BY <1>0, <1>1 DEF LogInv, Attempts, Trying
<1>2. ASSUME Dispatch(ev) \/ (\E o \in Endpoints : SendTest(ev, o)) PROVE LogInv(ev, e)'
  BY <1>0, <1>2 DEF Dispatch, SendTest, Goto, tables, task, LogInv, Attempts, Trying, Shape, Types
<1>3. ASSUME Scan(ev) PROVE LogInv(ev, e)'
  BY <1>0, <1>3 DEF Scan, Goto, tables, LogInv, Attempts, Trying, Shape, Types
<1>4. ASSUME Pick(ev) PROVE LogInv(ev, e)'
  <2>1. CASE pc'[ev] = "done"
    BY <1>1, <1>4, <2>1 DEF Pick, Goto, tables, Shape, Types
  <2>2. ASSUME NEW o \in todo[ev], todo'[ev] = todo[ev] \ {o}, current'[ev] = o,
               attempt'[ev] = 1, pc'[ev] = "Load", UNCHANGED deliveries
        PROVE  LogInv(ev, e)'
    <3>1. Attempts(ev, e)' = Attempts(ev, e)
      BY <2>2 DEF Attempts
    <3>2. e \in todo[ev] => Attempts(ev, e) = {}
      BY <1>0 DEF LogInv
    <3>3. Reads({}, 0) /\ AllFailed({})
      BY DEF Reads, AllFailed
    <3>4. attempt'[ev] - 1 = 0
      BY <2>2
    <3>5. \E n \in Nat : Reads(Attempts(ev, e)', n)
      BY <1>0, <3>1 DEF LogInv
    <3>6. current'[ev] = e => /\ Reads(Attempts(ev, e)', attempt'[ev] - 1)
                              /\ AllFailed(Attempts(ev, e)')
      BY <2>2, <3>1, <3>2, <3>3, <3>4
    <3>7. e \in todo'[ev] => Attempts(ev, e)' = {}
      BY <2>2, <3>1, <3>2
    <3> QED  BY <2>2, <3>5, <3>6, <3>7 DEF LogInv
  <2> QED  BY <1>4, <2>1, <2>2 DEF Pick, Goto, tables, Shape, Types
<1>5. ASSUME Load(ev) \/ Post(ev) \/ Flush(ev) PROVE LogInv(ev, e)'
  BY <1>0, <1>5 DEF Load, Post, Flush, Goto, BreakRetries, tables, task, LogInv, Attempts, Trying,
     Shape, Types
<1>6. ASSUME Wake(ev) PROVE LogInv(ev, e)'
  <2>1. /\ pc[ev] = "Sleep" /\ pc'[ev] = "Load" /\ UNCHANGED <<deliveries, todo, current>>
        /\ attempt'[ev] = attempt[ev] + 1
    BY <1>6 DEF Wake, Goto, tables, Shape, Types
  <2>2. attempt'[ev] - 1 = attempt[ev] /\ Attempts(ev, e)' = Attempts(ev, e)
    BY <1>0, <2>1 DEF Attempts
  <2> QED  BY <1>0, <2>1, <2>2 DEF LogInv
<1>7. ASSUME Die(ev) PROVE LogInv(ev, e)'
  BY <1>1, <1>7 DEF Die, Goto, tables, Shape, Types
<1>8. ASSUME Commit(ev) PROVE LogInv(ev, e)'
  <2> DEFINE d == [event |-> ev, endpoint |-> current[ev], attempt |-> attempt[ev],
                   success |-> success[ev]]
  <2>1. deliveries' = deliveries \cup {d}
    BY <1>8 DEF Commit, RecordOf
  <2>2. d.event = ev /\ d.endpoint = current[ev] /\ d.attempt = attempt[ev] /\ d.success = success[ev]
    OBVIOUS
  <2> HIDE DEF d
  <2>3. /\ UNCHANGED <<todo, current, attempt>> /\ pc[ev] = "Commit"
        /\ pc'[ev] = IF RetryNeeded(ev) THEN "Sleep" ELSE "Pick"
    BY <1>8 DEF Commit, Goto, Shape, Types
  <2>4. Trying(ev) /\ attempt[ev] \in Nat \ {0} /\ current[ev] \notin todo[ev]
    BY <1>0, <2>3 DEF Trying, TaskInv, Serving
  <2>5. CASE current[ev] = e
    <3>1. Attempts(ev, e)' = Attempts(ev, e) \cup {d}
      BY <2>1, <2>2, <2>5 DEF Attempts
    <3>2. Reads(Attempts(ev, e), attempt[ev] - 1) /\ AllFailed(Attempts(ev, e))
      BY <1>0, <2>4, <2>5 DEF LogInv
    <3>3. /\ Reads(Attempts(ev, e)', attempt[ev])
          /\ ~success[ev] => AllFailed(Attempts(ev, e)')
      <4> DEFINE log == Attempts(ev, e)
      <4>1. Reads(log, attempt[ev] - 1) /\ AllFailed(log)
        BY <3>2
      <4> HIDE DEF log
      <4>2. Reads(log \cup {d}, attempt[ev]) /\ (~d.success => AllFailed(log \cup {d}))
        BY <2>2, <2>4, <4>1, RecordJoins
      <4> QED  BY <2>2, <3>1, <4>2 DEF log
    <3>4. pc'[ev] = "Sleep" => ~success[ev]
      BY <2>3 DEF RetryNeeded
    <3> QED  BY <2>3, <2>4, <2>5, <3>3, <3>4 DEF LogInv, Trying
  <2>6. CASE current[ev] # e
    <3>1. Attempts(ev, e)' = Attempts(ev, e)
      BY <2>1, <2>2, <2>6 DEF Attempts
    <3> QED  BY <1>0, <2>3, <2>6, <3>1 DEF LogInv, Trying
  <2> QED  BY <2>5, <2>6
<1>9. ASSUME NEW o \in Events, o # ev, Step(o) \/ Dispatch(o) \/ Die(o) PROVE LogInv(ev, e)'
  <2>1. UNCHANGED <<pc[ev], todo[ev], current[ev], attempt[ev]>>
    BY <1>9 DEF Step, Dispatch, Scan, Pick, Load, Post, Flush, Commit, Wake, Die, Goto, task,
       Shape, Types
  <2>2. CASE UNCHANGED deliveries
    BY <1>1, <2>1, <2>2
  <2>3. CASE Commit(o)
    <3>1. Attempts(ev, e)' = Attempts(ev, e)
      BY <1>9, <2>3 DEF Commit, RecordOf, Attempts
    <3> QED  BY <1>0, <2>1, <3>1 DEF LogInv, Trying
  <2> QED
    BY <1>9, <2>2, <2>3 DEF Step, Dispatch, Scan, Pick, Load, Post, Flush, Wake, Die, tables
<1>10. ASSUME NEW o \in Events, o # ev, NEW p \in Endpoints, SendTest(o, p) PROVE LogInv(ev, e)'
  BY <1>1, <1>10 DEF SendTest, Goto, task, tables, Shape, Types
<1>11. ASSUME NEW o \in Endpoints, Register(o) \/ Deactivate(o) PROVE LogInv(ev, e)'
  BY <1>1, <1>11 DEF Register, Deactivate, task
<1>12. CASE UNCHANGED vars
  BY <1>1, <1>12 DEF vars, task, tables
<1> QED
  BY <1>2, <1>3, <1>4, <1>5, <1>6, <1>7, <1>8, <1>9, <1>10, <1>11, <1>12 DEF Next, Step

LEMMA LogsInit == Init => \A ev \in Events, e \in Endpoints : LogInv(ev, e)
<1> SUFFICES ASSUME Init, NEW ev \in Events, NEW e \in Endpoints PROVE LogInv(ev, e)
  OBVIOUS
<1>1. Attempts(ev, e) = {} /\ pc[ev] = "idle"
  BY DEF Init, Attempts
<1>2. Reads({}, 0)
  BY DEF Reads
<1> QED  BY <1>1, <1>2 DEF LogInv, Trying

\* The log of an event at an endpoint has no gap and no repeat and ends with its first
\* success, whatever else the dispatcher serves meanwhile.
THEOREM LogWellFormedHolds == Spec => []LogWellFormed
<1> DEFINE Logs == \A ev \in Events, e \in Endpoints : LogInv(ev, e)
<1>1. ASSUME Logs PROVE LogWellFormed
  <2> SUFFICES ASSUME NEW ev \in Events, NEW e \in Endpoints
               PROVE  LET log == Attempts(ev, e) IN
                      /\ {d.attempt : d \in log} = 1 .. Cardinality(log)
                      /\ \A d \in log : d.success => d.attempt = Cardinality(log)
    BY DEF LogWellFormed
  <2>1. PICK n \in Nat : Reads(Attempts(ev, e), n)
    BY <1>1 DEF LogInv
  <2> QED  BY <2>1, ReadsCounts DEF Reads
<1>2. Shape /\ Logs /\ [Next]_vars => Logs'
  BY LogsKept
<1> QED  BY <1>1, <1>2, LogsInit, ShapeInit, ShapeKept, PTL DEF Spec

-----------------------------------------------------------------------------
(* The failure counters.                                                   *)

\* The failures at an endpoint are finitely many; a record adds at most one.
LEMMA FailedCounts ==
    ASSUME Types, NEW e
    PROVE  IsFiniteSet(Failed(e)) /\ Cardinality(Failed(e)) \in Nat
<1>1. Failed(e) \in SUBSET deliveries
  BY DEF Failed
<1> QED  BY <1>1, FS_Subset, FS_CardinalityType DEF Types

LEMMA CountsKept ==
    ASSUME Shape, CountInv, \A ev \in Events, e \in Endpoints : LogInv(ev, e), [Next]_vars
    PROVE  CountInv'
<1>1. ASSUME UNCHANGED <<deliveries, failures>>,
             \A o \in Events : pc'[o] \in {"Post", "Flush", "Commit"} =>
                /\ pc[o] \in {"Post", "Flush", "Commit"}
                /\ UNCHANGED <<loaded[o], current[o]>>
      PROVE  CountInv'
  BY <1>1 DEF CountInv, FailuresAreLogged, Failed
<1>2. ASSUME NEW ev \in Events, Load(ev) PROVE CountInv'
  <2>1. CASE ~Wanted(current[ev])
    BY <1>1, <1>2, <2>1 DEF Load, BreakRetries, Goto, tables, Shape, Types
  <2>2. CASE Wanted(current[ev])
    <3>1. /\ UNCHANGED <<deliveries, failures, current>> /\ pc' = [pc EXCEPT ![ev] = "Post"]
          /\ loaded' = [loaded EXCEPT ![ev] = failures[current[ev]]]
      BY <1>2, <2>2 DEF Load, Goto, tables
    <3>2. \A x : Failed(x)' = Failed(x)
      BY <3>1 DEF Failed
    <3>3. current[ev] \in Endpoints
      BY <2>2 DEF Wanted, Shape, Types, TypeOK
    <3>4. failures[current[ev]] <= Cardinality(Failed(current[ev]))
      BY <3>3 DEF CountInv, FailuresAreLogged, Failed
    <3>5. ASSUME NEW o \in Events, pc'[o] \in {"Post", "Flush", "Commit"}
          PROVE  loaded'[o] <= Cardinality(Failed(current[o]))
      <4>1. CASE o = ev
        BY <3>1, <3>4, <4>1 DEF Shape, Types
      <4>2. CASE o # ev
        BY <3>1, <3>5, <4>2 DEF Shape, Types, CountInv
      <4> QED  BY <4>1, <4>2
    <3>6. FailuresAreLogged'
      BY <3>1 DEF CountInv, FailuresAreLogged
    <3> QED  BY <3>1, <3>2, <3>5, <3>6 DEF CountInv
  <2> QED  BY <2>1, <2>2
<1>3. ASSUME NEW ev \in Events, Commit(ev) PROVE CountInv'
  <2> DEFINE d == [event |-> ev, endpoint |-> current[ev], attempt |-> attempt[ev],
                   success |-> success[ev]]
  <2>1. deliveries' = deliveries \cup {d}
    BY <1>3 DEF Commit, RecordOf
  <2>2. d.event = ev /\ d.endpoint = current[ev] /\ d.attempt = attempt[ev] /\ d.success = success[ev]
    OBVIOUS
  <2> HIDE DEF d
  <2>3. /\ UNCHANGED current /\ pc[ev] = "Commit"
        /\ pc'[ev] \notin {"Post", "Flush", "Commit"}
        /\ \A o \in Events : o # ev => UNCHANGED <<pc[o], loaded[o]>>
        /\ failures' = [failures EXCEPT ![current[ev]] = CountAfter(ev)]
    BY <1>3 DEF Commit, Goto, Shape, Types
  <2>4. /\ Trying(ev) /\ attempt[ev] \in Nat \ {0} /\ current[ev] \in Endpoints
        /\ LogInv(ev, current[ev]) /\ Types
    BY <2>3 DEF Trying, TaskInv, Serving, Shape, Known, Types, TypeOK
  <2>5. d \notin Attempts(ev, current[ev])
    <3>1. /\ Reads(Attempts(ev, current[ev]), attempt[ev] - 1)
          /\ AllFailed(Attempts(ev, current[ev]))
      BY <2>4 DEF LogInv
    <3> QED  BY <2>2, <2>4, <3>1, RecordJoins
  <2>6. d \notin deliveries
    BY <2>2, <2>5 DEF Attempts
  <2>7. ASSUME NEW x
        PROVE  /\ Failed(x)' = IF current[ev] = x /\ ~success[ev] THEN Failed(x) \cup {d}
                                                                  ELSE Failed(x)
               /\ Cardinality(Failed(x)) \in Nat
               /\ Cardinality(Failed(x)') = Cardinality(Failed(x))
                        + (IF current[ev] = x /\ ~success[ev] THEN 1 ELSE 0)
    <3>1. Failed(x)' = IF current[ev] = x /\ ~success[ev] THEN Failed(x) \cup {d} ELSE Failed(x)
      BY <2>1, <2>2 DEF Failed
    <3>2. d \notin Failed(x)
      BY <2>6 DEF Failed
    <3>3. IsFiniteSet(Failed(x)) /\ Cardinality(Failed(x)) \in Nat
      BY <2>4, FailedCounts
    <3>4. Cardinality(Failed(x) \cup {d}) = Cardinality(Failed(x)) + 1
      BY <3>2, <3>3, FS_AddElement
    <3> QED  BY <3>1, <3>3, <3>4
  <2>8. /\ loaded[ev] \in Nat /\ success[ev] \in BOOLEAN
        /\ loaded[ev] <= Cardinality(Failed(current[ev]))
        /\ \A x \in Endpoints : failures[x] \in Nat /\ failures[x] <= Cardinality(Failed(x))
    BY <2>3 DEF Shape, Types, TypeOK, CountInv, FailuresAreLogged, Failed
  <2>9. ASSUME NEW x \in Endpoints PROVE failures'[x] <= Cardinality(Failed(x)')
    <3>1. CASE x = current[ev]
      <4>1. failures'[x] = CountAfter(ev)
        BY <2>3, <3>1 DEF Shape, Types, TypeOK
      <4>2. CASE ~success[ev]
        BY <2>7, <2>8, <3>1, <4>1, <4>2 DEF CountAfter
      <4>3. CASE success[ev]
        <5>1. CountAfter(ev) <= Cardinality(Failed(x))
          BY <2>7, <2>8, <3>1, <4>3 DEF CountAfter
        <5> QED  BY <2>7, <4>1, <4>3, <5>1
      <4> QED  BY <2>8, <4>2, <4>3
    <3>2. CASE x # current[ev]
      BY <2>3, <2>7, <2>8, <3>2 DEF Shape, Types, TypeOK
    <3> QED  BY <3>1, <3>2
  <2>10. ASSUME NEW o \in Events, pc'[o] \in {"Post", "Flush", "Commit"}
         PROVE  loaded'[o] <= Cardinality(Failed(current[o]))'
    <3>1. o # ev /\ loaded'[o] = loaded[o] /\ loaded[o] <= Cardinality(Failed(current[o]))
      BY <2>3, <2>10 DEF CountInv
    <3>2. loaded[o] \in Nat
      BY <2>4 DEF Types
    <3>3. PICK x \in Endpoints : current[o] = x
      BY <2>3, <2>10, <3>1 DEF TaskInv, Trying, Serving, Shape, Types, TypeOK, Known
    <3>4. current'[o] = x /\ loaded[o] <= Cardinality(Failed(x))
      BY <2>3, <3>1, <3>3
    <3>5. loaded'[o] <= Cardinality(Failed(x)')
      BY <2>7, <3>1, <3>2, <3>4
    <3> QED  BY <3>4, <3>5 DEF Failed
  <2> QED  BY <2>3, <2>9, <2>10 DEF CountInv, FailuresAreLogged, Failed
<1>4. ASSUME NEW ev \in Events, Dispatch(ev) \/ Scan(ev) \/ Wake(ev) PROVE CountInv'
  BY <1>1, <1>4 DEF Dispatch, Scan, Wake, Goto, tables, task, Shape, Types
<1>5. ASSUME NEW ev \in Events, Pick(ev) \/ Post(ev) PROVE CountInv'
  BY <1>1, <1>5 DEF Pick, Post, Goto, tables, task, Shape, Types
<1>6. ASSUME NEW ev \in Events, Flush(ev) \/ Die(ev) PROVE CountInv'
  BY <1>1, <1>6 DEF Flush, Die, Goto, tables, task, Shape, Types
<1>7. ASSUME NEW e \in Endpoints, Register(e) \/ Deactivate(e) PROVE CountInv'
  BY <1>1, <1>7 DEF Register, Deactivate, task
<1>8. ASSUME NEW ev \in Events, NEW e \in Endpoints, SendTest(ev, e) PROVE CountInv'
  BY <1>1, <1>8 DEF SendTest, Goto, tables, task, Shape, Types
<1>9. CASE UNCHANGED vars
  BY <1>1, <1>9 DEF vars, tables, task
<1> QED  BY <1>2, <1>3, <1>4, <1>5, <1>6, <1>7, <1>8, <1>9 DEF Next, Step

\* delivery_failures never claims more failures than the log shows, however many tasks
\* overwrite it with what they read before their POST.
THEOREM FailuresAreLoggedHolds == Spec => []FailuresAreLogged
<1> DEFINE Logs == \A ev \in Events, e \in Endpoints : LogInv(ev, e)
<1>1. Init => CountInv
  <2> SUFFICES ASSUME Init PROVE CountInv
    OBVIOUS
  <2>1. ASSUME NEW e \in Endpoints PROVE failures[e] <= Cardinality(Failed(e))
    <3>1. failures[e] = 0
      BY DEF Init
    <3>2. Cardinality(Failed(e)) \in Nat
      BY ShapeInit, FailedCounts DEF Shape
    <3> QED  BY <3>1, <3>2
  <2> QED  BY <2>1 DEF Init, CountInv, FailuresAreLogged, Failed
<1>2. Shape /\ Logs /\ [Next]_vars => Logs'
  BY LogsKept
<1>3. Shape /\ Logs /\ CountInv /\ [Next]_vars => CountInv'
  BY CountsKept
<1>4. CountInv => FailuresAreLogged
  BY DEF CountInv
<1> QED  BY <1>1, <1>2, <1>3, <1>4, LogsInit, ShapeInit, ShapeKept, PTL DEF Spec
=============================================================================
