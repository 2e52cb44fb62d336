-------------------------- MODULE SchedulerProofs --------------------------
(***************************************************************************)
(* Types, announcements and the events a shutdown loses, for any number of *)
(* proposals and of concurrent manual passes, any deadlines and bounds.    *)
(***************************************************************************)
EXTENDS Scheduler, FiniteSetTheorems, TLAPS

\* A result event is only due for a stored result.
AnnounceInv ==
    /\ AnnouncedIsStored
    /\ \A w \in Workers : pc[w] = "Announce" => current[w] \in computed

\* What may still run at each stage of the life of the process.
LifeInv ==
    /\ process \in {"stopped", "disposed"} => \A w \in Workers : Absent(w)
    /\ process \in {"running", "draining", "stopping"} => bus
    /\ process = "stopping" =>
        /\ pc["loop"] \in {"none", "Cancel"}
        /\ \A m \in Manual : Absent(m)
    /\ \A m \in Manual : pc[m] \notin {"Sleep", "Cancel"}

SchedulerInv == TypeOK /\ AnnounceInv /\ LifeInv

\* The process is running when a worker is between two awaits of a pass.
LEMMA PassNeedsProcess ==
    ASSUME TypeOK, LifeInv, NEW w \in Workers, pc[w] \notin {"none", "Cancel"}
    PROVE  process \in {"running", "draining"}
BY DEF TypeOK, LifeInv, Absent, Workers

\* The scheduler starts well.
LEMMA InitEstablishes == Init => SchedulerInv
<1> SUFFICES ASSUME Init PROVE SchedulerInv
  OBVIOUS
<1>1. TypeOK
  <2>1. clock \in 0 .. MaxClock /\ faults \in 0 .. MaxFaults /\ starts \in 0 .. MaxStarts
    BY SchedulerAssumption DEF Init, SchedulerAssumption
  <2> QED  BY <2>1 DEF Init, TypeOK, Statuses, Closing
<1>2. AnnounceInv /\ LifeInv
  BY DEF Init, AnnounceInv, LifeInv, AnnouncedIsStored, Absent, Workers
<1> QED  BY <1>1, <1>2 DEF SchedulerInv

\* The steps of a pass.
LEMMA WorkKeeps ==
    ASSUME SchedulerInv, NEW w \in Workers, Work(w)
    PROVE  SchedulerInv'
<1> USE DEF SchedulerInv, life, outbox
<1>1. CASE Scan(w)
  <2>1. process \in {"running", "draining"}
    BY <1>1, PassNeedsProcess DEF Scan
  <2>2. TypeOK'
    BY <1>1 DEF Scan, Goto, db, TypeOK, Closing, Overdue
  <2>3. AnnounceInv'
    BY <1>1 DEF Scan, Goto, db, TypeOK, AnnounceInv, AnnouncedIsStored
  <2>4. LifeInv'
    BY <1>1, <2>1 DEF Scan, Goto, TypeOK, LifeInv, Absent
  <2> QED  BY <2>2, <2>3, <2>4
<1>2. CASE Turn(w)
  <2>1. process \in {"running", "draining"}
    BY <1>2, PassNeedsProcess DEF Turn
  <2>2. TypeOK'
    BY <1>2, SchedulerAssumption
       DEF Turn, Goto, NoMoreTurns, AfterPass, db, TypeOK, Closing, SchedulerAssumption
  <2>3. AnnounceInv'
    BY <1>2 DEF Turn, Goto, AfterPass, db, TypeOK, AnnounceInv, AnnouncedIsStored
  <2>4. LifeInv'
    <3>1. /\ UNCHANGED life
          /\ pc' = [pc EXCEPT ![w] = AfterPass(w)] \/ pc' = [pc EXCEPT ![w] = "Load"]
      BY <1>2 DEF Turn, Goto
    <3>2. AfterPass(w) \in {"Sleep", "none"} /\ (AfterPass(w) = "Sleep" => w = "loop")
      BY DEF AfterPass
    <3>3. \A m \in Manual : pc'[m] \notin {"Sleep", "Cancel"}
      BY <3>1, <3>2, SchedulerAssumption DEF TypeOK, LifeInv, Workers
    <3> QED  BY <2>1, <3>1, <3>3 DEF life, LifeInv, Absent
  <2> QED  BY <2>2, <2>3, <2>4
<1>3. CASE Load(w)
  <2>1. process \in {"running", "draining"}
    BY <1>3, PassNeedsProcess DEF Load
  <2>2. TypeOK'
    BY <1>3 DEF Load, Goto, db, TypeOK, Closing
  <2>3. AnnounceInv'
    BY <1>3 DEF Load, Goto, db, TypeOK, AnnounceInv, AnnouncedIsStored
  <2>4. LifeInv'
    BY <1>3, <2>1 DEF Load, Goto, TypeOK, LifeInv, Absent
  <2> QED  BY <2>2, <2>3, <2>4
<1>4. CASE Commit(w)
  <2>1. process \in {"running", "draining"}
    BY <1>4, PassNeedsProcess DEF Commit
  <2>2. current[w] \in Proposals
    BY <1>4 DEF Commit, TypeOK, Closing
  <2>3. TypeOK'
    BY <1>4, <2>2 DEF Commit, Store, Goto, TypeOK, Closing, Statuses
  <2>4. AnnounceInv'
    BY <1>4 DEF Commit, Store, Goto, TypeOK, AnnounceInv, AnnouncedIsStored
  <2>5. LifeInv'
    BY <1>4, <2>1 DEF Commit, Goto, TypeOK, LifeInv, Absent
  <2> QED  BY <2>3, <2>4, <2>5
<1>5. CASE Announce(w)
  <2>1. process \in {"running", "draining"}
    BY <1>5, PassNeedsProcess DEF Announce
  <2>2. current[w] \in computed
    BY <1>5 DEF Announce, AnnounceInv
  <2>3. TypeOK'
    BY <1>5, <2>2 DEF Announce, Goto, db, TypeOK, Closing
  <2>4. AnnounceInv'
    BY <1>5, <2>2 DEF Announce, Goto, db, TypeOK, AnnounceInv, AnnouncedIsStored
  <2>5. LifeInv'
    BY <1>5, <2>1 DEF Announce, Goto, TypeOK, LifeInv, Absent
  <2> QED  BY <2>3, <2>4, <2>5
<1> QED  BY <1>1, <1>2, <1>3, <1>4, <1>5 DEF Work

\* A database error loses a pass or a turn, and may store a result nobody announces.
LEMMA DatabaseErrorKeeps ==
    ASSUME SchedulerInv, NEW w \in Workers, DatabaseError(w)
    PROVE  SchedulerInv'
<1> USE DEF SchedulerInv, life, outbox
<1>1. process \in {"running", "draining"}
  BY PassNeedsProcess DEF DatabaseError
<1>2. faults' \in 0 .. MaxFaults
  BY SchedulerAssumption DEF DatabaseError, TypeOK, SchedulerAssumption
<1>3. pc[w] = "Commit" => current[w] \in Proposals
  BY DEF TypeOK, Closing
<1>4. /\ status' \in [Proposals -> Statuses]
      /\ computed' \subseteq Proposals /\ computed \subseteq computed'
  BY <1>3 DEF DatabaseError, db, Store, TypeOK, Statuses
<1>5. \/ pc[w] = "Scan" /\ pc' = [pc EXCEPT ![w] = AfterPass(w)]
      \/ pc[w] \in {"Load", "Commit"} /\ pc' = [pc EXCEPT ![w] = "Turn"]
  BY DEF DatabaseError, Goto, AfterError, AfterScanError
<1>6. TypeOK'
  BY <1>2, <1>4, <1>5 DEF DatabaseError, AfterPass, TypeOK, Closing
<1>7. AnnounceInv'
  BY <1>4, <1>5 DEF DatabaseError, AfterPass, TypeOK, AnnounceInv, AnnouncedIsStored
<1>8. LifeInv'
  BY <1>1, <1>5, SchedulerAssumption
     DEF DatabaseError, AfterPass, TypeOK, LifeInv, Absent, Workers
<1> QED  BY <1>6, <1>7, <1>8

\* start, stop, the cancelled task, and crashes.
LEMMA LifecycleKeeps ==
    ASSUME SchedulerInv, Start \/ Terminate \/ Stop \/ EndLoop \/ Dispose \/ Exit \/ Crash
    PROVE  SchedulerInv'
<1> USE DEF SchedulerInv, life, outbox
<1> "loop" \in Workers
  BY DEF Workers
<1>1. CASE Start
  <2>1. TypeOK'
    BY <1>1, SchedulerAssumption
       DEF Start, Goto, db, TypeOK, Closing, LifeInv, Absent,
           SchedulerAssumption
  <2>2. AnnounceInv'
    BY <1>1 DEF Start, Goto, db, TypeOK, AnnounceInv, AnnouncedIsStored
  <2>3. LifeInv'
    BY <1>1, SchedulerAssumption
       DEF Start, Goto, TypeOK, LifeInv, Absent, Workers
  <2> QED  BY <2>1, <2>2, <2>3
<1>2. CASE Stop
  <2>1. pc["loop"] = "Commit" => current["loop"] \in Proposals
    BY DEF TypeOK, Closing
  <2>2. /\ status' \in [Proposals -> Statuses]
        /\ computed' \subseteq Proposals /\ computed \subseteq computed'
    BY <1>2, <2>1 DEF Stop, db, Store, TypeOK, Statuses
  <2>3. TypeOK'
    BY <1>2, <2>2 DEF Stop, Goto, Cancelled, TypeOK, Closing
  <2>4. AnnounceInv'
    BY <1>2, <2>2 DEF Stop, Goto, Cancelled, TypeOK, AnnounceInv, AnnouncedIsStored
  <2>5. LifeInv'
    BY <1>2, SchedulerAssumption
       DEF Stop, Goto, Cancelled, TypeOK, LifeInv, Absent, Workers
  <2> QED  BY <2>3, <2>4, <2>5
<1>3. CASE EndLoop
  <2>1. TypeOK'
    BY <1>3 DEF EndLoop, Goto, db, TypeOK, Closing
  <2>2. AnnounceInv'
    BY <1>3 DEF EndLoop, Goto, db, TypeOK, AnnounceInv, AnnouncedIsStored
  <2>3. LifeInv'
    BY <1>3, SchedulerAssumption
       DEF EndLoop, Goto, TypeOK, LifeInv, Absent, Workers
  <2> QED  BY <2>1, <2>2, <2>3
<1>4. CASE Dispose
  <2>1. TypeOK'
    BY <1>4 DEF Dispose, db, worker, TypeOK
  <2>2. AnnounceInv'
    BY <1>4 DEF Dispose, db, worker, AnnounceInv, AnnouncedIsStored
  <2>3. LifeInv'
    BY <1>4 DEF Dispose, worker, LifeInv, Absent, Workers
  <2> QED  BY <2>1, <2>2, <2>3
<1>5. CASE Crash
  <2>1. TypeOK'
    <3>1. faults' \in 0 .. MaxFaults
      BY <1>5, SchedulerAssumption DEF Crash, TypeOK, SchedulerAssumption
    <3> QED  BY <1>5, <3>1 DEF Crash, db, TypeOK, Closing
  <2>2. AnnounceInv'
    BY <1>5 DEF Crash, db, AnnounceInv, AnnouncedIsStored
  <2>3. LifeInv'
    BY <1>5 DEF Crash, LifeInv, Absent, Workers
  <2> QED  BY <2>1, <2>2, <2>3
<1>6. CASE Terminate
  BY <1>6 DEF Terminate, BusMeanwhile, worker, db, TypeOK, AnnounceInv, AnnouncedIsStored,
              LifeInv, Absent
<1>7. CASE Exit
  BY <1>7 DEF Exit, worker, db, TypeOK, AnnounceInv, AnnouncedIsStored, LifeInv, Absent
<1> QED  BY <1>1, <1>2, <1>3, <1>4, <1>5, <1>6, <1>7

\* The timer, the requests and streams, the webhook tasks, the clock, the status updates.
LEMMA WorldKeeps ==
    ASSUME SchedulerInv,
           \/ Tick
           \/ \E w \in Workers : Wake(w)
           \/ \E m \in Manual : Trigger(m)
           \/ \E c \in Clients : Connect(c) \/ Disconnect(c)
           \/ \E p \in Proposals : Served(p) \/ \E s \in Patches : SetStatus(p, s)
    PROVE  SchedulerInv'
<1> USE DEF SchedulerInv, life, outbox
<1>1. ASSUME NEW w \in Workers, Wake(w) PROVE SchedulerInv'
  <2>1. process \in {"running", "draining"}
    BY <1>1, PassNeedsProcess DEF Wake
  <2>2. TypeOK' /\ AnnounceInv'
    BY <1>1
       DEF Wake, LoopHead, Goto, db, TypeOK, Closing, AnnounceInv, AnnouncedIsStored
  <2>3. LifeInv'
    BY <1>1, <2>1, SchedulerAssumption
       DEF Wake, LoopHead, Goto, TypeOK, LifeInv, Absent, Workers
  <2> QED  BY <2>2, <2>3
<1>2. ASSUME NEW m \in Manual, Trigger(m) PROVE SchedulerInv'
  <2>1. m \in Workers
    BY DEF Workers
  <2>2. TypeOK' /\ AnnounceInv'
    BY <1>2, <2>1
       DEF Trigger, Absent, Goto, db, TypeOK, Closing, AnnounceInv, AnnouncedIsStored
  <2>3. LifeInv'
    BY <1>2, <2>1, SchedulerAssumption
       DEF Trigger, Goto, TypeOK, LifeInv, Absent, Workers
  <2> QED  BY <2>2, <2>3
<1>3. ASSUME NEW p \in Proposals, NEW s \in Patches, SetStatus(p, s)
      PROVE  SchedulerInv'
  BY <1>3, SchedulerAssumption DEF SetStatus, SchedulerAssumption, worker, TypeOK, AnnounceInv, AnnouncedIsStored, LifeInv, Absent
<1>4. CASE Tick
  BY <1>4, SchedulerAssumption
     DEF Tick, worker, db, TypeOK, AnnounceInv, AnnouncedIsStored, LifeInv, Absent, SchedulerAssumption
<1>5. ASSUME NEW c \in Clients, Connect(c) \/ Disconnect(c) PROVE SchedulerInv'
  BY <1>5 DEF Connect, Disconnect, worker, db, TypeOK, AnnounceInv, AnnouncedIsStored,
              LifeInv, Absent
<1>6. ASSUME NEW p \in Proposals, Served(p) PROVE SchedulerInv'
  BY <1>6 DEF Served, worker, db, TypeOK, AnnounceInv, AnnouncedIsStored, LifeInv, Absent
<1> QED  BY <1>1, <1>2, <1>3, <1>4, <1>5, <1>6

\* A step that changes nothing.
LEMMA StutterKeeps ==
    ASSUME SchedulerInv, UNCHANGED vars
    PROVE  SchedulerInv'
BY DEF vars, db, outbox, worker, life, SchedulerInv, TypeOK, AnnounceInv, AnnouncedIsStored, LifeInv, Absent

\* Every step keeps the invariant.
LEMMA InvariantKept == SchedulerInv /\ [Next]_vars => SchedulerInv'
<1> SUFFICES ASSUME SchedulerInv, [Next]_vars PROVE SchedulerInv'
  OBVIOUS
<1>1. ASSUME NEW w \in Workers, Work(w) \/ DatabaseError(w) PROVE SchedulerInv'
  BY <1>1, WorkKeeps, DatabaseErrorKeeps
<1>2. CASE \/ Tick
           \/ \E w \in Workers : Wake(w)
           \/ \E m \in Manual : Trigger(m)
           \/ \E c \in Clients : Connect(c) \/ Disconnect(c)
           \/ \E p \in Proposals : Served(p) \/ \E s \in Patches : SetStatus(p, s)
  BY <1>2, WorldKeeps
<1>3. CASE Start \/ Terminate \/ Stop \/ EndLoop \/ Dispose \/ Exit \/ Crash
  BY <1>3, LifecycleKeeps
<1>4. CASE UNCHANGED vars
  BY <1>4, StutterKeeps
<1> QED  BY <1>1, <1>2, <1>3, <1>4 DEF Next

\* No result is announced that is not stored, whichever commit fails or is cancelled.
THEOREM AnnouncedIsStoredHolds == Spec => [](TypeOK /\ AnnouncedIsStored)
<1>1. SchedulerInv => TypeOK /\ AnnouncedIsStored
  BY DEF SchedulerInv, AnnounceInv
<1> QED  BY <1>1, InitEstablishes, InvariantKept, PTL DEF Spec

\* Results are announced on a live bus, also while the server drains.
THEOREM PublishersHaveABusHolds == Spec => []PublishersHaveABus
<1>1. SchedulerInv => PublishersHaveABus
  BY PassNeedsProcess DEF SchedulerInv, LifeInv, PublishersHaveABus
<1> QED  BY <1>1, InitEstablishes, InvariantKept, PTL DEF Spec

-----------------------------------------------------------------------------
(* The events that a shutdown loses.  A step that stores no result, withdraws no event  *)
(* and keeps every worker that is about to publish adds nothing to Untold; a commit     *)
(* makes its worker one of those, and stop() takes at most one of them away.            *)

\* The invariant of StopLosesOneEvent, where no fault has happened.
LossInv == SchedulerInv /\ StopLosesOneEvent

\* Who publishes next, as a predicate of the proposal.
LEMMA DueMeans ==
    \A p : p \in Due <=> \E w \in Workers : pc[w] = "Announce" /\ current[w] = p
BY DEF Due

\* The results without an event are proposals, finitely many.
LEMMA UntoldIsFinite ==
    ASSUME SchedulerInv, IsFiniteSet(Proposals)
    PROVE  IsFiniteSet(Untold) /\ Cardinality(Untold) \in Nat
<1>1. Untold \subseteq Proposals
  BY DEF SchedulerInv, TypeOK, Untold
<1>2. IsFiniteSet(Untold)
  BY <1>1, FS_Subset
<1> QED  BY <1>2, FS_CardinalityType

\* Steps that store nothing and leave those who publish next alone.
LEMMA NothingLost ==
    ASSUME computed' = computed, announced \subseteq announced',
           \A w \in Workers :
              pc[w] = "Announce" => pc'[w] = "Announce" /\ current'[w] = current[w]
    PROVE  Untold' \subseteq Untold
<1>1. \A p : p \in Due => p \in Due'
  BY DueMeans DEF Due
<1> QED  BY <1>1 DEF Untold

\* No step of a pass loses an event: the bus is there for those it announces.
LEMMA WorkLosesNothing ==
    ASSUME SchedulerInv, NEW w \in Workers, Work(w)
    PROVE  Untold' \subseteq Untold
<1> pc \in [Workers -> Closing \cup {"none", "Scan", "Turn", "Sleep", "Cancel"}]
  BY DEF SchedulerInv, TypeOK
<1> current \in [Workers -> Proposals \cup {Nobody}]
  BY DEF SchedulerInv, TypeOK
<1>1. CASE Scan(w)
  BY <1>1, NothingLost DEF Scan, Goto, db, outbox
<1>2. CASE Turn(w)
  BY <1>2, NothingLost DEF Turn, Goto, db, outbox
<1>3. CASE Load(w)
  BY <1>3, NothingLost DEF Load, Goto, db, outbox
<1>4. CASE Commit(w)
  <2>1. /\ pc' = [pc EXCEPT ![w] = "Announce"] /\ current' = current
        /\ computed' = computed \cup {current[w]} /\ announced' = announced
    BY <1>4 DEF Commit, Store, Goto, outbox
  <2>2. current[w] \in Due'
    BY <2>1 DEF Due
  <2>3. \A p : p \in Due => p \in Due'
    BY <1>4, <2>1 DEF Commit, Due
  <2> QED  BY <2>1, <2>2, <2>3 DEF Untold
<1>5. CASE Announce(w)
  <2>1. bus
    BY <1>5, PassNeedsProcess DEF Announce, SchedulerInv, LifeInv
  <2>2. /\ pc' = [pc EXCEPT ![w] = "Turn"] /\ current' = current
        /\ computed' = computed /\ announced' = announced \cup {current[w]}
    BY <1>5, <2>1 DEF Announce, Goto, db
  <2>3. \A p : p \in Due => p \in Due' \/ p = current[w]
    BY <2>2 DEF Due
  <2> QED  BY <2>2, <2>3 DEF Untold
<1> QED  BY <1>1, <1>2, <1>3, <1>4, <1>5 DEF Work

\* stop() loses at most the event of what the loop was closing.
LEMMA StopLosesOne ==
    ASSUME SchedulerInv, Stop
    PROVE  Untold' \subseteq Untold \cup {current["loop"]}
<1> "loop" \in Workers
  BY DEF Workers
<1>1. /\ pc' = [pc EXCEPT !["loop"] = Cancelled(pc["loop"])]
      /\ current' = current /\ announced' = announced
      /\ computed' \subseteq computed \cup {current["loop"]}
  BY DEF Stop, Goto, db, Store, outbox
<1>2. \A p : p \in Due => p \in Due' \/ p = current["loop"]
  BY <1>1 DEF Due, SchedulerInv, TypeOK
<1> QED  BY <1>1, <1>2 DEF Untold

\* Without a fault, every other step loses nothing and takes back no stop().
LEMMA OthersLoseNothing ==
    ASSUME SchedulerInv, [Next]_vars, ~Stop, faults' = 0
    PROVE  Untold' \subseteq Untold /\ Stops' >= Stops
<1> "loop" \in Workers
  BY DEF Workers
<1>t. /\ pc \in [Workers -> Closing \cup {"none", "Scan", "Turn", "Sleep", "Cancel"}]
      /\ current \in [Workers -> Proposals \cup {Nobody}]
      /\ starts \in Nat /\ faults \in Nat
  BY SchedulerAssumption DEF SchedulerInv, TypeOK, SchedulerAssumption
<1>1. ASSUME NEW w \in Workers, Work(w) PROVE Untold' \subseteq Untold /\ Stops' >= Stops
  <2>1. UNCHANGED life
    BY <1>1 DEF Work, Scan, Turn, Load, Commit, Announce
  <2> QED  BY <1>1, <1>t, <2>1, WorkLosesNothing DEF life, Stops
<1>2. ASSUME NEW w \in Workers, Wake(w) PROVE Untold' \subseteq Untold /\ Stops' >= Stops
  BY <1>2, <1>t, NothingLost DEF Wake, Goto, db, outbox, life, Stops
<1>3. ASSUME NEW w \in Workers, DatabaseError(w) PROVE FALSE
  BY <1>3, <1>t DEF DatabaseError
<1>4. ASSUME NEW m \in Manual, Trigger(m) PROVE Untold' \subseteq Untold /\ Stops' >= Stops
  <2> m \in Workers
    BY DEF Workers
  <2> QED  BY <1>4, <1>t, NothingLost DEF Trigger, Absent, Goto, db, outbox, life, Stops
<1>5. CASE EndLoop
  BY <1>5, <1>t, NothingLost DEF EndLoop, Goto, db, outbox, life, Stops
<1>6. CASE Start
  <2>1. pc["loop"] # "Announce"
    BY <1>6 DEF Start, SchedulerInv, LifeInv, Absent
  <2> QED  BY <1>6, <1>t, <2>1, NothingLost DEF Start, Goto, db, outbox, Stops
<1>7. CASE Terminate \/ Dispose \/ Exit \/ Tick
  BY <1>7, <1>t, NothingLost
     DEF Terminate, Dispose, Exit, Tick, db, outbox, worker, life, Stops
<1>8. CASE Crash
  BY <1>8, <1>t DEF Crash
<1>9. ASSUME NEW c \in Clients, Connect(c) \/ Disconnect(c)
      PROVE  Untold' \subseteq Untold /\ Stops' >= Stops
  BY <1>9, <1>t, NothingLost DEF Connect, Disconnect, db, outbox, worker, Stops
<1>10. ASSUME NEW p \in Proposals, Served(p) \/ \E s \in Patches : SetStatus(p, s)
       PROVE  Untold' \subseteq Untold /\ Stops' >= Stops
  BY <1>10, <1>t, NothingLost DEF Served, SetStatus, db, outbox, worker, life, Stops
<1>11. CASE UNCHANGED vars
  BY <1>11, <1>t, NothingLost DEF vars, db, outbox, worker, life, Stops
<1> QED  BY <1>1, <1>2, <1>3, <1>4, <1>5, <1>6, <1>7, <1>8, <1>9, <1>10, <1>11 DEF Next

\* Faults are counted, never forgotten.
LEMMA FaultsOnlyGrow ==
    ASSUME SchedulerInv, [Next]_vars, faults' = 0
    PROVE  faults = 0
<1> faults \in Nat
  BY SchedulerAssumption DEF SchedulerInv, TypeOK, SchedulerAssumption
<1>1. ASSUME NEW w \in Workers, Work(w) \/ Wake(w) \/ DatabaseError(w) PROVE faults = 0
  BY <1>1 DEF Work, Scan, Turn, Load, Commit, Announce, Wake, DatabaseError
<1>2. CASE Next /\ ~\E w \in Workers : Work(w) \/ Wake(w) \/ DatabaseError(w)
  BY <1>2 DEF Next, EndLoop, Trigger, Connect, Disconnect, Start, Terminate, Stop, Dispose,
              Exit, Crash, Served, SetStatus, Tick
<1>3. CASE UNCHANGED vars
  BY <1>3 DEF vars
<1> QED  BY <1>1, <1>2, <1>3

\* Every step keeps the count.
LEMMA LossKept ==
    ASSUME IsFiniteSet(Proposals), LossInv, [Next]_vars
    PROVE  LossInv'
<1> USE DEF LossInv
<1>1. SchedulerInv'
  BY InvariantKept
<1> SUFFICES ASSUME faults' = 0 PROVE Cardinality(Untold') <= Stops'
  BY <1>1 DEF StopLosesOneEvent
<1>2. IsFiniteSet(Untold) /\ Cardinality(Untold) \in Nat
  BY UntoldIsFinite
<1>3. IsFiniteSet(Untold') /\ Cardinality(Untold') \in Nat
  <2>1. Untold' \subseteq Proposals
    BY <1>1 DEF SchedulerInv, TypeOK, Untold
  <2>2. IsFiniteSet(Untold')
    BY <2>1, FS_Subset
  <2> QED  BY <2>2, FS_CardinalityType
<1>4. faults = 0 /\ Stops \in Int /\ Stops' \in Int
  BY <1>1, FaultsOnlyGrow, SchedulerAssumption
     DEF SchedulerInv, TypeOK, Stops, SchedulerAssumption
<1>5. Cardinality(Untold) <= Stops
  BY <1>4 DEF StopLosesOneEvent
<1>6. CASE Stop
  <2>1. /\ IsFiniteSet(Untold \cup {current["loop"]})
        /\ Cardinality(Untold \cup {current["loop"]}) <= Cardinality(Untold) + 1
    BY <1>2, FS_AddElement
  <2>2. Cardinality(Untold') <= Cardinality(Untold \cup {current["loop"]})
    BY <1>6, <2>1, StopLosesOne, FS_Subset
  <2>3. Stops' = Stops + 1
    BY <1>6, SchedulerAssumption
       DEF Stop, Stops, SchedulerInv, TypeOK, SchedulerAssumption
  <2>4. Cardinality(Untold \cup {current["loop"]}) \in Nat
    BY <2>1, FS_CardinalityType
  <2> QED  BY <1>2, <1>3, <1>4, <1>5, <2>1, <2>2, <2>3, <2>4
<1>7. CASE ~Stop
  <2>1. Untold' \subseteq Untold /\ Stops' >= Stops
    BY <1>7, OthersLoseNothing
  <2>2. Cardinality(Untold') <= Cardinality(Untold)
    BY <1>2, <2>1, FS_Subset
  <2> QED  BY <1>2, <1>3, <1>4, <1>5, <2>1, <2>2
<1> QED  BY <1>6, <1>7

\* Without database errors and crashes, at most one stored result per shutdown has no
\* event: whatever the loop and the manual passes were doing when the signal came.
THEOREM StopLosesOneEventHolds ==
    ASSUME IsFiniteSet(Proposals)
    PROVE  Spec => []StopLosesOneEvent
<1>1. Init => LossInv
  <2> SUFFICES ASSUME Init PROVE LossInv
    OBVIOUS
  <2>1. Untold = {} /\ Stops = 0
    BY DEF Init, Untold, Stops
  <2> QED  BY <2>1, InitEstablishes, FS_EmptySet DEF LossInv, StopLosesOneEvent
<1>2. LossInv /\ [Next]_vars => LossInv'
  BY LossKept
<1>3. LossInv => StopLosesOneEvent
  BY DEF LossInv
<1> QED  BY <1>1, <1>2, <1>3, PTL DEF Spec

=============================================================================
