------------------------------ MODULE Webhooks ------------------------------
(***************************************************************************)
(* The webhook dispatcher: one background task per published event, which  *)
(* serves the matching endpoints one after the other, each with retries,   *)
(* while endpoints are registered and deactivated and other tasks serve    *)
(* the same endpoints.                                                     *)
(* A local variable is reset when the task is done with it.                *)
(***************************************************************************)
EXTENDS Integers, FiniteSets

CONSTANTS
    Events,        \* the events of a run, published or test pings; one task each
    Pings,         \* those that POST /webhooks/test makes
    Endpoints,
    Registered,    \* the endpoints that exist when the run starts
    Matching,      \* <<event, endpoint>> pairs that _matches_filter accepts
    MaxRetries,    \* settings.WEBHOOK_MAX_RETRIES
    MaxFaults      \* bound on tasks that die

ASSUME WebhookAssumption ==
    /\ Registered \subseteq Endpoints /\ Pings \subseteq Events
    /\ Matching \subseteq Events \X Endpoints
    /\ MaxRetries \in Nat \ {0} /\ MaxFaults \in Nat

VARIABLES
    active,        \* endpoints with is_active
    retired,       \* endpoints that have been deactivated
    failures,      \* their delivery_failures column
    deliveries,    \* the webhook_deliveries table
    received,      \* the POSTs that reached an endpoint, and whether it was active then
    pc,            \* where each task is
    todo,          \* the endpoints of its scan that it has not served
    current,       \* the endpoint it serves
    attempt,
    loaded,        \* delivery_failures of the row its session loaded
    success,       \* the outcome of its last POST
    faults

tables == <<active, retired, failures, deliveries>>
task == <<todo, current, attempt, loaded, success>>
vars == <<tables, received, pc, task, faults>>

\* The endpoint of a task that serves none.
Nowhere == "nowhere"

Goto(ev, label) == pc' = [pc EXCEPT ![ev] = label]

\* A task that has updated the row of endpoint e and not committed.
HoldsRow(ev, e) == pc[ev] = "Commit" /\ current[ev] = e

Unlocked(e) == \A ev \in Events : ~HoldsRow(ev, e)

-----------------------------------------------------------------------------
(* dispatch_event_to_webhooks.                                             *)

\* webhook_hook: publish creates the task and does not wait for it.
Dispatch(ev) ==
    /\ pc[ev] = "idle" /\ ev \notin Pings
    /\ Goto(ev, "Scan")
    /\ UNCHANGED <<tables, received, task, faults>>

\* send_test_event for endpoint e: the ping goes to every endpoint whose filter takes
\* it, which e need not be.
SendTest(ev, e) ==
    /\ pc[ev] = "idle" /\ ev \in Pings /\ e \in active
    /\ Goto(ev, "Scan")
    /\ UNCHANGED <<tables, received, task, faults>>

\* The active endpoints whose filter matches.
Scan(ev) ==
    /\ pc[ev] = "Scan"
    /\ todo' = [todo EXCEPT ![ev] = {e \in active : <<ev, e>> \in Matching}]
    /\ Goto(ev, "Pick")
    /\ UNCHANGED <<tables, received, current, attempt, loaded, success, faults>>

\* The next endpoint, in the order the database returned them.
Pick(ev) ==
    /\ pc[ev] = "Pick"
    /\ \/ /\ todo[ev] = {} /\ Goto(ev, "done")
          /\ current' = [current EXCEPT ![ev] = Nowhere]
          /\ attempt' = [attempt EXCEPT ![ev] = 0]
          /\ UNCHANGED todo
       \/ \E e \in todo[ev] :
            /\ todo' = [todo EXCEPT ![ev] = @ \ {e}]
            /\ current' = [current EXCEPT ![ev] = e]
            /\ attempt' = [attempt EXCEPT ![ev] = 1]
            /\ Goto(ev, "Load")
    /\ UNCHANGED <<tables, received, loaded, success, faults>>

\* Faulty variant: the row of the scan is good enough.
AlwaysWanted(e) == TRUE

\* Every attempt looks whether the endpoint is still wanted.
Wanted(e) == e \in active

\* Faulty variant: an endpoint that is gone ends the whole task.
ReturnFromTask == "done"

\* `break`: on to the next endpoint.
BreakRetries == "Pick"

Load(ev) ==
    /\ pc[ev] = "Load"
    /\ \/ ~Wanted(current[ev]) /\ Goto(ev, BreakRetries) /\ UNCHANGED loaded
       \/ /\ Wanted(current[ev])
          /\ loaded' = [loaded EXCEPT ![ev] = failures[current[ev]]]
          /\ Goto(ev, "Post")
    /\ UNCHANGED <<tables, received, todo, current, attempt, success, faults>>

\* The POST: answered with 2xx; or it arrived and failed, or its answer was lost; or
\* it never arrived.
Post(ev) ==
    LET arrival == [event |-> ev, endpoint |-> current[ev], attempt |-> attempt[ev],
                    active |-> current[ev] \in active]
    IN
    /\ pc[ev] = "Post"
    /\ \/ received' = received \cup {arrival} /\ success' = [success EXCEPT ![ev] = TRUE]
       \/ received' = received \cup {arrival} /\ success' = [success EXCEPT ![ev] = FALSE]
       \/ UNCHANGED received /\ success' = [success EXCEPT ![ev] = FALSE]
    /\ Goto(ev, "Flush")
    /\ UNCHANGED <<tables, todo, current, attempt, loaded, faults>>

\* The UPDATE of the endpoint waits for its row lock.
Flush(ev) ==
    /\ pc[ev] = "Flush"
    /\ Unlocked(current[ev])
    /\ Goto(ev, "Commit")
    /\ UNCHANGED <<tables, received, task, faults>>

\* Faulty variant: the counter of attempts is added, not one failure.
CountedByAttempt(ev) ==
    IF success[ev] THEN 0 ELSE loaded[ev] + attempt[ev]

\* The counter after the UPDATE: it was computed from the row loaded before the POST,
\* and an unchanged value is not written.
CountAfter(ev) ==
    IF ~success[ev] THEN loaded[ev] + 1
    ELSE IF loaded[ev] = 0 THEN failures[current[ev]] ELSE 0

\* Faulty variant: the UPDATE writes the whole row as it was loaded.
WholeRow(ev) == active \cup {current[ev]}

\* The UPDATE does not name is_active.
ActiveAfter(ev) == active

\* Faulty variant: a success does not end the retries.
RetryAlways(ev) == attempt[ev] < MaxRetries

RetryNeeded(ev) == ~success[ev] /\ attempt[ev] < MaxRetries

\* Faulty variant: only failures are worth a record.
OnlyFailures(ev) ==
    IF success[ev] THEN {}
    ELSE {[event |-> ev, endpoint |-> current[ev], attempt |-> attempt[ev],
           success |-> FALSE]}

\* The WebhookDelivery row.
RecordOf(ev) ==
    {[event |-> ev, endpoint |-> current[ev], attempt |-> attempt[ev],
      success |-> success[ev]]}

Commit(ev) ==
    /\ pc[ev] = "Commit"
    /\ failures' = [failures EXCEPT ![current[ev]] = CountAfter(ev)]
    /\ active' = ActiveAfter(ev)
    /\ deliveries' = deliveries \cup RecordOf(ev)
    /\ Goto(ev, IF RetryNeeded(ev) THEN "Sleep" ELSE "Pick")
    /\ loaded' = [loaded EXCEPT ![ev] = 0]
    /\ success' = [success EXCEPT ![ev] = FALSE]
    /\ UNCHANGED <<retired, received, todo, current, attempt, faults>>

\* asyncio.sleep(backoff) is over.
Wake(ev) ==
    /\ pc[ev] = "Sleep"
    /\ attempt' = [attempt EXCEPT ![ev] = @ + 1]
    /\ Goto(ev, "Load")
    /\ UNCHANGED <<tables, received, todo, current, loaded, success, faults>>

\* A task ends before its time: by a database error, the timeout of the connection pool
\* included, which nothing catches, or because the event loop closes and cancels it, be it
\* in a POST or in a sleep.  Cut off after a POST has arrived, or after a commit has
\* happened, it dies at the label that follows.
Die(ev) ==
    /\ faults < MaxFaults /\ pc[ev] \notin {"idle", "done", "dead"}
    /\ faults' = faults + 1
    /\ Goto(ev, "dead")
    /\ todo' = [todo EXCEPT ![ev] = {}]
    /\ current' = [current EXCEPT ![ev] = Nowhere]
    /\ attempt' = [attempt EXCEPT ![ev] = 0]
    /\ loaded' = [loaded EXCEPT ![ev] = 0]
    /\ success' = [success EXCEPT ![ev] = FALSE]
    /\ UNCHANGED <<tables, received>>

-----------------------------------------------------------------------------
(* The webhooks API.                                                       *)

Register(e) ==
    /\ e \notin active \cup retired
    /\ active' = active \cup {e}
    /\ UNCHANGED <<retired, failures, deliveries, received, pc, task, faults>>

\* deactivate_webhook; there is no way back.
Deactivate(e) ==
    /\ e \in active /\ Unlocked(e)
    /\ active' = active \ {e}
    /\ retired' = retired \cup {e}
    /\ UNCHANGED <<failures, deliveries, received, pc, task, faults>>

Init ==
    /\ active = Registered /\ retired = {} /\ deliveries = {} /\ received = {}
    /\ failures = [e \in Endpoints |-> 0]
    /\ pc = [ev \in Events |-> "idle"]
    /\ todo = [ev \in Events |-> {}]
    /\ current = [ev \in Events |-> Nowhere]
    /\ attempt = [ev \in Events |-> 0]
    /\ loaded = [ev \in Events |-> 0]
    /\ success = [ev \in Events |-> FALSE]
    /\ faults = 0

\* The next step of the task of event ev.
Step(ev) ==
    \/ Scan(ev) \/ Pick(ev) \/ Load(ev) \/ Post(ev) \/ Flush(ev) \/ Commit(ev)
    \/ Wake(ev)

Next ==
    \/ \E ev \in Events : Dispatch(ev) \/ Step(ev) \/ Die(ev)
    \/ \E e \in Endpoints : Register(e) \/ Deactivate(e)
    \/ \E ev \in Events, e \in Endpoints : SendTest(ev, e)

Spec == Init /\ [][Next]_vars

\* A POST ends by its timeout, a sleep by its timer, a wait for a row lock by the
\* commit of its holder.
FairSpec == Spec /\ \A ev \in Events : WF_vars(Step(ev))

-----------------------------------------------------------------------------
(* Properties.                                                             *)

Attempts(ev, e) == {d \in deliveries : d.event = ev /\ d.endpoint = e}

\* Types.
TypeOK ==
    /\ active \subseteq Endpoints /\ retired \subseteq Endpoints
    /\ failures \in [Endpoints -> Nat]
    /\ deliveries \subseteq [event : Events, endpoint : Endpoints,
                             attempt : 1 .. MaxRetries, success : BOOLEAN]

\* The delivery log of an event at an endpoint reads 1, 2, ... without gap or repeat,
\* and ends with its first success.
LogWellFormed ==
    \A ev \in Events, e \in Endpoints :
        LET log == Attempts(ev, e) IN
        /\ {d.attempt : d \in log} = 1 .. Cardinality(log)
        /\ \A d \in log : d.success => d.attempt = Cardinality(log)

\* "Immutable delivery log for every webhook dispatch attempt": what reached an
\* endpoint is in the log, unless its task is about to write it or died before it did.
ReceivedIsLogged ==
    \A a \in received :
        \/ \E d \in Attempts(a.event, a.endpoint) : d.attempt = a.attempt
        \/ pc[a.event] \in {"Flush", "Commit", "dead"}

\* A delivery that was under way when its endpoint was deactivated does not bring the
\* endpoint back when it saves its counters.
DeactivationSticks == active \cap retired = {}

\* After its deactivation an endpoint gets at most the POST that was under way.
RetriesStop ==
    \A a, b \in received :
        ~a.active /\ ~b.active /\ a.event = b.event /\ a.endpoint = b.endpoint => a = b

\* delivery_failures, written from a row that may be stale, never claims more failures
\* than the log shows.
FailuresAreLogged ==
    \A e \in Endpoints :
        failures[e] <= Cardinality({d \in deliveries : d.endpoint = e /\ ~d.success})

\* Every endpoint of the scan is served: delivered, tried out, or deactivated.
Settled(ev, e) ==
    \/ \E d \in Attempts(ev, e) : d.success \/ d.attempt = MaxRetries
    \/ e \notin active \/ pc[ev] = "dead"

EveryEndpointServed ==
    \A m \in Matching : (m[2] \in todo[m[1]]) ~> Settled(m[1], m[2])

=============================================================================
