----------------------------- MODULE EventFeed -----------------------------
(***************************************************************************)
(* What the event bus promises a stream: it never sees an event that was   *)
(* not published, never twice, and never out of the order of publication.  *)
(* It may miss events.  An event is its position in the order of           *)
(* publication.                                                            *)
(***************************************************************************)
EXTENDS Naturals, Sequences

CONSTANT Streams

VARIABLES
    log,    \* how many events have been published
    feed    \* the events each stream has been sent since it was opened

Newest(s) == IF feed[s] = <<>> THEN 0 ELSE feed[s][Len(feed[s])]

Announce == log' = log + 1 /\ UNCHANGED feed

Open(s) == feed' = [feed EXCEPT ![s] = <<>>] /\ UNCHANGED log

Deliver(s) ==
    \E i \in 1 .. log :
        /\ i > Newest(s)
        /\ feed' = [feed EXCEPT ![s] = Append(@, i)]
        /\ UNCHANGED log

Init == log = 0 /\ feed = [s \in Streams |-> <<>>]

Next == Announce \/ \E s \in Streams : Open(s) \/ Deliver(s)

Spec == Init /\ [][Next]_<<log, feed>>

=============================================================================
