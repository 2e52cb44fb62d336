----------------------------- MODULE MCScheduler -----------------------------
(* Instances of Scheduler for TLC.                                          *)
EXTENDS Scheduler

CONSTANTS p1, p2

\* One proposal is overdue from the start, closes_at being 0; one becomes so.
MCClosesAt == [p \in Proposals |-> IF p = p1 THEN 0 ELSE 1]
=============================================================================
