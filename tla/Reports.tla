------------------------------ MODULE Reports ------------------------------
(***************************************************************************)
(* The reports of the admin API beside the transactions of Governance.     *)
(*                                                                         *)
(* A report adds up the answers of several SELECTs, each in a snapshot of  *)
(* its own.  The model keeps one answer a report has got; what it reads    *)
(* next is the answer of the present instant, whichever instant that is.   *)
(* An invariant about the kept answer and the present ones is therefore    *)
(* about every pair of answers in one report.                              *)
(***************************************************************************)
EXTENDS Governance

CONSTANT Queries    \* the SELECTs whose answers a run keeps

VARIABLES
    asked,          \* the SELECT that was answered, or "nothing"
    answer

\* The counts of system_stats; the tables that no request here writes are left out.
StatsAnswer(q) ==
    CASE q = "open"              -> Cardinality({p \in Proposals : proposals[p].status = "open"})
      [] q = "closed"            -> Cardinality({p \in Proposals : proposals[p].status = "closed"})
      [] q = "passed"            -> Cardinality({p \in Proposals : proposals[p].passed = Some(TRUE)})
      [] q = "total_weight_cast" -> MapThenSumSet(LAMBDA v : v.weight, votes)
      [] q = "votes_cast"        -> Cardinality(votes)
      [] q = "audit_log_entries" -> Cardinality(audit)

\* Faulty variant: the votes are kept under their choice, not under their voter.
OnePerChoice(p) ==
    MapThenSumSet(LAMBDA c : Max({0} \cup {v.weight : v \in {w \in VotesOn(p) : w.choice = c}}),
                  VoteChoice)

\* total_voted_weight of participation_report: the rows of delegations have no choice.
VotedWeight(p) ==
    MapThenSumSet(LAMBDA c : CastWeight(VotesOn(p), c), VoteChoice)

\* system_stats has got the answer to q.
AskStats(q) ==
    /\ asked' = q
    /\ answer' = StatsAnswer(q)

\* participation_report has loaded its proposal.
AskRow(p) ==
    /\ proposals[p].status # "absent"
    /\ asked' = "row"
    /\ answer' = [proposal |-> p, row |-> proposals[p]]

\* One report per behaviour; it only reads.
Read ==
    /\ asked = "nothing"
    /\ \/ \E q \in Queries \ {"row"} : AskStats(q)
       \/ "row" \in Queries /\ \E p \in Proposals : AskRow(p)
    /\ UNCHANGED vars

ReportInit == Init /\ asked = "nothing" /\ answer = 0

ReportNext == Read \/ (Next /\ UNCHANGED <<asked, answer>>)

ReportSpec == ReportInit /\ [][ReportNext]_<<vars, asked, answer>>

-----------------------------------------------------------------------------
(* Properties.                                                             *)

\* In one response of /admin/stats there is an audit entry for every vote: the votes are
\* counted first, and both only grow.
StatsWithinAudit ==
    asked = "votes_cast" => answer <= StatsAnswer("audit_log_entries")

\* A participation report that found its proposal closed shows at least the weight the
\* result counted, votes that were accepted late included.  Nobody may have delegated:
\* two boosts of one vote can leave less than one of them wrote.
ReportCoversResult ==
    /\ asked = "row" /\ answer.row.status = "closed" /\ answer.row.total # NULL
    /\ \A v \in VotesOn(answer.proposal) : v.choice # NoChoice
    => VotedWeight(answer.proposal) >= answer.row.total[1]

=============================================================================
