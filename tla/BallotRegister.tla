--------------------------- MODULE BallotRegister ---------------------------
(***************************************************************************)
(* What the governance API promises about ballots: each is recorded in one *)
(* step, at most one per voter and proposal, and once recorded it stays as *)
(* it is, whatever becomes of the proposal.  Unless LateBallots, it is     *)
(* recorded while the proposal is open.                                    *)
(***************************************************************************)
CONSTANTS Proposals, Statuses, LateBallots

VARIABLES
    status,     \* of each proposal
    ballots     \* the ballots recorded so far

\* A ballot is recorded if the voter has none on the proposal.
Record(b) ==
    /\ \A other \in ballots : other.proposal = b.proposal => other.voter # b.voter
    /\ status[b.proposal] = "open" \/ LateBallots
    /\ ballots' = ballots \cup {b}
    /\ UNCHANGED status

Create(p) ==
    /\ status[p] = "absent"
    /\ status' = [status EXCEPT ![p] = "open"]
    /\ UNCHANGED ballots

\* A proposal is closed, cancelled or reopened; it is never absent again.
SetStatus(p) ==
    /\ status[p] # "absent"
    /\ \E s \in Statuses : status' = [status EXCEPT ![p] = s]
    /\ UNCHANGED ballots

Init == ballots = {} /\ status \in [Proposals -> {"absent", "open"}]

Next ==
    \/ \E b \in ballots' \ ballots : Record(b)
    \/ \E p \in Proposals : Create(p) \/ SetStatus(p)

Spec == Init /\ [][Next]_<<status, ballots>>

=============================================================================
