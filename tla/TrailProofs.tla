----------------------------- MODULE TrailProofs -----------------------------
(***************************************************************************)
(* Theorems about what the transactions of the governance core leave       *)
(* behind them.  Acknowledgements, events, audit records and reports;      *)
(* what holds if requests are served one after the other; and, with sums   *)
(* over finite sets, what votes weigh: no stake counts twice, none that    *)
(* was delegated is lost, and reports cover results.                       *)
(***************************************************************************)
EXTENDS GovernanceProofs, Reports, WellFoundedInduction

-----------------------------------------------------------------------------
(* The steps of a handler, by what they leave behind.                      *)

\* The transaction of r is over and was not rolled back, or r has been refused.
Ended(r) == pc[r] \in {"Announce", "done"}

\* From the assignments to the commit.
Written(r) == pc[r] \in {"Flush", "Publish", "Commit"}

\* The handler finds its proposal and goes on.
Loads(r) ==
    LET row == proposals[Proposal(r)] IN
    /\ pc[r] = "ReadProposal" /\ body[r].op # "create"
    /\ row.status # "absent" /\ Admits(body[r], row)
    /\ seen' = [seen EXCEPT ![r] = row]
    /\ draft' = [draft EXCEPT ![r] =
            IF body[r].op = "status" THEN [row EXCEPT !.status = body[r].status] ELSE row]
    /\ pc' = [pc EXCEPT ![r] = IF body[r].op \in BallotOps THEN "ReadVoter"
                               ELSE IF body[r].op \in Closers THEN "ReadBallots"
                               ELSE "Flush"]
    /\ UNCHANGED <<tables, events, reply, target, ballots>>

\* The handler reads, waits, or flushes a vote.
Reads(r) ==
    /\ pc[r] \notin {"idle", "ReadProposal", "SumEligible", "Flush", "Publish", "Commit",
                     "Announce", "done"}
    /\ \E l \in Labels :
        /\ l \notin {"idle", "ReadProposal", "Flush", "Commit", "Announce", "done"}
        /\ l = "Publish" => body[r].op \in BallotOps
        /\ l = "SumEligible" => ReadBallots(r)
        /\ l # "Insert" => pc[r] # "CheckId"
        /\ l = "Insert" => body[r].op \in BallotOps \cup {"create"}
        /\ pc' = [pc EXCEPT ![r] = l]
    /\ target' = target \/ ReadTargetVote(r)
    /\ ballots' = ballots \/ ReadBallots(r)
    /\ UNCHANGED <<tables, events, reply, seen, draft>>

\* The new proposal is flushed.
Creates(r) ==
    /\ pc[r] = "Insert" /\ body[r].op = "create"
    /\ proposals[Proposal(r)].status = "absent"
    /\ \A q \in Others(r) : ~HoldsProposalKey(q, Proposal(r))
    /\ pc' = [pc EXCEPT ![r] = "Publish"]
    /\ UNCHANGED <<tables, events, reply, session>>

\* The request ends without a commit.
GivesUp(r) ==
    /\ ~Ended(r) /\ (faults' = 0 => ~Uncommitted(r))
    /\ pc' = [pc EXCEPT ![r] = "done"]
    /\ \E c \in Codes \ {"200"} : reply' = [reply EXCEPT ![r] = c]
    /\ UNCHANGED <<tables, events, session>>

\* The scheduler dies between its commit and its announcement.
Silenced(r) ==
    /\ pc[r] = "Announce" /\ faults' # 0
    /\ pc' = [pc EXCEPT ![r] = "done"]
    /\ UNCHANGED <<tables, events, reply, session>>

\* The transaction commits; without faults the client learns it.
Commits(r) ==
    /\ Store(r)
    /\ \E l \in {"Announce", "done"}, c \in Codes :
        /\ pc' = [pc EXCEPT ![r] = l] /\ reply' = [reply EXCEPT ![r] = c]
        /\ l = "Announce" => body[r].op = "sched" /\ c = "200"
        /\ faults' = 0 => c = "200" /\ (body[r].op = "sched" => l = "Announce")
    /\ UNCHANGED <<events, session>>

\* Every step of a handler is of one of these kinds.
LEMMA StepKinds ==
    ASSUME TypeInv, NEW r \in Requests, Step(r) \/ Fail(r) \/ LoseCommitReply(r)
    PROVE  /\ body' = body /\ pc[r] # "idle" /\ body[r] \in Bodies
           /\ faults' = 0 => faults = 0
           /\ \/ Loads(r) \/ Reads(r) \/ SumEligible(r) \/ Flush(r) \/ Creates(r)
              \/ GivesUp(r) \/ Silenced(r) \/ Publish(r) \/ Commits(r)
<1>1. r \in InFlight /\ body' = body
  BY HandlerSteps
<1>2. pc[r] # "idle" /\ StageAt(body[r], pc[r]) /\ body[r] \in Bodies
  BY <1>1 DEF InFlight, TypeInv, Stage, StageAt
<1>3. body[r].op \in BallotOps \cup Closers \cup {"status", "create"}
  BY <1>2, BodyTypes
<1>4. faults \in Nat
  <2>1. faults \in 0 .. MaxFaults
    BY DEF TypeInv, TypeOK
  <2> QED  BY <2>1
<1>5. ASSUME Step(r) PROVE faults' = faults
  BY <1>5 DEF Step, ReadProposal, ReadVoter, CheckDuplicate, ReadStake, ReadTarget,
              ReadTargetVote, Boost, SumDelegated, InsertVote, CheckId, InsertProposal,
              ReadBallots, SumEligible, Flush, Publish, Commit, world
<1>6. ASSUME Fail(r) \/ LoseCommitReply(r) PROVE faults' = faults + 1
  BY <1>6 DEF Fail, LoseCommitReply
<1>7. /\ faults' = 0 => faults = 0
      /\ Fail(r) \/ LoseCommitReply(r) => faults' # 0
  BY <1>4, <1>5, <1>6
<1>8. CASE ReadProposal(r)
  <2>1. \/ \E c \in Codes \ {"200"} : Respond(r, c) /\ UNCHANGED <<seen, draft>>
        \/ Loads(r)
    BY <1>2, <1>3, <1>8
    DEF ReadProposal, Loads, At, Goto, StageAt, Codes, BallotOps, Closers
  <2>2. UNCHANGED <<tables, events, weight, target, ballots>> /\ ~Ended(r) /\ ~Uncommitted(r)
    BY <1>8 DEF ReadProposal, At, Ended, Uncommitted
  <2>3. Loads(r) \/ GivesUp(r)
    BY <2>1, <2>2 DEF GivesUp, Respond, session
  <2> QED  BY <1>1, <1>2, <1>7, <2>3
<1>9. CASE \/ ReadVoter(r) \/ CheckDuplicate(r) \/ ReadStake(r) \/ ReadTarget(r)
           \/ ReadTargetVote(r) \/ Boost(r) \/ SumDelegated(r) \/ InsertVote(r)
           \/ CheckId(r) \/ ReadBallots(r)
  <2>1. /\ pc[r] \notin {"idle", "ReadProposal", "SumEligible", "Flush", "Publish",
                         "Commit", "Announce", "done"}
        /\ UNCHANGED <<tables, events, seen, draft>>
    BY <1>9 DEF At, ReadVoter, CheckDuplicate, ReadStake, ReadTarget, ReadTargetVote, Boost,
                SumDelegated, InsertVote, CheckId, ReadBallots, session
  <2>2. \/ \E c \in Codes \ {"200"} : Respond(r, c) /\ UNCHANGED session
        \/ \E l \in Labels :
            /\ l \notin {"idle", "ReadProposal", "Flush", "Commit", "Announce", "done"}
            /\ l = "Publish" => body[r].op \in BallotOps
            /\ l = "SumEligible" => ReadBallots(r)
            /\ l # "Insert" => pc[r] # "CheckId"
            /\ l = "Insert" => body[r].op \in BallotOps \cup {"create"}
            /\ Goto(r, l)
    BY <1>2, <1>9
    DEF At, StageAt, Labels, Codes, BallotOps, ReadVoter, CheckDuplicate, ReadStake,
        ReadTarget, ReadTargetVote, Boost, SumDelegated, InsertVote, CheckId, ReadBallots,
        session
  <2>3. (target' = target \/ ReadTargetVote(r)) /\ (ballots' = ballots \/ ReadBallots(r))
    BY <1>9 DEF ReadVoter, CheckDuplicate, ReadStake, ReadTarget, ReadTargetVote, Boost,
                SumDelegated, InsertVote, CheckId, ReadBallots, session
  <2>4. CASE \E c \in Codes \ {"200"} : Respond(r, c) /\ UNCHANGED session
    BY <1>1, <1>2, <1>7, <2>1, <2>4 DEF GivesUp, Respond, Ended, Uncommitted
  <2>5. CASE \E l \in Labels :
            /\ l \notin {"idle", "ReadProposal", "Flush", "Commit", "Announce", "done"}
            /\ l = "Publish" => body[r].op \in BallotOps
            /\ l = "SumEligible" => ReadBallots(r)
            /\ l # "Insert" => pc[r] # "CheckId"
            /\ l = "Insert" => body[r].op \in BallotOps \cup {"create"}
            /\ Goto(r, l)
    <3>1. UNCHANGED reply
      BY <2>5 DEF Goto
    <3>2. \E l \in Labels :
            /\ l \notin {"idle", "ReadProposal", "Flush", "Commit", "Announce", "done"}
            /\ l = "Publish" => body[r].op \in BallotOps
            /\ l = "SumEligible" => ReadBallots(r)
            /\ l # "Insert" => pc[r] # "CheckId"
            /\ l = "Insert" => body[r].op \in BallotOps \cup {"create"}
            /\ pc' = [pc EXCEPT ![r] = l]
      BY <2>5 DEF Goto
    <3>3. Reads(r)
      BY <2>1, <2>3, <3>1, <3>2 DEF Reads
    <3> QED  BY <1>1, <1>2, <1>7, <3>3
  <2> QED  BY <2>2, <2>4, <2>5
<1>10. CASE InsertProposal(r)
  <2>1. /\ UNCHANGED <<tables, events, session>> /\ pc[r] = "Insert" /\ body[r].op = "create"
        /\ \A q \in Others(r) : ~HoldsProposalKey(q, Proposal(r))
        /\ \/ Respond(r, "500")
           \/ proposals[Proposal(r)].status = "absent" /\ Goto(r, "Publish")
    BY <1>10 DEF InsertProposal, At
  <2>2. GivesUp(r) \/ Creates(r)
    BY <2>1 DEF GivesUp, Creates, Respond, Goto, Codes, Ended, Uncommitted
  <2> QED  BY <1>1, <1>2, <1>7, <2>2
<1>11. CASE Fail(r)
  <2>1. UNCHANGED <<tables, events, session>> /\ faults' # 0 /\ pc[r] # "done"
    BY <1>1, <1>7, <1>11 DEF Fail, InFlight
  <2>2. CASE pc[r] = "Announce"
    <3>1. Goto(r, "done")
      BY <1>11, <2>2 DEF Fail, At
    <3>2. Silenced(r)
      BY <2>1, <2>2, <3>1 DEF Goto, Silenced
    <3> QED  BY <1>1, <1>2, <1>7, <3>2
  <2>3. CASE pc[r] # "Announce"
    <3>1. Respond(r, "500")
      BY <1>11, <2>3 DEF Fail, At
    <3>2. GivesUp(r)
      BY <2>1, <2>3, <3>1 DEF Respond, GivesUp, Ended, Codes
    <3> QED  BY <1>1, <1>2, <1>7, <3>2
  <2> QED  BY <1>1, <1>2, <1>7, <2>2, <2>3
<1>12. CASE Commit(r)
  BY <1>1, <1>2, <1>7, <1>12 DEF Commit, Commits, Codes
<1>13. CASE LoseCommitReply(r)
  BY <1>1, <1>2, <1>7, <1>13 DEF LoseCommitReply, Commits, Respond, Codes
<1>14. CASE SumEligible(r) \/ Flush(r) \/ Publish(r)
  BY <1>1, <1>2, <1>7, <1>14
<1> QED  BY <1>8, <1>9, <1>10, <1>11, <1>12, <1>13, <1>14 DEF Step

\* A step of request r leaves the other requests where they are.
LEMMA StepFrame ==
    ASSUME TypeInv, NEW r \in Requests, Step(r) \/ Fail(r) \/ LoseCommitReply(r)
    PROVE  \A q \in Others(r) :
              /\ pc'[q] = pc[q] /\ reply'[q] = reply[q]
              /\ seen'[q] = seen[q] /\ draft'[q] = draft[q]
              /\ target'[q] = target[q] /\ ballots'[q] = ballots[q]
              /\ Proposal(q)' = Proposal(q)
<1> USE DEF Others
<1>1. /\ pc \in [Requests -> Labels] /\ reply \in [Requests -> Codes \cup {""}]
      /\ DOMAIN seen = Requests /\ DOMAIN draft = Requests
      /\ DOMAIN target = Requests /\ DOMAIN ballots = Requests
  BY DEF TypeInv, TypeOK, SessionInv
<1>2. body' = body /\ \A q \in Requests : Proposal(q)' = Proposal(q)
  BY StepKinds DEF Proposal
<1>3. CASE Loads(r)
  BY <1>1, <1>2, <1>3 DEF Loads
<1>4. CASE Reads(r)
  BY <1>1, <1>2, <1>4 DEF Reads, ReadTargetVote, ReadBallots
<1>5. CASE SumEligible(r)
  BY <1>1, <1>2, <1>5 DEF SumEligible, Goto
<1>6. CASE Flush(r) \/ Publish(r)
  BY <1>1, <1>2, <1>6 DEF Flush, Publish, Goto, session
<1>7. CASE GivesUp(r) \/ Silenced(r) \/ Creates(r)
  BY <1>1, <1>2, <1>7 DEF GivesUp, Silenced, Creates, session
<1>8. CASE Commits(r)
  BY <1>1, <1>2, <1>8 DEF Commits, session
<1> QED  BY StepKinds, <1>3, <1>4, <1>5, <1>6, <1>7, <1>8

-----------------------------------------------------------------------------
(* Where the answers, the new proposals and the results are.               *)

\* Nobody is told of a success before the commit; only the HTTP handlers publish before
\* theirs.
ReplyInv ==
    \A r \in Requests :
        /\ reply[r] = "200" => Ended(r)
        /\ pc[r] = "Announce" => reply[r] = "200"
        /\ pc[r] = "Publish" => body[r].op \notin {"status", "sched", "cli"}

\* The primary key of the proposals works: a proposal that is flushed is still absent
\* from the table, and nobody else has flushed it.
CreateInv ==
    \A r \in Requests : Uncommitted(r) /\ body[r].op = "create" =>
        /\ proposals[Proposal(r)].status = "absent"
        /\ \A q \in Others(r) : ~HoldsProposalKey(q, Proposal(r))

\* A result that a request has loaded stays, a proposal that is not there has none, and
\* a closer is about to write one.
KeptInv ==
    /\ \A p \in Proposals :
        proposals[p].status = "absent" => proposals[p].computed_at = NULL
    /\ \A r \in Requests : Loaded(r) /\ seen[r].computed_at # NULL =>
        proposals[Proposal(r)].computed_at # NULL
    /\ \A r \in Requests : Written(r) =>
        /\ body[r].op \in Closers => draft[r].computed_at # NULL
        /\ body[r].op = "status" => draft[r].computed_at = seen[r].computed_at

BaseInv == RegisterInv /\ ReplyInv /\ CreateInv /\ KeptInv

\* A commit brings a proposal into being or keeps it; it never erases a result.
LEMMA CommitGrows ==
    ASSUME BaseInv, NEW r \in Requests, Store(r)
    PROVE  /\ Proposal(r) \in Proposals /\ body[r] \in Bodies
           /\ proposals'[Proposal(r)] = StoredProposal(r)
           /\ StoredProposal(r).status \in Statuses
           /\ \A p \in Proposals :
                /\ p # Proposal(r) => proposals'[p] = proposals[p]
                /\ proposals[p].status # "absent" => proposals'[p].status # "absent"
                /\ proposals[p].computed_at # NULL => proposals'[p].computed_at # NULL
           /\ body[r].op \in Closers => StoredProposal(r).computed_at # NULL
<1> USE DEF BaseInv, RegisterInv, VoterInv
<1>1. /\ Proposal(r) \in Proposals /\ StoredProposal(r).status \in Statuses
      /\ body[r].op # "create" => Loaded(r)
  BY StoredHasStatus DEF Store
<1>2. body[r] \in Bodies /\ Uncommitted(r) /\ Written(r)
  BY DEF Store, At, Uncommitted, Written, TypeInv, Stage, StageAt
<1>3. body[r].op \in BallotOps \cup Closers \cup {"status", "create"}
  BY <1>2, BodyTypes
<1>4. /\ proposals'[Proposal(r)] = StoredProposal(r)
      /\ \A p \in Proposals : p # Proposal(r) => proposals'[p] = proposals[p]
  BY <1>1 DEF Store, TypeInv
<1>5. /\ proposals[Proposal(r)].computed_at # NULL => StoredProposal(r).computed_at # NULL
      /\ body[r].op \in Closers => StoredProposal(r).computed_at # NULL
  <2>1. CASE body[r].op = "create"
    <3>1. proposals[Proposal(r)].computed_at = NULL
      BY <1>1, <1>2, <2>1 DEF CreateInv, KeptInv
    <3> QED  BY <2>1, <3>1 DEF Closers
  <2>2. CASE body[r].op \in BallotOps
    BY <2>2 DEF StoredProposal, BallotOps, Closers
  <2>3. CASE body[r].op \in Closers \cup {"status"}
    <3>1. StoredProposal(r).computed_at
            = IF draft[r].computed_at # seen[r].computed_at THEN draft[r].computed_at
              ELSE proposals[Proposal(r)].computed_at
      BY <2>3 DEF StoredProposal, WriteChanged, Columns, BallotOps, Closers
    <3>2. /\ seen[r].computed_at # NULL => proposals[Proposal(r)].computed_at # NULL
          /\ body[r].op \in Closers => draft[r].computed_at # NULL
          /\ body[r].op = "status" => draft[r].computed_at = seen[r].computed_at
      BY <1>1, <1>2, <2>3 DEF KeptInv, Closers
    <3> QED  BY <2>3, <3>1, <3>2 DEF Closers
  <2> QED  BY <1>3, <2>1, <2>2, <2>3
<1>6. \A p \in Proposals : proposals[p].status # "absent" => proposals'[p].status # "absent"
  BY <1>1, <1>4 DEF Statuses
<1> QED  BY <1>1, <1>2, <1>4, <1>5, <1>6

\* A step of a handler keeps the order of commit and reply.
LEMMA StepKeepsReply ==
    ASSUME TypeInv, ReplyInv, NEW r \in Requests, Step(r) \/ Fail(r) \/ LoseCommitReply(r)
    PROVE  ReplyInv'
<1>1. /\ pc \in [Requests -> Labels] /\ reply \in [Requests -> Codes \cup {""}]
      /\ body' = body
  BY StepKinds DEF TypeInv, TypeOK
<1>2. \A q \in Others(r) : pc'[q] = pc[q] /\ reply'[q] = reply[q]
  BY StepFrame
<1>3. /\ reply[r] = "200" => Ended(r)
      /\ pc[r] = "Publish" => body[r].op \notin {"status", "sched", "cli"}
      /\ pc[r] = "Announce" => reply[r] = "200"
  BY DEF ReplyInv
<1>4. /\ reply'[r] = "200" => pc'[r] \in {"Announce", "done"}
      /\ pc'[r] = "Announce" => reply'[r] = "200"
      /\ pc'[r] = "Publish" => body[r].op \notin {"status", "sched", "cli"}
  <2>1. CASE Loads(r)
    BY <1>1, <1>3, <2>1 DEF Loads, Ended
  <2>2. CASE Reads(r)
    BY <1>1, <1>3, <2>2 DEF Reads, Ended, BallotOps
  <2>3. CASE SumEligible(r) \/ Flush(r) \/ Publish(r)
    BY <1>1, <1>3, <2>3 DEF SumEligible, Flush, Publish, At, Goto, Ended
  <2>4. CASE GivesUp(r) \/ Silenced(r) \/ Creates(r)
    BY <1>1, <1>3, <2>4 DEF GivesUp, Silenced, Creates, Ended
  <2>5. CASE Commits(r)
    BY <1>1, <1>3, <2>5 DEF Commits
  <2> QED  BY StepKinds, <2>1, <2>2, <2>3, <2>4, <2>5
<1>5. ASSUME NEW q \in Requests
      PROVE  /\ reply'[q] = "200" => pc'[q] \in {"Announce", "done"}
             /\ pc'[q] = "Announce" => reply'[q] = "200"
             /\ pc'[q] = "Publish" => body'[q].op \notin {"status", "sched", "cli"}
  <2>1. CASE q = r
    BY <1>1, <1>4, <2>1
  <2>2. CASE q # r
    BY <1>1, <1>2, <2>2 DEF ReplyInv, Ended, Others
  <2> QED  BY <2>1, <2>2
<1> QED  BY <1>5 DEF ReplyInv, Ended

\* A step of a handler keeps the primary key of the proposals.
LEMMA StepKeepsCreate ==
    ASSUME BaseInv, NEW r \in Requests, Step(r) \/ Fail(r) \/ LoseCommitReply(r)
    PROVE  CreateInv'
<1> USE DEF BaseInv, RegisterInv, VoterInv
<1>1. /\ pc \in [Requests -> Labels] /\ body' = body
      /\ \A q \in Requests : Proposal(q)' = Proposal(q)
  BY StepKinds DEF TypeInv, TypeOK, Proposal
<1>2. \A q \in Others(r) : pc'[q] = pc[q]
  BY StepFrame
<1>3. CASE Creates(r)
  BY <1>1, <1>2, <1>3
  DEF Creates, CreateInv, HoldsProposalKey, Uncommitted, Others, Proposal, tables
<1>4. CASE Commits(r)
  <2>1. pc'[r] \notin {"Publish", "Commit"} /\ pc[r] = "Commit"
    BY <1>1, <1>4 DEF Commits, Store, At
  <2>2. /\ Proposal(r) \in Proposals
        /\ \A p \in Proposals : p # Proposal(r) => proposals'[p] = proposals[p]
    BY <1>4, CommitGrows DEF Commits
  <2>3. ASSUME NEW q \in Requests, Uncommitted(q)', body[q].op = "create"
        PROVE  /\ proposals'[Proposal(q)].status = "absent"
               /\ \A s \in Others(q) : ~HoldsProposalKey(s, Proposal(q))'
    <3>1. q \in Others(r) /\ Uncommitted(q)
      BY <1>2, <2>1, <2>3 DEF Uncommitted, Others
    <3>2. /\ proposals[Proposal(q)].status = "absent"
          /\ \A s \in Others(q) : ~HoldsProposalKey(s, Proposal(q))
      BY <2>3, <3>1 DEF CreateInv
    <3>3. \A s \in Others(q) : HoldsProposalKey(s, Proposal(q))' => HoldsProposalKey(s, Proposal(q))
      BY <1>1, <1>2, <2>1 DEF HoldsProposalKey, Uncommitted, Others
    <3>4. Proposal(q) # Proposal(r)
      <4>1. CASE body[r].op = "create"
        BY <2>1, <3>1, <3>2, <4>1 DEF HoldsProposalKey, Uncommitted, Others, Proposal
      <4>2. CASE body[r].op # "create"
        BY <2>1, <3>2, <4>2 DEF LoadedInv, Loaded, Statuses
      <4> QED  BY <4>1, <4>2
    <3>5. Proposal(q) \in Proposals
      <4>1. body[q] \in Bodies
        BY <3>1 DEF Uncommitted, TypeInv, Stage, StageAt
      <4> QED  BY <4>1, BodyTypes DEF Proposal
    <3> QED  BY <2>2, <3>2, <3>3, <3>4, <3>5
  <2> QED  BY <1>1, <2>3 DEF CreateInv
<1>5. CASE /\ UNCHANGED proposals
           /\ Uncommitted(r)' /\ body[r].op = "create" => Uncommitted(r)
  <2>1. \A q \in Requests : HoldsProposalKey(q, Proposal(q))' => HoldsProposalKey(q, Proposal(q))
    BY <1>1, <1>2, <1>5 DEF HoldsProposalKey, Uncommitted, Others
  <2> QED  BY <1>1, <1>5, <2>1
           DEF CreateInv, HoldsProposalKey, Uncommitted, Others, Proposal
<1>6. ASSUME Loads(r) \/ Reads(r) \/ SumEligible(r) \/ Flush(r) \/ Publish(r)
      PROVE  /\ UNCHANGED proposals
             /\ Uncommitted(r)' /\ body[r].op = "create" => Uncommitted(r)
  <2>1. Flush(r) => body[r].op # "create"
    BY DEF Flush, At, TypeInv, Stage, StageAt, Closers
  <2> QED  BY <1>1, <1>6, <2>1
           DEF Loads, Reads, SumEligible, Flush, Publish, Goto, Uncommitted, At, tables, BallotOps
<1>7. ASSUME GivesUp(r) \/ Silenced(r)
      PROVE  UNCHANGED proposals /\ ~Uncommitted(r)'
  BY <1>1, <1>7 DEF GivesUp, Silenced, Uncommitted, tables
<1> QED  BY StepKinds, <1>3, <1>4, <1>5, <1>6, <1>7

\* A step of a handler erases no result.
LEMMA StepKeepsKept ==
    ASSUME BaseInv, NEW r \in Requests, Step(r) \/ Fail(r) \/ LoseCommitReply(r)
    PROVE  KeptInv'
<1> USE DEF BaseInv, RegisterInv, VoterInv
<1>1. /\ pc \in [Requests -> Labels] /\ body' = body /\ body[r] \in Bodies
      /\ \A q \in Requests : Proposal(q)' = Proposal(q)
      /\ DOMAIN seen = Requests /\ DOMAIN draft = Requests
  BY StepKinds DEF TypeInv, TypeOK, SessionInv, Proposal
<1>2. \A q \in Others(r) : pc'[q] = pc[q] /\ seen'[q] = seen[q] /\ draft'[q] = draft[q]
  BY StepFrame
<1>3. \A q \in Requests : Loaded(q) => Proposal(q) \in Proposals
  <2> SUFFICES ASSUME NEW q \in Requests, Loaded(q) PROVE Proposal(q) \in Proposals
    OBVIOUS
  <2>1. body[q] \in Bodies
    BY DEF Loaded, TypeInv, Stage, StageAt
  <2> QED  BY <2>1, BodyTypes DEF Proposal
<1>4. CASE Commits(r)
  <2>1. /\ \A p \in Proposals :
            /\ p # Proposal(r) => proposals'[p] = proposals[p]
            /\ proposals[p].computed_at # NULL => proposals'[p].computed_at # NULL
        /\ proposals'[Proposal(r)].status \in Statuses
    BY <1>4, CommitGrows DEF Commits
  <2>2. UNCHANGED <<seen, draft>> /\ pc[r] = "Commit" /\ ~Written(r)'
    BY <1>1, <1>4 DEF Commits, Store, At, session, Written
  <2>3. \A q \in Requests : Loaded(q)' => Loaded(q)
    BY <1>1, <1>2, <2>2 DEF Loaded, Others
  <2>4. \A q \in Requests : Written(q)' => Written(q)
    BY <1>2, <2>2 DEF Written, Others
  <2> QED  BY <1>1, <1>3, <2>1, <2>2, <2>3, <2>4 DEF KeptInv, Statuses
<1>5. ASSUME UNCHANGED proposals,
             Loaded(r)' /\ seen'[r].computed_at # NULL =>
                proposals[Proposal(r)].computed_at # NULL,
             Written(r)' =>
                /\ body[r].op \in Closers => draft'[r].computed_at # NULL
                /\ body[r].op = "status" => draft'[r].computed_at = seen'[r].computed_at
      PROVE  KeptInv'
  <2>1. \A q \in Others(r) : (Loaded(q)' <=> Loaded(q)) /\ (Written(q)' <=> Written(q))
    BY <1>1, <1>2 DEF Loaded, Written
  <2> QED  BY <1>1, <1>2, <1>5, <2>1 DEF KeptInv, Others
<1>6. CASE Loads(r)
  <2>1. Proposal(r) \in Proposals /\ body[r].op \in BallotOps \cup Closers \cup {"status"}
    BY <1>1, <1>6, BodyTypes DEF Loads, Proposal
  <2>2. IsRow(proposals[Proposal(r)])
    BY <2>1 DEF TypeInv, TypeOK, IsRow
  <2>3. /\ seen'[r] = proposals[Proposal(r)] /\ proposals' = proposals
        /\ draft'[r].computed_at = seen'[r].computed_at
    BY <1>1, <1>6, <2>2 DEF Loads, IsRow, Columns, tables
  <2>4. Written(r)' => body[r].op \notin Closers
    BY <1>1, <1>6, <2>1 DEF Loads, Written
  <2> QED  BY <1>5, <2>3, <2>4
<1>7. CASE SumEligible(r)
  <2>1. /\ body[r].op \in Closers /\ Loaded(r)
    BY <1>7 DEF SumEligible, At, TypeInv, Stage, StageAt, Loaded, Closers
  <2>2. UNCHANGED <<proposals, seen>>
    BY <1>7 DEF SumEligible, tables
  <2>3. draft'[r].computed_at # NULL
    BY <1>1, <1>7 DEF SumEligible, ClosedRow, Some, NULL
  <2>4. seen'[r].computed_at # NULL => proposals[Proposal(r)].computed_at # NULL
    BY <2>1, <2>2 DEF KeptInv
  <2> QED  BY <1>5, <2>1, <2>2, <2>3, <2>4 DEF Closers
<1>8. CASE Reads(r) \/ Flush(r) \/ Publish(r) \/ GivesUp(r) \/ Silenced(r) \/ Creates(r)
  <2>1. UNCHANGED <<proposals, seen, draft>>
    BY <1>8 DEF Reads, Flush, Publish, GivesUp, Silenced, Creates, tables, session
  <2>2. /\ Loaded(r)' => Loaded(r)
        /\ Written(r)' => Written(r) \/ body[r].op \in BallotOps \cup {"create"}
    <3>1. CASE Reads(r)
      <4>1. pc[r] = "CheckId" => body[r].op = "create"
        BY DEF TypeInv, Stage, StageAt
      <4> QED  BY <1>1, <3>1, <4>1 DEF Reads, Loaded, Written
    <3>2. CASE Flush(r) \/ Publish(r)
      <4>1. pc[r] = "Announce" => body[r].op # "create"
        BY DEF TypeInv, Stage, StageAt
      <4> QED  BY <1>1, <3>2 DEF Flush, Publish, At, Goto, Loaded, Written
    <3>3. CASE GivesUp(r) \/ Silenced(r) \/ Creates(r)
      BY <1>1, <3>3 DEF GivesUp, Silenced, Creates, Loaded, Written
    <3> QED  BY <1>8, <3>1, <3>2, <3>3
  <2>3. body[r].op \in BallotOps \cup {"create"} => body[r].op \notin Closers \cup {"status"}
    BY DEF BallotOps, Closers
  <2> QED  BY <1>5, <2>1, <2>2, <2>3 DEF KeptInv
<1> QED  BY StepKinds, <1>4, <1>6, <1>7, <1>8

\* Every step keeps them all.
LEMMA StepKeepsBase == BaseInv /\ [Next]_vars => BaseInv'
<1> SUFFICES ASSUME BaseInv, [Next]_vars PROVE (ReplyInv /\ CreateInv /\ KeptInv)'
  BY StepKeepsRegister DEF BaseInv
<1>1. ASSUME NEW r \in Requests, Step(r) \/ Fail(r) \/ LoseCommitReply(r)
      PROVE  (ReplyInv /\ CreateInv /\ KeptInv)'
  BY <1>1, StepKeepsReply, StepKeepsCreate, StepKeepsKept DEF BaseInv, RegisterInv, VoterInv
<1>2. ASSUME NEW r \in Requests, Receive(r) PROVE (ReplyInv /\ CreateInv /\ KeptInv)'
  <2>1. /\ UNCHANGED <<proposals, reply, seen, draft>> /\ pc[r] = "idle"
        /\ pc \in [Requests -> Labels] /\ pc' \in [Requests -> Labels]
        /\ pc'[r] \in {"CheckId", "ReadProposal"}
        /\ \A q \in Others(r) : pc'[q] = pc[q] /\ body'[q] = body[q]
    <3>1. pc \in [Requests -> Labels] /\ DOMAIN body = Requests
      BY DEF BaseInv, RegisterInv, VoterInv, TypeInv, TypeOK
    <3>2. UNCHANGED <<proposals, reply, seen, draft>> /\ pc[r] = "idle"
      BY <1>2 DEF Receive, At, tables, session
    <3>3. PICK b \in Bodies :
            /\ body' = [body EXCEPT ![r] = b]
            /\ pc' = [pc EXCEPT ![r] = IF b.op = "create" THEN "CheckId" ELSE "ReadProposal"]
      BY <1>2 DEF Receive
    <3> QED  BY <3>1, <3>2, <3>3 DEF Others, Labels
  <2>2. \A q \in Requests :
          /\ Loaded(q)' => Loaded(q) /\ Proposal(q)' = Proposal(q)
          /\ Written(q)' => Written(q) /\ body'[q] = body[q]
          /\ Uncommitted(q)' => Uncommitted(q) /\ body'[q] = body[q] /\ Proposal(q)' = Proposal(q)
          /\ Ended(q) => Ended(q)' /\ q \in Others(r)
    BY <2>1 DEF Loaded, Written, Uncommitted, Ended, Others, Proposal
  <2>3. ReplyInv'
    BY <2>1, <2>2 DEF BaseInv, ReplyInv, Others
  <2>4. CreateInv'
    <3>1. \A q \in Requests, p \in Proposals : HoldsProposalKey(q, p)' => HoldsProposalKey(q, p)
      BY <2>2 DEF HoldsProposalKey
    <3>2. \A q \in Requests : Uncommitted(q) => Proposal(q) \in Proposals
      <4> SUFFICES ASSUME NEW q \in Requests, Uncommitted(q) PROVE Proposal(q) \in Proposals
        OBVIOUS
      <4>1. body[q] \in Bodies
        BY DEF BaseInv, RegisterInv, VoterInv, Uncommitted, TypeInv, Stage, StageAt
      <4> QED  BY <4>1, BodyTypes DEF Proposal
    <3> QED  BY <2>1, <2>2, <3>1, <3>2 DEF BaseInv, CreateInv, Others
  <2>5. KeptInv'
    BY <2>1, <2>2 DEF BaseInv, KeptInv
  <2> QED  BY <2>3, <2>4, <2>5
<1>3. ASSUME UNCHANGED <<proposals, pc, body, reply, seen, draft>>
      PROVE  (ReplyInv /\ CreateInv /\ KeptInv)'
  BY <1>3 DEF BaseInv, ReplyInv, CreateInv, KeptInv, Ended, Uncommitted, HoldsProposalKey,
              Loaded, Written, Proposal
<1>4. ASSUME \/ \E trade \in Trades : SetOwnership(trade[1], trade[2])
             \/ \E u \in Leavers : DeactivateUser(u)
             \/ Tick \/ Wait \/ UNCHANGED vars
      PROVE  UNCHANGED <<proposals, pc, body, reply, seen, draft>>
  BY <1>4 DEF SetOwnership, DeactivateUser, Tick, Wait, vars, tables, requests, session
<1> QED  BY <1>1, <1>2, <1>3, <1>4 DEF Next

\* When the run starts nobody has been answered.
LEMMA InitBase == Init => BaseInv
<1> SUFFICES ASSUME Init PROVE ReplyInv /\ CreateInv /\ KeptInv
  BY InitRegister DEF BaseInv
<1>1. \A r \in Requests : pc[r] = "idle" /\ reply[r] = ""
  BY DEF Init
<1>2. \A p \in Proposals : proposals[p] = OpenRow \/ proposals[p] = AbsentRow
  BY DEF Init
<1>3. OpenRow.computed_at = NULL /\ AbsentRow.computed_at = NULL
  BY DEF OpenRow, AbsentRow
<1> QED  BY <1>1, <1>2, <1>3
         DEF ReplyInv, CreateInv, KeptInv, Ended, Uncommitted, Loaded, Written

\* The votes after a commit: those of before, boosted or not, and perhaps a new one.
LEMMA CommittedVotes ==
    ASSUME NEW r \in Requests, Store(r)
    PROVE  /\ \A v \in votes : \E w \in votes' : w.id = v.id /\ w.proposal = v.proposal
           /\ body[r].op \in BallotOps => \E w \in votes' : w.id = r
           /\ \A w \in votes' :
                \/ w.id = r /\ body[r].op \in BallotOps
                \/ \E v \in votes : w.id = v.id /\ w.proposal = v.proposal
           /\ \A w, x \in votes' : w.id = x.id =>
                \/ w = x
                \/ w.id = r /\ \E v \in votes : v.id = r
                \/ \E v, y \in votes : v.id = y.id /\ v # y
<1> DEFINE F(v) == IF body[r].op = "delegate" THEN Boosted(v, r) ELSE v
<1>1. \A v \in votes : F(v).id = v.id /\ F(v).proposal = v.proposal
  BY DEF Boosted, WithWeight
<1>2. VoteRow(r).id = r
  BY DEF VoteRow
<1>3. votes' = {F(v) : v \in votes} \cup (IF body[r].op \in BallotOps THEN {VoteRow(r)} ELSE {})
  BY DEF Store, StoredVotes, BallotOps
<1> HIDE DEF F
<1> QED  BY <1>1, <1>2, <1>3

-----------------------------------------------------------------------------
\* Whoever has been told that a vote, a delegation, a new proposal, a status or a result
\* was accepted finds it in the tables for ever, whatever runs, fails or is repeated
\* later: get_db commits before the answer leaves.
THEOREM AcknowledgedIsStoredHolds == Spec => []AcknowledgedIsStored
<1> DEFINE Kept(r) ==
        /\ body[r].op \in BallotOps => \E v \in votes : v.id = r
        /\ body[r].op \in Closers => proposals[Proposal(r)].computed_at # NULL
        /\ body[r].op \notin BallotOps => proposals[Proposal(r)].status # "absent"
           AckInv == BaseInv /\ \A r \in Requests : reply[r] = "200" => Kept(r)
<1>1. Init => AckInv
  <2>1. Init => \A r \in Requests : reply[r] = ""
    BY DEF Init
  <2> QED  BY <2>1, InitBase
<1>2. AckInv => AcknowledgedIsStored
  BY DEF AcknowledgedIsStored, BallotOps, Closers
<1>3. AckInv /\ [Next]_vars => AckInv'
  <2> SUFFICES ASSUME AckInv, [Next]_vars, NEW q \in Requests, reply'[q] = "200"
      PROVE  Kept(q)'
    BY StepKeepsBase
  <2>1. ASSUME NEW r \in Requests, Commits(r), Step(r) \/ Fail(r) \/ LoseCommitReply(r)
        PROVE  Kept(q)'
    <3>1. body' = body /\ Proposal(q)' = Proposal(q)
      BY <2>1, StepKinds DEF Proposal, BaseInv, RegisterInv, VoterInv
    <3>2. /\ Proposal(r) \in Proposals
          /\ proposals'[Proposal(r)].status \in Statuses
          /\ \A p \in Proposals :
                /\ proposals[p].status # "absent" => proposals'[p].status # "absent"
                /\ proposals[p].computed_at # NULL => proposals'[p].computed_at # NULL
          /\ body[r].op \in Closers => proposals'[Proposal(r)].computed_at # NULL
      BY <2>1, CommitGrows DEF Commits
    <3>3. /\ \A v \in votes : \E w \in votes' : w.id = v.id
          /\ body[r].op \in BallotOps => \E w \in votes' : w.id = r
      BY <2>1, CommittedVotes DEF Commits
    <3>4. CASE q = r
      BY <3>1, <3>2, <3>3, <3>4 DEF Statuses
    <3>5. CASE q # r
      <4>1. reply[q] = "200"
        BY <2>1, <3>5, StepFrame DEF Others, BaseInv, RegisterInv, VoterInv
      <4>2. Proposal(q) \in Proposals
        <5>1. body[q] \in Bodies
          BY <4>1 DEF BaseInv, ReplyInv, Ended, RegisterInv, VoterInv, TypeInv, Stage, StageAt
        <5> QED  BY <5>1, BodyTypes DEF Proposal
      <4> QED  BY <3>1, <3>2, <3>3, <4>1, <4>2
    <3> QED  BY <3>4, <3>5
  <2>2. ASSUME UNCHANGED <<proposals, votes>>, body'[q] = body[q], reply[q] = "200"
        PROVE  Kept(q)'
    BY <2>2 DEF Proposal
  <2>3. ASSUME NEW r \in Requests, Step(r) \/ Fail(r) \/ LoseCommitReply(r), ~Commits(r)
        PROVE  Kept(q)'
    <3>1. body' = body /\ \/ Loads(r) \/ Reads(r) \/ SumEligible(r) \/ Flush(r) \/ Creates(r)
                          \/ GivesUp(r) \/ Silenced(r) \/ Publish(r)
      BY <2>3, StepKinds DEF BaseInv, RegisterInv, VoterInv
    <3>2. UNCHANGED <<proposals, votes>>
      BY <3>1 DEF Loads, Reads, SumEligible, Flush, Creates, GivesUp, Silenced, Publish, tables
    <3>3. reply[q] = "200"
      <4>1. reply \in [Requests -> Codes \cup {""}]
        BY DEF BaseInv, RegisterInv, VoterInv, TypeInv, TypeOK
      <4> QED  BY <3>1, <4>1
               DEF Loads, Reads, SumEligible, Flush, Creates, GivesUp, Silenced, Publish, Goto
    <3> QED  BY <2>2, <3>1, <3>2, <3>3
  <2>4. ASSUME NEW r \in Requests, Receive(r) PROVE Kept(q)'
    <3>1. UNCHANGED <<proposals, votes, reply>> /\ pc[r] = "idle"
          /\ \E b : body' = [body EXCEPT ![r] = b]
      BY <2>4 DEF Receive, At, tables
    <3>2. q # r
      BY <3>1 DEF BaseInv, ReplyInv, Ended
    <3> QED  BY <2>2, <3>1, <3>2 DEF BaseInv, RegisterInv, VoterInv, TypeInv
  <2>5. ASSUME \/ \E trade \in Trades : SetOwnership(trade[1], trade[2])
               \/ \E u \in Leavers : DeactivateUser(u)
               \/ Tick \/ Wait \/ UNCHANGED vars
        PROVE  UNCHANGED <<proposals, votes, body, reply>>
    BY <2>5 DEF SetOwnership, DeactivateUser, Tick, Wait, vars, tables, requests
  <2> QED  BY <2>1, <2>2, <2>3, <2>4, <2>5 DEF Next
<1> QED  BY <1>1, <1>2, <1>3, PTL DEF Spec

-----------------------------------------------------------------------------
(* Votes, audit records and events, by the requests they come from.        *)

\* The operations that leave an audit record and an event.
Trailed == BallotOps \cup {"create", "close", "sched"}

\* The identities are those of requests whose transaction is over, each inserted one row
\* and one audit record at most, and every vote has its record.
IdsInv ==
    /\ \A v \in votes : Ended(v.id)
    /\ \A v, w \in votes : v.id = w.id => v = w
    /\ \A a \in audit : Ended(a.source)
    /\ \A a, b \in audit : a.source = b.source => a = b
    /\ \A v \in votes : \E a \in audit : a.source = v.id

\* What append_audit adds.
LEMMA AuditRecord ==
    ASSUME NEW r \in Requests, body[r] \in Bodies
    PROVE  /\ body[r].op \in Trailed => \E a : AuditOf(r) = {a} /\ a.source = r
           /\ body[r].op \notin Trailed => AuditOf(r) = {}
<1>1. body[r].op \in BallotOps \cup Closers \cup {"status", "create"}
  BY BodyTypes
<1> DEFINE Mine(x) == [action |-> x, proposal |-> Proposal(r), source |-> r]
<1>2. \A x : Mine(x).source = r
  OBVIOUS
<1>3. /\ body[r].op = "vote" => AuditOf(r) = {Mine("vote.cast")}
      /\ body[r].op = "delegate" => AuditOf(r) = {Mine("vote.delegated")}
      /\ body[r].op = "create" => AuditOf(r) = {Mine("proposal.created")}
      /\ body[r].op \in {"close", "sched"} => AuditOf(r) = {Mine("result.computed")}
      /\ body[r].op \in {"cli", "status"} => AuditOf(r) = {}
  BY DEF AuditOf
<1> HIDE DEF Mine
<1> QED  BY <1>1, <1>2, <1>3 DEF Trailed, BallotOps, Closers

\* A step of a handler keeps the identities.
LEMMA StepKeepsIds ==
    ASSUME TypeInv, IdsInv, NEW r \in Requests, Step(r) \/ Fail(r) \/ LoseCommitReply(r)
    PROVE  IdsInv'
<1>1. pc \in [Requests -> Labels] /\ body[r] \in Bodies
  BY StepKinds DEF TypeInv, TypeOK
<1>2. /\ \A v \in votes : v.id \in Requests
      /\ \A a \in audit : a.source \in Requests
  BY DEF TypeInv, TypeOK
<1>3. Ended(r) => Ended(r)'
  <2>1. CASE Loads(r) \/ Reads(r) \/ SumEligible(r) \/ Flush(r) \/ Creates(r)
    BY <2>1 DEF Loads, Reads, SumEligible, Flush, Creates, At, Ended
  <2>2. CASE Publish(r)
    BY <1>1, <2>2 DEF Publish, Goto, Ended
  <2>3. CASE GivesUp(r) \/ Silenced(r) \/ Commits(r)
    BY <1>1, <2>3 DEF GivesUp, Silenced, Commits, Ended
  <2> QED  BY StepKinds, <2>1, <2>2, <2>3
<1>4. \A q \in Requests : Ended(q) => Ended(q)'
  BY <1>3, StepFrame DEF Ended, Others
<1>5. CASE UNCHANGED <<votes, audit>>
  BY <1>2, <1>4, <1>5 DEF IdsInv
<1>6. CASE Commits(r)
  <2>1. ~Ended(r) /\ Ended(r)' /\ audit' = audit \cup AuditOf(r)
    BY <1>1, <1>6 DEF Commits, Store, At, Ended
  <2>2. /\ \A v \in votes : v.id # r
        /\ \A a \in audit : a.source # r
    BY <2>1 DEF IdsInv
  <2>3. /\ body[r].op \in Trailed => \E a : AuditOf(r) = {a} /\ a.source = r
        /\ body[r].op \notin Trailed => AuditOf(r) = {}
    BY <1>1, AuditRecord
  <2>4. /\ \A w \in votes' :
            (w.id = r /\ body[r].op \in BallotOps) \/ \E v \in votes : w.id = v.id
        /\ \A w, x \in votes' : w.id = x.id =>
            \/ w = x
            \/ w.id = r /\ \E v \in votes : v.id = r
            \/ \E v, y \in votes : v.id = y.id /\ v # y
    BY <1>6, CommittedVotes DEF Commits
  <2>5. \A v \in votes' : Ended(v.id)'
    BY <1>2, <1>4, <2>1, <2>4 DEF IdsInv
  <2>6. \A v, w \in votes' : v.id = w.id => v = w
    BY <2>2, <2>4 DEF IdsInv
  <2>7. \A a \in audit' : Ended(a.source)'
    BY <1>2, <1>4, <2>1, <2>3 DEF IdsInv
  <2>8. \A a, b \in audit' : a.source = b.source => a = b
    BY <2>1, <2>2, <2>3 DEF IdsInv
  <2>9. \A v \in votes' : \E a \in audit' : a.source = v.id
    <3>1. body[r].op \in BallotOps => \E a \in audit' : a.source = r
      BY <2>1, <2>3 DEF Trailed
    <3> QED  BY <2>1, <2>4, <3>1 DEF IdsInv
  <2> QED  BY <2>5, <2>6, <2>7, <2>8, <2>9 DEF IdsInv
<1>7. CASE \/ Loads(r) \/ Reads(r) \/ SumEligible(r) \/ Flush(r) \/ Creates(r)
           \/ GivesUp(r) \/ Silenced(r) \/ Publish(r)
  BY <1>5, <1>7
  DEF Loads, Reads, SumEligible, Flush, Creates, GivesUp, Silenced, Publish, tables
<1> QED  BY StepKinds, <1>6, <1>7

\* Every step keeps the identities.
LEMMA NextKeepsIds == TypeInv /\ IdsInv /\ [Next]_vars => (TypeInv /\ IdsInv)'
<1> SUFFICES ASSUME TypeInv, IdsInv, [Next]_vars PROVE IdsInv'
  BY StepKeepsTypes
<1>1. ASSUME NEW r \in Requests, Step(r) \/ Fail(r) \/ LoseCommitReply(r) PROVE IdsInv'
  BY <1>1, StepKeepsIds
<1>2. ASSUME NEW r \in Requests, Receive(r) PROVE IdsInv'
  <2>1. UNCHANGED <<votes, audit>> /\ pc[r] = "idle" /\ \E l : pc' = [pc EXCEPT ![r] = l]
    BY <1>2 DEF Receive, At, tables
  <2>2. pc \in [Requests -> Labels]
    BY DEF TypeInv, TypeOK
  <2>3. \A q \in Requests : Ended(q) => Ended(q)'
    BY <2>1, <2>2 DEF Ended
  <2>4. /\ \A v \in votes : v.id \in Requests
        /\ \A a \in audit : a.source \in Requests
    BY DEF TypeInv, TypeOK
  <2> QED  BY <2>1, <2>3, <2>4 DEF IdsInv
<1>3. ASSUME \/ \E trade \in Trades : SetOwnership(trade[1], trade[2])
             \/ \E u \in Leavers : DeactivateUser(u)
             \/ Tick \/ Wait \/ UNCHANGED vars
      PROVE  UNCHANGED <<votes, audit, pc>>
  BY <1>3 DEF SetOwnership, DeactivateUser, Tick, Wait, vars, tables, requests
<1>4. ASSUME UNCHANGED <<votes, audit, pc>> PROVE IdsInv'
  BY <1>4 DEF IdsInv, Ended
<1> QED  BY <1>1, <1>2, <1>3, <1>4 DEF Next

\* Nothing deletes an audit record.
LEMMA AuditGrows == TypeInv /\ [Next]_vars => audit \subseteq audit'
<1> SUFFICES ASSUME TypeInv, [Next]_vars PROVE audit \subseteq audit'
  OBVIOUS
<1>1. ASSUME NEW r \in Requests, Step(r) \/ Fail(r) \/ LoseCommitReply(r)
      PROVE  audit \subseteq audit'
  <2>1. CASE Commits(r)
    BY <2>1 DEF Commits, Store
  <2>2. CASE \/ Loads(r) \/ Reads(r) \/ SumEligible(r) \/ Flush(r) \/ Creates(r)
             \/ GivesUp(r) \/ Silenced(r) \/ Publish(r)
    BY <2>2
    DEF Loads, Reads, SumEligible, Flush, Creates, GivesUp, Silenced, Publish, tables
  <2> QED  BY <1>1, StepKinds, <2>1, <2>2
<1>2. ASSUME \/ \E r \in Requests : Receive(r)
             \/ \E trade \in Trades : SetOwnership(trade[1], trade[2])
             \/ \E u \in Leavers : DeactivateUser(u)
             \/ Tick \/ Wait \/ UNCHANGED vars
      PROVE  audit' = audit
  BY <1>2 DEF Receive, SetOwnership, DeactivateUser, Tick, Wait, vars, tables
<1> QED  BY <1>1, <1>2 DEF Next

\* Records that each have a request of their own are finitely many.
LEMMA FinitelyMany ==
    ASSUME NEW A, \A a \in A : a.source \in Requests,
           \A a, b \in A : a.source = b.source => a = b
    PROVE  IsFiniteSet(A)
<1> DEFINE f == [a \in A |-> a.source]
<1>1. f \in Injection(A, Requests)
  BY DEF Injection, IsInjective
<1> QED  BY <1>1, FS_Injection, GovernanceAssumption

\* Each vote has an audit record of its own, so that there are no more votes than records.
LEMMA VotesWithinAudit ==
    ASSUME TypeInv, IdsInv
    PROVE  /\ IsFiniteSet(audit) /\ IsFiniteSet(votes)
           /\ Cardinality(votes) <= Cardinality(audit)
<1>1. IsFiniteSet(audit)
  <2>1. \A a \in audit : a.source \in Requests
    BY DEF TypeInv, TypeOK
  <2> QED  BY <2>1, FinitelyMany DEF IdsInv
<1>2. IsFiniteSet(votes) /\ Cardinality(votes) <= Cardinality(audit)
  <2> DEFINE f == [v \in votes |-> CHOOSE a \in audit : a.source = v.id]
  <2>1. \A v \in votes : f[v] \in audit /\ f[v].source = v.id
    BY DEF IdsInv
  <2>2. f \in Injection(votes, audit)
    <3> HIDE DEF f
    <3>1. \A v, w \in votes : f[v] = f[w] => v = w
      BY <2>1 DEF IdsInv
    <3>2. f \in [votes -> audit]
      BY <2>1 DEF f
    <3> QED  BY <3>1, <3>2 DEF Injection, IsInjective
  <2> QED  BY <1>1, <2>2, FS_Injection
<1> QED  BY <1>1, <1>2

-----------------------------------------------------------------------------
\* In one response of /admin/stats the votes never outnumber the audit records, however
\* many transactions commit between the two SELECTs: every vote is audited in its own
\* transaction, nothing deletes a record, and the votes are counted first.
THEOREM StatsWithinAuditHolds == ReportSpec => []StatsWithinAudit
<1> DEFINE Inv == /\ TypeInv /\ IdsInv
                  /\ asked = "votes_cast" => answer \in Nat /\ answer <= Cardinality(audit)
<1>1. ReportInit => Inv
  <2> SUFFICES ASSUME ReportInit PROVE Inv
    OBVIOUS
  <2>1. votes = {} /\ audit = {} /\ asked = "nothing"
    BY DEF ReportInit, Init
  <2>2. TypeInv
    BY InitTypes DEF ReportInit
  <2> QED  BY <2>1, <2>2 DEF IdsInv
<1>2. Inv => StatsWithinAudit
  BY DEF StatsWithinAudit, StatsAnswer
<1>3. Inv /\ [ReportNext]_<<vars, asked, answer>> => Inv'
  <2> SUFFICES ASSUME Inv, [ReportNext]_<<vars, asked, answer>> PROVE Inv'
    OBVIOUS
  <2>1. [Next]_vars
    BY DEF ReportNext, Read
  <2>2. (TypeInv /\ IdsInv)'
    BY <2>1, NextKeepsIds
  <2>3. /\ IsFiniteSet(audit')
        /\ Cardinality(audit) \in Nat /\ Cardinality(audit') \in Nat
        /\ Cardinality(votes) \in Nat
    <3>1. \A a \in audit' : a.source \in Requests
      BY <2>2 DEF TypeInv, TypeOK
    <3>2. IsFiniteSet(audit')
      BY <2>2, <3>1, FinitelyMany DEF IdsInv
    <3> QED  BY <3>2, VotesWithinAudit, FS_CardinalityType
  <2>4. Cardinality(audit) <= Cardinality(audit)'
    <3>1. audit \subseteq audit'
      BY <2>1, AuditGrows
    <3> QED  BY <2>3, <3>1, FS_Subset
  <2>5. CASE Read /\ asked' = "votes_cast"
    <3>1. answer' = Cardinality(votes) /\ UNCHANGED vars
      BY <2>5 DEF Read, AskStats, AskRow, StatsAnswer
    <3> QED  BY <2>2, <2>3, <2>4, <2>5, <3>1, VotesWithinAudit DEF vars, tables
  <2>6. CASE UNCHANGED <<asked, answer>>
    BY <2>2, <2>3, <2>4, <2>6
  <2>7. CASE asked' # "votes_cast"
    BY <2>2, <2>7
  <2> QED  BY <2>5, <2>6, <2>7 DEF ReportNext
<1> QED  BY <1>1, <1>2, <1>3, PTL DEF ReportSpec

-----------------------------------------------------------------------------
(* The event bus and the audit trail.                                      *)

\* Request r has published: the HTTP handlers between flush and commit, the scheduler
\* last of all.
Published(r) ==
    /\ body[r].op \in Trailed
    /\ \/ pc[r] = "Commit" /\ body[r].op # "sched"
       \/ pc[r] = "done" /\ reply[r] = "200"

\* Request r has committed its audit record.
Audited(r) == body[r].op \in Trailed /\ reply[r] = "200"

\* Without faults the events are one for each request that has published, and the records
\* those of the requests that have committed.
TrailInv ==
    /\ \E S : events \in Seq(S)
    /\ faults = 0 =>
        /\ \A i, j \in DOMAIN events : events[i].source = events[j].source => i = j
        /\ \A i \in DOMAIN events : events[i].source \in Requests /\ Published(events[i].source)
        /\ \A r \in Requests : Published(r) => \E i \in DOMAIN events : events[i].source = r
        /\ \A a \in audit : Audited(a.source)
        /\ \A r \in Requests : Audited(r) => \E a \in audit : a.source = r

\* What Append does to a sequence.
LEMMA AppendOne ==
    ASSUME NEW S, NEW s \in Seq(S), NEW e
    PROVE  /\ Append(s, e) \in Seq(S \cup {e})
           /\ DOMAIN s = 1 .. Len(s) /\ Len(s) \in Nat
           /\ DOMAIN Append(s, e) = 1 .. (Len(s) + 1)
           /\ \A i \in 1 .. Len(s) : Append(s, e)[i] = s[i]
           /\ Append(s, e)[Len(s) + 1] = e
<1>1. s \in Seq(S \cup {e})
  OBVIOUS
<1>2. Append(s, e) \in Seq(S \cup {e}) /\ Len(Append(s, e)) = Len(s) + 1
  BY <1>1
<1> QED  BY <1>1, <1>2

\* A step of a handler keeps the events and the records in step.
LEMMA StepKeepsTrail ==
    ASSUME TypeInv, ReplyInv, TrailInv, NEW r \in Requests,
           Step(r) \/ Fail(r) \/ LoseCommitReply(r)
    PROVE  TrailInv'
<1>1. /\ pc \in [Requests -> Labels] /\ reply \in [Requests -> Codes \cup {""}]
      /\ body' = body /\ body[r] \in Bodies /\ (faults' = 0 => faults = 0)
      /\ StageAt(body[r], pc[r])
  BY StepKinds DEF TypeInv, TypeOK, Stage
<1>2. \A q \in Others(r) : (Published(q)' <=> Published(q)) /\ (Audited(q)' <=> Audited(q))
  BY <1>1, StepFrame DEF Published, Audited
<1>3. \A a \in audit : a.source \in Requests
  BY DEF TypeInv, TypeOK
<1>4. body[r].op \in BallotOps \cup Closers \cup {"status", "create"}
  BY <1>1, BodyTypes
<1>5. ASSUME UNCHANGED <<events, audit>>,
             faults' = 0 => (Published(r)' <=> Published(r)) /\ (Audited(r)' <=> Audited(r))
      PROVE  TrailInv'
  <2>1. faults' = 0 => \A q \in Requests :
            (Published(q)' <=> Published(q)) /\ (Audited(q)' <=> Audited(q))
    BY <1>2, <1>5 DEF Others
  <2> QED  BY <1>1, <1>3, <1>5, <2>1 DEF TrailInv
<1>6. CASE Loads(r) \/ Reads(r) \/ SumEligible(r) \/ Flush(r) \/ Creates(r)
  <2>1. UNCHANGED <<events, audit, reply>>
    BY <1>6 DEF Loads, Reads, SumEligible, Flush, Creates, Goto, tables
  <2>2. pc[r] \notin {"Commit", "done"}
    BY <1>6 DEF Loads, Reads, SumEligible, Flush, Creates, At
  <2>3. pc'[r] # "done" /\ (pc'[r] = "Commit" => body[r].op \in {"sched", "cli", "status"})
    <3>1. CASE Loads(r) \/ Reads(r) \/ Creates(r)
      BY <1>1, <3>1 DEF Loads, Reads, Creates
    <3>2. CASE SumEligible(r)
      BY <1>1, <3>2 DEF SumEligible, Goto
    <3>3. CASE Flush(r)
      BY <1>1, <3>3 DEF Flush, Goto, At, StageAt, Closers
    <3> QED  BY <1>6, <3>1, <3>2, <3>3
  <2> QED  BY <1>1, <1>5, <2>1, <2>2, <2>3
           DEF Published, Audited, Trailed, BallotOps
<1>7. CASE GivesUp(r)
  <2>1. /\ UNCHANGED <<events, audit>> /\ pc[r] # "done" /\ (faults' = 0 => pc[r] # "Commit")
        /\ pc'[r] = "done" /\ reply'[r] # "200"
    BY <1>1, <1>7 DEF GivesUp, Ended, Uncommitted, tables
  <2>2. reply[r] # "200"
    BY <1>7 DEF GivesUp, ReplyInv
  <2> QED  BY <1>5, <2>1, <2>2 DEF Published, Audited
<1>8. CASE Silenced(r)
  <2>1. UNCHANGED <<events, audit>> /\ faults' # 0
    BY <1>8 DEF Silenced, tables
  <2> QED  BY <1>5, <2>1
<1>9. CASE Publish(r)
  <2>1. /\ UNCHANGED <<audit, reply>> /\ events' = Append(events, EventOf(r))
        /\ EventOf(r).source = r
        /\ \/ pc[r] = "Publish" /\ pc'[r] = "Commit"
           \/ pc[r] = "Announce" /\ pc'[r] = "done"
    BY <1>1, <1>9 DEF Publish, Goto, EventOf, tables
  <2>2. PICK S : events \in Seq(S)
    BY DEF TrailInv
  <2> DEFINE n == Len(events)
  <2>3. /\ events' \in Seq(S \cup {EventOf(r)}) /\ n \in Nat
        /\ DOMAIN events = 1 .. n /\ DOMAIN events' = 1 .. (n + 1)
        /\ \A i \in 1 .. n : events'[i] = events[i]
        /\ events'[n + 1] = EventOf(r)
    BY <2>1, <2>2, AppendOne
  <2> HIDE DEF n
  <2>4. /\ ~Published(r) /\ Published(r)' /\ (Audited(r)' <=> Audited(r))
    <3>1. CASE pc[r] = "Publish" /\ pc'[r] = "Commit"
      <4>1. body[r].op \notin {"status", "sched", "cli"}
        BY <3>1 DEF ReplyInv
      <4>2. body[r].op \in Trailed
        BY <1>4, <4>1 DEF Trailed, Closers
      <4> QED  BY <1>1, <2>1, <3>1, <4>1, <4>2 DEF Published, Audited
    <3>2. CASE pc[r] = "Announce" /\ pc'[r] = "done"
      <4>1. body[r].op = "sched" /\ reply[r] = "200"
        BY <1>1, <3>2 DEF ReplyInv, StageAt
      <4> QED  BY <1>1, <2>1, <3>2, <4>1 DEF Published, Audited, Trailed
    <3> QED  BY <2>1, <3>1, <3>2
  <2>5. \A q \in Requests :
            /\ Published(q)' <=> Published(q) \/ q = r
            /\ Audited(q)' <=> Audited(q)
    BY <1>2, <2>4 DEF Others
  <2>6. ASSUME faults' = 0
        PROVE  /\ \A i, j \in DOMAIN events' : events'[i].source = events'[j].source => i = j
               /\ \A i \in DOMAIN events' :
                    (events[i].source \in Requests /\ Published(events[i].source))'
               /\ \A q \in Requests : Published(q)' =>
                    \E i \in DOMAIN events' : events'[i].source = q
    <3>1. /\ \A i, j \in 1 .. n : events[i].source = events[j].source => i = j
          /\ \A i \in 1 .. n : events[i].source \in Requests /\ Published(events[i].source)
          /\ \A q \in Requests : Published(q) => \E i \in 1 .. n : events[i].source = q
      BY <1>1, <2>3, <2>6 DEF TrailInv
    <3>2. \A i \in 1 .. n : events[i].source # r
      BY <2>4, <3>1
    <3>3. /\ 1 .. n \subseteq 1 .. (n + 1) /\ n + 1 \in 1 .. (n + 1)
          /\ \A i \in 1 .. (n + 1) : i \in 1 .. n \/ i = n + 1
      BY <2>3
    <3>4. \A i, j \in 1 .. (n + 1) : events'[i].source = events'[j].source => i = j
      BY <2>1, <2>3, <3>1, <3>2, <3>3
    <3>5. ASSUME NEW i \in 1 .. (n + 1)
          PROVE  (events[i].source \in Requests /\ Published(events[i].source))'
      BY <2>1, <2>3, <2>5, <3>1, <3>3
    <3>6. \A q \in Requests : Published(q)' => \E i \in 1 .. (n + 1) : events'[i].source = q
      BY <2>1, <2>3, <2>5, <3>1, <3>3
    <3> QED  BY <2>3, <3>4, <3>5, <3>6
  <2> QED  BY <1>1, <1>3, <2>1, <2>3, <2>5, <2>6 DEF TrailInv
<1>10. CASE Commits(r)
  <2>1. UNCHANGED events /\ audit' = audit \cup AuditOf(r) /\ pc[r] = "Commit"
    BY <1>10 DEF Commits, Store, At
  <2>2. reply[r] # "200"
    BY <2>1 DEF ReplyInv, Ended
  <2>3. /\ faults' = 0 => reply'[r] = "200" /\ (body[r].op = "sched" => pc'[r] = "Announce")
        /\ pc'[r] \in {"Announce", "done"} /\ (pc'[r] = "Announce" => body[r].op = "sched")
    BY <1>1, <1>10 DEF Commits
  <2>4. ASSUME faults' = 0
        PROVE  /\ \A q \in Requests : Published(q)' <=> Published(q)
               /\ \A q \in Requests :
                    Audited(q)' <=> Audited(q) \/ (q = r /\ body[r].op \in Trailed)
    <3>1. /\ Published(r)' <=> Published(r)
          /\ Audited(r)' <=> body[r].op \in Trailed
      BY <1>1, <2>1, <2>3, <2>4 DEF Published, Audited
    <3>2. ~Audited(r)
      BY <2>2 DEF Audited
    <3> QED  BY <1>2, <3>1, <3>2 DEF Others
  <2>5. /\ body[r].op \in Trailed => \E a : AuditOf(r) = {a} /\ a.source = r
        /\ body[r].op \notin Trailed => AuditOf(r) = {}
    BY <1>1, AuditRecord
  <2>6. ASSUME faults' = 0
        PROVE  /\ \A a \in audit' : Audited(a.source)'
               /\ \A q \in Requests : Audited(q)' => \E a \in audit' : a.source = q
    <3>1. /\ \A a \in audit : Audited(a.source)
          /\ \A q \in Requests : Audited(q) => \E a \in audit : a.source = q
      BY <1>1, <2>6 DEF TrailInv
    <3> QED  BY <1>3, <2>1, <2>4, <2>5, <2>6, <3>1
  <2> QED  BY <1>1, <2>1, <2>4, <2>6 DEF TrailInv
<1> QED  BY StepKinds, <1>6, <1>7, <1>8, <1>9, <1>10

\* Every step does.
LEMMA NextKeepsTrail == BaseInv /\ TrailInv /\ [Next]_vars => (BaseInv /\ TrailInv)'
<1> SUFFICES ASSUME BaseInv, TrailInv, [Next]_vars PROVE TrailInv'
  BY StepKeepsBase
<1> USE DEF BaseInv, RegisterInv, VoterInv
<1>1. ASSUME NEW r \in Requests, Step(r) \/ Fail(r) \/ LoseCommitReply(r) PROVE TrailInv'
  BY <1>1, StepKeepsTrail
<1>2. \A a \in audit : a.source \in Requests
  BY DEF TypeInv, TypeOK
<1>3. ASSUME UNCHANGED <<events, audit, faults>>,
             \A q \in Requests : (Published(q)' <=> Published(q)) /\ (Audited(q)' <=> Audited(q))
      PROVE  TrailInv'
  BY <1>2, <1>3 DEF TrailInv
<1>4. ASSUME NEW r \in Requests, Receive(r) PROVE TrailInv'
  <2>1. /\ pc \in [Requests -> Labels] /\ DOMAIN body = Requests
        /\ UNCHANGED <<events, audit, faults, reply>> /\ pc[r] = "idle"
        /\ \E b, l : /\ body' = [body EXCEPT ![r] = b]
                     /\ pc' = [pc EXCEPT ![r] = l] /\ l \notin {"Commit", "done"}
    <3>1. PICK b \in Bodies :
            /\ body' = [body EXCEPT ![r] = b]
            /\ pc' = [pc EXCEPT ![r] = IF b.op = "create" THEN "CheckId" ELSE "ReadProposal"]
      BY <1>4 DEF Receive
    <3>2. pc \in [Requests -> Labels] /\ DOMAIN body = Requests
      BY DEF TypeInv, TypeOK
    <3> QED  BY <1>4, <3>1, <3>2 DEF Receive, At, tables, world
  <2>2. reply[r] # "200"
    BY <2>1 DEF ReplyInv, Ended
  <2> QED  BY <1>3, <2>1, <2>2 DEF Published, Audited
<1>5. ASSUME \/ \E trade \in Trades : SetOwnership(trade[1], trade[2])
             \/ \E u \in Leavers : DeactivateUser(u)
             \/ Tick \/ Wait \/ UNCHANGED vars
      PROVE  UNCHANGED <<events, audit, faults, pc, body, reply>>
  BY <1>5 DEF SetOwnership, DeactivateUser, Tick, Wait, vars, world, tables, requests
<1>6. ASSUME UNCHANGED <<events, audit, faults, pc, body, reply>> PROVE TrailInv'
  BY <1>3, <1>6 DEF Published, Audited
<1> QED  BY <1>1, <1>4, <1>5, <1>6 DEF Next

\* When the run starts there are neither.
LEMMA InitTrail == Init => BaseInv /\ IdsInv /\ TrailInv
<1> SUFFICES ASSUME Init PROVE IdsInv /\ TrailInv
  BY InitBase
<1>1. /\ votes = {} /\ audit = {} /\ events = <<>>
      /\ \A r \in Requests : pc[r] = "idle" /\ reply[r] = ""
  BY DEF Init
<1>2. events \in Seq({}) /\ DOMAIN events = {}
  <2>1. <<>> \in Seq({}) /\ Len(<<>>) = 0
    OBVIOUS
  <2>2. DOMAIN <<>> = 1 .. 0 /\ 1 .. 0 = {}
    BY <2>1
  <2> QED  BY <1>1, <2>1, <2>2
<1>3. TrailInv
  BY <1>1, <1>2 DEF TrailInv, Published, Audited
<1> QED  BY <1>1, <1>3 DEF IdsInv

\* The first n elements of s and the elements of A have the same sources, each its own.
SameSources(A, n, s) ==
    /\ \A i, j \in 1 .. n : s[i].source = s[j].source => i = j
    /\ \A a, b \in A : a.source = b.source => a = b
    /\ \A i \in 1 .. n : \E a \in A : a.source = s[i].source
    /\ \A a \in A : \E i \in 1 .. n : a.source = s[i].source

\* Then there are as many of the ones as of the others.
LEMMA OneToOne ==
    ASSUME NEW A, NEW n \in Nat, NEW s, SameSources(A, n, s)
    PROVE  Cardinality(A) = n
<1> USE DEF SameSources
<1> DEFINE f == [i \in 1 .. n |-> CHOOSE a \in A : a.source = s[i].source]
<1>1. \A i \in 1 .. n : f[i] \in A /\ f[i].source = s[i].source
  OBVIOUS
<1>2. f \in [1 .. n -> A]
  BY <1>1
<1> HIDE DEF f
<1>3. \A i, j \in 1 .. n : f[i] = f[j] => i = j
  BY <1>1
<1>4. \A a \in A : \E i \in 1 .. n : f[i] = a
  BY <1>1
<1>5. f \in Bijection(1 .. n, A)
  BY <1>2, <1>3, <1>4 DEF Bijection, Injection, Surjection, IsInjective
<1> QED  BY <1>5, FS_CountingElements DEF ExistsBijection

-----------------------------------------------------------------------------
\* When no handler is running and nothing has failed, the subscribers have been told of
\* exactly the audited operations, once each, although the HTTP handlers publish before
\* their commit and the scheduler after it.
THEOREM EventsMatchAuditHolds == Spec => []EventsMatchAudit
<1> DEFINE Inv == BaseInv /\ IdsInv /\ TrailInv
<1>1. Inv /\ [Next]_vars => Inv'
  BY NextKeepsIds, NextKeepsTrail DEF BaseInv, RegisterInv, VoterInv
<1>2. Inv => EventsMatchAudit
  <2> SUFFICES ASSUME Inv, InFlight = {}, faults = 0
      PROVE  /\ {events[i].source : i \in DOMAIN events} = {a.source : a \in audit}
             /\ Len(events) = Cardinality(audit)
    BY DEF EventsMatchAudit
  <2>1. PICK S : events \in Seq(S)
    BY DEF TrailInv
  <2>2. DOMAIN events = 1 .. Len(events) /\ Len(events) \in Nat
    BY <2>1
  <2>3. \A r \in Requests : Published(r) <=> Audited(r)
    <3>1. \A r \in Requests : reply[r] = "200" => pc[r] = "done"
      BY DEF InFlight, BaseInv, ReplyInv, Ended
    <3>2. \A r \in Requests : pc[r] # "Commit"
      BY DEF InFlight
    <3> QED  BY <3>1, <3>2 DEF Published, Audited
  <2>4. \A a \in audit : a.source \in Requests
    BY DEF BaseInv, RegisterInv, VoterInv, TypeInv, TypeOK
  <2>5. /\ \A i \in DOMAIN events : \E a \in audit : a.source = events[i].source
        /\ \A a \in audit : \E i \in DOMAIN events : a.source = events[i].source
    BY <2>3, <2>4 DEF TrailInv
  <2>6. Cardinality(audit) = Len(events)
    <3>1. /\ \A i, j \in 1 .. Len(events) : events[i].source = events[j].source => i = j
          /\ \A a, b \in audit : a.source = b.source => a = b
      BY <2>2 DEF TrailInv, IdsInv
    <3>2. SameSources(audit, Len(events), events)
      BY <2>2, <2>5, <3>1 DEF SameSources
    <3> QED  BY <2>2, <3>2, OneToOne
  <2> QED  BY <2>5, <2>6
<1> QED  BY <1>1, <1>2, InitTrail, PTL DEF Spec

-----------------------------------------------------------------------------
(* The last result event of a proposal.                                    *)

\* force_close on p, published and not committed.
Closing(r, p) == pc[r] = "Commit" /\ body[r].op = "close" /\ Proposal(r) = p

\* What a subscriber keeps that remembers the last result event of p.
LastResult(p, row) ==
    \E i \in ResultEvents(p) :
        (\A j \in ResultEvents(p) : i >= j) /\ events[i].result = Some(row)

\* The row lock: from its flush to its commit a force_close is alone on its proposal, and
\* the row it is about to store is a row.
LockInv ==
    /\ \A r, q \in Requests :
        /\ Uncommitted(r) /\ body[r].op = "close"
        /\ Uncommitted(q) /\ body[q].op = "close"
        /\ Proposal(r) = Proposal(q)
        => r = q
    /\ \A r \in Requests : Written(r) /\ body[r].op = "close" =>
        draft[r] = [c \in Columns |-> draft[r][c]]

\* Without faults the last event tells what the proposal holds, or is about to hold.
LastInv ==
    faults = 0 =>
        \A p \in Proposals :
            /\ proposals[p].status = "absent" => ResultEvents(p) = {}
            /\ \A r \in Requests : Closing(r, p) => LastResult(p, draft[r])
            /\ (\A r \in Requests : ~Closing(r, p)) /\ ResultEvents(p) # {} =>
                    LastResult(p, proposals[p])

EventInv == BaseInv /\ TrailInv /\ ResultInv /\ LockInv /\ LastInv

\* Every closer is a force_close: the command line publishes nothing, the scheduler
\* publishes what others may have overwritten by then, and a status can be patched.
OnlyForceClose == \A b \in Bodies : b.op \in BallotOps \cup {"create", "close"}

\* The greatest element of a set.
LEMMA Greatest ==
    ASSUME NEW S, S \subseteq Int, NEW i \in S, \A j \in S : i >= j
    PROVE  Max(S) = i
<1>1. \A x \in S : (\A y \in S : x >= y) => x = i
  OBVIOUS
<1> QED  BY <1>1 DEF Max

\* What close_and_compute assigns is a row.
LEMMA ClosedRowIsRow ==
    ASSUME NEW t, NEW now
    PROVE  ClosedRow(t, now) = [c \in Columns |-> ClosedRow(t, now)[c]]
BY DEF ClosedRow, Columns

\* A step of a handler keeps the row lock.
LEMMA StepKeepsLock ==
    ASSUME OnlyForceClose, TypeInv, ResultInv, LockInv, NEW r \in Requests,
           Step(r) \/ Fail(r) \/ LoseCommitReply(r)
    PROVE  LockInv'
<1>1. /\ pc \in [Requests -> Labels] /\ body' = body /\ body[r] \in Bodies
      /\ StageAt(body[r], pc[r]) /\ DOMAIN draft = Requests
      /\ \A q \in Requests : Proposal(q)' = Proposal(q)
  BY StepKinds DEF TypeInv, TypeOK, Stage, SessionInv, Proposal
<1>2. \A q \in Others(r) : pc'[q] = pc[q] /\ draft'[q] = draft[q]
  BY StepFrame
<1>3. ASSUME Uncommitted(r)' /\ body[r].op = "close" => Uncommitted(r),
             Written(r)' /\ body[r].op = "close" =>
                draft'[r] = [c \in Columns |-> draft'[r][c]]
      PROVE  LockInv'
  <2>1. \A q \in Requests : Uncommitted(q)' /\ body[q].op = "close" => Uncommitted(q)
    BY <1>2, <1>3 DEF Uncommitted, Others
  <2>2. \A q \in Others(r) : Written(q)' => Written(q)
    BY <1>2 DEF Written
  <2> QED  BY <1>1, <1>2, <1>3, <2>1, <2>2 DEF LockInv, Others
<1>4. CASE Flush(r)
  <2>1. body[r].op = "close" /\ pc[r] = "Flush" /\ UNCHANGED draft
    BY <1>1, <1>4 DEF Flush, At, StageAt, OnlyForceClose, Closers, BallotOps, session
  <2>2. \A q \in Requests :
            (pc[q] = "Flush" \/ Uncommitted(q)) /\ body[q].op = "close" => draft[q] # seen[q]
    <3> SUFFICES ASSUME NEW q \in Requests, pc[q] = "Flush" \/ Uncommitted(q),
                        body[q].op = "close"
        PROVE  draft[q] # seen[q]
      OBVIOUS
    <3>1. seen[q] = OpenRow /\ Lawful(Proposal(q), draft[q])
      BY DEF ResultInv, CloserInv, Uncommitted, Closers
    <3>2. draft[q].status = "closed" /\ OpenRow.status = "open"
      BY <3>1 DEF Lawful, OpenRow
    <3> QED  BY <3>1, <3>2
  <2>3. \A q \in Others(r) :
            ~(Uncommitted(q) /\ body[q].op = "close" /\ Proposal(q) = Proposal(r))
    BY <1>4, <2>1, <2>2 DEF Flush, HoldsProposalRow, Closers, Others, Proposal
  <2>4. \A q \in Others(r) : (Uncommitted(q)' <=> Uncommitted(q)) /\ (Written(q)' <=> Written(q))
    BY <1>2 DEF Uncommitted, Written
  <2> QED  BY <1>1, <1>2, <2>1, <2>3, <2>4 DEF LockInv, Others, Written
<1>5. CASE SumEligible(r)
  <2>1. ~Uncommitted(r)'
    BY <1>1, <1>5 DEF SumEligible, Goto, Uncommitted
  <2>2. draft'[r] = [c \in Columns |-> draft'[r][c]]
    BY <1>1, <1>5, ClosedRowIsRow DEF SumEligible
  <2> QED  BY <1>3, <2>1, <2>2
<1>6. CASE Loads(r) \/ Reads(r) \/ Creates(r)
  <2>1. ~(Uncommitted(r)' /\ body[r].op = "close") /\ ~(Written(r)' /\ body[r].op = "close")
    BY <1>1, <1>6 DEF Loads, Reads, Creates, Uncommitted, Written, BallotOps, Closers
  <2> QED  BY <1>3, <2>1
<1>7. CASE Publish(r)
  <2>1. UNCHANGED draft /\ (Uncommitted(r)' => Uncommitted(r) /\ Written(r))
    BY <1>1, <1>7 DEF Publish, Goto, Uncommitted, Written, session
  <2>2. Written(r)' => Uncommitted(r)'
    BY <1>1, <1>7 DEF Publish, Goto, Uncommitted, Written
  <2> QED  BY <1>3, <2>1, <2>2 DEF LockInv
<1>8. CASE GivesUp(r) \/ Silenced(r) \/ Commits(r)
  <2>1. ~Uncommitted(r)' /\ ~Written(r)'
    BY <1>1, <1>8 DEF GivesUp, Silenced, Commits, Uncommitted, Written
  <2> QED  BY <1>3, <2>1
<1> QED  BY StepKinds, <1>4, <1>5, <1>6, <1>7, <1>8

\* A step of a handler keeps the last result event.
LEMMA StepKeepsLast ==
    ASSUME OnlyForceClose, EventInv, NEW r \in Requests,
           Step(r) \/ Fail(r) \/ LoseCommitReply(r)
    PROVE  LastInv'
<1> USE DEF EventInv, BaseInv, RegisterInv, VoterInv
<1>1. /\ pc \in [Requests -> Labels] /\ body' = body /\ body[r] \in Bodies
      /\ StageAt(body[r], pc[r]) /\ (faults' = 0 => faults = 0)
      /\ \A q \in Requests : Proposal(q)' = Proposal(q)
  BY StepKinds DEF TypeInv, TypeOK, Stage, Proposal
<1>2. \A q \in Others(r) : pc'[q] = pc[q] /\ draft'[q] = draft[q]
  BY StepFrame
<1>3. body[r].op \in BallotOps \cup {"create", "close"} /\ Proposal(r) \in Proposals
  <2>1. Proposal(r) \in Proposals
    BY <1>1, BodyTypes DEF Proposal
  <2> QED  BY <1>1, <2>1 DEF OnlyForceClose
<1>4. \A q \in Others(r), p \in Proposals : Closing(q, p)' <=> Closing(q, p)
  BY <1>1, <1>2 DEF Closing, Others, Proposal
<1> SUFFICES ASSUME faults' = 0, NEW p \in Proposals
    PROVE  /\ proposals'[p].status = "absent" => ResultEvents(p)' = {}
           /\ \A q \in Requests : Closing(q, p)' => LastResult(p, draft[q])'
           /\ (\A q \in Requests : ~Closing(q, p)') /\ ResultEvents(p)' # {} =>
                    LastResult(p, proposals[p])'
  BY DEF LastInv
<1>5. /\ proposals[p].status = "absent" => ResultEvents(p) = {}
      /\ \A q \in Requests : Closing(q, p) => LastResult(p, draft[q])
      /\ (\A q \in Requests : ~Closing(q, p)) /\ ResultEvents(p) # {} =>
                LastResult(p, proposals[p])
  BY <1>1 DEF LastInv
<1>6. ASSUME ResultEvents(p)' = ResultEvents(p), \A i \in ResultEvents(p) : events'[i] = events[i]
      PROVE  \A row : LastResult(p, row)' <=> LastResult(p, row)
  BY <1>6 DEF LastResult
<1>7. ASSUME ResultEvents(p)' = ResultEvents(p), \A i \in ResultEvents(p) : events'[i] = events[i],
             UNCHANGED proposals, Closing(r, p)' <=> Closing(r, p),
             Closing(r, p) => draft'[r] = draft[r]
      PROVE  /\ proposals'[p].status = "absent" => ResultEvents(p)' = {}
             /\ \A q \in Requests : Closing(q, p)' => LastResult(p, draft[q])'
             /\ (\A q \in Requests : ~Closing(q, p)') /\ ResultEvents(p)' # {} =>
                      LastResult(p, proposals[p])'
  <2>1. \A q \in Requests : Closing(q, p)' <=> Closing(q, p)
    BY <1>4, <1>7 DEF Others
  <2>2. \A q \in Requests : Closing(q, p) => draft'[q] = draft[q]
    BY <1>2, <1>7 DEF Others
  <2>3. \A q \in Requests : Closing(q, p)' => LastResult(p, draft[q])'
    BY <1>5, <1>6, <1>7, <2>1, <2>2 DEF LastResult
  <2>4. (\A q \in Requests : ~Closing(q, p)') /\ ResultEvents(p)' # {} => LastResult(p, proposals[p])'
    BY <1>5, <1>6, <1>7, <2>1 DEF LastResult
  <2> QED  BY <1>5, <1>7, <2>3, <2>4
<1>8. CASE \/ Loads(r) \/ Reads(r) \/ SumEligible(r) \/ Flush(r) \/ Creates(r)
           \/ GivesUp(r) \/ Silenced(r)
  <2>1. UNCHANGED <<proposals, events>>
    BY <1>8 DEF Loads, Reads, SumEligible, Flush, Creates, GivesUp, Silenced, tables
  <2>2. pc[r] # "Commit"
    BY <1>8 DEF Loads, Reads, SumEligible, Flush, Creates, GivesUp, Silenced, At, Uncommitted
  <2>3. ~(pc'[r] = "Commit" /\ body[r].op = "close")
    <3>1. CASE Loads(r) \/ Reads(r) \/ Creates(r) \/ GivesUp(r) \/ Silenced(r)
      BY <1>1, <3>1 DEF Loads, Reads, Creates, GivesUp, Silenced
    <3>2. CASE SumEligible(r) \/ Flush(r)
      BY <1>1, <3>2 DEF SumEligible, Flush, Goto
    <3> QED  BY <1>8, <3>1, <3>2
  <2>4. ~Closing(r, p)' /\ ~Closing(r, p)
    BY <1>1, <2>2, <2>3 DEF Closing
  <2>5. ResultEvents(p)' = ResultEvents(p)
    BY <2>1 DEF ResultEvents
  <2> QED  BY <1>7, <2>1, <2>4, <2>5
<1>9. CASE Publish(r)
  <2>1. /\ UNCHANGED <<proposals, draft>> /\ events' = Append(events, EventOf(r))
        /\ pc[r] = "Publish" /\ pc'[r] = "Commit"
    BY <1>1, <1>3, <1>9
    DEF Publish, Goto, StageAt, BallotOps, tables, session
  <2>2. PICK S : events \in Seq(S)
    BY DEF TrailInv
  <2> DEFINE n == Len(events)
  <2>3. /\ n \in Nat /\ DOMAIN events = 1 .. n /\ DOMAIN events' = 1 .. (n + 1)
        /\ \A i \in 1 .. n : events'[i] = events[i]
        /\ events'[n + 1] = EventOf(r)
    BY <2>1, <2>2, AppendOne
  <2> HIDE DEF n
  <2>4. /\ \A i \in 1 .. (n + 1) : i \in 1 .. n \/ i = n + 1
        /\ 1 .. n \subseteq 1 .. (n + 1) /\ n + 1 \in 1 .. (n + 1) /\ n + 1 \notin 1 .. n
        /\ \A i \in 1 .. n : n + 1 >= i
    BY <2>3
  <2>5. /\ EventOf(r).proposal = Proposal(r)
        /\ EventOf(r).result = IF body[r].op = "close" THEN Some(draft[r]) ELSE NULL
        /\ Some(draft[r]) # NULL
    BY <1>3 DEF EventOf, Closers, BallotOps, Some, NULL
  <2>6. ResultEvents(p) \subseteq 1 .. n
    BY <2>3 DEF ResultEvents
  <2>7. CASE body[r].op = "close" /\ Proposal(r) = p
    <3>1. n + 1 \in ResultEvents(p)' /\ \A j \in ResultEvents(p)' : n + 1 >= j
      BY <2>3, <2>4, <2>5, <2>7 DEF ResultEvents
    <3>2. LastResult(p, draft[r])'
      BY <2>1, <2>3, <2>5, <2>7, <3>1 DEF LastResult
    <3>3. Closing(r, p)' /\ proposals[p].status # "absent"
      <4>1. Loaded(r)
        BY <2>1, <2>7 DEF Loaded
      <4> QED  BY <1>1, <2>1, <2>7, <4>1 DEF Closing, LoadedInv, Statuses
    <3>4. \A q \in Requests : Closing(q, p)' => q = r
      BY <1>1, <1>4, <2>1, <2>7 DEF LockInv, Closing, Uncommitted, Others
    <3> QED  BY <2>1, <3>2, <3>3, <3>4
  <2>8. CASE ~(body[r].op = "close" /\ Proposal(r) = p)
    <3>1. \A i \in 1 .. (n + 1) :
            (events'[i].proposal = p /\ events'[i].result # NULL) <=>
                i \in 1 .. n /\ events[i].proposal = p /\ events[i].result # NULL
      BY <2>3, <2>4, <2>5, <2>8
    <3>2. ResultEvents(p)' = ResultEvents(p)
      BY <2>3, <2>4, <3>1 DEF ResultEvents
    <3>3. ~Closing(r, p)' /\ ~Closing(r, p)
      BY <1>1, <2>8 DEF Closing
    <3> QED  BY <1>7, <2>1, <2>3, <2>6, <3>2, <3>3
  <2> QED  BY <2>7, <2>8
<1>10. CASE Commits(r)
  <2>1. /\ UNCHANGED <<events, draft>> /\ ~Closing(r, p)' /\ Store(r) /\ pc[r] = "Commit"
        /\ ResultEvents(p)' = ResultEvents(p)
    BY <1>1, <1>10 DEF Commits, Store, At, session, Closing, ResultEvents
  <2>2. /\ proposals'[Proposal(r)] = StoredProposal(r)
        /\ StoredProposal(r).status \in Statuses
        /\ \A o \in Proposals : o # Proposal(r) => proposals'[o] = proposals[o]
    BY <2>1, CommitGrows
  <2>3. CASE p # Proposal(r) \/ body[r].op \in BallotOps
    <3>1. proposals'[p] = proposals[p]
      BY <2>2, <2>3 DEF StoredProposal, BallotOps
    <3>2. ~Closing(r, p)
      BY <2>3 DEF Closing, BallotOps
    <3>3. \A q \in Requests : Closing(q, p)' <=> Closing(q, p)
      BY <1>4, <2>1, <3>2 DEF Others
    <3> QED  BY <1>5, <2>1, <3>1, <3>3 DEF LastResult
  <2>4. CASE p = Proposal(r) /\ body[r].op = "create"
    <3>1. ResultEvents(p) = {}
      BY <1>5, <2>1, <2>4 DEF CreateInv, Uncommitted
    <3>2. ~Closing(r, p)
      BY <2>4 DEF Closing
    <3> QED  BY <1>4, <1>5, <2>1, <3>1, <3>2 DEF Others, LastResult
  <2>5. CASE p = Proposal(r) /\ body[r].op = "close"
    <3>1. Closing(r, p)
      BY <2>1, <2>5 DEF Closing
    <3>2. proposals'[p] = draft[r]
      <4>1. seen[r] = OpenRow /\ Lawful(p, draft[r])
        BY <2>1, <2>5 DEF ResultInv, CloserInv, Closers
      <4>2. StoredProposal(r) = WriteChanged(proposals[p], OpenRow, draft[r])
        BY <2>5, <4>1 DEF StoredProposal, BallotOps
      <4>3. draft[r] = [c \in Columns |-> draft[r][c]]
        BY <2>1, <2>5 DEF LockInv, Written
      <4>4. WriteChanged(proposals[p], OpenRow, draft[r]) = [c \in Columns |-> draft[r][c]]
        BY <4>1 DEF WriteChanged, Lawful
      <4> QED  BY <2>2, <2>5, <4>2, <4>3, <4>4
    <3>3. \A q \in Requests : ~Closing(q, p)'
      BY <1>4, <2>1, <3>1 DEF LockInv, Closing, Uncommitted, Others
    <3>4. LastResult(p, draft[r])
      BY <1>5, <3>1
    <3> QED  BY <2>1, <2>2, <2>5, <3>2, <3>3, <3>4 DEF LastResult, Statuses
  <2> QED  BY <1>3, <2>3, <2>4, <2>5
<1> QED  BY StepKinds, <1>8, <1>9, <1>10

-----------------------------------------------------------------------------
\* When no handler is running and nothing has failed, the last result event that the
\* subscribers got for a proposal is the stored result, however many force_close calls
\* overlapped: each holds the row lock from its UPDATE over its event to its commit.
THEOREM LastResultEventIsStoredHolds ==
    ASSUME OnlyForceClose
    PROVE  Spec => []LastResultEventIsStored
<1>1. Init => EventInv
  <2> SUFFICES ASSUME Init PROVE EventInv
    OBVIOUS
  <2>1. \A r \in Requests : pc[r] = "idle"
    BY DEF Init
  <2>2. \A p \in Proposals : ResultEvents(p) = {}
    <3>1. events = <<>> /\ DOMAIN events = {}
      <4>1. <<>> \in Seq({}) /\ Len(<<>>) = 0
        OBVIOUS
      <4>2. DOMAIN <<>> = 1 .. 0 /\ 1 .. 0 = {}
        BY <4>1
      <4> QED  BY <4>2 DEF Init
    <3> QED  BY <3>1 DEF ResultEvents
  <2>3. LockInv /\ LastInv
    BY <2>1, <2>2 DEF LockInv, LastInv, Closing, Uncommitted, Written
  <2> QED  BY <2>3, InitTrail, InitResults DEF EventInv
<1>2. EventInv /\ [Next]_vars => EventInv'
  <2> SUFFICES ASSUME EventInv, [Next]_vars PROVE EventInv'
    OBVIOUS
  <2>1. (BaseInv /\ TrailInv)'
    BY NextKeepsTrail DEF EventInv
  <2>2. ResultInv'
    BY StepKeepsResults DEF EventInv, OnlyForceClose, BallotOps
  <2>3. ASSUME NEW r \in Requests, Step(r) \/ Fail(r) \/ LoseCommitReply(r)
        PROVE  (LockInv /\ LastInv)'
    BY <2>3, StepKeepsLock, StepKeepsLast
    DEF EventInv, BaseInv, RegisterInv, VoterInv
  <2>4. ASSUME NEW r \in Requests, Receive(r) PROVE (LockInv /\ LastInv)'
    <3>1. /\ UNCHANGED <<proposals, events, faults, draft>> /\ pc[r] = "idle"
          /\ pc \in [Requests -> Labels]
          /\ \E b, l : /\ body' = [body EXCEPT ![r] = b]
                       /\ pc' = [pc EXCEPT ![r] = l] /\ l \in {"ReadProposal", "CheckId"}
      BY <2>4 DEF Receive, At, tables, world, session, EventInv, BaseInv, RegisterInv,
                  VoterInv, TypeInv, TypeOK
    <3>2. \A q \in Requests :
            /\ Uncommitted(q)' => Uncommitted(q) /\ body'[q] = body[q] /\ Proposal(q)' = Proposal(q)
            /\ Written(q)' => Written(q) /\ body'[q] = body[q]
            /\ \A p \in Proposals : Closing(q, p)' <=> Closing(q, p)
      BY <3>1 DEF Uncommitted, Written, Closing, Proposal, EventInv, BaseInv, RegisterInv,
                  VoterInv, TypeInv
    <3>3. LockInv'
      BY <3>1, <3>2 DEF EventInv, LockInv
    <3>4. LastInv'
      BY <3>1, <3>2 DEF EventInv, LastInv, LastResult, ResultEvents
    <3> QED  BY <3>3, <3>4
  <2>5. ASSUME \/ \E trade \in Trades : SetOwnership(trade[1], trade[2])
               \/ \E u \in Leavers : DeactivateUser(u)
               \/ Tick \/ Wait \/ UNCHANGED vars
        PROVE  UNCHANGED <<proposals, events, faults, draft, pc, body>>
    BY <2>5 DEF SetOwnership, DeactivateUser, Tick, Wait, vars, world, tables, requests, session
  <2>6. ASSUME UNCHANGED <<proposals, events, faults, draft, pc, body>>
        PROVE  (LockInv /\ LastInv)'
    BY <2>6 DEF EventInv, LockInv, LastInv, LastResult, ResultEvents, Closing, Uncommitted,
                Written, Proposal
  <2> QED  BY <2>1, <2>2, <2>3, <2>4, <2>5, <2>6 DEF EventInv, Next
<1>3. EventInv => LastResultEventIsStored
  <2> SUFFICES ASSUME EventInv, InFlight = {}, faults = 0,
                      NEW p \in Proposals, ResultEvents(p) # {}
      PROVE  events[Max(ResultEvents(p))].result = Some(proposals[p])
    BY DEF LastResultEventIsStored
  <2>1. \A r \in Requests : ~Closing(r, p)
    BY DEF InFlight, Closing
  <2>2. PICK i \in ResultEvents(p) :
            (\A j \in ResultEvents(p) : i >= j) /\ events[i].result = Some(proposals[p])
    BY <2>1 DEF EventInv, LastInv, LastResult
  <2>3. ResultEvents(p) \subseteq Int
    BY DEF ResultEvents, EventInv, TrailInv
  <2>4. Max(ResultEvents(p)) = i
    BY <2>2, <2>3, Greatest
  <2> QED  BY <2>2, <2>4
<1> QED  BY <1>1, <1>2, <1>3, PTL DEF Spec

-----------------------------------------------------------------------------
(* Requests that do not overlap.                                           *)

\* Requests are served one after the other, and no status update opens a proposal again.
OneAtATime == ~(MaxInFlight > 1)
NoReopening == \A b \in Bodies : b.op = "status" => b.status \notin {"open", "pending"}

Final == {"closed", "cancelled"}

\* The row has the weights of the votes vs.
Counts(row, vs) ==
    /\ row.yes = Some(CastWeight(vs, "YES"))
    /\ row.no = Some(CastWeight(vs, "NO"))
    /\ row.abstain = Some(CastWeight(vs, "ABSTAIN"))

\* What a handler that is alone has loaded, summed and assigned is still the case.
Fresh(r) ==
    /\ Loaded(r) /\ pc[r] # "Announce" =>
        /\ seen[r] = proposals[Proposal(r)]
        /\ body[r].op \in Closers => seen[r].status \notin Final
    /\ pc[r] = "SumEligible" => ballots[r] = VotesOn(Proposal(r))
    /\ Written(r) /\ body[r].op \in Closers =>
        draft[r].status = "closed" /\ Counts(draft[r], VotesOn(Proposal(r)))
    /\ Written(r) /\ body[r].op = "status" =>
        /\ draft[r].status \in Final
        /\ \A c \in Columns \ {"status"} : draft[r][c] = seen[r][c]

\* The row whose weight a delegation raises is a vote on its proposal.
TargetInv ==
    \A r \in Requests : \A t \in target[r] :
        pc[r] # "idle" /\ \E v \in votes : v.id = t.id /\ v.proposal = Proposal(r)

\* A result counts every vote of its proposal, where voting is over; so it is wherever
\* somebody was told that he has closed it.
CountedInv ==
    /\ \A p \in Proposals : proposals[p].computed_at # NULL =>
        proposals[p].status \in Final /\ Counts(proposals[p], VotesOn(p))
    /\ \A r \in Requests : body[r].op \in Closers /\ reply[r] = "200" =>
        proposals[Proposal(r)].status \in Final

SerialEndInv ==
    /\ BaseInv /\ IdsInv /\ TargetInv /\ CountedInv /\ ClosedOnce
    /\ \A r \in Requests : Fresh(r)

\* A step of a handler keeps the rows that delegations boost.
LEMMA StepKeepsTargets ==
    ASSUME TypeInv, TargetInv, NEW r \in Requests, Step(r) \/ Fail(r) \/ LoseCommitReply(r)
    PROVE  TargetInv'
<1>1. /\ DOMAIN target = Requests /\ pc \in [Requests -> Labels]
      /\ pc[r] # "idle" /\ pc'[r] # "idle"
      /\ \A q \in Requests : Proposal(q)' = Proposal(q)
  <2>1. CASE \/ Loads(r) \/ Reads(r) \/ SumEligible(r) \/ Flush(r) \/ Creates(r)
             \/ GivesUp(r) \/ Silenced(r) \/ Publish(r) \/ Commits(r)
    BY <2>1, StepKinds
    DEF TypeInv, TypeOK, SessionInv, Proposal, Loads, Reads, SumEligible, Flush, Creates,
        GivesUp, Silenced, Publish, Commits, Goto
  <2> QED  BY StepKinds, <2>1
<1>2. \A q \in Others(r) : pc'[q] = pc[q] /\ target'[q] = target[q]
  BY StepFrame
<1>3. \A v \in votes : \E w \in votes' : w.id = v.id /\ w.proposal = v.proposal
  <2>1. CASE Commits(r)
    BY <2>1, CommittedVotes DEF Commits
  <2>2. CASE \/ Loads(r) \/ Reads(r) \/ SumEligible(r) \/ Flush(r) \/ Creates(r)
             \/ GivesUp(r) \/ Silenced(r) \/ Publish(r)
    BY <2>2
    DEF Loads, Reads, SumEligible, Flush, Creates, GivesUp, Silenced, Publish, tables
  <2> QED  BY StepKinds, <2>1, <2>2
<1>4. \A t \in target'[r] : t \in target[r] \/ t \in VotesOn(Proposal(r))
  <2>1. CASE Reads(r)
    BY <1>1, <2>1 DEF Reads, ReadTargetVote, VotesOf, VotesOn
  <2>2. CASE \/ Loads(r) \/ SumEligible(r) \/ Flush(r) \/ Creates(r)
             \/ GivesUp(r) \/ Silenced(r) \/ Publish(r) \/ Commits(r)
    BY <2>2
    DEF Loads, SumEligible, Flush, Creates, GivesUp, Silenced, Publish, Commits, session
  <2> QED  BY StepKinds, <2>1, <2>2
<1>5. \A v \in VotesOn(Proposal(r)) : v \in votes /\ v.proposal = Proposal(r)
  BY DEF VotesOn
<1>6. ASSUME NEW q \in Requests, NEW t \in target'[q]
      PROVE  pc'[q] # "idle" /\ \E w \in votes' : w.id = t.id /\ w.proposal = Proposal(q)
  <2>1. CASE q = r
    <3>1. \E v \in votes : v.id = t.id /\ v.proposal = Proposal(r)
      BY <1>4, <1>5, <1>6, <2>1 DEF TargetInv
    <3> QED  BY <1>1, <1>3, <2>1, <3>1
  <2>2. CASE q # r
    BY <1>2, <1>3, <1>6, <2>2 DEF TargetInv, Others
  <2> QED  BY <2>1, <2>2
<1> QED  BY <1>1, <1>6 DEF TargetInv

\* A commit leaves the votes on other proposals alone.
LEMMA VotesElsewhere ==
    ASSUME IdsInv, TargetInv, NEW r \in Requests, Store(r), NEW p,
           p # Proposal(r) \/ body[r].op \notin BallotOps
    PROVE  VotesOn(p)' = VotesOn(p)
<1>1. CASE body[r].op \notin BallotOps
  BY <1>1 DEF Store, StoredVotes, BallotOps, VotesOn
<1>2. CASE p # Proposal(r) /\ body[r].op \in BallotOps
  <2> DEFINE F(v) == IF body[r].op = "delegate" THEN Boosted(v, r) ELSE v
  <2>1. votes' = {F(v) : v \in votes} \cup {VoteRow(r)}
    BY <1>2 DEF Store, StoredVotes, BallotOps
  <2>2. ASSUME NEW v \in votes, v.proposal = p PROVE F(v) = v
    <3>1. ~ \E t \in target[r] : t.id = v.id
      BY <1>2, <2>2 DEF TargetInv, IdsInv
    <3> QED  BY <3>1 DEF Boosted
  <2>3. \A v \in votes : F(v).proposal = v.proposal
    BY DEF Boosted, WithWeight
  <2>4. VoteRow(r).proposal # p
    BY <1>2 DEF VoteRow
  <2> HIDE DEF F
  <2> QED  BY <2>1, <2>2, <2>3, <2>4 DEF VotesOn
<1> QED  BY <1>1, <1>2

\* A handler that runs is alone, and stays so.
LEMMA Alone ==
    ASSUME OneAtATime, RegisterInv, NEW r \in Requests,
           Step(r) \/ Fail(r) \/ LoseCommitReply(r)
    PROVE  \A q \in Others(r) : pc[q] \in {"idle", "done"} /\ pc'[q] = pc[q]
<1>1. r \in InFlight
  BY HandlerSteps DEF RegisterInv, VoterInv
<1>2. \A q \in InFlight : q = r
  BY <1>1 DEF RegisterInv, SerialInv, OneAtATime
<1>3. \A q \in Others(r) : pc'[q] = pc[q]
  BY StepFrame DEF RegisterInv, VoterInv
<1> QED  BY <1>2, <1>3 DEF InFlight, Others

\* A step of a handler that is alone keeps what it knows true.
LEMMA StepKeepsFresh ==
    ASSUME OneAtATime, NoReopening, SerialEndInv, NEW r \in Requests,
           Step(r) \/ Fail(r) \/ LoseCommitReply(r)
    PROVE  \A q \in Requests : Fresh(q)'
<1> USE DEF SerialEndInv, BaseInv, RegisterInv, VoterInv
<1>1. /\ pc \in [Requests -> Labels] /\ body' = body /\ body[r] \in Bodies
      /\ DOMAIN seen = Requests /\ DOMAIN draft = Requests /\ DOMAIN ballots = Requests
      /\ Proposal(r)' = Proposal(r) /\ StageAt(body[r], pc[r])
  BY StepKinds DEF TypeInv, TypeOK, SessionInv, Stage, Proposal
<1>2. Proposal(r) \in Proposals /\ body[r].op \in BallotOps \cup Closers \cup {"status", "create"}
  BY <1>1, BodyTypes DEF Proposal
<1>3. \A q \in Others(r) : Fresh(q)'
  <2>1. \A q \in Others(r) : pc'[q] \in {"idle", "done"}
    BY Alone
  <2> QED  BY <2>1 DEF Fresh, Loaded, Written
<1>4. CASE Loads(r)
  <2>1. IsRow(proposals[Proposal(r)])
    BY <1>2 DEF TypeInv, TypeOK, IsRow
  <2>2. /\ proposals' = proposals /\ seen'[r] = proposals[Proposal(r)]
        /\ body[r].op \in Closers => proposals[Proposal(r)].status \notin Final
    BY <1>1, <1>4 DEF Loads, tables, Admits, Closers, BallotOps, Final
  <2>3. /\ pc'[r] \notin {"SumEligible", "Publish", "Commit"}
        /\ pc'[r] = "Flush" => body[r].op = "status"
    BY <1>1, <1>2, <1>4 DEF Loads
  <2>4. ASSUME body[r].op = "status"
        PROVE  /\ draft'[r].status \in Final
               /\ \A c \in Columns \ {"status"} : draft'[r][c] = proposals[Proposal(r)][c]
    <3>1. draft'[r] = [proposals[Proposal(r)] EXCEPT !.status = body[r].status]
      BY <1>1, <1>4, <2>4 DEF Loads
    <3>2. body[r].status \in Statuses \ {"open", "pending"}
      <4>1. body[r].status # "INVALID"
        BY <1>4, <2>4 DEF Loads, Admits, BallotOps
      <4> QED  BY <1>1, <2>4, <4>1, BodyTypes DEF NoReopening
    <3> QED  BY <2>1, <3>1, <3>2 DEF IsRow, Columns, Statuses, Final
  <2>5. body[r].op = "status" => body[r].op \notin Closers
    BY DEF Closers
  <2>6. Fresh(r)'
    BY <1>1, <2>2, <2>3, <2>4, <2>5 DEF Fresh, Loaded, Written
  <2> QED  BY <1>3, <2>6 DEF Others
<1>5. CASE Reads(r)
  <2>1. /\ UNCHANGED <<proposals, votes, seen, draft>> /\ pc[r] # "Announce"
        /\ pc'[r] = "SumEligible" => ReadBallots(r)
        /\ Written(r)' => body[r].op \in BallotOps
    BY <1>1, <1>5 DEF Reads, tables, Written
  <2>2. Loaded(r)' => Loaded(r)
    <3>1. pc[r] = "CheckId" => body[r].op = "create"
      BY <1>1 DEF StageAt
    <3> QED  BY <1>1, <1>5, <3>1 DEF Reads, Loaded
  <2>3. pc'[r] = "SumEligible" => ballots'[r] = VotesOn(Proposal(r))
    BY <1>1, <2>1 DEF ReadBallots
  <2>4. VotesOn(Proposal(r))' = VotesOn(Proposal(r))
    BY <1>1, <2>1 DEF VotesOn
  <2>5. body[r].op \in BallotOps => body[r].op \notin Closers \cup {"status"}
    BY DEF BallotOps, Closers
  <2>6. Fresh(r)'
    BY <1>1, <2>1, <2>2, <2>3, <2>4, <2>5 DEF Fresh
  <2> QED  BY <1>3, <2>6 DEF Others
<1>6. CASE SumEligible(r)
  <2>1. /\ UNCHANGED <<proposals, votes, seen>> /\ pc[r] = "SumEligible" /\ pc'[r] = "Flush"
        /\ body[r].op \in Closers
    BY <1>1, <1>6 DEF SumEligible, tables, At, Goto, StageAt
  <2>2. /\ draft'[r].status = "closed"
        /\ Counts(draft'[r], ballots[r])
    BY <1>1, <1>6 DEF SumEligible, ClosedRow, Tally, Counts
  <2>3. VotesOn(Proposal(r))' = VotesOn(Proposal(r))
    BY <1>1, <2>1 DEF VotesOn
  <2>4. Loaded(r) /\ ballots[r] = VotesOn(Proposal(r)) /\ body[r].op # "status"
    BY <2>1 DEF Fresh, Loaded, Closers
  <2>5. Counts(draft[r], VotesOn(Proposal(r)))'
    BY <2>2, <2>3, <2>4 DEF Counts
  <2>6. Fresh(r)'
    BY <1>1, <2>1, <2>2, <2>3, <2>4, <2>5 DEF Fresh
  <2> QED  BY <1>3, <2>6 DEF Others
<1>7. CASE Flush(r) \/ Publish(r)
  <2>1. UNCHANGED <<proposals, votes, seen, draft>>
    BY <1>7 DEF Flush, Publish, tables, session
  <2>2. \/ pc'[r] = "done"
        \/ Written(r) /\ Written(r)' /\ pc[r] # "Announce" /\ pc'[r] # "SumEligible"
    BY <1>1, <1>7 DEF Flush, Publish, At, Goto, Written
  <2>3. VotesOn(Proposal(r))' = VotesOn(Proposal(r))
    BY <1>1, <2>1 DEF VotesOn
  <2>4. Fresh(r)'
    <3>1. CASE pc'[r] = "done"
      BY <3>1 DEF Fresh, Loaded, Written
    <3>2. CASE Written(r) /\ Written(r)' /\ pc[r] # "Announce" /\ pc'[r] # "SumEligible"
      <4>1. Loaded(r)' => Loaded(r)
        BY <1>1, <3>2 DEF Loaded, Written
      <4>2. Counts(draft[r], VotesOn(Proposal(r)))' <=> Counts(draft[r], VotesOn(Proposal(r)))
        BY <2>1, <2>3 DEF Counts
      <4> QED  BY <1>1, <2>1, <3>2, <4>1, <4>2 DEF Fresh
    <3> QED  BY <2>2, <3>1, <3>2
  <2> QED  BY <1>3, <2>4 DEF Others
<1>8. CASE Creates(r)
  <2>1. body'[r].op = "create" /\ pc'[r] = "Publish"
    BY <1>1, <1>8 DEF Creates
  <2>2. Fresh(r)'
    BY <2>1 DEF Fresh, Loaded, Closers
  <2> QED  BY <1>3, <2>2 DEF Others
<1>9. CASE GivesUp(r) \/ Silenced(r) \/ Commits(r)
  <2>1. pc'[r] \in {"Announce", "done"}
    BY <1>1, <1>9 DEF GivesUp, Silenced, Commits
  <2>2. Fresh(r)'
    BY <2>1 DEF Fresh, Loaded, Written
  <2> QED  BY <1>3, <2>2 DEF Others
<1> QED  BY StepKinds, <1>4, <1>5, <1>6, <1>7, <1>8, <1>9

\* What a handler that is alone commits is a final status, of a proposal that had none if
\* it closes, and the weights of the votes if there is a result.
LEMMA CommitCounts ==
    ASSUME OneAtATime, NoReopening, SerialEndInv, NEW r \in Requests, Store(r),
           Step(r) \/ Fail(r) \/ LoseCommitReply(r)
    PROVE  /\ \A p \in Proposals : proposals'[p].computed_at # NULL =>
                proposals'[p].status \in Final /\ Counts(proposals'[p], VotesOn(p)')
           /\ \A p \in Proposals : proposals[p].status \in Final => proposals'[p].status \in Final
           /\ body[r].op \in Closers =>
                /\ proposals[Proposal(r)].status \notin Final
                /\ proposals'[Proposal(r)].status \in Final
<1> USE DEF SerialEndInv, BaseInv, RegisterInv, VoterInv
<1>1. /\ body[r] \in Bodies /\ pc[r] = "Commit" /\ Proposal(r) \in Proposals
      /\ proposals'[Proposal(r)] = StoredProposal(r)
      /\ \A p \in Proposals : p # Proposal(r) => proposals'[p] = proposals[p]
      /\ body[r].op # "create" => Loaded(r)
      /\ Proposal(r)' = Proposal(r)
  BY CommitGrows, StepKinds DEF Store, At, Loaded, Proposal
<1>2. body[r].op \in BallotOps \cup Closers \cup {"status", "create"}
  BY <1>1, BodyTypes
<1>3. \A p \in Proposals : p # Proposal(r) \/ body[r].op \notin BallotOps =>
          VotesOn(p)' = VotesOn(p)
  BY VotesElsewhere
<1>4. ASSUME StoredProposal(r).computed_at # NULL =>
                StoredProposal(r).status \in Final
                /\ Counts(StoredProposal(r), VotesOn(Proposal(r))'),
             proposals[Proposal(r)].status \in Final => StoredProposal(r).status \in Final,
             body[r].op \in Closers =>
                /\ proposals[Proposal(r)].status \notin Final
                /\ StoredProposal(r).status \in Final
      PROVE  /\ \A p \in Proposals : proposals'[p].computed_at # NULL =>
                  proposals'[p].status \in Final /\ Counts(proposals'[p], VotesOn(p)')
             /\ \A p \in Proposals : proposals[p].status \in Final => proposals'[p].status \in Final
             /\ body[r].op \in Closers =>
                  /\ proposals[Proposal(r)].status \notin Final
                  /\ proposals'[Proposal(r)].status \in Final
  <2>1. ASSUME NEW p \in Proposals, p # Proposal(r)
        PROVE  /\ proposals'[p].computed_at # NULL =>
                    proposals'[p].status \in Final /\ Counts(proposals'[p], VotesOn(p)')
               /\ proposals[p].status \in Final => proposals'[p].status \in Final
    <3>1. proposals'[p] = proposals[p]
      BY <1>1, <2>1
    <3>2. VotesOn(p)' = VotesOn(p)
      BY <1>3, <2>1
    <3>3. proposals[p].computed_at # NULL =>
            proposals[p].status \in Final /\ Counts(proposals[p], VotesOn(p))
      BY DEF CountedInv
    <3> QED  BY <3>1, <3>2, <3>3
  <2> QED  BY <1>1, <1>4, <2>1
<1>5. CASE body[r].op = "create"
  <2>1. proposals[Proposal(r)].status = "absent"
    BY <1>1, <1>5 DEF CreateInv, Uncommitted
  <2>2. StoredProposal(r).computed_at = NULL
    BY <1>5 DEF StoredProposal, OpenRow, BallotOps
  <2> QED  BY <1>4, <1>5, <2>1, <2>2 DEF Final, Closers
<1>6. CASE body[r].op \in BallotOps
  <2>1. StoredProposal(r) = proposals[Proposal(r)] /\ body[r].op \notin Closers
    BY <1>6 DEF StoredProposal, BallotOps, Closers
  <2>2. proposals[Proposal(r)].status \notin Final
    BY <1>1, <1>6 DEF SerialInv, OneAtATime, BallotOps, Final
  <2>3. proposals[Proposal(r)].computed_at = NULL
    BY <1>1, <2>2 DEF CountedInv
  <2> QED  BY <1>4, <2>1, <2>2, <2>3
<1>7. CASE body[r].op \in Closers \cup {"status"}
  <2>1. /\ Written(r) /\ Loaded(r) /\ body[r].op \notin BallotOps
        /\ seen[r] = proposals[Proposal(r)]
        /\ body[r].op \in Closers => seen[r].status \notin Final
    BY <1>1, <1>7 DEF Fresh, Written, BallotOps, Closers
  <2>2. /\ StoredProposal(r) = WriteChanged(proposals[Proposal(r)], seen[r], draft[r])
        /\ VotesOn(Proposal(r))' = VotesOn(Proposal(r))
    <3>1. body[r].op # "create"
      BY <1>7 DEF Closers
    <3> QED  BY <1>1, <1>3, <2>1, <3>1 DEF StoredProposal
  <2>3. \A c \in Columns : StoredProposal(r)[c] = draft[r][c]
    BY <2>1, <2>2 DEF WriteChanged
  <2>4. CASE body[r].op \in Closers
    <3>1. draft[r].status = "closed" /\ Counts(draft[r], VotesOn(Proposal(r)))
      BY <2>1, <2>4 DEF Fresh
    <3>2. StoredProposal(r).status \in Final /\ Counts(StoredProposal(r), VotesOn(Proposal(r)))
      BY <2>3, <3>1 DEF Counts, Columns, Final
    <3> QED  BY <1>4, <2>1, <2>2, <2>4, <3>2
  <2>5. CASE body[r].op = "status"
    <3>1. /\ draft[r].status \in Final
          /\ \A c \in Columns \ {"status"} : draft[r][c] = proposals[Proposal(r)][c]
      BY <2>1, <2>5 DEF Fresh
    <3>2. /\ StoredProposal(r).status \in Final
          /\ \A c \in Columns \ {"status"} : StoredProposal(r)[c] = proposals[Proposal(r)][c]
      BY <2>3, <3>1 DEF Columns
    <3>3. proposals[Proposal(r)].computed_at # NULL =>
              Counts(proposals[Proposal(r)], VotesOn(Proposal(r)))
      BY <1>1 DEF CountedInv
    <3>4. StoredProposal(r).computed_at # NULL =>
              Counts(StoredProposal(r), VotesOn(Proposal(r)))
      BY <3>2, <3>3 DEF Counts, Columns
    <3>5. body[r].op \notin Closers
      BY <2>5 DEF Closers
    <3> QED  BY <1>4, <2>2, <3>2, <3>4, <3>5
  <2> QED  BY <1>7, <2>4, <2>5
<1> QED  BY <1>2, <1>5, <1>6, <1>7

\* A step of a handler that is alone keeps the results counted, and closed once.
LEMMA StepKeepsCounted ==
    ASSUME OneAtATime, NoReopening, SerialEndInv, NEW r \in Requests,
           Step(r) \/ Fail(r) \/ LoseCommitReply(r)
    PROVE  (CountedInv /\ ClosedOnce)'
<1> USE DEF SerialEndInv, BaseInv, RegisterInv, VoterInv
<1>1. /\ reply \in [Requests -> Codes \cup {""}] /\ body' = body /\ body[r] \in Bodies
      /\ \A q \in Requests : Proposal(q)' = Proposal(q)
  BY StepKinds DEF TypeInv, TypeOK, Proposal
<1>2. \A q \in Requests : reply[q] = "200" => Proposal(q) \in Proposals
  <2> SUFFICES ASSUME NEW q \in Requests, reply[q] = "200" PROVE Proposal(q) \in Proposals
    OBVIOUS
  <2>1. body[q] \in Bodies
    BY DEF ReplyInv, Ended, TypeInv, Stage, StageAt
  <2> QED  BY <2>1, BodyTypes DEF Proposal
<1>3. CASE Commits(r)
  <2>1. /\ \A p \in Proposals : proposals'[p].computed_at # NULL =>
              proposals'[p].status \in Final /\ Counts(proposals'[p], VotesOn(p)')
        /\ \A p \in Proposals : proposals[p].status \in Final => proposals'[p].status \in Final
        /\ body[r].op \in Closers =>
              /\ proposals[Proposal(r)].status \notin Final
              /\ proposals'[Proposal(r)].status \in Final
    BY <1>3, CommitCounts DEF Commits
  <2>2. \A q \in Others(r) : reply'[q] = reply[q]
    BY StepFrame
  <2>3. \A q \in Others(r) : body[q].op \in Closers /\ reply'[q] = "200" =>
            proposals[Proposal(q)].status \in Final /\ proposals'[Proposal(q)].status \in Final
    BY <1>2, <2>1, <2>2 DEF CountedInv, Others
  <2>4. CountedInv'
    <3>1. \A p \in Proposals : proposals'[p].computed_at # NULL =>
              proposals'[p].status \in Final /\ Counts(proposals[p], VotesOn(p))'
      BY <2>1 DEF Counts
    <3>2. \A q \in Requests : body'[q].op \in Closers /\ reply'[q] = "200" =>
              proposals'[Proposal(q)'].status \in Final
      BY <1>1, <2>1, <2>3 DEF Others
    <3> QED  BY <3>1, <3>2 DEF CountedInv, Final
  <2>5. ClosedOnce'
    <3>1. ASSUME NEW q \in Others(r), body[q].op \in Closers, reply'[q] = "200",
                 body[r].op \in Closers
          PROVE  Proposal(q) # Proposal(r)
      BY <2>1, <2>3, <3>1
    <3> HIDE DEF SerialEndInv, BaseInv, RegisterInv, VoterInv
    <3>2. ClosedOnce
      BY DEF SerialEndInv
    <3> QED  BY <1>1, <2>2, <3>1, <3>2 DEF ClosedOnce, Others
  <2> QED  BY <2>4, <2>5
<1>4. CASE \/ Loads(r) \/ Reads(r) \/ SumEligible(r) \/ Flush(r) \/ Creates(r)
           \/ GivesUp(r) \/ Silenced(r) \/ Publish(r)
  <2>1. UNCHANGED <<proposals, votes>>
    BY <1>4 DEF Loads, Reads, SumEligible, Flush, Creates, GivesUp, Silenced, Publish, tables
  <2>2. \A q \in Requests : reply'[q] = "200" => reply[q] = "200"
    BY <1>1, <1>4 DEF Loads, Reads, SumEligible, Flush, Creates, GivesUp, Silenced, Publish, Goto
  <2>3. \A p : VotesOn(p)' = VotesOn(p)
    BY <2>1 DEF VotesOn
  <2>4. CountedInv'
    BY <1>1, <2>1, <2>2, <2>3 DEF CountedInv, Counts
  <2>5. ClosedOnce'
    BY <1>1, <2>2 DEF ClosedOnce
  <2> QED  BY <2>4, <2>5
<1> QED  BY StepKinds, <1>3, <1>4

\* Every step keeps what is true of requests that do not overlap.
LEMMA NextKeepsSerialEnd ==
    ASSUME OneAtATime, NoReopening
    PROVE  SerialEndInv /\ [Next]_vars => SerialEndInv'
<1> SUFFICES ASSUME SerialEndInv, [Next]_vars PROVE SerialEndInv'
  OBVIOUS
<1>1. BaseInv' /\ IdsInv'
  BY StepKeepsBase, NextKeepsIds DEF SerialEndInv, BaseInv, RegisterInv, VoterInv
<1>2. ASSUME NEW r \in Requests, Step(r) \/ Fail(r) \/ LoseCommitReply(r)
      PROVE  (TargetInv /\ CountedInv /\ ClosedOnce)' /\ \A q \in Requests : Fresh(q)'
  BY <1>2, StepKeepsTargets, StepKeepsFresh, StepKeepsCounted
  DEF SerialEndInv, BaseInv, RegisterInv, VoterInv
<1>3. ASSUME NEW r \in Requests, Receive(r)
      PROVE  (TargetInv /\ CountedInv /\ ClosedOnce)' /\ \A q \in Requests : Fresh(q)'
  <2>1. /\ UNCHANGED <<proposals, votes, reply, seen, target, ballots, draft>>
        /\ pc[r] = "idle" /\ reply[r] # "200"
    BY <1>3 DEF Receive, At, tables, session, SerialEndInv, BaseInv, ReplyInv, Ended
  <2>2. /\ \A q \in Others(r) : pc'[q] = pc[q] /\ body'[q] = body[q]
        /\ pc'[r] \in {"CheckId", "ReadProposal"}
    BY <1>3 DEF Receive, Others, SerialEndInv, BaseInv, RegisterInv, VoterInv, TypeInv, TypeOK
  <2>3. \A q \in Others(r) : Proposal(q)' = Proposal(q)
    BY <2>2 DEF Proposal
  <2>4. \A p : VotesOn(p)' = VotesOn(p)
    BY <2>1 DEF VotesOn
  <2>5. TargetInv'
    BY <2>1, <2>2, <2>3 DEF SerialEndInv, TargetInv, Others
  <2>6. CountedInv'
    BY <2>1, <2>2, <2>3, <2>4 DEF SerialEndInv, CountedInv, Counts, Others
  <2>7. ClosedOnce'
    BY <2>1, <2>2, <2>3 DEF SerialEndInv, ClosedOnce, Others
  <2>8. Fresh(r)'
    BY <2>2 DEF Fresh, Loaded, Written
  <2>9. ASSUME NEW q \in Others(r) PROVE Fresh(q)'
    <3>1. Fresh(q) /\ (Loaded(q)' <=> Loaded(q)) /\ (Written(q)' <=> Written(q))
      BY <2>2 DEF SerialEndInv, Loaded, Written, Others
    <3>2. Counts(draft[q], VotesOn(Proposal(q)))' <=> Counts(draft[q], VotesOn(Proposal(q)))
      BY <2>1, <2>3, <2>4 DEF Counts
    <3> QED  BY <2>1, <2>2, <2>3, <2>4, <3>1, <3>2 DEF Fresh
  <2> QED  BY <2>5, <2>6, <2>7, <2>8, <2>9 DEF Others
<1>4. ASSUME UNCHANGED <<proposals, votes, pc, body, reply, seen, target, ballots, draft>>
      PROVE  (TargetInv /\ CountedInv /\ ClosedOnce)' /\ \A q \in Requests : Fresh(q)'
  <2>1. \A p : VotesOn(p)' = VotesOn(p)
    BY <1>4 DEF VotesOn
  <2>2. \A q : Proposal(q)' = Proposal(q) /\ (Loaded(q)' <=> Loaded(q)) /\ (Written(q)' <=> Written(q))
    BY <1>4 DEF Proposal, Loaded, Written
  <2>3. TargetInv' /\ ClosedOnce'
    BY <1>4, <2>2 DEF SerialEndInv, TargetInv, ClosedOnce
  <2>4. CountedInv'
    BY <1>4, <2>1, <2>2 DEF SerialEndInv, CountedInv, Counts
  <2>5. ASSUME NEW q \in Requests PROVE Fresh(q)'
    <3>1. Counts(draft[q], VotesOn(Proposal(q)))' <=> Counts(draft[q], VotesOn(Proposal(q)))
      BY <1>4, <2>1, <2>2 DEF Counts
    <3>2. Fresh(q)
      BY DEF SerialEndInv
    <3> QED  BY <1>4, <2>1, <2>2, <3>1, <3>2 DEF Fresh
  <2> QED  BY <2>3, <2>4, <2>5
<1>5. ASSUME \/ \E trade \in Trades : SetOwnership(trade[1], trade[2])
             \/ \E u \in Leavers : DeactivateUser(u)
             \/ Tick \/ Wait \/ UNCHANGED vars
      PROVE  UNCHANGED <<proposals, votes, pc, body, reply, seen, target, ballots, draft>>
  BY <1>5 DEF SetOwnership, DeactivateUser, Tick, Wait, vars, tables, requests, session
<1> QED  BY <1>1, <1>2, <1>3, <1>4, <1>5 DEF SerialEndInv, Next

\* When the run starts nothing has been loaded or closed.
LEMMA InitSerialEnd == Init => SerialEndInv
<1> SUFFICES ASSUME Init PROVE TargetInv /\ CountedInv /\ ClosedOnce /\ \A r \in Requests : Fresh(r)
  BY InitTrail DEF SerialEndInv
<1>1. \A r \in Requests : pc[r] = "idle" /\ reply[r] = "" /\ target[r] = {}
  BY DEF Init
<1>2. \A p \in Proposals : proposals[p].computed_at = NULL
  BY DEF Init, OpenRow, AbsentRow
<1> QED  BY <1>1, <1>2 DEF TargetInv, CountedInv, ClosedOnce, Fresh, Loaded, Written

-----------------------------------------------------------------------------
\* "Proposal is already closed.": served one after the other, of the calls of force_close,
\* of the scheduler and of the command line that close one proposal, one is told that it
\* has; a status update only ends a proposal.  (Calls that overlap are the run double_close.)
THEOREM ClosedOnceHolds ==
    ASSUME OneAtATime, NoReopening
    PROVE  Spec => []ClosedOnce
<1>1. SerialEndInv => ClosedOnce
  BY DEF SerialEndInv
<1> QED  BY <1>1, InitSerialEnd, NextKeepsSerialEnd, PTL DEF Spec

\* "Aggregate all cast votes": served one after the other, the stored result of a closed
\* proposal has the weights of all its votes for ever, the boosted ones included, whatever
\* is voted, delegated, cancelled or killed before and after.  (Calls that overlap are the
\* run late_vote.)
THEOREM AllVotesCountedHolds ==
    ASSUME OneAtATime, NoReopening
    PROVE  Spec => []AllVotesCounted
<1>1. SerialEndInv => AllVotesCounted
  BY DEF SerialEndInv, CountedInv, Counts, AllVotesCounted
<1> QED  BY <1>1, InitSerialEnd, NextKeepsSerialEnd, PTL DEF Spec

-----------------------------------------------------------------------------
(* Sums.  MapThenSumSet is a fold over a recursive function of sets; what  *)
(* it computes follows by induction over the subsets of a finite set.      *)

\* Induction over the subsets of a finite set; G holds those of which a claim is true.
LEMMA SetInduction ==
    ASSUME NEW S, IsFiniteSet(S), NEW G,
           \A U \in SUBSET S : (\A T \in SUBSET U : T # U => T \in G) => U \in G
    PROVE  \A U \in SUBSET S : U \in G
<1> SUFFICES ASSUME \E U \in SUBSET S : U \notin G PROVE FALSE
  OBVIOUS
<1> DEFINE B == {T \in SUBSET S : T \notin G}
<1>1. IsWellFoundedOn(StrictSubsetOrdering(S), FiniteSubsetsOf(S))
  BY FS_StrictSubsetOrderingWellFounded
<1>2. B \subseteq FiniteSubsetsOf(S) /\ B # {}
  BY FS_Subset DEF FiniteSubsetsOf
<1> HIDE DEF B
<1>3. PICK U \in B : \A T \in B : <<T, U>> \notin StrictSubsetOrdering(S)
  BY <1>1, <1>2, WFMin
<1>4. \A T \in SUBSET U : T # U => T \in G
  BY <1>3 DEF B, StrictSubsetOrdering
<1> QED  BY <1>3, <1>4 DEF B

\* The sum of w[x] over the elements x of S.
Total(w, S) == MapThenSumSet(LAMBDA x : w[x], S)

\* The element the fold takes first.
First(s) == CHOOSE x \in s : TRUE

\* The function it is the one the fold defines on the subsets of D.
SumsUp(it, D, w) ==
    it = [s \in SUBSET D |-> IF s = {} THEN 0 ELSE w[First(s)] + it[s \ {First(s)}]]

\* Total by its definition.
LEMMA TotalUnfold ==
    ASSUME NEW S, NEW w
    PROVE  Total(w, S) = (CHOOSE it : SumsUp(it, S, w))[S]
BY DEF Total, MapThenSumSet, MapThenFoldSet, SumsUp, First

\* On a smaller set the fold is the same function, restricted.
LEMMA SumsRestrict ==
    ASSUME NEW D, NEW w, NEW it, SumsUp(it, D, w), NEW T \in SUBSET D
    PROVE  SumsUp([s \in SUBSET T |-> it[s]], T, w)
<1> DEFINE jt == [s \in SUBSET T |-> it[s]]
<1>1. \A s \in SUBSET T : s # {} => First(s) \in s /\ s \ {First(s)} \in SUBSET T
  BY DEF First
<1>2. \A s \in SUBSET T : it[s] = IF s = {} THEN 0 ELSE w[First(s)] + it[s \ {First(s)}]
  BY DEF SumsUp
<1>3. \A s \in SUBSET T : jt[s] = IF s = {} THEN 0 ELSE w[First(s)] + jt[s \ {First(s)}]
  BY <1>1, <1>2
<1>4. jt = [s \in SUBSET T |-> jt[s]]
  OBVIOUS
<1> HIDE DEF jt
<1>5. SumsUp(jt, T, w)
  BY <1>3, <1>4 DEF SumsUp
<1> QED  BY <1>5 DEF jt

\* There is one such function at most.
LEMMA SumsUnique ==
    ASSUME NEW D, IsFiniteSet(D), NEW w, NEW f, NEW g, SumsUp(f, D, w), SumsUp(g, D, w)
    PROVE  f[D] = g[D]
<1> DEFINE G == {s \in SUBSET D : f[s] = g[s]}
<1>1. ASSUME NEW U \in SUBSET D, \A T \in SUBSET U : T # U => T \in G
      PROVE  U \in G
  <2>1. /\ f[U] = IF U = {} THEN 0 ELSE w[First(U)] + f[U \ {First(U)}]
        /\ g[U] = IF U = {} THEN 0 ELSE w[First(U)] + g[U \ {First(U)}]
    BY DEF SumsUp
  <2>2. U # {} => f[U \ {First(U)}] = g[U \ {First(U)}]
    <3>1. U # {} => First(U) \in U
      BY DEF First
    <3> QED  BY <1>1, <3>1
  <2> QED  BY <2>1, <2>2
<1> HIDE DEF G
<1>2. D \in G
  BY <1>1, SetInduction
<1> QED  BY <1>2 DEF G

\* There is one, if D is finite.
LEMMA SumsExist ==
    ASSUME NEW D, IsFiniteSet(D), NEW w
    PROVE  \E it : SumsUp(it, D, w)
<1> DEFINE G == {s \in SUBSET D : \E it : SumsUp(it, s, w)}
<1>1. ASSUME NEW U \in SUBSET D, \A T \in SUBSET U : T # U => T \in G
      PROVE  U \in G
  <2> DEFINE h(s)  == (CHOOSE it : SumsUp(it, s, w))[s]
             it == [s \in SUBSET U |-> IF s # U THEN h(s)
                                       ELSE IF U = {} THEN 0
                                       ELSE w[First(U)] + h(U \ {First(U)})]
  <2>1. \A s \in SUBSET U : s # {} =>
            First(s) \in s /\ s \ {First(s)} \in SUBSET U /\ s \ {First(s)} # U
    BY DEF First
  <2>2. ASSUME NEW s \in SUBSET U, s # U
        PROVE  h(s) = IF s = {} THEN 0 ELSE w[First(s)] + h(s \ {First(s)})
    <3> DEFINE f == CHOOSE i : SumsUp(i, s, w)
               r == s \ {First(s)}
               k == CHOOSE i : SumsUp(i, r, w)
    <3>1. SumsUp(f, s, w)
      <4>1. \E i : SumsUp(i, s, w)
        BY <1>1, <2>2
      <4> QED  BY <4>1
    <3>2. f[s] = IF s = {} THEN 0 ELSE w[First(s)] + f[s \ {First(s)}]
      BY <3>1 DEF SumsUp
    <3>3. ASSUME s # {} PROVE f[r] = h(r)
      <4>1. r \in SUBSET s /\ r \in SUBSET U /\ r # U /\ IsFiniteSet(r)
        BY <2>1, <2>2, <3>3, FS_Subset
      <4>2. SumsUp(k, r, w)
        <5>1. \E i : SumsUp(i, r, w)
          BY <1>1, <4>1
        <5> QED  BY <5>1
      <4>3. SumsUp([t \in SUBSET r |-> f[t]], r, w)
        BY <3>1, <4>1, SumsRestrict
      <4>4. [t \in SUBSET r |-> f[t]][r] = k[r]
        BY <4>1, <4>2, <4>3, SumsUnique
      <4> QED  BY <4>4
    <3> QED  BY <3>2, <3>3
  <2> HIDE DEF h
  <2>3. \A s \in SUBSET U : it[s] = IF s = {} THEN 0 ELSE w[First(s)] + it[s \ {First(s)}]
    <3>1. ASSUME NEW s \in SUBSET U, s # U
          PROVE  it[s] = IF s = {} THEN 0 ELSE w[First(s)] + it[s \ {First(s)}]
      BY <2>1, <2>2, <3>1
    <3>2. it[U] = IF U = {} THEN 0 ELSE w[First(U)] + it[U \ {First(U)}]
      BY <2>1
    <3> QED  BY <3>1, <3>2
  <2>4. it = [s \in SUBSET U |-> it[s]]
    OBVIOUS
  <2> HIDE DEF it
  <2>5. SumsUp(it, U, w)
    BY <2>3, <2>4 DEF SumsUp
  <2> QED  BY <2>5
<1> HIDE DEF G
<1>2. D \in G
  BY <1>1, SetInduction
<1> QED  BY <1>2 DEF G

\* So Total computes what the recursion says.
LEMMA TotalStep ==
    ASSUME NEW S, IsFiniteSet(S), NEW w
    PROVE  Total(w, S) = IF S = {} THEN 0 ELSE w[First(S)] + Total(w, S \ {First(S)})
<1> DEFINE f == CHOOSE i : SumsUp(i, S, w)
           r == S \ {First(S)}
           k == CHOOSE i : SumsUp(i, r, w)
<1>1. IsFiniteSet(r) /\ r \in SUBSET S
  BY FS_RemoveElement
<1>2. SumsUp(f, S, w) /\ SumsUp(k, r, w)
  <2>1. (\E i : SumsUp(i, S, w)) /\ (\E i : SumsUp(i, r, w))
    BY <1>1, SumsExist
  <2> QED  BY <2>1
<1>3. f[r] = k[r]
  <2>1. SumsUp([t \in SUBSET r |-> f[t]], r, w)
    BY <1>1, <1>2, SumsRestrict
  <2>2. [t \in SUBSET r |-> f[t]][r] = k[r]
    BY <1>1, <1>2, <2>1, SumsUnique
  <2> QED  BY <2>2
<1>4. f[S] = IF S = {} THEN 0 ELSE w[First(S)] + f[r]
  BY <1>2 DEF SumsUp
<1>5. Total(w, S) = f[S] /\ Total(w, r) = k[r]
  BY TotalUnfold
<1> QED  BY <1>3, <1>4, <1>5

\* A sum of natural numbers is one.
LEMMA TotalNat ==
    ASSUME NEW S, IsFiniteSet(S), NEW w, \A x \in S : w[x] \in Nat
    PROVE  Total(w, S) \in Nat
<1> DEFINE G == {T \in SUBSET S : Total(w, T) \in Nat}
<1>1. ASSUME NEW U \in SUBSET S, \A T \in SUBSET U : T # U => T \in G
      PROVE  U \in G
  <2>1. Total(w, U) = IF U = {} THEN 0 ELSE w[First(U)] + Total(w, U \ {First(U)})
    BY TotalStep, FS_Subset
  <2>2. U # {} => First(U) \in U
    BY DEF First
  <2>3. U # {} => Total(w, U \ {First(U)}) \in Nat /\ w[First(U)] \in Nat
    BY <1>1, <2>2
  <2> QED  BY <2>1, <2>3
<1> HIDE DEF G
<1>2. S \in G
  BY <1>1, SetInduction
<1> QED  BY <1>2 DEF G

\* The order of the additions does not matter.
LEMMA TotalRemove ==
    ASSUME NEW S, IsFiniteSet(S), NEW w, \A x \in S : w[x] \in Nat
    PROVE  \A x \in S : Total(w, S) = w[x] + Total(w, S \ {x})
<1> DEFINE G == {T \in SUBSET S : \A x \in T : Total(w, T) = w[x] + Total(w, T \ {x})}
<1>1. ASSUME NEW U \in SUBSET S, \A T \in SUBSET U : T # U => T \in G
      PROVE  U \in G
  <2> SUFFICES ASSUME NEW x \in U PROVE Total(w, U) = w[x] + Total(w, U \ {x})
    OBVIOUS
  <2> DEFINE y == First(U)
             V == U \ {y}
             X == U \ {x}
  <2>1. /\ y \in U /\ IsFiniteSet(U) /\ IsFiniteSet(V) /\ IsFiniteSet(X)
        /\ IsFiniteSet(U \ {x, y})
    BY FS_Subset DEF First
  <2>2. Total(w, U) = w[y] + Total(w, V)
    BY <2>1, TotalStep
  <2>3. CASE x = y
    BY <2>2, <2>3
  <2>4. CASE x # y
    <3>1. V \in G /\ X \in G
      BY <1>1, <2>1
    <3>2. Total(w, V) = w[x] + Total(w, V \ {x}) /\ Total(w, X) = w[y] + Total(w, X \ {y})
      BY <2>1, <2>4, <3>1
    <3>3. V \ {x} = U \ {x, y} /\ X \ {y} = U \ {x, y}
      OBVIOUS
    <3>4. Total(w, U \ {x, y}) \in Nat /\ w[x] \in Nat /\ w[y] \in Nat
      BY <2>1, TotalNat
    <3> QED  BY <2>2, <3>2, <3>3, <3>4
  <2> QED  BY <2>3, <2>4
<1> HIDE DEF G
<1>2. S \in G
  BY <1>1, SetInduction
<1> QED  BY <1>2 DEF G

\* The sums over two disjoint sets.
LEMMA TotalUnion ==
    ASSUME NEW S, IsFiniteSet(S), NEW R, IsFiniteSet(R), S \cap R = {}, NEW w,
           \A x \in S \cup R : w[x] \in Nat
    PROVE  Total(w, S \cup R) = Total(w, S) + Total(w, R)
<1> DEFINE G == {T \in SUBSET S : Total(w, T \cup R) = Total(w, T) + Total(w, R)}
<1>1. ASSUME NEW U \in SUBSET S, \A T \in SUBSET U : T # U => T \in G
      PROVE  U \in G
  <2>1. /\ IsFiniteSet(U) /\ IsFiniteSet(U \cup R) /\ Total(w, R) \in Nat
    BY FS_Subset, FS_Union, TotalNat
  <2>2. CASE U = {}
    <3>1. Total(w, {}) = 0 /\ U \cup R = R
      BY <2>1, <2>2, TotalStep
    <3> QED  BY <2>1, <2>2, <3>1
  <2>3. CASE U # {}
    <3>1. PICK x \in U : TRUE
      BY <2>3
    <3> DEFINE V == U \ {x}
    <3>2. /\ Total(w, U) = w[x] + Total(w, V)
          /\ Total(w, U \cup R) = w[x] + Total(w, (U \cup R) \ {x})
      BY <2>1, <3>1, TotalRemove
    <3>3. (U \cup R) \ {x} = V \cup R /\ V \in SUBSET U /\ V # U /\ IsFiniteSet(V)
      BY <2>1, FS_Subset
    <3>4. Total(w, V \cup R) = Total(w, V) + Total(w, R)
      BY <1>1, <3>3
    <3>5. Total(w, V) \in Nat /\ w[x] \in Nat
      BY <3>3, TotalNat
    <3> HIDE DEF V
    <3>6. Total(w, U \cup R) = Total(w, U) + Total(w, R)
      <4>1. Total(w, U \cup R) = w[x] + Total(w, V \cup R)
        BY <3>2, <3>3
      <4>2. Total(w, U) = w[x] + Total(w, V)
        BY <3>2
      <4> QED  BY <2>1, <3>4, <3>5, <4>1, <4>2
    <3> QED  BY <3>6
  <2> QED  BY <2>2, <2>3
<1> HIDE DEF G
<1>2. S \in G
  BY <1>1, SetInduction
<1> QED  BY <1>2 DEF G

\* A part of a set has no larger sum.
LEMMA TotalMonotone ==
    ASSUME NEW S, IsFiniteSet(S), NEW T \in SUBSET S, NEW w, \A x \in S : w[x] \in Nat
    PROVE  Total(w, T) <= Total(w, S)
<1>1. /\ IsFiniteSet(T) /\ IsFiniteSet(S \ T) /\ T \cup (S \ T) = S
  BY FS_Subset
<1>2. Total(w, S) = Total(w, T) + Total(w, S \ T)
  BY <1>1, TotalUnion
<1>3. Total(w, T) \in Nat /\ Total(w, S \ T) \in Nat
  BY <1>1, TotalNat
<1> QED  BY <1>2, <1>3

\* If every w[x] is covered by a part b[x] of U, and the parts are disjoint, then the sum
\* of the w[x] is covered by U.
LEMMA TotalCovered ==
    ASSUME NEW R, IsFiniteSet(R), NEW U, IsFiniteSet(U), NEW w, NEW s, NEW b,
           \A x \in R : w[x] \in Nat, \A u \in U : s[u] \in Nat,
           \A x \in R : b[x] \subseteq U /\ w[x] <= Total(s, b[x]),
           \A x, y \in R : b[x] \cap b[y] # {} => x = y
    PROVE  Total(w, R) <= Total(s, U)
<1> DEFINE Cover(T) == UNION {b[x] : x \in T}
           G == {T \in SUBSET R : Total(w, T) <= Total(s, Cover(T))}
<1>1. ASSUME NEW W \in SUBSET R, \A T \in SUBSET W : T # W => T \in G
      PROVE  W \in G
  <2>1. IsFiniteSet(W) /\ Cover(W) \subseteq U /\ IsFiniteSet(Cover(W)) /\ Total(s, Cover(W)) \in Nat
    <3>1. IsFiniteSet(W) /\ Cover(W) \subseteq U
      BY FS_Subset
    <3>2. IsFiniteSet(Cover(W))
      BY <3>1, FS_Subset
    <3> HIDE DEF Cover
    <3> QED  BY <3>1, <3>2, TotalNat
  <2>2. CASE W = {}
    <3>1. Total(w, W) = 0
      BY <2>1, <2>2, TotalStep
    <3> QED  BY <2>1, <3>1
  <2>3. CASE W # {}
    <3>1. PICK x \in W : TRUE
      BY <2>3
    <3> DEFINE V == W \ {x}
    <3>2. Total(w, W) = w[x] + Total(w, V)
      BY <2>1, TotalRemove
    <3>3. V \in SUBSET W /\ V # W
      OBVIOUS
    <3>4. Total(w, V) <= Total(s, Cover(V))
      BY <1>1, <3>3
    <3>5. Cover(W) = Cover(V) \cup b[x] /\ Cover(V) \cap b[x] = {} /\ Cover(V) \subseteq U
      OBVIOUS
    <3> HIDE DEF Cover
    <3>6. IsFiniteSet(Cover(V)) /\ IsFiniteSet(b[x]) /\ IsFiniteSet(V)
      BY <3>3, <3>5, FS_Subset
    <3>7. Total(s, Cover(W)) = Total(s, Cover(V)) + Total(s, b[x])
      <4>1. \A u \in Cover(V) \cup b[x] : s[u] \in Nat
        BY <3>5
      <4>2. Total(s, Cover(V) \cup b[x]) = Total(s, Cover(V)) + Total(s, b[x])
        BY <3>5, <3>6, <4>1, TotalUnion
      <4> QED  BY <3>5, <4>2
    <3>8. /\ Total(w, V) \in Nat /\ w[x] \in Nat /\ w[x] <= Total(s, b[x])
          /\ Total(s, Cover(V)) \in Nat /\ Total(s, b[x]) \in Nat
      BY <3>5, <3>6, TotalNat
    <3> QED  BY <3>2, <3>4, <3>7, <3>8
  <2> QED  BY <2>2, <2>3
<1> HIDE DEF G
<1>2. R \in G
  BY <1>1, SetInduction
<1>3. Total(w, R) <= Total(s, Cover(R)) /\ Cover(R) \subseteq U
  BY <1>2 DEF G
<1> HIDE DEF Cover
<1>4. Total(s, Cover(R)) <= Total(s, U) /\ Total(s, Cover(R)) \in Nat /\ Total(s, U) \in Nat
      /\ Total(w, R) \in Nat
  <2>1. IsFiniteSet(Cover(R))
    BY <1>3, FS_Subset
  <2> QED  BY <1>3, <2>1, TotalMonotone, TotalNat
<1> QED  BY <1>3, <1>4

\* Nor do the parts weigh more if each is an element of its own, or shares it.
LEMMA TotalImage ==
    ASSUME NEW R, IsFiniteSet(R), NEW w, NEW s, NEW g,
           \A x \in R : w[x] \in Nat /\ s[g[x]] \in Nat /\ s[g[x]] <= w[x]
    PROVE  /\ IsFiniteSet({g[x] : x \in R})
           /\ Total(s, {g[x] : x \in R}) <= Total(w, R)
<1> DEFINE I(T) == {g[x] : x \in T}
           G == {T \in SUBSET R : IsFiniteSet(I(T)) /\ Total(s, I(T)) <= Total(w, T)}
<1>1. ASSUME NEW W \in SUBSET R, \A T \in SUBSET W : T # W => T \in G
      PROVE  W \in G
  <2>1. IsFiniteSet(W)
    BY FS_Subset
  <2>2. CASE W = {}
    <3>1. I(W) = {} /\ IsFiniteSet({})
      BY <2>2, FS_EmptySet
    <3>2. Total(s, {}) = 0 /\ Total(w, {}) = 0
      BY <3>1, TotalStep
    <3> QED  BY <2>2, <3>1, <3>2
  <2>3. CASE W # {}
    <3>1. PICK x \in W : TRUE
      BY <2>3
    <3> DEFINE V == W \ {x}
    <3>2. Total(w, W) = w[x] + Total(w, V)
      BY <2>1, TotalRemove
    <3>3. V \in SUBSET W /\ V # W
      OBVIOUS
    <3>4. IsFiniteSet(I(V)) /\ Total(s, I(V)) <= Total(w, V)
      BY <1>1, <3>3
    <3>5. I(W) = I(V) \cup {g[x]} /\ \A y \in I(W) : s[y] \in Nat
      OBVIOUS
    <3>6. Total(w, V) \in Nat /\ w[x] \in Nat /\ s[g[x]] \in Nat /\ s[g[x]] <= w[x]
      BY <2>1, <3>3, FS_Subset, TotalNat
    <3> HIDE DEF I
    <3>7. IsFiniteSet(I(W))
      <4>1. IsFiniteSet(I(V) \cup {g[x]})
        BY <3>4, FS_AddElement
      <4> QED  BY <3>5, <4>1
    <3>8. Total(s, I(V)) \in Nat
      BY <3>4, <3>5, TotalNat
    <3>9. Total(s, I(W)) <= s[g[x]] + Total(s, I(V))
      <4>1. CASE g[x] \in I(V)
        <5>1. I(W) = I(V)
          BY <3>5, <4>1
        <5> QED  BY <3>6, <3>8, <5>1
      <4>2. CASE g[x] \notin I(V)
        <5>1. I(W) \ {g[x]} = I(V) /\ g[x] \in I(W)
          BY <3>5, <4>2
        <5>2. Total(s, I(W)) = s[g[x]] + Total(s, I(W) \ {g[x]})
          BY <3>5, <3>7, <5>1, TotalRemove
        <5>3. Total(s, I(W)) = s[g[x]] + Total(s, I(V))
          BY <5>1, <5>2
        <5> QED  BY <3>6, <3>8, <5>3
      <4> QED  BY <4>1, <4>2
    <3>10. Total(s, I(W)) \in Nat
      BY <3>5, <3>7, TotalNat
    <3>11. Total(s, I(W)) <= Total(w, W)
      <4>1. s[g[x]] + Total(s, I(V)) <= w[x] + Total(w, V)
        BY <3>4, <3>6, <3>8
      <4> QED  BY <3>2, <3>6, <3>8, <3>9, <3>10, <4>1
    <3> QED  BY <3>7, <3>11
  <2> QED  BY <2>2, <2>3
<1> HIDE DEF G
<1>2. R \in G
  BY <1>1, SetInduction
<1> QED  BY <1>2 DEF G

\* The sum of the weight column is such a sum.
LEMMA TotalOfWeights ==
    ASSUME NEW S, IsFiniteSet(S), NEW w, \A v \in S : w[v] = v.weight
    PROVE  MapThenSumSet(LAMBDA v : v.weight, S) = Total(w, S)
<1> DEFINE Sums(it) ==
        it = [s \in SUBSET S |-> IF s = {} THEN 0
                                 ELSE First(s).weight + it[s \ {First(s)}]]
           f == CHOOSE it : Sums(it)
           k == CHOOSE it : SumsUp(it, S, w)
<1>1. MapThenSumSet(LAMBDA v : v.weight, S) = f[S]
  BY DEF MapThenSumSet, MapThenFoldSet, First
<1>2. \A s \in SUBSET S : s # {} => w[First(s)] = First(s).weight
  BY DEF First
<1>3. \A it : Sums(it) <=> SumsUp(it, S, w)
  BY <1>2 DEF SumsUp
<1>4. \E it : SumsUp(it, S, w)
  BY SumsExist
<1>5. SumsUp(f, S, w) /\ SumsUp(k, S, w)
  <2> HIDE DEF Sums
  <2>1. SumsUp(k, S, w)
    BY <1>4
  <2>2. Sums(f)
    BY <1>3, <1>4
  <2> QED  BY <1>3, <2>1, <2>2
<1>6. f[S] = k[S]
  BY <1>5, SumsUnique
<1> QED  BY <1>1, <1>6, TotalUnfold

-----------------------------------------------------------------------------
(* Whose stakes a vote may weigh.                                          *)

Stakes(U) == Total(InitialStake, U)

\* The users U, and those who voted or delegated to one of them; vs are the votes on one
\* proposal.
Behind(vs, U) == U \cup {v.voter : v \in {d \in vs : d.to \in U}}

\* A delegation weighs its own stake and those that boosted it; a vote, also the
\* delegations it summed.
Near(vs, u) == Behind(vs, {u})
Far(vs, u)  == Behind(vs, Near(vs, u))

Backing(v) ==
    IF v.choice = NoChoice THEN Near(VotesOn(v.proposal), v.voter)
                           ELSE Far(VotesOn(v.proposal), v.voter)

\* Nobody holds more than when the run started.
StakeInv == \A u \in Users : stake[u] <= InitialStake[u]

\* A vote does not weigh more than its backing, and names its voter.
RowsWeigh ==
    \A v \in votes :
        /\ v.weight \in Nat /\ v.weight <= Stakes(Backing(v))
        /\ v.choice # NoChoice => v.to = v.voter

\* Nor does the one a request is about to insert, if there is no other of its voter.
HandlerWeighs(r) ==
    /\ weight[r] \in Nat
    /\ body[r].op \in BallotOps =>
        /\ \/ pc[r] \in {"SumDelegated", "ReadTarget", "ReadTargetVote", "Boost"}
           \/ pc[r] \in {"Insert", "Publish", "Commit"} /\ body[r].op = "delegate"
           => weight[r] <= InitialStake[body[r].voter]
        /\ /\ pc[r] \in {"Insert", "Publish", "Commit"} /\ body[r].op = "vote"
           /\ VotesOf(Proposal(r), body[r].voter) = {}
           => weight[r] <= Stakes(Far(VotesOn(Proposal(r)), body[r].voter))

\* Nor does a row that a delegation has loaded, however stale it is.
TargetsWeigh ==
    \A r \in Requests : \A t \in target[r] :
        /\ pc[r] # "idle" /\ t.weight \in Nat
        /\ \E v \in votes :
            /\ v.id = t.id /\ v.proposal = Proposal(r) /\ v.voter = body[r].to
            /\ t.weight <= Stakes(Backing(v))

WeightInv ==
    /\ VoterInv /\ IdsInv /\ StakeInv /\ RowsWeigh /\ TargetsWeigh
    /\ \A r \in Requests : HandlerWeighs(r)

\* Entitlements are only sold.
OnlySales == \A trade \in Trades : trade[2] <= InitialStake[trade[1]]

\* Votes come from users, and there are finitely many.
Cast(vs) == IsFiniteSet(vs) /\ \A v \in vs : v.voter \in Users

LEMMA VotesAreCast ==
    ASSUME TypeInv, IdsInv, NEW p
    PROVE  Cast(VotesOn(p))
<1>1. IsFiniteSet(VotesOn(p))
  BY VotesWithinAudit, FS_Subset DEF VotesOn
<1> QED  BY <1>1 DEF Cast, VotesOn, TypeInv, TypeOK

\* Before and after a step.
LEMMA CastBoth ==
    ASSUME TypeInv, IdsInv, TypeInv', IdsInv', NEW p
    PROVE  Cast(VotesOn(p)) /\ Cast(VotesOn(p)')
<1>1. Cast(VotesOn(p))
  BY VotesAreCast
<1>2. IsFiniteSet(votes')
  <2> DEFINE f == [v \in votes' |-> v.id]
  <2>1. f \in Injection(votes', Requests)
    BY DEF Injection, IsInjective, TypeInv, TypeOK, IdsInv
  <2> QED  BY <2>1, FS_Injection, GovernanceAssumption
<1>3. IsFiniteSet(VotesOn(p)')
  BY <1>2, FS_Subset DEF VotesOn
<1>4. Cast(VotesOn(p)')
  BY <1>3 DEF Cast, VotesOn, TypeInv, TypeOK
<1> QED  BY <1>1, <1>4

\* So the users behind a few are few.
LEMMA BehindIsFinite ==
    ASSUME NEW vs, Cast(vs), NEW U, IsFiniteSet(U), U \subseteq Users
    PROVE  IsFiniteSet(Behind(vs, U)) /\ Behind(vs, U) \subseteq Users
<1> DEFINE R == {d \in vs : d.to \in U}
           T == {v.voter : v \in R}
           f == [v \in R |-> v.voter]
<1>1. IsFiniteSet(R)
  BY FS_Subset DEF Cast
<1>2. f \in Surjection(R, T)
  BY DEF Surjection
<1>3. IsFiniteSet(T)
  BY <1>1, <1>2, FS_Surjection
<1>4. T \subseteq Users
  BY DEF Cast
<1> HIDE DEF T
<1>5. IsFiniteSet(U \cup T)
  BY <1>3, FS_Union
<1> QED  BY <1>4, <1>5 DEF Behind, T

\* In particular behind one.
LEMMA BackingIsFinite ==
    ASSUME NEW vs, Cast(vs), NEW u \in Users
    PROVE  /\ IsFiniteSet(Near(vs, u)) /\ Near(vs, u) \subseteq Users /\ u \in Near(vs, u)
           /\ IsFiniteSet(Far(vs, u)) /\ Far(vs, u) \subseteq Users /\ u \in Far(vs, u)
<1>1. IsFiniteSet({u}) /\ {u} \subseteq Users
  BY FS_Singleton
<1>2. IsFiniteSet(Near(vs, u)) /\ Near(vs, u) \subseteq Users
  BY <1>1, BehindIsFinite DEF Near
<1>3. IsFiniteSet(Far(vs, u)) /\ Far(vs, u) \subseteq Users
  BY <1>2, BehindIsFinite DEF Far
<1>4. u \in Near(vs, u) /\ u \in Far(vs, u)
  BY DEF Near, Far, Behind
<1> QED  BY <1>2, <1>3, <1>4

\* Larger sets of users have larger stakes.
LEMMA StakesGrow ==
    ASSUME NEW U, IsFiniteSet(U), U \subseteq Users, NEW T, T \subseteq U
    PROVE  Stakes(T) \in Nat /\ Stakes(U) \in Nat /\ Stakes(T) <= Stakes(U)
<1>1. \A u \in U : InitialStake[u] \in Nat
  BY WorldTypes
<1>2. IsFiniteSet(T)
  BY FS_Subset
<1> QED  BY <1>1, <1>2, TotalNat, TotalMonotone DEF Stakes

\* One more user.
LEMMA StakesAdd ==
    ASSUME NEW U, IsFiniteSet(U), U \subseteq Users, NEW T, T \subseteq U,
           NEW u \in U, u \notin T
    PROVE  InitialStake[u] \in Nat /\ Stakes(T) + InitialStake[u] <= Stakes(U)
<1>1. \A x \in U : InitialStake[x] \in Nat
  BY WorldTypes
<1>2. Stakes(U) = InitialStake[u] + Stakes(U \ {u})
  BY <1>1, TotalRemove DEF Stakes
<1>3. IsFiniteSet(U \ {u}) /\ T \subseteq U \ {u}
  BY FS_Subset
<1>4. Stakes(T) \in Nat /\ Stakes(U \ {u}) \in Nat /\ Stakes(T) <= Stakes(U \ {u})
  BY <1>3, StakesGrow
<1> QED  BY <1>1, <1>2, <1>4

\* The same ballot, whatever its weight.
SameBallot(w, v) ==
    /\ w.id = v.id /\ w.proposal = v.proposal
    /\ w.voter = v.voter /\ w.to = v.to /\ w.choice = v.choice

\* Every ballot of vs is in ws.
Survives(vs, ws) == \A v \in vs : \E w \in ws : SameBallot(w, v)

\* Then the backing in ws is no smaller.
LEMMA BackingGrows ==
    ASSUME NEW vs, NEW ws, Survives(vs, ws), NEW u
    PROVE  /\ Near(vs, u) \subseteq Near(ws, u) /\ Near(ws, u) \subseteq Far(ws, u)
           /\ Far(vs, u) \subseteq Far(ws, u)
<1>1. \A U, W : U \subseteq W => Behind(vs, U) \subseteq Behind(ws, W)
  BY DEF Survives, SameBallot, Behind
<1>2. Near(vs, u) \subseteq Near(ws, u)
  BY <1>1 DEF Near
<1>3. Far(vs, u) \subseteq Far(ws, u)
  BY <1>1, <1>2 DEF Far
<1>4. Near(ws, u) \subseteq Far(ws, u)
  BY DEF Far, Behind
<1> QED  BY <1>2, <1>3, <1>4

\* No step of a handler withdraws a ballot.
LEMMA BallotsKept ==
    ASSUME TypeInv, NEW r \in Requests, Step(r) \/ Fail(r) \/ LoseCommitReply(r)
    PROVE  Survives(votes, votes') /\ \A p : Survives(VotesOn(p), VotesOn(p)')
<1>1. CASE Store(r)
  <2> DEFINE F(v) == IF body[r].op = "delegate" THEN Boosted(v, r) ELSE v
  <2>1. \A v \in votes : SameBallot(F(v), v)
    BY DEF Boosted, WithWeight, SameBallot
  <2>2. votes' = {F(v) : v \in votes}
                 \cup (IF body[r].op \in BallotOps THEN {VoteRow(r)} ELSE {})
    BY <1>1 DEF Store, StoredVotes, BallotOps
  <2> HIDE DEF F
  <2>3. Survives(votes, votes')
    BY <2>1, <2>2 DEF Survives
  <2> QED  BY <2>3 DEF Survives, SameBallot, VotesOn
<1>2. CASE UNCHANGED votes
  BY <1>2 DEF Survives, SameBallot, VotesOn
<1>3. Store(r) \/ UNCHANGED votes
  BY StepKinds DEF Loads, Reads, SumEligible, Flush, Creates, GivesUp, Silenced, Publish,
                   Commits, tables
<1> QED  BY <1>1, <1>2, <1>3

\* What the delegations to u weigh is covered by those behind u.
LEMMA DelegatedIsCovered ==
    ASSUME VoterInv, IdsInv, RowsWeigh, NEW p, NEW u \in Users
    PROVE  /\ DelegatedTo(p, u) \in Nat
           /\ VotesOf(p, u) = {} => DelegatedTo(p, u) + InitialStake[u] <= Stakes(Far(VotesOn(p), u))
<1> USE DEF VoterInv
<1> DEFINE R == {v \in {d \in VotesOn(p) : d.to = u} : v.choice = NoChoice}
           w == [v \in R |-> v.weight]
           b == [v \in R |-> Near(VotesOn(p), v.voter)]
           U == Far(VotesOn(p), u) \ {u}
<1>1. /\ \A v \in R : /\ v \in votes /\ v.proposal = p /\ v.to = u /\ v.choice = NoChoice
                      /\ v.voter \in Users /\ w[v] = v.weight /\ w[v] \in Nat
                      /\ v.weight <= Stakes(Near(VotesOn(p), v.voter))
  BY DEF VotesOn, TypeInv, TypeOK, RowsWeigh, Backing
<1>2. IsFiniteSet(R)
  BY VotesWithinAudit, FS_Subset DEF VotesOn
<1>3. DelegatedTo(p, u) = Total(w, R)
  <2>1. MapThenSumSet(LAMBDA v : v.weight, R) = Total(w, R)
    BY <1>2, TotalOfWeights
  <2> QED  BY <2>1 DEF DelegatedTo, CastWeight
<1>4. DelegatedTo(p, u) \in Nat
  <2> HIDE DEF w, R
  <2> QED  BY <1>1, <1>2, <1>3, TotalNat
<1>5. ASSUME VotesOf(p, u) = {}
      PROVE  DelegatedTo(p, u) + InitialStake[u] <= Stakes(Far(VotesOn(p), u))
  <2>1. /\ IsFiniteSet(Far(VotesOn(p), u)) /\ Far(VotesOn(p), u) \subseteq Users
        /\ u \in Far(VotesOn(p), u)
        /\ IsFiniteSet(U) /\ U \subseteq Users
    <3>1. IsFiniteSet(Far(VotesOn(p), u)) /\ Far(VotesOn(p), u) \subseteq Users
          /\ u \in Far(VotesOn(p), u)
      BY VotesAreCast, BackingIsFinite
    <3> QED  BY <3>1, FS_Subset
  <2>2. \A v \in votes : v.proposal = p => v.voter # u
    BY <1>5 DEF VotesOf
  <2>3. \A v \in R : b[v] \subseteq U
    <3>1. \A v \in R : v.voter \in Near(VotesOn(p), u)
      BY DEF Near, Behind, VotesOn
    <3>2. \A v \in R : Near(VotesOn(p), v.voter) \subseteq Far(VotesOn(p), u)
      BY <3>1 DEF Near, Far, Behind
    <3>3. \A v \in R : u \notin Near(VotesOn(p), v.voter)
      BY <2>2 DEF Near, Behind, VotesOn
    <3> QED  BY <3>2, <3>3
  <2>4. \A v, x \in R : b[v] \cap b[x] # {} => v = x
    <3> SUFFICES ASSUME NEW v \in R, NEW x \in R,
                        NEW y \in Near(VotesOn(p), v.voter) \cap Near(VotesOn(p), x.voter)
        PROVE  v = x
      OBVIOUS
    <3>1. /\ y = v.voter \/ \E d \in votes : d.proposal = p /\ d.voter = y /\ d.to = v.voter
          /\ y = x.voter \/ \E d \in votes : d.proposal = p /\ d.voter = y /\ d.to = x.voter
      BY DEF Near, Behind, VotesOn
    <3>2. v.voter = x.voter
      BY <1>1, <2>2, <3>1 DEF OneVotePerVoter
    <3> QED  BY <1>1, <3>2 DEF OneVotePerVoter
  <2>5. \A v \in R : w[v] <= Total(InitialStake, b[v])
    BY <1>1 DEF Stakes
  <2>6. \A x \in U : InitialStake[x] \in Nat
    BY <2>1, WorldTypes
  <2>7. Total(w, R) <= Stakes(U)
    <3> HIDE DEF w, R, b, U
    <3>1. \A v \in R : w[v] \in Nat
      BY <1>1
    <3> QED  BY <1>2, <2>1, <2>3, <2>4, <2>5, <2>6, <3>1, TotalCovered DEF Stakes
  <2>8. /\ InitialStake[u] \in Nat /\ Stakes(U) \in Nat /\ Stakes(Far(VotesOn(p), u)) \in Nat
        /\ Stakes(U) + InitialStake[u] <= Stakes(Far(VotesOn(p), u))
    <3>1. u \in Far(VotesOn(p), u) /\ u \notin U /\ U \subseteq Far(VotesOn(p), u)
      BY <2>1
    <3> HIDE DEF U
    <3> QED  BY <2>1, <3>1, StakesAdd, StakesGrow
  <2> HIDE DEF w, R, b, U
  <2> QED  BY <1>3, <1>4, <2>7, <2>8
<1> QED  BY <1>4, <1>5

-----------------------------------------------------------------------------
(* The weights through the steps.                                          *)

\* What a step of a handler does to its weight: nothing, or it becomes the stake of its
\* voter, or the delegations to that voter are added.
WeightStep(r) ==
    \/ /\ weight' = weight
       /\ body[r].op \in BallotOps =>
            /\ pc'[r] \notin {"SumDelegated", "ReadTarget"}
            /\ pc'[r] = "ReadTargetVote" => pc[r] = "ReadTarget"
            /\ pc'[r] = "Boost" => pc[r] = "ReadTargetVote"
            /\ pc'[r] \in {"Insert", "Publish", "Commit"} =>
                    pc[r] \in {"ReadTargetVote", "Boost", "Insert", "Publish"}
    \/ /\ pc[r] = "ReadStake" /\ pc'[r] \in {"ReadTarget", "SumDelegated"}
       /\ weight' = [weight EXCEPT ![r] = stake[body[r].voter]]
    \/ /\ pc[r] = "SumDelegated" /\ pc'[r] = "Insert" /\ votes' = votes
       /\ weight' = [weight EXCEPT ![r] = @ + DelegatedTo(Proposal(r), body[r].voter)]

LEMMA StepWeighs ==
    ASSUME TypeInv, NEW r \in Requests, Step(r) \/ Fail(r) \/ LoseCommitReply(r)
    PROVE  WeightStep(r) /\ stake' = stake
<1>1. /\ pc \in [Requests -> Labels] /\ pc[r] # "idle" /\ StageAt(body[r], pc[r])
      /\ body[r].op \in BallotOps \cup Closers \cup {"status", "create"}
  BY StepKinds, BodyTypes DEF TypeInv, TypeOK, Stage
<1>2. stake' = stake
  BY DEF Step, ReadProposal, ReadVoter, CheckDuplicate, ReadStake, ReadTarget,
         ReadTargetVote, Boost, SumDelegated, InsertVote, CheckId, InsertProposal,
         ReadBallots, SumEligible, Flush, Publish, Commit, Fail, LoseCommitReply, world
<1>3. CASE ReadStake(r)
  <2>1. \/ UNCHANGED weight /\ pc'[r] = "done"
        \/ /\ weight' = [weight EXCEPT ![r] = stake[body[r].voter]]
           /\ pc' = [pc EXCEPT ![r] = IF body[r].op = "delegate" THEN "ReadTarget"
                                                                 ELSE "SumDelegated"]
    BY <1>1, <1>3 DEF ReadStake, Respond, Goto
  <2>2. pc[r] = "ReadStake"
    BY <1>3 DEF ReadStake, At
  <2>3. CASE UNCHANGED weight /\ pc'[r] = "done"
    BY <1>2, <2>3 DEF WeightStep
  <2>4. CASE /\ weight' = [weight EXCEPT ![r] = stake[body[r].voter]]
             /\ pc' = [pc EXCEPT ![r] = IF body[r].op = "delegate" THEN "ReadTarget"
                                                                   ELSE "SumDelegated"]
    <3>1. pc'[r] \in {"ReadTarget", "SumDelegated"}
      BY <1>1, <2>4
    <3> QED  BY <1>2, <2>2, <2>4, <3>1 DEF WeightStep
  <2> QED  BY <2>1, <2>3, <2>4
<1>4. CASE SumDelegated(r)
  <2>1. CASE Goto(r, "Insert") /\ weight' =
                [weight EXCEPT ![r] = @ + DelegatedTo(Proposal(r), body[r].voter)]
    <3>1. pc[r] = "SumDelegated" /\ votes' = votes /\ pc'[r] = "Insert"
      BY <1>1, <1>4, <2>1 DEF SumDelegated, At, Goto, tables
    <3> QED  BY <1>2, <2>1, <3>1 DEF WeightStep
  <2>2. CASE UNCHANGED weight /\ pc'[r] = "done"
    BY <1>2, <2>2 DEF WeightStep
  <2> QED  BY <1>1, <1>4, <2>1, <2>2 DEF SumDelegated, Respond
<1>5. CASE ReadProposal(r)
  <2>1. weight' = weight /\ pc[r] = "ReadProposal"
    BY <1>5 DEF ReadProposal, At
  <2>2. body[r].op \in BallotOps => pc'[r] \in {"done", "ReadVoter"}
    BY <1>1, <1>5 DEF ReadProposal, Respond, Goto, BallotOps, Closers
  <2> QED  BY <1>2, <2>1, <2>2 DEF WeightStep
<1>6. CASE ReadVoter(r) \/ CheckDuplicate(r)
  BY <1>1, <1>2, <1>6 DEF ReadVoter, CheckDuplicate, At, Respond, Goto, session, WeightStep
<1>7. CASE ReadTarget(r) \/ ReadTargetVote(r)
  BY <1>1, <1>2, <1>7
  DEF ReadTarget, ReadTargetVote, At, Respond, Goto, session, WeightStep
<1>8. CASE Boost(r) \/ InsertVote(r)
  BY <1>1, <1>2, <1>8 DEF Boost, InsertVote, At, Respond, Goto, session, WeightStep
<1>9. CASE CheckId(r) \/ InsertProposal(r)
  <2>1. weight' = weight /\ body[r].op \notin BallotOps
    BY <1>1, <1>9 DEF CheckId, InsertProposal, At, session, StageAt, BallotOps
  <2> QED  BY <1>2, <2>1 DEF WeightStep
<1>10. CASE ReadBallots(r) \/ SumEligible(r) \/ Flush(r)
  <2>1. weight' = weight /\ body[r].op \notin BallotOps
    BY <1>1, <1>10
    DEF ReadBallots, SumEligible, Flush, At, session, StageAt, BallotOps, Closers
  <2> QED  BY <1>2, <2>1 DEF WeightStep
<1>11. CASE Publish(r)
  BY <1>1, <1>2, <1>11 DEF Publish, Goto, session, WeightStep
<1>12. CASE Commit(r) \/ LoseCommitReply(r)
  <2>1. weight' = weight /\ pc'[r] \in {"Announce", "done"}
    BY <1>1, <1>12 DEF Commit, LoseCommitReply, Respond, session
  <2> QED  BY <1>2, <2>1 DEF WeightStep
<1>13. CASE Fail(r)
  <2>1. weight' = weight /\ pc'[r] = "done"
    BY <1>1, <1>13 DEF Fail, Respond, Goto, session
  <2> QED  BY <1>2, <2>1 DEF WeightStep
<1> QED
  BY <1>3, <1>4, <1>5, <1>6, <1>7, <1>8, <1>9, <1>10, <1>11, <1>12, <1>13 DEF Step

\* The stakes behind a voter do not shrink.
LEMMA BoundsGrow ==
    ASSUME TypeInv, IdsInv, NEW r \in Requests,
           Step(r) \/ Fail(r) \/ LoseCommitReply(r), NEW p, NEW u \in Users
    PROVE  /\ VotesOf(p, u)' = {} => VotesOf(p, u) = {}
           /\ Stakes(Near(VotesOn(p), u)) <= Stakes(Near(VotesOn(p)', u))
           /\ Stakes(Far(VotesOn(p), u)) <= Stakes(Far(VotesOn(p)', u))
           /\ Stakes(Near(VotesOn(p), u)) \in Nat /\ Stakes(Near(VotesOn(p)', u)) \in Nat
           /\ Stakes(Far(VotesOn(p), u)) \in Nat /\ Stakes(Far(VotesOn(p)', u)) \in Nat
<1>1. TypeInv' /\ IdsInv'
  BY NextKeepsIds DEF Next
<1>2. Survives(votes, votes') /\ Survives(VotesOn(p), VotesOn(p)')
  BY BallotsKept
<1>3. Cast(VotesOn(p)) /\ Cast(VotesOn(p)')
  BY <1>1, CastBoth
<1> DEFINE vs == VotesOn(p)
           ws == VotesOn(p)'
<1>4. VotesOf(p, u)' = {} => VotesOf(p, u) = {}
  BY <1>2 DEF VotesOf, Survives, SameBallot
<1>5. Cast(vs) /\ Cast(ws) /\ Survives(vs, ws)
  BY <1>2, <1>3
<1> HIDE DEF vs, ws
<1>6. /\ Near(vs, u) \subseteq Near(ws, u) /\ Far(vs, u) \subseteq Far(ws, u)
      /\ IsFiniteSet(Near(ws, u)) /\ Near(ws, u) \subseteq Users
      /\ IsFiniteSet(Far(ws, u)) /\ Far(ws, u) \subseteq Users
  BY <1>5, BackingGrows, BackingIsFinite
<1>7. /\ Stakes(Near(vs, u)) <= Stakes(Near(ws, u)) /\ Stakes(Near(vs, u)) \in Nat
      /\ Stakes(Near(ws, u)) \in Nat
  BY <1>6, StakesGrow
<1>8. /\ Stakes(Far(vs, u)) <= Stakes(Far(ws, u)) /\ Stakes(Far(vs, u)) \in Nat
      /\ Stakes(Far(ws, u)) \in Nat
  BY <1>6, StakesGrow
<1> QED  BY <1>4, <1>7, <1>8 DEF vs, ws

\* A handler weighs what its voter held at most, and a vote what its backing holds.
LEMMA StepKeepsHandlers ==
    ASSUME WeightInv, NEW r \in Requests, Step(r) \/ Fail(r) \/ LoseCommitReply(r),
           NEW q \in Requests
    PROVE  HandlerWeighs(q)'
<1> USE DEF WeightInv, VoterInv
<1>1. /\ body' = body /\ body[r] \in Bodies /\ pc[r] # "idle" /\ StageAt(body[r], pc[r])
      /\ DOMAIN weight = Requests /\ Proposal(q)' = Proposal(q)
  BY StepKinds DEF TypeInv, SessionInv, Stage, Proposal
<1>2. WeightStep(r) /\ stake' = stake /\ HandlerWeighs(q)
  BY StepWeighs
<1> DEFINE u == body[q].voter
           Cover == Stakes(Far(VotesOn(Proposal(q)), u))
           NewCover == Stakes(Far({v \in votes' : v.proposal = Proposal(q)}, u))
           Own == {v \in votes : v.proposal = Proposal(q) /\ v.voter = u}
           NewOwn == {v \in votes' : v.proposal = Proposal(q) /\ v.voter = u}
<1>3. body[q].op \in BallotOps /\ pc[q] # "idle" =>
        /\ u \in Users /\ InitialStake[u] \in Nat
        /\ NewOwn = {} => Own = {}
        /\ Cover \in Nat /\ NewCover \in Nat /\ Cover <= NewCover
  <2> SUFFICES ASSUME body[q].op \in BallotOps, pc[q] # "idle"
      PROVE  /\ u \in Users /\ InitialStake[u] \in Nat
             /\ NewOwn = {} => Own = {}
             /\ Cover \in Nat /\ NewCover \in Nat /\ Cover <= NewCover
    OBVIOUS
  <2>1. u \in Users /\ InitialStake[u] \in Nat
    BY BodyTypes, WorldTypes DEF TypeInv, Stage, StageAt
  <2> DEFINE p == Proposal(q)
  <2> HIDE DEF p, u
  <2>2. p' = p /\ u' = u
    BY <1>1 DEF p, u
  <2>3. /\ VotesOf(p, u)' = {} => VotesOf(p, u) = {}
        /\ Stakes(Far(VotesOn(p), u)) <= Stakes(Far(VotesOn(p)', u))
        /\ Stakes(Far(VotesOn(p), u)) \in Nat /\ Stakes(Far(VotesOn(p)', u)) \in Nat
    BY <2>1, <2>2, BoundsGrow
  <2>4. /\ VotesOn(p)' = {v \in votes' : v.proposal = p}
        /\ VotesOf(p, u)' = {v \in votes' : v.proposal = p /\ v.voter = u}
        /\ VotesOf(p, u) = {v \in votes : v.proposal = p /\ v.voter = u}
    BY <2>2 DEF VotesOn, VotesOf
  <2> QED  BY <2>1, <2>3, <2>4 DEF p
<1>4. ASSUME weight'[q] \in Nat,
             body[q].op \in BallotOps =>
                /\ \/ pc'[q] \in {"SumDelegated", "ReadTarget", "ReadTargetVote", "Boost"}
                   \/ pc'[q] \in {"Insert", "Publish", "Commit"} /\ body[q].op = "delegate"
                   => weight'[q] <= InitialStake[u]
                /\ /\ pc'[q] \in {"Insert", "Publish", "Commit"} /\ body[q].op = "vote"
                   /\ NewOwn = {}
                   => weight'[q] <= NewCover
      PROVE  HandlerWeighs(q)'
  BY <1>1, <1>4 DEF HandlerWeighs, VotesOf, VotesOn, Proposal
<1>5. /\ weight[q] \in Nat
      /\ body[q].op \in BallotOps =>
            /\ \/ pc[q] \in {"SumDelegated", "ReadTarget", "ReadTargetVote", "Boost"}
               \/ pc[q] \in {"Insert", "Publish", "Commit"} /\ body[q].op = "delegate"
               => weight[q] <= InitialStake[u]
            /\ /\ pc[q] \in {"Insert", "Publish", "Commit"} /\ body[q].op = "vote"
               /\ Own = {}
               => weight[q] <= Cover
  BY <1>2 DEF HandlerWeighs, VotesOf
<1> HIDE DEF u, Cover, NewCover, Own, NewOwn
<1>6. CASE q # r
  <2>1. pc'[q] = pc[q] /\ weight'[q] = weight[q]
    BY <1>1, <1>2, <1>6, StepFrame DEF WeightStep, Others
  <2> QED  BY <1>3, <1>4, <1>5, <2>1
<1>7. CASE /\ q = r /\ weight' = weight
           /\ body[r].op \in BallotOps =>
                /\ pc'[r] \notin {"SumDelegated", "ReadTarget"}
                /\ pc'[r] = "ReadTargetVote" => pc[r] = "ReadTarget"
                /\ pc'[r] = "Boost" => pc[r] = "ReadTargetVote"
                /\ pc'[r] \in {"Insert", "Publish", "Commit"} =>
                        pc[r] \in {"ReadTargetVote", "Boost", "Insert", "Publish"}
  <2>1. pc[r] \in {"ReadTargetVote", "Boost"} => body[r].op = "delegate"
    BY <1>1 DEF StageAt
  <2> QED  BY <1>3, <1>4, <1>5, <1>7, <2>1 DEF BallotOps
<1>8. CASE q = r /\ pc[r] = "ReadStake" /\ pc'[r] \in {"ReadTarget", "SumDelegated"}
           /\ weight' = [weight EXCEPT ![r] = stake[body[r].voter]]
  <2>1. body[r].op \in BallotOps
    BY <1>1, <1>8 DEF StageAt
  <2>2. weight'[r] = stake[u] /\ u \in Users
    BY <1>1, <1>3, <1>8, <2>1 DEF u
  <2>3. stake[u] \in Nat /\ stake[u] <= InitialStake[u]
    <3>1. stake \in [Users -> Nat] /\ StakeInv
      BY DEF TypeInv, TypeOK
    <3> QED  BY <2>2, <3>1 DEF StakeInv
  <2> QED  BY <1>4, <1>8, <2>2, <2>3
<1>9. CASE q = r /\ pc[r] = "SumDelegated" /\ pc'[r] = "Insert" /\ votes' = votes
           /\ weight' = [weight EXCEPT ![r] = @ + DelegatedTo(Proposal(r), body[r].voter)]
  <2>1. body[r].op = "vote" /\ body[r].op \in BallotOps
    BY <1>1, <1>9 DEF StageAt, BallotOps
  <2>2. weight'[r] = weight[r] + DelegatedTo(Proposal(r), u)
    BY <1>1, <1>9 DEF u
  <2>3. /\ weight[r] \in Nat /\ weight[r] <= InitialStake[u]
        /\ u \in Users /\ InitialStake[u] \in Nat /\ Cover \in Nat
    BY <1>1, <1>3, <1>5, <1>9, <2>1
  <2>4. /\ DelegatedTo(Proposal(r), u) \in Nat
        /\ Own = {} => DelegatedTo(Proposal(r), u) + InitialStake[u] <= Cover
    BY <1>9, <2>3, DelegatedIsCovered DEF Own, Cover, VotesOf
  <2>5. Own = NewOwn /\ Cover = NewCover
    BY <1>9 DEF Own, NewOwn, Cover, NewCover, VotesOn
  <2>6. weight'[r] \in Nat /\ (Own = {} => weight'[r] <= Cover)
    BY <2>2, <2>3, <2>4
  <2> QED  BY <1>4, <1>9, <2>1, <2>5, <2>6
<1> QED  BY <1>2, <1>6, <1>7, <1>8, <1>9 DEF WeightStep

\* What a commit does to a vote: nothing, or it adds the weight of a delegation.
LEMMA RowsWeighAfterCommit ==
    ASSUME WeightInv, NEW r \in Requests, Commit(r) \/ LoseCommitReply(r)
    PROVE  RowsWeigh'
<1> USE DEF WeightInv, VoterInv
<1> DEFINE p == Proposal(r)
           u == body[r].voter
           NewOn(q) == {y \in votes' : y.proposal = q}
           Held(x) == IF x.choice = NoChoice THEN Near(NewOn(x.proposal), x.voter)
                                             ELSE Far(NewOn(x.proposal), x.voter)
<1>0. ASSUME \A x \in votes' : /\ x.weight \in Nat /\ x.weight <= Stakes(Held(x))
                               /\ x.choice # NoChoice => x.to = x.voter
      PROVE  RowsWeigh'
  <2>1. \A x : Backing(x)' = Held(x)
    BY DEF Backing, VotesOn
  <2> HIDE DEF Held
  <2> QED  BY <1>0, <2>1 DEF RowsWeigh
<1>1. /\ Store(r) /\ body' = body /\ StageAt(body[r], "Commit") /\ body[r] \in Bodies
      /\ Step(r) \/ Fail(r) \/ LoseCommitReply(r)
      /\ HandlerWeighs(r)
  BY DEF Commit, LoseCommitReply, Respond, Store, At, TypeInv, Stage, StageAt, Step
<1>2. ASSUME NEW v \in votes, NEW w, SameBallot(w, v)
      PROVE  /\ Stakes(Backing(v)) <= Stakes(Held(w))
             /\ Stakes(Backing(v)) \in Nat /\ Stakes(Held(w)) \in Nat
  <2>1. v.voter \in Users /\ w.voter = v.voter /\ w.proposal = v.proposal /\ w.choice = v.choice
    BY <1>2 DEF TypeInv, TypeOK, SameBallot
  <2>2. /\ Stakes(Near(VotesOn(v.proposal), v.voter)) <= Stakes(Near(NewOn(v.proposal), v.voter))
        /\ Stakes(Far(VotesOn(v.proposal), v.voter)) <= Stakes(Far(NewOn(v.proposal), v.voter))
        /\ Stakes(Near(VotesOn(v.proposal), v.voter)) \in Nat
        /\ Stakes(Near(NewOn(v.proposal), v.voter)) \in Nat
        /\ Stakes(Far(VotesOn(v.proposal), v.voter)) \in Nat
        /\ Stakes(Far(NewOn(v.proposal), v.voter)) \in Nat
    <3>1. VotesOn(v.proposal)' = NewOn(v.proposal)
      BY DEF VotesOn
    <3> HIDE DEF NewOn
    <3> QED  BY <1>1, <2>1, <3>1, BoundsGrow
  <2>3. Held(w) = IF v.choice = NoChoice THEN Near(NewOn(v.proposal), v.voter)
                                             ELSE Far(NewOn(v.proposal), v.voter)
    BY <2>1
  <2> HIDE DEF Held, NewOn
  <2> QED  BY <2>2, <2>3 DEF Backing
<1>3. ASSUME NEW v \in votes
      PROVE  /\ v.weight \in Nat /\ v.weight <= Stakes(Held(v))
             /\ v.choice # NoChoice => v.to = v.voter
  <2>1. SameBallot(v, v) /\ v.weight \in Nat /\ v.weight <= Stakes(Backing(v))
        /\ (v.choice # NoChoice => v.to = v.voter)
    BY DEF RowsWeigh, SameBallot
  <2>2. /\ Stakes(Backing(v)) <= Stakes(Held(v))
        /\ Stakes(Backing(v)) \in Nat /\ Stakes(Held(v)) \in Nat
    BY <1>2, <2>1
  <2> QED  BY <2>1, <2>2
<1>4. CASE body[r].op \notin BallotOps
  <2>1. votes' = votes
    BY <1>1, <1>4 DEF Store, StoredVotes, BallotOps
  <2> QED  BY <1>0, <1>3, <2>1
<1>5. CASE body[r].op \in BallotOps
  <2>1. /\ u \in Users /\ InitialStake[u] \in Nat /\ VotesOf(p, u) = {} /\ weight[r] \in Nat
        /\ body[r].op = "delegate" => weight[r] <= InitialStake[u]
        /\ body[r].op = "vote" => weight[r] <= Stakes(Far(VotesOn(p), u))
    BY <1>1, <1>5, BodyTypes, WorldTypes
    DEF Store, At, KeyInv, Uncommitted, HandlerWeighs, BallotOps
  <2>2. /\ VoteRow(r).weight = weight[r] /\ VoteRow(r).voter = u /\ VoteRow(r).proposal = p
        /\ VoteRow(r).to = body[r].to /\ VoteRow(r).choice = body[r].choice
        /\ VoteRow(r) \in votes'
    BY <1>1, <1>5 DEF VoteRow, Store, StoredVotes, BallotOps
  <2>3. /\ body[r].op = "vote" => body[r].choice # NoChoice /\ body[r].to = u
        /\ body[r].op = "delegate" => body[r].choice = NoChoice
    BY <1>1, GovernanceAssumption DEF StageAt, VoteChoice, NoChoice
  <2>4. /\ Cast(NewOn(p)) /\ Cast(VotesOn(p))
        /\ Stakes(Far(VotesOn(p), u)) <= Stakes(Far(NewOn(p), u))
        /\ Stakes(Far(VotesOn(p), u)) \in Nat /\ Stakes(Far(NewOn(p), u)) \in Nat
    <3>1. TypeInv' /\ IdsInv'
      BY <1>1, NextKeepsIds DEF Next
    <3>2. Cast(NewOn(p)) /\ Cast(VotesOn(p))
      <4>1. Cast(VotesOn(p)') /\ Cast(VotesOn(p))
        BY <3>1, CastBoth
      <4>2. p' = p
        BY <1>1 DEF Proposal
      <4> HIDE DEF p
      <4> QED  BY <4>1, <4>2 DEF VotesOn
    <3>3. /\ Stakes(Far(VotesOn(p), u)) <= Stakes(Far(NewOn(p), u))
          /\ Stakes(Far(VotesOn(p), u)) \in Nat /\ Stakes(Far(NewOn(p), u)) \in Nat
      <4>1. p' = p /\ u' = u /\ VotesOn(p)' = NewOn(p)
        BY <1>1 DEF Proposal, VotesOn
      <4> HIDE DEF p, u, NewOn
      <4> QED  BY <1>1, <2>1, <4>1, BoundsGrow
    <3> QED  BY <3>2, <3>3
  <2>5. Held(VoteRow(r)) = IF body[r].op = "delegate" THEN Near(NewOn(p), u)
                                                         ELSE Far(NewOn(p), u)
    BY <1>5, <2>2, <2>3 DEF BallotOps
  <2>6. /\ VoteRow(r).weight \in Nat /\ VoteRow(r).weight <= Stakes(Held(VoteRow(r)))
        /\ VoteRow(r).choice # NoChoice => VoteRow(r).to = VoteRow(r).voter
    <3>1. CASE body[r].op = "vote"
      BY <2>1, <2>2, <2>3, <2>4, <2>5, <3>1
    <3>2. CASE body[r].op = "delegate"
      <4> DEFINE N == Near(NewOn(p), u)
      <4>1. IsFiniteSet(N) /\ N \subseteq Users /\ u \in N
        BY <2>1, <2>4, BackingIsFinite
      <4> HIDE DEF N, u, p
      <4>2. Stakes({}) \in Nat /\ Stakes(N) \in Nat /\ Stakes({}) + InitialStake[u] <= Stakes(N)
        BY <4>1, StakesAdd, StakesGrow
      <4>3. weight[r] <= Stakes(N)
        BY <2>1, <3>2, <4>2
      <4> QED  BY <2>1, <2>2, <2>3, <2>5, <3>2, <4>3 DEF N
    <3> QED  BY <1>5, <3>1, <3>2 DEF BallotOps
  <2>7. CASE body[r].op = "vote"
    <3>1. votes' = votes \cup {VoteRow(r)}
      BY <1>1, <2>7 DEF Store, StoredVotes
    <3> QED  BY <1>0, <1>3, <2>6, <3>1
  <2>8. CASE body[r].op = "delegate"
    <3>1. votes' = {Boosted(v, r) : v \in votes} \cup {VoteRow(r)}
      BY <1>1, <2>8 DEF Store, StoredVotes
    <3>2. ASSUME NEW v \in votes, NEW t \in target[r], t.id = v.id
          PROVE  t.weight \in Nat /\ t.weight + weight[r] <= Stakes(Held(v))
      <4>1. PICK x \in votes :
              x.id = t.id /\ x.proposal = p /\ x.voter = body[r].to /\ t.weight <= Stakes(Backing(x))
        BY DEF TargetsWeigh
      <4>2. x = v /\ t.weight \in Nat
        BY <3>2, <4>1 DEF IdsInv, TargetsWeigh
      <4>3. /\ v.proposal = p /\ v.voter = body[r].to /\ v.voter # u
            /\ t.weight <= Stakes(Backing(v))
        BY <2>1, <4>1, <4>2 DEF VotesOf
      <4>4. u \notin Near(VotesOn(p), v.voter) /\ u \notin Far(VotesOn(p), v.voter)
        BY <2>1, <4>3 DEF VotesOf, VotesOn, Near, Far, Behind
      <4>5. u \in Near(NewOn(p), v.voter) /\ u \in Far(NewOn(p), v.voter)
        <5>1. VoteRow(r) \in NewOn(p) /\ VoteRow(r).to = v.voter /\ VoteRow(r).voter = u
          BY <2>2, <4>3
        <5> QED  BY <5>1 DEF Near, Far, Behind
      <4> DEFINE B == Backing(v)
                 C == Held(v)
      <4>6. /\ B = IF v.choice = NoChoice THEN Near(VotesOn(p), v.voter)
                                          ELSE Far(VotesOn(p), v.voter)
            /\ C = IF v.choice = NoChoice THEN Near(NewOn(p), v.voter)
                                          ELSE Far(NewOn(p), v.voter)
        BY <4>3 DEF Backing
      <4>7. Survives(VotesOn(p), NewOn(p)) /\ v.voter \in Users
        <5>1. p' = p /\ VotesOn(p)' = NewOn(p)
          BY <1>1 DEF Proposal, VotesOn
        <5> HIDE DEF p, NewOn
        <5> QED  BY <1>1, <5>1, BallotsKept DEF TypeInv, TypeOK
      <4>8. B \subseteq C /\ IsFiniteSet(C) /\ C \subseteq Users /\ u \in C /\ u \notin B
        <5> HIDE DEF NewOn
        <5> QED  BY <2>4, <4>4, <4>5, <4>6, <4>7, BackingGrows, BackingIsFinite
      <4> HIDE DEF B, C
      <4>9. /\ Stakes(B) \in Nat /\ Stakes(C) \in Nat
            /\ Stakes(B) + InitialStake[u] <= Stakes(C)
        BY <4>8, StakesAdd, StakesGrow
      <4>10. t.weight + weight[r] <= Stakes(C)
        <5>1. t.weight <= Stakes(B)
          BY <4>3 DEF B
        <5> QED  BY <2>1, <2>8, <4>2, <4>9, <5>1
      <4> QED  BY <4>2, <4>10 DEF C
    <3>3. ASSUME NEW v \in votes
          PROVE  /\ Boosted(v, r).weight \in Nat
                 /\ Boosted(v, r).weight <= Stakes(Held(Boosted(v, r)))
                 /\ Boosted(v, r).choice # NoChoice => Boosted(v, r).to = Boosted(v, r).voter
      <4>1. CASE \A t \in target[r] : t.id # v.id
        <5>1. Boosted(v, r) = v
          BY <4>1 DEF Boosted
        <5> QED  BY <1>3, <5>1
      <4>2. CASE \E t \in target[r] : t.id = v.id
        <5> DEFINE t == CHOOSE t \in target[r] : t.id = v.id
                   w == Boosted(v, r)
        <5>1. t \in target[r] /\ t.id = v.id
          BY <4>2
        <5>2. w = WithWeight(v, t.weight + weight[r])
          BY <4>2 DEF Boosted
        <5> HIDE DEF t, w
        <5>3. /\ w.weight = t.weight + weight[r] /\ w.choice = v.choice
              /\ w.to = v.to /\ w.voter = v.voter /\ w.proposal = v.proposal
          BY <5>2 DEF WithWeight
        <5>4. t.weight \in Nat /\ t.weight + weight[r] <= Stakes(Held(v))
          BY <3>2, <5>1
        <5>5. Held(w) = Held(v)
          BY <5>3
        <5>6. w.weight \in Nat /\ w.weight <= Stakes(Held(w))
          BY <2>1, <5>3, <5>4, <5>5
        <5>7. w.choice # NoChoice => w.to = w.voter
          BY <1>3, <5>3
        <5> QED  BY <5>6, <5>7 DEF w
      <4> QED  BY <4>1, <4>2
    <3> QED  BY <1>0, <2>6, <3>1, <3>3
  <2> QED  BY <1>5, <2>7, <2>8 DEF BallotOps
<1> QED  BY <1>4, <1>5

\* Every step of a handler keeps the weights of the rows within their backing.
LEMMA StepKeepsRows ==
    ASSUME WeightInv, NEW r \in Requests, Step(r) \/ Fail(r) \/ LoseCommitReply(r)
    PROVE  RowsWeigh'
<1>1. CASE Commit(r) \/ LoseCommitReply(r)
  BY <1>1, RowsWeighAfterCommit
<1>2. CASE votes' = votes
  BY <1>2 DEF RowsWeigh, WeightInv, Backing, VotesOn
<1>3. Commit(r) \/ LoseCommitReply(r) \/ votes' = votes
  BY DEF Step, ReadProposal, ReadVoter, CheckDuplicate, ReadStake, ReadTarget,
         ReadTargetVote, Boost, SumDelegated, InsertVote, CheckId, InsertProposal,
         ReadBallots, SumEligible, Flush, Publish, Fail, tables
<1> QED  BY <1>1, <1>2, <1>3

\* And of the rows that delegations have loaded.
LEMMA StepKeepsLoaded ==
    ASSUME WeightInv, NEW r \in Requests, Step(r) \/ Fail(r) \/ LoseCommitReply(r)
    PROVE  TargetsWeigh'
<1> USE DEF WeightInv, VoterInv
<1>1. /\ DOMAIN target = Requests /\ pc \in [Requests -> Labels] /\ body' = body
      /\ pc[r] # "idle" /\ pc'[r] # "idle"
      /\ \A q \in Requests : Proposal(q)' = Proposal(q)
  <2>1. /\ DOMAIN target = Requests /\ pc \in [Requests -> Labels] /\ TypeInv
        /\ body' = body /\ pc[r] # "idle"
    BY StepKinds DEF TypeInv, TypeOK, SessionInv
  <2>2. CASE \/ Loads(r) \/ Reads(r) \/ SumEligible(r) \/ Flush(r) \/ Creates(r)
             \/ GivesUp(r) \/ Silenced(r) \/ Publish(r) \/ Commits(r)
    <3>1. pc'[r] # "idle"
      BY <2>1, <2>2
      DEF Loads, Reads, SumEligible, Flush, Creates, GivesUp, Silenced, Publish, Commits, Goto
    <3> QED  BY <2>1, <3>1 DEF Proposal
  <2> QED  BY <2>1, <2>2, StepKinds
<1>2. \A q \in Others(r) : pc'[q] = pc[q] /\ target'[q] = target[q]
  BY StepFrame
<1>3. \A t \in target'[r] : t \in target[r] \/ t \in VotesOf(Proposal(r), body[r].to)
  <2>1. CASE Reads(r)
    BY <1>1, <2>1 DEF Reads, ReadTargetVote
  <2>2. CASE \/ Loads(r) \/ SumEligible(r) \/ Flush(r) \/ Creates(r)
             \/ GivesUp(r) \/ Silenced(r) \/ Publish(r) \/ Commits(r)
    BY <2>2
    DEF Loads, SumEligible, Flush, Creates, GivesUp, Silenced, Publish, Commits, session
  <2> QED  BY StepKinds, <2>1, <2>2
<1>4. ASSUME NEW q \in Requests, NEW t \in target'[q]
      PROVE  /\ pc'[q] # "idle" /\ t.weight \in Nat
             /\ \E v \in votes :
                  /\ v.id = t.id /\ v.proposal = Proposal(q) /\ v.voter = body[q].to
                  /\ t.weight <= Stakes(Backing(v))
  <2>1. CASE t \in target[q]
    <3>1. pc'[q] # "idle"
      BY <1>1, <1>2, <2>1 DEF TargetsWeigh, Others
    <3> QED  BY <2>1, <3>1 DEF TargetsWeigh
  <2>2. CASE q = r /\ t \in VotesOf(Proposal(r), body[r].to)
    <3>1. t \in votes /\ t.proposal = Proposal(r) /\ t.voter = body[r].to
      BY <2>2 DEF VotesOf
    <3>2. t.weight \in Nat /\ t.weight <= Stakes(Backing(t))
      BY <3>1 DEF RowsWeigh
    <3> QED  BY <1>1, <2>2, <3>1, <3>2
  <2> QED  BY <1>2, <1>3, <1>4, <2>1, <2>2 DEF Others
<1>5. ASSUME NEW v \in votes
      PROVE  \E w \in votes' :
                SameBallot(w, v) /\ Stakes(Backing(v)) <= Stakes(Backing(w)')
                /\ Stakes(Backing(v)) \in Nat /\ Stakes(Backing(w)') \in Nat
  <2>1. PICK w \in votes' : SameBallot(w, v)
    BY BallotsKept DEF Survives
  <2>2. v.voter \in Users /\ w.voter = v.voter /\ w.proposal = v.proposal /\ w.choice = v.choice
    BY <2>1 DEF TypeInv, TypeOK, SameBallot
  <2>3. /\ Stakes(Near(VotesOn(v.proposal), v.voter)) <= Stakes(Near(VotesOn(v.proposal)', v.voter))
        /\ Stakes(Far(VotesOn(v.proposal), v.voter)) <= Stakes(Far(VotesOn(v.proposal)', v.voter))
        /\ Stakes(Near(VotesOn(v.proposal), v.voter)) \in Nat
        /\ Stakes(Near(VotesOn(v.proposal)', v.voter)) \in Nat
        /\ Stakes(Far(VotesOn(v.proposal), v.voter)) \in Nat
        /\ Stakes(Far(VotesOn(v.proposal)', v.voter)) \in Nat
    BY <2>2, BoundsGrow
  <2>4. Backing(w)' = IF v.choice = NoChoice THEN Near(VotesOn(v.proposal)', v.voter)
                                             ELSE Far(VotesOn(v.proposal)', v.voter)
    BY <2>2 DEF Backing, VotesOn
  <2>5. /\ Stakes(Backing(v)) <= Stakes(Backing(w)')
        /\ Stakes(Backing(v)) \in Nat /\ Stakes(Backing(w)') \in Nat
    BY <2>3, <2>4 DEF Backing
  <2> QED  BY <2>1, <2>5
<1>6. ASSUME NEW q \in Requests, NEW t \in target'[q]
      PROVE  /\ pc'[q] # "idle" /\ t.weight \in Nat
             /\ \E w \in votes' :
                  /\ w.id = t.id /\ w.proposal = Proposal(q)' /\ w.voter = body'[q].to
                  /\ t.weight <= Stakes(Backing(w)')
  <2>1. t.weight \in Nat /\ pc'[q] # "idle"
    BY <1>4, <1>6
  <2>2. PICK v \in votes : /\ v.id = t.id /\ v.proposal = Proposal(q) /\ v.voter = body[q].to
                           /\ t.weight <= Stakes(Backing(v))
    BY <1>4, <1>6
  <2>3. PICK w \in votes' :
          SameBallot(w, v) /\ Stakes(Backing(v)) <= Stakes(Backing(w)')
          /\ Stakes(Backing(v)) \in Nat /\ Stakes(Backing(w)') \in Nat
    BY <1>5
  <2>4. t.weight <= Stakes(Backing(w)')
    BY <2>1, <2>2, <2>3
  <2>5. w.id = t.id /\ w.proposal = Proposal(q) /\ w.voter = body[q].to
    BY <2>2, <2>3 DEF SameBallot
  <2> QED  BY <1>1, <2>1, <2>4, <2>5
<1> QED  BY <1>6 DEF TargetsWeigh

\* Every step keeps the weights within the stakes.
LEMMA NextKeepsWeights ==
    ASSUME OnlySales
    PROVE  WeightInv /\ [Next]_vars => WeightInv'
<1> SUFFICES ASSUME WeightInv, [Next]_vars PROVE WeightInv'
  OBVIOUS
<1> USE DEF WeightInv
<1>1. VoterInv' /\ IdsInv'
  BY StepKeepsKeys, NextKeepsIds DEF VoterInv
<1>2. ASSUME NEW r \in Requests, Step(r) \/ Fail(r) \/ LoseCommitReply(r)
      PROVE  WeightInv'
  <2>1. StakeInv'
    BY <1>2, StepWeighs DEF StakeInv, VoterInv
  <2> QED  BY <1>1, <1>2, <2>1, StepKeepsRows, StepKeepsLoaded, StepKeepsHandlers
<1>3. ASSUME NEW r \in Requests, Receive(r) PROVE WeightInv'
  <2>1. PICK b \in Bodies :
          /\ body' = [body EXCEPT ![r] = b]
          /\ pc' = [pc EXCEPT ![r] = IF b.op = "create" THEN "CheckId" ELSE "ReadProposal"]
    BY <1>3 DEF Receive
  <2>2. /\ pc[r] = "idle" /\ UNCHANGED <<stake, votes, weight, target>>
        /\ pc \in [Requests -> Labels] /\ DOMAIN body = Requests
    BY <1>3 DEF Receive, At, world, tables, session, VoterInv, TypeInv, TypeOK
  <2>3. /\ \A q \in Others(r) : /\ pc'[q] = pc[q] /\ body'[q] = body[q]
                                /\ Proposal(q)' = Proposal(q)
        /\ pc'[r] \in {"CheckId", "ReadProposal"} /\ target[r] = {}
    BY <2>1, <2>2 DEF Others, TargetsWeigh, Proposal
  <2>4. StakeInv' /\ RowsWeigh'
    BY <2>2 DEF StakeInv, RowsWeigh, Backing, VotesOn
  <2>5. TargetsWeigh'
    BY <2>2, <2>3 DEF TargetsWeigh, Backing, VotesOn, Others
  <2>6. ASSUME NEW q \in Requests PROVE HandlerWeighs(q)'
    <3>1. CASE q = r
      BY <2>2, <2>3, <3>1 DEF HandlerWeighs
    <3>2. CASE q # r
      BY <2>2, <2>3, <3>2 DEF HandlerWeighs, VotesOf, VotesOn, Others
    <3> QED  BY <3>1, <3>2
  <2> QED  BY <1>1, <2>4, <2>5, <2>6
<1>4. ASSUME UNCHANGED <<votes, pc, body, weight, target>>, StakeInv' PROVE WeightInv'
  <2>1. RowsWeigh' /\ TargetsWeigh'
    BY <1>4 DEF RowsWeigh, TargetsWeigh, Backing, VotesOn, Proposal
  <2>2. \A q \in Requests : HandlerWeighs(q)'
    BY <1>4 DEF HandlerWeighs, VotesOf, VotesOn, Proposal
  <2> QED  BY <1>1, <1>4, <2>1, <2>2
<1>5. ASSUME NEW trade \in Trades, SetOwnership(trade[1], trade[2]) PROVE WeightInv'
  <2>1. stake' = [stake EXCEPT ![trade[1]] = trade[2]] /\ stake \in [Users -> Nat]
    BY <1>5 DEF SetOwnership, VoterInv, TypeInv, TypeOK
  <2>2. StakeInv'
    BY <2>1 DEF StakeInv, OnlySales
  <2> QED  BY <1>4, <1>5, <2>2 DEF SetOwnership, tables, requests, session
<1>6. ASSUME (\E u \in Leavers : DeactivateUser(u)) \/ Tick \/ Wait \/ UNCHANGED vars
      PROVE  WeightInv'
  <2>1. UNCHANGED <<stake, votes, pc, body, weight, target>>
    BY <1>6 DEF DeactivateUser, Tick, Wait, vars, world, tables, requests, session
  <2> QED  BY <1>4, <2>1 DEF StakeInv
<1> QED  BY <1>2, <1>3, <1>5, <1>6 DEF Next

LEMMA InitWeights == Init => WeightInv
<1> SUFFICES ASSUME Init PROVE WeightInv
  OBVIOUS
<1>1. VoterInv
  BY InitTypes DEF Init, VoterInv, KeyInv, OneVotePerVoter, Uncommitted
<1>2. IdsInv
  BY InitTrail
<1>3. StakeInv
  <2>1. stake = InitialStake /\ InitialStake \in [Users -> Nat]
    BY WorldTypes DEF Init
  <2> QED  BY <2>1 DEF StakeInv
<1>4. RowsWeigh /\ TargetsWeigh /\ \A r \in Requests : HandlerWeighs(r)
  BY DEF Init, RowsWeigh, TargetsWeigh, HandlerWeighs
<1> QED  BY <1>1, <1>2, <1>3, <1>4 DEF WeightInv

\* The weights cast for the three choices, added up.
LEMMA TotalOfChoices ==
    ASSUME NEW vs, NEW w, \A c \in VoteChoice : w[c] = CastWeight(vs, c) /\ w[c] \in Nat
    PROVE  MapThenSumSet(LAMBDA c : CastWeight(vs, c), VoteChoice)
                = CastWeight(vs, "YES") + (CastWeight(vs, "NO") + CastWeight(vs, "ABSTAIN"))
<1> DEFINE Sums(it) ==
        it = [s \in SUBSET VoteChoice |-> IF s = {} THEN 0
                                 ELSE CastWeight(vs, First(s)) + it[s \ {First(s)}]]
           f == CHOOSE it : Sums(it)
           k == CHOOSE it : SumsUp(it, VoteChoice, w)
<1>1. MapThenSumSet(LAMBDA c : CastWeight(vs, c), VoteChoice) = f[VoteChoice]
  BY DEF MapThenSumSet, MapThenFoldSet, First
<1>2. \A s \in SUBSET VoteChoice : s # {} => w[First(s)] = CastWeight(vs, First(s))
  BY DEF First
<1>3. \A it : Sums(it) <=> SumsUp(it, VoteChoice, w)
  BY <1>2 DEF SumsUp
<1>4. /\ IsFiniteSet(VoteChoice) /\ IsFiniteSet({"NO", "ABSTAIN"}) /\ IsFiniteSet({"ABSTAIN"})
      /\ IsFiniteSet({})
  <2>1. IsFiniteSet({}) /\ IsFiniteSet({"ABSTAIN"})
    BY FS_EmptySet, FS_Singleton
  <2>2. {"NO", "ABSTAIN"} = {"ABSTAIN"} \cup {"NO"} /\ VoteChoice = {"NO", "ABSTAIN"} \cup {"YES"}
    BY DEF VoteChoice
  <2>3. IsFiniteSet({"NO", "ABSTAIN"})
    BY <2>1, <2>2, FS_AddElement
  <2>4. IsFiniteSet(VoteChoice)
    BY <2>2, <2>3, FS_AddElement
  <2> QED  BY <2>1, <2>3, <2>4
<1>5. SumsUp(f, VoteChoice, w) /\ SumsUp(k, VoteChoice, w)
  <2> HIDE DEF Sums
  <2>1. \E it : SumsUp(it, VoteChoice, w)
    BY <1>4, SumsExist
  <2>2. SumsUp(k, VoteChoice, w)
    BY <2>1
  <2>3. Sums(f)
    BY <1>3, <2>1
  <2> QED  BY <1>3, <2>2, <2>3
<1>6. f[VoteChoice] = Total(w, VoteChoice)
  <2>1. f[VoteChoice] = k[VoteChoice]
    BY <1>4, <1>5, SumsUnique
  <2> QED  BY <2>1, TotalUnfold
<1>7. Total(w, VoteChoice) = w["YES"] + (w["NO"] + w["ABSTAIN"])
  <2>1. /\ VoteChoice \ {"YES"} = {"NO", "ABSTAIN"} /\ {"NO", "ABSTAIN"} \ {"NO"} = {"ABSTAIN"}
        /\ {"ABSTAIN"} \ {"ABSTAIN"} = {}
        /\ w["YES"] \in Nat /\ w["NO"] \in Nat /\ w["ABSTAIN"] \in Nat
    BY DEF VoteChoice
  <2>2. Total(w, VoteChoice) = w["YES"] + Total(w, {"NO", "ABSTAIN"})
    BY <1>4, <2>1, TotalRemove DEF VoteChoice
  <2>3. Total(w, {"NO", "ABSTAIN"}) = w["NO"] + Total(w, {"ABSTAIN"})
    BY <1>4, <2>1, TotalRemove
  <2>4. Total(w, {"ABSTAIN"}) = w["ABSTAIN"] + Total(w, {})
    BY <1>4, <2>1, TotalRemove
  <2>5. Total(w, {}) = 0
    BY <1>4, TotalStep
  <2> QED  BY <2>1, <2>2, <2>3, <2>4, <2>5
<1>8. /\ w["YES"] = CastWeight(vs, "YES") /\ w["NO"] = CastWeight(vs, "NO")
      /\ w["ABSTAIN"] = CastWeight(vs, "ABSTAIN")
  BY DEF VoteChoice
<1> QED  BY <1>1, <1>6, <1>7, <1>8

\* They are the weights of the votes that make a choice.
LEMMA ChoicesAddUp ==
    ASSUME NEW vs, IsFiniteSet(vs), \A v \in vs : v.weight \in Nat
    PROVE  /\ MapThenSumSet(LAMBDA c : CastWeight(vs, c), VoteChoice)
                = Total([v \in vs |-> v.weight], {v \in vs : v.choice \in VoteChoice})
           /\ CastWeight(vs, "YES") + CastWeight(vs, "NO") + CastWeight(vs, "ABSTAIN")
                = Total([v \in vs |-> v.weight], {v \in vs : v.choice \in VoteChoice})
<1> DEFINE g == [v \in vs |-> v.weight]
           For(c) == {v \in vs : v.choice = c}
<1>1. \A c : IsFiniteSet(For(c)) /\ For(c) \subseteq vs
  BY FS_Subset
<1>2. /\ \A v \in vs : g[v] = v.weight /\ g[v] \in Nat
      /\ \A c, d : c # d => For(c) \cap For(d) = {}
      /\ {v \in vs : v.choice \in VoteChoice} = For("YES") \cup (For("NO") \cup For("ABSTAIN"))
  BY DEF VoteChoice
<1>3. \A c : CastWeight(vs, c) = MapThenSumSet(LAMBDA v : v.weight, For(c))
  BY DEF CastWeight
<1> HIDE DEF g, For
<1>4. ASSUME NEW c PROVE CastWeight(vs, c) = Total(g, For(c)) /\ CastWeight(vs, c) \in Nat
  <2>1. MapThenSumSet(LAMBDA v : v.weight, For(c)) = Total(g, For(c))
    BY <1>1, <1>2, TotalOfWeights
  <2>2. Total(g, For(c)) \in Nat
    BY <1>1, <1>2, TotalNat
  <2> QED  BY <1>3, <2>1, <2>2
<1> DEFINE w == [c \in VoteChoice |-> CastWeight(vs, c)]
<1>5. MapThenSumSet(LAMBDA c : CastWeight(vs, c), VoteChoice)
                = CastWeight(vs, "YES") + (CastWeight(vs, "NO") + CastWeight(vs, "ABSTAIN"))
  <2>1. \A c \in VoteChoice : w[c] = CastWeight(vs, c) /\ w[c] \in Nat
    BY <1>4
  <2> HIDE DEF w
  <2> QED  BY <2>1, TotalOfChoices
<1>6. Total(g, For("NO") \cup For("ABSTAIN")) = Total(g, For("NO")) + Total(g, For("ABSTAIN"))
  BY <1>1, <1>2, TotalUnion
<1>7. Total(g, For("YES") \cup (For("NO") \cup For("ABSTAIN")))
            = Total(g, For("YES")) + Total(g, For("NO") \cup For("ABSTAIN"))
  <2>1. /\ IsFiniteSet(For("NO") \cup For("ABSTAIN"))
        /\ For("YES") \cap (For("NO") \cup For("ABSTAIN")) = {}
        /\ For("YES") \cup (For("NO") \cup For("ABSTAIN")) \subseteq vs
    BY <1>1, <1>2, FS_Union
  <2> QED  BY <1>1, <1>2, <2>1, TotalUnion
<1>8. CastWeight(vs, "YES") + (CastWeight(vs, "NO") + CastWeight(vs, "ABSTAIN"))
            = Total(g, {v \in vs : v.choice \in VoteChoice})
  BY <1>2, <1>4, <1>6, <1>7
<1>9. CastWeight(vs, "YES") + CastWeight(vs, "NO") + CastWeight(vs, "ABSTAIN")
            = CastWeight(vs, "YES") + (CastWeight(vs, "NO") + CastWeight(vs, "ABSTAIN"))
  BY <1>4
<1> QED  BY <1>5, <1>8, <1>9 DEF g

\* Everybody who voted on a proposal stands behind one direct vote at most.
LEMMA OneSide ==
    ASSUME VoterInv, RowsWeigh, NEW p, NEW v \in VotesOn(p), NEW w \in VotesOn(p),
           v.choice \in VoteChoice, w.choice \in VoteChoice,
           Far(VotesOn(p), v.voter) \cap Far(VotesOn(p), w.voter) # {}
    PROVE  v = w
<1>1. /\ \A x, y \in VotesOn(p) : x.voter = y.voter => x = y
      /\ v.to = v.voter /\ w.to = w.voter
  BY DEF VoterInv, OneVotePerVoter, RowsWeigh, VotesOn, VoteChoice, NoChoice
<1>2. ASSUME NEW u, NEW z \in VotesOn(p), z.to = z.voter, u \in Far(VotesOn(p), z.voter)
      PROVE  \E e, d \in VotesOn(p) : e.voter = u /\ d.voter = e.to /\ d.to = z.voter
  <2>1. \/ u = z.voter
        \/ \E e \in VotesOn(p) : e.voter = u /\ e.to = z.voter
        \/ \E e, d \in VotesOn(p) : e.voter = u /\ d.voter = e.to /\ d.to = z.voter
    BY <1>2 DEF Far, Near, Behind
  <2> QED  BY <1>2, <2>1
<1>3. PICK u : u \in Far(VotesOn(p), v.voter) /\ u \in Far(VotesOn(p), w.voter)
  OBVIOUS
<1>4. PICK e, d \in VotesOn(p) : e.voter = u /\ d.voter = e.to /\ d.to = v.voter
  BY <1>1, <1>2, <1>3
<1>5. PICK x, y \in VotesOn(p) : x.voter = u /\ y.voter = x.to /\ y.to = w.voter
  BY <1>1, <1>2, <1>3
<1> QED  BY <1>1, <1>4, <1>5

\* So the weights cast on a proposal are covered by the stakes of its voters.
LEMMA WeightsCovered == WeightInv => NoDoubleCount
<1> SUFFICES ASSUME WeightInv, NEW p \in Proposals
    PROVE  MapThenSumSet(LAMBDA c : CastWeight(VotesOn(p), c), VoteChoice)
             <= MapThenSumSet(LAMBDA u : InitialStake[u], {v.voter : v \in VotesOn(p)})
  BY DEF NoDoubleCount
<1> USE DEF WeightInv
<1> DEFINE vs == VotesOn(p)
           U == {v.voter : v \in vs}
           R == {v \in vs : v.choice \in VoteChoice}
           g == [v \in vs |-> v.weight]
           b == [v \in vs |-> Far(vs, v.voter)]
<1>1. Cast(vs) /\ \A v \in vs : v \in votes /\ v.proposal = p
  BY VotesAreCast DEF VotesOn, VoterInv
<1>2. IsFiniteSet(vs) /\ IsFiniteSet(R) /\ IsFiniteSet(U) /\ U \subseteq Users
  <2>1. [v \in vs |-> v.voter] \in Surjection(vs, U)
    BY DEF Surjection
  <2>2. IsFiniteSet(vs) /\ U \subseteq Users
    BY <1>1 DEF Cast
  <2> QED  BY <2>1, <2>2, FS_Surjection, FS_Subset
<1>3. \A v \in R : /\ g[v] \in Nat /\ g[v] <= Total(InitialStake, b[v]) /\ b[v] \subseteq U
  <2> SUFFICES ASSUME NEW v \in R
      PROVE  g[v] \in Nat /\ g[v] <= Total(InitialStake, b[v]) /\ b[v] \subseteq U
    OBVIOUS
  <2>1. v.weight \in Nat /\ v.weight <= Stakes(Far(vs, v.voter))
    BY <1>1 DEF RowsWeigh, Backing, VoteChoice, NoChoice
  <2>2. Far(vs, v.voter) \subseteq U
    BY DEF Far, Near, Behind
  <2> QED  BY <2>1, <2>2 DEF Stakes
<1>4. \A v, w \in R : b[v] \cap b[w] # {} => v = w
  BY OneSide
<1>5. \A u \in U : InitialStake[u] \in Nat
  BY <1>2, WorldTypes
<1>6. Total(g, R) <= Total(InitialStake, U)
  <2> HIDE DEF g, R, U, b
  <2> QED  BY <1>2, <1>3, <1>4, <1>5, TotalCovered
<1>7. MapThenSumSet(LAMBDA c : CastWeight(vs, c), VoteChoice) = Total(g, R)
  <2>1. \A v \in vs : v.weight \in Nat
    BY <1>1 DEF RowsWeigh
  <2> HIDE DEF vs
  <2> QED  BY <1>2, <2>1, ChoicesAddUp
<1>8. MapThenSumSet(LAMBDA u : InitialStake[u], U) = Total(InitialStake, U)
  BY DEF Total
<1> QED  BY <1>6, <1>7, <1>8

\* Whatever the order in which delegates and their targets vote, whatever is lost, and
\* however stale the rows are that delegations boost: no stake is counted twice.  A stake
\* bought after the start would count with the stakes of the start, so it is about sales.
THEOREM NoDoubleCountHolds ==
    ASSUME OnlySales
    PROVE  Spec => []NoDoubleCount
<1>1. WeightInv /\ [Next]_vars => WeightInv'
  BY NextKeepsWeights
<1> QED  BY <1>1, InitWeights, WeightsCovered, PTL DEF Spec

-----------------------------------------------------------------------------
(* Whose stakes a vote must weigh, if requests do not overlap.             *)

\* Those who delegated to u.
Delegators(vs, u) == {d.voter : d \in {e \in vs : e.to = u /\ e.choice = NoChoice}}

\* Those whose rows on its proposal name the voter of v.
Backers(v, vs) == {d.voter : d \in {e \in vs : e.proposal = v.proposal /\ e.to = v.voter}}

\* Nobody holds less than when the run started.
StakeKept == \A u \in Users : InitialStake[u] <= stake[u]

\* A vote weighs the stake of its voter at least, a direct one those of its backers.
FullRows ==
    \A v \in votes :
        /\ v.weight \in Nat /\ InitialStake[v.voter] <= v.weight
        /\ v.choice # NoChoice =>
              /\ v.to = v.voter
              /\ Stakes(Backers(v, votes)) \in Nat
              /\ Stakes(Backers(v, votes)) <= v.weight

\* So does the one a request is about to insert, which also has the stakes of those who
\* delegated to its voter; a delegation has loaded the row of its target as it is.
FullHandler(r) ==
    /\ weight[r] \in Nat
    /\ pc[r] # "idle" /\ body[r].op \in BallotOps =>
        /\ pc[r] \in {"SumDelegated", "ReadTarget", "ReadTargetVote", "Boost", "Insert",
                      "Publish", "Commit"}
           => InitialStake[body[r].voter] <= weight[r]
        /\ pc[r] \in {"Insert", "Publish", "Commit"} /\ body[r].op = "vote"
           => Stakes({body[r].voter} \cup Delegators(VotesOn(Proposal(r)), body[r].voter))
                <= weight[r]
        /\ pc[r] \in {"Boost", "Insert", "Publish", "Commit"} /\ body[r].op = "delegate"
           => target[r] = VotesOf(Proposal(r), body[r].to)

DelegationInv ==
    /\ RegisterInv /\ IdsInv /\ StakeKept /\ FullRows
    /\ \A r \in Requests : FullHandler(r)

\* Entitlements are only bought.
OnlyPurchases == \A trade \in Trades : InitialStake[trade[1]] <= trade[2]

\* One more user adds a stake at most.
LEMMA StakesJoin ==
    ASSUME NEW T, IsFiniteSet(T), T \subseteq Users, NEW u \in Users
    PROVE  /\ Stakes(T) \in Nat /\ Stakes({u} \cup T) \in Nat /\ InitialStake[u] \in Nat
           /\ Stakes({u} \cup T) <= InitialStake[u] + Stakes(T)
<1>1. /\ IsFiniteSet({u} \cup T) /\ {u} \cup T \subseteq Users
      /\ \A x \in {u} \cup T : InitialStake[x] \in Nat
  BY FS_AddElement, WorldTypes
<1>2. Stakes(T) \in Nat /\ Stakes({u} \cup T) \in Nat /\ InitialStake[u] \in Nat
  BY <1>1, TotalNat DEF Stakes
<1>3. CASE u \in T
  <2>1. {u} \cup T = T
    BY <1>3
  <2>2. Stakes({u} \cup T) = Stakes(T)
    BY <2>1
  <2> QED  BY <1>2, <2>2
<1>4. CASE u \notin T
  <2>1. ({u} \cup T) \ {u} = T
    BY <1>4
  <2>2. Stakes({u} \cup T) = InitialStake[u] + Stakes(T)
    BY <1>1, <2>1, TotalRemove DEF Stakes
  <2> QED  BY <1>2, <2>2
<1> QED  BY <1>2, <1>3, <1>4

\* What the delegations to u weigh covers the stakes of those who made them.
LEMMA DelegatorsAreCounted ==
    ASSUME VoterInv, IdsInv, FullRows, NEW p, NEW u
    PROVE  /\ IsFiniteSet(Delegators(VotesOn(p), u)) /\ Delegators(VotesOn(p), u) \subseteq Users
           /\ DelegatedTo(p, u) \in Nat
           /\ Stakes(Delegators(VotesOn(p), u)) <= DelegatedTo(p, u)
<1> DEFINE R == {v \in {d \in VotesOn(p) : d.to = u} : v.choice = NoChoice}
           w == [v \in R |-> v.weight]
           g == [v \in R |-> v.voter]
<1>1. \A v \in R : /\ v \in votes /\ v.voter \in Users /\ w[v] = v.weight /\ g[v] = v.voter
                   /\ v.weight \in Nat /\ InitialStake[v.voter] <= v.weight
  BY DEF VotesOn, VoterInv, TypeInv, TypeOK, FullRows
<1>2. IsFiniteSet(R)
  BY VotesWithinAudit, FS_Subset DEF VotesOn, VoterInv
<1>3. Delegators(VotesOn(p), u) = {g[v] : v \in R}
  BY DEF Delegators
<1>4. DelegatedTo(p, u) = Total(w, R)
  <2>1. MapThenSumSet(LAMBDA v : v.weight, R) = Total(w, R)
    BY <1>2, TotalOfWeights
  <2> QED  BY <2>1 DEF DelegatedTo, CastWeight
<1> HIDE DEF R, w, g
<1>5. \A v \in R : w[v] \in Nat /\ InitialStake[g[v]] \in Nat /\ InitialStake[g[v]] <= w[v]
  BY <1>1, WorldTypes
<1>6. /\ IsFiniteSet({g[v] : v \in R})
      /\ Total(InitialStake, {g[v] : v \in R}) <= Total(w, R)
  BY <1>2, <1>5, TotalImage
<1>7. Total(w, R) \in Nat
  BY <1>2, <1>5, TotalNat
<1> QED  BY <1>1, <1>3, <1>4, <1>6, <1>7 DEF Stakes

\* Where the handler of a ballot has the row it boosts from.
LEMMA StepLoads ==
    ASSUME TypeInv, NEW r \in Requests, Step(r) \/ Fail(r) \/ LoseCommitReply(r),
           body[r].op \in BallotOps, pc'[r] \in {"Boost", "Insert", "Publish", "Commit"}
    PROVE  /\ votes' = votes
           /\ \/ pc[r] = "ReadTargetVote"
                 /\ target' = [target EXCEPT ![r] = VotesOf(Proposal(r), body[r].to)]
              \/ pc[r] # "ReadTargetVote" /\ target' = target
<1>1. pc \in [Requests -> Labels]
  BY DEF TypeInv, TypeOK
<1>2. ~Commits(r) /\ ~Silenced(r) /\ ~GivesUp(r) /\ ~Loads(r)
  BY <1>1 DEF Commits, Silenced, GivesUp, Loads
<1>3. votes' = votes
  BY <1>2, StepKinds DEF Reads, SumEligible, Flush, Creates, Publish, tables
<1>4. CASE pc[r] = "ReadTargetVote"
  <2>1. ReadTargetVote(r) \/ Fail(r)
    BY <1>4 DEF Step, At, ReadProposal, ReadVoter, CheckDuplicate, ReadStake, ReadTarget, Boost,
                SumDelegated, InsertVote, CheckId, InsertProposal, ReadBallots, SumEligible,
                Flush, Publish, Commit, LoseCommitReply, Store
  <2>2. ~Fail(r)
    BY <1>1, <1>4 DEF Fail, At, Respond
  <2> QED  BY <1>3, <1>4, <2>1, <2>2 DEF ReadTargetVote
<1>5. CASE pc[r] # "ReadTargetVote"
  <2>1. ~ReadTargetVote(r)
    BY <1>5 DEF ReadTargetVote, At
  <2>2. target' = target
    BY <1>2, <2>1, StepKinds DEF Reads, SumEligible, Flush, Creates, Publish, session
  <2> QED  BY <1>3, <1>5, <2>2
<1> QED  BY <1>4, <1>5

\* A handler that is alone has its full weight and the row it boosts.
LEMMA StepKeepsFull ==
    ASSUME OneAtATime, DelegationInv, NEW r \in Requests,
           Step(r) \/ Fail(r) \/ LoseCommitReply(r), NEW q \in Requests
    PROVE  FullHandler(q)'
<1> USE DEF DelegationInv, RegisterInv, VoterInv
<1>1. /\ body' = body /\ StageAt(body[r], pc[r]) /\ DOMAIN weight = Requests
      /\ DOMAIN target = Requests /\ pc[r] # "idle" /\ body[r] \in Bodies
  BY StepKinds DEF TypeInv, SessionInv, Stage
<1>2. WeightStep(r)
  BY StepWeighs
<1>3. CASE q # r
  <2>1. pc[q] \in {"idle", "done"} /\ pc'[q] = pc[q] /\ weight'[q] = weight[q]
    BY <1>1, <1>2, <1>3, Alone DEF WeightStep, Others
  <2>2. FullHandler(q)
    OBVIOUS
  <2> QED  BY <2>1, <2>2 DEF FullHandler
<1>4. CASE q = r /\ body[r].op \notin BallotOps
  <2>1. weight'[r] \in Nat
    <3>1. weight' = weight
      BY <1>1, <1>2, <1>4 DEF WeightStep, StageAt, BallotOps
    <3> QED  BY <3>1 DEF FullHandler
  <2> QED  BY <1>1, <1>4, <2>1 DEF FullHandler
<1>5. CASE q = r /\ body[r].op \in BallotOps
  <2> DEFINE u == body[r].voter
             p == Proposal(r)
             D == Delegators(VotesOn(p), u)
  <2>1. /\ u \in Users /\ InitialStake[u] \in Nat
    BY <1>1, <1>5, BodyTypes, WorldTypes
  <2>2. /\ IsFiniteSet(D) /\ D \subseteq Users /\ DelegatedTo(p, u) \in Nat
        /\ Stakes(D) <= DelegatedTo(p, u)
    BY DelegatorsAreCounted
  <2>3. /\ Stakes(D) \in Nat /\ Stakes({u} \cup D) \in Nat
        /\ Stakes({u} \cup D) <= InitialStake[u] + Stakes(D)
    <3> HIDE DEF D, u
    <3> QED  BY <2>1, <2>2, StakesJoin
  <2>4. ASSUME weight'[r] \in Nat,
               pc'[r] \in {"SumDelegated", "ReadTarget", "ReadTargetVote", "Boost", "Insert",
                           "Publish", "Commit"} => InitialStake[u] <= weight'[r],
               pc'[r] \in {"Insert", "Publish", "Commit"} /\ body[r].op = "vote"
                    => Stakes({u} \cup D) <= weight'[r]
        PROVE  FullHandler(r)'
    <3>1. /\ u' = u /\ p' = p
          /\ VotesOf(p, body[r].to)' =
                {v \in votes' : v.proposal = p /\ v.voter = body[r].to}
      BY <1>1 DEF Proposal, VotesOf
    <3>2. ASSUME pc'[r] \in {"Boost", "Insert", "Publish", "Commit"}
          PROVE  /\ votes' = votes
                 /\ \/ pc[r] = "ReadTargetVote"
                       /\ target' = [target EXCEPT ![r] = VotesOf(p, body[r].to)]
                    \/ pc[r] # "ReadTargetVote" /\ target' = target
      BY <1>5, <3>2, StepLoads
    <3>3. pc'[r] \in {"Insert", "Publish", "Commit"} => D' = D
      BY <3>1, <3>2 DEF VotesOn, Delegators
    <3>4. pc'[r] \in {"Boost", "Insert", "Publish", "Commit"} /\ body[r].op = "delegate"
                => target'[r] = VotesOf(p, body[r].to)'
      <4> SUFFICES ASSUME pc'[r] \in {"Boost", "Insert", "Publish", "Commit"}, body[r].op = "delegate"
          PROVE  target'[r] = VotesOf(p, body[r].to)'
        OBVIOUS
      <4>1. VotesOf(p, body[r].to)' = VotesOf(p, body[r].to)
        BY <3>1, <3>2 DEF VotesOf
      <4>2. CASE pc[r] = "ReadTargetVote"
        BY <1>1, <3>2, <4>1, <4>2
      <4>3. CASE pc[r] # "ReadTargetVote"
        <5>1. pc[r] \in {"Boost", "Insert", "Publish"} /\ target' = target
          BY <1>1, <1>2, <1>5, <3>2, <4>3 DEF WeightStep, StageAt
        <5>2. target[r] = VotesOf(p, body[r].to)
          BY <1>1, <1>5, <5>1 DEF FullHandler
        <5> QED  BY <4>1, <5>1, <5>2
      <4> QED  BY <4>2, <4>3
    <3>5. pc'[r] \in {"Insert", "Publish", "Commit"} =>
            Stakes({body[r].voter} \cup Delegators(VotesOn(Proposal(r)), body[r].voter))'
                = Stakes({u} \cup D)
      BY <3>1, <3>3
    <3> HIDE DEF D, u, p
    <3>6. /\ body' = body
          /\ u = body[r].voter /\ p = Proposal(r) /\ p' = Proposal(r)'
      BY <1>1 DEF u, p
    <3> QED  BY <2>4, <3>4, <3>5, <3>6 DEF FullHandler
  <2>5. /\ weight[r] \in Nat
        /\ pc[r] \in {"SumDelegated", "ReadTarget", "ReadTargetVote", "Boost", "Insert",
                      "Publish", "Commit"} => InitialStake[u] <= weight[r]
        /\ pc[r] \in {"Insert", "Publish", "Commit"} /\ body[r].op = "vote"
                => Stakes({u} \cup D) <= weight[r]
    BY <1>1, <1>5 DEF FullHandler
  <2>6. /\ pc[r] \in {"ReadTargetVote", "Boost"} => body[r].op = "delegate"
        /\ pc[r] = "SumDelegated" => body[r].op = "vote"
    BY <1>1 DEF StageAt
  <2> HIDE DEF D, u, p
  <2>7. CASE /\ weight' = weight
             /\ pc'[r] \notin {"SumDelegated", "ReadTarget"}
             /\ pc'[r] = "ReadTargetVote" => pc[r] = "ReadTarget"
             /\ pc'[r] = "Boost" => pc[r] = "ReadTargetVote"
             /\ pc'[r] \in {"Insert", "Publish", "Commit"} =>
                        pc[r] \in {"ReadTargetVote", "Boost", "Insert", "Publish"}
    BY <1>5, <2>4, <2>5, <2>6, <2>7
  <2>8. CASE pc[r] = "ReadStake" /\ pc'[r] \in {"ReadTarget", "SumDelegated"}
             /\ weight' = [weight EXCEPT ![r] = stake[body[r].voter]]
    <3>1. weight'[r] = stake[u] /\ stake \in [Users -> Nat]
      BY <1>1, <2>8 DEF u, TypeInv, TypeOK
    <3>2. stake[u] \in Nat /\ InitialStake[u] <= stake[u]
      BY <2>1, <3>1 DEF StakeKept
    <3> QED  BY <1>5, <2>4, <2>8, <3>1, <3>2
  <2>9. CASE pc[r] = "SumDelegated" /\ pc'[r] = "Insert" /\ votes' = votes
             /\ weight' = [weight EXCEPT ![r] = @ + DelegatedTo(Proposal(r), body[r].voter)]
    <3>1. weight'[r] = weight[r] + DelegatedTo(p, u)
      BY <1>1, <2>9 DEF p, u
    <3>2. /\ weight'[r] \in Nat /\ InitialStake[u] <= weight'[r]
          /\ Stakes({u} \cup D) <= weight'[r]
      BY <2>1, <2>2, <2>3, <2>5, <2>9, <3>1
    <3> QED  BY <1>5, <2>4, <3>2
  <2> QED  BY <1>2, <1>5, <2>7, <2>8, <2>9 DEF WeightStep
<1> QED  BY <1>3, <1>4, <1>5

\* A commit keeps the weights full: a vote comes with its delegations, a delegation raises
\* the vote of its target.
LEMMA CommitKeepsFull ==
    ASSUME DelegationInv, NEW r \in Requests, Commit(r) \/ LoseCommitReply(r)
    PROVE  FullRows'
<1> USE DEF DelegationInv, RegisterInv, VoterInv
<1> DEFINE p == Proposal(r)
           u == body[r].voter
<1>1. Store(r) /\ StageAt(body[r], "Commit") /\ body[r] \in Bodies /\ FullHandler(r)
  BY DEF Commit, LoseCommitReply, Respond, Store, At, TypeInv, Stage, StageAt
<1>2. ASSUME \A v \in votes' :
                /\ v.weight \in Nat /\ InitialStake[v.voter] <= v.weight
                /\ v.choice # NoChoice =>
                      /\ v.to = v.voter
                      /\ Stakes(Backers(v, votes')) \in Nat
                      /\ Stakes(Backers(v, votes')) <= v.weight
      PROVE  FullRows'
  BY <1>2 DEF FullRows
<1>3. ASSUME NEW v \in votes
      PROVE  /\ v.weight \in Nat /\ InitialStake[v.voter] <= v.weight /\ v.voter \in Users
             /\ v.choice # NoChoice =>
                   v.to = v.voter /\ Stakes(Backers(v, votes)) <= v.weight
             /\ IsFiniteSet(Backers(v, votes)) /\ Backers(v, votes) \subseteq Users
             /\ Stakes(Backers(v, votes)) \in Nat
  <2>1. /\ v.weight \in Nat /\ InitialStake[v.voter] <= v.weight /\ v.voter \in Users
        /\ v.choice # NoChoice => v.to = v.voter
    BY DEF FullRows, TypeInv, TypeOK
  <2>2. {d.voter : d \in {e \in VotesOn(v.proposal) : e.to = v.voter}} = Backers(v, votes)
    BY DEF VotesOn, Backers
  <2>3. Backers(v, votes) \subseteq Near(VotesOn(v.proposal), v.voter)
    BY <2>2 DEF Near, Behind
  <2>4. /\ IsFiniteSet(Near(VotesOn(v.proposal), v.voter))
        /\ Near(VotesOn(v.proposal), v.voter) \subseteq Users
    BY <2>1, VotesAreCast, BackingIsFinite
  <2>5. /\ IsFiniteSet(Backers(v, votes)) /\ Backers(v, votes) \subseteq Users
        /\ Stakes(Backers(v, votes)) \in Nat
    BY <2>3, <2>4, FS_Subset, StakesGrow
  <2>6. v.choice # NoChoice => Stakes(Backers(v, votes)) <= v.weight
    BY DEF FullRows
  <2> QED  BY <2>1, <2>5, <2>6
<1>4. CASE body[r].op \notin BallotOps
  <2>1. votes' = votes
    BY <1>1, <1>4 DEF Store, StoredVotes, BallotOps
  <2> QED  BY <1>2, <1>3, <2>1
<1>5. CASE body[r].op \in BallotOps
  <2>1. /\ VoteRow(r).weight = weight[r] /\ VoteRow(r).voter = u /\ VoteRow(r).proposal = p
        /\ VoteRow(r).to = body[r].to /\ VoteRow(r).choice = body[r].choice
    BY DEF VoteRow
  <2>2. /\ VotesOf(p, u) = {} /\ u \in Users /\ InitialStake[u] \in Nat
        /\ weight[r] \in Nat /\ InitialStake[u] <= weight[r]
        /\ body[r].op = "vote" =>
              Stakes({u} \cup Delegators(VotesOn(p), u)) <= weight[r]
        /\ body[r].op = "delegate" => target[r] = VotesOf(p, body[r].to)
    <3>1. VotesOf(p, u) = {} /\ pc[r] = "Commit"
      BY <1>1, <1>5 DEF KeyInv, Store, At, Uncommitted
    <3>2. u \in Users /\ InitialStake[u] \in Nat
      BY <1>1, <1>5, BodyTypes, WorldTypes
    <3> QED  BY <1>1, <1>5, <3>1, <3>2 DEF FullHandler
  <2>3. /\ body[r].op = "vote" => body[r].choice # NoChoice /\ body[r].to = u
        /\ body[r].op = "delegate" => body[r].choice = NoChoice
    BY <1>1, GovernanceAssumption DEF StageAt, VoteChoice, NoChoice
  <2>4. \A v \in votes : ~(v.proposal = p /\ v.voter = u)
    BY <2>2 DEF VotesOf
  <2>5. CASE body[r].op = "vote"
    <3>1. votes' = votes \cup {VoteRow(r)}
      BY <1>1, <2>5 DEF Store, StoredVotes
    <3>2. \A v \in votes : Backers(v, votes') = Backers(v, votes)
      BY <2>1, <2>3, <2>4, <2>5, <3>1 DEF Backers
    <3>3. Backers(VoteRow(r), votes') = {u} \cup Delegators(VotesOn(p), u)
      <4>1. \A e \in votes : e.proposal = p /\ e.to = u => e.choice = NoChoice
        BY <1>3, <2>4
      <4>2. Backers(VoteRow(r), votes') = {u} \cup Backers(VoteRow(r), votes)
        BY <2>1, <2>3, <2>5, <3>1 DEF Backers
      <4>3. Backers(VoteRow(r), votes) = Delegators(VotesOn(p), u)
        BY <2>1, <4>1 DEF Delegators, VotesOn, Backers
      <4> QED  BY <4>2, <4>3
    <3>4. Stakes({u} \cup Delegators(VotesOn(p), u)) \in Nat
      <4>1. /\ IsFiniteSet(Delegators(VotesOn(p), u)) /\ Delegators(VotesOn(p), u) \subseteq Users
        BY DelegatorsAreCounted
      <4> HIDE DEF u
      <4> QED  BY <2>2, <4>1, StakesJoin
    <3>5. /\ VoteRow(r).weight \in Nat /\ InitialStake[VoteRow(r).voter] <= VoteRow(r).weight
          /\ VoteRow(r).to = VoteRow(r).voter
          /\ Stakes(Backers(VoteRow(r), votes')) <= VoteRow(r).weight
          /\ Stakes(Backers(VoteRow(r), votes')) \in Nat
      BY <2>1, <2>2, <2>3, <2>5, <3>3, <3>4
    <3> QED  BY <1>2, <1>3, <3>1, <3>2, <3>5
  <2>6. CASE body[r].op = "delegate"
    <3>1. votes' = {Boosted(v, r) : v \in votes} \cup {VoteRow(r)}
      BY <1>1, <2>6 DEF Store, StoredVotes
    <3> DEFINE B(v) == Boosted(v, r)
               Target(v) == v.proposal = p /\ v.voter = body[r].to
    <3>2. ASSUME NEW v \in votes
          PROVE  /\ B(v).proposal = v.proposal /\ B(v).voter = v.voter /\ B(v).to = v.to
                 /\ B(v).choice = v.choice
                 /\ B(v).weight = IF Target(v) THEN v.weight + weight[r] ELSE v.weight
      <4>1. \A t \in target[r] : t.id = v.id => t = v /\ Target(v)
        BY <2>2, <2>6 DEF IdsInv, VotesOf
      <4>2. CASE Target(v)
        <5>1. v \in target[r]
          BY <2>2, <2>6, <4>2 DEF VotesOf
        <5>2. (CHOOSE t \in target[r] : t.id = v.id) = v
          BY <4>1, <5>1
        <5>3. B(v) = WithWeight(v, v.weight + weight[r])
          BY <5>1, <5>2 DEF Boosted
        <5> QED  BY <4>2, <5>3 DEF WithWeight
      <4>3. CASE ~Target(v)
        <5>1. B(v) = v
          BY <4>1, <4>3 DEF Boosted
        <5> QED  BY <4>3, <5>1
      <4> QED  BY <4>2, <4>3
    <3> HIDE DEF B
    <3>3. votes' = {B(v) : v \in votes} \cup {VoteRow(r)}
      BY <3>1 DEF B
    <3>4. \A v \in votes : Backers(B(v), votes') =
              IF Target(v) THEN {u} \cup Backers(v, votes) ELSE Backers(v, votes)
      BY <2>1, <3>2, <3>3 DEF Backers
    <3>6. ASSUME NEW v \in votes
          PROVE  /\ B(v).weight \in Nat /\ InitialStake[B(v).voter] <= B(v).weight
                 /\ B(v).choice # NoChoice =>
                       /\ B(v).to = B(v).voter
                       /\ Stakes(Backers(B(v), votes')) \in Nat
                       /\ Stakes(Backers(B(v), votes')) <= B(v).weight
      <4> DEFINE A == Backers(v, votes)
                 N == Backers(B(v), votes')
      <4>1. /\ v.weight \in Nat /\ InitialStake[v.voter] <= v.weight /\ v.voter \in Users
            /\ v.choice # NoChoice => v.to = v.voter /\ Stakes(A) <= v.weight
            /\ IsFiniteSet(A) /\ A \subseteq Users /\ Stakes(A) \in Nat
        BY <1>3
      <4>2. N = IF Target(v) THEN {u} \cup A ELSE A
        BY <3>4
      <4> HIDE DEF A, N, u, p, Target
      <4>3. Stakes({u} \cup A) \in Nat /\ Stakes({u} \cup A) <= InitialStake[u] + Stakes(A)
        BY <2>2, <4>1, StakesJoin
      <4>4. CASE Target(v)
        <5>1. N = {u} \cup A /\ B(v).weight = v.weight + weight[r]
          BY <3>2, <4>2, <4>4
        <5>2. InitialStake[v.voter] \in Nat
          BY <4>1, WorldTypes
        <5>3. B(v).weight \in Nat /\ InitialStake[v.voter] <= B(v).weight
          BY <2>2, <4>1, <5>1, <5>2
        <5>4. v.choice # NoChoice => Stakes({u} \cup A) <= B(v).weight
          BY <2>2, <4>1, <4>3, <5>1
        <5> QED  BY <3>2, <4>1, <4>3, <5>1, <5>3, <5>4 DEF N
      <4>5. CASE ~Target(v)
        <5>1. N = A /\ B(v).weight = v.weight
          BY <3>2, <4>2, <4>5
        <5> QED  BY <3>2, <4>1, <5>1 DEF N
      <4> QED  BY <4>4, <4>5
    <3>7. /\ VoteRow(r).weight \in Nat /\ InitialStake[VoteRow(r).voter] <= VoteRow(r).weight
          /\ VoteRow(r).choice = NoChoice
      BY <2>1, <2>2, <2>3, <2>6
    <3> HIDE DEF u, p, Target
    <3>8. ASSUME NEW x \in votes'
          PROVE  /\ x.weight \in Nat /\ InitialStake[x.voter] <= x.weight
                 /\ x.choice # NoChoice =>
                       /\ x.to = x.voter
                       /\ Stakes(Backers(x, votes')) \in Nat
                       /\ Stakes(Backers(x, votes')) <= x.weight
      <4>1. CASE x = VoteRow(r)
        BY <3>7, <4>1
      <4>2. CASE \E v \in votes : x = B(v)
        <5>1. PICK v \in votes : x = B(v)
          BY <4>2
        <5> QED  BY <3>6, <5>1
      <4> QED  BY <3>3, <4>1, <4>2
    <3> QED  BY <1>2, <3>8
  <2> QED  BY <1>5, <2>5, <2>6 DEF BallotOps
<1> QED  BY <1>4, <1>5

LEMMA NextKeepsDelegation ==
    ASSUME OneAtATime, OnlyPurchases
    PROVE  DelegationInv /\ [Next]_vars => DelegationInv'
<1> SUFFICES ASSUME DelegationInv, [Next]_vars PROVE DelegationInv'
  OBVIOUS
<1> USE DEF DelegationInv, RegisterInv, VoterInv
<1>1. RegisterInv' /\ IdsInv'
  <2>1. RegisterInv'
    BY StepKeepsRegister
  <2> QED  BY <2>1, NextKeepsIds
<1>2. ASSUME NEW r \in Requests, Step(r) \/ Fail(r) \/ LoseCommitReply(r)
      PROVE  DelegationInv'
  <2>1. StakeKept'
    BY <1>2, StepWeighs DEF StakeKept, WeightStep
  <2>2. \A q \in Requests : FullHandler(q)'
    BY <1>2, StepKeepsFull
  <2>3. CASE Commit(r) \/ LoseCommitReply(r)
    <3>1. FullRows'
      BY <2>3, CommitKeepsFull
    <3> QED  BY <1>1, <2>1, <2>2, <3>1
  <2>4. CASE votes' = votes
    <3>1. FullRows'
      BY <2>4 DEF FullRows
    <3> QED  BY <1>1, <2>1, <2>2, <3>1
  <2>5. Commit(r) \/ LoseCommitReply(r) \/ votes' = votes
    BY <1>2 DEF Step, ReadProposal, ReadVoter, CheckDuplicate, ReadStake, ReadTarget,
                ReadTargetVote, Boost, SumDelegated, InsertVote, CheckId, InsertProposal,
                ReadBallots, SumEligible, Flush, Publish, Fail, tables
  <2> QED  BY <2>3, <2>4, <2>5
<1>3. ASSUME NEW r \in Requests, Receive(r) PROVE DelegationInv'
  <2>1. PICK b \in Bodies :
          /\ body' = [body EXCEPT ![r] = b]
          /\ pc' = [pc EXCEPT ![r] = IF b.op = "create" THEN "CheckId" ELSE "ReadProposal"]
    BY <1>3 DEF Receive
  <2>2. /\ UNCHANGED <<stake, votes, weight, target>>
        /\ pc \in [Requests -> Labels] /\ DOMAIN body = Requests
    BY <1>3 DEF Receive, At, world, tables, session, TypeInv, TypeOK
  <2>3. /\ \A q \in Requests \ {r} : /\ pc'[q] = pc[q] /\ body'[q] = body[q]
                                     /\ Proposal(q)' = Proposal(q)
        /\ pc'[r] \in {"CheckId", "ReadProposal"}
    BY <2>1, <2>2 DEF Proposal
  <2>4. StakeKept' /\ FullRows'
    BY <2>2 DEF StakeKept, FullRows
  <2>5. ASSUME NEW q \in Requests PROVE FullHandler(q)'
    <3>1. FullHandler(q)
      OBVIOUS
    <3>2. CASE q = r
      BY <2>2, <2>3, <3>1, <3>2 DEF FullHandler
    <3>3. CASE q # r
      BY <2>2, <2>3, <3>1, <3>3 DEF FullHandler, VotesOf, VotesOn
    <3> QED  BY <3>2, <3>3
  <2> QED  BY <1>1, <2>4, <2>5
<1>4. ASSUME UNCHANGED <<votes, pc, body, weight, target>>, StakeKept' PROVE DelegationInv'
  <2>1. FullRows'
    BY <1>4 DEF FullRows
  <2>2. \A q \in Requests : FullHandler(q)'
    BY <1>4 DEF FullHandler, VotesOf, VotesOn, Proposal
  <2> QED  BY <1>1, <1>4, <2>1, <2>2
<1>5. ASSUME NEW trade \in Trades, SetOwnership(trade[1], trade[2]) PROVE DelegationInv'
  <2>1. stake' = [stake EXCEPT ![trade[1]] = trade[2]] /\ stake \in [Users -> Nat]
    BY <1>5 DEF SetOwnership, TypeInv, TypeOK
  <2>2. StakeKept'
    BY <2>1 DEF StakeKept, OnlyPurchases
  <2> QED  BY <1>4, <1>5, <2>2 DEF SetOwnership, tables, requests, session
<1>6. ASSUME (\E u \in Leavers : DeactivateUser(u)) \/ Tick \/ Wait \/ UNCHANGED vars
      PROVE  DelegationInv'
  <2>1. UNCHANGED <<stake, votes, pc, body, weight, target>>
    BY <1>6 DEF DeactivateUser, Tick, Wait, vars, world, tables, requests, session
  <2> QED  BY <1>4, <2>1 DEF StakeKept
<1> QED  BY <1>2, <1>3, <1>5, <1>6 DEF Next

LEMMA InitDelegation == Init => DelegationInv
<1> SUFFICES ASSUME Init PROVE DelegationInv
  OBVIOUS
<1>1. RegisterInv /\ IdsInv
  BY InitRegister, InitTrail
<1>2. StakeKept
  <2>1. stake = InitialStake /\ InitialStake \in [Users -> Nat]
    BY WorldTypes DEF Init
  <2> QED  BY <2>1 DEF StakeKept
<1>3. FullRows /\ \A r \in Requests : FullHandler(r)
  BY DEF Init, FullRows, FullHandler
<1> QED  BY <1>1, <1>2, <1>3 DEF DelegationInv

\* If requests do not overlap and entitlements only grow, a direct vote weighs the
\* stakes of the voter and of everybody whose accepted delegation names that voter,
\* whichever of them came first.
THEOREM DirectDelegationCountedHolds ==
    ASSUME OneAtATime, OnlyPurchases
    PROVE  Spec => []DirectDelegationCounted
<1>1. DelegationInv /\ [Next]_vars => DelegationInv'
  BY NextKeepsDelegation
<1>2. DelegationInv => DirectDelegationCounted
  <2> SUFFICES ASSUME DelegationInv, NEW v \in votes, v.choice # NoChoice
      PROVE  v.weight >= MapThenSumSet(LAMBDA u : InitialStake[u],
                            {d.voter : d \in {e \in VotesOn(v.proposal) : e.to = v.voter}})
    BY DEF DirectDelegationCounted
  <2> DEFINE S == {d.voter : d \in {e \in VotesOn(v.proposal) : e.to = v.voter}}
  <2>1. S = Backers(v, votes)
    BY DEF VotesOn, Backers
  <2>2. MapThenSumSet(LAMBDA u : InitialStake[u], S) = Stakes(S)
    BY DEF Stakes, Total
  <2>3. v.weight \in Nat /\ Stakes(S) \in Nat /\ Stakes(S) <= v.weight
    BY <2>1 DEF DelegationInv, FullRows
  <2> HIDE DEF S
  <2>4. v.weight >= MapThenSumSet(LAMBDA u : InitialStake[u], S)
    BY <2>2, <2>3
  <2> QED  BY <2>4 DEF S
<1> QED  BY <1>1, <1>2, InitDelegation, PTL DEF Spec

-----------------------------------------------------------------------------
(* What a report shows beside a result.                                    *)

\* Nobody has delegated.
Direct(vs) == \A v \in vs : v.choice # NoChoice

\* The weight of the votes that make a choice.
Weigh(vs) == MapThenSumSet(LAMBDA v : v.weight, {v \in vs : v.choice \in VoteChoice})

\* The votes vs, if all are direct, weigh what the result in the row counted at least.
CoveredBy(row, vs) ==
    row.total # NULL /\ Direct(vs) => row.total[1] \in Nat /\ row.total[1] <= Weigh(vs)

NaturalWeights ==
    /\ \A v \in votes : v.weight \in Nat
    /\ \A r \in Requests : weight[r] \in Nat /\ \A t \in target[r] : t.weight \in Nat

\* So they do for the ballots a handler has loaded and for the result it has assigned.
Covers(r) ==
    /\ pc[r] = "SumEligible" /\ Direct(VotesOn(Proposal(r)))
        => ballots[r] \subseteq VotesOn(Proposal(r))
    /\ Written(r) /\ body[r].op \in Closers \cup {"status"}
        => CoveredBy(draft[r], VotesOn(Proposal(r)))

CoverInv ==
    /\ TypeInv /\ IdsInv /\ TargetInv /\ NaturalWeights
    /\ \A p \in Proposals : CoveredBy(proposals[p], VotesOn(p))
    /\ \A r \in Requests : Covers(r)

\* More votes weigh more.
LEMMA WeighGrows ==
    ASSUME NEW ws, IsFiniteSet(ws), NEW vs, vs \subseteq ws, \A v \in ws : v.weight \in Nat
    PROVE  Weigh(vs) \in Nat /\ Weigh(ws) \in Nat /\ Weigh(vs) <= Weigh(ws)
<1> DEFINE w == [v \in ws |-> v.weight]
           S == {v \in vs : v.choice \in VoteChoice}
           T == {v \in ws : v.choice \in VoteChoice}
<1>1. /\ IsFiniteSet(S) /\ IsFiniteSet(T) /\ S \subseteq T
      /\ \A v \in T : w[v] = v.weight /\ w[v] \in Nat
  <2>1. S \subseteq ws /\ T \subseteq ws /\ S \subseteq T
    OBVIOUS
  <2>2. IsFiniteSet(S) /\ IsFiniteSet(T)
    BY <2>1, FS_Subset
  <2> QED  BY <2>1, <2>2
<1>2. Weigh(vs) = MapThenSumSet(LAMBDA v : v.weight, S)
      /\ Weigh(ws) = MapThenSumSet(LAMBDA v : v.weight, T)
  BY DEF Weigh
<1> HIDE DEF S, T, w
<1>3. \A v \in S : w[v] = v.weight /\ w[v] \in Nat
  BY <1>1
<1>4. MapThenSumSet(LAMBDA v : v.weight, S) = Total(w, S)
  BY <1>1, <1>3, TotalOfWeights
<1>5. MapThenSumSet(LAMBDA v : v.weight, T) = Total(w, T)
  BY <1>1, TotalOfWeights
<1>6. Total(w, S) \in Nat /\ Total(w, T) \in Nat /\ Total(w, S) <= Total(w, T)
  BY <1>1, <1>3, TotalNat, TotalMonotone
<1> QED  BY <1>2, <1>4, <1>5, <1>6

\* The sum a result stores and the sum a report shows are both that weight.
LEMMA BothAreWeigh ==
    ASSUME NEW vs, IsFiniteSet(vs), \A v \in vs : v.weight \in Nat
    PROVE  /\ MapThenSumSet(LAMBDA c : CastWeight(vs, c), VoteChoice) = Weigh(vs)
           /\ \A e, rule : Tally(vs, e, rule).total = Weigh(vs)
<1> DEFINE w == [v \in vs |-> v.weight]
           S == {v \in vs : v.choice \in VoteChoice}
<1>1. /\ IsFiniteSet(S) /\ \A v \in S : w[v] = v.weight
  BY FS_Subset
<1>2. Weigh(vs) = Total(w, S)
  <2> HIDE DEF w, S
  <2>1. MapThenSumSet(LAMBDA v : v.weight, S) = Total(w, S)
    BY <1>1, TotalOfWeights
  <2> QED  BY <2>1 DEF Weigh, S
<1>3. /\ MapThenSumSet(LAMBDA c : CastWeight(vs, c), VoteChoice) = Total(w, S)
      /\ CastWeight(vs, "YES") + CastWeight(vs, "NO") + CastWeight(vs, "ABSTAIN") = Total(w, S)
  BY ChoicesAddUp
<1>4. \A e, rule : Tally(vs, e, rule).total =
            CastWeight(vs, "YES") + CastWeight(vs, "NO") + CastWeight(vs, "ABSTAIN")
  BY DEF Tally
<1> QED  BY <1>2, <1>3, <1>4

\* A row that was covered still is when votes are added, or when a delegation is.
LEMMA StaysCovered ==
    ASSUME NEW row, NEW vs, CoveredBy(row, vs), NEW ws, IsFiniteSet(ws),
           \A v \in ws : v.weight \in Nat, Direct(ws) => vs \subseteq ws
    PROVE  CoveredBy(row, ws)
<1> SUFFICES ASSUME row.total # NULL, Direct(ws)
    PROVE  row.total[1] \in Nat /\ row.total[1] <= Weigh(ws)
  BY DEF CoveredBy
<1>1. vs \subseteq ws /\ Direct(vs)
  BY DEF Direct
<1>2. row.total[1] \in Nat /\ row.total[1] <= Weigh(vs)
  BY <1>1 DEF CoveredBy
<1>3. Weigh(vs) \in Nat /\ Weigh(ws) \in Nat /\ Weigh(vs) <= Weigh(ws)
  BY <1>1, WeighGrows
<1> QED  BY <1>2, <1>3

\* What the delegations to a voter weigh is a number.
LEMMA DelegatedIsNat ==
    ASSUME TypeInv, IdsInv, NaturalWeights, NEW p, NEW u
    PROVE  DelegatedTo(p, u) \in Nat
<1> DEFINE R == {v \in {d \in VotesOn(p) : d.to = u} : v.choice = NoChoice}
           w == [v \in R |-> v.weight]
<1>1. IsFiniteSet(R)
  BY VotesWithinAudit, FS_Subset DEF VotesOn
<1>2. \A v \in R : w[v] = v.weight /\ w[v] \in Nat
  BY DEF VotesOn, NaturalWeights
<1>3. MapThenSumSet(LAMBDA v : v.weight, R) = DelegatedTo(p, u)
  BY DEF DelegatedTo, CastWeight
<1> HIDE DEF R, w
<1>4. MapThenSumSet(LAMBDA v : v.weight, R) = Total(w, R)
  BY <1>1, <1>2, TotalOfWeights
<1> QED  BY <1>1, <1>2, <1>3, <1>4, TotalNat

\* The weights stay numbers.
LEMMA StepKeepsNatural ==
    ASSUME CoverInv, NEW r \in Requests, Step(r) \/ Fail(r) \/ LoseCommitReply(r)
    PROVE  NaturalWeights'
<1> USE DEF CoverInv
<1>1. DOMAIN weight = Requests /\ DOMAIN target = Requests
      /\ (body[r].op \in BallotOps => stake[body[r].voter] \in Nat) /\ body[r] \in Bodies
  <2>1. body[r] \in Bodies
    BY StepKinds
  <2> QED  BY <2>1, BodyTypes DEF TypeInv, TypeOK, SessionInv
<1>2. \A q \in Requests : weight'[q] \in Nat
  <2>1. CASE weight' = weight
    BY <2>1 DEF NaturalWeights
  <2>2. CASE /\ pc[r] = "ReadStake"
             /\ weight' = [weight EXCEPT ![r] = stake[body[r].voter]]
    <3>1. body[r].op \in BallotOps
      BY <2>2 DEF TypeInv, Stage, StageAt
    <3> QED  BY <1>1, <2>2, <3>1 DEF NaturalWeights
  <2>3. CASE weight' = [weight EXCEPT ![r] = @ + DelegatedTo(Proposal(r), body[r].voter)]
    <3>1. DelegatedTo(Proposal(r), body[r].voter) \in Nat
      BY DelegatedIsNat
    <3>2. weight[r] + DelegatedTo(Proposal(r), body[r].voter) \in Nat
      BY <3>1 DEF NaturalWeights
    <3> QED  BY <1>1, <2>3, <3>2 DEF NaturalWeights
  <2> QED  BY <2>1, <2>2, <2>3, StepWeighs DEF WeightStep
<1>3. \A q \in Requests : \A t \in target'[q] : t.weight \in Nat
  <2>1. CASE target' = target
    BY <2>1 DEF NaturalWeights
  <2>2. CASE target' = [target EXCEPT ![r] = VotesOf(Proposal(r), body[r].to)]
    <3>1. \A t \in VotesOf(Proposal(r), body[r].to) : t.weight \in Nat
      BY DEF VotesOf, NaturalWeights
    <3> QED  BY <1>1, <2>2, <3>1 DEF NaturalWeights
  <2>3. target' = target \/ target' = [target EXCEPT ![r] = VotesOf(Proposal(r), body[r].to)]
    BY StepKinds DEF Loads, Reads, ReadTargetVote, SumEligible, Flush, Creates, GivesUp,
                     Silenced, Publish, Commits, session
  <2> QED  BY <2>1, <2>2, <2>3
<1>4. \A v \in votes' : v.weight \in Nat
  <2>1. CASE votes' = votes
    BY <2>1 DEF NaturalWeights
  <2>2. CASE Store(r)
    <3>1. VoteRow(r).weight \in Nat
      BY DEF VoteRow, NaturalWeights
    <3>2. \A v \in votes : Boosted(v, r).weight \in Nat
      BY DEF Boosted, WithWeight, NaturalWeights
    <3>3. votes' \subseteq votes \cup {Boosted(v, r) : v \in votes} \cup {VoteRow(r)}
      BY <2>2 DEF Store, StoredVotes
    <3> QED  BY <3>1, <3>2, <3>3 DEF NaturalWeights
  <2>3. Store(r) \/ votes' = votes
    BY StepKinds DEF Loads, Reads, SumEligible, Flush, Creates, GivesUp, Silenced, Publish,
                     Commits, tables
  <2> QED  BY <2>1, <2>2, <2>3
<1> QED  BY <1>2, <1>3, <1>4 DEF NaturalWeights

\* Where nobody has delegated, a vote stays as it was cast.
LEMMA DirectVotesStay ==
    ASSUME TypeInv, IdsInv, TargetInv, NEW r \in Requests,
           Step(r) \/ Fail(r) \/ LoseCommitReply(r), NEW p, Direct(VotesOn(p)')
    PROVE  VotesOn(p) \subseteq VotesOn(p)'
<1>1. CASE votes' = votes
  BY <1>1 DEF VotesOn
<1>2. CASE Store(r)
  <2>1. body[r] \in Bodies
    BY StepKinds
  <2>2. CASE p # Proposal(r) \/ body[r].op \notin BallotOps
    BY <1>2, <2>2, VotesElsewhere
  <2>3. CASE body[r].op = "vote"
    BY <1>2, <2>3 DEF Store, StoredVotes, VotesOn
  <2>4. CASE p = Proposal(r) /\ body[r].op = "delegate"
    <3>1. VoteRow(r) \in votes'
      BY <1>2, <2>4 DEF Store, StoredVotes
    <3>2. VoteRow(r).proposal = p /\ VoteRow(r).choice = NoChoice
      BY <2>1, <2>4, GovernanceAssumption DEF VoteRow
    <3> QED  BY <3>1, <3>2 DEF Direct, VotesOn
  <2> QED  BY <2>2, <2>3, <2>4 DEF BallotOps
<1>3. Store(r) \/ votes' = votes
  BY StepKinds DEF Loads, Reads, SumEligible, Flush, Creates, GivesUp, Silenced, Publish,
                   Commits, tables
<1> QED  BY <1>1, <1>2, <1>3

\* What was covered on a proposal is, after a step of a handler.
LEMMA StepKeepsCovered ==
    ASSUME CoverInv, NaturalWeights', (TypeInv /\ IdsInv)', NEW r \in Requests,
           Step(r) \/ Fail(r) \/ LoseCommitReply(r),
           NEW p, NEW row, CoveredBy(row, VotesOn(p))
    PROVE  CoveredBy(row, {v \in votes' : v.proposal = p})
<1> DEFINE ws == {v \in votes' : v.proposal = p}
<1>1. VotesOn(p)' = ws
  BY DEF VotesOn
<1>2. IsFiniteSet(VotesOn(p)') /\ \A v \in VotesOn(p)' : v.weight \in Nat
  BY CastBoth DEF CoverInv, Cast, VotesOn, NaturalWeights
<1>3. Direct(VotesOn(p)') => VotesOn(p) \subseteq VotesOn(p)'
  BY DirectVotesStay DEF CoverInv
<1> HIDE DEF ws
<1> QED  BY <1>1, <1>2, <1>3, StaysCovered DEF ws

\* A handler keeps its own ballots and result covered.
LEMMA StepKeepsCovers ==
    ASSUME CoverInv, NaturalWeights', (TypeInv /\ IdsInv)', NEW r \in Requests,
           Step(r) \/ Fail(r) \/ LoseCommitReply(r)
    PROVE  Covers(r)'
<1> USE DEF CoverInv
<1> DEFINE p == Proposal(r)
<1>1. /\ pc \in [Requests -> Labels] /\ body' = body /\ body[r] \in Bodies
      /\ DOMAIN draft = Requests /\ DOMAIN ballots = Requests
      /\ p' = p /\ p \in Proposals /\ VotesOn(p)' = {v \in votes' : v.proposal = p}
      /\ body[r].op \in BallotOps \cup Closers \cup {"status", "create"}
  <2>1. body' = body /\ body[r] \in Bodies
    BY StepKinds
  <2>2. p \in Proposals /\ body[r].op \in BallotOps \cup Closers \cup {"status", "create"}
    BY <2>1, BodyTypes DEF Proposal
  <2>3. p' = p
    BY <2>1 DEF Proposal
  <2>4. VotesOn(p)' = {v \in votes' : v.proposal = p}
    BY <2>3 DEF VotesOn
  <2> QED  BY <2>1, <2>2, <2>3, <2>4 DEF TypeInv, TypeOK, SessionInv
<1>2. IsFiniteSet(VotesOn(p)) /\ \A v \in VotesOn(p) : v.weight \in Nat
  BY VotesAreCast DEF Cast, NaturalWeights, VotesOn
<1>3. CASE Loads(r)
  <2>1. votes' = votes /\ pc'[r] # "SumEligible"
        /\ (Written(r)' => body[r].op \notin Closers)
    BY <1>1, <1>3 DEF Loads, tables, Written
  <2>2. ASSUME body[r].op = "status" PROVE CoveredBy(draft'[r], VotesOn(p))
    <3>1. draft'[r] = [proposals[p] EXCEPT !.status = body[r].status]
      BY <1>1, <1>3, <2>2 DEF Loads
    <3>2. DOMAIN proposals[p] = Columns
      BY <1>1 DEF TypeInv, TypeOK
    <3>3. draft'[r].total = proposals[p].total
      BY <3>1, <3>2 DEF Columns
    <3> QED  BY <1>1, <3>3 DEF CoveredBy
  <2>3. VotesOn(p)' = VotesOn(p)
    BY <1>1, <2>1 DEF VotesOn
  <2> HIDE DEF p
  <2> QED  BY <1>1, <2>1, <2>2, <2>3 DEF Covers, p
<1>4. CASE SumEligible(r)
  <2>1. /\ pc[r] = "SumEligible" /\ pc'[r] = "Flush" /\ votes' = votes
        /\ draft'[r] = ClosedRow(Tally(ballots[r], TotalEligible, RuleOf[p]), clock)
    BY <1>1, <1>4 DEF SumEligible, At, Goto, tables
  <2>2. VotesOn(p)' = VotesOn(p)
    BY <1>1, <2>1 DEF VotesOn
  <2>3. draft'[r].total[1] = Tally(ballots[r], TotalEligible, RuleOf[p]).total
    BY <2>1 DEF ClosedRow, Some
  <2>4. ASSUME Direct(VotesOn(p))
        PROVE  draft'[r].total[1] \in Nat /\ draft'[r].total[1] <= Weigh(VotesOn(p))
    <3>1. ballots[r] \subseteq VotesOn(p)
      BY <2>1, <2>4 DEF Covers
    <3>2. IsFiniteSet(ballots[r]) /\ \A v \in ballots[r] : v.weight \in Nat
      BY <1>2, <3>1, FS_Subset
    <3>3. draft'[r].total[1] = Weigh(ballots[r])
      BY <2>3, <3>2, BothAreWeigh
    <3>4. Weigh(ballots[r]) \in Nat /\ Weigh(ballots[r]) <= Weigh(VotesOn(p))
      BY <1>2, <3>1, WeighGrows
    <3> QED  BY <3>3, <3>4
  <2> HIDE DEF p
  <2> QED  BY <1>1, <2>1, <2>2, <2>4 DEF Covers, CoveredBy, p
<1>5. CASE ReadBallots(r)
  <2>1. /\ pc'[r] = "SumEligible" /\ votes' = votes /\ ballots'[r] = VotesOn(p)
    BY <1>1, <1>5 DEF ReadBallots, At, Goto, tables
  <2>2. VotesOn(p)' = VotesOn(p)
    BY <1>1, <2>1 DEF VotesOn
  <2> HIDE DEF p
  <2> QED  BY <1>1, <2>1, <2>2 DEF Covers, Written, p
<1>6. ASSUME pc'[r] # "SumEligible",
             Written(r)' /\ body[r].op \in Closers \cup {"status"} =>
                Written(r) /\ draft' = draft
      PROVE  Covers(r)'
  <2>1. ASSUME Written(r)', body[r].op \in Closers \cup {"status"}
        PROVE  CoveredBy(draft'[r], VotesOn(p)')
    <3>1. CoveredBy(draft[r], VotesOn(p)) /\ draft'[r] = draft[r]
      BY <1>6, <2>1 DEF Covers
    <3>2. CoveredBy(draft[r], VotesOn(p)')
      <4>1. CoveredBy(draft[r], {v \in votes' : v.proposal = p})
        <5> HIDE DEF CoverInv
        <5> QED  BY <1>1, <3>1, StepKeepsCovered
      <4> QED  BY <1>1, <4>1
    <3> QED  BY <3>1, <3>2
  <2> HIDE DEF p
  <2> QED  BY <1>1, <1>6, <2>1 DEF Covers, p
<1>7. CASE Reads(r) /\ ~ReadBallots(r)
  <2>1. pc'[r] # "SumEligible" /\ (Written(r)' => body[r].op \in BallotOps)
    BY <1>1, <1>7 DEF Reads, Written
  <2> QED  BY <1>6, <2>1 DEF BallotOps, Closers
<1>8. CASE Flush(r) \/ Creates(r) \/ Publish(r)
  <2>1. /\ pc'[r] # "SumEligible" /\ draft' = draft
        /\ Written(r)' => Written(r) \/ body[r].op = "create"
    BY <1>1, <1>8 DEF Flush, Creates, Publish, At, Goto, session, Written
  <2> QED  BY <1>6, <2>1 DEF Closers
<1>9. CASE GivesUp(r) \/ Silenced(r) \/ Commits(r)
  <2>1. pc'[r] \in {"done", "Announce"}
    BY <1>1, <1>9 DEF GivesUp, Silenced, Commits
  <2> QED  BY <1>6, <2>1 DEF Written
<1> QED  BY <1>3, <1>4, <1>5, <1>7, <1>8, <1>9, StepKinds

\* And the results that are stored.
LEMMA StepKeepsResultsCovered ==
    ASSUME CoverInv, NaturalWeights', (TypeInv /\ IdsInv)', NEW r \in Requests,
           Step(r) \/ Fail(r) \/ LoseCommitReply(r), NEW p \in Proposals
    PROVE  CoveredBy(proposals'[p], VotesOn(p)')
<1> USE DEF CoverInv
<1>1. CoveredBy(proposals[p], VotesOn(p)')
  <2>1. CoveredBy(proposals[p], VotesOn(p))
    OBVIOUS
  <2> HIDE DEF CoverInv
  <2> QED  BY <2>1, StepKeepsCovered DEF VotesOn
<1>2. CASE proposals'[p] = proposals[p]
  BY <1>1, <1>2
<1>3. CASE Store(r) /\ p = Proposal(r)
  <2>1. /\ proposals'[p] = StoredProposal(r) /\ pc[r] = "Commit" /\ body[r] \in Bodies
        /\ body[r].op \in BallotOps \cup Closers \cup {"status", "create"}
    <3>1. body[r] \in Bodies
      BY StepKinds
    <3>2. DOMAIN proposals = Proposals
      BY DEF TypeInv
    <3> QED  BY <1>3, <3>1, <3>2, BodyTypes DEF Store, At
  <2>2. CASE body[r].op = "create"
    <3>1. proposals'[p].total = NULL
      BY <2>1, <2>2 DEF StoredProposal, OpenRow, BallotOps
    <3> QED  BY <3>1 DEF CoveredBy
  <2>3. CASE body[r].op \in BallotOps
    BY <1>1, <1>3, <2>1, <2>3 DEF StoredProposal, BallotOps
  <2>4. CASE body[r].op \in Closers \cup {"status"}
    <3>1. CoveredBy(draft[r], VotesOn(p))
      BY <1>3, <2>1, <2>4 DEF Covers, Written
    <3>2. CoveredBy(draft[r], VotesOn(p)')
      <4> HIDE DEF CoverInv
      <4> QED  BY <3>1, StepKeepsCovered DEF VotesOn
    <3>3. StoredProposal(r) = WriteChanged(proposals[p], seen[r], draft[r])
      BY <1>3, <2>4 DEF StoredProposal, BallotOps, Closers
    <3>4. proposals'[p].total \in {draft[r].total, proposals[p].total}
      BY <2>1, <3>3 DEF WriteChanged, Columns
    <3> QED  BY <1>1, <3>2, <3>4 DEF CoveredBy
  <2> QED  BY <2>1, <2>2, <2>3, <2>4
<1>4. proposals'[p] = proposals[p] \/ (Store(r) /\ p = Proposal(r))
  <2>1. CASE Commits(r)
    BY <2>1 DEF Commits, Store, TypeInv
  <2>2. CASE ~Commits(r)
    BY <2>2, StepKinds DEF Loads, Reads, SumEligible, Flush, Creates, GivesUp, Silenced,
                           Publish, tables
  <2> QED  BY <2>1, <2>2
<1> QED  BY <1>2, <1>3, <1>4

\* Every step of the transactions, and what it leaves covered of any row.
LEMMA NextKeepsCover ==
    ASSUME CoverInv, [Next]_vars
    PROVE  /\ CoverInv'
           /\ \A p, row : CoveredBy(row, VotesOn(p))
                => CoveredBy(row, {v \in votes' : v.proposal = p})
<1> USE DEF CoverInv
<1>1. (TypeInv /\ IdsInv)'
  BY NextKeepsIds
<1>2. CASE \E r \in Requests : Step(r) \/ Fail(r) \/ LoseCommitReply(r)
  <2>1. PICK r \in Requests : Step(r) \/ Fail(r) \/ LoseCommitReply(r)
    BY <1>2
  <2>2. TargetInv' /\ NaturalWeights'
    BY <2>1, StepKeepsTargets, StepKeepsNatural
  <2>3. \A p, row : CoveredBy(row, VotesOn(p)) => CoveredBy(row, {v \in votes' : v.proposal = p})
    <3> HIDE DEF CoverInv
    <3> QED  BY <1>1, <2>1, <2>2, StepKeepsCovered
  <2>4. \A p \in Proposals : CoveredBy(proposals[p], VotesOn(p))'
    <3> HIDE DEF CoverInv
    <3> QED  BY <1>1, <2>1, <2>2, StepKeepsResultsCovered
  <2>5. Covers(r)'
    <3> HIDE DEF CoverInv
    <3> QED  BY <1>1, <2>1, <2>2, StepKeepsCovers
  <2>6. ASSUME NEW q \in Others(r) PROVE Covers(q)'
    <3>1. /\ pc'[q] = pc[q] /\ draft'[q] = draft[q] /\ ballots'[q] = ballots[q]
          /\ Proposal(q)' = Proposal(q) /\ body' = body /\ q \in Requests
      BY <2>1, StepFrame, StepKinds DEF Others
    <3>2. VotesOn(Proposal(q))' = {v \in votes' : v.proposal = Proposal(q)}
      BY <3>1 DEF VotesOn
    <3>3. Direct(VotesOn(Proposal(q))') => VotesOn(Proposal(q)) \subseteq VotesOn(Proposal(q))'
      <4>1. \A p : Direct(VotesOn(p)') => VotesOn(p) \subseteq VotesOn(p)'
        BY <2>1, DirectVotesStay
      <4>2. \A p : VotesOn(p)' = {v \in votes' : v.proposal = p}
        BY DEF VotesOn
      <4> QED  BY <3>2, <4>1, <4>2
    <3>4. Direct(VotesOn(Proposal(q))') => Direct(VotesOn(Proposal(q)))
      BY <3>3 DEF Direct
    <3>5. Covers(q)
      BY <3>1
    <3>6. pc[q] = "SumEligible" /\ Direct(VotesOn(Proposal(q))')
            => ballots[q] \subseteq VotesOn(Proposal(q))'
      BY <3>3, <3>4, <3>5 DEF Covers
    <3>7. Written(q) /\ body[q].op \in Closers \cup {"status"}
            => CoveredBy(draft[q], VotesOn(Proposal(q))')
      BY <2>3, <3>2, <3>5 DEF Covers
    <3> QED  BY <3>1, <3>6, <3>7 DEF Covers, Written
  <2> QED  BY <1>1, <2>2, <2>3, <2>4, <2>5, <2>6 DEF Others
<1>3. ASSUME NEW r \in Requests, Receive(r)
      PROVE  /\ UNCHANGED <<votes, proposals>>
             /\ (TargetInv /\ NaturalWeights)' /\ \A q \in Requests : Covers(q)'
  <2>1. /\ UNCHANGED <<proposals, votes, weight, target, ballots, draft>>
        /\ pc[r] = "idle"
    BY <1>3 DEF Receive, At, tables, session
  <2>2. /\ \A q \in Others(r) : pc'[q] = pc[q] /\ body'[q] = body[q]
        /\ pc'[r] \in {"CheckId", "ReadProposal"}
    BY <1>3 DEF Receive, Others, TypeInv, TypeOK
  <2>3. \A q \in Others(r) : Proposal(q)' = Proposal(q)
    BY <2>2 DEF Proposal
  <2>4. TargetInv' /\ NaturalWeights'
    BY <2>1, <2>2, <2>3 DEF TargetInv, NaturalWeights, Others
  <2>5. Covers(r)'
    BY <2>2 DEF Covers, Written
  <2>6. ASSUME NEW q \in Others(r) PROVE Covers(q)'
    <3>1. VotesOn(Proposal(q))' = VotesOn(Proposal(q))
      BY <2>1, <2>3 DEF VotesOn
    <3>2. Covers(q)
      BY DEF Others
    <3> QED  BY <2>1, <2>2, <2>3, <3>1, <3>2 DEF Covers, Written
  <2> QED  BY <2>1, <2>4, <2>5, <2>6 DEF Others
<1>4. ASSUME UNCHANGED <<votes, proposals, pc, body, weight, target, ballots, draft>>
      PROVE  (TargetInv /\ NaturalWeights)' /\ \A q \in Requests : Covers(q)'
  <2>1. TargetInv' /\ NaturalWeights'
    BY <1>4 DEF TargetInv, NaturalWeights, Proposal
  <2>2. ASSUME NEW q \in Requests PROVE Covers(q)'
    <3>1. VotesOn(Proposal(q))' = VotesOn(Proposal(q))
      BY <1>4 DEF VotesOn, Proposal
    <3>2. Covers(q)
      OBVIOUS
    <3> QED  BY <1>4, <3>1, <3>2 DEF Covers, Written
  <2> QED  BY <2>1, <2>2
<1>5. ASSUME UNCHANGED <<votes, proposals>>, (TargetInv /\ NaturalWeights)',
             \A q \in Requests : Covers(q)'
      PROVE  /\ CoverInv'
             /\ \A p, row : CoveredBy(row, VotesOn(p))
                  => CoveredBy(row, {v \in votes' : v.proposal = p})
  <2>1. \A p : VotesOn(p) = {v \in votes' : v.proposal = p} /\ VotesOn(p)' = VotesOn(p)
    BY <1>5 DEF VotesOn
  <2>2. \A p \in Proposals : CoveredBy(proposals[p], VotesOn(p))'
    BY <1>5, <2>1
  <2> QED  BY <1>1, <1>5, <2>1, <2>2
<1>6. ASSUME \/ \E trade \in Trades : SetOwnership(trade[1], trade[2])
             \/ \E u \in Leavers : DeactivateUser(u)
             \/ Tick \/ Wait \/ UNCHANGED vars
      PROVE  UNCHANGED <<votes, proposals, pc, body, weight, target, ballots, draft>>
  BY <1>6 DEF SetOwnership, DeactivateUser, Tick, Wait, vars, tables, requests, session
<1> QED  BY <1>2, <1>3, <1>4, <1>5, <1>6 DEF Next

\* When the run starts there is no result.
LEMMA InitCover == Init => CoverInv
<1> SUFFICES ASSUME Init PROVE CoverInv
  OBVIOUS
<1>1. TypeInv /\ IdsInv
  BY InitTypes, InitTrail
<1>2. \A p \in Proposals : proposals[p].total = NULL
  BY DEF Init, OpenRow, AbsentRow
<1>3. /\ votes = {}
      /\ \A r \in Requests : pc[r] = "idle" /\ weight[r] = 0 /\ target[r] = {}
  BY DEF Init
<1> QED  BY <1>1, <1>2, <1>3 DEF CoverInv, TargetInv, NaturalWeights, CoveredBy, Covers, Written

\* A participation report that found its proposal closed shows at least the weight the
\* stored result counted, however many votes were accepted in between, if nobody has
\* delegated on that proposal.
THEOREM ReportCoversResultHolds == ReportSpec => []ReportCoversResult
<1> DEFINE Inv == CoverInv /\ (asked = "row" => CoveredBy(answer.row, VotesOn(answer.proposal)))
<1>1. ReportInit => Inv
  BY InitCover DEF ReportInit
<1>2. Inv => ReportCoversResult
  <2> SUFFICES ASSUME Inv, asked = "row", answer.row.total # NULL,
                      \A v \in VotesOn(answer.proposal) : v.choice # NoChoice
      PROVE  VotedWeight(answer.proposal) >= answer.row.total[1]
    BY DEF ReportCoversResult
  <2> DEFINE vs == VotesOn(answer.proposal)
  <2>1. IsFiniteSet(vs) /\ \A v \in vs : v.weight \in Nat
    BY VotesAreCast DEF CoverInv, Cast, NaturalWeights, VotesOn
  <2>2. answer.row.total[1] \in Nat /\ answer.row.total[1] <= Weigh(vs)
    BY DEF CoveredBy, Direct
  <2> HIDE DEF vs
  <2>3. /\ MapThenSumSet(LAMBDA c : CastWeight(vs, c), VoteChoice) = Weigh(vs)
        /\ Weigh(vs) \in Nat
    BY <2>1, BothAreWeigh, WeighGrows
  <2>4. VotedWeight(answer.proposal) = Weigh(vs)
    BY <2>3 DEF VotedWeight, vs
  <2> QED  BY <2>2, <2>3, <2>4
<1>3. Inv /\ [ReportNext]_<<vars, asked, answer>> => Inv'
  <2> SUFFICES ASSUME Inv, [ReportNext]_<<vars, asked, answer>> PROVE Inv'
    OBVIOUS
  <2>1. [Next]_vars
    BY DEF ReportNext, Read
  <2>2. /\ CoverInv'
        /\ \A p, row : CoveredBy(row, VotesOn(p))
              => CoveredBy(row, {v \in votes' : v.proposal = p})
    BY <2>1, NextKeepsCover
  <2>3. CASE UNCHANGED <<asked, answer>>
    <3>1. VotesOn(answer.proposal)' = {v \in votes' : v.proposal = answer.proposal}
      BY <2>3 DEF VotesOn
    <3> QED  BY <2>2, <2>3, <3>1
  <2>4. CASE Read /\ asked' = "row"
    <3>1. PICK p \in Proposals : AskRow(p)
      BY <2>4 DEF Read, AskStats
    <3>2. /\ answer'.row = proposals[p] /\ answer'.proposal = p /\ votes' = votes
      BY <2>4, <3>1 DEF Read, AskRow, vars, tables
    <3>3. VotesOn(answer.proposal)' = VotesOn(p)
      BY <3>2 DEF VotesOn
    <3>4. CoveredBy(proposals[p], VotesOn(p))
      BY DEF CoverInv
    <3> QED  BY <2>2, <3>2, <3>3, <3>4
  <2>5. CASE asked' # "row"
    BY <2>2, <2>5
  <2> QED  BY <2>3, <2>4, <2>5 DEF ReportNext
<1> QED  BY <1>1, <1>2, <1>3, PTL DEF ReportSpec

=============================================================================
