--------------------------- MODULE GovernanceProofs ---------------------------
(***************************************************************************)
(* Theorems about the transactions of the governance core, for every set   *)
(* of requests, proposals, users and request bodies, and any number of     *)
(* requests in flight and of faults.                                       *)
(***************************************************************************)
EXTENDS Governance, FiniteSetTheorems, TLAPS

-----------------------------------------------------------------------------
(* Types, and where in its handler a request of each kind can be.          *)

IsRow(x) == DOMAIN x = Columns /\ x.status \in Statuses \cup {"absent"}

\* The operations whose handler can be at each await.
StageAt(b, l) ==
    /\ b \in Bodies
    /\ l = "ReadProposal" => b.op # "create"
    /\ l \in {"ReadVoter", "CheckDuplicate", "ReadStake"} => b.op \in BallotOps
    /\ l \in {"ReadTarget", "ReadTargetVote", "Boost"} => b.op = "delegate"
    /\ l = "SumDelegated" => b.op = "vote"
    /\ l = "CheckId" => b.op = "create"
    /\ l = "Insert" => b.op \in BallotOps \cup {"create"}
    /\ l \in {"ReadBallots", "SumEligible"} => b.op \in Closers
    /\ l = "Flush" => b.op \in Closers \cup {"status"}
    /\ l = "Announce" => b.op = "sched"
    /\ l \in {"Insert", "Publish", "Commit"} /\ b.op = "vote" => b.choice \in VoteChoice

Stage(r) == pc[r] = "idle" \/ StageAt(body[r], pc[r])

SessionInv ==
    /\ DOMAIN seen = Requests /\ DOMAIN draft = Requests
    /\ DOMAIN weight = Requests /\ DOMAIN target = Requests
    /\ DOMAIN ballots = Requests
    /\ \A r \in Requests : IsRow(seen[r]) /\ IsRow(draft[r])

TypeInv ==
    /\ TypeOK
    /\ DOMAIN proposals = Proposals /\ DOMAIN body = Requests
    /\ SessionInv
    /\ \A r \in Requests : Stage(r)

\* What the assumption on Bodies says of one request body.
LEMMA BodyTypes ==
    ASSUME NEW b \in Bodies
    PROVE  /\ b.op \in BallotOps \cup Closers \cup {"status", "create"}
           /\ b.proposal \in Proposals
           /\ b.op \in BallotOps => b.voter \in Users /\ b.to \in Users
           /\ b.op = "delegate" => b.choice = NoChoice
           /\ b.choice \in VoteChoice \cup {NoChoice, "INVALID"}
           /\ b.status \in Statuses \cup {"INVALID"}
BY GovernanceAssumption DEF BodyShape

\* The rows the handlers build are rows of the proposals table.
LEMMA RowTypes ==
    /\ IsRow(OpenRow) /\ IsRow(AbsentRow)
    /\ \A t, now : IsRow(ClosedRow(t, now))
    /\ \A x, s : IsRow(x) /\ s \in Statuses => IsRow([x EXCEPT !.status = s])
    /\ \A x, y, z : IsRow(x) /\ IsRow(y) /\ IsRow(z) => IsRow(WriteChanged(x, y, z))
BY DEF IsRow, OpenRow, AbsentRow, ClosedRow, WriteChanged, Columns, Statuses

\* What the assumption says of the rest of the constants.
LEMMA WorldTypes ==
    /\ MaxFaults \in Nat
    /\ InitialStake \in [Users -> Nat]
    /\ Existing \subseteq Proposals /\ Leavers \subseteq Users
    /\ \A trade \in Trades : trade[1] \in Users /\ trade[2] \in Nat
BY GovernanceAssumption

\* The tables are typed and no handler is running when the run starts.
LEMMA InitTypes == Init => TypeInv
<1> SUFFICES ASSUME Init PROVE TypeInv
  OBVIOUS
<1>1. SessionInv
  BY RowTypes DEF Init, SessionInv
<1>2. \A p \in Proposals : IsRow(proposals[p])
  BY RowTypes DEF Init
<1>3. TypeOK
  <2>1. clock \in Nat /\ faults \in 0 .. MaxFaults /\ active \subseteq Users
    <3>1. clock = 1 /\ faults = 0 /\ active = Users
      BY DEF Init
    <3> QED  BY <3>1, WorldTypes
  <2>2. stake \in [Users -> Nat]
    BY WorldTypes DEF Init
  <2>3. /\ pc \in [Requests -> Labels]
        /\ reply \in [Requests -> Codes \cup {""}]
        /\ \A r \in Requests : pc[r] = "idle" /\ body[r] = NoBody
    BY DEF Init, Labels
  <2>4. votes = {} /\ audit = {}
    BY DEF Init
  <2> QED  BY <1>2, <2>1, <2>2, <2>3, <2>4 DEF TypeOK, IsRow
<1>4. DOMAIN proposals = Proposals /\ DOMAIN body = Requests
  BY DEF Init
<1>5. \A r \in Requests : Stage(r)
  BY DEF Init, Stage
<1> QED  BY <1>1, <1>3, <1>4, <1>5 DEF TypeInv

\* A step that leaves the tables alone and moves one request to a place where its
\* operation may be.
LEMMA MoveKeepsTypes ==
    ASSUME TypeInv, NEW r \in Requests, pc[r] # "idle",
           UNCHANGED <<world, tables>>, SessionInv',
           \/ \E l \in Labels : StageAt(body[r], l) /\ Goto(r, l)
           \/ \E c \in Codes : Respond(r, c)
    PROVE  TypeInv'
<1>1. PICK l \in Labels :
        /\ StageAt(body[r], l) /\ pc' = [pc EXCEPT ![r] = l]
        /\ UNCHANGED body /\ reply' \in [Requests -> Codes \cup {""}]
  <2>1. StageAt(body[r], "done") /\ "done" \in Labels
    BY DEF StageAt, Labels, TypeInv, Stage
  <2>2. reply \in [Requests -> Codes \cup {""}]
    BY DEF TypeInv, TypeOK
  <2> QED  BY <2>1, <2>2 DEF Goto, Respond
<1>2. pc \in [Requests -> Labels] /\ pc' \in [Requests -> Labels]
  BY <1>1 DEF TypeInv, TypeOK
<1>3. body[r] \in Bodies
  BY <1>1 DEF StageAt
<1>4. TypeOK'
  BY <1>1, <1>2, <1>3 DEF TypeInv, TypeOK, world, tables
<1>5. ASSUME NEW q \in Requests PROVE Stage(q)'
  BY <1>1, <1>2 DEF TypeInv, Stage
<1> QED  BY <1>1, <1>4, <1>5 DEF TypeInv, tables

\* A step that leaves the sessions alone keeps their types.
LEMMA SessionUnchanged == SessionInv /\ UNCHANGED session => SessionInv'
BY DEF SessionInv, session

\* What a transaction writes has the types of its tables.
LEMMA StoreKeepsTypes ==
    ASSUME TypeInv, NEW r \in Requests, Store(r),
           UNCHANGED <<clock, stake, active, session, body>>, faults' \in 0 .. MaxFaults,
           \E l \in {"Announce", "done"}, c \in Codes :
              /\ pc' = [pc EXCEPT ![r] = l]
              /\ l = "Announce" => body[r].op = "sched"
              /\ reply' = [reply EXCEPT ![r] = c]
    PROVE  TypeInv'
<1>1. StageAt(body[r], "Commit") /\ body[r] \in Bodies
  BY DEF Store, At, TypeInv, Stage, StageAt
<1>2. PICK l \in {"Announce", "done"}, c \in Codes :
          /\ pc' = [pc EXCEPT ![r] = l]
          /\ l = "Announce" => body[r].op = "sched"
          /\ reply' = [reply EXCEPT ![r] = c]
  OBVIOUS
<1>3. StageAt(body[r], l)
  BY <1>1, <1>2 DEF StageAt
<1>4. pc \in [Requests -> Labels] /\ pc' \in [Requests -> Labels]
  BY <1>2 DEF TypeInv, TypeOK, Labels
<1>5. ASSUME NEW q \in Requests PROVE Stage(q)'
  BY <1>2, <1>3, <1>4 DEF TypeInv, Stage
<1>6. reply' \in [Requests -> Codes \cup {""}]
  BY <1>2 DEF TypeInv, TypeOK
<1>7. audit' \subseteq [action : AuditActions, proposal : Proposals, source : Requests]
  <2>1. AuditOf(r) \subseteq [action : AuditActions, proposal : Proposals, source : Requests]
    BY <1>1, BodyTypes DEF AuditOf, AuditActions, Proposal, BallotOps, Closers
  <2> QED  BY <2>1 DEF Store, TypeInv, TypeOK
<1>8. ASSUME NEW v \in votes'
      PROVE  /\ v.id \in Requests /\ v.proposal \in Proposals
             /\ v.voter \in Users /\ v.to \in Users
             /\ v.choice \in VoteChoice \cup {NoChoice}
  <2>1. CASE v = VoteRow(r) /\ body[r].op \in BallotOps
    BY <1>1, <2>1, BodyTypes DEF VoteRow, Proposal, StageAt, BallotOps
  <2>2. ASSUME NEW w \in votes, v = w \/ v = Boosted(w, r)
        PROVE  /\ v.id = w.id /\ v.proposal = w.proposal /\ v.voter = w.voter
               /\ v.to = w.to /\ v.choice = w.choice
    BY <2>2 DEF Boosted, WithWeight
  <2>3. CASE \E w \in votes : v = w \/ v = Boosted(w, r)
    BY <2>2, <2>3 DEF TypeInv, TypeOK
  <2> QED  BY <2>1, <2>3 DEF Store, StoredVotes, BallotOps
<1>9. IsRow(StoredProposal(r))
  <2>1. IsRow(proposals[Proposal(r)])
    BY <1>1, BodyTypes DEF TypeInv, TypeOK, IsRow, Proposal
  <2> QED  BY <2>1, RowTypes DEF StoredProposal, TypeInv, SessionInv
<1>10. DOMAIN proposals' = Proposals /\ \A p \in Proposals : IsRow(proposals'[p])
  BY <1>9 DEF Store, TypeInv, TypeOK, IsRow
<1>11. TypeOK'
  BY <1>1, <1>2, <1>4, <1>6, <1>7, <1>8, <1>10 DEF TypeInv, TypeOK, IsRow
<1>12. SessionInv'
  BY SessionUnchanged DEF TypeInv
<1> QED  BY <1>5, <1>10, <1>11, <1>12 DEF TypeInv

\* Every step of every handler keeps types and control flow.
LEMMA StepKeepsTypes == TypeInv /\ [Next]_vars => TypeInv'
<1> SUFFICES ASSUME TypeInv, Next PROVE TypeInv'
  BY DEF TypeInv, TypeOK, SessionInv, Stage, vars, world, tables, requests, session
<1>1. ASSUME NEW r \in Requests, ReadVoter(r) PROVE TypeInv'
  <2>1. UNCHANGED <<world, tables>> /\ pc[r] # "idle" /\ SessionInv'
    BY <1>1, SessionUnchanged DEF ReadVoter, At, TypeInv
  <2>2. \/ \E l \in Labels : StageAt(body[r], l) /\ Goto(r, l)
        \/ \E c \in Codes : Respond(r, c)
    BY <1>1, BodyTypes DEF ReadVoter, At, TypeInv, Stage, StageAt, Labels, Codes, BallotOps, Closers
  <2> QED  BY <2>1, <2>2, MoveKeepsTypes
<1>2. ASSUME NEW r \in Requests, CheckDuplicate(r) PROVE TypeInv'
  <2>1. UNCHANGED <<world, tables>> /\ pc[r] # "idle" /\ SessionInv'
    BY <1>2, SessionUnchanged DEF CheckDuplicate, At, TypeInv
  <2>2. \/ \E l \in Labels : StageAt(body[r], l) /\ Goto(r, l)
        \/ \E c \in Codes : Respond(r, c)
    BY <1>2, BodyTypes DEF CheckDuplicate, At, TypeInv, Stage, StageAt, Labels, Codes, BallotOps, Closers
  <2> QED  BY <2>1, <2>2, MoveKeepsTypes
<1>3. ASSUME NEW r \in Requests, ReadStake(r) PROVE TypeInv'
  <2>1. UNCHANGED <<world, tables>> /\ pc[r] # "idle" /\ SessionInv'
    BY <1>3, SessionUnchanged DEF ReadStake, At, TypeInv, SessionInv, session
  <2>2. \/ \E l \in Labels : StageAt(body[r], l) /\ Goto(r, l)
        \/ \E c \in Codes : Respond(r, c)
    BY <1>3, BodyTypes DEF ReadStake, At, TypeInv, Stage, StageAt, Labels, Codes, BallotOps, Closers
  <2> QED  BY <2>1, <2>2, MoveKeepsTypes
<1>4. ASSUME NEW r \in Requests, ReadTarget(r) PROVE TypeInv'
  <2>1. UNCHANGED <<world, tables>> /\ pc[r] # "idle" /\ SessionInv'
    BY <1>4, SessionUnchanged DEF ReadTarget, At, TypeInv
  <2>2. \/ \E l \in Labels : StageAt(body[r], l) /\ Goto(r, l)
        \/ \E c \in Codes : Respond(r, c)
    BY <1>4, BodyTypes DEF ReadTarget, At, TypeInv, Stage, StageAt, Labels, Codes, BallotOps, Closers
  <2> QED  BY <2>1, <2>2, MoveKeepsTypes
<1>5. ASSUME NEW r \in Requests, ReadTargetVote(r) PROVE TypeInv'
  <2>1. UNCHANGED <<world, tables>> /\ pc[r] # "idle" /\ SessionInv'
    BY <1>5, SessionUnchanged DEF ReadTargetVote, At, TypeInv, SessionInv, session
  <2>2. \/ \E l \in Labels : StageAt(body[r], l) /\ Goto(r, l)
        \/ \E c \in Codes : Respond(r, c)
    BY <1>5, BodyTypes DEF ReadTargetVote, At, TypeInv, Stage, StageAt, Labels, Codes, BallotOps, Closers
  <2> QED  BY <2>1, <2>2, MoveKeepsTypes
<1>6. ASSUME NEW r \in Requests, Boost(r) PROVE TypeInv'
  <2>1. UNCHANGED <<world, tables>> /\ pc[r] # "idle" /\ SessionInv'
    BY <1>6, SessionUnchanged DEF Boost, At, TypeInv
  <2>2. \/ \E l \in Labels : StageAt(body[r], l) /\ Goto(r, l)
        \/ \E c \in Codes : Respond(r, c)
    BY <1>6, BodyTypes DEF Boost, At, TypeInv, Stage, StageAt, Labels, Codes, BallotOps, Closers
  <2> QED  BY <2>1, <2>2, MoveKeepsTypes
<1>7. ASSUME NEW r \in Requests, SumDelegated(r) PROVE TypeInv'
  <2>1. UNCHANGED <<world, tables>> /\ pc[r] # "idle" /\ SessionInv'
    BY <1>7, SessionUnchanged DEF SumDelegated, At, TypeInv, SessionInv, session
  <2>2. \/ \E l \in Labels : StageAt(body[r], l) /\ Goto(r, l)
        \/ \E c \in Codes : Respond(r, c)
    BY <1>7, BodyTypes DEF SumDelegated, At, TypeInv, Stage, StageAt, Labels, Codes, BallotOps, Closers
  <2> QED  BY <2>1, <2>2, MoveKeepsTypes
<1>8. ASSUME NEW r \in Requests, InsertVote(r) PROVE TypeInv'
  <2>1. UNCHANGED <<world, tables>> /\ pc[r] # "idle" /\ SessionInv'
    BY <1>8, SessionUnchanged DEF InsertVote, At, TypeInv
  <2>2. \/ \E l \in Labels : StageAt(body[r], l) /\ Goto(r, l)
        \/ \E c \in Codes : Respond(r, c)
    BY <1>8, BodyTypes DEF InsertVote, At, TypeInv, Stage, StageAt, Labels, Codes, BallotOps, Closers
  <2> QED  BY <2>1, <2>2, MoveKeepsTypes
<1>9. ASSUME NEW r \in Requests, CheckId(r) PROVE TypeInv'
  <2>1. UNCHANGED <<world, tables>> /\ pc[r] # "idle" /\ SessionInv'
    BY <1>9, SessionUnchanged DEF CheckId, At, TypeInv
  <2>2. \/ \E l \in Labels : StageAt(body[r], l) /\ Goto(r, l)
        \/ \E c \in Codes : Respond(r, c)
    BY <1>9, BodyTypes DEF CheckId, At, TypeInv, Stage, StageAt, Labels, Codes, BallotOps, Closers
  <2> QED  BY <2>1, <2>2, MoveKeepsTypes
<1>10. ASSUME NEW r \in Requests, InsertProposal(r) PROVE TypeInv'
  <2>1. UNCHANGED <<world, tables>> /\ pc[r] # "idle" /\ SessionInv'
    BY <1>10, SessionUnchanged DEF InsertProposal, At, TypeInv
  <2>2. \/ \E l \in Labels : StageAt(body[r], l) /\ Goto(r, l)
        \/ \E c \in Codes : Respond(r, c)
    BY <1>10, BodyTypes DEF InsertProposal, At, TypeInv, Stage, StageAt, Labels, Codes, BallotOps, Closers
  <2> QED  BY <2>1, <2>2, MoveKeepsTypes
<1>11. ASSUME NEW r \in Requests, ReadBallots(r) PROVE TypeInv'
  <2>1. UNCHANGED <<world, tables>> /\ pc[r] # "idle" /\ SessionInv'
    BY <1>11, SessionUnchanged DEF ReadBallots, At, TypeInv, SessionInv, session
  <2>2. \/ \E l \in Labels : StageAt(body[r], l) /\ Goto(r, l)
        \/ \E c \in Codes : Respond(r, c)
    BY <1>11, BodyTypes DEF ReadBallots, At, TypeInv, Stage, StageAt, Labels, Codes, BallotOps, Closers
  <2> QED  BY <2>1, <2>2, MoveKeepsTypes
<1>12. ASSUME NEW r \in Requests, SumEligible(r) PROVE TypeInv'
  <2>1. UNCHANGED <<world, tables>> /\ pc[r] # "idle"
    BY <1>12 DEF SumEligible, At
  <2>2. SessionInv'
    <3>1. \A q \in Requests : draft'[q] = draft[q] \/ \E t, now : draft'[q] = ClosedRow(t, now)
      BY <1>12 DEF SumEligible, TypeInv, SessionInv
    <3> QED  BY <1>12, <3>1, RowTypes DEF SumEligible, TypeInv, SessionInv
  <2>3. \E l \in Labels : StageAt(body[r], l) /\ Goto(r, l)
    BY <1>12 DEF SumEligible, At, TypeInv, Stage, StageAt, Labels
  <2> QED  BY <2>1, <2>2, <2>3, MoveKeepsTypes
<1>13. ASSUME NEW r \in Requests, Flush(r) PROVE TypeInv'
  <2>1. UNCHANGED <<world, tables>> /\ pc[r] # "idle" /\ SessionInv'
    BY <1>13, SessionUnchanged DEF Flush, At, TypeInv
  <2>2. \E l \in Labels : StageAt(body[r], l) /\ Goto(r, l)
    BY <1>13, BodyTypes
    DEF Flush, At, TypeInv, Stage, StageAt, Labels, BallotOps, Closers
  <2> QED  BY <2>1, <2>2, MoveKeepsTypes
<1>14. ASSUME NEW r \in Requests, ReadProposal(r) PROVE TypeInv'
  <2>1. UNCHANGED <<world, tables>> /\ pc[r] # "idle"
    BY <1>14 DEF ReadProposal, At
  <2>2. StageAt(body[r], "ReadProposal") /\ body[r] \in Bodies
    BY <1>14 DEF ReadProposal, At, TypeInv, Stage, StageAt
  <2>3. IsRow(proposals[Proposal(r)])
    BY <2>2, BodyTypes DEF TypeInv, TypeOK, IsRow, Proposal
  <2>4. SessionInv'
    <3>1. CASE UNCHANGED <<seen, draft>>
      BY <1>14, <3>1 DEF ReadProposal, TypeInv, SessionInv
    <3>2. CASE ~ UNCHANGED <<seen, draft>>
      <4>1. /\ Admits(body[r], proposals[Proposal(r)])
            /\ seen' = [seen EXCEPT ![r] = proposals[Proposal(r)]]
            /\ draft' = [draft EXCEPT ![r] =
                  IF body[r].op = "status"
                  THEN [proposals[Proposal(r)] EXCEPT !.status = body[r].status]
                  ELSE proposals[Proposal(r)]]
        BY <1>14, <3>2 DEF ReadProposal
      <4>2. body[r].op = "status" => body[r].status \in Statuses
        BY <2>2, <4>1, BodyTypes DEF Admits, BallotOps
      <4>3. IsRow(seen'[r]) /\ IsRow(draft'[r])
        BY <2>3, <4>1, <4>2, RowTypes DEF TypeInv, SessionInv
      <4> QED  BY <1>14, <4>1, <4>3 DEF ReadProposal, TypeInv, SessionInv
    <3> QED  BY <3>1, <3>2
  <2>5. \/ \E l \in Labels : StageAt(body[r], l) /\ Goto(r, l)
        \/ \E c \in Codes : Respond(r, c)
    <3>1. \/ \E c \in Codes : Respond(r, c)
          \/ Goto(r, CASE body[r].op \in BallotOps -> "ReadVoter"
                       [] body[r].op \in Closers   -> "ReadBallots"
                       [] body[r].op = "status"    -> "Flush")
      BY <1>14 DEF ReadProposal, Codes
    <3>2. body[r].op \in BallotOps \cup Closers \cup {"status"}
      BY <2>2, BodyTypes DEF StageAt
    <3> QED  BY <2>2, <3>1, <3>2 DEF StageAt, Labels, BallotOps, Closers
  <2> QED  BY <2>1, <2>4, <2>5, MoveKeepsTypes
<1>15. ASSUME NEW r \in Requests, Publish(r) PROVE TypeInv'
  <2>1. UNCHANGED <<world, tables>> /\ pc[r] # "idle" /\ SessionInv'
    BY <1>15, SessionUnchanged DEF Publish, TypeInv
  <2>2. \E l \in Labels : StageAt(body[r], l) /\ Goto(r, l)
    BY <1>15 DEF Publish, TypeInv, Stage, StageAt, Labels
  <2> QED  BY <2>1, <2>2, MoveKeepsTypes
<1>16. ASSUME NEW r \in Requests, Receive(r) PROVE TypeInv'
  <2>1. PICK b \in Bodies :
          /\ body' = [body EXCEPT ![r] = b]
          /\ pc' = [pc EXCEPT ![r] = IF b.op = "create" THEN "CheckId" ELSE "ReadProposal"]
    BY <1>16 DEF Receive
  <2>2. UNCHANGED <<world, tables, reply>> /\ SessionInv'
    BY <1>16, SessionUnchanged DEF Receive, TypeInv
  <2>3. pc' \in [Requests -> Labels] /\ pc \in [Requests -> Labels]
    BY <2>1 DEF TypeInv, TypeOK, Labels
  <2>4. StageAt(b, IF b.op = "create" THEN "CheckId" ELSE "ReadProposal")
    BY DEF StageAt
  <2>5. \A q \in Requests : Stage(q)'
    BY <2>1, <2>3, <2>4 DEF TypeInv, Stage
  <2>6. TypeOK'
    BY <2>1, <2>2, <2>3 DEF TypeInv, TypeOK, world, tables
  <2> QED  BY <2>1, <2>2, <2>5, <2>6 DEF TypeInv, tables
<1>17. ASSUME NEW r \in Requests, Commit(r) PROVE TypeInv'
  <2>1. Store(r) /\ UNCHANGED <<clock, stake, active, session, body>>
    BY <1>17 DEF Commit, world
  <2>2. faults' \in 0 .. MaxFaults
    BY <1>17 DEF Commit, world, TypeInv, TypeOK
  <2>3. \E l \in {"Announce", "done"}, c \in Codes :
          /\ pc' = [pc EXCEPT ![r] = l]
          /\ l = "Announce" => body[r].op = "sched"
          /\ reply' = [reply EXCEPT ![r] = c]
    BY <1>17 DEF Commit, Codes
  <2> QED  BY <2>1, <2>2, <2>3, StoreKeepsTypes
<1>18. ASSUME NEW r \in Requests, LoseCommitReply(r) PROVE TypeInv'
  <2>1. Store(r) /\ UNCHANGED <<clock, stake, active, session, body>>
    BY <1>18 DEF LoseCommitReply, Respond
  <2>2. faults' \in 0 .. MaxFaults
    <3>1. faults \in 0 .. MaxFaults /\ faults < MaxFaults /\ faults' = faults + 1
      BY <1>18 DEF LoseCommitReply, TypeInv, TypeOK
    <3> QED  BY <3>1, WorldTypes
  <2>3. \E l \in {"Announce", "done"}, c \in Codes :
          /\ pc' = [pc EXCEPT ![r] = l]
          /\ l = "Announce" => body[r].op = "sched"
          /\ reply' = [reply EXCEPT ![r] = c]
    BY <1>18 DEF LoseCommitReply, Respond, Codes
  <2> QED  BY <2>1, <2>2, <2>3, StoreKeepsTypes
<1>19. ASSUME NEW r \in Requests, Fail(r) PROVE TypeInv'
  <2>1. /\ UNCHANGED <<clock, stake, active, tables, body>> /\ SessionInv'
        /\ faults < MaxFaults /\ faults' = faults + 1
        /\ pc[r] # "idle"
    BY <1>19, SessionUnchanged DEF Fail, Goto, Respond, TypeInv, InFlight
  <2>2. faults' \in 0 .. MaxFaults
    <3>1. faults \in 0 .. MaxFaults
      BY DEF TypeInv, TypeOK
    <3> QED  BY <2>1, <3>1, WorldTypes
  <2>3. /\ pc' = [pc EXCEPT ![r] = "done"]
        /\ reply' \in [Requests -> Codes \cup {""}]
    BY <1>19 DEF Fail, Goto, Respond, TypeInv, TypeOK, Codes
  <2>4. pc \in [Requests -> Labels] /\ pc' \in [Requests -> Labels]
    BY <2>3 DEF TypeInv, TypeOK, Labels
  <2>5. StageAt(body[r], pc[r])
    BY <2>1 DEF TypeInv, Stage
  <2>6. StageAt(body[r], "done") /\ body[r] \in Bodies
    BY <2>5 DEF StageAt
  <2>7. \A q \in Requests : Stage(q)'
    BY <2>1, <2>3, <2>4, <2>6 DEF TypeInv, Stage
  <2>8. TypeOK'
    BY <2>1, <2>2, <2>3, <2>4, <2>6 DEF TypeInv, TypeOK, tables
  <2> QED  BY <2>1, <2>7, <2>8 DEF TypeInv, tables
<1>20. ASSUME UNCHANGED <<tables, requests, session>>, faults' = faults, clock' \in Nat,
              stake' \in [Users -> Nat], active' \subseteq Users
       PROVE  TypeInv'
  <2>1. TypeOK'
    BY <1>20 DEF TypeInv, TypeOK, tables, requests
  <2>2. SessionInv'
    BY <1>20, SessionUnchanged DEF TypeInv
  <2>3. \A q \in Requests : Stage(q)'
    BY <1>20 DEF TypeInv, Stage, requests
  <2> QED  BY <1>20, <2>1, <2>2, <2>3 DEF TypeInv, tables, requests
<1>21. ASSUME NEW trade \in Trades, SetOwnership(trade[1], trade[2]) PROVE TypeInv'
  <2>1. stake' \in [Users -> Nat]
    BY <1>21, WorldTypes DEF SetOwnership, TypeInv, TypeOK
  <2> QED  BY <1>20, <1>21, <2>1 DEF SetOwnership, TypeInv, TypeOK
<1>22. ASSUME NEW u \in Leavers, DeactivateUser(u) PROVE TypeInv'
  BY <1>20, <1>22 DEF DeactivateUser, TypeInv, TypeOK
<1>23. CASE Tick
  <2>1. clock \in Nat
    BY DEF TypeInv, TypeOK
  <2>2. clock' \in Nat
    BY <1>23, <2>1 DEF Tick
  <2> QED  BY <1>20, <1>23, <2>2 DEF Tick, TypeInv, TypeOK
<1>24. CASE Wait
  BY <1>20, <1>24 DEF Wait, vars, world, TypeInv, TypeOK
<1> QED
  BY <1>1, <1>2, <1>3, <1>4, <1>5, <1>6, <1>7, <1>8, <1>9, <1>10, <1>11, <1>12, <1>13,
     <1>14, <1>15, <1>16, <1>17, <1>18, <1>19, <1>21, <1>22, <1>23, <1>24
  DEF Next, Step

-----------------------------------------------------------------------------
\* Every reachable state of every instance is well typed, with a session of the right
\* shape for every request, and every request is at an await of its own operation's
\* handler: none of them falls off its control flow.
THEOREM TypeCorrect == Spec => []TypeInv
BY InitTypes, StepKeepsTypes, PTL DEF Spec

-----------------------------------------------------------------------------
(* One vote per voter.                                                     *)

\* The unique key works although it is checked long before it is visible: a request
\* that has flushed a ballot is the only one for its voter, and the voter has no row.
KeyInv ==
    \A r \in Requests : Uncommitted(r) /\ body[r].op \in BallotOps =>
        /\ VotesOf(Proposal(r), body[r].voter) = {}
        /\ \A q \in Others(r) : ~HoldsVoteKey(q, Proposal(r), body[r].voter)

VoterInv == TypeInv /\ KeyInv /\ OneVotePerVoter

\* A step that stores no vote and flushes no ballot.
LEMMA KeysKept ==
    ASSUME KeyInv, OneVotePerVoter, UNCHANGED votes,
           \A q \in Requests : Uncommitted(q)' /\ body'[q].op \in BallotOps =>
                Uncommitted(q) /\ body'[q] = body[q]
    PROVE  (KeyInv /\ OneVotePerVoter)'
BY DEF KeyInv, OneVotePerVoter, VotesOf, HoldsVoteKey, Others, Proposal

\* A request that moves on, without flushing a ballot.
LEMMA MoveKeepsKeys ==
    ASSUME TypeInv, KeyInv, OneVotePerVoter, NEW r \in Requests, UNCHANGED votes,
           \/ \E l \in Labels : Goto(r, l) /\ (l \in {"Publish", "Commit"} =>
                                Uncommitted(r) \/ body[r].op \notin BallotOps)
           \/ \E c \in Codes : Respond(r, c)
    PROVE  (KeyInv /\ OneVotePerVoter)'
<1>1. UNCHANGED body
  BY DEF Goto, Respond
<1>2. PICK l \in Labels :
        /\ pc' = [pc EXCEPT ![r] = l]
        /\ l \in {"Publish", "Commit"} => Uncommitted(r) \/ body[r].op \notin BallotOps
  BY DEF Goto, Respond, Labels
<1>3. \A q \in Requests : Uncommitted(q)' /\ body'[q].op \in BallotOps =>
                Uncommitted(q) /\ body'[q] = body[q]
  BY <1>1, <1>2 DEF Uncommitted, TypeInv, TypeOK
<1> QED  BY <1>3, KeysKept

\* The INSERT that gets its key.
LEMMA InsertTakesKey ==
    ASSUME TypeInv, KeyInv, OneVotePerVoter, NEW r \in Requests, InsertVote(r)
    PROVE  (KeyInv /\ OneVotePerVoter)'
<1>1. UNCHANGED <<votes, body>> /\ body[r].op \in BallotOps
  BY DEF InsertVote, Goto, Respond, tables
<1>2. \A q \in Others(r) : ~HoldsVoteKey(q, Proposal(r), body[r].voter)
  BY DEF InsertVote, Proposal
<1>3. CASE Respond(r, "500")
  BY <1>1, <1>3, MoveKeepsKeys DEF Codes
<1>4. CASE VotesOf(Proposal(r), body[r].voter) = {} /\ pc' = [pc EXCEPT ![r] = "Publish"]
  <2>1. \A q \in Others(r) : Uncommitted(q)' => Uncommitted(q)
    BY <1>4 DEF Uncommitted, Others, TypeInv, TypeOK
  <2> QED  BY <1>1, <1>2, <1>4, <2>1
           DEF KeyInv, OneVotePerVoter, VotesOf, HoldsVoteKey, Others, Proposal
<1> QED  BY <1>3, <1>4 DEF InsertVote, VoteKeyTaken, Goto, Proposal

\* The commit of a ballot stores the only row of its voter; a boosted row keeps its key.
LEMMA StoreKeepsKeys ==
    ASSUME TypeInv, KeyInv, OneVotePerVoter, NEW r \in Requests, Store(r),
           UNCHANGED body, \E l \in {"Announce", "done"} : pc' = [pc EXCEPT ![r] = l]
    PROVE  (KeyInv /\ OneVotePerVoter)'
<1>1. \A q \in Requests : Uncommitted(q)' => Uncommitted(q) /\ q # r
  BY DEF Uncommitted, TypeInv, TypeOK
<1>2. CASE body[r].op \notin BallotOps
  <2>1. votes' = votes
    BY <1>2 DEF Store, StoredVotes, BallotOps
  <2> QED  BY <1>1, <2>1, KeysKept
<1>3. CASE body[r].op \in BallotOps
  <2> DEFINE F(w) == IF body[r].op = "vote" THEN w ELSE Boosted(w, r)
  <2>1. \A w \in votes : F(w).proposal = w.proposal /\ F(w).voter = w.voter
    BY DEF Boosted, WithWeight
  <2>2. \A v \in votes' : v = VoteRow(r) \/ \E w \in votes : v = F(w)
    BY <1>3 DEF Store, StoredVotes, BallotOps
  <2>3. VoteRow(r).proposal = Proposal(r) /\ VoteRow(r).voter = body[r].voter
    BY DEF VoteRow
  <2> HIDE DEF F
  <2>4. /\ Uncommitted(r)
        /\ \A w \in votes : ~(w.proposal = Proposal(r) /\ w.voter = body[r].voter)
        /\ \A q \in Others(r) : ~HoldsVoteKey(q, Proposal(r), body[r].voter)
    BY <1>3 DEF KeyInv, Store, At, Uncommitted, VotesOf
  <2>5. OneVotePerVoter'
    BY <2>1, <2>2, <2>3, <2>4 DEF OneVotePerVoter
  <2>6. ASSUME NEW q \in Requests, Uncommitted(q)', body'[q].op \in BallotOps
        PROVE  /\ VotesOf(Proposal(q), body[q].voter)' = {}
               /\ \A s \in Others(q) : ~HoldsVoteKey(s, Proposal(q), body[q].voter)'
    <3>1. /\ Uncommitted(q) /\ q # r /\ body[q].op \in BallotOps
          /\ VotesOf(Proposal(q), body[q].voter) = {}
          /\ \A s \in Others(q) : ~HoldsVoteKey(s, Proposal(q), body[q].voter)
      BY <1>1, <2>6 DEF KeyInv
    <3>2. ~(Proposal(q) = Proposal(r) /\ body[q].voter = body[r].voter)
      BY <2>4, <3>1 DEF HoldsVoteKey, Others, Proposal
    <3>3. \A v \in votes' : ~(v.proposal = Proposal(q) /\ v.voter = body[q].voter)
      BY <2>1, <2>2, <2>3, <3>1, <3>2 DEF VotesOf
    <3> QED  BY <1>1, <3>1, <3>3 DEF VotesOf, HoldsVoteKey, Others, Proposal
  <2> QED  BY <2>5, <2>6 DEF KeyInv
<1> QED  BY <1>2, <1>3

\* Every step keeps the unique key of the votes.
LEMMA StepKeepsKeys == VoterInv /\ [Next]_vars => VoterInv'
<1> SUFFICES ASSUME VoterInv, [Next]_vars PROVE (KeyInv /\ OneVotePerVoter)'
  BY StepKeepsTypes DEF VoterInv
<1> USE DEF VoterInv
<1>1. CASE UNCHANGED vars
  BY <1>1, KeysKept DEF vars, tables, requests, Uncommitted
<1>2. ASSUME NEW r \in Requests, Receive(r) PROVE (KeyInv /\ OneVotePerVoter)'
  BY <1>2, KeysKept DEF Receive, tables, Uncommitted, TypeInv, TypeOK
<1>3. ASSUME NEW r \in Requests,
             \/ ReadProposal(r) \/ ReadVoter(r) \/ CheckDuplicate(r) \/ ReadStake(r)
             \/ ReadTarget(r) \/ ReadTargetVote(r) \/ Boost(r) \/ SumDelegated(r)
             \/ CheckId(r) \/ ReadBallots(r) \/ SumEligible(r)
      PROVE  (KeyInv /\ OneVotePerVoter)'
  <2>1. UNCHANGED votes
    BY <1>3 DEF tables, ReadProposal, ReadVoter, CheckDuplicate, ReadStake, ReadTarget,
                ReadTargetVote, Boost, SumDelegated, CheckId, ReadBallots, SumEligible
  <2>2. \/ \E l \in Labels \ {"Publish", "Commit"} : Goto(r, l)
        \/ \E c \in Codes : Respond(r, c)
    <3>1. CASE ReadProposal(r)
      <4>1. StageAt(body[r], "ReadProposal")
        BY <3>1 DEF ReadProposal, At, TypeInv, Stage
      <4>2. body[r].op \in BallotOps \cup Closers \cup {"status"}
        BY <4>1, BodyTypes DEF StageAt
      <4>3. \/ \E c \in Codes : Respond(r, c)
            \/ Goto(r, CASE body[r].op \in BallotOps -> "ReadVoter"
                         [] body[r].op \in Closers   -> "ReadBallots"
                         [] body[r].op = "status"    -> "Flush")
        BY <3>1 DEF ReadProposal, Codes
      <4> QED  BY <4>2, <4>3 DEF Labels, BallotOps, Closers
    <3> QED  BY <1>3, <3>1
             DEF Labels, Codes, ReadVoter, CheckDuplicate, ReadStake, ReadTarget,
                 ReadTargetVote, Boost, SumDelegated, CheckId, ReadBallots, SumEligible
  <2> QED  BY <2>1, <2>2, MoveKeepsKeys
<1>4. ASSUME NEW r \in Requests, InsertVote(r) PROVE (KeyInv /\ OneVotePerVoter)'
  BY <1>4, InsertTakesKey
<1>5. ASSUME NEW r \in Requests, InsertProposal(r) \/ Flush(r) \/ Publish(r)
      PROVE  (KeyInv /\ OneVotePerVoter)'
  <2>1. UNCHANGED votes
    BY <1>5 DEF tables, InsertProposal, Flush, Publish
  <2>2. Flush(r) => body[r].op \notin BallotOps
    BY DEF Flush, At, TypeInv, Stage, StageAt, BallotOps, Closers
  <2>3. \/ \E l \in Labels : Goto(r, l) /\ (l \in {"Publish", "Commit"} =>
                                Uncommitted(r) \/ body[r].op \notin BallotOps)
        \/ \E c \in Codes : Respond(r, c)
    BY <1>5, <2>2 DEF InsertProposal, Flush, Publish, Labels, Codes, BallotOps, Uncommitted
  <2> QED  BY <2>1, <2>3, MoveKeepsKeys
<1>6. ASSUME NEW r \in Requests, Commit(r) \/ LoseCommitReply(r)
      PROVE  (KeyInv /\ OneVotePerVoter)'
  BY <1>6, StoreKeepsKeys DEF Commit, LoseCommitReply, Respond
<1>7. ASSUME NEW r \in Requests, Fail(r) PROVE (KeyInv /\ OneVotePerVoter)'
  <2>1. \/ \E l \in Labels \ {"Publish", "Commit"} : Goto(r, l)
        \/ \E c \in Codes : Respond(r, c)
    BY <1>7 DEF Fail, Labels, Codes
  <2> QED  BY <1>7, <2>1, MoveKeepsKeys DEF Fail, tables
<1>8. ASSUME UNCHANGED <<tables, requests>> PROVE (KeyInv /\ OneVotePerVoter)'
  BY <1>8, KeysKept DEF tables, requests, Uncommitted
<1>9. ASSUME \/ \E trade \in Trades : SetOwnership(trade[1], trade[2])
             \/ \E u \in Leavers : DeactivateUser(u)
             \/ Tick \/ Wait
      PROVE  UNCHANGED <<tables, requests>>
  BY <1>9 DEF SetOwnership, DeactivateUser, Tick, Wait, vars
<1> QED  BY <1>1, <1>2, <1>3, <1>4, <1>5, <1>6, <1>7, <1>8, <1>9 DEF Next, Step

\* Nobody votes twice on a proposal, however many requests of one voter interleave
\* between the duplicate check of cast_vote and its commit, and whatever fails.
THEOREM OneVotePerVoterHolds == Spec => []OneVotePerVoter
<1>1. Init => VoterInv
  BY InitTypes DEF Init, VoterInv, KeyInv, OneVotePerVoter, Uncommitted
<1>2. VoterInv => OneVotePerVoter
  BY DEF VoterInv
<1> QED  BY <1>1, <1>2, StepKeepsKeys, PTL DEF Spec

-----------------------------------------------------------------------------
(* The audit trail.                                                        *)

\* From the assignment to the commit a status update keeps the result columns it
\* loaded, so that its UPDATE cannot store a result that nobody audits.
StatusDraftInv ==
    \A r \in Requests : pc[r] \in {"Flush", "Publish", "Commit"} /\ body[r].op = "status" =>
        draft[r].computed_at = seen[r].computed_at

AuditInv == TypeInv /\ StatusDraftInv /\ AuditMatchesTables

\* The commit of a request writes its audit record together with its rows.
LEMMA StoreKeepsAudit ==
    ASSUME AuditInv, NEW r \in Requests, Store(r), body[r].op # "cli",
           UNCHANGED <<body, session>>, \E l \in {"Announce", "done"} : pc' = [pc EXCEPT ![r] = l]
    PROVE  (StatusDraftInv /\ AuditMatchesTables)'
<1> USE DEF AuditInv
<1>1. StatusDraftInv'
  BY DEF StatusDraftInv, TypeInv, TypeOK, session
<1>2. StageAt(body[r], "Commit") /\ audit \subseteq audit' /\ AuditOf(r) \subseteq audit'
  BY DEF Store, At, TypeInv, Stage
<1>3. body[r].op \in BallotOps \cup Closers \cup {"status", "create"}
  BY <1>2, BodyTypes DEF StageAt
<1> DEFINE Mine(a) == [action |-> a, proposal |-> Proposal(r), source |-> r]
<1>4. /\ body[r].op = "vote" => AuditOf(r) = {Mine("vote.cast")}
      /\ body[r].op = "delegate" => AuditOf(r) = {Mine("vote.delegated")}
      /\ body[r].op \in {"close", "sched"} => AuditOf(r) = {Mine("result.computed")}
      /\ body[r].op \notin BallotOps =>
            \A a \in AuditOf(r) : a.action \notin {"vote.cast", "vote.delegated"}
  BY <1>3 DEF AuditOf, BallotOps, Closers
<1>5. /\ VoteRow(r).id = r /\ VoteRow(r).proposal = Proposal(r)
      /\ body[r].op = "vote" => VoteRow(r).choice \in VoteChoice
      /\ body[r].op = "delegate" => VoteRow(r).choice = NoChoice
      /\ NoChoice \notin VoteChoice
  BY <1>2, BodyTypes DEF VoteRow, StageAt, VoteChoice, NoChoice
<1> DEFINE F(w) == IF body[r].op = "delegate" THEN Boosted(w, r) ELSE w
<1>6. \A w \in votes : F(w).id = w.id /\ F(w).proposal = w.proposal /\ F(w).choice = w.choice
  BY DEF Boosted, WithWeight
<1>7. /\ \A v \in votes' : (body[r].op \in BallotOps /\ v = VoteRow(r)) \/ \E w \in votes : v = F(w)
      /\ \A w \in votes : F(w) \in votes'
      /\ body[r].op \in BallotOps => VoteRow(r) \in votes'
  BY DEF Store, StoredVotes, BallotOps
<1> HIDE DEF F
<1>8. \A v \in votes' : \E a \in audit' :
        /\ a.source = v.id /\ a.proposal = v.proposal
        /\ a.action = IF v.choice = NoChoice THEN "vote.delegated" ELSE "vote.cast"
  <2> SUFFICES ASSUME NEW v \in votes'
      PROVE  \E a \in audit' :
        /\ a.source = v.id /\ a.proposal = v.proposal
        /\ a.action = IF v.choice = NoChoice THEN "vote.delegated" ELSE "vote.cast"
    OBVIOUS
  <2>1. CASE body[r].op \in BallotOps /\ v = VoteRow(r)
    <3>1. CASE body[r].op = "vote"
      <4>1. Mine("vote.cast") \in audit' /\ v.choice # NoChoice
        BY <1>2, <1>4, <1>5, <2>1, <3>1
      <4> QED  BY <1>5, <2>1, <4>1
    <3>2. CASE body[r].op = "delegate"
      <4>1. Mine("vote.delegated") \in audit' /\ v.choice = NoChoice
        BY <1>2, <1>4, <1>5, <2>1, <3>2
      <4> QED  BY <1>5, <2>1, <4>1
    <3> QED  BY <2>1, <3>1, <3>2 DEF BallotOps
  <2>2. CASE \E w \in votes : v = F(w)
    BY <1>2, <1>6, <2>2 DEF AuditMatchesTables
  <2> QED  BY <1>7, <2>1, <2>2
<1>9. \A a \in audit' :
        a.action \in {"vote.cast", "vote.delegated"} => \E v \in votes' : v.id = a.source
  <2> SUFFICES ASSUME NEW a \in audit', a.action \in {"vote.cast", "vote.delegated"}
      PROVE  \E v \in votes' : v.id = a.source
    OBVIOUS
  <2>1. CASE a \in audit
    BY <1>6, <1>7, <2>1 DEF AuditMatchesTables
  <2>2. CASE a \in AuditOf(r)
    BY <1>4, <1>5, <1>7, <2>2 DEF BallotOps
  <2> QED  BY <2>1, <2>2 DEF Store
<1>10. \A p \in Proposals : proposals'[p].computed_at # NULL =>
        \E a \in audit' : a.action = "result.computed" /\ a.proposal = p
  <2> SUFFICES ASSUME NEW p \in Proposals, proposals'[p].computed_at # NULL
      PROVE  \E a \in audit' : a.action = "result.computed" /\ a.proposal = p
    OBVIOUS
  <2>1. CASE proposals[p].computed_at # NULL
    BY <1>2, <2>1 DEF AuditMatchesTables
  <2>2. CASE proposals[p].computed_at = NULL
    <3>1. p = Proposal(r) /\ StoredProposal(r).computed_at # NULL
      BY <2>2 DEF Store, TypeInv
    <3>2. body[r].op \notin BallotOps \cup {"create"}
      BY <2>2, <3>1 DEF StoredProposal, OpenRow, BallotOps
    <3>3. ASSUME body[r].op = "status" PROVE FALSE
      <4>1. draft[r].computed_at = seen[r].computed_at
        BY <3>3 DEF StatusDraftInv, Store, At
      <4>2. StoredProposal(r).computed_at = proposals[p].computed_at
        BY <3>1, <3>3, <4>1 DEF StoredProposal, WriteChanged, Columns, BallotOps
      <4> QED  BY <2>2, <3>1, <4>2
    <3>4. body[r].op \in {"close", "sched"}
      BY <1>3, <3>2, <3>3 DEF Closers
    <3>5. Mine("result.computed") \in audit'
      BY <1>2, <1>4, <3>4
    <3> QED  BY <3>1, <3>5
  <2> QED  BY <2>1, <2>2
<1> QED  BY <1>1, <1>8, <1>9, <1>10 DEF AuditMatchesTables

\* Without the command line every step keeps audit trail and tables together.
LEMMA StepKeepsAudit ==
    ASSUME \A b \in Bodies : b.op # "cli"
    PROVE  AuditInv /\ [Next]_vars => AuditInv'
<1> SUFFICES ASSUME AuditInv, [Next]_vars PROVE (StatusDraftInv /\ AuditMatchesTables)'
  BY StepKeepsTypes DEF AuditInv
<1> USE DEF AuditInv
<1>1. ASSUME UNCHANGED tables PROVE AuditMatchesTables'
  BY <1>1 DEF AuditMatchesTables, tables
<1>2. ASSUME UNCHANGED <<tables, requests, session>>
      PROVE  (StatusDraftInv /\ AuditMatchesTables)'
  BY <1>1, <1>2 DEF StatusDraftInv, requests, session
<1>3. ASSUME NEW r \in Requests, UNCHANGED <<tables, body, seen, draft>>,
             \/ \E l \in Labels : Goto(r, l) /\ (l \in {"Flush", "Publish", "Commit"} =>
                    \/ body[r].op # "status"
                    \/ pc[r] \in {"Flush", "Publish", "Commit"})
             \/ \E c \in Codes : Respond(r, c)
      PROVE  (StatusDraftInv /\ AuditMatchesTables)'
  <2>1. /\ \A q \in Requests \ {r} : pc'[q] = pc[q]
        /\ pc'[r] \in {"Flush", "Publish", "Commit"} =>
                body[r].op # "status" \/ pc[r] \in {"Flush", "Publish", "Commit"}
    BY <1>3 DEF TypeInv, TypeOK, Goto, Respond
  <2>2. StatusDraftInv'
    BY <1>3, <2>1 DEF StatusDraftInv
  <2> QED  BY <1>1, <1>3, <2>2
<1>4. ASSUME NEW r \in Requests, Receive(r) PROVE (StatusDraftInv /\ AuditMatchesTables)'
  <2>1. PICK b \in Bodies :
          /\ body' = [body EXCEPT ![r] = b]
          /\ pc' = [pc EXCEPT ![r] = IF b.op = "create" THEN "CheckId" ELSE "ReadProposal"]
    BY <1>4 DEF Receive
  <2>2. UNCHANGED <<tables, seen, draft>>
    BY <1>4 DEF Receive, session
  <2> QED  BY <1>1, <2>1, <2>2 DEF StatusDraftInv, TypeInv, TypeOK
<1>5. ASSUME NEW r \in Requests, ReadProposal(r)
      PROVE  (StatusDraftInv /\ AuditMatchesTables)'
  <2>1. UNCHANGED <<tables, body>>
    BY <1>5 DEF ReadProposal, Goto, Respond
  <2>2. CASE UNCHANGED <<seen, draft>> /\ \E c \in Codes : Respond(r, c)
    BY <1>3, <2>1, <2>2
  <2>3. CASE /\ seen' = [seen EXCEPT ![r] = proposals[Proposal(r)]]
             /\ draft' = [draft EXCEPT ![r] =
                    IF body[r].op = "status"
                    THEN [proposals[Proposal(r)] EXCEPT !.status = body[r].status]
                    ELSE proposals[Proposal(r)]]
             /\ \E l : pc' = [pc EXCEPT ![r] = l]
    <3>1. body[r].op = "status" => draft'[r].computed_at = seen'[r].computed_at
      <4>1. StageAt(body[r], "ReadProposal")
        BY <1>5 DEF ReadProposal, At, TypeInv, Stage
      <4>2. IsRow(proposals[Proposal(r)])
        BY <4>1, BodyTypes DEF StageAt, TypeInv, TypeOK, IsRow, Proposal
      <4> QED  BY <2>3, <4>2 DEF IsRow, Columns, TypeInv, SessionInv
    <3>2. StatusDraftInv'
      BY <2>1, <2>3, <3>1 DEF StatusDraftInv, TypeInv, TypeOK, SessionInv
    <3> QED  BY <1>1, <2>1, <3>2
  <2> QED  BY <1>5, <2>2, <2>3 DEF ReadProposal, Goto, Codes
<1>6. ASSUME NEW r \in Requests, SumEligible(r)
      PROVE  (StatusDraftInv /\ AuditMatchesTables)'
  <2>1. body[r].op # "status"
    BY <1>6 DEF SumEligible, At, TypeInv, Stage, StageAt, Closers
  <2> QED  BY <1>1, <1>6, <2>1
           DEF SumEligible, StatusDraftInv, Goto, TypeInv, TypeOK, SessionInv
<1>7. ASSUME NEW r \in Requests,
             \/ ReadVoter(r) \/ CheckDuplicate(r) \/ ReadStake(r) \/ ReadTarget(r)
             \/ ReadTargetVote(r) \/ Boost(r) \/ SumDelegated(r) \/ InsertVote(r)
             \/ CheckId(r) \/ InsertProposal(r) \/ ReadBallots(r) \/ Flush(r) \/ Publish(r)
      PROVE  (StatusDraftInv /\ AuditMatchesTables)'
  <2>1. UNCHANGED <<tables, body, seen, draft>>
    BY <1>7 DEF ReadVoter, CheckDuplicate, ReadStake, ReadTarget, ReadTargetVote, Boost,
                SumDelegated, InsertVote, CheckId, InsertProposal, ReadBallots, Flush,
                Publish, Goto, Respond, session
  <2>2. \/ \E l \in Labels : Goto(r, l) /\ (l \in {"Flush", "Publish", "Commit"} =>
                \/ body[r].op # "status" \/ pc[r] \in {"Flush", "Publish", "Commit"})
        \/ \E c \in Codes : Respond(r, c)
    <3>1. CASE InsertVote(r)
      BY <3>1 DEF InsertVote, Labels, Codes, BallotOps
    <3>2. CASE Publish(r)
      BY <3>2 DEF Publish, Labels, TypeInv, Stage, StageAt
    <3> QED  BY <1>7, <3>1, <3>2
             DEF Labels, Codes, At, ReadVoter, CheckDuplicate, ReadStake, ReadTarget,
                 ReadTargetVote, Boost, SumDelegated, CheckId, InsertProposal, ReadBallots,
                 Flush
  <2> QED  BY <1>3, <2>1, <2>2
<1>8. ASSUME NEW r \in Requests, Commit(r) \/ LoseCommitReply(r)
      PROVE  (StatusDraftInv /\ AuditMatchesTables)'
  <2>1. body[r] \in Bodies
    BY <1>8 DEF Commit, LoseCommitReply, Store, At, TypeInv, Stage, StageAt
  <2> QED  BY <1>8, <2>1, StoreKeepsAudit DEF Commit, LoseCommitReply, Respond
<1>9. ASSUME NEW r \in Requests, Fail(r) PROVE (StatusDraftInv /\ AuditMatchesTables)'
  <2>1. \/ \E l \in Labels : Goto(r, l) /\ l = "done"
        \/ \E c \in Codes : Respond(r, c)
    BY <1>9 DEF Fail, Labels, Codes
  <2> QED  BY <1>3, <1>9, <2>1 DEF Fail, session, Goto, Respond
<1>10. ASSUME \/ \E trade \in Trades : SetOwnership(trade[1], trade[2])
              \/ \E u \in Leavers : DeactivateUser(u)
              \/ Tick \/ Wait \/ UNCHANGED vars
       PROVE  UNCHANGED <<tables, requests, session>>
  BY <1>10 DEF SetOwnership, DeactivateUser, Tick, Wait, vars
<1> QED  BY <1>2, <1>4, <1>5, <1>6, <1>7, <1>8, <1>9, <1>10 DEF Next, Step

\* Where results are computed by the server only (the command line audits nothing),
\* tables and audit trail agree in every state, whatever dies: append_audit and the
\* rows it describes share one transaction.
THEOREM AuditMatchesTablesHolds ==
    ASSUME \A b \in Bodies : b.op # "cli"
    PROVE  Spec => []AuditMatchesTables
<1>1. Init => AuditInv
  <2> SUFFICES ASSUME Init PROVE StatusDraftInv /\ AuditMatchesTables
    BY InitTypes DEF AuditInv
  <2>1. OpenRow.computed_at = NULL /\ AbsentRow.computed_at = NULL
    BY DEF OpenRow, AbsentRow
  <2>2. \A p \in Proposals : proposals[p] = OpenRow \/ proposals[p] = AbsentRow
    BY DEF Init
  <2>3. votes = {} /\ audit = {} /\ \A r \in Requests : pc[r] = "idle"
    BY DEF Init
  <2> QED  BY <2>1, <2>2, <2>3 DEF StatusDraftInv, AuditMatchesTables
<1>2. AuditInv => AuditMatchesTables
  BY DEF AuditInv
<1>3. AuditInv /\ [Next]_vars => AuditInv'
  BY StepKeepsAudit
<1> QED  BY <1>1, <1>2, <1>3, PTL DEF Spec

-----------------------------------------------------------------------------
(* Stored results.                                                         *)

\* A row with a result that the rules of proposal p give.
Lawful(p, row) ==
    /\ DOMAIN row = Columns
    /\ \A c \in Columns : row[c] # OpenRow[c]
    /\ row.status = "closed"
    /\ row.total = Some(row.yes[1] + row.no[1] + row.abstain[1])
    /\ row.passed = Some(/\ row.quorum_met[1]
                         /\ ClearsThreshold(row.yes[1], row.no[1], RuleOf[p]))

\* Every row is absent, open without a result, or closed by one tally.
RowsInv ==
    \A p \in Proposals : proposals[p] \in {AbsentRow, OpenRow} \/ Lawful(p, proposals[p])

\* A handler that closes a proposal has loaded it open and without a result, and what
\* it stores differs from that in every column: the UPDATE writes the whole result.
CloserInv ==
    \A r \in Requests : body[r].op \in Closers =>
        /\ pc[r] \in {"ReadBallots", "SumEligible", "Flush", "Publish", "Commit"} =>
                seen[r] = OpenRow
        /\ pc[r] \in {"Flush", "Publish", "Commit"} => Lawful(Proposal(r), draft[r])

ResultInv == TypeInv /\ RowsInv /\ CloserInv

\* close_and_compute assigns a lawful result.
LEMMA TallyIsLawful ==
    ASSUME NEW p \in Proposals, NEW rows, NEW eligible, NEW now
    PROVE  Lawful(p, ClosedRow(Tally(rows, eligible, RuleOf[p]), now))
<1> DEFINE t == Tally(rows, eligible, RuleOf[p])
           row == ClosedRow(t, now)
<1>1. /\ t.total = t.yes + t.no + t.abstain
      /\ t.passed = (t.quorum_met /\ ClearsThreshold(t.yes, t.no, RuleOf[p]))
  BY DEF Tally
<1> HIDE DEF t
<1>2. /\ row.status = "closed" /\ row.yes = <<t.yes>> /\ row.no = <<t.no>>
      /\ row.abstain = <<t.abstain>> /\ row.total = <<t.total>>
      /\ row.quorum_met = <<t.quorum_met>> /\ row.passed = <<t.passed>>
  BY DEF ClosedRow, Some
<1>3. DOMAIN row = Columns /\ \A c \in Columns : row[c] # OpenRow[c]
  BY DEF ClosedRow, OpenRow, Some, NULL, Columns
<1>4. row.total = Some(row.yes[1] + row.no[1] + row.abstain[1])
  BY <1>1, <1>2 DEF Some
<1>5. row.passed = Some(/\ row.quorum_met[1]
                        /\ ClearsThreshold(row.yes[1], row.no[1], RuleOf[p]))
  <2>1. row.yes[1] = t.yes /\ row.no[1] = t.no
    BY <1>2
  <2>2. \A x : <<x>>[1] = x
    OBVIOUS
  <2>3. row.quorum_met[1] = t.quorum_met
    BY <1>2, <2>2, Zenon
  <2> HIDE DEF row
  <2> QED  BY <1>1, <1>2, <2>1, <2>3, Zenon DEF Some
<1> QED  BY <1>2, <1>3, <1>4, <1>5 DEF Lawful, t

\* An UPDATE of a row loaded without a result writes every column of a lawful one.
LEMMA LawfulIsWritten ==
    ASSUME NEW p, NEW stored, NEW row, Lawful(p, row)
    PROVE  WriteChanged(stored, OpenRow, row) = [c \in Columns |-> row[c]]
           /\ Lawful(p, WriteChanged(stored, OpenRow, row))
<1>1. WriteChanged(stored, OpenRow, row) = [c \in Columns |-> row[c]]
  BY DEF WriteChanged, Lawful
<1>2. Lawful(p, [c \in Columns |-> row[c]])
  BY DEF Lawful, Columns
<1> QED  BY <1>1, <1>2

\* A step that keeps the proposals, and what the closing handlers have loaded and
\* assigned, and brings no closing handler behind its tally.
LEMMA ResultsKept ==
    ASSUME RowsInv, CloserInv, UNCHANGED proposals,
           \A q \in Requests : body'[q].op \in Closers =>
              /\ pc'[q] \in {"ReadBallots", "SumEligible", "Flush", "Publish", "Commit"} =>
                    /\ pc[q] \in {"ReadBallots", "SumEligible", "Flush", "Publish", "Commit"}
                    /\ body'[q] = body[q] /\ seen'[q] = seen[q]
              /\ pc'[q] \in {"Flush", "Publish", "Commit"} =>
                    pc[q] \in {"Flush", "Publish", "Commit"} /\ draft'[q] = draft[q]
    PROVE  (RowsInv /\ CloserInv)'
<1>1. RowsInv'
  BY DEF RowsInv, Lawful
<1>2. ASSUME NEW q \in Requests, body'[q].op \in Closers,
             pc'[q] \in {"ReadBallots", "SumEligible", "Flush", "Publish", "Commit"}
      PROVE  seen'[q] = OpenRow
  BY <1>2 DEF CloserInv
<1>3. ASSUME NEW q \in Requests, body'[q].op \in Closers,
             pc'[q] \in {"Flush", "Publish", "Commit"}
      PROVE  Lawful(Proposal(q)', draft'[q])
  <2>1. body'[q] = body[q] /\ draft'[q] = draft[q] /\ pc[q] \in {"Flush", "Publish", "Commit"}
    BY <1>3
  <2>2. Lawful(Proposal(q), draft[q])
    BY <1>3, <2>1 DEF CloserInv
  <2>3. Proposal(q)' = Proposal(q)
    BY <2>1 DEF Proposal
  <2> QED  BY <2>1, <2>2, <2>3
<1>4. CloserInv'
  BY <1>2, <1>3 DEF CloserInv, Lawful, Proposal
<1> QED  BY <1>1, <1>4

\* A request that moves on, not from before its tally to behind it.
LEMMA MoveKeepsResults ==
    ASSUME TypeInv, RowsInv, CloserInv, NEW r \in Requests,
           UNCHANGED <<proposals, seen, draft>>,
           \/ \E l \in Labels : Goto(r, l) /\
                (\/ body[r].op \notin Closers
                 \/ l \in {"Publish", "Commit"} /\ pc[r] \in {"Flush", "Publish", "Commit"}
                 \/ l = "SumEligible" /\ pc[r] = "ReadBallots"
                 \/ l = "done")
           \/ \E c \in Codes : Respond(r, c)
    PROVE  (RowsInv /\ CloserInv)'
<1>1. UNCHANGED body
  BY DEF Goto, Respond
<1>2. PICK l \in Labels :
        /\ pc' = [pc EXCEPT ![r] = l]
        /\ \/ body[r].op \notin Closers
           \/ l \in {"Publish", "Commit"} /\ pc[r] \in {"Flush", "Publish", "Commit"}
           \/ l = "SumEligible" /\ pc[r] = "ReadBallots"
           \/ l = "done"
  BY DEF Goto, Respond, Labels
<1> QED  BY <1>1, <1>2, ResultsKept DEF TypeInv, TypeOK

\* A commit that is no status update leaves every row open or lawfully closed.
LEMMA StoreKeepsResults ==
    ASSUME ResultInv, NEW r \in Requests, Store(r), body[r].op # "status",
           UNCHANGED <<body, session>>, \E l \in {"Announce", "done"} : pc' = [pc EXCEPT ![r] = l]
    PROVE  (RowsInv /\ CloserInv)'
<1> USE DEF ResultInv
<1>1. StageAt(body[r], "Commit") /\ pc[r] = "Commit"
  BY DEF Store, At, TypeInv, Stage
<1>2. Proposal(r) \in Proposals /\ body[r].op \in BallotOps \cup Closers \cup {"create"}
  BY <1>1, BodyTypes DEF StageAt, Proposal
<1>3. CloserInv'
  <2>1. \A q \in Requests : pc'[q] = pc[q] \/ pc'[q] \in {"Announce", "done"}
    BY DEF TypeInv, TypeOK
  <2> QED  BY <2>1 DEF CloserInv, Lawful, session, Proposal
<1>4. StoredProposal(r) \in {AbsentRow, OpenRow} \/ Lawful(Proposal(r), StoredProposal(r))
  <2>1. CASE body[r].op = "create"
    BY <2>1 DEF StoredProposal, BallotOps
  <2>2. CASE body[r].op \in BallotOps
    BY <1>2, <2>2 DEF StoredProposal, RowsInv, BallotOps
  <2>3. CASE body[r].op \in Closers
    <3>1. seen[r] = OpenRow /\ Lawful(Proposal(r), draft[r])
      BY <1>1, <2>3 DEF CloserInv
    <3>2. StoredProposal(r) = WriteChanged(proposals[Proposal(r)], OpenRow, draft[r])
      BY <2>3, <3>1 DEF StoredProposal, BallotOps, Closers
    <3> QED  BY <3>1, <3>2, LawfulIsWritten
  <2> QED  BY <1>2, <2>1, <2>2, <2>3
<1>5. RowsInv'
  <2> SUFFICES ASSUME NEW p \in Proposals
      PROVE  proposals'[p] \in {AbsentRow, OpenRow} \/ Lawful(p, proposals'[p])
    BY DEF RowsInv, Lawful
  <2>1. CASE p = Proposal(r)
    BY <1>4, <2>1 DEF Store, TypeInv
  <2>2. CASE p # Proposal(r)
    BY <2>2 DEF Store, TypeInv, RowsInv
  <2> QED  BY <2>1, <2>2
<1> QED  BY <1>3, <1>5

\* Without status updates every step keeps the rows and the drafts of the closers.
LEMMA StepKeepsResults ==
    ASSUME \A b \in Bodies : b.op # "status"
    PROVE  ResultInv /\ [Next]_vars => ResultInv'
<1> SUFFICES ASSUME ResultInv, [Next]_vars PROVE (RowsInv /\ CloserInv)'
  BY StepKeepsTypes DEF ResultInv
<1> USE DEF ResultInv
<1>1. ASSUME UNCHANGED <<proposals, body, pc, seen, draft>> PROVE (RowsInv /\ CloserInv)'
  BY <1>1, ResultsKept
<1>2. ASSUME NEW r \in Requests, Receive(r) PROVE (RowsInv /\ CloserInv)'
  <2>1. PICK b \in Bodies :
          /\ body' = [body EXCEPT ![r] = b]
          /\ pc' = [pc EXCEPT ![r] = IF b.op = "create" THEN "CheckId" ELSE "ReadProposal"]
    BY <1>2 DEF Receive
  <2>2. UNCHANGED <<proposals, seen, draft>>
    BY <1>2 DEF Receive, session, tables
  <2> QED  BY <2>1, <2>2, ResultsKept DEF TypeInv, TypeOK
<1>3. ASSUME NEW r \in Requests, ReadProposal(r) PROVE (RowsInv /\ CloserInv)'
  <2>1. StageAt(body[r], "ReadProposal")
    BY <1>3 DEF ReadProposal, At, TypeInv, Stage
  <2>2. /\ Proposal(r) \in Proposals /\ body[r].op \in BallotOps \cup Closers
        /\ UNCHANGED <<proposals, body>>
    BY <1>3, <2>1, BodyTypes DEF StageAt, Proposal, ReadProposal, Goto, Respond, tables
  <2>3. CASE UNCHANGED <<seen, draft>> /\ \E c \in Codes : Respond(r, c)
    BY <2>2, <2>3, MoveKeepsResults
  <2>4. CASE /\ proposals[Proposal(r)].status # "absent"
             /\ Admits(body[r], proposals[Proposal(r)])
             /\ seen' = [seen EXCEPT ![r] = proposals[Proposal(r)]]
             /\ \E x : draft' = [draft EXCEPT ![r] = x]
             /\ Goto(r, CASE body[r].op \in BallotOps -> "ReadVoter"
                         [] body[r].op \in Closers   -> "ReadBallots"
                         [] body[r].op = "status"    -> "Flush")
    <3>1. ASSUME body[r].op \in Closers PROVE seen'[r] = OpenRow
      <4>1. proposals[Proposal(r)].status \notin {"absent", "closed"}
        BY <2>4, <3>1 DEF Admits, Closers, BallotOps
      <4>2. AbsentRow.status = "absent"
        BY DEF AbsentRow, OpenRow
      <4>3. proposals[Proposal(r)] = OpenRow
        BY <2>2, <4>1, <4>2 DEF RowsInv, Lawful
      <4> QED  BY <2>4, <4>3 DEF TypeInv, SessionInv
    <3>2. pc' = [pc EXCEPT ![r] =
                    IF body[r].op \in BallotOps THEN "ReadVoter" ELSE "ReadBallots"]
      BY <2>2, <2>4 DEF Goto, BallotOps, Closers
    <3>3. CloserInv'
      <4> SUFFICES ASSUME NEW q \in Requests, body'[q].op \in Closers
          PROVE  /\ pc'[q] \in {"ReadBallots", "SumEligible", "Flush", "Publish", "Commit"} =>
                        seen'[q] = OpenRow
                 /\ pc'[q] \in {"Flush", "Publish", "Commit"} =>
                        Lawful(Proposal(q)', draft'[q])
        BY DEF CloserInv, Lawful
      <4>1. CASE q = r
        BY <2>2, <3>1, <3>2, <4>1 DEF TypeInv, TypeOK
      <4>2. CASE q # r
        <5>1. pc'[q] = pc[q] /\ seen'[q] = seen[q] /\ draft'[q] = draft[q] /\ body' = body
          BY <2>2, <2>4, <3>2, <4>2 DEF TypeInv, TypeOK, SessionInv
        <5> QED  BY <5>1 DEF CloserInv, Proposal
      <4> QED  BY <4>1, <4>2
    <3>4. RowsInv'
      BY <2>2 DEF RowsInv, Lawful
    <3> QED  BY <3>3, <3>4
  <2> QED  BY <1>3, <2>3, <2>4 DEF ReadProposal, Codes
<1>4. ASSUME NEW r \in Requests, SumEligible(r) PROVE (RowsInv /\ CloserInv)'
  <2>1. StageAt(body[r], "SumEligible")
    BY <1>4 DEF SumEligible, At, TypeInv, Stage
  <2>2. /\ Proposal(r) \in Proposals /\ body[r].op \in Closers
        /\ UNCHANGED <<proposals, body, seen>>
    BY <1>4, <2>1, BodyTypes DEF StageAt, Proposal, SumEligible, Goto, tables
  <2>3. PICK x :
          /\ draft' = [draft EXCEPT ![r] = x] /\ Lawful(Proposal(r), x)
          /\ pc' = [pc EXCEPT ![r] = "Flush"]
    BY <1>4, <2>2, TallyIsLawful DEF SumEligible, Goto
  <2>4. seen[r] = OpenRow
    BY <1>4, <2>2 DEF CloserInv, SumEligible, At
  <2>5. CloserInv'
    <3> SUFFICES ASSUME NEW q \in Requests, body'[q].op \in Closers
        PROVE  /\ pc'[q] \in {"ReadBallots", "SumEligible", "Flush", "Publish", "Commit"} =>
                      seen'[q] = OpenRow
               /\ pc'[q] \in {"Flush", "Publish", "Commit"} =>
                      Lawful(Proposal(q)', draft'[q])
      BY DEF CloserInv, Lawful
    <3>1. CASE q = r
      BY <2>2, <2>3, <2>4, <3>1 DEF Proposal, TypeInv, SessionInv
    <3>2. CASE q # r
      BY <2>2, <2>3, <3>2 DEF CloserInv, Proposal, TypeInv, TypeOK, SessionInv
    <3> QED  BY <3>1, <3>2
  <2>6. RowsInv'
    BY <2>2 DEF RowsInv, Lawful
  <2> QED  BY <2>5, <2>6
<1>5. ASSUME NEW r \in Requests,
             \/ ReadVoter(r) \/ CheckDuplicate(r) \/ ReadStake(r) \/ ReadTarget(r)
             \/ ReadTargetVote(r) \/ Boost(r) \/ SumDelegated(r) \/ InsertVote(r)
             \/ CheckId(r) \/ InsertProposal(r) \/ ReadBallots(r) \/ Flush(r) \/ Publish(r)
      PROVE  (RowsInv /\ CloserInv)'
  <2>1. UNCHANGED <<proposals, seen, draft>>
    BY <1>5 DEF ReadVoter, CheckDuplicate, ReadStake, ReadTarget, ReadTargetVote, Boost,
                SumDelegated, InsertVote, CheckId, InsertProposal, ReadBallots, Flush,
                Publish, session, tables
  <2>2. StageAt(body[r], pc[r])
    BY <1>5 DEF ReadVoter, CheckDuplicate, ReadStake, ReadTarget, ReadTargetVote, Boost,
                SumDelegated, InsertVote, CheckId, InsertProposal, ReadBallots, Flush,
                Publish, At, TypeInv, Stage
  <2>3. \/ \E l \in Labels : Goto(r, l) /\
                (\/ body[r].op \notin Closers
                 \/ l \in {"Publish", "Commit"} /\ pc[r] \in {"Flush", "Publish", "Commit"}
                 \/ l = "SumEligible" /\ pc[r] = "ReadBallots"
                 \/ l = "done")
        \/ \E c \in Codes : Respond(r, c)
    BY <1>5, <2>2
    DEF Labels, Codes, At, StageAt, BallotOps, Closers, ReadVoter, CheckDuplicate, ReadStake,
        ReadTarget, ReadTargetVote, Boost, SumDelegated, InsertVote, CheckId, InsertProposal,
        ReadBallots, Flush, Publish
  <2> QED  BY <2>1, <2>3, MoveKeepsResults
<1>6. ASSUME NEW r \in Requests, Commit(r) \/ LoseCommitReply(r)
      PROVE  (RowsInv /\ CloserInv)'
  <2>1. body[r] \in Bodies
    BY <1>6 DEF Commit, LoseCommitReply, Store, At, TypeInv, Stage, StageAt
  <2> QED  BY <1>6, <2>1, StoreKeepsResults DEF Commit, LoseCommitReply, Respond
<1>7. ASSUME NEW r \in Requests, Fail(r) PROVE (RowsInv /\ CloserInv)'
  <2>1. \/ \E l \in Labels : Goto(r, l) /\ l = "done"
        \/ \E c \in Codes : Respond(r, c)
    BY <1>7 DEF Fail, Labels, Codes
  <2> QED  BY <1>7, <2>1, MoveKeepsResults DEF Fail, session, tables
<1>8. ASSUME \/ \E trade \in Trades : SetOwnership(trade[1], trade[2])
             \/ \E u \in Leavers : DeactivateUser(u)
             \/ Tick \/ Wait \/ UNCHANGED vars
      PROVE  (RowsInv /\ CloserInv)'
  BY <1>1, <1>8 DEF SetOwnership, DeactivateUser, Tick, Wait, vars, tables, requests, session
<1>9. ASSUME NEW r \in Requests, Step(r) PROVE (RowsInv /\ CloserInv)'
  BY <1>3, <1>4, <1>5, <1>6, <1>9 DEF Step
<1> QED  BY <1>2, <1>6, <1>7, <1>8, <1>9 DEF Next

\* When the run starts there is no result.
LEMMA InitResults == Init => ResultInv
<1> SUFFICES ASSUME Init PROVE ResultInv
  OBVIOUS
<1>1. RowsInv
  BY DEF Init, RowsInv
<1>2. CloserInv
  BY DEF Init, CloserInv, NoBody, Closers
<1> QED  BY <1>1, <1>2, InitTypes DEF ResultInv

\* Where no status is patched by hand, every stored result is the outcome of one tally
\* under the rule of its proposal, also when force_close, the scheduler and the command
\* line close it at the same time: their UPDATEs never mix.
THEOREM StoredResultObeysRulesHolds ==
    ASSUME \A b \in Bodies : b.op # "status"
    PROVE  Spec => []StoredResultObeysRules
<1>1. Init => ResultInv
  BY InitResults
<1>2. ResultInv => StoredResultObeysRules
  <2>1. AbsentRow.computed_at = NULL /\ OpenRow.computed_at = NULL
    BY DEF AbsentRow, OpenRow
  <2> QED  BY <2>1 DEF ResultInv, RowsInv, Lawful, StoredResultObeysRules
<1>3. ResultInv /\ [Next]_vars => ResultInv'
  BY StepKeepsResults
<1> QED  BY <1>1, <1>2, <1>3, PTL DEF Spec

-----------------------------------------------------------------------------
(* The refinement: the transactions implement the register of ballots of   *)
(* BallotRegister; first, what a request has learnt from the proposal.     *)

\* A request whose handler has loaded its proposal and not ended.
Loaded(r) ==
    pc[r] \notin {"idle", "ReadProposal", "CheckId", "done"} /\ body[r].op # "create"

\* The proposal is still there, and what will be written to it has a status.
LoadedInv ==
    \A r \in Requests : Loaded(r) =>
        /\ proposals[Proposal(r)].status \in Statuses
        /\ body[r].op \notin BallotOps => draft[r].status \in Statuses

\* Served one after the other, a voter finds the proposal as open as he loaded it.
SerialInv ==
    ~(MaxInFlight > 1) =>
        /\ \A q, r \in InFlight : q = r
        /\ \A r \in Requests : Loaded(r) /\ body[r].op \in BallotOps =>
                proposals[Proposal(r)].status = "open"

RegisterInv == VoterInv /\ LoadedInv /\ SerialInv

\* A step of a handler that neither loads its proposal nor commits.
Waits(r) ==
    /\ UNCHANGED <<proposals, votes>>
    /\ pc[r] # "ReadProposal" \/ pc' = [pc EXCEPT ![r] = "done"]
    /\ draft' = draft \/ \E row : row.status = "closed" /\ draft' = [draft EXCEPT ![r] = row]

\* A step of a handler that commits.
Stores(r) ==
    /\ Store(r) /\ UNCHANGED <<seen, draft>>
    /\ \E l \in {"done", "Announce"} : pc' = [pc EXCEPT ![r] = l]
    /\ pc'[r] = "Announce" => body[r].op = "sched"

\* Every step of a handler is of one of three kinds.
LEMMA HandlerSteps ==
    ASSUME TypeInv, NEW r \in Requests, Step(r) \/ Fail(r) \/ LoseCommitReply(r)
    PROVE  /\ r \in InFlight /\ body' = body
           /\ \E l \in Labels : pc' = [pc EXCEPT ![r] = l]
           /\ ReadProposal(r) \/ Waits(r) \/ Stores(r)
<1>1. pc \in [Requests -> Labels]
  BY DEF TypeInv, TypeOK
<1>2. CASE ReadProposal(r)
  <2>1. StageAt(body[r], "ReadProposal")
    BY <1>2 DEF ReadProposal, At, TypeInv, Stage
  <2>2. body[r].op \in BallotOps \cup Closers \cup {"status"}
    BY <2>1, BodyTypes DEF StageAt
  <2> QED  BY <1>2, <2>2
           DEF ReadProposal, At, InFlight, Goto, Respond, Labels, BallotOps, Closers
<1>3. CASE \/ ReadVoter(r) \/ CheckDuplicate(r) \/ ReadStake(r) \/ ReadTarget(r)
           \/ ReadTargetVote(r) \/ Boost(r) \/ SumDelegated(r) \/ InsertVote(r)
           \/ CheckId(r) \/ InsertProposal(r) \/ ReadBallots(r) \/ Flush(r) \/ Publish(r)
  <2>1. r \in InFlight /\ pc[r] # "ReadProposal" /\ body' = body
    BY <1>3 DEF ReadVoter, CheckDuplicate, ReadStake, ReadTarget, ReadTargetVote, Boost,
                SumDelegated, InsertVote, CheckId, InsertProposal, ReadBallots, Flush,
                Publish, At, InFlight, Goto, Respond
  <2>2. \E l \in Labels : pc' = [pc EXCEPT ![r] = l]
    BY <1>3 DEF ReadVoter, CheckDuplicate, ReadStake, ReadTarget, ReadTargetVote, Boost,
                SumDelegated, InsertVote, CheckId, InsertProposal, ReadBallots, Flush,
                Publish, Goto, Respond, Labels
  <2>3. UNCHANGED <<proposals, votes, draft>>
    BY <1>3 DEF ReadVoter, CheckDuplicate, ReadStake, ReadTarget, ReadTargetVote, Boost,
                SumDelegated, InsertVote, CheckId, InsertProposal, ReadBallots, Flush,
                Publish, tables, session
  <2> QED  BY <2>1, <2>2, <2>3 DEF Waits
<1>4. CASE SumEligible(r)
  <2>1. \A t, now : ClosedRow(t, now).status = "closed"
    BY DEF ClosedRow
  <2> QED  BY <1>4, <2>1 DEF SumEligible, At, InFlight, Goto, Labels, Waits, tables
<1>5. CASE Commit(r)
  <2>1. pc' = [pc EXCEPT ![r] = IF body[r].op = "sched" THEN "Announce" ELSE "done"]
    BY <1>5 DEF Commit
  <2> QED  BY <1>1, <1>5, <2>1 DEF Commit, Store, At, InFlight, Labels, Stores, session
<1>6. CASE LoseCommitReply(r)
  BY <1>1, <1>6 DEF LoseCommitReply, Store, At, InFlight, Respond, Labels, Stores, session
<1>7. CASE Fail(r) /\ ~ReadProposal(r)
  <2>1. /\ UNCHANGED <<proposals, votes, draft>> /\ r \in InFlight /\ body' = body
        /\ pc' = [pc EXCEPT ![r] = "done"]
    BY <1>7 DEF Fail, tables, session, Goto, Respond
  <2> QED  BY <2>1 DEF Labels, Waits
<1> QED  BY <1>2, <1>3, <1>4, <1>5, <1>6, <1>7 DEF Step

\* What a commit leaves in the row of its proposal has a status.
LEMMA StoredHasStatus ==
    ASSUME TypeInv, LoadedInv, NEW r \in Requests, At(r, "Commit")
    PROVE  /\ Proposal(r) \in Proposals /\ StoredProposal(r).status \in Statuses
           /\ body[r].op # "create" => Loaded(r)
<1>1. body[r] \in Bodies
  BY DEF At, TypeInv, Stage, StageAt
<1>2. Proposal(r) \in Proposals
        /\ body[r].op \in BallotOps \cup Closers \cup {"status", "create"}
  BY <1>1, BodyTypes DEF Proposal
<1>3. body[r].op # "create" => Loaded(r)
  BY DEF At, Loaded
<1>4. CASE body[r].op = "create"
  BY <1>2, <1>3, <1>4 DEF StoredProposal, OpenRow, Statuses, BallotOps
<1>5. CASE body[r].op \in BallotOps
  BY <1>2, <1>3, <1>5 DEF StoredProposal, LoadedInv, BallotOps
<1>6. CASE body[r].op \in Closers \cup {"status"}
  <2>1. /\ StoredProposal(r) = WriteChanged(proposals[Proposal(r)], seen[r], draft[r])
        /\ body[r].op \notin BallotOps
    BY <1>6 DEF StoredProposal, BallotOps, Closers
  <2> QED  BY <1>2, <1>3, <1>6, <2>1 DEF WriteChanged, Columns, LoadedInv, Closers
<1> QED  BY <1>2, <1>3, <1>4, <1>5, <1>6

\* A handler knows what it needs as soon as it has loaded its proposal.
LEMMA LoadKeepsLoaded ==
    ASSUME TypeInv, LoadedInv, SerialInv, NEW r \in Requests, ReadProposal(r)
    PROVE  (LoadedInv /\ SerialInv)'
<1>1. StageAt(body[r], "ReadProposal") /\ r \in InFlight
  BY DEF ReadProposal, At, TypeInv, Stage, InFlight
<1>2. /\ body[r].op \in BallotOps \cup Closers \cup {"status"}
      /\ body[r].status \in Statuses \cup {"INVALID"} /\ Proposal(r) \in Proposals
  BY <1>1, BodyTypes DEF StageAt, Proposal
<1>3. UNCHANGED <<proposals, body>> /\ \E l : pc' = [pc EXCEPT ![r] = l]
  BY DEF ReadProposal, Goto, Respond, tables
<1>4. \A q \in Others(r) : pc'[q] = pc[q] /\ draft'[q] = draft[q]
  BY <1>3 DEF ReadProposal, Others, TypeInv, TypeOK, SessionInv
<1>5. ASSUME Loaded(r)'
      PROVE  /\ proposals[Proposal(r)].status \in Statuses
             /\ body[r].op \notin BallotOps => draft'[r].status \in Statuses
             /\ body[r].op \in BallotOps => proposals[Proposal(r)].status = "open"
  <2>1. pc'[r] # "done"
    BY <1>5 DEF Loaded
  <2>2. /\ proposals[Proposal(r)].status # "absent"
        /\ Admits(body[r], proposals[Proposal(r)])
        /\ draft' = [draft EXCEPT ![r] =
                IF body[r].op = "status"
                THEN [proposals[Proposal(r)] EXCEPT !.status = body[r].status]
                ELSE proposals[Proposal(r)]]
    BY <2>1 DEF ReadProposal, Respond, TypeInv, TypeOK
  <2>3. IsRow(proposals[Proposal(r)])
    BY <1>2 DEF TypeInv, TypeOK, IsRow
  <2>4. /\ body[r].op \in BallotOps => proposals[Proposal(r)].status = "open"
        /\ body[r].op = "status" => body[r].status \in Statuses
    BY <1>2, <2>2 DEF Admits, BallotOps
  <2> QED  BY <2>2, <2>3, <2>4 DEF IsRow, TypeInv, SessionInv, Columns
<1>6. LoadedInv'
  BY <1>3, <1>4, <1>5 DEF LoadedInv, Loaded, Others, Proposal
<1>7. SerialInv'
  <2>1. InFlight' \subseteq InFlight
    BY <1>1, <1>4 DEF InFlight, Others
  <2>2. ASSUME NEW q \in Requests, Loaded(q)', q # r PROVE Loaded(q)
    BY <1>3, <1>4, <2>2 DEF Loaded, Others
  <2> QED  BY <1>3, <1>5, <2>1, <2>2 DEF SerialInv, Proposal
<1> QED  BY <1>6, <1>7

\* Between the load and the commit nothing is lost.
LEMMA WaitKeepsLoaded ==
    ASSUME TypeInv, LoadedInv, SerialInv, NEW r \in Requests, Waits(r), r \in InFlight,
           body' = body, \E l \in Labels : pc' = [pc EXCEPT ![r] = l]
    PROVE  (LoadedInv /\ SerialInv)'
<1>1. \A q \in Others(r) : pc'[q] = pc[q] /\ draft'[q] = draft[q]
  BY DEF Waits, Others, TypeInv, TypeOK, SessionInv
<1>2. Loaded(r)' => Loaded(r)
  <2>1. pc[r] = "CheckId" => body[r].op = "create"
    BY DEF TypeInv, Stage, StageAt
  <2>2. pc[r] \notin {"idle", "done"}
    BY DEF InFlight
  <2>3. pc[r] = "ReadProposal" => pc'[r] = "done"
    BY DEF Waits, TypeInv, TypeOK
  <2> QED  BY <2>1, <2>2, <2>3 DEF Loaded
<1>3. \A q \in Requests : Loaded(q)' => Loaded(q)
  BY <1>1, <1>2 DEF Loaded, Others
<1>4. draft'[r] = draft[r] \/ draft'[r].status \in Statuses
  BY DEF Waits, Statuses, TypeInv, SessionInv
<1>5. UNCHANGED proposals /\ \A q \in Requests : Proposal(q)' = Proposal(q)
  BY DEF Waits, Proposal
<1>6. LoadedInv'
  BY <1>1, <1>3, <1>4, <1>5 DEF LoadedInv, Others
<1>7. InFlight' \subseteq InFlight
  BY <1>1 DEF InFlight, Others
<1> QED  BY <1>3, <1>5, <1>6, <1>7 DEF SerialInv

\* A commit changes the row of one proposal, and ends a request that casts a ballot.
LEMMA StoreKeepsLoaded ==
    ASSUME TypeInv, LoadedInv, SerialInv, NEW r \in Requests, Stores(r), r \in InFlight,
           body' = body
    PROVE  (LoadedInv /\ SerialInv)'
<1>1. Proposal(r) \in Proposals /\ StoredProposal(r).status \in Statuses
  BY StoredHasStatus DEF Stores, Store
<1>2. /\ \A q \in Others(r) : pc'[q] = pc[q]
      /\ pc'[r] \in {"done", "Announce"} /\ pc[r] = "Commit"
  BY DEF Stores, Store, At, Others, TypeInv, TypeOK
<1>3. \A q \in Requests : Loaded(q)' => Loaded(q) /\ Proposal(q)' = Proposal(q)
  BY <1>2 DEF Loaded, Others, Proposal
<1>4. \A p \in Proposals : proposals'[p] = proposals[p] \/ proposals'[p].status \in Statuses
  BY <1>1 DEF Stores, Store, TypeInv
<1>5. \A q \in Requests : Loaded(q) => Proposal(q) \in Proposals
  <2> SUFFICES ASSUME NEW q \in Requests, Loaded(q) PROVE Proposal(q) \in Proposals
    OBVIOUS
  <2>1. body[q] \in Bodies
    BY DEF Loaded, TypeInv, Stage, StageAt
  <2> QED  BY <2>1, BodyTypes DEF Proposal
<1>6. LoadedInv'
  <2>1. draft' = draft
    BY DEF Stores
  <2> QED  BY <1>3, <1>4, <1>5, <2>1 DEF LoadedInv
<1>7. SerialInv'
  <2> SUFFICES ASSUME ~(MaxInFlight > 1)
      PROVE  /\ \A q, s \in InFlight' : q = s
             /\ \A q \in Requests : Loaded(q)' /\ body'[q].op \in BallotOps =>
                    proposals'[Proposal(q)'].status = "open"
    BY DEF SerialInv
  <2>1. \A q \in InFlight : q = r
    BY DEF SerialInv
  <2>2. InFlight' \subseteq InFlight
    BY <1>2 DEF InFlight, Others
  <2>3. ~(Loaded(r)' /\ body'[r].op \in BallotOps)
    BY <1>2 DEF Stores, Loaded, BallotOps
  <2>4. \A q \in Requests : Loaded(q)' => q \in InFlight'
    BY DEF Loaded, InFlight
  <2> QED  BY <2>1, <2>2, <2>3, <2>4
<1> QED  BY <1>6, <1>7

\* A new request has loaded nothing, and is alone if only one is served at a time.
LEMMA ReceiveKeepsLoaded ==
    ASSUME TypeInv, LoadedInv, SerialInv, NEW r \in Requests, Receive(r)
    PROVE  (LoadedInv /\ SerialInv)'
<1>1. PICK b \in Bodies :
        /\ body' = [body EXCEPT ![r] = b]
        /\ pc' = [pc EXCEPT ![r] = IF b.op = "create" THEN "CheckId" ELSE "ReadProposal"]
  BY DEF Receive
<1>2. UNCHANGED <<proposals, draft>> /\ Cardinality(InFlight) < MaxInFlight
  BY DEF Receive, tables, session
<1>3. \A q \in Others(r) : pc'[q] = pc[q] /\ body'[q] = body[q]
  BY <1>1 DEF Others, TypeInv, TypeOK
<1>4. ~Loaded(r)'
  BY <1>1 DEF Loaded, TypeInv, TypeOK
<1>5. \A q \in Requests : Loaded(q)' =>
        Loaded(q) /\ Proposal(q)' = Proposal(q) /\ body'[q] = body[q]
  BY <1>3, <1>4 DEF Loaded, Others, Proposal
<1>6. LoadedInv'
  BY <1>2, <1>5 DEF LoadedInv
<1>7. ASSUME ~(MaxInFlight > 1) PROVE \A q, s \in InFlight' : q = s
  <2>1. IsFiniteSet(InFlight)
    <3>1. InFlight \subseteq Requests
      BY DEF InFlight
    <3> QED  BY <3>1, GovernanceAssumption, FS_Subset
  <2>2. Cardinality(InFlight) = 0
    <3>1. MaxInFlight \in Nat /\ Cardinality(InFlight) \in Nat
      BY <2>1, GovernanceAssumption, FS_CardinalityType
    <3> QED  BY <1>2, <1>7, <3>1
  <2>3. InFlight = {}
    BY <2>1, <2>2, FS_EmptySet
  <2> QED  BY <1>3, <2>3 DEF InFlight, Others
<1> QED  BY <1>2, <1>5, <1>6, <1>7 DEF SerialInv

\* The register's view of the tables is as it was, if they are.
LEMMA LoadedKept ==
    ASSUME LoadedInv, SerialInv, UNCHANGED <<proposals, draft, pc, body>>
    PROVE  (LoadedInv /\ SerialInv)'
BY DEF LoadedInv, SerialInv, Loaded, InFlight, Proposal

\* Every step keeps what the refinement needs.
LEMMA StepKeepsRegister == RegisterInv /\ [Next]_vars => RegisterInv'
<1> SUFFICES ASSUME RegisterInv, [Next]_vars PROVE (LoadedInv /\ SerialInv)'
  BY StepKeepsKeys DEF RegisterInv
<1> USE DEF RegisterInv, VoterInv
<1>1. ASSUME NEW r \in Requests, Receive(r) PROVE (LoadedInv /\ SerialInv)'
  BY <1>1, ReceiveKeepsLoaded
<1>2. ASSUME NEW r \in Requests, Step(r) \/ Fail(r) \/ LoseCommitReply(r)
      PROVE  (LoadedInv /\ SerialInv)'
  BY <1>2, HandlerSteps, LoadKeepsLoaded, WaitKeepsLoaded, StoreKeepsLoaded
<1>3. ASSUME \/ \E trade \in Trades : SetOwnership(trade[1], trade[2])
             \/ \E u \in Leavers : DeactivateUser(u)
             \/ Tick \/ Wait \/ UNCHANGED vars
      PROVE  (LoadedInv /\ SerialInv)'
  BY <1>3, LoadedKept
     DEF SetOwnership, DeactivateUser, Tick, Wait, vars, tables, requests, session
<1> QED  BY <1>1, <1>2, <1>3 DEF Next

\* When the run starts no handler has loaded anything.
LEMMA InitRegister == Init => RegisterInv
<1> SUFFICES ASSUME Init PROVE KeyInv /\ OneVotePerVoter /\ LoadedInv /\ SerialInv
  BY InitTypes DEF RegisterInv, VoterInv
<1>1. votes = {} /\ \A r \in Requests : pc[r] = "idle"
  BY DEF Init
<1> QED  BY <1>1 DEF KeyInv, OneVotePerVoter, LoadedInv, SerialInv, Loaded, Uncommitted, InFlight

-----------------------------------------------------------------------------
(* The register's steps.                                                   *)

\* The variables of the register.
registered == <<[p \in Proposals |-> proposals[p].status], {Ballot(v) : v \in votes}>>

\* The initial tables are an empty register.
LEMMA InitRefines == Init => Register!Init
<1> SUFFICES ASSUME Init PROVE Register!Init
  OBVIOUS
<1>1. OpenRow.status = "open" /\ AbsentRow.status = "absent"
  BY DEF OpenRow, AbsentRow
<1>2. \A p \in Proposals : proposals[p].status \in {"absent", "open"}
  BY <1>1 DEF Init
<1>3. {Ballot(v) : v \in votes} = {}
  BY DEF Init
<1> QED  BY <1>2, <1>3 DEF Register!Init

\* Committing a ballot records it; the boosted row keeps its ballot.
LEMMA BallotRefines ==
    ASSUME RegisterInv, NEW r \in Requests, Stores(r), body[r].op \in BallotOps
    PROVE  Register!Next
<1> USE DEF RegisterInv, VoterInv
<1> DEFINE F(w) == IF body[r].op = "vote" THEN w ELSE Boosted(w, r)
           old == {Ballot(v) : v \in votes}
           b == Ballot(VoteRow(r))
<1>1. /\ Proposal(r) \in Proposals /\ Loaded(r)
      /\ votes' = StoredVotes(r) /\ StoredProposal(r) = proposals[Proposal(r)]
  BY StoredHasStatus DEF Stores, Store, StoredProposal, BallotOps
<1>2. \A p \in Proposals : proposals'[p].status = proposals[p].status
  BY <1>1 DEF Stores, Store, TypeInv
<1>3. \A w \in votes : Ballot(F(w)) = Ballot(w)
  BY DEF Boosted, WithWeight, Ballot
<1>4. votes' = {F(w) : w \in votes} \cup {VoteRow(r)}
  BY <1>1 DEF StoredVotes, BallotOps
<1> HIDE DEF F
<1>5. {Ballot(v) : v \in votes}' = old \cup {b}
  <2>1. \A x : (\E v \in votes' : x = Ballot(v)) <=> x = b \/ \E w \in votes : x = Ballot(w)
    <3> HIDE DEF Ballot
    <3> QED  BY <1>3, <1>4
  <2> QED  BY <2>1 DEF Ballot
<1>6. b.proposal = Proposal(r) /\ b.voter = body[r].voter
  BY DEF Ballot, VoteRow
<1>7. \A other \in old : other.proposal = b.proposal => other.voter # b.voter
  BY <1>6 DEF KeyInv, VotesOf, Uncommitted, Stores, Store, At, Ballot
<1>8. b \notin old
  BY <1>7
<1>9. proposals[b.proposal].status = "open" \/ MaxInFlight > 1
  BY <1>1, <1>6 DEF SerialInv
<1> HIDE DEF old, b
<1>10. Register!Record(b)
  BY <1>1, <1>2, <1>5, <1>6, <1>7, <1>9 DEF Register!Record, old
<1> QED  BY <1>5, <1>8, <1>10 DEF Register!Next, old

\* Every other commit sets the status of one proposal that exists, or creates it.
LEMMA StatusRefines ==
    ASSUME RegisterInv, NEW r \in Requests, Stores(r), body[r].op \notin BallotOps
    PROVE  Register!Next
<1> USE DEF RegisterInv, VoterInv
<1>1. PICK p \in Proposals, s \in Statuses : p = Proposal(r) /\ s = StoredProposal(r).status
  BY StoredHasStatus DEF Stores, Store
<1>2. votes' = votes
  BY DEF Stores, Store, StoredVotes, BallotOps
<1>3. [q \in Proposals |-> proposals[q].status]'
        = [[q \in Proposals |-> proposals[q].status] EXCEPT ![p] = s]
  BY <1>1 DEF Stores, Store, TypeInv
<1>4. CASE proposals[p].status = "absent"
  <2>1. body[r].op = "create"
    BY <1>1, <1>4, StoredHasStatus DEF Stores, Store, LoadedInv, Statuses
  <2>2. s = "open"
    BY <1>1, <2>1 DEF StoredProposal, OpenRow, BallotOps
  <2>3. Register!Create(p)
    BY <1>2, <1>3, <1>4, <2>2 DEF Register!Create
  <2> QED  BY <2>3 DEF Register!Next
<1>5. CASE proposals[p].status # "absent"
  <2>1. Register!SetStatus(p)
    BY <1>2, <1>3, <1>5 DEF Register!SetStatus
  <2> QED  BY <2>1 DEF Register!Next
<1> QED  BY <1>4, <1>5

\* Every step is a step of the register or leaves it alone.
LEMMA StepRefines == RegisterInv /\ [Next]_vars => [Register!Next]_registered
<1> SUFFICES ASSUME RegisterInv, [Next]_vars
    PROVE  Register!Next \/ UNCHANGED <<proposals, votes>>
  BY DEF registered, Ballot
<1>1. ASSUME NEW r \in Requests, Receive(r) \/ ReadProposal(r)
      PROVE  UNCHANGED <<proposals, votes>>
  BY <1>1 DEF Receive, ReadProposal, tables
<1>2. ASSUME NEW r \in Requests, Step(r) \/ Fail(r) \/ LoseCommitReply(r)
      PROVE  Register!Next \/ UNCHANGED <<proposals, votes>>
  BY <1>1, <1>2, HandlerSteps, BallotRefines, StatusRefines DEF Waits, RegisterInv, VoterInv
<1>3. ASSUME \/ \E trade \in Trades : SetOwnership(trade[1], trade[2])
             \/ \E u \in Leavers : DeactivateUser(u)
             \/ Tick \/ Wait \/ UNCHANGED vars
      PROVE  UNCHANGED <<proposals, votes>>
  BY <1>3 DEF SetOwnership, DeactivateUser, Tick, Wait, vars, tables
<1> QED  BY <1>1, <1>2, <1>3 DEF Next

\* The handlers of cast_vote, create_proposal, update_status, force_close and the
\* closers implement the register of ballots for every number of overlapping requests:
\* a ballot is recorded once per voter and proposal and kept as it is, and without
\* overlap it is recorded while its proposal is open.
THEOREM RegisterImplemented == Spec => RegisterSpec
<1>1. RegisterInv /\ [Next]_vars => [Register!Next]_registered
  BY StepRefines
<1> QED  BY <1>1, InitRegister, InitRefines, StepKeepsRegister, PTL
         DEF Spec, RegisterSpec, Register!Spec, registered

=============================================================================
