----------------------------- MODULE Governance -----------------------------
(***************************************************************************)
(* The transactions of the governance core: cast_vote, create_proposal,    *)
(* update_status and force_close of the HTTP API, one _close_proposal of   *)
(* the scheduler and one of the command line, running concurrently against *)
(* one PostgreSQL database (READ COMMITTED) and one in-process event bus.  *)
(*                                                                         *)
(* A request is a process.  Every await of its handler that reaches the    *)
(* database or the bus is one action, and other requests run between two   *)
(* of them.  What a session has written is invisible to the others until   *)
(* Commit; until then it only holds the row locks and the unique keys      *)
(* that PostgreSQL would hold for it.                                      *)
(*                                                                         *)
(* One entity is modelled, so that a stake is a number per user.           *)
(***************************************************************************)
EXTENDS DecisionEngine, Sequences

CONSTANTS
    Requests,        \* identities of the requests (and of the rows they insert)
    Proposals,       \* proposal identifiers
    Users,
    NoOne,           \* the voter of a request that casts no ballot
    Bodies,          \* what the requests of a run may ask for
    Existing,        \* the proposals that are open when the run starts
    RuleOf,          \* the governance rule each proposal is created with
    ClosesAt,        \* closes_at of each proposal: NULL or Some(second)
    InitialStake,    \* shares * role_weight_multiplier of each user
    Trades,          \* <<user, stake>> pairs PUT /entities/ownership may set
    Leavers,         \* the users DELETE /users/{id} may deactivate
    RequireSignatures,  \* settings.REQUIRE_CRYPTO_SIGNATURES
    MaxInFlight,     \* requests served at once (1: one after the other)
    MaxClock,        \* bound on the clock
    MaxFaults        \* bound on lost connections and killed handlers

VARIABLES
    clock,           \* int(time.time())
    stake, active,   \* ownership and users.is_active
    proposals,       \* the proposals table
    votes,           \* the votes table
    audit,           \* the audit_logs table
    events,          \* what the event bus has published, in order
    pc,              \* the await each request is at
    body,            \* its parsed request body
    seen,            \* the Proposal its session loaded
    weight,          \* its local variable `weight`
    target,          \* target_vote: the row it loaded, or none
    ballots,         \* the votes it loaded for its tally
    draft,           \* the Proposal after its assignments, before the commit
    reply,           \* the response code, "" while there is none
    faults

tables   == <<proposals, votes, audit>>
session  == <<seen, weight, target, ballots, draft>>
world    == <<clock, stake, active, faults>>
requests == <<pc, body, reply>>
vars     == <<world, tables, events, requests, session>>

-----------------------------------------------------------------------------
(* Rows.                                                                   *)

NULL    == <<>>
Some(x) == <<x>>

Columns == {"status", "yes", "no", "abstain", "total", "quorum_met", "passed",
            "computed_at"}

Statuses == {"pending", "open", "closed", "cancelled"}

\* A proposal as create_proposal inserts it: open, without a result.
OpenRow ==
    [status |-> "open", yes |-> NULL, no |-> NULL, abstain |-> NULL,
     total |-> NULL, quorum_met |-> NULL, passed |-> NULL, computed_at |-> NULL]

\* No such row.
AbsentRow == [OpenRow EXCEPT !.status = "absent"]

\* Faulty variant: the verdict forgets the quorum.
ClosedRowWithoutQuorum(tally, now) ==
    [OpenRow EXCEPT !.status = "closed", !.yes = Some(tally.yes), !.no = Some(tally.no),
                    !.abstain = Some(tally.abstain), !.total = Some(tally.total),
                    !.quorum_met = Some(tally.quorum_met),
                    !.passed = Some(tally.yes > tally.no), !.computed_at = Some(now)]

\* The assignments of close_and_compute.
ClosedRow(tally, now) ==
    [status |-> "closed", yes |-> Some(tally.yes), no |-> Some(tally.no),
     abstain |-> Some(tally.abstain), total |-> Some(tally.total),
     quorum_met |-> Some(tally.quorum_met), passed |-> Some(tally.passed),
     computed_at |-> Some(now)]

\* The UPDATE of a flush names only the columns whose assigned value differs from
\* the loaded one; the others keep what the table holds by then.
WriteChanged(stored, loaded, assigned) ==
    [c \in Columns |->
        IF assigned[c] # loaded[c] THEN assigned[c] ELSE stored[c]]

VotesOn(p) == {v \in votes : v.proposal = p}

\* The rows of voter u on proposal p: at most one if the unique constraint works.
VotesOf(p, u) == {v \in votes : v.proposal = p /\ v.voter = u}

\* Faulty variant: every delegation on p, whoever it names.
DelegatedToAnyone(p, u) == CastWeight(VotesOn(p), NoChoice)

\* sum(Vote.weight) over the delegations to u on p.
DelegatedTo(p, u) ==
    CastWeight({v \in VotesOn(p) : v.to = u}, NoChoice)

\* get_total_eligible_weight.
TotalEligible == MapThenSumSet(LAMBDA u : stake[u], Users)

\* `proposal.closes_at and now > proposal.closes_at`: zero means no deadline here.
VotingEnded(p) == ClosesAt[p] \notin {NULL, Some(0)} /\ clock > ClosesAt[p][1]

\* The scheduler's query, where zero is a deadline long past.
Overdue(p) == ClosesAt[p] # NULL /\ ClosesAt[p][1] <= clock

-----------------------------------------------------------------------------
(* Request bodies.                                                         *)

BallotOps == {"vote", "delegate"}
Closers   == {"close", "sched", "cli"}

Blank(op, p) ==
    [op |-> op, proposal |-> p, voter |-> NoOne, to |-> NoOne,
     choice |-> NoChoice, status |-> "open", creator |-> "none", entity |-> "known",
     signed |-> FALSE]

\* VoteCast; the approve and reject actions arrive as the choices YES and NO.
VoteBody(p, u, c)     == [Blank("vote", p) EXCEPT !.voter = u, !.to = u, !.choice = c]
SignedBody(p, u, c)   == [VoteBody(p, u, c) EXCEPT !.signed = TRUE]
DelegateBody(p, u, t) == [Blank("delegate", p) EXCEPT !.voter = u, !.to = t]
StatusBody(p, s)      == [Blank("status", p) EXCEPT !.status = s]
CreateBody(p, who)    == [Blank("create", p) EXCEPT !.creator = who]
\* Bodies that name an unknown entity, or a type or threshold that is none.
StrayBody(p)          == [CreateBody(p, "known") EXCEPT !.entity = "unknown"]
UntypedBody(p)        == [CreateBody(p, "known") EXCEPT !.choice = "INVALID"]
CloseBody(p)          == Blank("close", p)
SchedBody(p)          == Blank("sched", p)
CliBody(p)            == Blank("cli", p)

\* What an idle request carries.
NoBody == [op |-> "none"]

BodyShape ==
    [op : BallotOps \cup Closers \cup {"status", "create"},
     proposal : Proposals, voter : Users \cup {NoOne}, to : Users \cup {NoOne},
     choice : VoteChoice \cup {NoChoice, "INVALID"},
     status : Statuses \cup {"INVALID"},
     creator : {"known", "unknown", "none"}, entity : {"known", "unknown"},
     signed : BOOLEAN]

ASSUME GovernanceAssumption ==
    /\ IsFiniteSet(Requests)
    /\ Bodies \subseteq BodyShape
    /\ \A b \in Bodies :
        /\ b.op \in BallotOps => b.voter \in Users /\ b.to \in Users
        /\ b.op = "vote" => b.to = b.voter
        /\ b.op = "delegate" => b.choice = NoChoice
    /\ Existing \subseteq Proposals
    /\ RuleOf \in [Proposals -> Rules]
    /\ DOMAIN ClosesAt = Proposals
    /\ InitialStake \in [Users -> Nat]
    /\ Trades \subseteq Users \X Nat
    /\ Leavers \subseteq Users
    /\ RequireSignatures \in BOOLEAN
    /\ MaxInFlight \in Nat /\ MaxClock \in Nat /\ MaxFaults \in Nat

-----------------------------------------------------------------------------
(* Where the requests are.                                                 *)

InFlight == {r \in Requests : pc[r] \notin {"idle", "done"}}

At(r, label)   == pc[r] = label
Goto(r, label) == pc' = [pc EXCEPT ![r] = label] /\ UNCHANGED <<body, reply>>

\* The request ends with a response; an HTTPException rolls its session back.
Respond(r, code) ==
    /\ pc' = [pc EXCEPT ![r] = "done"]
    /\ reply' = [reply EXCEPT ![r] = code]
    /\ UNCHANGED body

Proposal(r) == body[r].proposal

\* Faulty variant: locks outlive the transaction.
NeverReleased(r) == pc[r] \in {"Publish", "Commit", "done"}

\* Flushed, not yet committed.
Uncommitted(r) == pc[r] \in {"Publish", "Commit"}

\* Request q holds the unique key of the vote of u on p.
HoldsVoteKey(q, p, u) ==
    /\ Uncommitted(q)
    /\ body[q].op \in BallotOps /\ body[q].proposal = p /\ body[q].voter = u

\* Request q holds the primary key of proposal p.
HoldsProposalKey(q, p) ==
    Uncommitted(q) /\ body[q].op = "create" /\ body[q].proposal = p

\* Faulty variant: an UPDATE locks nothing.
NoRowLock(q, p) == FALSE

\* Request q has updated the row of proposal p and not committed.
HoldsProposalRow(q, p) ==
    /\ Uncommitted(q) /\ draft[q] # seen[q]
    /\ body[q].op \in Closers \cup {"status"} /\ body[q].proposal = p

\* Request q has boosted vote v and not committed.
HoldsVoteRow(q, v) ==
    /\ Uncommitted(q) \/ At(q, "Insert")
    /\ body[q].op = "delegate" /\ \E t \in target[q] : t.id = v.id

\* The requests r may have to wait for.
Others(r) == Requests \ {r}

-----------------------------------------------------------------------------
(* Every handler begins with the row of the proposal.                      *)

\* A request arrives; the scheduler's scan has found its proposal overdue.
Receive(r) ==
    /\ At(r, "idle")
    /\ Cardinality(InFlight) < MaxInFlight
    /\ \E b \in Bodies :
        /\ b.op = "sched" =>
            proposals[b.proposal].status = "open" /\ Overdue(b.proposal)
        /\ body' = [body EXCEPT ![r] = b]
        /\ pc' = [pc EXCEPT ![r] =
                    IF b.op = "create" THEN "CheckId" ELSE "ReadProposal"]
    /\ UNCHANGED <<world, tables, events, reply, session>>

\* Faulty variant: the status is not looked at.
AdmitsAny(b, row) == TRUE

\* The status test each handler makes once, right after loading the proposal.
Admits(b, row) ==
    CASE b.op \in BallotOps -> row.status = "open" /\ ~VotingEnded(b.proposal)
      [] b.op = "close" -> row.status \notin {"closed", "cancelled"}
      [] b.op \in {"sched", "cli"} -> row.status = "open"
      [] b.op = "status" -> b.status # "INVALID"

\* db.get(Proposal, ...) and the early returns that depend on it.
ReadProposal(r) ==
    LET row == proposals[Proposal(r)]
        b   == body[r]
    IN
    /\ At(r, "ReadProposal")
    /\ \/ /\ row.status = "absent"
          /\ Respond(r, "404")
          /\ UNCHANGED <<seen, draft>>
       \/ /\ row.status # "absent" /\ ~Admits(b, row)
          /\ Respond(r, IF b.op = "status" THEN "422" ELSE "409")
          /\ UNCHANGED <<seen, draft>>
       \/ /\ row.status # "absent" /\ Admits(b, row)
          /\ seen' = [seen EXCEPT ![r] = row]
          /\ draft' = [draft EXCEPT ![r] =
                IF b.op = "status" THEN [row EXCEPT !.status = b.status] ELSE row]
          /\ Goto(r, CASE b.op \in BallotOps -> "ReadVoter"
                       [] b.op \in Closers   -> "ReadBallots"
                       [] b.op = "status"    -> "Flush")
    /\ UNCHANGED <<world, tables, events, weight, target, ballots>>

-----------------------------------------------------------------------------
(* cast_vote.                                                              *)

ReadVoter(r) ==
    /\ At(r, "ReadVoter")
    /\ \/ body[r].voter \notin active /\ Respond(r, "404")
       \/ body[r].voter \in active /\ Goto(r, "CheckDuplicate")
    /\ UNCHANGED <<world, tables, events, session>>

CheckDuplicate(r) ==
    LET existing == VotesOf(Proposal(r), body[r].voter) IN
    /\ At(r, "CheckDuplicate")
    /\ \/ existing # {} /\ Respond(r, "409")
       \/ existing = {} /\ Goto(r, "ReadStake")
    /\ UNCHANGED <<world, tables, events, session>>

\* get_voter_weight.
ReadStake(r) ==
    LET own == stake[body[r].voter] IN
    /\ At(r, "ReadStake")
    /\ \/ own <= 0 /\ Respond(r, "403") /\ UNCHANGED weight
       \/ /\ own > 0
          /\ weight' = [weight EXCEPT ![r] = own]
          /\ Goto(r, IF body[r].op = "delegate" THEN "ReadTarget"
                                                ELSE "SumDelegated")
    /\ UNCHANGED <<world, tables, events, seen, target, ballots, draft>>

ReadTarget(r) ==
    LET b == body[r] IN
    /\ At(r, "ReadTarget")
    /\ \/ b.to \notin active /\ Respond(r, "404")
       \/ b.to \in active /\ b.to = b.voter /\ Respond(r, "422")
       \/ b.to \in active /\ b.to # b.voter /\ Goto(r, "ReadTargetVote")
    /\ UNCHANGED <<world, tables, events, session>>

\* The vote the target has already cast or delegated, if any.
ReadTargetVote(r) ==
    LET rows == VotesOf(Proposal(r), body[r].to) IN
    /\ At(r, "ReadTargetVote")
    /\ target' = [target EXCEPT ![r] = rows]
    /\ Goto(r, IF rows = {} THEN "Insert" ELSE "Boost")
    /\ UNCHANGED <<world, tables, events, seen, weight, ballots, draft>>

\* The UPDATE of the target's row waits for its row lock; the weight it writes was
\* computed from the row read before.
Boost(r) ==
    /\ At(r, "Boost")
    /\ \A q \in Others(r) : \A v \in target[r] : ~HoldsVoteRow(q, v)
    /\ Goto(r, "Insert")
    /\ UNCHANGED <<world, tables, events, session>>

\* Delegations to the voter that are committed by now, then the signature and the
\* choice.  A signature covers the second the server read, so that a correct one
\* may fail to verify too.
SumDelegated(r) ==
    LET b == body[r] IN
    /\ At(r, "SumDelegated")
    /\ \/ /\ b.signed /\ RequireSignatures
          /\ Respond(r, "403")
          /\ UNCHANGED weight
       \/ /\ b.choice \notin VoteChoice
          /\ Respond(r, "422")
          /\ UNCHANGED weight
       \/ /\ b.choice \in VoteChoice
          /\ weight' = [weight EXCEPT ![r] = @ + DelegatedTo(Proposal(r), b.voter)]
          /\ Goto(r, "Insert")
    /\ UNCHANGED <<world, tables, events, seen, target, ballots, draft>>

\* Faulty variant: the table has no uq_vote_proposal_voter.
NoConstraint(p, u) == FALSE

\* The committed rows violate uq_vote_proposal_voter for another row of u on p.
VoteKeyTaken(p, u) == VotesOf(p, u) # {}

\* The INSERT waits while another transaction holds the key, and is an
\* IntegrityError if that transaction committed it.
InsertVote(r) ==
    LET b == body[r] IN
    /\ At(r, "Insert") /\ b.op \in BallotOps
    /\ \A q \in Others(r) : ~HoldsVoteKey(q, b.proposal, b.voter)
    /\ \/ VoteKeyTaken(b.proposal, b.voter) /\ Respond(r, "500")
       \/ ~VoteKeyTaken(b.proposal, b.voter) /\ Goto(r, "Publish")
    /\ UNCHANGED <<world, tables, events, session>>

-----------------------------------------------------------------------------
(* create_proposal.                                                        *)

\* The entity, the creator, the enumerations of the body and the identifier are looked
\* up, in this order.  Entities and users are never deleted and the enumerations are
\* fixed: only the last lookup depends on when it happens, and it is the step.
CheckId(r) ==
    LET b     == body[r]
        known == b.entity = "known" /\ b.creator # "unknown"
        typed == b.choice # "INVALID"
        free  == proposals[b.proposal].status = "absent"
    IN
    /\ At(r, "CheckId")
    /\ \/ ~known /\ Respond(r, "404")
       \/ known /\ ~typed /\ Respond(r, "422")
       \/ known /\ typed /\ ~free /\ Respond(r, "409")
       \/ known /\ typed /\ free /\ Goto(r, "Insert")
    /\ UNCHANGED <<world, tables, events, session>>

\* Without a creator_id the row refers to the all-zero user, which no table holds:
\* the foreign key of created_by fails as a duplicate identifier does.
InsertProposal(r) ==
    LET p == Proposal(r)
        valid == body[r].creator = "known" /\ proposals[p].status = "absent"
    IN
    /\ At(r, "Insert") /\ body[r].op = "create"
    /\ \A q \in Others(r) : ~HoldsProposalKey(q, p)
    /\ \/ ~valid /\ Respond(r, "500")
       \/ valid /\ Goto(r, "Publish")
    /\ UNCHANGED <<world, tables, events, session>>

-----------------------------------------------------------------------------
(* close_and_compute and update_status.                                    *)

\* tally_proposal reads the votes in one statement ...
ReadBallots(r) ==
    /\ At(r, "ReadBallots")
    /\ ballots' = [ballots EXCEPT ![r] = VotesOn(Proposal(r))]
    /\ Goto(r, "SumEligible")
    /\ UNCHANGED <<world, tables, events, seen, weight, target, draft>>

\* ... and the eligible weight in another; then the result is assigned.
SumEligible(r) ==
    LET result == Tally(ballots[r], TotalEligible, RuleOf[Proposal(r)]) IN
    /\ At(r, "SumEligible")
    /\ draft' = [draft EXCEPT ![r] = ClosedRow(result, clock)]
    /\ Goto(r, "Flush")
    /\ UNCHANGED <<world, tables, events, seen, weight, target, ballots>>

\* The UPDATE waits for the row lock; no column changed, no UPDATE.  Then
\* force_close publishes before get_db commits, the scheduler after its commit.
Flush(r) ==
    /\ At(r, "Flush")
    /\ draft[r] # seen[r] =>
        \A q \in Others(r) : ~HoldsProposalRow(q, Proposal(r))
    /\ Goto(r, IF body[r].op = "close" THEN "Publish" ELSE "Commit")
    /\ UNCHANGED <<world, tables, events, session>>

-----------------------------------------------------------------------------
(* Publishing and committing.                                              *)

EventOf(r) ==
    [event |-> CASE body[r].op = "vote"     -> "governance.vote.cast"
                 [] body[r].op = "delegate" -> "governance.vote.delegated"
                 [] body[r].op = "create"   -> "governance.proposal.created"
                 [] body[r].op \in Closers  -> "governance.result.computed",
     proposal |-> Proposal(r), source |-> r,
     result |-> IF body[r].op \in Closers THEN Some(draft[r]) ELSE NULL]

\* Faulty variant: the response is sent before the commit.
PublishAndRespond(r) ==
    /\ pc[r] = "Publish"
    /\ events' = Append(events, EventOf(r))
    /\ pc' = [pc EXCEPT ![r] = "Commit"]
    /\ reply' = [reply EXCEPT ![r] = "200"]
    /\ UNCHANGED <<world, tables, body, session>>

\* The HTTP handlers publish what they have flushed, then their commit follows; the
\* scheduler publishes what it has committed.
Publish(r) ==
    /\ pc[r] \in {"Publish", "Announce"}
    /\ events' = Append(events, EventOf(r))
    /\ Goto(r, IF pc[r] = "Publish" THEN "Commit" ELSE "done")
    /\ UNCHANGED <<world, tables, session>>

\* The row cast_vote inserts.
VoteRow(r) ==
    [id |-> r, proposal |-> Proposal(r), voter |-> body[r].voter, to |-> body[r].to,
     choice |-> body[r].choice, weight |-> weight[r]]

WithWeight(v, w) ==
    [id |-> v.id, proposal |-> v.proposal, voter |-> v.voter, to |-> v.to,
     choice |-> v.choice, weight |-> w]

\* Faulty variant: the boost is forgotten.
NotBoosted(v, r) == v

\* target_vote.weight = float(target_vote.weight) + weight
Boosted(v, r) ==
    IF \E t \in target[r] : t.id = v.id
    THEN WithWeight(v, (CHOOSE t \in target[r] : t.id = v.id).weight + weight[r])
    ELSE v

\* Faulty variant: delegations are not audited.
AuditVotesOnly(r) ==
    IF body[r].op = "vote"
    THEN {[action |-> "vote.cast", proposal |-> Proposal(r), source |-> r]} ELSE {}

\* append_audit in the same transaction; the command line and update_status have none.
AuditOf(r) ==
    {[action |-> a, proposal |-> Proposal(r), source |-> r] :
        a \in CASE body[r].op = "vote"              -> {"vote.cast"}
                [] body[r].op = "delegate"          -> {"vote.delegated"}
                [] body[r].op = "create"            -> {"proposal.created"}
                [] body[r].op \in {"close", "sched"} -> {"result.computed"}
                [] OTHER                            -> {}}

StoredVotes(r) ==
    CASE body[r].op = "vote"     -> votes \cup {VoteRow(r)}
      [] body[r].op = "delegate" -> {Boosted(v, r) : v \in votes} \cup {VoteRow(r)}
      [] OTHER                   -> votes

StoredProposal(r) ==
    CASE body[r].op = "create"  -> OpenRow
      [] body[r].op \in BallotOps -> proposals[Proposal(r)]
      [] OTHER -> WriteChanged(proposals[Proposal(r)], seen[r], draft[r])

\* The writes of a transaction become visible together.
Store(r) ==
    /\ At(r, "Commit")
    /\ votes' = StoredVotes(r)
    /\ proposals' = [proposals EXCEPT ![Proposal(r)] = StoredProposal(r)]
    /\ audit' = audit \cup AuditOf(r)

Commit(r) ==
    /\ Store(r)
    /\ pc' = [pc EXCEPT ![r] = IF body[r].op = "sched" THEN "Announce" ELSE "done"]
    /\ reply' = [reply EXCEPT ![r] = "200"]
    /\ UNCHANGED <<world, events, body, session>>

-----------------------------------------------------------------------------
(* Failures and the rest of the world.                                     *)

\* The connection or the handler dies: rolled back, unless it had committed, and
\* then only the scheduler's announcement is lost.
Fail(r) ==
    /\ r \in InFlight /\ faults < MaxFaults
    /\ faults' = faults + 1
    /\ IF At(r, "Announce") THEN Goto(r, "done") ELSE Respond(r, "500")
    /\ UNCHANGED <<clock, stake, active, tables, events, session>>

\* The database commits and the connection dies before it says so.
LoseCommitReply(r) ==
    /\ faults < MaxFaults
    /\ faults' = faults + 1
    /\ Store(r)
    /\ Respond(r, "500")
    /\ UNCHANGED <<clock, stake, active, events, session>>

\* PUT /entities/ownership: its only write is one statement.
SetOwnership(u, w) ==
    /\ stake' = [stake EXCEPT ![u] = w]
    /\ UNCHANGED <<clock, active, faults, tables, events, requests, session>>

\* DELETE /users/{id}.
DeactivateUser(u) ==
    /\ active' = active \ {u}
    /\ UNCHANGED <<clock, stake, faults, tables, events, requests, session>>

Tick ==
    /\ clock < MaxClock
    /\ clock' = clock + 1
    /\ UNCHANGED <<stake, active, faults, tables, events, requests, session>>

\* The server waits for the next request.
Wait == InFlight = {} /\ UNCHANGED vars

-----------------------------------------------------------------------------
Init ==
    /\ clock = 1 /\ faults = 0
    /\ stake = InitialStake
    /\ active = Users
    /\ proposals = [p \in Proposals |-> IF p \in Existing THEN OpenRow ELSE AbsentRow]
    /\ votes = {} /\ audit = {} /\ events = <<>>
    /\ pc = [r \in Requests |-> "idle"]
    /\ body = [r \in Requests |-> NoBody]
    /\ reply = [r \in Requests |-> ""]
    /\ seen = [r \in Requests |-> AbsentRow]
    /\ draft = [r \in Requests |-> AbsentRow]
    /\ weight = [r \in Requests |-> 0]
    /\ target = [r \in Requests |-> {}]
    /\ ballots = [r \in Requests |-> {}]

\* The next step of the handler of request r.
Step(r) ==
    \/ ReadProposal(r)
    \/ ReadVoter(r) \/ CheckDuplicate(r) \/ ReadStake(r)
    \/ ReadTarget(r) \/ ReadTargetVote(r) \/ Boost(r)
    \/ SumDelegated(r) \/ InsertVote(r)
    \/ CheckId(r) \/ InsertProposal(r)
    \/ ReadBallots(r) \/ SumEligible(r) \/ Flush(r)
    \/ Publish(r) \/ Commit(r)

Next ==
    \/ \E r \in Requests : Receive(r) \/ Step(r) \/ Fail(r) \/ LoseCommitReply(r)
    \/ \E trade \in Trades : SetOwnership(trade[1], trade[2])
    \/ \E u \in Leavers : DeactivateUser(u)
    \/ Tick
    \/ Wait

Spec == Init /\ [][Next]_vars

\* The event loop runs every handler whose await has completed, and the database
\* grants every lock that has become free.
FairSpec == Spec /\ \A r \in Requests : WF_vars(Step(r))

-----------------------------------------------------------------------------
(* Properties.                                                             *)

Labels ==
    {"idle", "ReadProposal", "ReadVoter", "CheckDuplicate", "ReadStake", "ReadTarget",
     "ReadTargetVote", "Boost", "SumDelegated", "CheckId", "ReadBallots",
     "SumEligible", "Flush", "Insert", "Publish", "Commit", "Announce", "done"}

Codes == {"200", "403", "404", "409", "422", "500"}

AuditActions ==
    {"vote.cast", "vote.delegated", "proposal.created", "result.computed"}

\* Types of the world, of the tables and of the requests.
TypeOK ==
    /\ clock \in Nat /\ faults \in 0 .. MaxFaults
    /\ stake \in [Users -> Nat] /\ active \subseteq Users
    /\ \A p \in Proposals :
        /\ DOMAIN proposals[p] = Columns
        /\ proposals[p].status \in Statuses \cup {"absent"}
    /\ \A v \in votes :
        /\ v.id \in Requests /\ v.proposal \in Proposals
        /\ v.voter \in Users /\ v.to \in Users
        /\ v.choice \in VoteChoice \cup {NoChoice}
    /\ audit \subseteq [action : AuditActions, proposal : Proposals, source : Requests]
    /\ pc \in [Requests -> Labels]
    /\ \A r \in Requests : body[r] \in Bodies \/ (pc[r] = "idle" /\ body[r] = NoBody)
    /\ reply \in [Requests -> Codes \cup {""}]

\* cast_vote checks for a duplicate and inserts several awaits later: a voter still
\* has at most one row per proposal.
OneVotePerVoter ==
    \A v, w \in votes : v.proposal = w.proposal /\ v.voter = w.voter => v = w

\* Whatever the order in which delegates and their targets vote, the weight counted
\* on a proposal never exceeds the stakes of those who voted or delegated on it.
NoDoubleCount ==
    \A p \in Proposals :
        MapThenSumSet(LAMBDA c : CastWeight(VotesOn(p), c), VoteChoice)
            <= MapThenSumSet(LAMBDA u : InitialStake[u], {v.voter : v \in VotesOn(p)})

\* The audit trail and the tables agree row by row at every instant, also when
\* handlers die between two statements: append_audit shares its transaction.
AuditMatchesTables ==
    /\ \A v \in votes : \E a \in audit :
        /\ a.source = v.id /\ a.proposal = v.proposal
        /\ a.action = IF v.choice = NoChoice THEN "vote.delegated" ELSE "vote.cast"
    /\ \A a \in audit :
        a.action \in {"vote.cast", "vote.delegated"} => \E v \in votes : v.id = a.source
    /\ \A p \in Proposals : proposals[p].computed_at # NULL =>
        \E a \in audit : a.action = "result.computed" /\ a.proposal = p

\* When no handler is running and none has died, exactly one event was published for
\* each audited operation, although the HTTP handlers publish before their commit.
EventsMatchAudit ==
    InFlight = {} /\ faults = 0 =>
        /\ {events[i].source : i \in DOMAIN events} = {a.source : a \in audit}
        /\ Len(events) = Cardinality(audit)

\* A stored result obeys the rules of the decision engine by itself: its total is the
\* sum of its parts, and it passed only with quorum and over its threshold.
StoredResultObeysRules ==
    \A p \in Proposals :
        LET row == proposals[p] IN
        row.computed_at # NULL =>
            /\ row.total = Some(row.yes[1] + row.no[1] + row.abstain[1])
            /\ row.passed = Some(/\ row.quorum_met[1]
                                 /\ ClearsThreshold(row.yes[1], row.no[1], RuleOf[p]))

ResultEvents(p) ==
    {i \in DOMAIN events : events[i].proposal = p /\ events[i].result # NULL}

\* Subscribers that keep the last result event of a proposal end up with the stored
\* result, even when two force_close calls overlapped: the row lock is held from the
\* UPDATE over the publication to the commit.
LastResultEventIsStored ==
    InFlight = {} /\ faults = 0 =>
        \A p \in Proposals : ResultEvents(p) # {} =>
            events[Max(ResultEvents(p))].result = Some(proposals[p])

\* What a client was told has happened is in the tables, whatever fails later.
AcknowledgedIsStored ==
    \A r \in Requests : reply[r] = "200" =>
        CASE body[r].op \in BallotOps -> \E v \in votes : v.id = r
          [] body[r].op \in Closers   -> proposals[Proposal(r)].computed_at # NULL
          [] OTHER                    -> proposals[Proposal(r)].status # "absent"

\* "Aggregate all cast votes": a closed result counts every vote on the proposal.
AllVotesCounted ==
    \A p \in Proposals :
        proposals[p].status = "closed" /\ proposals[p].computed_at # NULL =>
            /\ proposals[p].yes = Some(CastWeight(VotesOn(p), "YES"))
            /\ proposals[p].no = Some(CastWeight(VotesOn(p), "NO"))
            /\ proposals[p].abstain = Some(CastWeight(VotesOn(p), "ABSTAIN"))

\* A direct vote weighs at least the stakes of the voter and of everybody whose
\* accepted delegation names that voter, in whichever order they arrived.
DirectDelegationCounted ==
    \A v \in votes : v.choice # NoChoice =>
        LET behind == {d.voter : d \in {e \in VotesOn(v.proposal) : e.to = v.voter}}
        IN  v.weight >= MapThenSumSet(LAMBDA u : InitialStake[u], behind)

\* "Proposal is already closed.": of the calls that close a proposal, one succeeds.
ClosedOnce ==
    \A r, q \in Requests :
        /\ body[r].op \in Closers /\ reply[r] = "200"
        /\ body[q].op \in Closers /\ reply[q] = "200"
        /\ Proposal(r) = Proposal(q)
        => r = q

\* Nobody waits for ever: row locks and unique keys are taken in an order that
\* cannot deadlock, and every holder lets go.
RequestsTerminate ==
    \A r \in Requests : (r \in InFlight) ~> At(r, "done")

\* What voters see of a stored vote.
Ballot(v) == [proposal |-> v.proposal, voter |-> v.voter, to |-> v.to, choice |-> v.choice]

\* The tables are a register of ballots in the sense of BallotRegister; ballots may come
\* late only if requests overlap.
Register == INSTANCE BallotRegister WITH
    status <- [p \in Proposals |-> proposals[p].status],
    ballots <- {Ballot(v) : v \in votes},
    LateBallots <- MaxInFlight > 1
RegisterSpec == Register!Spec

=============================================================================
