---------------------------- MODULE MCGovernance ----------------------------
(* Instances of Governance for TLC.                                         *)
EXTENDS Governance, TLC

CONSTANTS r1, r2, r3, r4, ann, bob, cid, p1, p2

Rule(type, quorum) == [threshold |-> type, custom |-> 1, quorum |-> quorum]

MCRuleOf == [p \in Proposals |-> Rule("simple_majority", 5100)]
NoDeadline == [p \in Proposals |-> NULL]
\* Due when the clock starts; voting ends one second later.
DueAtOnce == [p \in Proposals |-> Some(1)]

\* Stakes whose sums tell who was counted.
MCStake == [u \in Users |-> CASE u = ann -> 4 [] u = bob -> 2 [] OTHER -> 1]

Symmetric == Permutations(Requests)

\* Everybody may vote, or delegate to anybody else.
BallotBodies ==
    {VoteBody(p1, u, "YES") : u \in Users}
    \cup {DelegateBody(p1, u, t) : u \in Users, t \in Users}

ConcurrentBodies == BallotBodies \cup {CloseBody(p1)}

\* Serial runs: all ways to close, a deadline at second 1, two sides to vote for, a
\* second proposal that is yet to be created, and every way to be refused.
SerialBodies ==
    {VoteBody(p1, ann, "YES"), VoteBody(p1, bob, "NO"), VoteBody(p1, cid, "ABSTAIN"),
     DelegateBody(p1, bob, ann), DelegateBody(p1, cid, bob), DelegateBody(p1, cid, ann),
     CloseBody(p1), SchedBody(p1), CliBody(p1),
     SignedBody(p1, ann, "NO"), VoteBody(p2, bob, "INVALID"), DelegateBody(p1, bob, bob),
     StatusBody(p1, "cancelled"), StatusBody(p2, "INVALID"),
     CreateBody(p2, "known"), CreateBody(p2, "unknown"), CreateBody(p2, "none"),
     StrayBody(p2), UntypedBody(p2)}

\* Handlers that die: everything that is audited, and a status update.
FaultBodies ==
    {VoteBody(p1, ann, "YES"), DelegateBody(p1, bob, ann), SchedBody(p1),
     StatusBody(p1, "open")}

\* bob sells everything while requests are running.
Sale == {<<bob, 0>>}
=============================================================================
