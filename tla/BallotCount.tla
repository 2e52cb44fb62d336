----------------------------- MODULE BallotCount -----------------------------
(***************************************************************************)
(* The tally of one proposal while ballots keep arriving.  tally_proposal  *)
(* may be called after any of them, so its outcome is a state function and *)
(* its promises are about how the outcome may move from ballot to ballot.  *)
(***************************************************************************)
EXTENDS DecisionEngine

CONSTANTS
    RunRules,      \* the rules the proposal may have been created with
    Electorates,   \* the eligible weights the entity may have
    Ballots,       \* the weights one ballot may carry
    MaxCast        \* bound on the weight cast

ASSUME CountAssumption ==
    /\ RunRules \subseteq Rules
    /\ Electorates \subseteq Nat
    /\ Ballots \subseteq Nat \ {0}
    /\ MaxCast \in Nat

VARIABLES rule, eligible, yes, no, abstain

vars == <<rule, eligible, yes, no, abstain>>

Outcome == Passed(yes, no, abstain, eligible, rule)
Quorum  == QuorumMet(yes + no + abstain, eligible, rule)

Init ==
    /\ rule \in RunRules
    /\ eligible \in Electorates
    /\ yes = 0 /\ no = 0 /\ abstain = 0

Room(w) == yes + no + abstain + w <= MaxCast

CastYes(w) ==
    /\ Room(w)
    /\ yes' = yes + w
    /\ UNCHANGED <<rule, eligible, no, abstain>>

CastNo(w) ==
    /\ Room(w)
    /\ no' = no + w
    /\ UNCHANGED <<rule, eligible, yes, abstain>>

CastAbstain(w) ==
    /\ Room(w)
    /\ abstain' = abstain + w
    /\ UNCHANGED <<rule, eligible, yes, no>>

\* PUT /entities/ownership between two tallies.
ChangeElectorate ==
    /\ eligible' \in Electorates \ {eligible}
    /\ UNCHANGED <<rule, yes, no, abstain>>

Next ==
    \/ \E w \in Ballots : CastYes(w) \/ CastNo(w) \/ CastAbstain(w)
    \/ ChangeElectorate

Spec == Init /\ [][Next]_vars

-----------------------------------------------------------------------------
\* The state is made of weights and of a rule the schema accepts.
TypeOK ==
    /\ rule \in RunRules
    /\ eligible \in Electorates
    /\ yes \in Nat /\ no \in Nat /\ abstain \in Nat

\* Another YES ballot never turns a passing proposal into a failing one: the
\* ratio of tally_proposal and its participation both grow with it.
YesNeverHurts == [][yes' > yes => (Outcome => Outcome')]_vars

\* A NO ballot can help a proposal pass only by completing its quorum; once
\* quorum is met, NO never turns a failing proposal into a passing one.
NoHelpsOnlyThroughQuorum ==
    [][no' > no /\ Quorum => (Outcome' => Outcome)]_vars

\* Abstentions count toward quorum but are excluded from the ratio: once quorum
\* is met an abstention changes nothing.
AbstentionOnlyThroughQuorum ==
    [][abstain' > abstain /\ Quorum => (Outcome' <=> Outcome)]_vars

\* The outcome the same ballots would have under another threshold type.
OutcomeUnder(type) ==
    Passed(yes, no, abstain, eligible, [rule EXCEPT !.threshold = type])

\* The threshold types are ordered by strictness: what passes unanimously
\* passes with a supermajority, and what passes with a supermajority passes
\* with a simple majority, although one comparison is strict and one is not.  This is of
\* the code, in which nothing passes without a YES.  By the rule of the README, "no_weight
\* == 0" (README.md:177), ballots that all abstain would pass unanimously and in no other
\* way, and the order would not hold.
ThresholdOrder ==
    /\ OutcomeUnder("unanimous") => OutcomeUnder("supermajority")
    /\ OutcomeUnder("supermajority") => OutcomeUnder("simple_majority")

\* README, "Threshold types": a custom proposal that met its quorum passes
\* exactly when YES reaches custom_threshold_pct of YES + NO.  (Not with a custom
\* threshold of zero, which the code takes for absent.)
CustomThresholdRespected ==
    rule.threshold = "custom" /\ Quorum /\ yes + no > 0 =>
        (Outcome <=> yes * Scale >= rule.custom * (yes + no))

=============================================================================
