--------------------------- MODULE DecisionEngine ---------------------------
(***************************************************************************)
(* The tally of services/decision_engine.py as pure operators.             *)
(*                                                                         *)
(* Percentages are integers out of Scale, so the divisions of the code     *)
(* become products: yes / (yes + no) > pct is yes * Scale > pct * (yes +   *)
(* no).  The floating point rounding of the weights is abstracted away.    *)
(***************************************************************************)
EXTENDS Integers, FiniteSetsExt

CONSTANTS
    Scale,             \* 100 percent
    MajorityPct,       \* settings.DEFAULT_MAJORITY_PCT
    SupermajorityPct   \* settings.DEFAULT_SUPERMAJORITY_PCT

ASSUME PercentAssumption ==
    /\ Scale \in Nat \ {0}
    /\ MajorityPct \in 1 .. Scale
    /\ SupermajorityPct \in (MajorityPct + 1) .. Scale

Thresholds == {"simple_majority", "supermajority", "unanimous", "custom"}

\* VoteChoice, and the NULL choice of a delegation row.
VoteChoice == {"YES", "NO", "ABSTAIN"}
NoChoice == "NULL"

\* The governance rule of a proposal: threshold_type, custom_threshold_pct and
\* quorum_pct.
Rules == [threshold : Thresholds, custom : 0 .. Scale, quorum : 0 .. Scale]

\* The Python expression `custom_threshold_pct or DEFAULT_MAJORITY_PCT`: zero is
\* falsy and gives the default.
CustomPct(rule) == IF rule.custom = 0 THEN MajorityPct ELSE rule.custom

\* Faulty variants of ClearsThreshold: the two defaults of config.py exchanged, and NO as
\* the numerator.
ClearsExchanged(yes, no, rule) ==
    /\ yes + no > 0
    /\ \/ /\ rule.threshold = "simple_majority"
          /\ yes * Scale > SupermajorityPct * (yes + no)
       \/ /\ rule.threshold # "simple_majority"
          /\ yes * Scale >= MajorityPct * (yes + no)
ClearsOnNo(yes, no, rule) == yes + no > 0 /\ no * Scale > MajorityPct * (yes + no)

\* Abstentions are outside the denominator.
ClearsThreshold(yes, no, rule) ==
    \/ /\ rule.threshold = "simple_majority"
       /\ yes + no > 0 /\ yes * Scale > MajorityPct * (yes + no)
    \/ /\ rule.threshold = "supermajority"
       /\ yes + no > 0 /\ yes * Scale >= SupermajorityPct * (yes + no)
    \/ /\ rule.threshold = "unanimous"
       /\ no = 0 /\ yes > 0
    \/ /\ rule.threshold = "custom"
       /\ yes + no > 0 /\ yes * Scale >= CustomPct(rule) * (yes + no)

\* Faulty variant: the comparison the other way round.
QuorumInverted(cast, eligible, rule) ==
    IF eligible > 0 THEN cast * Scale <= rule.quorum * eligible ELSE rule.quorum = 0

\* With nobody eligible the participation is 0.0 and only a zero quorum is met.
QuorumMet(cast, eligible, rule) ==
    IF eligible > 0 THEN cast * Scale >= rule.quorum * eligible
                    ELSE rule.quorum = 0

\* Faulty variant: abstentions dilute the ratio.
PassedDiluted(yes, no, abstain, eligible, rule) ==
    /\ QuorumMet(yes + no + abstain, eligible, rule)
    /\ ClearsThreshold(yes, no + abstain, rule)

Passed(yes, no, abstain, eligible, rule) ==
    /\ QuorumMet(yes + no + abstain, eligible, rule)
    /\ ClearsThreshold(yes, no, rule)

\* Sum of the weight column over the rows that carry a choice.
CastWeight(rows, choice) ==
    MapThenSumSet(LAMBDA v : v.weight, {v \in rows : v.choice = choice})

\* TallyResult over the vote rows of one proposal.
Tally(rows, eligible, rule) ==
    LET yes     == CastWeight(rows, "YES")
        no      == CastWeight(rows, "NO")
        abstain == CastWeight(rows, "ABSTAIN")
        quorum  == QuorumMet(yes + no + abstain, eligible, rule)
    IN  [yes |-> yes, no |-> no, abstain |-> abstain,
         total |-> yes + no + abstain, quorum_met |-> quorum,
         passed |-> quorum /\ ClearsThreshold(yes, no, rule)]

=============================================================================
