-------------------------- MODULE BallotCountProofs --------------------------
(***************************************************************************)
(* What the tally promises for every weight, quorum and percentage.        *)
(***************************************************************************)
EXTENDS BallotCount, TLAPS

-----------------------------------------------------------------------------
(* Arithmetic of the ratio test yes / (yes + no) against a percentage.     *)

\* A larger product of non-negative factors.
LEMMA ProductMonotone ==
    ASSUME NEW a \in Nat, NEW b \in Nat, NEW c \in Nat, a <= b
    PROVE  /\ a * c <= b * c /\ c * a <= c * b
           /\ a * c \in Nat /\ b * c \in Nat /\ c * a \in Nat /\ c * b \in Nat
<1>1. PICK d \in Nat : b = a + d
  <2>1. b - a \in Nat /\ b = a + (b - a)
    OBVIOUS
  <2> QED  BY <2>1
<1>2. /\ (a + d) * c = a * c + d * c
      /\ c * (a + d) = c * a + c * d
      /\ a * c \in Nat /\ d * c \in Nat /\ c * a \in Nat /\ c * d \in Nat
  OBVIOUS
<1> QED  BY <1>1, <1>2

\* Adding w to YES adds w * Scale on the left of the test and at most as much
\* on the right.
LEMMA RatioGrowsWithYes ==
    ASSUME NEW y \in Nat, NEW n \in Nat, NEW w \in Nat, NEW pct \in 0 .. Scale
    PROVE  /\ y * Scale > pct * (y + n) => (y + w) * Scale > pct * ((y + w) + n)
           /\ y * Scale >= pct * (y + n) => (y + w) * Scale >= pct * ((y + w) + n)
<1>1. Scale \in Nat /\ pct \in Nat /\ pct <= Scale
  BY PercentAssumption
<1>2. pct * w <= Scale * w
  BY <1>1, ProductMonotone
<1>3. /\ (y + w) * Scale = y * Scale + Scale * w
      /\ pct * ((y + w) + n) = pct * (y + n) + pct * w
      /\ y * Scale \in Nat /\ Scale * w \in Nat
      /\ pct * (y + n) \in Nat /\ pct * w \in Nat
      /\ (y + w) * Scale \in Nat /\ pct * ((y + w) + n) \in Nat
  BY <1>1
<1> QED  BY <1>2, <1>3

\* Adding w to NO leaves the left of the test and only grows the right.
LEMMA RatioFallsWithNo ==
    ASSUME NEW y \in Nat, NEW n \in Nat, NEW w \in Nat, NEW pct \in 0 .. Scale
    PROVE  /\ y * Scale > pct * (y + (n + w)) => y * Scale > pct * (y + n)
           /\ y * Scale >= pct * (y + (n + w)) => y * Scale >= pct * (y + n)
<1>1. Scale \in Nat /\ pct \in Nat
  BY PercentAssumption
<1>2. pct * (y + n) <= pct * (y + (n + w))
  <2>1. y + n \in Nat /\ y + (n + w) \in Nat /\ y + n <= y + (n + w)
    OBVIOUS
  <2> QED  BY <2>1, <1>1, ProductMonotone
<1>3. /\ pct * (y + n) \in Nat /\ pct * (y + (n + w)) \in Nat /\ y * Scale \in Nat
  BY <1>1
<1> QED  BY <1>2, <1>3

\* A larger turnout keeps a quorum that was met.
LEMMA QuorumGrows ==
    ASSUME NEW c \in Nat, NEW w \in Nat, NEW e \in Nat, NEW r \in Rules,
           QuorumMet(c, e, r)
    PROVE  QuorumMet(c + w, e, r)
<1>1. Scale \in Nat /\ r.quorum \in Nat
  BY PercentAssumption DEF Rules
<1>2. c * Scale <= (c + w) * Scale
  BY <1>1, ProductMonotone
<1>3. c * Scale \in Nat /\ (c + w) * Scale \in Nat /\ r.quorum * e \in Nat
  BY <1>1
<1> QED  BY <1>2, <1>3 DEF QuorumMet

\* The percentages the ratio is compared with are positive percentages: zero, the
\* one custom value that is not, stands for the default majority.
LEMMA PercentType ==
    /\ MajorityPct \in 1 .. Scale /\ SupermajorityPct \in 1 .. Scale
    /\ \A r \in Rules : CustomPct(r) \in 1 .. Scale
    /\ \A pct \in 1 .. Scale : pct \in 0 .. Scale /\ pct \in Nat /\ 1 <= pct
BY PercentAssumption DEF CustomPct, Rules

\* Nothing passes without a YES vote.
LEMMA ClearsNeedsYes ==
    ASSUME NEW y \in Nat, NEW n \in Nat, NEW r \in Rules, ClearsThreshold(y, n, r)
    PROVE  y > 0
<1>1. ASSUME NEW pct \in 1 .. Scale, n > 0 PROVE pct * n > 0
  <2>1. 1 * n <= pct * n
    BY PercentType, ProductMonotone
  <2> QED  BY <2>1, <1>1, PercentType
<1>2. ASSUME NEW pct \in 1 .. Scale, 0 + n > 0
      PROVE  ~ (0 * Scale > pct * (0 + n)) /\ ~ (0 * Scale >= pct * (0 + n))
  <2>1. 0 * Scale = 0 /\ 0 + n = n
    BY PercentAssumption
  <2>2. pct * n \in Nat
    BY PercentType
  <2> QED  BY <1>1, <1>2, <2>1, <2>2
<1>3. SUFFICES ASSUME y = 0 PROVE FALSE
  OBVIOUS
<1> QED  BY <1>2, <1>3, PercentType DEF ClearsThreshold

\* The threshold test under more YES and under less NO.
LEMMA ClearsMonotone ==
    ASSUME NEW y \in Nat, NEW n \in Nat, NEW w \in Nat, NEW r \in Rules
    PROVE  /\ ClearsThreshold(y, n, r) => ClearsThreshold(y + w, n, r)
           /\ ClearsThreshold(y, n + w, r) => ClearsThreshold(y, n, r)
<1>1. ASSUME ClearsThreshold(y, n, r) PROVE ClearsThreshold(y + w, n, r)
  <2>1. \A pct \in 1 .. Scale :
           /\ y * Scale > pct * (y + n) => (y + w) * Scale > pct * ((y + w) + n)
           /\ y * Scale >= pct * (y + n) => (y + w) * Scale >= pct * ((y + w) + n)
    BY PercentType, RatioGrowsWithYes
  <2>2. y + w > 0 /\ (y + n > 0 => (y + w) + n > 0)
    BY <1>1, ClearsNeedsYes
  <2>3. CASE r.threshold = "simple_majority"
    BY <1>1, <2>1, <2>2, <2>3, PercentType DEF ClearsThreshold
  <2>4. CASE r.threshold = "supermajority"
    BY <1>1, <2>1, <2>2, <2>4, PercentType DEF ClearsThreshold
  <2>5. CASE r.threshold = "unanimous"
    BY <1>1, <2>2, <2>5 DEF ClearsThreshold
  <2>6. CASE r.threshold = "custom"
    BY <1>1, <2>1, <2>2, <2>6, PercentType DEF ClearsThreshold
  <2> QED  BY <2>3, <2>4, <2>5, <2>6 DEF Rules, Thresholds
<1>2. ASSUME ClearsThreshold(y, n + w, r) PROVE ClearsThreshold(y, n, r)
  <2>1. \A pct \in 1 .. Scale :
           /\ y * Scale > pct * (y + (n + w)) => y * Scale > pct * (y + n)
           /\ y * Scale >= pct * (y + (n + w)) => y * Scale >= pct * (y + n)
    BY PercentType, RatioFallsWithNo
  <2>2. y > 0 /\ y + n > 0
    BY <1>2, ClearsNeedsYes
  <2>3. CASE r.threshold = "simple_majority"
    BY <1>2, <2>1, <2>2, <2>3, PercentType DEF ClearsThreshold
  <2>4. CASE r.threshold = "supermajority"
    BY <1>2, <2>1, <2>2, <2>4, PercentType DEF ClearsThreshold
  <2>5. CASE r.threshold = "unanimous"
    BY <1>2, <2>2, <2>5 DEF ClearsThreshold
  <2>6. CASE r.threshold = "custom"
    BY <1>2, <2>1, <2>2, <2>6, PercentType DEF ClearsThreshold
  <2> QED  BY <2>3, <2>4, <2>5, <2>6 DEF Rules, Thresholds
<1> QED  BY <1>1, <1>2

-----------------------------------------------------------------------------
(* The theorems of the counting process.                                   *)

\* The weights stay natural numbers and the rule a legal one, for every
\* electorate and every ballot: the typing the other proofs rest on.
THEOREM CountTypeCorrect == Spec => []TypeOK
<1>1. Init => TypeOK
  BY DEF Init, TypeOK
<1>2. TypeOK /\ [Next]_vars => TypeOK'
  BY CountAssumption
  DEF TypeOK, Next, CastYes, CastNo, CastAbstain, ChangeElectorate, vars
<1> QED  BY <1>1, <1>2, PTL DEF Spec

\* The rule and the electorate of a well-typed state.
LEMMA RunTypes == TypeOK => rule \in Rules /\ eligible \in Nat
BY CountAssumption DEF TypeOK

\* More YES never turns a pass into a failure, whatever the threshold type, the
\* quorum and the electorate (decision_engine.py, tally_proposal).
THEOREM YesNeverHurtsHolds == Spec => YesNeverHurts
<1>1. TypeOK /\ [Next]_vars => [yes' > yes => (Outcome => Outcome')]_vars
  <2>1. SUFFICES ASSUME TypeOK, Next, yes' > yes, Outcome PROVE Outcome'
    OBVIOUS
  <2>2. PICK w \in Ballots : CastYes(w)
    BY <2>1 DEF Next, CastNo, CastAbstain, ChangeElectorate, TypeOK
  <2>3. w \in Nat
    BY CountAssumption
  <2>4. ClearsThreshold(yes + w, no, rule)
    BY <2>1, <2>3, RunTypes, ClearsMonotone DEF Outcome, Passed, TypeOK
  <2>5. QuorumMet((yes + no + abstain) + w, eligible, rule)
    <3>1. yes + no + abstain \in Nat
      BY <2>1 DEF TypeOK
    <3> QED  BY <2>1, <2>3, <3>1, RunTypes, QuorumGrows DEF Outcome, Passed
  <2>6. (yes + w) + no + abstain = (yes + no + abstain) + w
    BY <2>1, <2>3 DEF TypeOK
  <2> QED  BY <2>2, <2>4, <2>5, <2>6 DEF Outcome, Passed, CastYes
<1> QED  BY <1>1, CountTypeCorrect, PTL DEF Spec, YesNeverHurts

\* Once quorum is met, more NO never turns a failure into a pass.
THEOREM NoHelpsOnlyThroughQuorumHolds == Spec => NoHelpsOnlyThroughQuorum
<1>1. TypeOK /\ [Next]_vars => [no' > no /\ Quorum => (Outcome' => Outcome)]_vars
  <2>1. SUFFICES ASSUME TypeOK, Next, no' > no, Quorum, Outcome' PROVE Outcome
    OBVIOUS
  <2>2. PICK w \in Ballots : CastNo(w)
    BY <2>1 DEF Next, CastYes, CastAbstain, ChangeElectorate, TypeOK
  <2>3. w \in Nat
    BY CountAssumption
  <2>4. ClearsThreshold(yes, no + w, rule)
    BY <2>1, <2>2 DEF Outcome, Passed, CastNo
  <2>5. ClearsThreshold(yes, no, rule)
    BY <2>1, <2>3, <2>4, RunTypes, ClearsMonotone DEF TypeOK
  <2> QED  BY <2>1, <2>5 DEF Outcome, Passed, Quorum
<1> QED  BY <1>1, CountTypeCorrect, PTL DEF Spec, NoHelpsOnlyThroughQuorum

\* Once quorum is met an abstention changes nothing (README: abstentions count
\* toward quorum but are excluded from the ratio).
THEOREM AbstentionOnlyThroughQuorumHolds == Spec => AbstentionOnlyThroughQuorum
<1>1. TypeOK /\ [Next]_vars =>
        [abstain' > abstain /\ Quorum => (Outcome' <=> Outcome)]_vars
  <2>1. SUFFICES ASSUME TypeOK, Next, abstain' > abstain, Quorum
                 PROVE  Outcome' <=> Outcome
    OBVIOUS
  <2>2. PICK w \in Ballots : CastAbstain(w)
    BY <2>1 DEF Next, CastYes, CastNo, ChangeElectorate, TypeOK
  <2>3. w \in Nat /\ yes + no + abstain \in Nat
    BY <2>1, CountAssumption DEF TypeOK
  <2>4. QuorumMet((yes + no + abstain) + w, eligible, rule)
    BY <2>1, <2>3, RunTypes, QuorumGrows DEF Quorum
  <2>5. yes + no + (abstain + w) = (yes + no + abstain) + w
    BY <2>1, <2>3 DEF TypeOK
  <2> QED  BY <2>1, <2>2, <2>4, <2>5 DEF Outcome, Passed, Quorum, CastAbstain
<1> QED  BY <1>1, CountTypeCorrect, PTL DEF Spec, AbstentionOnlyThroughQuorum

\* A percentage reached is a smaller percentage exceeded.
LEMMA SmallerPercentExceeded ==
    ASSUME NEW y \in Nat, NEW n \in Nat, NEW lo \in Nat, NEW hi \in Nat,
           lo < hi, y + n > 0, y * Scale >= hi * (y + n)
    PROVE  y * Scale > lo * (y + n)
<1>1. lo + 1 \in Nat /\ lo + 1 <= hi /\ y + n \in Nat
  OBVIOUS
<1>2. (lo + 1) * (y + n) <= hi * (y + n)
  BY <1>1, ProductMonotone
<1>3. /\ (lo + 1) * (y + n) = lo * (y + n) + (y + n)
      /\ lo * (y + n) \in Nat /\ hi * (y + n) \in Nat /\ y * Scale \in Nat
  BY PercentAssumption
<1> QED  BY <1>1, <1>2, <1>3

\* The threshold types are ordered by strictness for every configuration in which
\* DEFAULT_MAJORITY_PCT < DEFAULT_SUPERMAJORITY_PCT.
THEOREM ThresholdOrderHolds == Spec => []ThresholdOrder
<1>1. TypeOK => ThresholdOrder
  <2> SUFFICES ASSUME TypeOK PROVE ThresholdOrder
    OBVIOUS
  <2>1. rule \in Rules /\ yes \in Nat /\ no \in Nat
    BY RunTypes DEF TypeOK
  <2> DEFINE R(t) == [rule EXCEPT !.threshold = t]
  <2>2. \A t \in Thresholds :
           /\ R(t).threshold = t
           /\ \A c : QuorumMet(c, eligible, R(t)) <=> QuorumMet(c, eligible, rule)
    BY <2>1 DEF QuorumMet, Rules
  <2>3. ASSUME ClearsThreshold(yes, no, R("unanimous"))
        PROVE  ClearsThreshold(yes, no, R("supermajority"))
    <3>1. no = 0 /\ yes > 0
      BY <2>2, <2>3 DEF ClearsThreshold, Thresholds
    <3>2. SupermajorityPct * yes <= Scale * yes
      BY <2>1, PercentAssumption, PercentType, ProductMonotone
    <3>3. Scale * yes = yes * Scale /\ yes + no = yes
      BY <2>1, <3>1, PercentAssumption
    <3>4. yes * Scale \in Nat /\ SupermajorityPct * yes \in Nat
      BY <2>1, PercentAssumption, PercentType
    <3> QED  BY <2>1, <2>2, <3>1, <3>2, <3>3, <3>4 DEF ClearsThreshold, Thresholds
  <2>4. ASSUME ClearsThreshold(yes, no, R("supermajority"))
        PROVE  ClearsThreshold(yes, no, R("simple_majority"))
    <3>1. yes + no > 0 /\ yes * Scale >= SupermajorityPct * (yes + no)
      BY <2>2, <2>4 DEF ClearsThreshold, Thresholds
    <3>2. yes * Scale > MajorityPct * (yes + no)
      BY <2>1, <3>1, PercentAssumption, SmallerPercentExceeded
    <3> QED  BY <2>2, <3>1, <3>2 DEF ClearsThreshold, Thresholds
  <2> QED  BY <2>2, <2>3, <2>4 DEF ThresholdOrder, OutcomeUnder, Passed, Thresholds
<1> QED  BY <1>1, CountTypeCorrect, PTL

\* A custom proposal that met its quorum passes exactly at custom_threshold_pct, for
\* every percentage but zero.
THEOREM CustomThresholdHolds ==
    ASSUME \A r \in RunRules : r.threshold = "custom" => r.custom # 0
    PROVE  Spec => []CustomThresholdRespected
<1>1. TypeOK => CustomThresholdRespected
  BY DEF TypeOK, CustomThresholdRespected, Outcome, Quorum, Passed, ClearsThreshold, CustomPct
<1> QED  BY <1>1, CountTypeCorrect, PTL

=============================================================================
