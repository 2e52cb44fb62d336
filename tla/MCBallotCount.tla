---------------------------- MODULE MCBallotCount ----------------------------
(* Instances of BallotCount for TLC, with the percentages of config.py.     *)
EXTENDS BallotCount

RuleOf(type, custom, quorum) ==
    [threshold |-> type, custom |-> custom, quorum |-> quorum]

\* Quorums 0, the default 0.51 and 1; custom thresholds below, between and
\* above the built-in ones.
MCRules ==
    {RuleOf(t, c, q) : t \in Thresholds, c \in {1, 5000, 6000, 10000},
                       q \in {0, 5100, 10000}}

MCElectorates == {0, 1, 6, 9}
MCBallots == {1, 2}

=============================================================================
