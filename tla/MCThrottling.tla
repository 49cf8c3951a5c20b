---------------------------- MODULE MCThrottling ----------------------------
(***************************************************************************)
(* Small instances of Throttling.                                           *)
(***************************************************************************)
EXTENDS Throttling, TLC

CONSTANTS alice, bob, w1, w2, anon, burst, sustained, list, detail

\* One view behind two rates, of which a redeploy may change how many requests one
\* allows; another one behind AnonRateThrottle, which leaves users alone.
UserAndAnon == [v \in Views |-> IF v = list THEN <<burst, sustained>> ELSE <<anon>>]
Periods == [t \in Throttles |-> IF t = sustained THEN 2 ELSE 1]
ChangingLimits == [t \in Throttles |-> IF t = sustained THEN {1, 2} ELSE {1}]
UsersAreNotAnonymous == {<<anon, alice>>}

\* Two views: one behind both throttles, one behind the sustained rate only.
TwoViews == [v \in Views |-> IF v = list THEN <<burst, sustained>> ELSE <<sustained>>]
FixedLimits == [t \in Throttles |-> IF t = burst THEN {1} ELSE {2}]
BobIsExempt == {<<t, bob>> : t \in Throttles}

Symmetry == Permutations(Workers)
=============================================================================
