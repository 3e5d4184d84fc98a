---------------------------- MODULE MCRateLimit ----------------------------
(* Both buckets side by side; s1 and s2 spend one word each, and callers   *)
(* differ in nothing.                                                       *)
EXTENDS RateLimit, FiniteSetsExt, TLC

CONSTANTS s1, s2, s3, s4, c1, c2

MCSpenders == {s1, s2, s3, s4}
MCWords == [s \in MCSpenders |-> CASE s = s3 -> 2 [] s = s4 -> 3 [] OTHER -> 1]
MCCallers == {c1, c2}

(* Counting the units gives the sum that a fold gives.                      *)
ASSUME SumsAreFolds ==
    \A S \in SUBSET MCSpenders :
        SumOver(MCWords, S) = MapThenSumSet(LAMBDA s : MCWords[s], S)

MCSymmetry ==
    {f @@ g : f \in Permutations({s1, s2}), g \in Permutations(MCCallers)}
=============================================================================
