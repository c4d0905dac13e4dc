------------------------------ MODULE MCGitSync ------------------------------
(* Instances of GitSync.                                                   *)
EXTENDS GitSync

CONSTANTS d1, d2, r1, r2, none

OneOwn   == {d1}
TwoOwn   == {d1, d2}
OneOther == {r1}
TwoOther == {r1, r2}

\* The device's edits are alike.
Alike == Permutations(TwoOwn)

\* Two of the exceptions at once are not followed.
OneLoss == Cardinality({i \in 1..3 : <<cut, clash, stale>>[i]}) <= 1
=============================================================================
