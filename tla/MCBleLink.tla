----------------------------- MODULE MCBleLink -----------------------------
(* Instances of BleLink.                                                   *)
EXTENDS BleLink, TLC

CONSTANTS k1, k2, k3, n1, n2, t1, t2, none, nameless

ThreeKeyboards == {k1, k2, k3}

\* Two show a name, the third does not.
TwoNamed       == k1 :> n1 @@ k2 :> n2 @@ k3 :> nameless

TwoTasks       == {t1, t2}

\* The two that show a name are alike: if one is saved at first, it is k1.
LinkInit == Init /\ (saved # None => saved.addr # k2)
LinkSpec == LinkInit /\ [][Next]_vars /\ Fairness
=============================================================================
