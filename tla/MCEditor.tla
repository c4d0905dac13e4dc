------------------------------ MODULE MCEditor ------------------------------
(* Instances of Editor.                                                    *)
EXTENDS Editor

CONSTANTS x, sp, nl, junk, one, none

ThreeChars == {x, sp, nl}
OneName    == {one}
Given == {[n \in {one} |-> t] : t \in {<<x, nl, x>>, <<x, x, sp, x>>, <<nl, x, x, x, x>>}}

\* A fact (proved in Editor_proofs) that makes TLC lay out every text once, before it starts.
ASSUME LaidOut == LineStarts \in [Texts -> Seq(0..Cap)]
=============================================================================
