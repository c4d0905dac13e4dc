------------------------------ MODULE MCFiles ------------------------------
(* Instances of Files: a project, a file beside a folder, a file in it.    *)
EXTENDS Files, TLC

CONSTANTS a, b, c, none, blank, draft, t1, t2, dir

ThreeNames == {a, b, c}
CutNames   == [n \in {a, b, c} |-> IF n = c THEN b ELSE n]
FourTexts  == {blank, draft, t1, t2}
OneTree    == {<<a>> :> dir @@ <<a, a>> :> dir @@ <<a, b>> :> t1 @@ <<a, a, c>> :> t2}
=============================================================================
