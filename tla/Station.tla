------------------------------- MODULE Station -------------------------------
(***************************************************************************)
(* What the WiFi station promises the screens: an attempt that was begun   *)
(* goes on until one message says how it ended, or the screens call it     *)
(* off.  A message of an attempt they called off may still come.           *)
(***************************************************************************)
EXTENDS Naturals, Sequences

VARIABLES
    radio,      \* "off", "idle", "trying" or "up"
    asked,      \* how many calls the screens have made
    posts       \* the messages posted to them, in order

vars == <<radio, asked, posts>>

Init == radio = "off" /\ asked = 0 /\ posts = <<>>

Posts(m) == posts' = Append(posts, m) /\ UNCHANGED asked
Call     == asked' = asked + 1 /\ UNCHANGED posts

\* A late message may have left its name behind when the radio is switched on.
TurnOn  == Call /\ radio = "off" /\ radio' \in {"idle", "up"}
TurnOff == Call /\ radio' = "off"
Begin   == Call /\ radio' = "trying"
Leave   == Call /\ radio # "off" /\ radio' = "idle"
Nothing == Call /\ UNCHANGED radio

\* A call that cannot begin an attempt says so.
Refuse == asked' = asked + 1 /\ posts' = Append(posts, "FAIL") /\ UNCHANGED radio

Succeed == radio = "trying" /\ radio' = "up" /\ Posts("OK")
GiveUp  == radio = "trying" /\ radio' = "idle" /\ Posts("FAIL")
Lose    == radio = "up" /\ radio' = "idle" /\ UNCHANGED <<asked, posts>>

\* Of an attempt that was called off.
LateOk   == radio' \in {radio, IF radio = "idle" THEN "up" ELSE radio} /\ Posts("OK")
LateFail == radio # "trying" /\ UNCHANGED radio /\ Posts("FAIL")

Next == \/ TurnOn \/ TurnOff \/ Begin \/ Leave \/ Nothing \/ Refuse
        \/ Succeed \/ GiveUp \/ Lose \/ LateOk \/ LateFail

Spec == Init /\ [][Next]_vars
=============================================================================
