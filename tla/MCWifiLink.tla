----------------------------- MODULE MCWifiLink -----------------------------
(* Instances of WifiLink.                                                  *)
EXTENDS WifiLink

CONSTANTS home, cafe, none

TwoNetworks == {home, cafe}
LongNames   == {cafe}
=============================================================================
