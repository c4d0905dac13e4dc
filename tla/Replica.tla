------------------------------- MODULE Replica -------------------------------
(* What Git Sync promises, with the git left out: two copies of a text, on *)
(* the device and on the remote, that exchange what was written on either  *)
(* side and never give anything up.                                        *)

CONSTANTS DeviceEdits, RemoteEdits

VARIABLES device, shared   \* what each copy holds
copies == <<device, shared>>

Init == device = {} /\ shared = {}

\* The device's user writes; so does somebody on another computer.
Write == \E S \in SUBSET DeviceEdits : device' = device \cup S /\ UNCHANGED shared
Contribute == \E e \in RemoteEdits : shared' = shared \cup {e} /\ UNCHANGED device

\* Either copy takes over something the other one holds.
Pull == \E S \in SUBSET shared : device' = device \cup S /\ UNCHANGED shared
Push == \E S \in SUBSET device : shared' = shared \cup S /\ UNCHANGED device

Next == Write \/ Contribute \/ Pull \/ Push

Spec == Init /\ [][Next]_copies
=============================================================================
