---------------------------- MODULE MCCanDriver ----------------------------
(* Two buses for CanDriver.                                                *)
EXTENDS CanDriver, TLC

CONSTANTS powertrain, camera

TwoBuses == {powertrain, camera}
Apart == [b \in TwoBuses |-> {}]
Forwarding == (powertrain :> {camera}) @@ (camera :> {powertrain})
\* The two buses forward to each other: nothing tells them apart.
Turned == Permutations(TwoBuses)

OneBus == {powertrain}
Alone == [b \in OneBus |-> {}]
=============================================================================
