------------------------------ MODULE MCModes ------------------------------
(* A car with a stock AEB of its own, a Honda Nidec, for Modes alone: who   *)
(* brakes when the camera and the host both ask for it.                     *)
EXTENDS Modes
=============================================================================
