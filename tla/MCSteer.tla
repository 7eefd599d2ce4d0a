------------------------------- MODULE MCSteer -----------------------------
(***************************************************************************)
(* The two kinds of steering commands, one after the other: a behaviour is *)
(* one of the kind its first state names.  Torques and angles of a few     *)
(* units, angles with two samples of each kind and with Ford's limits,     *)
(* which have all the checks.                                              *)
(***************************************************************************)
EXTENDS SteerTorque, SteerAngle

VARIABLE kind

Asked == -(max_steer + 1) .. max_steer + 1
Driver == {-4, 0, 4}

\* Rates of 3, 2, 2 and 1: the slow and the fast ones differ at both speeds.
Slower == [v \in -1 .. MaxSpeed + 1 |-> (5 - v) \div 2]
Ford == [max_steer |-> 5, max_angle_error |-> 1, angle_error_min_speed |-> 0,
         enforce_angle_error |-> TRUE, inactive_angle_is_zero |-> TRUE]
MeasuredAngles == {-6, 0, 6}
AskedAngles == -7 .. 7

steerVars == <<kind, vars, angleVars>>

SteerInit == Init /\ AngleInit /\ kind \in {"torque", "angle"}

SteerNext ==
    /\ UNCHANGED kind
    /\ \/ kind = "torque" /\ Next /\ UNCHANGED angleVars
       \/ kind = "angle" /\ AngleNext /\ UNCHANGED vars

SteerSpec == SteerInit /\ [][SteerNext]_steerVars
=============================================================================
