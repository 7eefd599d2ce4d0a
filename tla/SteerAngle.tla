----------------------------- MODULE SteerAngle ----------------------------
(***************************************************************************)
(* steer_angle_cmd_checks of board/safety.h, which every angle (Nissan,    *)
(* Tesla, Toyota LTA) or curvature (Ford) the host asks for passes on its  *)
(* way to the car: rate limits that depend on the speed and, for Ford, how *)
(* far the command may be from what is measured.                           *)
(*                                                                         *)
(* A command that violates a limit is dropped by the mode's tx hook.       *)
(* Angles are integers in CAN units, speeds in whole m/s.  The two lookup  *)
(* tables stand for what interpolate makes of them, times angle_deg_to_can,*)
(* rounded down.                                                           *)
(***************************************************************************)
EXTENDS Integers, FiniteSets

CONSTANTS
    Limits,       \* the SteeringLimits of the mode
    MaxSpeed,     \* bound: speeds are 0 .. MaxSpeed
    RateUp,       \* angle_rate_up_lookup, from 1 m/s less to 1 m/s more
    RateDown,     \* angle_rate_down_lookup
    Samples,      \* MAX_SAMPLE_VALS: 6
    MeasAngles,   \* angles the car's messages report
    Angles        \* angles the host asks for

Speed == 0 .. MaxSpeed

ASSUME AngleAssumption ==
    /\ MaxSpeed \in Nat
    /\ Limits \in [max_steer : Nat, max_angle_error : Nat,
                   angle_error_min_speed : Nat,
                   enforce_angle_error : BOOLEAN,
                   inactive_angle_is_zero : BOOLEAN]
    /\ RateUp \in [-1 .. MaxSpeed + 1 -> Nat]
    /\ RateDown \in [-1 .. MaxSpeed + 1 -> Nat]
    /\ \A v, w \in -1 .. MaxSpeed + 1 :
           v <= w => RateUp[w] <= RateUp[v] /\ RateDown[w] <= RateDown[v]
    /\ Samples \in Nat \ {0}
    /\ MeasAngles \subseteq Int /\ IsFiniteSet(MeasAngles) /\ 0 \in MeasAngles
    /\ Angles \subseteq Int /\ 0 \in Angles

VARIABLES
    controls,            \* controls_allowed
    vehicle_speed,       \* the last samples, newest first
    angle_meas,
    desired_angle_last,
    angle_sent,     \* the command that went out last: [steers, angle]
    start,    \* ghost: how far out of range the angle was when steering in
              \*        the present conditions began
    steered   \* ghost: commands sent since

angleVars == <<controls, vehicle_speed, angle_meas, desired_angle_last,
               angle_sent, start, steered>>

-----------------------------------------------------------------------------
(* The limits *)

\* update_sample
Largest(s) == CHOOSE v \in {s[i] : i \in 1 .. Samples} :
                  \A i \in 1 .. Samples : s[i] <= v
Smallest(s) == CHOOSE v \in {s[i] : i \in 1 .. Samples} :
                   \A i \in 1 .. Samples : v <= s[i]

Greater(a, b) == IF a > b THEN a ELSE b
Lesser(a, b) == IF a < b THEN a ELSE b
Clamp(a) == Greater(-Limits.max_steer, Lesser(a, Limits.max_steer))

\* How far up and down the rates let an angle go.
Above(last, up, down) == last + (IF last > 0 THEN up ELSE down)
Below(last, up, down) == last - (IF last >= 0 THEN down ELSE up)

\* "always slightly above openpilot's": 1 m/s slower, and 1 more.
SlowUp == RateUp[Smallest(vehicle_speed) - 1] + 1
SlowDown == RateDown[Smallest(vehicle_speed) - 1] + 1

\* "allow a lower rate for moving towards meas when error is exceeded"
FastUp == RateUp[Largest(vehicle_speed) + 1]
FastDown == RateDown[Largest(vehicle_speed) + 1]

ErrorEnforced == /\ Limits.enforce_angle_error
                 /\ vehicle_speed[1] > Limits.angle_error_min_speed

LowestMeas(meas) == Smallest(meas) - Limits.max_angle_error - 1
HighestMeas(meas) == Largest(meas) + Limits.max_angle_error + 1

\* A bug: out of range, the angle must be back at once.
Lowest_now(last) ==
    LET lowest == Below(last, SlowUp, SlowDown)
    IN  IF ErrorEnforced THEN Clamp(Greater(lowest, LowestMeas(angle_meas)))
                         ELSE lowest

\* lowest_desired_angle and highest_desired_angle
Lowest(last) ==
    LET lowest == Below(last, SlowUp, SlowDown)
    IN  IF ErrorEnforced
        THEN Clamp(Lesser(Greater(lowest, LowestMeas(angle_meas)),
                          Above(last, FastUp, FastDown)))
        ELSE lowest

\* A bug: out of range, the angle may stay where it is.
Highest_stays(last) ==
    LET highest == Above(last, SlowUp, SlowDown)
    IN  IF ErrorEnforced
        THEN Clamp(Greater(Lesser(highest, HighestMeas(angle_meas)), last)) ELSE highest

Highest(last) ==
    LET highest == Above(last, SlowUp, SlowDown)
    IN  IF ErrorEnforced
        THEN Clamp(Greater(Lesser(highest, HighestMeas(angle_meas)),
                           Below(last, FastUp, FastDown)))
        ELSE highest

InactiveAngle(angle) ==
    IF Limits.inactive_angle_is_zero THEN angle = 0
    ELSE angle \in Smallest(angle_meas) - 1 .. Largest(angle_meas) + 1

Violates(angle, steers) ==
    IF steers THEN ~controls \/ angle \notin Lowest(desired_angle_last)
                                             .. Highest(desired_angle_last)
    ELSE ~InactiveAngle(angle)

-----------------------------------------------------------------------------
(* Steps *)

\* How far an angle is out of the range around what is measured.
Excess(angle, meas) == Greater(0, Greater(angle - Clamp(HighestMeas(meas)),
                                          Clamp(LowestMeas(meas)) - angle))

\* A command; what is refused is remembered as well.
AngleCommand(angle, steers) ==
    /\ desired_angle_last' = angle
    /\ IF Violates(angle, steers) THEN UNCHANGED angle_sent
       ELSE angle_sent' = [steers |-> steers, angle |-> angle]
    /\ IF /\ steers /\ ~Violates(angle, steers)
          /\ ErrorEnforced /\ Excess(angle, angle_meas) > 0
       THEN UNCHANGED start /\ steered' = steered + 1
       ELSE start' = Excess(angle, angle_meas) /\ steered' = 0
    /\ UNCHANGED <<controls, vehicle_speed, angle_meas>>

Shifted(s, v) == [i \in 1 .. Samples |-> IF i = 1 THEN v ELSE s[i - 1]]

\* The conditions are others now.
Anew == start' = Excess(desired_angle_last', angle_meas') /\ steered' = 0

SpeedSample == \E v \in Speed :
    /\ vehicle_speed' = Shifted(vehicle_speed, v)
    /\ UNCHANGED <<controls, angle_meas, desired_angle_last, angle_sent>>
    /\ Anew

AngleSample == \E v \in MeasAngles :
    /\ angle_meas' = Shifted(angle_meas, v)
    /\ UNCHANGED <<controls, vehicle_speed, desired_angle_last, angle_sent>>
    /\ Anew

ControlsChange ==
    /\ controls' = ~controls
    /\ UNCHANGED <<vehicle_speed, angle_meas, desired_angle_last,
                   angle_sent, start, steered>>

Zeros == [i \in 1 .. Samples |-> 0]

\* set_safety_hooks
SetHooks == /\ controls' = FALSE
            /\ vehicle_speed' = Zeros
            /\ angle_meas' = Zeros
            /\ desired_angle_last' = 0
            /\ Anew
            /\ UNCHANGED angle_sent

AngleInit == /\ controls = FALSE
             /\ vehicle_speed = Zeros
             /\ angle_meas = Zeros
             /\ desired_angle_last = 0
             /\ angle_sent = [steers |-> FALSE, angle |-> 0]
             /\ start = Excess(0, Zeros) /\ steered = 0

AngleNext == \/ \E angle \in Angles, steers \in BOOLEAN : AngleCommand(angle, steers)
             \/ SpeedSample \/ AngleSample \/ ControlsChange \/ SetHooks

AngleSpec == AngleInit /\ [][AngleNext]_angleVars

-----------------------------------------------------------------------------
(* What must hold *)

AngleTypeOK ==
    /\ controls \in BOOLEAN
    /\ vehicle_speed \in [1 .. Samples -> Speed]
    /\ angle_meas \in [1 .. Samples -> MeasAngles]
    /\ desired_angle_last \in Angles
    /\ angle_sent \in [steers : BOOLEAN, angle : Angles]
    /\ start \in Nat
    /\ steered \in Nat

\* Whatever was measured and asked for before, some angle is allowed while the
\* controls are: the limits on rate, error and total never contradict each
\* other, whichever way an angle that is out of range has to go.
SomeAngleIsAllowed == Lowest(desired_angle_last) <= Highest(desired_angle_last)

\* While speed and measured angle stay as they are, every command that goes
\* out with an angle out of range brings it nearer, by the lower rate at least:
\* steering ends up near what is measured, it does not just stay away from it.
ErrorIsCorrected ==
    steered > 0 =>
        Excess(desired_angle_last, angle_meas) + steered * Lesser(FastUp, FastDown) <= start
=============================================================================
