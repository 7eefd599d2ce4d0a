----------------------------- MODULE SteerTorque ---------------------------
(***************************************************************************)
(* steer_torque_cmd_checks of board/safety.h, which every torque command   *)
(* passes on its way to the car: global limit, rate limits against the     *)
(* driver's or the motor's torque, the limit in real time, and the frames  *)
(* in which the steer request bit may be cut.                              *)
(*                                                                         *)
(* A command that violates a limit is dropped by the mode's tx hook: the   *)
(* car keeps what was sent last.  Torques are integers in CAN units, time  *)
(* is counted in units of the microsecond timer, which wraps.              *)
(***************************************************************************)
EXTENDS Integers, FiniteSets

CONSTANTS
    DriverLimited,                  \* TorqueDriverLimited or MotorLimited
    max_steer, max_rate_up, max_rate_down,
    max_rt_delta, max_rt_interval,
    driver_torque_allowance, driver_torque_factor,
    max_torque_error,
    has_steer_req_tolerance,
    min_valid_request_frames,
    max_invalid_request_frames,
    min_valid_request_rt_interval,
    MAX_SAMPLE_VALS,                \* 6
    Measured,                       \* torques the car's messages report
    Commanded,                      \* torques the host asks for
    Wrap                            \* the timer wraps here: 2^32

ASSUME SteerAssumption ==
    /\ DriverLimited \in BOOLEAN
    /\ max_steer \in Nat
    /\ max_rate_up \in Nat
    /\ max_rate_down \in Nat
    /\ max_rt_delta \in Nat
    /\ max_rt_interval \in Nat
    /\ driver_torque_allowance \in Nat
    /\ driver_torque_factor \in Nat
    /\ max_torque_error \in Nat
    /\ has_steer_req_tolerance \in BOOLEAN
    /\ min_valid_request_frames \in Nat \ {0}
    /\ max_invalid_request_frames \in Nat \ {0}
    /\ min_valid_request_rt_interval \in Nat
    /\ MAX_SAMPLE_VALS \in Nat \ {0}
    /\ Measured \subseteq Int /\ IsFiniteSet(Measured) /\ 0 \in Measured
    /\ Commanded \subseteq Int
    /\ Wrap \in Nat
    /\ Wrap > max_rt_interval + 1
    /\ Wrap > min_valid_request_rt_interval

VARIABLES
    controls_allowed,
    samples,                      \* torque_driver or torque_meas, newest first
    clock,                        \* the microsecond timer
    desired_torque_last, rt_torque_last, ts_torque_check_last,
    valid_steer_req_count, invalid_steer_req_count,
    ts_steer_req_mismatch_last,
    sent,        \* the torque of the command that went out last
    rest_age,    \* ghost: time since the checks were reset last
    held,        \* ghost: commands since the driver works against torque > 0
    cuts,        \* ghost: how many of the last commands cut the request
    matched,     \* ghost: commands since then that did not
    cut_age      \* ghost: time since the request was cut last

checked == <<desired_torque_last, rt_torque_last, ts_torque_check_last,
             valid_steer_req_count, invalid_steer_req_count,
             ts_steer_req_mismatch_last>>
ghosts == <<rest_age, held, cuts, matched, cut_age>>
vars == <<controls_allowed, samples, clock, checked, sent, ghosts>>

MAX(a, b) == IF a > b THEN a ELSE b
MIN(a, b) == IF a < b THEN a ELSE b

\* When rest_age stops counting: max_steer may be reached long before.
LongAge == (max_steer + 1) * (max_rt_interval + 1)

Timestamp == 0 .. Wrap - 1
Torque == -max_steer .. max_steer

TypeOK == /\ controls_allowed \in BOOLEAN
          /\ samples \in [1 .. MAX_SAMPLE_VALS -> Measured]
          /\ clock \in Timestamp
          /\ desired_torque_last \in Torque
          /\ rt_torque_last \in Torque
          /\ ts_torque_check_last \in Timestamp
          /\ valid_steer_req_count \in 0 .. min_valid_request_frames
          /\ invalid_steer_req_count \in 0 .. max_invalid_request_frames
          /\ ts_steer_req_mismatch_last \in Timestamp
          /\ sent \in Torque
          /\ rest_age \in 0 .. LongAge
          /\ held \in 0 .. max_steer + 1
          /\ cuts \in 0 .. max_invalid_request_frames
          /\ matched \in 0 .. min_valid_request_frames
          /\ cut_age \in 0 .. min_valid_request_rt_interval

-----------------------------------------------------------------------------
(* The limits *)

\* The greatest and the smallest of the last samples (update_sample).
SampleMax == CHOOSE v \in Measured :
                /\ \E i \in 1 .. MAX_SAMPLE_VALS : samples[i] = v
                /\ \A i \in 1 .. MAX_SAMPLE_VALS : samples[i] <= v
SampleMin == CHOOSE v \in Measured :
                /\ \E i \in 1 .. MAX_SAMPLE_VALS : samples[i] = v
                /\ \A i \in 1 .. MAX_SAMPLE_VALS : v <= samples[i]

max_limit_check(val, high, low) == val > high \/ val < low

\* The rate limit both kinds of mode share, and the torque they may not go
\* beyond unless it falls by max_rate_down.
rate_limit_check(val, last, above, below) ==
    max_limit_check(val,
        MIN(MAX(last, 0) + max_rate_up, MAX(last - max_rate_down, above)),
        MAX(MIN(last, 0) - max_rate_up, MIN(last + max_rate_down, below)))

dist_to_meas_check(val, last) ==
    rate_limit_check(val, last, MAX(SampleMax, 0) + max_torque_error,
                                MIN(SampleMin, 0) - max_torque_error)

driver_max_limit ==
    max_steer + (driver_torque_allowance + SampleMax) * driver_torque_factor
driver_min_limit ==
    -max_steer + (-driver_torque_allowance + SampleMin) * driver_torque_factor

\* A bug: the driver's torque counts with the wrong sign.
driver_limit_check_sign(val, last) ==
    rate_limit_check(val, last,
        MAX(max_steer + (driver_torque_allowance - SampleMax)
                          * driver_torque_factor, 0),
        MIN(-max_steer - (driver_torque_allowance + SampleMin)
                           * driver_torque_factor, 0))

driver_limit_check(val, last) ==
    rate_limit_check(val, last, MAX(driver_max_limit, 0),
                                MIN(driver_min_limit, 0))

rt_rate_limit_check(val, last) ==
    max_limit_check(val, MAX(last, 0) + max_rt_delta,
                         MIN(last, 0) - max_rt_delta)

get_ts_elapsed(ts, ts_last) == (ts - ts_last) % Wrap

\* What the torque itself violates.
TorqueViolation(torque) ==
    IF controls_allowed
    THEN \/ max_limit_check(torque, max_steer, -max_steer)
         \/ IF DriverLimited THEN driver_limit_check(torque, desired_torque_last)
                             ELSE dist_to_meas_check(torque, desired_torque_last)
         \/ rt_rate_limit_check(torque, rt_torque_last)
    ELSE torque # 0

\* A bug: frames are cut as often as the host likes.
CutViolation_often ==
    /\ invalid_steer_req_count > 0
    /\ invalid_steer_req_count >= max_invalid_request_frames

\* What cutting the request bit of a command with torque violates: too few
\* commands, or too little time, since the last cut; or too many frames.
CutViolation ==
    IF invalid_steer_req_count = 0
    THEN \/ valid_steer_req_count < min_valid_request_frames
         \/ get_ts_elapsed(clock, ts_steer_req_mismatch_last)
              < min_valid_request_rt_interval
    ELSE invalid_steer_req_count >= max_invalid_request_frames

-----------------------------------------------------------------------------
(* The command *)

\* A bug: a refused command still counts as the last one.
Reset_keepslast(torque) ==
    /\ desired_torque_last' = torque
    /\ rt_torque_last' = 0
    /\ ts_torque_check_last' = clock
    /\ valid_steer_req_count' = 0
    /\ invalid_steer_req_count' = 0
    /\ ts_steer_req_mismatch_last' = clock

\* "reset to 0 if either controls is not allowed or there's a violation"
Reset(torque) ==
    /\ desired_torque_last' = 0
    /\ rt_torque_last' = 0
    /\ ts_torque_check_last' = clock
    /\ valid_steer_req_count' = 0
    /\ invalid_steer_req_count' = 0
    /\ ts_steer_req_mismatch_last' = clock

\* A bug: the torque the real time limit starts from moves with every command.
RealTime_always(torque) ==
    /\ rt_torque_last' = torque
    /\ ts_torque_check_last' = clock

\* Every max_rt_interval the real time limit starts anew.
RealTime(torque) ==
    IF get_ts_elapsed(clock, ts_torque_check_last) > max_rt_interval
    THEN /\ rt_torque_last' = torque
         /\ ts_torque_check_last' = clock
    ELSE UNCHANGED <<rt_torque_last, ts_torque_check_last>>

\* The bookkeeping of an accepted command.
Accept(torque, mismatch) ==
    /\ desired_torque_last' = torque
    /\ RealTime(torque)
    /\ IF ~has_steer_req_tolerance
       THEN UNCHANGED <<valid_steer_req_count, invalid_steer_req_count,
                        ts_steer_req_mismatch_last>>
       ELSE IF mismatch
       THEN /\ valid_steer_req_count' = 0
            /\ ts_steer_req_mismatch_last' = clock
            /\ invalid_steer_req_count' =
                 MIN(invalid_steer_req_count + 1, max_invalid_request_frames)
       ELSE /\ valid_steer_req_count' =
                 MIN(valid_steer_req_count + 1, min_valid_request_frames)
            /\ invalid_steer_req_count' = 0
            /\ UNCHANGED ts_steer_req_mismatch_last

\* The ghosts when a command goes out.
Sent(torque, mismatch) ==
    /\ sent' = torque
    /\ held' = IF DriverLimited /\ driver_max_limit <= 0
               THEN MIN(held + 1, max_steer + 1) ELSE 0
    /\ cuts' = IF mismatch THEN cuts + 1 ELSE 0
    /\ matched' = IF mismatch THEN 0
                  ELSE MIN(matched + 1, min_valid_request_frames)
    /\ cut_age' = IF mismatch THEN 0 ELSE cut_age

\* steer_torque_cmd_checks
Command(torque, steer_req) ==
    LET mismatch == ~steer_req /\ torque # 0
        violation ==
            \/ TorqueViolation(torque)
            \/ mismatch /\ (~has_steer_req_tolerance \/ CutViolation)
    IN  /\ IF violation \/ ~controls_allowed THEN Reset(torque)
                                             ELSE Accept(torque, mismatch)
        /\ IF violation THEN UNCHANGED <<sent, held, cuts, matched, cut_age>>
                        ELSE Sent(torque, mismatch)
        /\ rest_age' = IF violation \/ ~controls_allowed THEN 0 ELSE rest_age
        /\ UNCHANGED <<controls_allowed, samples, clock>>

\* update_sample, from a message of the car.  held starts again when the
\* driver lets go.
Sample(v) ==
    /\ samples' = [i \in 1 .. MAX_SAMPLE_VALS |->
                      IF i = 1 THEN v ELSE samples[i - 1]]
    /\ held' = IF DriverLimited /\ driver_max_limit' <= 0 THEN held ELSE 0
    /\ UNCHANGED <<controls_allowed, clock, checked, sent, rest_age, cuts,
                   matched, cut_age>>

\* Controls come and go with the messages of the car and the ticks.
Controls == /\ controls_allowed' = ~controls_allowed
            /\ UNCHANGED <<samples, clock, checked, sent, ghosts>>

Advance ==
    /\ clock' = (clock + 1) % Wrap
    /\ rest_age' = MIN(rest_age + 1, LongAge)
    /\ cut_age' = MIN(cut_age + 1, min_valid_request_rt_interval)
    /\ UNCHANGED <<controls_allowed, samples, checked, sent, held, cuts, matched>>

\* set_safety_hooks at any time: both timestamps are 0, not the time it is.
Init == /\ controls_allowed = FALSE
        /\ samples = [i \in 1 .. MAX_SAMPLE_VALS |-> 0]
        /\ clock \in Timestamp
        /\ desired_torque_last = 0
        /\ rt_torque_last = 0
        /\ ts_torque_check_last = 0
        /\ valid_steer_req_count = 0
        /\ invalid_steer_req_count = 0
        /\ ts_steer_req_mismatch_last = 0
        /\ sent = 0
        /\ rest_age = max_rt_interval + 1
        /\ held = 0
        /\ cuts = 0
        /\ matched = 0
        /\ cut_age = min_valid_request_rt_interval

Next == \/ \E torque \in Commanded, steer_req \in BOOLEAN :
             Command(torque, steer_req)
        \/ \E v \in Measured : Sample(v)
        \/ Controls
        \/ Advance

Spec == Init /\ [][Next]_vars

-----------------------------------------------------------------------------
(* What must hold *)

\* The torque on the bus grows by at most max_rate_up per command that goes
\* out, whatever was refused or withdrawn in between.
GrowsSlowly ==
    [][/\ sent' <= MAX(sent, 0) + max_rate_up
       /\ sent' >= MIN(sent, 0) - max_rate_up]_vars

\* From rest, the torque accepted grows by no more than max_rt_delta for each
\* max_rt_interval that passes, however fast the commands come and wherever the
\* timer wraps.  (Right after the mode was set the limit may start anew at once:
\* rest_age starts at the length of an interval.)
RampTakesTime ==
    LET bound == max_rt_delta * (1 + rest_age \div (max_rt_interval + 1))
    IN  -bound <= desired_torque_last /\ desired_torque_last <= bound

\* A driver who holds against the torque gets rid of it: each command that goes
\* out while the samples show it is smaller by max_rate_down.
DriverOverrules ==
    held > 0 => sent <= MAX(max_steer - held * max_rate_down, 0)

\* The request bit is cut for at most max_invalid_request_frames, and only
\* after enough commands and enough time, though the counts and the timestamp
\* behind that are also reset by refused commands and the timer wraps.
CutsAreRare ==
    /\ [](cuts <= max_invalid_request_frames)
    /\ [][cuts = 0 /\ cuts' = 1 =>
            /\ matched >= min_valid_request_frames
            /\ cut_age >= min_valid_request_rt_interval]_vars
=============================================================================
