----------------------------- MODULE SteerProofs ----------------------------
(***************************************************************************)
(* What steer_torque_cmd_checks and steer_angle_cmd_checks promise, for    *)
(* every car's limits.                                                     *)
(*                                                                         *)
(* Of torques, the inductive invariant is TypeOK with Inv below.  The      *)
(* refused commands are the hard part: each of them resets what the checks *)
(* remember, and the torque on the bus stays.  Of angles it is enough that *)
(* what the checks remember is an integer: the promises hold from any.     *)
(***************************************************************************)
EXTENDS SteerTorque, SteerAngle, FiniteSetTheorems, TLAPS

\* What the checks remember against what went out.
Inv == /\ desired_torque_last \in {0, sent}
       /\ held > 0 => sent <= MAX(max_steer - held * max_rate_down, 0)
       /\ invalid_steer_req_count \in {0, cuts}
       /\ valid_steer_req_count > 0 => cuts = 0
       /\ valid_steer_req_count <= matched
       /\ \/ cut_age = min_valid_request_rt_interval
          \/ get_ts_elapsed(clock, ts_steer_req_mismatch_last) <= cut_age
       /\ ~has_steer_req_tolerance => cuts = 0

-----------------------------------------------------------------------------
(* Samples: a finite set of integers has a least and a greatest element *)

\* The sets of the elements below each element are ordered by inclusion, and
\* that order is well-founded on finite sets.
LEMMA Least ==
    ASSUME NEW S, S \subseteq Int, IsFiniteSet(S), S # {}
    PROVE  \E x \in S : \A y \in S : x <= y
<1> DEFINE Under(x) == {y \in S : y < x}
           T == {Under(x) : x \in S}
<1>1. T \subseteq FiniteSubsetsOf(S)
  BY FS_Subset DEF FiniteSubsetsOf
<1>2. T # {}
  OBVIOUS
<1>3. IsWellFoundedOn(StrictSubsetOrdering(S), FiniteSubsetsOf(S))
  BY FS_StrictSubsetOrderingWellFounded
<1>4. PICK t \in T : \A u \in T : <<u, t>> \notin StrictSubsetOrdering(S)
  BY <1>1, <1>2, <1>3, WFMin
<1>5. PICK x \in S : t = Under(x)
  OBVIOUS
<1>6. ASSUME NEW y \in S, y < x PROVE FALSE
  <2>1. \A z \in Under(y) : z \in Under(x)
    BY <1>6
  <2>2. y \in Under(x) /\ y \notin Under(y)
    BY <1>6
  <2>3. Under(y) \in SUBSET S /\ Under(x) \in SUBSET S
    OBVIOUS
  <2> HIDE DEF Under
  <2>4. <<Under(y), Under(x)>> \in StrictSubsetOrdering(S)
    BY <2>1, <2>2, <2>3 DEF StrictSubsetOrdering
  <2> QED BY <2>4, <1>4, <1>5
<1> QED BY <1>6

LEMMA Greatest ==
    ASSUME NEW S, S \subseteq Int, IsFiniteSet(S), S # {}
    PROVE  \E x \in S : \A y \in S : y <= x
<1> DEFINE Over(x) == {y \in S : y > x}
           T == {Over(x) : x \in S}
<1>1. T \subseteq FiniteSubsetsOf(S)
  BY FS_Subset DEF FiniteSubsetsOf
<1>2. T # {}
  OBVIOUS
<1>3. IsWellFoundedOn(StrictSubsetOrdering(S), FiniteSubsetsOf(S))
  BY FS_StrictSubsetOrderingWellFounded
<1>4. PICK t \in T : \A u \in T : <<u, t>> \notin StrictSubsetOrdering(S)
  BY <1>1, <1>2, <1>3, WFMin
<1>5. PICK x \in S : t = Over(x)
  OBVIOUS
<1>6. ASSUME NEW y \in S, y > x PROVE FALSE
  <2>1. \A z \in Over(y) : z \in Over(x)
    BY <1>6
  <2>2. y \in Over(x) /\ y \notin Over(y)
    BY <1>6
  <2>3. Over(y) \in SUBSET S /\ Over(x) \in SUBSET S
    OBVIOUS
  <2> HIDE DEF Over
  <2>4. <<Over(y), Over(x)>> \in StrictSubsetOrdering(S)
    BY <2>1, <2>2, <2>3 DEF StrictSubsetOrdering
  <2> QED BY <2>4, <1>4, <1>5
<1> QED BY <1>6

LEMMA SampleTypes ==
    ASSUME TypeOK
    PROVE  SampleMax \in Int /\ SampleMin \in Int
<1> DEFINE S == {samples[i] : i \in 1 .. MAX_SAMPLE_VALS}
<1>1. S \subseteq Measured /\ samples[1] \in S
  BY SteerAssumption DEF TypeOK
<1>2. S \subseteq Int /\ IsFiniteSet(S) /\ S # {}
  BY <1>1, FS_Subset, SteerAssumption
<1>3. SampleMax \in Measured
  <2>1. PICK x \in S : \A y \in S : y <= x
    BY <1>2, Greatest
  <2> QED BY <1>1, <2>1 DEF SampleMax
<1>4. SampleMin \in Measured
  <2>1. PICK x \in S : \A y \in S : x <= y
    BY <1>2, Least
  <2> QED BY <1>1, <2>1 DEF SampleMin
<1> QED BY <1>3, <1>4, SteerAssumption

-----------------------------------------------------------------------------
(* Arithmetic *)

LEMMA MinMaxTypes ==
    ASSUME NEW a \in Int, NEW b \in Int
    PROVE  /\ MIN(a, b) \in Int /\ MAX(a, b) \in Int
           /\ MIN(a, b) <= a /\ MIN(a, b) <= b /\ MIN(a, b) \in {a, b}
           /\ MAX(a, b) >= a /\ MAX(a, b) >= b /\ MAX(a, b) \in {a, b}
BY DEF MIN, MAX

\* What a command within the rate limits may be.
LEMMA RateLimit ==
    ASSUME NEW val \in Int, NEW last \in Int, NEW above \in Int, NEW below \in Int,
           ~rate_limit_check(val, last, above, below)
    PROVE  /\ val <= MAX(last, 0) + max_rate_up
           /\ val >= MIN(last, 0) - max_rate_up
           /\ val <= MAX(last - max_rate_down, above)
BY SteerAssumption DEF rate_limit_check, max_limit_check, MIN, MAX

\* The elapsed time is the difference, or wrapped once.
LEMMA Elapsed ==
    ASSUME NEW c \in Timestamp, NEW t \in Timestamp
    PROVE  get_ts_elapsed(c, t) = IF c >= t THEN c - t ELSE c - t + Wrap
BY SteerAssumption, Z3 DEF Timestamp, get_ts_elapsed

LEMMA ElapsedType ==
    ASSUME NEW c \in Timestamp, NEW t \in Timestamp
    PROVE  get_ts_elapsed(c, t) \in Nat
<1>1. c \in Int /\ t \in Int /\ Wrap \in Nat /\ c < Wrap /\ t < Wrap
      /\ c >= 0 /\ t >= 0
  BY SteerAssumption DEF Timestamp
<1>2. get_ts_elapsed(c, t) = IF c >= t THEN c - t ELSE c - t + Wrap
  BY Elapsed
<1> QED BY <1>1, <1>2

LEMMA NoneElapsed ==
    ASSUME NEW c \in Timestamp
    PROVE  get_ts_elapsed(c, c) = 0
BY Elapsed DEF Timestamp

LEMMA ElapsedNext ==
    ASSUME NEW c \in Timestamp, NEW t \in Timestamp
    PROVE  /\ (c + 1) % Wrap \in Timestamp
           /\ get_ts_elapsed((c + 1) % Wrap, t) <= get_ts_elapsed(c, t) + 1
<1>1. (c + 1) % Wrap = IF c + 1 = Wrap THEN 0 ELSE c + 1
  BY SteerAssumption, Z3 DEF Timestamp
<1>2. (c + 1) % Wrap \in Timestamp
  BY <1>1, SteerAssumption DEF Timestamp
<1> DEFINE n == (c + 1) % Wrap
<1>3. n \in Timestamp /\ n = IF c + 1 = Wrap THEN 0 ELSE c + 1
  BY <1>1, <1>2
<1> HIDE DEF n
<1>4. get_ts_elapsed(n, t) = IF n >= t THEN n - t ELSE n - t + Wrap
  BY <1>3, Elapsed
<1>5. get_ts_elapsed(c, t) = IF c >= t THEN c - t ELSE c - t + Wrap
  BY Elapsed
<1>6. get_ts_elapsed(n, t) <= get_ts_elapsed(c, t) + 1
  BY <1>3, <1>4, <1>5, SteerAssumption DEF Timestamp
<1> QED BY <1>3, <1>6 DEF n

-----------------------------------------------------------------------------
(* The three outcomes of a command *)

\* The command violates a limit: the checks forget, the car keeps its torque.
Refused(torque) ==
    /\ Reset(torque)
    /\ UNCHANGED <<sent, held, cuts, matched, cut_age>>
    /\ rest_age' = 0

\* Without controls only a torque of 0 goes out.
SendsNothing(torque) ==
    /\ torque = 0
    /\ Reset(torque)
    /\ Sent(torque, FALSE)
    /\ rest_age' = 0

\* The command is within every limit.
Complies(torque, mismatch) ==
    /\ torque \in Torque
    /\ torque <= MAX(desired_torque_last, 0) + max_rate_up
    /\ torque >= MIN(desired_torque_last, 0) - max_rate_up
    /\ DriverLimited =>
         torque <= MAX(desired_torque_last - max_rate_down, MAX(driver_max_limit, 0))
    /\ torque <= MAX(rt_torque_last, 0) + max_rt_delta
    /\ torque >= MIN(rt_torque_last, 0) - max_rt_delta
    /\ mismatch => has_steer_req_tolerance /\ ~CutViolation
    /\ Accept(torque, mismatch)
    /\ Sent(torque, mismatch)
    /\ UNCHANGED rest_age

LEMMA WithinLimits ==
    ASSUME TypeOK, NEW torque \in Int, controls_allowed, ~TorqueViolation(torque)
    PROVE  /\ torque \in Torque
           /\ torque <= MAX(desired_torque_last, 0) + max_rate_up
           /\ torque >= MIN(desired_torque_last, 0) - max_rate_up
           /\ DriverLimited =>
                torque <= MAX(desired_torque_last - max_rate_down,
                              MAX(driver_max_limit, 0))
           /\ torque <= MAX(rt_torque_last, 0) + max_rt_delta
           /\ torque >= MIN(rt_torque_last, 0) - max_rt_delta
<1>1. /\ SampleMax \in Int /\ SampleMin \in Int
      /\ desired_torque_last \in Int /\ rt_torque_last \in Int
  BY SampleTypes, SteerAssumption DEF TypeOK, Torque
<1>2. /\ torque \in Torque
      /\ torque <= MAX(rt_torque_last, 0) + max_rt_delta
      /\ torque >= MIN(rt_torque_last, 0) - max_rt_delta
  BY <1>1, SteerAssumption
     DEF TorqueViolation, max_limit_check, rt_rate_limit_check, Torque, MIN, MAX
<1>3. CASE DriverLimited
  <2>1. driver_max_limit \in Int /\ driver_min_limit \in Int
    BY <1>1, SteerAssumption DEF driver_max_limit, driver_min_limit
  <2>2. ~rate_limit_check(torque, desired_torque_last,
                          MAX(driver_max_limit, 0), MIN(driver_min_limit, 0))
    BY <1>3 DEF TorqueViolation, driver_limit_check
  <2>3. MAX(driver_max_limit, 0) \in Int /\ MIN(driver_min_limit, 0) \in Int
    BY <2>1, MinMaxTypes
  <2> QED BY <1>1, <1>2, <2>2, <2>3, RateLimit
<1>4. CASE ~DriverLimited
  <2> DEFINE above == MAX(SampleMax, 0) + max_torque_error
             below == MIN(SampleMin, 0) - max_torque_error
  <2>1. above \in Int /\ below \in Int
    <3>1. MAX(SampleMax, 0) \in Int /\ MIN(SampleMin, 0) \in Int
      BY <1>1, MinMaxTypes
    <3> QED BY <3>1, SteerAssumption
  <2>2. ~rate_limit_check(torque, desired_torque_last, above, below)
    BY <1>4 DEF TorqueViolation, dist_to_meas_check
  <2> HIDE DEF above, below
  <2> QED BY <1>1, <1>2, <1>4, <2>1, <2>2, RateLimit
<1> QED BY <1>3, <1>4

LEMMA Outcome ==
    ASSUME TypeOK, NEW torque \in Commanded, NEW steer_req \in BOOLEAN,
           Command(torque, steer_req)
    PROVE  /\ UNCHANGED <<controls_allowed, samples, clock>>
           /\ \/ Refused(torque)
              \/ SendsNothing(torque)
              \/ \E mismatch \in BOOLEAN : Complies(torque, mismatch)
<1> DEFINE mismatch == ~steer_req /\ torque # 0
           violation == \/ TorqueViolation(torque)
                        \/ mismatch /\ (~has_steer_req_tolerance \/ CutViolation)
<1>1. /\ IF violation \/ ~controls_allowed THEN Reset(torque)
                                           ELSE Accept(torque, mismatch)
      /\ IF violation THEN UNCHANGED <<sent, held, cuts, matched, cut_age>>
                      ELSE Sent(torque, mismatch)
      /\ rest_age' = IF violation \/ ~controls_allowed THEN 0 ELSE rest_age
      /\ UNCHANGED <<controls_allowed, samples, clock>>
  BY Zenon DEF Command
<1>2. torque \in Int
  BY SteerAssumption
<1>3. CASE violation
  BY <1>1, <1>3 DEF Refused
<1>4. CASE ~violation /\ ~controls_allowed
  <2>1. torque = 0 /\ mismatch = FALSE
    BY <1>4 DEF TorqueViolation
  <2> QED BY <1>1, <1>4, <2>1 DEF SendsNothing
<1>5. CASE ~violation /\ controls_allowed
  <2>1. Complies(torque, mismatch)
    BY <1>1, <1>2, <1>5, WithinLimits DEF Complies
  <2>2. mismatch \in BOOLEAN
    OBVIOUS
  <2> QED BY <1>1, <2>1, <2>2
<1> QED BY <1>3, <1>4, <1>5

-----------------------------------------------------------------------------
(* Types *)

LEMMA LongAgeType ==
    /\ LongAge \in Nat
    /\ max_rt_interval + 1 <= LongAge
<1> DEFINE k == max_rt_interval + 1
<1>1. k \in Nat /\ max_steer \in Nat
  BY SteerAssumption
<1>2. LongAge = max_steer * k + k /\ max_steer * k \in Nat
  BY <1>1 DEF LongAge
<1> QED BY <1>1, <1>2

\* Capped counters stay within their caps.
LEMMA Capped ==
    ASSUME NEW cap \in Nat, NEW n \in 0 .. cap
    PROVE  MIN(n + 1, cap) \in 0 .. cap
BY DEF MIN

LEMMA TypeInit == Init => TypeOK
<1> SUFFICES ASSUME Init PROVE TypeOK
  OBVIOUS
<1>1. samples \in [1 .. MAX_SAMPLE_VALS -> Measured]
  BY SteerAssumption DEF Init
<1>2. 0 \in Torque /\ 0 \in Timestamp
  BY SteerAssumption DEF Torque, Timestamp
<1>3. rest_age \in 0 .. LongAge
  BY LongAgeType, SteerAssumption DEF Init
<1>4. /\ 0 \in 0 .. min_valid_request_frames
      /\ 0 \in 0 .. max_invalid_request_frames
      /\ 0 \in 0 .. max_steer + 1
      /\ min_valid_request_rt_interval \in 0 .. min_valid_request_rt_interval
  BY SteerAssumption
<1> QED BY <1>1, <1>2, <1>3, <1>4, Zenon DEF Init, TypeOK

LEMMA SentType ==
    ASSUME TypeOK, NEW torque \in Torque, NEW mismatch \in BOOLEAN,
           mismatch => cuts < max_invalid_request_frames,
           Sent(torque, mismatch)
    PROVE  /\ sent' \in Torque
           /\ held' \in 0 .. max_steer + 1
           /\ cuts' \in 0 .. max_invalid_request_frames
           /\ matched' \in 0 .. min_valid_request_frames
           /\ cut_age' \in 0 .. min_valid_request_rt_interval
<1>1. /\ MIN(held + 1, max_steer + 1) \in 0 .. max_steer + 1
      /\ MIN(matched + 1, min_valid_request_frames)
            \in 0 .. min_valid_request_frames
  BY Capped, SteerAssumption DEF TypeOK
<1> QED BY <1>1, SteerAssumption DEF Sent, TypeOK

LEMMA CheckedType ==
    ASSUME TypeOK, NEW torque \in Torque, NEW mismatch \in BOOLEAN,
           Reset(torque) \/ Accept(torque, mismatch)
    PROVE  /\ desired_torque_last' \in Torque
           /\ rt_torque_last' \in Torque
           /\ ts_torque_check_last' \in Timestamp
           /\ valid_steer_req_count' \in 0 .. min_valid_request_frames
           /\ invalid_steer_req_count' \in 0 .. max_invalid_request_frames
           /\ ts_steer_req_mismatch_last' \in Timestamp
<1>1. 0 \in Torque
  BY SteerAssumption DEF Torque
<1>2. CASE Reset(torque)
  BY <1>1, <1>2, SteerAssumption DEF Reset, TypeOK
<1>3. CASE Accept(torque, mismatch)
  <2>1. /\ MIN(valid_steer_req_count + 1, min_valid_request_frames)
              \in 0 .. min_valid_request_frames
        /\ MIN(invalid_steer_req_count + 1, max_invalid_request_frames)
              \in 0 .. max_invalid_request_frames
    BY Capped, SteerAssumption DEF TypeOK
  <2> QED BY <1>3, <2>1, SteerAssumption DEF Accept, RealTime, TypeOK
<1> QED BY <1>2, <1>3

-----------------------------------------------------------------------------
(* The invariant *)

IInv == TypeOK /\ Inv

LEMMA IInvInit == Init => IInv
<1> SUFFICES ASSUME Init PROVE Inv
  BY TypeInit DEF IInv
<1> QED BY SteerAssumption DEF Init, Inv

\* A command that goes out while the driver works against it is smaller.
LEMMA Overruled ==
    ASSUME IInv, NEW torque \in Torque, NEW mismatch \in BOOLEAN,
           Sent(torque, mismatch),
           DriverLimited => \/ torque = 0
                            \/ torque <= MAX(desired_torque_last - max_rate_down,
                                             MAX(driver_max_limit, 0))
    PROVE  held' > 0 => sent' <= MAX(max_steer - held' * max_rate_down, 0)
<1> SUFFICES ASSUME held' > 0
             PROVE  torque <= MAX(max_steer - held' * max_rate_down, 0)
  BY DEF Sent
<1>1. /\ DriverLimited /\ driver_max_limit <= 0
      /\ held' = MIN(held + 1, max_steer + 1)
  BY DEF Sent
<1>2. /\ held \in Nat /\ torque \in Int /\ desired_torque_last \in Int
      /\ sent \in Int /\ desired_torque_last \in {0, sent}
      /\ max_rate_down \in Nat /\ max_steer \in Nat
  BY SteerAssumption DEF IInv, Inv, TypeOK, Torque
<1>3. driver_max_limit \in Int
  BY SampleTypes, SteerAssumption DEF driver_max_limit, IInv
<1>4. torque <= MAX(desired_torque_last - max_rate_down, 0)
  BY <1>1, <1>2, <1>3 DEF MAX
<1>5. torque <= MAX(sent - max_rate_down, 0)
  BY <1>2, <1>4 DEF MAX
<1> DEFINE fall == held * max_rate_down
<1>6. fall \in Nat /\ (held + 1) * max_rate_down = fall + max_rate_down
  BY <1>2
<1>7. sent <= MAX(max_steer - fall, 0)
  <2>1. CASE held > 0
    BY <2>1 DEF IInv, Inv
  <2>2. CASE held = 0
    BY <2>2, <1>2 DEF IInv, TypeOK, Torque, MAX
  <2> QED BY <2>1, <2>2, <1>2
<1>8. held' * max_rate_down \in {fall, fall + max_rate_down}
  <2>1. held' \in {held, held + 1}
    BY <1>1, <1>2 DEF MIN, IInv, TypeOK
  <2> QED BY <1>6, <2>1
<1> HIDE DEF fall
<1> QED BY <1>2, <1>5, <1>6, <1>7, <1>8 DEF MAX

LEMMA CompliesStep ==
    ASSUME IInv, NEW torque \in Torque, NEW mismatch \in BOOLEAN,
           UNCHANGED <<controls_allowed, samples, clock>>,
           Complies(torque, mismatch)
    PROVE  IInv'
<1>1. mismatch => /\ has_steer_req_tolerance
                  /\ \/ /\ invalid_steer_req_count = 0
                        /\ valid_steer_req_count >= min_valid_request_frames
                     \/ /\ invalid_steer_req_count # 0
                        /\ invalid_steer_req_count < max_invalid_request_frames
  BY SteerAssumption DEF Complies, CutViolation, IInv, TypeOK
<1>2. mismatch => cuts = invalid_steer_req_count
  BY <1>1, SteerAssumption DEF IInv, Inv, TypeOK
<1>3. mismatch => cuts < max_invalid_request_frames
  BY <1>1, <1>2, SteerAssumption
<1>4. Accept(torque, mismatch) /\ Sent(torque, mismatch) /\ UNCHANGED rest_age
  BY DEF Complies
<1>5. TypeOK'
  BY <1>3, <1>4, SentType, CheckedType DEF IInv, TypeOK
<1>6. desired_torque_last' \in {0, sent'}
  BY <1>4 DEF Accept, Sent
<1>7. held' > 0 => sent' <= MAX(max_steer - held' * max_rate_down, 0)
  BY <1>4, Overruled DEF Complies
<1>8. CASE mismatch
  <2>1. /\ invalid_steer_req_count' = invalid_steer_req_count + 1
        /\ cuts' = cuts + 1
        /\ valid_steer_req_count' = 0
        /\ has_steer_req_tolerance
        /\ clock' = clock /\ ts_steer_req_mismatch_last' = clock
        /\ cut_age' = 0 /\ matched' = 0
    BY <1>1, <1>2, <1>3, <1>4, <1>8, SteerAssumption
       DEF Accept, Sent, MIN, IInv, TypeOK
  <2>2. get_ts_elapsed(clock', ts_steer_req_mismatch_last') = 0
    BY <2>1, Elapsed DEF IInv, TypeOK, Timestamp
  <2> QED BY <1>2, <1>5, <1>6, <1>7, <1>8, <2>1, <2>2 DEF IInv, Inv
<1>9. CASE ~mismatch
  <2>1. /\ cuts' = 0 /\ cut_age' = cut_age /\ clock' = clock
        /\ ts_steer_req_mismatch_last' = ts_steer_req_mismatch_last
    BY <1>4, <1>9 DEF Accept, Sent
  <2>2. invalid_steer_req_count' = 0
    BY <1>4, <1>9 DEF Accept, Sent, IInv, Inv
  <2>3. valid_steer_req_count' <= matched'
    BY <1>4, <1>9, SteerAssumption DEF Accept, Sent, IInv, Inv, TypeOK, MIN
  <2> QED BY <1>5, <1>6, <1>7, <2>1, <2>2, <2>3 DEF IInv, Inv, get_ts_elapsed
<1> QED BY <1>8, <1>9

LEMMA SendsNothingStep ==
    ASSUME IInv, NEW torque \in Int,
           UNCHANGED <<controls_allowed, samples, clock>>,
           SendsNothing(torque)
    PROVE  IInv'
<1>1. torque = 0 /\ torque \in Torque
  BY SteerAssumption DEF SendsNothing, Torque
<1>2. Reset(torque) /\ Sent(torque, FALSE) /\ rest_age' = 0
  BY DEF SendsNothing
<1>3. TypeOK'
  <2>1. /\ sent' \in Torque
        /\ held' \in 0 .. max_steer + 1
        /\ cuts' \in 0 .. max_invalid_request_frames
        /\ matched' \in 0 .. min_valid_request_frames
        /\ cut_age' \in 0 .. min_valid_request_rt_interval
    BY <1>1, <1>2, SentType DEF IInv
  <2>2. /\ desired_torque_last' \in Torque
        /\ rt_torque_last' \in Torque
        /\ ts_torque_check_last' \in Timestamp
        /\ valid_steer_req_count' \in 0 .. min_valid_request_frames
        /\ invalid_steer_req_count' \in 0 .. max_invalid_request_frames
        /\ ts_steer_req_mismatch_last' \in Timestamp
    BY <1>1, <1>2, CheckedType DEF IInv
  <2>3. rest_age' \in 0 .. LongAge
    BY <1>2, LongAgeType
  <2> QED BY <2>1, <2>2, <2>3 DEF IInv, TypeOK
<1>4. held' > 0 => sent' <= MAX(max_steer - held' * max_rate_down, 0)
  BY <1>1, <1>2, Overruled
<1>5. get_ts_elapsed(clock', ts_steer_req_mismatch_last') = 0
  BY <1>2, Elapsed DEF Reset, IInv, TypeOK, Timestamp
<1>6. /\ desired_torque_last' = 0 /\ sent' = 0 /\ cuts' = 0
      /\ invalid_steer_req_count' = 0 /\ valid_steer_req_count' = 0
      /\ matched' \in Nat /\ cut_age' \in Nat
  BY <1>1, <1>2, <1>3 DEF Reset, Sent, TypeOK
<1> QED BY <1>3, <1>4, <1>5, <1>6 DEF IInv, Inv

LEMMA RefusedStep ==
    ASSUME IInv, NEW torque \in Int,
           UNCHANGED <<controls_allowed, samples, clock>>,
           Refused(torque)
    PROVE  IInv'
<1>1. /\ Reset(torque) /\ rest_age' = 0
      /\ UNCHANGED <<sent, held, cuts, matched, cut_age>>
  BY DEF Refused
<1>2. Reset(0)
  BY <1>1 DEF Reset
<1>3. 0 \in Torque
  BY SteerAssumption DEF Torque
<1>4. TypeOK'
  BY <1>1, <1>2, <1>3, CheckedType, LongAgeType DEF IInv, TypeOK
<1>5. get_ts_elapsed(clock', ts_steer_req_mismatch_last') = 0
  BY <1>1, Elapsed DEF Reset, IInv, TypeOK, Timestamp
<1> QED BY <1>1, <1>4, <1>5 DEF IInv, Inv, Reset, TypeOK

LEMMA SampleStep ==
    ASSUME IInv, NEW v \in Measured, Sample(v)
    PROVE  IInv'
<1>1. samples' \in [1 .. MAX_SAMPLE_VALS -> Measured]
  BY SteerAssumption DEF Sample, IInv, TypeOK
<1>2. held' = held \/ held' = 0
  BY DEF Sample
<1>3. TypeOK'
  BY <1>1, <1>2, SteerAssumption DEF Sample, checked, IInv, TypeOK
<1> QED BY <1>2, <1>3 DEF Sample, checked, IInv, Inv, get_ts_elapsed

LEMMA AdvanceStep ==
    ASSUME IInv, Advance
    PROVE  IInv'
<1>1. clock' \in Timestamp
      /\ get_ts_elapsed(clock', ts_steer_req_mismatch_last')
           <= get_ts_elapsed(clock, ts_steer_req_mismatch_last) + 1
  BY ElapsedNext DEF Advance, checked, IInv, TypeOK
<1>2. /\ rest_age' \in 0 .. LongAge
      /\ cut_age' \in 0 .. min_valid_request_rt_interval
  BY Capped, LongAgeType, SteerAssumption DEF Advance, IInv, TypeOK
<1>3. TypeOK'
  BY <1>1, <1>2 DEF Advance, checked, IInv, TypeOK
<1>4. get_ts_elapsed(clock, ts_steer_req_mismatch_last) \in Int
  BY ElapsedType DEF IInv, TypeOK
<1>5. get_ts_elapsed(clock', ts_steer_req_mismatch_last') \in Int
  BY <1>3, ElapsedType DEF TypeOK
<1>6. \/ cut_age' = min_valid_request_rt_interval
      \/ get_ts_elapsed(clock', ts_steer_req_mismatch_last') <= cut_age'
  BY <1>1, <1>4, <1>5, SteerAssumption, SMTT(30) DEF Advance, IInv, Inv, TypeOK, MIN
<1> QED BY <1>3, <1>6 DEF Advance, checked, IInv, Inv

LEMMA IInvStep == IInv /\ [Next]_vars => IInv'
<1> SUFFICES ASSUME IInv, [Next]_vars PROVE IInv'
  OBVIOUS
<1>1. ASSUME NEW torque \in Commanded, NEW steer_req \in BOOLEAN,
             Command(torque, steer_req)
      PROVE  IInv'
  <2>1. torque \in Int
    BY SteerAssumption
  <2>2. UNCHANGED <<controls_allowed, samples, clock>>
    BY <1>1, Outcome DEF IInv
  <2>3. CASE Refused(torque)
    BY <2>1, <2>2, <2>3, RefusedStep
  <2>4. CASE SendsNothing(torque)
    BY <2>1, <2>2, <2>4, SendsNothingStep
  <2>5. ASSUME NEW mismatch \in BOOLEAN, Complies(torque, mismatch) PROVE IInv'
    <3>1. torque \in Torque
      BY <2>5 DEF Complies
    <3> QED BY <2>2, <2>5, <3>1, CompliesStep
  <2> QED BY <1>1, <2>3, <2>4, <2>5, Outcome DEF IInv
<1>2. ASSUME NEW v \in Measured, Sample(v) PROVE IInv'
  BY <1>2, SampleStep
<1>3. CASE Controls
  BY <1>3 DEF Controls, checked, ghosts, IInv, Inv, TypeOK, get_ts_elapsed
<1>4. CASE Advance
  BY <1>4, AdvanceStep
<1>5. CASE UNCHANGED vars
  BY <1>5 DEF vars, checked, ghosts, IInv, Inv, TypeOK, get_ts_elapsed
<1> QED BY <1>1, <1>2, <1>3, <1>4, <1>5 DEF Next

-----------------------------------------------------------------------------
(* The theorems *)

LEMMA Inductive == Spec => []IInv
<1>1. Init => IInv
  BY IInvInit
<1>2. IInv /\ [Next]_vars => IInv'
  BY IInvStep
<1> QED BY <1>1, <1>2, PTL DEF Spec

\* Every counter, timestamp and torque keeps its range: the torque on the bus
\* is within max_steer, whatever the host asks for.
THEOREM TypeCorrect == Spec => []TypeOK
<1>1. IInv => TypeOK
  BY DEF IInv
<1> QED BY <1>1, Inductive, PTL

\* A driver who holds against the torque gets rid of it, for any allowance,
\* factor and rate.
THEOREM DriverWins == Spec => []DriverOverrules
<1>1. IInv => DriverOverrules
  BY DEF IInv, Inv, DriverOverrules
<1> QED BY <1>1, Inductive, PTL

\* The torque on the bus grows by at most max_rate_up per command: what the
\* checks remember is what went out last, or 0.
THEOREM Slow == Spec => GrowsSlowly
<1> DEFINE A == /\ sent' <= MAX(sent, 0) + max_rate_up
                /\ sent' >= MIN(sent, 0) - max_rate_up
<1>1. IInv /\ [Next]_vars => [A]_vars
  <2> SUFFICES ASSUME IInv, Next PROVE A
    OBVIOUS
  <2>1. /\ sent \in Int /\ max_rate_up \in Nat
        /\ desired_torque_last \in {0, sent}
    BY SteerAssumption DEF IInv, Inv, TypeOK, Torque
  <2>2. CASE sent' = sent \/ sent' = 0
    BY <2>1, <2>2 DEF MIN, MAX
  <2>3. ASSUME NEW torque \in Commanded, NEW steer_req \in BOOLEAN,
               Command(torque, steer_req)
        PROVE  A
    <3>1. CASE Refused(torque)
      BY <2>2, <3>1 DEF Refused
    <3>2. CASE SendsNothing(torque)
      BY <2>2, <3>2 DEF SendsNothing, Sent
    <3>3. ASSUME NEW mismatch \in BOOLEAN, Complies(torque, mismatch) PROVE A
      <4>1. /\ sent' = torque
            /\ torque <= MAX(desired_torque_last, 0) + max_rate_up
            /\ torque >= MIN(desired_torque_last, 0) - max_rate_up
            /\ torque \in Int
        BY <3>3, SteerAssumption DEF Complies, Sent
      <4> QED BY <2>1, <4>1 DEF MIN, MAX
    <3> QED BY <2>3, <3>1, <3>2, <3>3, Outcome DEF IInv
  <2>4. (\E v \in Measured : Sample(v)) \/ Controls \/ Advance => sent' = sent
    BY DEF Sample, Controls, Advance
  <2> QED BY <2>2, <2>3, <2>4 DEF Next
<1> QED BY <1>1, Inductive, PTL DEF Spec, GrowsSlowly

\* The request bit is cut only after enough commands and enough time, and for
\* no more than max_invalid_request_frames, wherever the timer wraps.
THEOREM RareCuts == Spec => CutsAreRare
<1> DEFINE I == cuts <= max_invalid_request_frames
           A == cuts = 0 /\ cuts' = 1 =>
                  /\ matched >= min_valid_request_frames
                  /\ cut_age >= min_valid_request_rt_interval
<1>1. IInv => I
  BY SteerAssumption DEF IInv, TypeOK
<1>2. IInv /\ [Next]_vars => [A]_vars
  <2> SUFFICES ASSUME IInv, Next, cuts = 0, cuts' = 1
               PROVE  /\ matched >= min_valid_request_frames
                      /\ cut_age >= min_valid_request_rt_interval
    OBVIOUS
  <2>1. ASSUME NEW torque \in Commanded, NEW mismatch \in BOOLEAN,
               Complies(torque, mismatch)
        PROVE  /\ matched >= min_valid_request_frames
               /\ cut_age >= min_valid_request_rt_interval
    <3>1. mismatch /\ ~CutViolation
      BY <2>1 DEF Complies, Sent
    <3>2. invalid_steer_req_count = 0
      BY DEF IInv, Inv
    <3>3. /\ ~(valid_steer_req_count < min_valid_request_frames)
          /\ ~(get_ts_elapsed(clock, ts_steer_req_mismatch_last)
                 < min_valid_request_rt_interval)
      BY <3>1, <3>2 DEF CutViolation
    <3>4. get_ts_elapsed(clock, ts_steer_req_mismatch_last) \in Nat
      BY ElapsedType DEF IInv, TypeOK
    <3> QED BY <3>3, <3>4, SteerAssumption DEF IInv, Inv, TypeOK
  <2>2. ASSUME NEW torque \in Commanded, NEW steer_req \in BOOLEAN,
               Command(torque, steer_req)
        PROVE  \E mismatch \in BOOLEAN : Complies(torque, mismatch)
    <3>1. ~Refused(torque)
      BY DEF Refused
    <3>2. ~SendsNothing(torque)
      BY DEF SendsNothing, Sent
    <3> QED BY <2>2, <3>1, <3>2, Outcome DEF IInv
  <2>3. (\E v \in Measured : Sample(v)) \/ Controls \/ Advance => cuts' = cuts
    BY DEF Sample, Controls, Advance, ghosts
  <2> QED BY <2>1, <2>2, <2>3 DEF Next
<1> QED BY <1>1, <1>2, Inductive, PTL DEF Spec, CutsAreRare

-----------------------------------------------------------------------------
(* The ramp: q intervals have passed since rest when rt_torque_last is at   *)
(* most q * max_rt_delta.                                                   *)

Interval == max_rt_interval + 1

Waited == MIN(get_ts_elapsed(clock, ts_torque_check_last), Interval)

Intervals(q) ==
    /\ q * Interval + Waited <= rest_age
    /\ rt_torque_last <= max_rt_delta * q
    /\ -rt_torque_last <= max_rt_delta * q

RampInv ==
    /\ desired_torque_last <= MAX(rt_torque_last, 0) + max_rt_delta
    /\ desired_torque_last >= MIN(rt_torque_last, 0) - max_rt_delta
    /\ max_rt_delta = 0 => rt_torque_last = 0
    /\ rest_age = LongAge \/ \E q \in Nat : Intervals(q)

LEMMA WaitedType ==
    ASSUME TypeOK
    PROVE  /\ get_ts_elapsed(clock, ts_torque_check_last) \in Nat
           /\ Waited \in 0 .. Interval /\ Interval \in Nat
<1>1. get_ts_elapsed(clock, ts_torque_check_last) \in Nat
  BY ElapsedType DEF TypeOK
<1> QED BY <1>1, SteerAssumption DEF Waited, Interval, MIN

LEMMA RampInit == Init => RampInv
<1> SUFFICES ASSUME Init PROVE RampInv
  OBVIOUS
<1>1. Waited \in 0 .. Interval /\ Interval \in Nat
  BY TypeInit, WaitedType
<1>2. Intervals(0)
  BY <1>1, SteerAssumption DEF Intervals, Init, Interval
<1> QED BY <1>2, SteerAssumption DEF RampInv, Init, MIN, MAX

LEMMA RampRest ==
    ASSUME TypeOK, TypeOK', NEW torque, Reset(torque), rest_age' = 0,
           UNCHANGED clock
    PROVE  RampInv'
<1>1. get_ts_elapsed(clock', ts_torque_check_last') = 0
  BY NoneElapsed DEF Reset, TypeOK
<1>2. Waited' = 0
  BY <1>1, SteerAssumption DEF Waited, Interval, MIN
<1>3. /\ rt_torque_last' = 0 /\ desired_torque_last' = 0
  BY DEF Reset
<1>4. Intervals(0)'
  BY <1>2, <1>3, SteerAssumption DEF Intervals, Interval
<1> QED BY <1>3, <1>4, SteerAssumption DEF RampInv, MIN, MAX

LEMMA RampComplies ==
    ASSUME TypeOK, TypeOK', RampInv, NEW torque \in Torque, NEW mismatch,
           Complies(torque, mismatch), UNCHANGED clock
    PROVE  RampInv'
<1>1. /\ torque <= MAX(rt_torque_last, 0) + max_rt_delta
      /\ torque >= MIN(rt_torque_last, 0) - max_rt_delta
      /\ desired_torque_last' = torque
      /\ RealTime(torque)
      /\ rest_age' = rest_age
  BY DEF Complies, Accept
<1>2. /\ torque \in Int /\ rt_torque_last \in Int
      /\ max_rt_delta \in Nat /\ rest_age \in Nat
  BY SteerAssumption DEF TypeOK, Torque
<1>3. CASE UNCHANGED <<rt_torque_last, ts_torque_check_last>>
  BY <1>1, <1>3 DEF RampInv, Intervals, Waited
<1>4. CASE /\ get_ts_elapsed(clock, ts_torque_check_last) > max_rt_interval
           /\ rt_torque_last' = torque
           /\ ts_torque_check_last' = clock
  <2>1. Waited = Interval
    BY <1>4, WaitedType, SteerAssumption DEF Waited, Interval, MIN
  <2>2. Waited' = 0
    <3>1. get_ts_elapsed(clock', ts_torque_check_last') = 0
      BY <1>4, NoneElapsed DEF TypeOK
    <3> QED BY <3>1, SteerAssumption DEF Waited, Interval, MIN
  <2>3. ASSUME NEW q \in Nat, Intervals(q) PROVE Intervals(q + 1)'
    <3> DEFINE d == max_rt_delta * q
               t == q * Interval
    <3>1. d \in Nat /\ max_rt_delta * (q + 1) = d + max_rt_delta
      BY <1>2
    <3>2. t \in Nat /\ (q + 1) * Interval = t + Interval
      BY WaitedType
    <3>3. t + Interval <= rest_age /\ rt_torque_last <= d /\ -rt_torque_last <= d
      BY <2>1, <2>3 DEF Intervals
    <3> HIDE DEF d, t
    <3>4. torque <= d + max_rt_delta /\ -torque <= d + max_rt_delta
      BY <1>1, <1>2, <3>1, <3>3 DEF MIN, MAX
    <3> QED BY <1>1, <1>2, <1>4, <2>2, <3>1, <3>2, <3>3, <3>4, WaitedType
            DEF Intervals
  <2>4. rest_age' = LongAge \/ \E q \in Nat : Intervals(q)'
    BY <1>1, <2>3 DEF RampInv
  <2>5. max_rt_delta = 0 => torque = 0
    BY <1>1, <1>2 DEF RampInv, MIN, MAX
  <2>6. /\ torque <= MAX(torque, 0) + max_rt_delta
        /\ torque >= MIN(torque, 0) - max_rt_delta
    BY <1>2 DEF MIN, MAX
  <2> QED BY <1>1, <1>4, <2>4, <2>5, <2>6 DEF RampInv
<1> QED BY <1>1, <1>3, <1>4 DEF RealTime

LEMMA RampAdvance ==
    ASSUME TypeOK, TypeOK', RampInv, Advance
    PROVE  RampInv'
<1>1. UNCHANGED <<desired_torque_last, rt_torque_last, ts_torque_check_last>>
  BY DEF Advance, checked
<1>2. rest_age' = LongAge \/ rest_age' = rest_age + 1
  BY LongAgeType DEF Advance, MIN, TypeOK
<1>3. rest_age = LongAge => rest_age' = LongAge
  BY LongAgeType DEF Advance, MIN
<1>4. Waited' <= Waited + 1
  <2>1. get_ts_elapsed(clock', ts_torque_check_last')
          <= get_ts_elapsed(clock, ts_torque_check_last) + 1
    BY <1>1, ElapsedNext DEF Advance, TypeOK
  <2>2. /\ get_ts_elapsed(clock', ts_torque_check_last') \in Nat
        /\ get_ts_elapsed(clock, ts_torque_check_last) \in Nat
        /\ Interval \in Nat
    BY ElapsedType, WaitedType DEF TypeOK
  <2> QED BY <2>1, <2>2 DEF Waited, Interval, MIN
<1>5. ASSUME NEW q \in Nat, Intervals(q), rest_age' = rest_age + 1
      PROVE  Intervals(q)'
  <2>1. /\ q * Interval \in Nat /\ Waited \in Nat /\ Waited' \in Int
        /\ rest_age \in Nat
    <3>1. get_ts_elapsed(clock', ts_torque_check_last') \in Nat
      BY ElapsedType DEF TypeOK
    <3>2. Waited' \in Int
      BY <3>1, SteerAssumption DEF Waited, Interval, MIN
    <3>3. Waited \in Nat /\ Interval \in Nat /\ rest_age \in Nat
      <4>1. Waited \in 0 .. Interval /\ Interval \in Nat
        BY WaitedType
      <4>2. rest_age \in Nat
        BY LongAgeType DEF TypeOK
      <4> QED BY <4>1, <4>2
    <3>4. q * Interval \in Nat
      BY <3>3
    <3> QED BY <3>2, <3>3, <3>4
  <2>2. q * Interval + Waited <= rest_age
    BY <1>5 DEF Intervals
  <2>3. q * Interval + Waited' <= rest_age'
    BY <1>4, <1>5, <2>1, <2>2
  <2> QED BY <1>1, <1>5, <2>3 DEF Intervals, Interval
<1> QED BY <1>1, <1>2, <1>3, <1>5 DEF RampInv

LEMMA RampStep == IInv /\ IInv' /\ RampInv /\ [Next]_vars => RampInv'
<1> SUFFICES ASSUME TypeOK, TypeOK', RampInv, [Next]_vars PROVE RampInv'
  BY DEF IInv
<1>1. ASSUME NEW torque \in Commanded, NEW steer_req \in BOOLEAN,
             Command(torque, steer_req)
      PROVE  RampInv'
  <2>1. CASE Refused(torque)
    BY <1>1, <2>1, Outcome, RampRest DEF Refused
  <2>2. CASE SendsNothing(torque)
    BY <1>1, <2>2, Outcome, RampRest DEF SendsNothing
  <2>3. ASSUME NEW mismatch \in BOOLEAN, Complies(torque, mismatch) PROVE RampInv'
    <3>1. torque \in Torque
      BY <2>3 DEF Complies
    <3> QED BY <1>1, <2>3, <3>1, Outcome, RampComplies
  <2> QED BY <1>1, <2>1, <2>2, <2>3, Outcome
<1>2. CASE Advance
  BY <1>2, RampAdvance
<1>3. CASE (\E v \in Measured : Sample(v)) \/ Controls \/ UNCHANGED vars
  <2>1. UNCHANGED <<clock, desired_torque_last, rt_torque_last,
                    ts_torque_check_last, rest_age>>
    BY <1>3 DEF Sample, Controls, vars, checked, ghosts
  <2> QED BY <2>1 DEF RampInv, Intervals, Waited
<1> QED BY <1>1, <1>2, <1>3 DEF Next

\* From rest, every max_rt_interval lets the torque grow by max_rt_delta, for
\* any speed of the commands and wherever the timer wraps.
THEOREM Ramp == Spec => []RampTakesTime
<1>1. IInv /\ RampInv => RampTakesTime
  <2> SUFFICES ASSUME TypeOK, RampInv PROVE RampTakesTime
    BY DEF IInv
  <2> DEFINE n == rest_age \div Interval
             d == max_rt_delta * n
  <2>1. /\ Interval \in Nat \ {0} /\ rest_age \in Nat /\ max_rt_delta \in Nat
        /\ max_steer \in Nat
        /\ desired_torque_last \in Torque /\ rt_torque_last \in Int
    BY SteerAssumption DEF Interval, TypeOK, Torque
  <2>2. n \in Nat /\ d \in Nat /\ max_rt_delta * (1 + n) = max_rt_delta + d
    <3>1. n \in Nat
      BY <2>1, Z3
    <3> QED BY <2>1, <3>1
  <2>3. ASSUME NEW q \in Nat, Intervals(q)
        PROVE  rt_torque_last <= d /\ -rt_torque_last <= d
    <3>1. q * Interval <= rest_age
      BY <2>3, <2>1, WaitedType DEF Intervals
    <3>2. q <= n
      BY <2>1, <3>1, Z3
    <3>3. max_rt_delta * q <= d
      BY <2>1, <2>2, <3>2, Z3
    <3>4. max_rt_delta * q \in Nat
      BY <2>1
    <3> HIDE DEF d
    <3> QED BY <2>1, <2>2, <2>3, <3>3, <3>4 DEF Intervals
  <2>4. CASE \E q \in Nat : Intervals(q)
    <3>1. rt_torque_last <= d /\ -rt_torque_last <= d
      BY <2>3, <2>4
    <3> HIDE DEF d
    <3>2. /\ desired_torque_last <= max_rt_delta + d
          /\ -(max_rt_delta + d) <= desired_torque_last
      BY <2>1, <2>2, <3>1 DEF RampInv, MIN, MAX, Torque
    <3> QED BY <2>2, <3>2 DEF RampTakesTime, Interval
  <2>5. CASE rest_age = LongAge
    <3>1. n = max_steer + 1
      BY <2>1, <2>5, Z3 DEF LongAge, Interval
    <3>2. CASE max_rt_delta = 0
      <4>1. desired_torque_last = 0
        BY <2>1, <3>2 DEF RampInv, MIN, MAX, Torque
      <4> QED BY <2>2, <3>2, <4>1 DEF RampTakesTime, Interval
    <3>3. CASE max_rt_delta >= 1
      <4>1. max_steer <= d
        BY <2>1, <3>1, <3>3, Z3
      <4> HIDE DEF d
      <4>2. /\ desired_torque_last <= max_rt_delta + d
            /\ -(max_rt_delta + d) <= desired_torque_last
        BY <2>1, <2>2, <4>1 DEF Torque
      <4> QED BY <2>2, <4>2 DEF RampTakesTime, Interval
    <3> QED BY <2>1, <3>2, <3>3
  <2> QED BY <2>4, <2>5 DEF RampInv
<1> QED BY <1>1, Inductive, RampInit, RampStep, PTL DEF Spec

-----------------------------------------------------------------------------
(* Angles: the limits *)

\* What is greatest and smallest of samples that come from a finite set.
LEMMA Extremes ==
    ASSUME NEW S, S \subseteq Int, IsFiniteSet(S), NEW s \in [1 .. Samples -> S]
    PROVE  /\ Largest(s) \in S /\ Smallest(s) \in S
           /\ Smallest(s) <= Largest(s)
<1> DEFINE R == {s[i] : i \in 1 .. Samples}
<1>1. R \subseteq S /\ s[1] \in R
  BY AngleAssumption, SMTT(30) DEF AngleAssumption
<1>2. R \subseteq Int /\ IsFiniteSet(R) /\ R # {}
  BY <1>1, FS_Subset
<1>3. Largest(s) \in R /\ \A i \in 1 .. Samples : s[i] <= Largest(s)
  <2>1. PICK x \in R : \A y \in R : y <= x
    BY <1>2, Greatest
  <2>2. \A i \in 1 .. Samples : s[i] <= x
    BY <2>1
  <2> QED BY <2>1, <2>2 DEF Largest
<1>4. Smallest(s) \in R /\ \A i \in 1 .. Samples : Smallest(s) <= s[i]
  <2>1. PICK x \in R : \A y \in R : x <= y
    BY <1>2, Least
  <2>2. \A i \in 1 .. Samples : x <= s[i]
    BY <2>1
  <2> QED BY <2>1, <2>2 DEF Smallest
<1> QED BY <1>1, <1>3, <1>4

\* The rates are natural numbers, the faster car's the lower ones.
LEMMA Rates ==
    ASSUME vehicle_speed \in [1 .. Samples -> Speed]
    PROVE  /\ SlowUp \in Nat /\ SlowDown \in Nat
           /\ FastUp \in Nat /\ FastDown \in Nat
           /\ FastUp <= SlowUp /\ FastDown <= SlowDown
<1>1. Speed \subseteq Int /\ IsFiniteSet(Speed)
  BY AngleAssumption, FS_Interval DEF AngleAssumption, Speed
<1>2. /\ Largest(vehicle_speed) \in Speed /\ Smallest(vehicle_speed) \in Speed
      /\ Smallest(vehicle_speed) <= Largest(vehicle_speed)
  BY <1>1, Extremes
<1> DEFINE v == Smallest(vehicle_speed) - 1
           w == Largest(vehicle_speed) + 1
<1>3. v \in -1 .. MaxSpeed + 1 /\ w \in -1 .. MaxSpeed + 1 /\ v <= w
  <2>1. MaxSpeed \in Nat
    BY AngleAssumption DEF AngleAssumption
  <2> QED BY <1>2, <2>1 DEF Speed
<1> HIDE DEF v, w
<1>4. /\ RateUp[v] \in Nat /\ RateUp[w] \in Nat
      /\ RateDown[v] \in Nat /\ RateDown[w] \in Nat
      /\ RateUp[w] <= RateUp[v] /\ RateDown[w] <= RateDown[v]
  BY <1>3, AngleAssumption DEF AngleAssumption
<1> QED BY <1>4 DEF SlowUp, SlowDown, FastUp, FastDown, v, w

\* The range around what is measured.
LEMMA Measures ==
    ASSUME NEW meas \in [1 .. Samples -> MeasAngles]
    PROVE  /\ LowestMeas(meas) \in Int /\ HighestMeas(meas) \in Int
           /\ LowestMeas(meas) <= HighestMeas(meas)
<1>1. /\ Largest(meas) \in Int /\ Smallest(meas) \in Int
      /\ Smallest(meas) <= Largest(meas)
  BY Extremes, AngleAssumption DEF AngleAssumption
<1>2. Limits.max_angle_error \in Nat
  BY AngleAssumption DEF AngleAssumption
<1> QED BY <1>1, <1>2 DEF LowestMeas, HighestMeas

LEMMA ClampTypes ==
    ASSUME NEW a \in Int
    PROVE  Clamp(a) \in Int /\ -Limits.max_steer <= Clamp(a)
<1>1. Limits.max_steer \in Nat
  BY AngleAssumption DEF AngleAssumption
<1> QED BY <1>1 DEF Clamp, Greater, Lesser

LEMMA ClampMonotone ==
    ASSUME NEW a \in Int, NEW b \in Int, a <= b
    PROVE  Clamp(a) <= Clamp(b)
<1>1. Limits.max_steer \in Nat
  BY AngleAssumption DEF AngleAssumption
<1> QED BY <1>1 DEF Clamp, Greater, Lesser

\* How far the rates let an angle go, up and down, at both speeds.
LEMMA Reach ==
    ASSUME NEW last \in Int, NEW up \in Nat, NEW down \in Nat
    PROVE  /\ Above(last, up, down) \in Int /\ Below(last, up, down) \in Int
           /\ last + Lesser(up, down) <= Above(last, up, down)
           /\ Below(last, up, down) + Lesser(up, down) <= last
           /\ last <= Above(last, up, down) /\ Below(last, up, down) <= last
BY DEF Above, Below, Lesser

LEMMA FasterReach ==
    ASSUME NEW last \in Int, NEW up \in Nat, NEW down \in Nat,
           NEW fastup \in Nat, NEW fastdown \in Nat, fastup <= up, fastdown <= down
    PROVE  /\ Above(last, fastup, fastdown) <= Above(last, up, down)
           /\ Below(last, up, down) <= Below(last, fastup, fastdown)
BY DEF Above, Below

LEMMA AngleTypeStep == AngleTypeOK /\ [AngleNext]_angleVars => AngleTypeOK'
<1> SUFFICES ASSUME AngleTypeOK, [AngleNext]_angleVars PROVE AngleTypeOK'
  OBVIOUS
<1>0. /\ MaxSpeed \in Nat /\ 0 \in MeasAngles /\ 0 \in Angles /\ Angles \subseteq Int
      /\ Samples \in Nat
  BY AngleAssumption DEF AngleAssumption
<1>1. /\ controls \in BOOLEAN
      /\ vehicle_speed \in [1 .. Samples -> Speed]
      /\ angle_meas \in [1 .. Samples -> MeasAngles]
      /\ desired_angle_last \in Angles
      /\ angle_sent \in [steers : BOOLEAN, angle : Angles]
      /\ start \in Nat /\ steered \in Nat
  BY DEF AngleTypeOK
<1>2. ASSUME NEW angle \in Angles, NEW meas \in [1 .. Samples -> MeasAngles]
      PROVE  Excess(angle, meas) \in Nat
  <2>1. angle \in Int
    BY <1>0
  <2>2. Clamp(HighestMeas(meas)) \in Int /\ Clamp(LowestMeas(meas)) \in Int
    BY Measures, ClampTypes
  <2> QED BY <2>1, <2>2 DEF Excess, Greater
<1>3. 0 \in Speed
  BY <1>0 DEF Speed
<1>4. ASSUME NEW S, NEW s \in [1 .. Samples -> S], NEW v \in S
      PROVE  Shifted(s, v) \in [1 .. Samples -> S]
  <2>1. \A i \in 1 .. Samples : i # 1 => i - 1 \in 1 .. Samples
    BY <1>0
  <2> QED BY <1>4, <2>1 DEF Shifted
<1>5. CASE \E angle \in Angles, steers \in BOOLEAN : AngleCommand(angle, steers)
  <2>1. PICK angle \in Angles, steers \in BOOLEAN : AngleCommand(angle, steers)
    BY <1>5
  <2>2. start' \in Nat /\ steered' \in Nat
    BY <1>1, <1>2, <2>1 DEF AngleCommand
  <2>3. angle_sent' \in [steers : BOOLEAN, angle : Angles]
    BY <1>1, <2>1 DEF AngleCommand
  <2> QED BY <1>1, <2>1, <2>2, <2>3 DEF AngleCommand, AngleTypeOK
<1>6. CASE SpeedSample
  <2>1. PICK v \in Speed : vehicle_speed' = Shifted(vehicle_speed, v)
    BY <1>6 DEF SpeedSample
  <2>2. vehicle_speed' \in [1 .. Samples -> Speed]
    BY <1>1, <1>4, <2>1
  <2> QED BY <1>1, <1>2, <1>6, <2>2 DEF SpeedSample, Anew, AngleTypeOK
<1>7. CASE AngleSample
  <2>1. PICK v \in MeasAngles : angle_meas' = Shifted(angle_meas, v)
    BY <1>7 DEF AngleSample
  <2>2. angle_meas' \in [1 .. Samples -> MeasAngles]
    BY <1>1, <1>4, <2>1
  <2> QED BY <1>1, <1>2, <1>7, <2>2 DEF AngleSample, Anew, AngleTypeOK
<1>8. CASE ControlsChange
  BY <1>1, <1>8 DEF ControlsChange, AngleTypeOK
<1>9. CASE SetHooks
  <2>1. Zeros \in [1 .. Samples -> Speed] /\ Zeros \in [1 .. Samples -> MeasAngles]
    BY <1>0, <1>3 DEF Zeros
  <2> QED BY <1>0, <1>1, <1>2, <1>9, <2>1 DEF SetHooks, Anew, AngleTypeOK
<1>10. CASE UNCHANGED angleVars
  BY <1>1, <1>10 DEF angleVars, AngleTypeOK
<1> QED BY <1>5, <1>6, <1>7, <1>8, <1>9, <1>10 DEF AngleNext

LEMMA AngleTypeInit == AngleInit => AngleTypeOK
<1> SUFFICES ASSUME AngleInit PROVE AngleTypeOK
  OBVIOUS
<1> USE AngleAssumption DEF AngleAssumption
<1>1. Zeros \in [1 .. Samples -> Speed] /\ Zeros \in [1 .. Samples -> MeasAngles]
  BY DEF Zeros, Speed
<1>2. Clamp(HighestMeas(Zeros)) \in Int /\ Clamp(LowestMeas(Zeros)) \in Int
  BY <1>1, Measures, ClampTypes
<1>3. Excess(0, Zeros) \in Nat
  BY <1>2 DEF Excess, Greater
<1> QED BY <1>1, <1>3 DEF AngleInit, AngleTypeOK

\* What the checks remember of angles keeps its ranges: samples come from the car,
\* the angle remembered from the host.
THEOREM AngleTypes == AngleSpec => []AngleTypeOK
BY AngleTypeInit, AngleTypeStep, PTL DEF AngleSpec

-----------------------------------------------------------------------------
(* Angles: some angle is allowed, and it is nearer *)

\* The terms of both limits, as integers in their order.
LEMMA Terms ==
    ASSUME AngleTypeOK, NEW last \in Int
    PROVE  LET low == Below(last, SlowUp, SlowDown)
               high == Above(last, SlowUp, SlowDown)
               up == Above(last, FastUp, FastDown)
               down == Below(last, FastUp, FastDown)
               least == LowestMeas(angle_meas)
               most == HighestMeas(angle_meas)
           IN  /\ low \in Int /\ high \in Int /\ up \in Int /\ down \in Int
               /\ least \in Int /\ most \in Int
               /\ low <= down /\ down <= last /\ last <= up /\ up <= high
               /\ least <= most
               /\ down + Lesser(FastUp, FastDown) <= last
               /\ last + Lesser(FastUp, FastDown) <= up
               /\ Lesser(FastUp, FastDown) \in Nat
<1>1. /\ SlowUp \in Nat /\ SlowDown \in Nat /\ FastUp \in Nat /\ FastDown \in Nat
      /\ FastUp <= SlowUp /\ FastDown <= SlowDown
  BY Rates DEF AngleTypeOK
<1>2. /\ LowestMeas(angle_meas) \in Int /\ HighestMeas(angle_meas) \in Int
      /\ LowestMeas(angle_meas) <= HighestMeas(angle_meas)
  BY Measures DEF AngleTypeOK
<1>3. Lesser(FastUp, FastDown) \in Nat
  BY <1>1 DEF Lesser
<1> QED BY <1>1, <1>2, <1>3, Reach, FasterReach

\* The limits on the rate give way to those on the error, and leave an angle.
LEMMA NoContradiction ==
    ASSUME NEW low \in Int, NEW high \in Int, NEW up \in Int, NEW down \in Int,
           NEW least \in Int, NEW most \in Int,
           low <= down, down <= up, up <= high, least <= most
    PROVE  Lesser(Greater(low, least), up) <= Greater(Lesser(high, most), down)
BY DEF Lesser, Greater

\* Whatever was measured and asked for, steer_angle_cmd_checks allows some angle:
\* lowest_desired_angle never exceeds highest_desired_angle.
THEOREM AngleExists == AngleSpec => []SomeAngleIsAllowed
<1>1. AngleTypeOK => SomeAngleIsAllowed
  <2> SUFFICES ASSUME AngleTypeOK PROVE SomeAngleIsAllowed
    OBVIOUS
  <2> DEFINE last == desired_angle_last
             low == Below(last, SlowUp, SlowDown)
             high == Above(last, SlowUp, SlowDown)
             up == Above(last, FastUp, FastDown)
             down == Below(last, FastUp, FastDown)
             least == LowestMeas(angle_meas)
             most == HighestMeas(angle_meas)
             a == Lesser(Greater(low, least), up)
             b == Greater(Lesser(high, most), down)
  <2>1. last \in Int
    BY AngleAssumption DEF AngleTypeOK, AngleAssumption
  <2>2. /\ low \in Int /\ high \in Int /\ up \in Int /\ down \in Int
        /\ least \in Int /\ most \in Int
        /\ low <= down /\ down <= last /\ last <= up /\ up <= high
        /\ least <= most
    BY <2>1, Terms
  <2>3. /\ Lowest(last) = IF ErrorEnforced THEN Clamp(a) ELSE low
        /\ Highest(last) = IF ErrorEnforced THEN Clamp(b) ELSE high
    BY DEF Lowest, Highest
  <2> HIDE DEF last, low, high, up, down, least, most
  <2>4. down <= up /\ low <= high
    BY <2>1, <2>2
  <2>5. a <= b
    BY <2>2, <2>4, NoContradiction
  <2>6. a \in Int /\ b \in Int
    BY <2>2 DEF Lesser, Greater
  <2>7. Clamp(a) <= Clamp(b)
    BY <2>5, <2>6, ClampMonotone
  <2> QED BY <2>3, <2>4, <2>7 DEF SomeAngleIsAllowed, last
<1> QED BY <1>1, AngleTypes, PTL

\* An angle above the range that is allowed is within the rate down.
LEMMA BackDown ==
    ASSUME NEW angle \in Int, NEW high \in Int, NEW most \in Int, NEW down \in Int,
           angle > Clamp(most), angle <= Clamp(Greater(Lesser(high, most), down))
    PROVE  angle <= down
<1>1. Limits.max_steer \in Nat
  BY AngleAssumption DEF AngleAssumption
<1> QED BY <1>1 DEF Clamp, Greater, Lesser

LEMMA BackUp ==
    ASSUME NEW angle \in Int, NEW low \in Int, NEW least \in Int, NEW up \in Int,
           angle < Clamp(least), angle >= Clamp(Lesser(Greater(low, least), up))
    PROVE  angle >= up
<1>1. Limits.max_steer \in Nat
  BY AngleAssumption DEF AngleAssumption
<1> QED BY <1>1 DEF Clamp, Greater, Lesser

LEMMA Nearer ==
    ASSUME AngleTypeOK, ErrorEnforced, NEW angle \in Int,
           angle \in Lowest(desired_angle_last) .. Highest(desired_angle_last),
           Excess(angle, angle_meas) > 0
    PROVE  Excess(angle, angle_meas) + Lesser(FastUp, FastDown)
             <= Excess(desired_angle_last, angle_meas)
<1> DEFINE last == desired_angle_last
           low == Below(last, SlowUp, SlowDown)
           high == Above(last, SlowUp, SlowDown)
           up == Above(last, FastUp, FastDown)
           down == Below(last, FastUp, FastDown)
           least == LowestMeas(angle_meas)
           most == HighestMeas(angle_meas)
           rate == Lesser(FastUp, FastDown)
           top == Clamp(most)
           bottom == Clamp(least)
<1>1. last \in Int
  BY AngleAssumption DEF AngleTypeOK, AngleAssumption
<1>2. /\ low \in Int /\ high \in Int /\ up \in Int /\ down \in Int
      /\ least \in Int /\ most \in Int /\ least <= most
      /\ down + rate <= last /\ last + rate <= up /\ rate \in Nat
  BY <1>1, Terms
<1>3. /\ Lowest(last) = Clamp(Lesser(Greater(low, least), up))
      /\ Highest(last) = Clamp(Greater(Lesser(high, most), down))
  BY DEF Lowest, Highest
<1>4. /\ Excess(angle, angle_meas) = Greater(0, Greater(angle - top, bottom - angle))
      /\ Excess(last, angle_meas) = Greater(0, Greater(last - top, bottom - last))
  BY DEF Excess
<1>5. top \in Int /\ bottom \in Int /\ bottom <= top
  BY <1>2, ClampTypes, ClampMonotone
<1>6. Lesser(Greater(low, least), up) \in Int /\ Greater(Lesser(high, most), down) \in Int
  BY <1>2 DEF Lesser, Greater
<1>7. /\ Clamp(Lesser(Greater(low, least), up)) \in Int
      /\ Clamp(Greater(Lesser(high, most), down)) \in Int
  BY <1>6, ClampTypes
<1>8. angle \in Lowest(last) .. Highest(last)
  OBVIOUS
<1> HIDE DEF last, low, high, up, down, least, most, rate
<1>9. CASE angle > top
  <2>1. angle <= down
    BY <1>2, <1>3, <1>7, <1>8, <1>9, BackDown
  <2> HIDE DEF top, bottom
  <2> QED BY <1>1, <1>2, <1>4, <1>5, <1>9, <2>1 DEF Greater, last, rate
<1>10. CASE angle < bottom
  <2>1. angle >= up
    BY <1>2, <1>3, <1>7, <1>8, <1>10, BackUp
  <2> HIDE DEF top, bottom
  <2> QED BY <1>1, <1>2, <1>4, <1>5, <1>10, <2>1 DEF Greater, last, rate
<1>11. angle > top \/ angle < bottom
  <2> HIDE DEF top, bottom
  <2> QED BY <1>4, <1>5 DEF Greater
<1> QED BY <1>9, <1>10, <1>11

\* Each command that goes out took its part of what the angle was out of range.
Corrected ==
    Excess(desired_angle_last, angle_meas) + steered * Lesser(FastUp, FastDown) <= start

LEMMA TakesNone ==
    ASSUME NEW e \in Nat, NEW rate \in Nat
    PROVE  e + 0 * rate <= e
OBVIOUS

LEMMA TakesOne ==
    ASSUME NEW e \in Nat, NEW nearer \in Nat, NEW rate \in Nat, NEW n \in Nat,
           NEW first \in Nat, e + n * rate <= first, nearer + rate <= e
    PROVE  nearer + (n + 1) * rate <= first
<1> DEFINE taken == n * rate
<1>1. taken \in Nat /\ (n + 1) * rate = taken + rate
  OBVIOUS
<1>2. e + taken <= first
  OBVIOUS
<1> HIDE DEF taken
<1> QED BY <1>1, <1>2

LEMMA CorrectedStep ==
    AngleTypeOK /\ AngleTypeOK' /\ Corrected /\ [AngleNext]_angleVars => Corrected'
<1> SUFFICES ASSUME AngleTypeOK, AngleTypeOK', Corrected, [AngleNext]_angleVars
             PROVE  Corrected'
  OBVIOUS
<1> DEFINE rate == Lesser(FastUp, FastDown)
           excess == Excess(desired_angle_last, angle_meas)
<1>1. /\ rate \in Nat /\ rate' \in Nat
  <2>1. FastUp \in Nat /\ FastDown \in Nat
    BY Rates DEF AngleTypeOK
  <2>2. vehicle_speed' \in [1 .. Samples -> Speed] => FastUp' \in Nat /\ FastDown' \in Nat
    <3>1. ASSUME vehicle_speed' \in [1 .. Samples -> Speed]
          PROVE  FastUp' \in Nat /\ FastDown' \in Nat
      <4>1. Speed \subseteq Int /\ IsFiniteSet(Speed)
        BY AngleAssumption, FS_Interval DEF AngleAssumption, Speed
      <4>2. Largest(vehicle_speed') \in Speed
        BY <3>1, <4>1, Extremes
      <4>3. Largest(vehicle_speed') + 1 \in -1 .. MaxSpeed + 1
        <5>1. MaxSpeed \in Nat
          BY AngleAssumption DEF AngleAssumption
        <5> QED BY <4>2, <5>1 DEF Speed
      <4> QED BY <4>3, AngleAssumption DEF AngleAssumption, FastUp, FastDown
    <3> QED BY <3>1
  <2>3. FastUp' \in Nat /\ FastDown' \in Nat
    BY <2>2 DEF AngleTypeOK
  <2> QED BY <2>1, <2>3 DEF Lesser
<1>2. ASSUME NEW angle \in Int, NEW meas \in [1 .. Samples -> MeasAngles]
      PROVE  Excess(angle, meas) \in Nat
  <2>1. Clamp(HighestMeas(meas)) \in Int /\ Clamp(LowestMeas(meas)) \in Int
    BY Measures, ClampTypes
  <2> QED BY <2>1 DEF Excess, Greater
<1>3. /\ desired_angle_last \in Int /\ desired_angle_last' \in Int
      /\ angle_meas \in [1 .. Samples -> MeasAngles]
      /\ angle_meas' \in [1 .. Samples -> MeasAngles]
      /\ start \in Nat /\ steered \in Nat
  BY AngleAssumption DEF AngleTypeOK, AngleAssumption
<1>4. excess \in Nat /\ excess' \in Nat
  BY <1>2, <1>3
<1>5. ASSUME Anew PROVE Corrected'
  <2>1. start' = excess' /\ steered' = 0
    BY <1>5 DEF Anew
  <2>2. excess' + steered' * rate' <= start'
    BY <1>1, <1>4, <2>1, TakesNone
  <2> QED BY <2>2 DEF Corrected
<1>6. CASE \E angle \in Angles, steers \in BOOLEAN : AngleCommand(angle, steers)
  <2>1. PICK angle \in Angles, steers \in BOOLEAN : AngleCommand(angle, steers)
    BY <1>6
  <2>2. /\ desired_angle_last' = angle
        /\ UNCHANGED <<vehicle_speed, angle_meas>>
    BY <2>1 DEF AngleCommand
  <2>3. rate' = rate /\ excess' = Excess(angle, angle_meas)
    BY <2>2 DEF FastUp, FastDown
  <2>4. CASE /\ steers /\ ~Violates(angle, steers)
             /\ ErrorEnforced /\ Excess(angle, angle_meas) > 0
    <3>1. start' = start /\ steered' = steered + 1
      BY <2>1, <2>4 DEF AngleCommand
    <3>2. angle \in Lowest(desired_angle_last) .. Highest(desired_angle_last)
      BY <2>4 DEF Violates
    <3>3. excess' + rate <= excess
      BY <1>3, <2>2, <2>3, <2>4, <3>2, Nearer
    <3>4. excess + steered * rate <= start
      BY DEF Corrected
    <3>5. excess' + steered' * rate' <= start'
      BY <1>1, <1>3, <1>4, <2>3, <3>1, <3>3, <3>4, TakesOne
    <3> QED BY <3>5 DEF Corrected
  <2>5. CASE ~(/\ steers /\ ~Violates(angle, steers)
               /\ ErrorEnforced /\ Excess(angle, angle_meas) > 0)
    <3>1. Anew
      BY <2>1, <2>2, <2>5 DEF AngleCommand, Anew
    <3> QED BY <1>5, <3>1
  <2> QED BY <2>4, <2>5
<1>7. CASE SpeedSample \/ AngleSample \/ SetHooks
  BY <1>5, <1>7 DEF SpeedSample, AngleSample, SetHooks
<1>8. CASE ControlsChange \/ UNCHANGED angleVars
  BY <1>8 DEF ControlsChange, angleVars, Corrected, FastUp, FastDown
<1> QED BY <1>6, <1>7, <1>8 DEF AngleNext

\* Out of the range around what is measured, every command that goes out brings
\* the angle nearer, by the lower rate at least: the limits on the error correct it
\* ("allow a lower rate for moving towards meas when error is exceeded").
THEOREM AngleIsCorrected == AngleSpec => []ErrorIsCorrected
<1>1. AngleInit => Corrected
  <2> SUFFICES ASSUME AngleInit PROVE Corrected
    OBVIOUS
  <2>1. AngleTypeOK
    BY AngleTypeInit
  <2>2. FastUp \in Nat /\ FastDown \in Nat /\ start \in Nat
    BY <2>1, Rates DEF AngleTypeOK
  <2>3. Lesser(FastUp, FastDown) \in Nat
    BY <2>2 DEF Lesser
  <2>4. Excess(desired_angle_last, angle_meas) = start /\ steered = 0
    BY DEF AngleInit
  <2> QED BY <2>2, <2>3, <2>4 DEF Corrected
<1>2. Corrected => ErrorIsCorrected
  BY DEF Corrected, ErrorIsCorrected
<1> QED BY <1>1, <1>2, AngleTypeInit, AngleTypeStep, CorrectedStep, PTL DEF AngleSpec
=============================================================================
