------------------------------- MODULE Safety ------------------------------
(***************************************************************************)
(* The receive side of board/safety.h in a car's safety mode: which        *)
(* messages are trusted (rx_msg_safety_check), what they do to             *)
(* controls_allowed (the mode's rx hook with pcm_cruise_check and          *)
(* generic_rx_checks), the search for lagging messages once a second       *)
(* (safety_tick) and the relay malfunction that blocks all output.         *)
(*                                                                         *)
(* A car is a set of messages; Carries tells which of the signals the hook *)
(* reads each of them carries, Alternatives which messages may serve one   *)
(* entry of rx_checks.  The hook is that of the modes that follow the      *)
(* stock cruise control (safety_toyota.h).  Checksum and quality flag are  *)
(* set together and tested together: they are one flag here, intact.       *)
(***************************************************************************)
EXTENDS Integers, FiniteSets

CONSTANTS
    Msg,                  \* the messages of the car the panda receives
    Check,                \* the entries of rx_checks
    Alternatives,         \* [Check -> SUBSET Msg]: msg[] of each entry
    Carries,              \* [Msg -> SUBSET Signal]
    StockEcu,             \* messages of an ECU the open relay cuts off
    MaxCounter,           \* [Check -> Nat]: 0 means no counter
    MAX_WRONG_COUNTERS,   \* 5
    Lag,                  \* [Check -> Nat]: MAX(10 * timestep, 1 s)
    Second,               \* time units between two calls of safety_tick
    Wrap,                 \* the microsecond timer wraps here: 2^32
    Experiences,          \* bound: whether the gas pedal disengages, or both
    Horizon,              \* bound: the time a behaviour lasts
    NoMsg                 \* "none of the alternatives was seen", not in Msg

Signal == {"gas", "brake", "regen", "moving", "cruise"}
RELAY_TRNS_TIMEOUT == 1

ASSUME SafetyAssumption ==
    /\ Alternatives \in [Check -> SUBSET Msg]
    /\ \A c, d \in Check : c # d => Alternatives[c] \cap Alternatives[d] = {}
    /\ Carries \in [Msg -> SUBSET Signal]
    /\ StockEcu \subseteq Msg
    /\ MaxCounter \in [Check -> Nat]
    /\ MAX_WRONG_COUNTERS \in Nat \ {0}
    /\ Lag \in [Check -> Nat]
    /\ Second \in Nat \ {0}
    /\ Wrap \in Nat \ {0}
    /\ Experiences \subseteq BOOLEAN
    /\ Horizon \in Nat /\ Horizon >= Second
    /\ NoMsg \notin Msg

VARIABLES
    controls_allowed,
    relay_malfunction,
    alternative_experience,  \* ALT_EXP_DISABLE_DISENGAGE_ON_GAS
    safety_mode_cnt,         \* seconds in this mode, as safety_tick counts
    signal,                  \* gas_pressed, ..., cruise_engaged_prev
    status,                  \* the RxStatus of each check
    safety_rx_checks_invalid,
    now,                     \* the time that has passed, never wrapping
    last_tick,               \* when safety_tick ran last
    mode_set,                \* ghost: when the mode was set
    heard,                   \* ghost: when each check was updated last
    allowed_since,           \* ghost: when controls were allowed last
    stuck                    \* ghost: messages since the last right counter

vars == <<controls_allowed, relay_malfunction, alternative_experience,
          safety_mode_cnt, signal, status, safety_rx_checks_invalid,
          now, last_tick, mode_set, heard, allowed_since, stuck>>

ghosts == <<mode_set, heard, allowed_since, stuck>>

RxStatus == [msg : Msg \cup {NoMsg},        \* msg_seen and index
             intact : BOOLEAN,
             wrong_counters : 0 .. MAX_WRONG_COUNTERS,
             last_counter : Nat,
             last_timestamp : 0 .. Wrap - 1,
             lagging : BOOLEAN]

TypeOK == /\ controls_allowed \in BOOLEAN
          /\ relay_malfunction \in BOOLEAN
          /\ alternative_experience \in BOOLEAN
          /\ safety_mode_cnt \in 0 .. RELAY_TRNS_TIMEOUT + 1
          /\ signal \in [Signal -> BOOLEAN]
          /\ status \in [Check -> RxStatus]
          /\ \A c \in Check : /\ status[c].msg \in Alternatives[c] \cup {NoMsg}
                              /\ status[c].last_counter <= MaxCounter[c]
          /\ safety_rx_checks_invalid \in BOOLEAN
          /\ now \in 0 .. Horizon
          /\ last_tick \in 0 .. now
          /\ mode_set \in 0 .. now
          /\ heard \in [Check -> 0 .. now]
          /\ allowed_since \in 0 .. now
          /\ stuck \in [Check -> 0 .. MAX_WRONG_COUNTERS]

-----------------------------------------------------------------------------
(* Time: the timer is 32 bits wide *)

microsecond_timer == now % Wrap

\* get_ts_elapsed: the difference of two unsigned integers.
get_ts_elapsed(ts, ts_last) == (ts - ts_last) % Wrap

-----------------------------------------------------------------------------
(* Which messages are trusted *)

\* get_addr_check_index: the entries a message is checked against.  The
\* first alternative seen is the only one looked at from then on.
CheckOf(m) == {c \in Check : IF status[c].msg = NoMsg THEN m \in Alternatives[c]
                                                      ELSE status[c].msg = m}

Expected(c) == (status[c].last_counter + 1) % (MaxCounter[c] + 1)

\* update_counter: saturates at both ends.
update_counter(c, wrong, counter) ==
    IF counter = Expected(c)
    THEN IF wrong = 0 THEN 0 ELSE wrong - 1
    ELSE IF wrong = MAX_WRONG_COUNTERS THEN wrong ELSE wrong + 1

\* The status of an entry after a message with this checksum, quality and
\* counter.
Updated(c, m, intact, counter) ==
    [status[c] EXCEPT
        !.msg = m,
        !.intact = intact,
        !.wrong_counters = IF MaxCounter[c] = 0 THEN 0
                           ELSE update_counter(c, @, counter),
        !.last_counter = IF MaxCounter[c] = 0 THEN @ ELSE counter,
        !.last_timestamp = microsecond_timer]

is_msg_valid(s) == s.intact /\ s.wrong_counters < MAX_WRONG_COUNTERS

-----------------------------------------------------------------------------
(* What they do to the controls *)

\* A bug: controls are allowed as long as the stock cruise control is on.
pcm_cruise_check_level(allowed, cruise) == cruise

\* Controls are entered on the rising edge of the stock cruise control only.
pcm_cruise_check(allowed, cruise) ==
    cruise /\ (allowed \/ ~signal["cruise"])

\* A bug: a brake held since the car stood still is not looked at again.
generic_rx_checks_edges(allowed, s) ==
    /\ allowed
    /\ ~(s["gas"] /\ ~signal["gas"] /\ ~alternative_experience)
    /\ ~(s["brake"] /\ ~signal["brake"])
    /\ ~(s["regen"] /\ ~signal["regen"])

\* generic_rx_checks: pedals withdraw the controls, the brakes also when they
\* are held and the car starts to move.
generic_rx_checks(allowed, s) ==
    /\ allowed
    /\ ~(s["gas"] /\ ~signal["gas"] /\ ~alternative_experience)
    /\ ~(s["brake"] /\ (~signal["brake"] \/ s["moving"]))
    /\ ~(s["regen"] /\ (~signal["regen"] \/ s["moving"]))

\* A bug: the time the relay takes to change is cut short.
Settled_early == safety_mode_cnt >= RELAY_TRNS_TIMEOUT

\* The relay has had time to change.
Settled == safety_mode_cnt > RELAY_TRNS_TIMEOUT

\* The rx hook of the mode, for a message with the values v of the signals it
\* carries.  The hook ends with generic_rx_checks, which
\* sets every ..._prev to the value just read: between messages they are
\* equal, and signal stands for both.
RxHook(m, v) ==
    LET s == [g \in Signal |-> IF g \in Carries[m] THEN v[g] ELSE signal[g]]
        cruise == IF "cruise" \in Carries[m]
                  THEN pcm_cruise_check(controls_allowed, v["cruise"])
                  ELSE controls_allowed
    IN  /\ signal' = s
        /\ controls_allowed' = generic_rx_checks(cruise, s)
        /\ relay_malfunction' = (relay_malfunction \/ (m \in StockEcu /\ Settled))

\* A bug: controls survive a message that is not valid.
Distrust_keeps == UNCHANGED <<controls_allowed, signal, relay_malfunction>>

\* is_msg_valid withdraws the controls and the hook does not see the message.
Distrust == /\ controls_allowed' = FALSE
            /\ UNCHANGED <<signal, relay_malfunction>>

StuckCount(c, counter) ==
    IF MaxCounter[c] = 0 \/ counter = Expected(c) THEN 0
    ELSE IF stuck[c] = MAX_WRONG_COUNTERS THEN stuck[c] ELSE stuck[c] + 1

\* safety_rx_hook
Receive == \E m \in Msg, intact \in BOOLEAN :
    \E v \in [Carries[m] -> BOOLEAN] :
        \/ \E c \in CheckOf(m), counter \in 0 .. 15 :
              LET s == Updated(c, m, intact, counter)
              IN  /\ counter <= MaxCounter[c]
                  /\ status' = [status EXCEPT ![c] = s]
                  /\ heard' = [heard EXCEPT ![c] = now]
                  /\ stuck' = [stuck EXCEPT ![c] = StuckCount(c, counter)]
                  /\ IF is_msg_valid(s) THEN RxHook(m, v) ELSE Distrust
        \/ /\ CheckOf(m) = {}
           /\ RxHook(m, v)
           /\ UNCHANGED <<status, heard, stuck>>

Rx == /\ Receive
      /\ allowed_since' = IF ~controls_allowed' THEN 0
                          ELSE IF controls_allowed THEN allowed_since ELSE now
      /\ UNCHANGED <<alternative_experience, safety_mode_cnt,
                     safety_rx_checks_invalid, now, last_tick, mode_set>>

-----------------------------------------------------------------------------
(* Once a second *)

\* A bug: a message is late only after a longer time than it should.
Lagging_late(c) ==
    get_ts_elapsed(microsecond_timer, status[c].last_timestamp) > Lag[c] + Second

Lagging(c) ==
    get_ts_elapsed(microsecond_timer, status[c].last_timestamp) > Lag[c]

\* safety_tick, after tick_handler has incremented safety_mode_cnt (which is
\* only compared with RELAY_TRNS_TIMEOUT and saturates above it here).
SafetyTick ==
    LET bad == \E c \in Check : Lagging(c) \/ ~is_msg_valid(status[c])
    IN  /\ now - last_tick >= Second
        /\ last_tick' = now
        /\ safety_mode_cnt' = IF safety_mode_cnt > RELAY_TRNS_TIMEOUT
                              THEN safety_mode_cnt ELSE safety_mode_cnt + 1
        /\ status' = [c \in Check |-> [status[c] EXCEPT !.lagging = Lagging(c)]]
        /\ safety_rx_checks_invalid' = bad
        /\ controls_allowed' = (controls_allowed /\ ~bad)
        /\ allowed_since' = IF controls_allowed' THEN allowed_since ELSE 0
        /\ UNCHANGED <<relay_malfunction, alternative_experience, signal,
                       now, mode_set, heard, stuck>>

\* The tick is never late by a unit of time.
Advance == /\ now < Horizon
           /\ now - last_tick < Second
           /\ now' = now + 1
           /\ UNCHANGED <<controls_allowed, relay_malfunction,
                          alternative_experience, safety_mode_cnt, signal,
                          status, safety_rx_checks_invalid, last_tick, ghosts>>

-----------------------------------------------------------------------------
(* Entering the mode *)

NoStatus == [msg |-> NoMsg, intact |-> FALSE, wrong_counters |-> 0,
             last_counter |-> 0, last_timestamp |-> 0, lagging |-> FALSE]

\* set_safety_hooks, in an instant of the first second of the timer.
Init == /\ controls_allowed = FALSE
        /\ relay_malfunction = FALSE
        /\ alternative_experience \in Experiences
        /\ safety_mode_cnt = 0
        /\ signal = [g \in Signal |-> FALSE]
        /\ status = [c \in Check |-> NoStatus]
        /\ safety_rx_checks_invalid = FALSE
        /\ now \in 0 .. Second - 1
        /\ last_tick = 0
        /\ mode_set = now
        /\ heard = [c \in Check |-> 0]
        /\ allowed_since = 0
        /\ stuck = [c \in Check |-> 0]

\* set_safety_hooks again, after the mode was left or with other parameters.
\* Only outside a car's mode may the host set alternative_experience (0xdf).
SetSafetyHooks ==
    /\ controls_allowed' = FALSE
    /\ relay_malfunction' = FALSE
    /\ alternative_experience' \in Experiences
    /\ safety_mode_cnt' = 0
    /\ signal' = [g \in Signal |-> FALSE]
    /\ status' = [c \in Check |-> NoStatus]
    /\ safety_rx_checks_invalid' = FALSE
    /\ mode_set' = now
    /\ heard' = [c \in Check |-> 0]
    /\ allowed_since' = 0
    /\ stuck' = [c \in Check |-> 0]
    /\ UNCHANGED <<now, last_tick>>

Next == Rx \/ SafetyTick \/ Advance \/ SetSafetyHooks

Spec == Init /\ [][Next]_vars

-----------------------------------------------------------------------------
(* What must hold *)

\* Controls are never allowed in a car that brakes while it moves, whichever
\* of the two the panda learnt of first, and from whichever message
\* (generic_rx_checks).
NoControlsWhenBraking ==
    controls_allowed => ~(signal["moving"] /\ (signal["brake"] \/ signal["regen"]))

\* Controls are allowed only as long as the stock cruise control is on, as
\* far as the panda knows, and once withdrawn - by a pedal, a message that is
\* not valid or lags - they come back only when it was off in between
\* (pcm_cruise_check).
ControlsFollowCruise ==
    /\ [](controls_allowed => signal["cruise"])
    /\ [][controls_allowed' => controls_allowed \/ ~signal["cruise"]]_vars

\* The relay has the one second the code grants it after the mode was set
\* before a message of the ECU it cuts off counts as a malfunction, although
\* safety_mode_cnt only counts ticks (generic_rx_checks).
RelayHasTime == relay_malfunction => now - mode_set >= Second

\* Controls outlast a second only if every message in rx_checks was seen in
\* this mode, was valid when it came last, and came in the time allowed for
\* it and the second between two calls of safety_tick.
ControlsAreTrusted ==
    controls_allowed /\ now - allowed_since > Second =>
        \A c \in Check : /\ status[c].msg # NoMsg
                         /\ is_msg_valid(status[c])
                         /\ now - heard[c] <= Lag[c] + Second

\* A sender whose counter is wrong MAX_WRONG_COUNTERS times in a row is not
\* trusted, whatever it sent before (update_counter, is_msg_valid).
StuckIsInvalid ==
    \A c \in Check :
        stuck[c] >= MAX_WRONG_COUNTERS => ~is_msg_valid(status[c])

\* "true if and only if the time between updates is excessive"
\* (safety_declarations.h:134, of lagging), as found by the last tick for a
\* message that has not come since.
LaggingIsExact ==
    \A c \in Check :
        status[c].msg # NoMsg /\ heard[c] < last_tick =>
            status[c].lagging = (last_tick - heard[c] > Lag[c])

\* The two together: what an RxStatus says of a message is what its sender did.
StatusIsTrue == StuckIsInvalid /\ LaggingIsExact
=============================================================================
