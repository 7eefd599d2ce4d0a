----------------------------- MODULE TrustProofs ---------------------------
(***************************************************************************)
(* What Safety promises for every car, every checked message and every     *)
(* length of time, and Modes for every set of brands and brake commands    *)
(* and any number of button samples.                                       *)
(***************************************************************************)
EXTENDS Safety, Modes, TLAPS

-----------------------------------------------------------------------------
(* Safety: the invariant *)

\* The count of seconds never runs ahead of the time, and a counter that has
\* been wrong n times in a row has at least n wrong counters on its account.
Inv == /\ NoControlsWhenBraking
       /\ controls_allowed => signal["cruise"]
       /\ safety_mode_cnt >= 1 => last_tick >= mode_set
       /\ safety_mode_cnt > 1 => last_tick - mode_set >= Second
       /\ RelayHasTime
       /\ \A c \in Check : stuck[c] <= status[c].wrong_counters

IInv == TypeOK /\ Inv

-----------------------------------------------------------------------------
(* The pieces of a received message *)

\* The counter in a message is checked modulo MaxCounter + 1.
LEMMA ExpectedType ==
    ASSUME TypeOK, NEW c \in Check
    PROVE  Expected(c) \in 0 .. MaxCounter[c]
<1>1. MaxCounter[c] \in Nat
  BY SafetyAssumption
<1>2. status[c].last_counter \in Nat
  BY DEF TypeOK, RxStatus
<1> QED  BY <1>1, <1>2 DEF Expected

\* update_counter saturates at both ends.
LEMMA CounterType ==
    ASSUME TypeOK, NEW c \in Check, NEW counter \in Nat,
           NEW wrong \in 0 .. MAX_WRONG_COUNTERS
    PROVE  /\ update_counter(c, wrong, counter) \in 0 .. MAX_WRONG_COUNTERS
           /\ counter # Expected(c) =>
                 update_counter(c, wrong, counter)
                   = IF wrong = MAX_WRONG_COUNTERS THEN wrong ELSE wrong + 1
BY SafetyAssumption DEF update_counter

\* The status of an entry after a message, and the ghost that goes with it.
LEMMA UpdatedType ==
    ASSUME IInv, NEW m \in Msg, NEW intact \in BOOLEAN,
           NEW c \in CheckOf(m), NEW counter \in 0 .. 15, counter <= MaxCounter[c]
    PROVE  /\ c \in Check
           /\ Updated(c, m, intact, counter) \in RxStatus
           /\ Updated(c, m, intact, counter).msg \in Alternatives[c]
           /\ Updated(c, m, intact, counter).last_counter <= MaxCounter[c]
           /\ StuckCount(c, counter) \in 0 .. MAX_WRONG_COUNTERS
           /\ StuckCount(c, counter) <= Updated(c, m, intact, counter).wrong_counters
<1> DEFINE u == Updated(c, m, intact, counter)
<1>1. c \in Check
  BY DEF CheckOf
<1>2. status[c] \in RxStatus /\ status[c].last_counter <= MaxCounter[c]
  BY <1>1 DEF IInv, TypeOK
<1>3. m \in Alternatives[c]
  BY <1>1 DEF IInv, TypeOK, CheckOf
<1>4. microsecond_timer \in 0 .. Wrap - 1
  BY SafetyAssumption DEF IInv, TypeOK, microsecond_timer
<1>5. status[c].wrong_counters \in 0 .. MAX_WRONG_COUNTERS /\ counter \in Nat
  BY <1>2 DEF RxStatus
<1>6. /\ update_counter(c, status[c].wrong_counters, counter)
           \in 0 .. MAX_WRONG_COUNTERS
      /\ counter # Expected(c) =>
           update_counter(c, status[c].wrong_counters, counter)
             = IF status[c].wrong_counters = MAX_WRONG_COUNTERS
               THEN status[c].wrong_counters ELSE status[c].wrong_counters + 1
  BY <1>1, <1>5, CounterType DEF IInv
<1>7. stuck[c] \in 0 .. MAX_WRONG_COUNTERS /\ stuck[c] <= status[c].wrong_counters
  BY <1>1 DEF IInv, TypeOK, Inv
<1>8. /\ u.msg = m
      /\ u.last_counter = IF MaxCounter[c] = 0 THEN status[c].last_counter
                          ELSE counter
      /\ u.wrong_counters = IF MaxCounter[c] = 0 THEN 0
                            ELSE update_counter(c, status[c].wrong_counters, counter)
  BY <1>2 DEF Updated, RxStatus
<1>9. 0 \in 0 .. MAX_WRONG_COUNTERS
  BY SafetyAssumption
<1>10. u \in RxStatus
  BY <1>2, <1>3, <1>4, <1>5, <1>6, <1>9, SafetyAssumption DEF Updated, RxStatus
<1>11. u.last_counter <= MaxCounter[c]
  BY <1>2, <1>8
<1>12. StuckCount(c, counter) \in 0 .. MAX_WRONG_COUNTERS
  BY <1>7, <1>9, SafetyAssumption DEF StuckCount
<1>13. StuckCount(c, counter) <= u.wrong_counters
  BY <1>5, <1>6, <1>7, <1>8, SafetyAssumption DEF StuckCount
<1> QED  BY <1>1, <1>3, <1>8, <1>10, <1>11, <1>12, <1>13

\* The hook: controls are entered on an edge of the cruise control, never with
\* a pedal the car brakes with, and only a settled relay malfunctions.
LEMMA HookDoes ==
    ASSUME IInv, NEW m \in Msg, NEW v \in [Carries[m] -> BOOLEAN], RxHook(m, v)
    PROVE  /\ signal' \in [Signal -> BOOLEAN]
           /\ controls_allowed' \in BOOLEAN /\ relay_malfunction' \in BOOLEAN
           /\ NoControlsWhenBraking'
           /\ controls_allowed' => signal'["cruise"]
           /\ controls_allowed' => controls_allowed \/ ~signal["cruise"]
           /\ relay_malfunction' => relay_malfunction \/ Settled
<1> DEFINE s == [g \in Signal |-> IF g \in Carries[m] THEN v[g] ELSE signal[g]]
           cruise == IF "cruise" \in Carries[m]
                     THEN pcm_cruise_check(controls_allowed, v["cruise"])
                     ELSE controls_allowed
<1>1. signal \in [Signal -> BOOLEAN] /\ controls_allowed \in BOOLEAN
  BY DEF IInv, TypeOK
<1>2. s \in [Signal -> BOOLEAN]
  BY <1>1
<1>3. /\ signal' = s
      /\ controls_allowed' = generic_rx_checks(cruise, s)
      /\ relay_malfunction' = (relay_malfunction \/ (m \in StockEcu /\ Settled))
  BY DEF RxHook
<1>4. controls_allowed' => cruise
  BY <1>3 DEF generic_rx_checks
<1>5. "cruise" \in Signal
  BY DEF Signal
<1>6. s["cruise"] = IF "cruise" \in Carries[m] THEN v["cruise"]
                    ELSE signal["cruise"]
  BY <1>5
<1>7. controls_allowed => signal["cruise"]
  BY DEF IInv, Inv
<1>8. cruise => s["cruise"]
  BY <1>6, <1>7 DEF pcm_cruise_check
<1>9. cruise => controls_allowed \/ ~signal["cruise"]
  BY DEF pcm_cruise_check
<1>10. NoControlsWhenBraking'
  BY <1>3 DEF NoControlsWhenBraking, generic_rx_checks
<1>11. controls_allowed' \in BOOLEAN
  BY <1>3 DEF generic_rx_checks
<1>12. relay_malfunction' \in BOOLEAN
  BY <1>3
<1>13. relay_malfunction' => relay_malfunction \/ Settled
  BY <1>3
<1> QED  BY <1>2, <1>3, <1>4, <1>8, <1>9, <1>10, <1>11, <1>12, <1>13

\* A message that is received: what changes, whichever entry it serves.
LEMMA Received ==
    ASSUME IInv, Receive
    PROVE  /\ signal' \in [Signal -> BOOLEAN]
           /\ controls_allowed' \in BOOLEAN /\ relay_malfunction' \in BOOLEAN
           /\ NoControlsWhenBraking'
           /\ controls_allowed' => signal'["cruise"]
           /\ controls_allowed' => controls_allowed \/ ~signal["cruise"]
           /\ relay_malfunction' => relay_malfunction \/ Settled
           /\ status' \in [Check -> RxStatus]
           /\ heard' \in [Check -> 0 .. now]
           /\ stuck' \in [Check -> 0 .. MAX_WRONG_COUNTERS]
           /\ \A c \in Check : /\ status'[c].msg \in Alternatives[c] \cup {NoMsg}
                               /\ status'[c].last_counter <= MaxCounter[c]
                               /\ stuck'[c] <= status'[c].wrong_counters
<1>1. /\ signal \in [Signal -> BOOLEAN] /\ relay_malfunction \in BOOLEAN
      /\ status \in [Check -> RxStatus] /\ heard \in [Check -> 0 .. now]
      /\ stuck \in [Check -> 0 .. MAX_WRONG_COUNTERS] /\ now \in Nat
      /\ \A c \in Check : /\ status[c].msg \in Alternatives[c] \cup {NoMsg}
                          /\ status[c].last_counter <= MaxCounter[c]
                          /\ stuck[c] <= status[c].wrong_counters
  BY SafetyAssumption DEF IInv, TypeOK, Inv
<1>2. ASSUME Distrust
      PROVE  /\ signal' \in [Signal -> BOOLEAN]
             /\ controls_allowed' \in BOOLEAN /\ relay_malfunction' \in BOOLEAN
             /\ NoControlsWhenBraking'
             /\ controls_allowed' => signal'["cruise"]
             /\ controls_allowed' => controls_allowed \/ ~signal["cruise"]
             /\ relay_malfunction' => relay_malfunction \/ Settled
  BY <1>1, <1>2 DEF Distrust, NoControlsWhenBraking
<1>3. PICK m \in Msg, intact \in BOOLEAN :
        \E v \in [Carries[m] -> BOOLEAN] :
          \/ \E c \in CheckOf(m), counter \in 0 .. 15 :
                LET s == Updated(c, m, intact, counter)
                IN  /\ counter <= MaxCounter[c]
                    /\ status' = [status EXCEPT ![c] = s]
                    /\ heard' = [heard EXCEPT ![c] = now]
                    /\ stuck' = [stuck EXCEPT ![c] = StuckCount(c, counter)]
                    /\ IF is_msg_valid(s) THEN RxHook(m, v) ELSE Distrust
          \/ /\ CheckOf(m) = {}
             /\ RxHook(m, v)
             /\ UNCHANGED <<status, heard, stuck>>
  BY DEF Receive
<1>4. PICK v \in [Carries[m] -> BOOLEAN] :
        \/ \E c \in CheckOf(m), counter \in 0 .. 15 :
              LET s == Updated(c, m, intact, counter)
              IN  /\ counter <= MaxCounter[c]
                  /\ status' = [status EXCEPT ![c] = s]
                  /\ heard' = [heard EXCEPT ![c] = now]
                  /\ stuck' = [stuck EXCEPT ![c] = StuckCount(c, counter)]
                  /\ IF is_msg_valid(s) THEN RxHook(m, v) ELSE Distrust
        \/ /\ CheckOf(m) = {}
           /\ RxHook(m, v)
           /\ UNCHANGED <<status, heard, stuck>>
  BY <1>3
<1>5. CASE CheckOf(m) = {} /\ RxHook(m, v) /\ UNCHANGED <<status, heard, stuck>>
  BY <1>1, <1>5, HookDoes
<1>6. ASSUME NEW c \in CheckOf(m), NEW counter \in 0 .. 15,
             counter <= MaxCounter[c],
             status' = [status EXCEPT ![c] = Updated(c, m, intact, counter)],
             heard' = [heard EXCEPT ![c] = now],
             stuck' = [stuck EXCEPT ![c] = StuckCount(c, counter)],
             IF is_msg_valid(Updated(c, m, intact, counter))
             THEN RxHook(m, v) ELSE Distrust
      PROVE  /\ status' \in [Check -> RxStatus]
             /\ heard' \in [Check -> 0 .. now]
             /\ stuck' \in [Check -> 0 .. MAX_WRONG_COUNTERS]
             /\ \A d \in Check : /\ status'[d].msg \in Alternatives[d] \cup {NoMsg}
                                 /\ status'[d].last_counter <= MaxCounter[d]
                                 /\ stuck'[d] <= status'[d].wrong_counters
             /\ RxHook(m, v) \/ Distrust
  <2> DEFINE u == Updated(c, m, intact, counter)
             n == StuckCount(c, counter)
  <2>1. /\ c \in Check /\ u \in RxStatus /\ u.msg \in Alternatives[c]
        /\ u.last_counter <= MaxCounter[c]
        /\ n \in 0 .. MAX_WRONG_COUNTERS /\ n <= u.wrong_counters
    BY <1>6, UpdatedType
  <2> HIDE DEF u, n
  <2>2. status' = [status EXCEPT ![c] = u] /\ stuck' = [stuck EXCEPT ![c] = n]
    BY <1>6 DEF u, n
  <2>3. /\ status' \in [Check -> RxStatus]
        /\ stuck' \in [Check -> 0 .. MAX_WRONG_COUNTERS]
    BY <1>1, <2>1, <2>2
  <2>4. heard' \in [Check -> 0 .. now]
    <3>1. heard' = [heard EXCEPT ![c] = now]
      BY <1>6
    <3>2. now \in 0 .. now
      BY <1>1
    <3> QED  BY <1>1, <3>1, <3>2
  <2>5. ASSUME NEW d \in Check
        PROVE  /\ status'[d].msg \in Alternatives[d] \cup {NoMsg}
               /\ status'[d].last_counter <= MaxCounter[d]
               /\ stuck'[d] <= status'[d].wrong_counters
    <3>1. CASE d = c
      BY <1>1, <2>1, <2>2, <3>1
    <3>2. CASE d # c
      BY <1>1, <2>2, <3>2
    <3> QED  BY <3>1, <3>2
  <2> QED  BY <1>6, <2>3, <2>4, <2>5
<1>7. CASE \E c \in CheckOf(m), counter \in 0 .. 15 :
              LET s == Updated(c, m, intact, counter)
              IN  /\ counter <= MaxCounter[c]
                  /\ status' = [status EXCEPT ![c] = s]
                  /\ heard' = [heard EXCEPT ![c] = now]
                  /\ stuck' = [stuck EXCEPT ![c] = StuckCount(c, counter)]
                  /\ IF is_msg_valid(s) THEN RxHook(m, v) ELSE Distrust
  <2>1. PICK c \in CheckOf(m), counter \in 0 .. 15 :
               /\ counter <= MaxCounter[c]
               /\ status' = [status EXCEPT ![c] = Updated(c, m, intact, counter)]
               /\ heard' = [heard EXCEPT ![c] = now]
               /\ stuck' = [stuck EXCEPT ![c] = StuckCount(c, counter)]
               /\ IF is_msg_valid(Updated(c, m, intact, counter))
                  THEN RxHook(m, v) ELSE Distrust
    BY <1>7
  <2>2. CASE RxHook(m, v)
    BY <1>6, <2>1, <2>2, HookDoes
  <2>3. CASE Distrust
    BY <1>2, <1>6, <2>1, <2>3
  <2> QED  BY <1>6, <2>1, <2>2, <2>3
<1> QED  BY <1>4, <1>5, <1>7

-----------------------------------------------------------------------------
(* The invariant *)

LEMMA InitIInv == Init => IInv
<1> SUFFICES ASSUME Init PROVE IInv
  OBVIOUS
<1>1. now \in 0 .. Horizon /\ 0 \in 0 .. now /\ now \in 0 .. now
  BY SafetyAssumption DEF Init
<1>2. NoStatus \in RxStatus
  BY SafetyAssumption DEF NoStatus, RxStatus
<1>3. /\ \A c \in Check : /\ status[c] = NoStatus
                          /\ stuck[c] = 0
      /\ MaxCounter \in [Check -> Nat] /\ MAX_WRONG_COUNTERS \in Nat
  BY SafetyAssumption DEF Init
<1>4. TypeOK
  <2>1. /\ status \in [Check -> RxStatus]
        /\ heard \in [Check -> 0 .. now]
        /\ stuck \in [Check -> 0 .. MAX_WRONG_COUNTERS]
    BY <1>1, <1>2, <1>3 DEF Init
  <2>2. \A c \in Check : /\ status[c].msg \in Alternatives[c] \cup {NoMsg}
                         /\ status[c].last_counter <= MaxCounter[c]
    <3>1. NoStatus.msg = NoMsg /\ NoStatus.last_counter = 0
      BY DEF NoStatus
    <3>2. \A c \in Check : MaxCounter[c] \in Nat
      BY SafetyAssumption
    <3> HIDE DEF NoStatus
    <3> QED  BY <1>3, <3>1, <3>2
  <2>3. alternative_experience \in BOOLEAN
    BY SafetyAssumption DEF Init
  <2>4. /\ controls_allowed \in BOOLEAN /\ relay_malfunction \in BOOLEAN
        /\ signal \in [Signal -> BOOLEAN]
        /\ safety_rx_checks_invalid \in BOOLEAN
    BY DEF Init
  <2>5. /\ safety_mode_cnt \in 0 .. RELAY_TRNS_TIMEOUT + 1
        /\ last_tick \in 0 .. now /\ mode_set \in 0 .. now
        /\ allowed_since \in 0 .. now
    BY <1>1 DEF Init, RELAY_TRNS_TIMEOUT
  <2> QED  BY <1>1, <2>1, <2>2, <2>3, <2>4, <2>5 DEF TypeOK
<1>5. Inv
  BY <1>1, <1>3 DEF Init, Inv, NoStatus, NoControlsWhenBraking, RelayHasTime
<1> QED  BY <1>4, <1>5 DEF IInv

LEMMA RxStep == IInv /\ Rx => IInv'
<1> SUFFICES ASSUME IInv, Rx PROVE IInv'
  OBVIOUS
<1>1. Receive
  BY DEF Rx
<1>2. /\ signal' \in [Signal -> BOOLEAN]
      /\ controls_allowed' \in BOOLEAN /\ relay_malfunction' \in BOOLEAN
      /\ NoControlsWhenBraking'
      /\ controls_allowed' => signal'["cruise"]
      /\ relay_malfunction' => relay_malfunction \/ Settled
      /\ status' \in [Check -> RxStatus]
      /\ heard' \in [Check -> 0 .. now]
      /\ stuck' \in [Check -> 0 .. MAX_WRONG_COUNTERS]
      /\ \A c \in Check : /\ status'[c].msg \in Alternatives[c] \cup {NoMsg}
                          /\ status'[c].last_counter <= MaxCounter[c]
                          /\ stuck'[c] <= status'[c].wrong_counters
  BY <1>1, Received
<1>3. /\ UNCHANGED <<alternative_experience, safety_mode_cnt,
                     safety_rx_checks_invalid, now, last_tick, mode_set>>
      /\ allowed_since' = IF ~controls_allowed' THEN 0
                          ELSE IF controls_allowed THEN allowed_since ELSE now
  BY DEF Rx
<1>4. TypeOK'
  <2>1. allowed_since' \in 0 .. now'
    BY <1>3, SafetyAssumption DEF IInv, TypeOK
  <2> QED  BY <1>2, <1>3, <2>1 DEF IInv, TypeOK
<1>5. RelayHasTime'
  BY <1>2, <1>3, SafetyAssumption
     DEF IInv, TypeOK, Inv, RelayHasTime, Settled, RELAY_TRNS_TIMEOUT
<1>6. Inv'
  BY <1>2, <1>3, <1>5 DEF IInv, Inv
<1> QED  BY <1>4, <1>6 DEF IInv

LEMMA TickStep == IInv /\ SafetyTick => IInv'
<1> SUFFICES ASSUME IInv, SafetyTick PROVE IInv'
  OBVIOUS
<1> DEFINE bad == \E c \in Check : Lagging(c) \/ ~is_msg_valid(status[c])
<1>1. /\ now - last_tick >= Second
      /\ last_tick' = now
      /\ safety_mode_cnt' = IF safety_mode_cnt > RELAY_TRNS_TIMEOUT
                            THEN safety_mode_cnt ELSE safety_mode_cnt + 1
      /\ status' = [c \in Check |-> [status[c] EXCEPT !.lagging = Lagging(c)]]
      /\ safety_rx_checks_invalid' = bad
      /\ controls_allowed' = (controls_allowed /\ ~bad)
      /\ allowed_since' = IF controls_allowed' THEN allowed_since ELSE 0
      /\ UNCHANGED <<relay_malfunction, alternative_experience, signal,
                     now, mode_set, heard, stuck>>
  BY DEF SafetyTick
<1> HIDE DEF bad
<1>2. \A c \in Check : /\ status'[c] \in RxStatus
                       /\ status'[c].msg = status[c].msg
                       /\ status'[c].last_counter = status[c].last_counter
                       /\ status'[c].wrong_counters = status[c].wrong_counters
  <2> SUFFICES ASSUME NEW c \in Check
               PROVE  /\ status'[c] \in RxStatus
                      /\ status'[c].msg = status[c].msg
                      /\ status'[c].last_counter = status[c].last_counter
                      /\ status'[c].wrong_counters = status[c].wrong_counters
    OBVIOUS
  <2>1. status'[c] = [status[c] EXCEPT !.lagging = Lagging(c)]
    BY <1>1
  <2>2. status[c] \in RxStatus
    BY DEF IInv, TypeOK
  <2>3. Lagging(c) \in BOOLEAN
    BY DEF Lagging
  <2> QED  BY <2>1, <2>2, <2>3 DEF RxStatus
<1>3. status' \in [Check -> RxStatus]
  BY <1>1, <1>2
<1>4. controls_allowed' \in BOOLEAN /\ safety_rx_checks_invalid' \in BOOLEAN
  BY <1>1 DEF bad
<1>5. now \in 0 .. Horizon /\ Horizon \in Nat /\ Second \in Nat \ {0}
  BY SafetyAssumption DEF IInv, TypeOK
<1>6. TypeOK'
  <2>1. \A c \in Check : /\ status'[c].msg \in Alternatives[c] \cup {NoMsg}
                         /\ status'[c].last_counter <= MaxCounter[c]
    BY <1>2 DEF IInv, TypeOK
  <2>2. safety_mode_cnt' \in 0 .. RELAY_TRNS_TIMEOUT + 1
    BY <1>1 DEF IInv, TypeOK, RELAY_TRNS_TIMEOUT
  <2>3. allowed_since' \in 0 .. now' /\ last_tick' \in 0 .. now'
    BY <1>1, <1>5 DEF IInv, TypeOK
  <2> QED  BY <1>1, <1>3, <1>4, <2>1, <2>2, <2>3 DEF IInv, TypeOK
<1>7. /\ safety_mode_cnt' >= 1 => last_tick' >= mode_set'
      /\ safety_mode_cnt' > 1 => last_tick' - mode_set' >= Second
  BY <1>1, <1>5 DEF IInv, TypeOK, Inv, RELAY_TRNS_TIMEOUT
<1>8. /\ NoControlsWhenBraking' /\ (controls_allowed' => signal'["cruise"])
      /\ RelayHasTime'
  BY <1>1 DEF IInv, Inv, NoControlsWhenBraking, RelayHasTime
<1>9. \A c \in Check : stuck'[c] <= status'[c].wrong_counters
  BY <1>1, <1>2 DEF IInv, Inv
<1> QED  BY <1>6, <1>7, <1>8, <1>9 DEF IInv, Inv

LEMMA AdvanceStep == IInv /\ Advance => IInv'
<1> SUFFICES ASSUME IInv, Advance PROVE IInv'
  OBVIOUS
<1>1. now \in 0 .. Horizon /\ Horizon \in Nat /\ Second \in Nat
  BY SafetyAssumption DEF IInv, TypeOK
<1>2. /\ now < Horizon /\ now' = now + 1
      /\ UNCHANGED <<controls_allowed, relay_malfunction,
                     alternative_experience, safety_mode_cnt, signal, status,
                     safety_rx_checks_invalid, last_tick, mode_set, heard,
                     allowed_since, stuck>>
  BY DEF Advance, ghosts
<1>3. TypeOK'
  <2>1. \A c \in Check : heard'[c] \in 0 .. now'
    BY <1>1, <1>2 DEF IInv, TypeOK
  <2>2. heard' \in [Check -> 0 .. now']
    BY <1>2, <2>1 DEF IInv, TypeOK
  <2> QED  BY <1>1, <1>2, <2>2 DEF IInv, TypeOK
<1>4. Inv'
  BY <1>1, <1>2 DEF IInv, TypeOK, Inv, NoControlsWhenBraking, RelayHasTime
<1> QED  BY <1>3, <1>4 DEF IInv

LEMMA HooksStep == IInv /\ SetSafetyHooks => IInv'
<1> SUFFICES ASSUME IInv, SetSafetyHooks PROVE IInv'
  OBVIOUS
<1>1. now \in 0 .. Horizon /\ 0 \in 0 .. now /\ now \in 0 .. now
  BY SafetyAssumption DEF IInv, TypeOK
<1>2. NoStatus \in RxStatus
  BY SafetyAssumption DEF NoStatus, RxStatus
<1>3. /\ controls_allowed' = FALSE /\ relay_malfunction' = FALSE
      /\ alternative_experience' \in Experiences
      /\ safety_mode_cnt' = 0 /\ signal' = [g \in Signal |-> FALSE]
      /\ status' = [c \in Check |-> NoStatus]
      /\ safety_rx_checks_invalid' = FALSE /\ mode_set' = now
      /\ heard' = [c \in Check |-> 0] /\ allowed_since' = 0
      /\ stuck' = [c \in Check |-> 0]
      /\ UNCHANGED <<now, last_tick>>
  BY DEF SetSafetyHooks
<1>4. \A c \in Check : status'[c] = NoStatus /\ stuck'[c] = 0
  BY <1>3
<1>5. TypeOK'
  <2>1. /\ status' \in [Check -> RxStatus]
        /\ heard' \in [Check -> 0 .. now']
        /\ stuck' \in [Check -> 0 .. MAX_WRONG_COUNTERS]
    BY <1>1, <1>2, <1>3, SafetyAssumption
  <2>2. \A c \in Check : /\ status'[c].msg \in Alternatives[c] \cup {NoMsg}
                         /\ status'[c].last_counter <= MaxCounter[c]
    <3>1. NoStatus.msg = NoMsg /\ NoStatus.last_counter = 0
      BY DEF NoStatus
    <3>2. \A c \in Check : MaxCounter[c] \in Nat
      BY SafetyAssumption
    <3> HIDE DEF NoStatus
    <3> QED  BY <1>4, <3>1, <3>2
  <2>3. alternative_experience' \in BOOLEAN
    BY <1>3, SafetyAssumption
  <2>4. last_tick' \in 0 .. now' /\ now' \in 0 .. Horizon
    BY <1>3 DEF IInv, TypeOK
  <2>5. /\ controls_allowed' \in BOOLEAN /\ relay_malfunction' \in BOOLEAN
        /\ signal' \in [Signal -> BOOLEAN]
        /\ safety_rx_checks_invalid' \in BOOLEAN
    BY <1>3
  <2>6. /\ safety_mode_cnt' \in 0 .. RELAY_TRNS_TIMEOUT + 1
        /\ mode_set' \in 0 .. now' /\ allowed_since' \in 0 .. now'
    BY <1>1, <1>3 DEF RELAY_TRNS_TIMEOUT
  <2> QED  BY <2>1, <2>2, <2>3, <2>4, <2>5, <2>6 DEF TypeOK
<1>6. Inv'
  BY <1>3, <1>4 DEF Inv, NoStatus, NoControlsWhenBraking, RelayHasTime
<1> QED  BY <1>5, <1>6 DEF IInv

LEMMA NextIInv == IInv /\ [Next]_vars => IInv'
<1> SUFFICES ASSUME IInv, [Next]_vars PROVE IInv'
  OBVIOUS
<1>1. CASE Rx
  BY <1>1, RxStep
<1>2. CASE SafetyTick
  BY <1>2, TickStep
<1>3. CASE Advance
  BY <1>3, AdvanceStep
<1>4. CASE SetSafetyHooks
  BY <1>4, HooksStep
<1>5. CASE UNCHANGED vars
  BY <1>5 DEF vars, IInv, TypeOK, Inv, NoControlsWhenBraking, RelayHasTime
<1> QED  BY <1>1, <1>2, <1>3, <1>4, <1>5 DEF Next

LEMMA Invariance == Spec => []IInv
BY InitIInv, NextIInv, PTL DEF Spec

-----------------------------------------------------------------------------
(* The theorems *)

\* Every global of the receive side keeps its range: the count of wrong counters
\* stays between its bounds and an entry belongs to one of its alternatives
\* (update_counter, get_addr_check_index).
THEOREM TypeCorrect == Spec => []TypeOK
BY Invariance, PTL DEF IInv

\* Controls are never allowed in a car that brakes while it moves
\* (generic_rx_checks).
THEOREM Braking == Spec => []NoControlsWhenBraking
<1>1. IInv => NoControlsWhenBraking
  BY DEF IInv, Inv
<1> QED  BY <1>1, Invariance, PTL

\* The relay has a second before a message it should have cut off counts
\* (generic_rx_checks, safety_mode_cnt).
THEOREM Relay == Spec => []RelayHasTime
<1>1. IInv => RelayHasTime
  BY DEF IInv, Inv
<1> QED  BY <1>1, Invariance, PTL

\* MAX_WRONG_COUNTERS wrong counters in a row are never trusted
\* (update_counter, is_msg_valid).
THEOREM Stuck == Spec => []StuckIsInvalid
<1>1. IInv => StuckIsInvalid
  <2> SUFFICES ASSUME IInv, NEW c \in Check, stuck[c] >= MAX_WRONG_COUNTERS
               PROVE  ~is_msg_valid(status[c])
    BY DEF StuckIsInvalid
  <2>1. /\ stuck[c] \in Nat /\ MAX_WRONG_COUNTERS \in Nat
        /\ status[c].wrong_counters \in Nat
        /\ stuck[c] <= status[c].wrong_counters
    BY SafetyAssumption DEF IInv, TypeOK, Inv, RxStatus
  <2> QED  BY <2>1 DEF is_msg_valid
<1> QED  BY <1>1, Invariance, PTL

\* Controls follow the stock cruise control, and come back only when it was off
\* in between (pcm_cruise_check).
THEOREM Cruise == Spec => ControlsFollowCruise
<1>1. IInv => (controls_allowed => signal["cruise"])
  BY DEF IInv, Inv
<1>2. IInv /\ [Next]_vars =>
        [controls_allowed' => controls_allowed \/ ~signal["cruise"]]_vars
  <2> SUFFICES ASSUME IInv, Next
               PROVE  controls_allowed' => controls_allowed \/ ~signal["cruise"]
    OBVIOUS
  <2>1. CASE Rx
    BY <2>1, Received DEF Rx
  <2>2. CASE SafetyTick
    BY <2>2 DEF SafetyTick
  <2>3. CASE Advance
    BY <2>3 DEF Advance
  <2>4. CASE SetSafetyHooks
    BY <2>4 DEF SetSafetyHooks
  <2> QED  BY <2>1, <2>2, <2>3, <2>4 DEF Next
<1> QED  BY <1>1, <1>2, Invariance, PTL DEF Spec, ControlsFollowCruise

-----------------------------------------------------------------------------
(* Trust: what the ticks find out, before the timer wraps *)

\* Every entry is as old as the panda says; controls that outlast a tick do so
\* because it found every entry valid and in time.
Trusted ==
    /\ now - last_tick <= Second
    /\ \A c \in Check :
         /\ status[c].msg # NoMsg => status[c].last_timestamp = heard[c]
         /\ status[c].intact => status[c].msg # NoMsg
    /\ LaggingIsExact
    /\ controls_allowed /\ allowed_since < last_tick =>
         \A c \in Check :
           /\ is_msg_valid(status[c])
           /\ heard[c] >= last_tick \/ last_tick - heard[c] <= Lag[c]

\* The difference of two times is what it seems as long as the timer is exact.
LEMMA NoWrap ==
    ASSUME Horizon < Wrap, NEW t \in 0 .. Horizon, NEW s \in 0 .. t
    PROVE  t % Wrap = t /\ get_ts_elapsed(t, s) = t - s
<1>1. Wrap \in Nat \ {0} /\ Horizon \in Nat
  BY SafetyAssumption
<1>2. t \in 0 .. Wrap - 1 /\ t - s \in 0 .. Wrap - 1
  BY <1>1
<1>3. \A x \in 0 .. Wrap - 1 : x % Wrap = x
  BY <1>1, Z3
<1> QED BY <1>2, <1>3 DEF get_ts_elapsed

\* A message that is received renews one entry at most, and withdraws the
\* controls unless that is valid.
LEMMA Renews ==
    ASSUME IInv, Receive, NEW d \in Check
    PROVE  \/ status'[d] = status[d] /\ heard'[d] = heard[d]
           \/ /\ status'[d].msg # NoMsg
              /\ status'[d].last_timestamp = microsecond_timer
              /\ heard'[d] = now
              /\ controls_allowed' => is_msg_valid(status'[d])
<1>1. status \in [Check -> RxStatus] /\ heard \in [Check -> 0 .. now]
  BY DEF IInv, TypeOK
<1>2. PICK m \in Msg, intact \in BOOLEAN :
        \/ \E c \in CheckOf(m), counter \in 0 .. 15 :
              /\ counter <= MaxCounter[c]
              /\ status' = [status EXCEPT ![c] = Updated(c, m, intact, counter)]
              /\ heard' = [heard EXCEPT ![c] = now]
              /\ is_msg_valid(Updated(c, m, intact, counter)) \/ Distrust
        \/ UNCHANGED <<status, heard>>
  BY DEF Receive
<1>3. CASE UNCHANGED <<status, heard>>
  BY <1>3
<1>4. CASE \E c \in CheckOf(m), counter \in 0 .. 15 :
              /\ counter <= MaxCounter[c]
              /\ status' = [status EXCEPT ![c] = Updated(c, m, intact, counter)]
              /\ heard' = [heard EXCEPT ![c] = now]
              /\ is_msg_valid(Updated(c, m, intact, counter)) \/ Distrust
  <2>1. PICK c \in CheckOf(m), counter \in 0 .. 15 :
              /\ counter <= MaxCounter[c]
              /\ status' = [status EXCEPT ![c] = Updated(c, m, intact, counter)]
              /\ heard' = [heard EXCEPT ![c] = now]
              /\ is_msg_valid(Updated(c, m, intact, counter)) \/ Distrust
    BY <1>4
  <2> DEFINE u == Updated(c, m, intact, counter)
  <2>2. c \in Check /\ status[c] \in RxStatus
    BY <1>1 DEF CheckOf
  <2>3. u.msg = m /\ u.last_timestamp = microsecond_timer
    BY <2>2 DEF Updated, RxStatus
  <2>4. m # NoMsg
    BY SafetyAssumption
  <2>5. CASE d = c
    <3>1. status'[d] = u /\ heard'[d] = now
      BY <1>1, <2>1, <2>5
    <3> HIDE DEF u
    <3>2. controls_allowed' => is_msg_valid(u)
      BY <2>1 DEF Distrust, u
    <3> QED BY <2>3, <2>4, <3>1, <3>2
  <2>6. CASE d # c
    BY <1>1, <2>1, <2>2, <2>6
  <2> QED BY <2>5, <2>6
<1> QED BY <1>2, <1>3, <1>4

LEMMA TrustedRx == ASSUME Horizon < Wrap PROVE IInv /\ Trusted /\ Rx => Trusted'
<1> SUFFICES ASSUME IInv, Trusted, Rx PROVE Trusted'
  OBVIOUS
<1>1. /\ Receive
      /\ UNCHANGED <<now, last_tick>>
      /\ allowed_since' = IF ~controls_allowed' THEN 0
                          ELSE IF controls_allowed THEN allowed_since ELSE now
  BY DEF Rx
<1>2. /\ now \in 0 .. Horizon /\ last_tick \in 0 .. now /\ Horizon \in Nat
      /\ controls_allowed \in BOOLEAN
  BY SafetyAssumption DEF IInv, TypeOK
<1>3. microsecond_timer = now
  BY <1>2, NoWrap DEF microsecond_timer
<1>4. \A c \in Check :
        /\ status'[c].msg # NoMsg => status'[c].last_timestamp = heard'[c]
        /\ status'[c].intact => status'[c].msg # NoMsg
  BY <1>1, <1>3, Renews DEF Trusted
<1>5. LaggingIsExact'
  <2> SUFFICES ASSUME NEW c \in Check, status'[c].msg # NoMsg, heard'[c] < last_tick'
               PROVE  status'[c].lagging = (last_tick' - heard'[c] > Lag[c])
    BY DEF LaggingIsExact
  <2>1. heard'[c] # now
    BY <1>1, <1>2
  <2>2. status'[c] = status[c] /\ heard'[c] = heard[c]
    BY <1>1, <2>1, Renews
  <2> QED BY <1>1, <2>2 DEF Trusted, LaggingIsExact
<1>6. ASSUME controls_allowed', allowed_since' < last_tick', NEW c \in Check
      PROVE  /\ is_msg_valid(status'[c])
             /\ heard'[c] >= last_tick' \/ last_tick' - heard'[c] <= Lag[c]
  <2>1. controls_allowed /\ allowed_since < last_tick
    BY <1>1, <1>2, <1>6
  <2>2. /\ is_msg_valid(status[c])
        /\ heard[c] >= last_tick \/ last_tick - heard[c] <= Lag[c]
    BY <2>1 DEF Trusted
  <2> QED BY <1>1, <1>2, <1>6, <2>2, Renews
<1> QED BY <1>1, <1>4, <1>5, <1>6 DEF Trusted

LEMMA TrustedTick ==
    ASSUME Horizon < Wrap
    PROVE  IInv /\ Trusted /\ SafetyTick => Trusted'
<1> SUFFICES ASSUME IInv, Trusted, SafetyTick PROVE Trusted'
  OBVIOUS
<1>1. /\ last_tick' = now /\ now' = now /\ heard' = heard
      /\ status' = [c \in Check |-> [status[c] EXCEPT !.lagging = Lagging(c)]]
      /\ controls_allowed' =>
           \A c \in Check : ~Lagging(c) /\ is_msg_valid(status[c])
  BY DEF SafetyTick
<1>2. /\ now \in 0 .. Horizon /\ Horizon \in Nat /\ Second \in Nat
      /\ heard \in [Check -> 0 .. now] /\ status \in [Check -> RxStatus]
      /\ Lag \in [Check -> Nat]
  BY SafetyAssumption DEF IInv, TypeOK
<1>3. ASSUME NEW c \in Check
      PROVE  /\ status'[c].msg = status[c].msg
             /\ status'[c].intact = status[c].intact
             /\ status'[c].last_timestamp = status[c].last_timestamp
             /\ status'[c].wrong_counters = status[c].wrong_counters
             /\ status'[c].lagging = Lagging(c)
  <2>1. status'[c] = [status[c] EXCEPT !.lagging = Lagging(c)]
    BY <1>1
  <2>2. status[c] \in RxStatus
    BY <1>2
  <2> QED BY <2>1, <2>2 DEF RxStatus
<1>4. ASSUME NEW c \in Check, status[c].msg # NoMsg
      PROVE  Lagging(c) = (now - heard[c] > Lag[c])
  <2>1. status[c].last_timestamp = heard[c]
    BY <1>4 DEF Trusted
  <2>2. heard[c] \in 0 .. now
    BY <1>2
  <2>3. microsecond_timer = now /\ get_ts_elapsed(now, heard[c]) = now - heard[c]
    BY <1>2, <2>2, NoWrap DEF microsecond_timer
  <2> QED BY <2>1, <2>3 DEF Lagging
<1>5. now' - last_tick' <= Second
  BY <1>1, <1>2
<1>6. \A c \in Check :
        /\ status'[c].msg # NoMsg => status'[c].last_timestamp = heard'[c]
        /\ status'[c].intact => status'[c].msg # NoMsg
  BY <1>1, <1>3, SMTT(30) DEF Trusted
<1>7. LaggingIsExact'
  <2> SUFFICES ASSUME NEW c \in Check, status'[c].msg # NoMsg
               PROVE  status'[c].lagging = (last_tick' - heard'[c] > Lag[c])
    BY DEF LaggingIsExact
  <2> QED BY <1>1, <1>3, <1>4
<1>8. ASSUME controls_allowed', NEW c \in Check
      PROVE  is_msg_valid(status'[c]) /\ last_tick' - heard'[c] <= Lag[c]
  <2>1. ~Lagging(c) /\ is_msg_valid(status[c])
    BY <1>1, <1>8
  <2>2. is_msg_valid(status'[c])
    BY <1>3, <2>1 DEF is_msg_valid
  <2>3. status[c].msg # NoMsg
    BY <2>1 DEF is_msg_valid, Trusted
  <2>4. ~(now - heard[c] > Lag[c])
    BY <1>4, <2>1, <2>3
  <2>5. heard[c] \in Nat /\ Lag[c] \in Nat
    BY <1>2
  <2> QED BY <1>1, <1>2, <2>2, <2>4, <2>5
<1> QED BY <1>5, <1>6, <1>7, <1>8 DEF Trusted

LEMMA TrustedStep ==
    ASSUME Horizon < Wrap
    PROVE  IInv /\ Trusted /\ [Next]_vars => Trusted'
<1> SUFFICES ASSUME IInv, Trusted, [Next]_vars PROVE Trusted'
  OBVIOUS
<1>1. CASE Rx
  BY <1>1, TrustedRx
<1>2. CASE SafetyTick
  BY <1>2, TrustedTick
<1>3. CASE Advance
  <2>1. /\ now' = now + 1 /\ now - last_tick < Second
        /\ UNCHANGED <<controls_allowed, status, last_tick, heard, allowed_since>>
    BY <1>3 DEF Advance, ghosts
  <2>2. now \in Nat /\ last_tick \in Nat /\ Second \in Nat
    BY SafetyAssumption DEF IInv, TypeOK
  <2>3. now' - last_tick' <= Second
    BY <2>1, <2>2
  <2> QED BY <2>1, <2>3 DEF Trusted, LaggingIsExact
<1>4. CASE SetSafetyHooks
  <2>1. /\ controls_allowed' = FALSE /\ UNCHANGED <<now, last_tick>>
        /\ \A c \in Check : status'[c] = NoStatus
    BY <1>4 DEF SetSafetyHooks
  <2>2. NoStatus.msg = NoMsg /\ NoStatus.intact = FALSE
    BY DEF NoStatus
  <2> HIDE DEF NoStatus
  <2> QED BY <2>1, <2>2 DEF Trusted, LaggingIsExact
<1>5. CASE UNCHANGED vars
  BY <1>5 DEF vars, ghosts, Trusted, LaggingIsExact
<1> QED BY <1>1, <1>2, <1>3, <1>4, <1>5 DEF Next

LEMMA TrustedInit == Init => Trusted
<1> SUFFICES ASSUME Init PROVE Trusted
  OBVIOUS
<1>1. now - last_tick <= Second /\ controls_allowed = FALSE
  BY SafetyAssumption DEF Init
<1>2. \A c \in Check : status[c] = NoStatus
  BY DEF Init
<1>3. NoStatus.msg = NoMsg /\ NoStatus.intact = FALSE
  BY DEF NoStatus
<1> HIDE DEF NoStatus
<1> QED BY <1>1, <1>2, <1>3 DEF Trusted, LaggingIsExact

\* Until the timer wraps, controls that outlast a second mean that every message
\* of rx_checks was seen, is valid and came in time (safety_tick, is_msg_valid).
THEOREM TrustedControls ==
    ASSUME Horizon < Wrap
    PROVE  Spec => []ControlsAreTrusted
<1>1. IInv /\ Trusted => ControlsAreTrusted
  <2> SUFFICES ASSUME IInv, Trusted, controls_allowed, now - allowed_since > Second,
                      NEW c \in Check
               PROVE  /\ status[c].msg # NoMsg
                      /\ is_msg_valid(status[c])
                      /\ now - heard[c] <= Lag[c] + Second
    BY DEF ControlsAreTrusted
  <2>1. /\ now \in Nat /\ last_tick \in Nat /\ allowed_since \in Nat
        /\ Second \in Nat /\ heard[c] \in Nat /\ Lag[c] \in Nat
        /\ now - last_tick <= Second
    BY SafetyAssumption DEF IInv, TypeOK, Trusted
  <2>2. allowed_since < last_tick
    BY <2>1
  <2>3. /\ is_msg_valid(status[c])
        /\ heard[c] >= last_tick \/ last_tick - heard[c] <= Lag[c]
    BY <2>2 DEF Trusted
  <2>4. status[c].msg # NoMsg
    BY <2>3 DEF is_msg_valid, Trusted
  <2> QED BY <2>1, <2>3, <2>4
<1> QED BY <1>1, Invariance, TrustedInit, TrustedStep, PTL DEF Spec

\* Until the timer wraps, an RxStatus tells the truth about its sender: one whose
\* counter sticks is not valid, and lagging is what it says.
THEOREM TrueStatus ==
    ASSUME Horizon < Wrap
    PROVE  Spec => []StatusIsTrue
<1>1. Trusted => LaggingIsExact
  BY DEF Trusted
<1> QED BY <1>1, Stuck, Invariance, TrustedInit, TrustedStep, PTL
        DEF Spec, StatusIsTrue

-----------------------------------------------------------------------------
(* Modes: types *)

LEMMA Facts ==
    /\ HYUNDAI_PREV_BUTTON_SAMPLES \in Nat \ {0}
    /\ 0 \in Brakes /\ Brakes \subseteq Nat
    /\ \A n \in 0 .. HYUNDAI_PREV_BUTTON_SAMPLES :
           n < HYUNDAI_PREV_BUTTON_SAMPLES => n + 1 \in 0 .. HYUNDAI_PREV_BUTTON_SAMPLES
    /\ 0 \in 0 .. HYUNDAI_PREV_BUTTON_SAMPLES
    /\ HYUNDAI_PREV_BUTTON_SAMPLES \in 0 .. HYUNDAI_PREV_BUTTON_SAMPLES
BY ModesAssumption DEF ModesAssumption

LEMMA CruiseTypes ==
    ASSUME NEW m \in Mode, NEW h \in Hook, NEW on \in BOOLEAN, NEW main \in BOOLEAN
    PROVE  ReadCruise(m, h, on, main) \in Hook
<1>1. PcmCruise(h, on) \in Hook
  BY DEF PcmCruise, Hook
<1>2. HondaCruise(m, h, on) \in Hook
  BY DEF HondaCruise, Hook
<1>3. HyundaiCruise(h, on) \in Hook
  BY DEF HyundaiCruise, Hook
<1>4. MqbCruise(m, h, on, main) \in Hook
  BY <1>1, ZenonT(60) DEF MqbCruise, Hook
<1> QED BY <1>1, <1>2, <1>3, <1>4 DEF ReadCruise

LEMMA MainTypes ==
    ASSUME NEW m \in Mode, NEW h \in Hook, NEW main \in BOOLEAN
    PROVE  ReadMain(m, h, main) \in Hook
BY DEF ReadMain, Hook

LEMMA ButtonTypes ==
    ASSUME NEW m \in Mode, NEW h \in Hook, NEW b \in SUBSET Button
    PROVE  ReadButtons(m, h, b) \in Hook
<1>1. HondaButtons(m, h, b) \in Hook
  BY DEF HondaButtons, Hook
<1>2. HyundaiButtons(m, h, b) \in Hook
  BY Facts DEF HyundaiButtons, Hook
<1>3. GmButtons(m, h, b) \in Hook
  BY DEF GmButtons, Hook
<1>4. VwButtons(m, h, b) \in Hook
  BY DEF VwButtons, Hook
<1> QED BY <1>1, <1>2, <1>3, <1>4 DEF ReadButtons

LEMMA AebTypes ==
    ASSUME NEW m \in Mode, NEW h \in Hook, NEW aeb \in BOOLEAN, NEW brake \in Brakes
    PROVE  ReadAeb(m, h, aeb, brake) \in Hook
BY Facts DEF ReadAeb, Hook

LEMMA ResetTypes ==
    ASSUME NEW m \in Mode, NEW h \in Hook
    PROVE  Reset(m, h) \in Hook /\ FreshHook \in Hook
<1>1. FreshHook \in Hook
  BY Facts DEF FreshHook, Hook
<1> QED BY <1>1 DEF Reset, Hook

Car == [cruise : BOOLEAN, main : BOOLEAN, held : SUBSET Button, spammed : BOOLEAN]

LEMMA HeldTypes == \A brand : Held(brand) \subseteq SUBSET Button
BY DEF Held, Button

LEMMA BecomesTypes ==
    ASSUME ModesTypeOK, NEW h \in Hook, Becomes(h)
    PROVE  hook' \in Hook /\ asked' \in BOOLEAN
<1>1. Pending(mode, h, car) \in BOOLEAN
  BY DEF Pending
<1> QED BY <1>1 DEF Becomes, ModesTypeOK

LEMMA TypeStep == ModesTypeOK /\ [ModesNext]_modesVars => ModesTypeOK'
<1> SUFFICES ASSUME ModesTypeOK, [ModesNext]_modesVars PROVE ModesTypeOK'
  OBVIOUS
<1>1. /\ mode \in Mode /\ hook \in Hook /\ car \in Car
      /\ stock \in [due : BOOLEAN, passed : BOOLEAN]
      /\ sent \in Brakes /\ asked \in BOOLEAN
      /\ since \in 0 .. HYUNDAI_PREV_BUTTON_SAMPLES
  BY DEF ModesTypeOK, Car
<1>2. car.held \in SUBSET Button /\ car.cruise \in BOOLEAN /\ car.main \in BOOLEAN
  BY <1>1 DEF Car
<1>3. CASE Press
  <2>1. PICK b \in Held(mode.brand), on \in BOOLEAN :
          car' = [car EXCEPT !.held = b, !.cruise = on]
    BY <1>2, <1>3 DEF Press
  <2>2. car' \in Car
    BY <1>1, <2>1, HeldTypes, ZenonT(60) DEF Car
  <2>3. asked' \in BOOLEAN
    BY <1>1, <1>3 DEF Press
  <2>4. since' \in 0 .. HYUNDAI_PREV_BUTTON_SAMPLES
    BY <1>1, <1>3, Facts DEF Press
  <2> QED BY <1>1, <1>3, <2>2, <2>3, <2>4 DEF Press, ModesTypeOK, Car
<1>4. CASE MainSwitch \/ CancelReenables \/ CruiseEnds
  <2>1. car' \in Car
    BY <1>1, <1>4 DEF MainSwitch, CancelReenables, CruiseEnds, Car
  <2> QED BY <1>1, <1>4, <2>1 DEF MainSwitch, CancelReenables, CruiseEnds, ModesTypeOK, Car
<1>5. CASE RxCruise
  BY <1>1, <1>2, <1>5, CruiseTypes, BecomesTypes DEF RxCruise, ModesTypeOK
<1>6. CASE RxMain
  BY <1>1, <1>2, <1>6, MainTypes, BecomesTypes DEF RxMain, ModesTypeOK
<1>7. CASE RxButtons
  <2>1. PICK h \in Hook : Becomes(h)
    BY <1>1, <1>2, <1>7, MainTypes, ButtonTypes DEF RxButtons
  <2>2. since' \in 0 .. HYUNDAI_PREV_BUTTON_SAMPLES
    BY <1>1, <1>7, Facts DEF RxButtons
  <2> QED BY <1>1, <1>7, <2>1, <2>2, BecomesTypes DEF RxButtons, ModesTypeOK
<1>8. CASE RxPedals
  <2>1. PICK gas \in BOOLEAN, withdraw \in BOOLEAN :
          Becomes([hook EXCEPT !.gas_pressed_prev = gas,
                               !.controls_allowed = @ /\ ~withdraw])
    BY <1>8 DEF RxPedals
  <2>2. [hook EXCEPT !.gas_pressed_prev = gas,
                     !.controls_allowed = @ /\ ~withdraw] \in Hook
    BY <1>1 DEF Hook
  <2> QED BY <1>1, <1>8, <2>1, <2>2, BecomesTypes DEF RxPedals, ModesTypeOK
<1>9. CASE RxAeb
  <2>1. PICK aeb \in BOOLEAN, brake \in Brakes :
          /\ Becomes(ReadAeb(mode, hook, aeb, brake))
          /\ stock' = [due |-> aeb /\ brake > sent,
                       passed |-> aeb /\ (FwdBrake(mode, ReadAeb(mode, hook, aeb, brake))
                                          \/ stock.passed)]
    BY <1>9 DEF RxAeb
  <2>2. stock' \in [due : BOOLEAN, passed : BOOLEAN]
    BY <2>1
  <2> QED BY <1>1, <1>9, <2>1, <2>2, AebTypes, BecomesTypes DEF RxAeb, ModesTypeOK
<1>10. CASE HostPress
  <2>1. PICK on \in BOOLEAN, x \in {"SET", "RESUME", "CANCEL"} :
          car' = [car EXCEPT !.cruise = on,
                             !.spammed = @ \/ (x = "CANCEL" /\ mode.brand = "HYUNDAI")]
    <3>1. \A x : (x # "CANCEL" /\ car.main) \in BOOLEAN
      OBVIOUS
    <3> QED BY <1>2, <1>10, <3>1 DEF HostPress
  <2>2. car' \in Car
    BY <1>1, <2>1 DEF Car
  <2> QED BY <1>1, <1>10, <2>2 DEF HostPress, ModesTypeOK, Car
<1>11. CASE HostBrake
  <2>1. PICK brake \in Brakes :
          /\ hook' = IF mode.brand = "HONDA_NIDEC"
                     THEN [hook EXCEPT !.honda_brake = brake] ELSE hook
          /\ sent' = IF TxBrake(mode, hook, brake) THEN brake ELSE sent
    BY <1>11 DEF HostBrake
  <2>2. hook' \in Hook /\ sent' \in Brakes
    BY <1>1, <2>1 DEF Hook
  <2> QED BY <1>1, <1>11, <2>2 DEF HostBrake, ModesTypeOK
<1>12. CASE SetMode
  <2>1. mode' \in Mode /\ hook' \in Hook
    BY <1>1, <1>12, ResetTypes DEF SetMode
  <2>2. asked' \in BOOLEAN
    BY <1>2, <1>12 DEF SetMode
  <2> QED BY <1>1, <1>12, <2>1, <2>2, Facts DEF SetMode, ModesTypeOK
<1>13. CASE UNCHANGED modesVars
  BY <1>13 DEF modesVars, ModesTypeOK
<1> QED BY <1>3, <1>4, <1>5, <1>6, <1>7, <1>8, <1>9, <1>10, <1>11, <1>12, <1>13 DEF ModesNext

LEMMA TypeInit == ModesInit => ModesTypeOK
<1> SUFFICES ASSUME ModesInit PROVE ModesTypeOK
  OBVIOUS
<1>1. hook \in Hook
  BY ResetTypes, Facts DEF ModesInit, FreshHook, Hook
<1>2. mode \in Mode
  BY DEF ModesInit, Mode
<1> QED BY <1>1, <1>2, Facts DEF ModesInit, ModesTypeOK

\* The variables of the modes' files keep their ranges: the count of button
\* messages stops at HYUNDAI_PREV_BUTTON_SAMPLES
\* (hyundai_common_cruise_buttons_check), a brake is one the host asked for.
THEOREM ModesTypes == ModesSpec => []ModesTypeOK
BY TypeInit, TypeStep, PTL DEF ModesSpec

-----------------------------------------------------------------------------
(* What each message changes *)

\* The state of the brakes, which only the camera's and the host's touch.
SameBrakes(h, q) == /\ q.honda_fwd_brake = h.honda_fwd_brake
                    /\ q.tesla_stock_aeb = h.tesla_stock_aeb

LEMMA CruiseDoes ==
    ASSUME NEW m \in Mode, NEW h \in Hook, NEW on \in BOOLEAN, NEW main \in BOOLEAN
    PROVE  LET q == ReadCruise(m, h, on, main)
           IN  /\ SameBrakes(h, q)
               /\ q.cruise_button_prev = h.cruise_button_prev
               /\ q.last_button = h.last_button
               /\ OnButtons(m) /\ q.controls_allowed =>
                    h.controls_allowed /\ (h.acc_main_on => q.acc_main_on)
               /\ ~h.controls_allowed /\ q.controls_allowed =>
                    /\ ~OnButtons(m) /\ on /\ ~h.cruise_engaged_prev
                    /\ m.brand = "HYUNDAI" => h.last_button < HYUNDAI_PREV_BUTTON_SAMPLES
               /\ on /\ h.cruise_engaged_prev => q.cruise_engaged_prev
<1> DEFINE p == PcmCruise(h, on)
           q == ReadCruise(m, h, on, main)
<1>0. /\ p \in Hook /\ SameBrakes(h, p)
      /\ p.cruise_button_prev = h.cruise_button_prev
      /\ p.last_button = h.last_button
      /\ p.cruise_engaged_prev = on
      /\ ~h.controls_allowed /\ p.controls_allowed => on /\ ~h.cruise_engaged_prev
  BY DEF PcmCruise, Hook, SameBrakes
<1>1. CASE m.brand = "VOLKSWAGEN_MQB"
  <2>1. q = MqbCruise(m, h, on, main)
    BY <1>1 DEF ReadCruise
  <2> DEFINE e == IF OnButtons(m) THEN h ELSE p
  <2>2. q = [e EXCEPT !.acc_main_on = main,
                      !.controls_allowed = e.controls_allowed /\ main]
    BY <2>1 DEF MqbCruise
  <2>3. e \in Hook
    BY <1>0
  <2>4. /\ OnButtons(m) => e = h
        /\ ~OnButtons(m) => e = p
    OBVIOUS
  <2> HIDE DEF e, q, p
  <2>5. /\ SameBrakes(e, q)
        /\ q.cruise_button_prev = e.cruise_button_prev
        /\ q.last_button = e.last_button
        /\ q.cruise_engaged_prev = e.cruise_engaged_prev
        /\ q.controls_allowed => e.controls_allowed /\ main
        /\ q.controls_allowed => q.acc_main_on
    BY <2>2, <2>3 DEF Hook, SameBrakes
  <2>6. SameBrakes(h, e)
    BY <1>0, <2>4 DEF SameBrakes
  <2>7. /\ SameBrakes(h, q)
        /\ q.cruise_button_prev = h.cruise_button_prev
        /\ q.last_button = h.last_button
    BY <1>0, <2>4, <2>5, <2>6 DEF SameBrakes
  <2>8. OnButtons(m) /\ q.controls_allowed =>
          h.controls_allowed /\ (h.acc_main_on => q.acc_main_on)
    BY <2>4, <2>5
  <2>9. ~h.controls_allowed /\ q.controls_allowed =>
          ~OnButtons(m) /\ on /\ ~h.cruise_engaged_prev
    BY <1>0, <2>4, <2>5
  <2>10. on /\ h.cruise_engaged_prev => q.cruise_engaged_prev
    BY <1>0, <2>4, <2>5
  <2> QED BY <1>1, <2>7, <2>8, <2>9, <2>10 DEF q
<1>2. CASE m.brand # "VOLKSWAGEN_MQB" /\ OnButtons(m)
  <2>1. q = h
    BY <1>2 DEF ReadCruise
  <2> HIDE DEF q, p
  <2> QED BY <1>2, <2>1 DEF SameBrakes, q
<1>3. CASE m.brand # "VOLKSWAGEN_MQB" /\ ~OnButtons(m)
  <2>1. CASE m.brand \in Honda
    BY <1>3, <2>1 DEF ReadCruise, HondaCruise, Honda, Pcm, Hook, SameBrakes
  <2>2. CASE m.brand = "HYUNDAI"
    BY <1>3, <2>2 DEF ReadCruise, HyundaiCruise, Honda, Pcm, Hook, SameBrakes
  <2>3. CASE m.brand \notin Honda \cup {"HYUNDAI"}
    <3>1. q = p \/ q = h
      BY <1>3, <2>3 DEF ReadCruise
    <3> HIDE DEF q, p
    <3>2. /\ SameBrakes(h, q)
          /\ q.cruise_button_prev = h.cruise_button_prev
          /\ q.last_button = h.last_button
      BY <1>0, <3>1 DEF SameBrakes
    <3>3. ~h.controls_allowed /\ q.controls_allowed => on /\ ~h.cruise_engaged_prev
      BY <1>0, <3>1
    <3>4. on /\ h.cruise_engaged_prev => q.cruise_engaged_prev
      BY <1>0, <3>1
    <3> QED BY <1>3, <2>3, <3>2, <3>3, <3>4 DEF q
  <2> QED BY <2>1, <2>2, <2>3
<1> QED BY <1>1, <1>2, <1>3

LEMMA MainDoes ==
    ASSUME NEW m \in Mode, NEW h \in Hook, NEW main \in BOOLEAN
    PROVE  LET q == ReadMain(m, h, main)
           IN  /\ SameBrakes(h, q)
               /\ q.cruise_button_prev = h.cruise_button_prev
               /\ q.last_button = h.last_button
               /\ q.cruise_engaged_prev = h.cruise_engaged_prev
               /\ q.controls_allowed =>
                    h.controls_allowed /\ (h.acc_main_on => q.acc_main_on)
BY DEF ReadMain, Hook, SameBrakes

LEMMA ButtonsDo ==
    ASSUME NEW m \in Mode, NEW h \in Hook, NEW b \in SUBSET Button
    PROVE  LET q == ReadButtons(m, h, b)
           IN  /\ SameBrakes(h, q)
               /\ q.cruise_engaged_prev = h.cruise_engaged_prev
               /\ q.acc_main_on = h.acc_main_on
               /\ q.cruise_button_prev \in {h.cruise_button_prev, b}
               /\ m.brand = "HYUNDAI" =>
                    q.last_button = IF b # {} THEN 0
                                    ELSE IF h.last_button < HYUNDAI_PREV_BUTTON_SAMPLES
                                         THEN h.last_button + 1 ELSE h.last_button
               /\ OnButtons(m) /\ q.controls_allowed =>
                    /\ "CANCEL" \notin q.cruise_button_prev
                    /\ m.brand \in Honda \cup Volkswagen =>
                         h.acc_main_on \/ h.controls_allowed
               /\ ~h.controls_allowed /\ q.controls_allowed =>
                    /\ (h.cruise_button_prev \cup b) \cap {"SET", "RESUME"} # {}
                    /\ m.brand = "HYUNDAI" => OnButtons(m)
<1> USE DEF Hook, SameBrakes, Released
<1>1. CASE m.brand \in Honda
  BY <1>1 DEF ReadButtons, HondaButtons, Honda, Volkswagen
<1>2. CASE m.brand = "HYUNDAI"
  BY <1>2 DEF ReadButtons, HyundaiButtons, Honda, Volkswagen
<1>3. CASE m.brand = "GM"
  BY <1>3 DEF ReadButtons, GmButtons, Honda, Volkswagen
<1>4. CASE m.brand \in Volkswagen
  <2> DEFINE q == ReadButtons(m, h, b)
  <2>1. q = VwButtons(m, h, b)
    BY <1>4 DEF ReadButtons, Honda, Volkswagen
  <2>2. CASE OnButtons(m)
    <3> DEFINE c == IF Released(h, b) THEN h.acc_main_on ELSE h.controls_allowed
    <3>1. q = [h EXCEPT !.controls_allowed = c /\ "CANCEL" \notin b,
                        !.cruise_button_prev = b]
      BY <2>1, <2>2 DEF VwButtons
    <3>2. c => h.acc_main_on \/ h.controls_allowed
      OBVIOUS
    <3>3. c /\ ~h.controls_allowed => Released(h, b)
      OBVIOUS
    <3> HIDE DEF c, q
    <3>4. /\ SameBrakes(h, q)
          /\ q.cruise_engaged_prev = h.cruise_engaged_prev
          /\ q.acc_main_on = h.acc_main_on
          /\ q.cruise_button_prev = b
          /\ q.controls_allowed => c /\ "CANCEL" \notin b
      BY <3>1
    <3>5. Released(h, b) => (h.cruise_button_prev \cup b) \cap {"SET", "RESUME"} # {}
      OBVIOUS
    <3> HIDE DEF Released
    <3> QED BY <1>4, <3>2, <3>3, <3>4, <3>5 DEF Volkswagen, q
  <2>3. CASE ~OnButtons(m)
    <3>1. q = h \/ q = [h EXCEPT !.controls_allowed = FALSE]
      BY <2>1, <2>3 DEF VwButtons
    <3> HIDE DEF q
    <3>2. /\ SameBrakes(h, q)
          /\ q.cruise_engaged_prev = h.cruise_engaged_prev
          /\ q.acc_main_on = h.acc_main_on
          /\ q.cruise_button_prev = h.cruise_button_prev
          /\ q.controls_allowed => h.controls_allowed
      BY <3>1
    <3> QED BY <1>4, <2>3, <3>2 DEF Volkswagen, q
  <2> QED BY <2>2, <2>3
<1>5. CASE m.brand \notin Honda \cup Volkswagen \cup {"HYUNDAI", "GM"}
  <2>1. ReadButtons(m, h, b) = h
    BY <1>5 DEF ReadButtons
  <2>2. ~OnButtons(m)
    BY <1>5 DEF OnButtons, Honda
  <2> QED BY <1>5, <2>1, <2>2
<1> QED BY <1>1, <1>2, <1>3, <1>4, <1>5

LEMMA AebDoes ==
    ASSUME NEW m \in Mode, NEW h \in Hook, NEW aeb \in BOOLEAN, NEW brake \in Brakes
    PROVE  LET q == ReadAeb(m, h, aeb, brake)
           IN  /\ q.controls_allowed = h.controls_allowed
               /\ q.cruise_engaged_prev = h.cruise_engaged_prev
               /\ q.cruise_button_prev = h.cruise_button_prev
               /\ q.acc_main_on = h.acc_main_on
               /\ q.last_button = h.last_button
               /\ aeb /\ FwdBrake(m, h) => FwdBrake(m, q)
BY DEF ReadAeb, FwdBrake, Hook

-----------------------------------------------------------------------------
(* Off means off *)

Off(m, h) == OnButtons(m) /\ h.controls_allowed =>
                 /\ "CANCEL" \notin h.cruise_button_prev
                 /\ m.brand \in Honda \cup Volkswagen => h.acc_main_on

LEMMA OffStep == ModesTypeOK /\ OffMeansOff /\ [ModesNext]_modesVars => OffMeansOff'
<1> SUFFICES ASSUME ModesTypeOK, OffMeansOff, [ModesNext]_modesVars PROVE OffMeansOff'
  OBVIOUS
<1>1. /\ mode \in Mode /\ hook \in Hook
      /\ car.held \in SUBSET Button /\ car.cruise \in BOOLEAN /\ car.main \in BOOLEAN
      /\ Off(mode, hook)
  BY DEF ModesTypeOK, OffMeansOff, Off
<1>2. CASE Press \/ MainSwitch \/ CancelReenables \/ CruiseEnds \/ HostPress
           \/ UNCHANGED modesVars
  BY <1>2 DEF Press, MainSwitch, CancelReenables, CruiseEnds, HostPress, modesVars,
              OffMeansOff, OnButtons
<1>3. CASE RxCruise
  <2>1. Off(mode, ReadCruise(mode, hook, car.cruise, car.main))
    BY <1>1, CruiseDoes DEF Off
  <2> QED BY <1>3, <2>1 DEF RxCruise, Becomes, OffMeansOff, Off, OnButtons
<1>4. Off(mode, ReadMain(mode, hook, car.main))
  BY <1>1, MainDoes DEF Off
<1>5. CASE RxMain
  BY <1>4, <1>5 DEF RxMain, Becomes, OffMeansOff, Off, OnButtons
<1>6. CASE RxButtons
  <2>1. ASSUME NEW h \in Hook, Off(mode, h)
        PROVE  Off(mode, ReadButtons(mode, h, car.held))
    BY <1>1, <2>1, ButtonsDo DEF Off
  <2>2. PICK h \in Hook : Off(mode, h) /\ Becomes(ReadButtons(mode, h, car.held))
    BY <1>1, <1>4, <1>6, MainTypes DEF RxButtons
  <2>3. Off(mode, ReadButtons(mode, h, car.held))
    BY <2>1, <2>2
  <2> QED BY <1>6, <2>2, <2>3 DEF RxButtons, Becomes, OffMeansOff, Off, OnButtons
<1>7. CASE RxPedals
  <2>1. PICK gas \in BOOLEAN, withdraw \in BOOLEAN :
          hook' = [hook EXCEPT !.gas_pressed_prev = gas,
                               !.controls_allowed = @ /\ ~withdraw]
    BY <1>7 DEF RxPedals, Becomes
  <2>2. Off(mode, hook')
    BY <1>1, <2>1 DEF Off, Hook
  <2> QED BY <1>7, <2>2 DEF RxPedals, OffMeansOff, Off, OnButtons
<1>8. CASE RxAeb
  <2>1. PICK aeb \in BOOLEAN, brake \in Brakes :
          hook' = ReadAeb(mode, hook, aeb, brake)
    BY <1>8 DEF RxAeb, Becomes
  <2>2. Off(mode, hook')
    BY <1>1, <2>1, AebDoes DEF Off
  <2> QED BY <1>8, <2>2 DEF RxAeb, OffMeansOff, Off, OnButtons
<1>9. CASE HostBrake
  <2>1. Off(mode, hook')
    BY <1>1, <1>9 DEF HostBrake, Off, Hook
  <2> QED BY <1>9, <2>1 DEF HostBrake, OffMeansOff, Off, OnButtons
<1>10. CASE SetMode
  <2>1. ~hook'.controls_allowed
    BY <1>1, <1>10 DEF SetMode, Reset, FreshHook, Hook
  <2> QED BY <2>1 DEF OffMeansOff
<1> QED BY <1>2, <1>3, <1>5, <1>6, <1>7, <1>8, <1>9, <1>10 DEF ModesNext

\* Where the driver's buttons enter the controls, cancel and the main switch
\* leave them, whatever else the message says (0x1A6 of safety_honda.h, GRA_ACC_01
\* and GRA_Neu of Volkswagen, hyundai_common_cruise_buttons_check).
THEOREM CancelLeaves == ModesSpec => []OffMeansOff
<1>1. ModesInit => OffMeansOff
  BY DEF ModesInit, OffMeansOff, FreshHook
<1> QED BY <1>1, TypeInit, TypeStep, OffStep, PTL DEF ModesSpec

-----------------------------------------------------------------------------
(* The stock AEB *)

Latched == stock.passed => FwdBrake(mode, hook)

LEMMA LatchedStep == ModesTypeOK /\ Latched /\ [ModesNext]_modesVars => Latched'
<1> SUFFICES ASSUME ModesTypeOK, Latched, [ModesNext]_modesVars PROVE Latched'
  OBVIOUS
<1>1. /\ mode \in Mode /\ hook \in Hook
      /\ car.held \in SUBSET Button /\ car.cruise \in BOOLEAN /\ car.main \in BOOLEAN
  BY DEF ModesTypeOK
<1>2. CASE Press \/ MainSwitch \/ CancelReenables \/ CruiseEnds \/ HostPress
           \/ UNCHANGED modesVars
  BY <1>2 DEF Press, MainSwitch, CancelReenables, CruiseEnds, HostPress, modesVars,
              Latched, FwdBrake
<1>3. ASSUME SameBrakes(hook, hook'), UNCHANGED <<mode, stock>> PROVE Latched'
  BY <1>3 DEF SameBrakes, Latched, FwdBrake
<1>4. CASE RxCruise
  BY <1>1, <1>3, <1>4, CruiseDoes DEF RxCruise, Becomes
<1>5. CASE RxMain
  BY <1>1, <1>3, <1>5, MainDoes DEF RxMain, Becomes
<1>6. CASE RxButtons
  <2>1. PICK h \in Hook : SameBrakes(hook, h) /\ hook' = ReadButtons(mode, h, car.held)
    BY <1>1, <1>6, MainTypes, MainDoes DEF RxButtons, Becomes, SameBrakes
  <2>2. SameBrakes(h, hook')
    BY <1>1, <2>1, ButtonsDo
  <2> QED BY <1>3, <1>6, <2>1, <2>2 DEF RxButtons, SameBrakes
<1>7. CASE RxPedals
  <2>1. SameBrakes(hook, hook')
    BY <1>1, <1>7 DEF RxPedals, Becomes, SameBrakes, Hook
  <2> QED BY <1>3, <1>7, <2>1 DEF RxPedals
<1>8. CASE RxAeb
  <2>1. PICK aeb \in BOOLEAN, brake \in Brakes :
          /\ hook' = ReadAeb(mode, hook, aeb, brake)
          /\ stock'.passed = (aeb /\ (FwdBrake(mode, hook') \/ stock.passed))
          /\ mode' = mode
    BY <1>8 DEF RxAeb, Becomes
  <2>2. aeb /\ FwdBrake(mode, hook) => FwdBrake(mode, hook')
    BY <1>1, <2>1, AebDoes
  <2> QED BY <2>1, <2>2 DEF Latched, FwdBrake
<1>9. CASE HostBrake
  <2>1. SameBrakes(hook, hook')
    BY <1>1, <1>9 DEF HostBrake, SameBrakes, Hook
  <2> QED BY <1>3, <1>9, <2>1 DEF HostBrake
<1>10. CASE SetMode
  BY <1>10 DEF SetMode, Latched
<1> QED BY <1>2, <1>4, <1>5, <1>6, <1>7, <1>8, <1>9, <1>10 DEF ModesNext

\* A stock AEB event that was let through is until it is over, and no brake
\* command of the host is (honda_fwd_brake, tesla_stock_aeb).
THEOREM AebStaysThrough == ModesSpec => []AebIsLatched
<1>1. ModesInit => Latched
  BY DEF ModesInit, Latched
<1>2. Latched => AebIsLatched
  BY DEF Latched, AebIsLatched, TxBrake
<1> QED BY <1>1, <1>2, TypeInit, TypeStep, LatchedStep, PTL DEF ModesSpec

-----------------------------------------------------------------------------
(* The driver engages *)

\* A Hyundai that follows the stock cruise control: it counts button messages.
Hyundai(m) == m.brand = "HYUNDAI" /\ ~OnButtons(m)

Counted == mode.brand = "HYUNDAI" => since <= hook.last_button

\* What could enter the controls without the driver, and is not there.
Quiet(m, h, c) == /\ ~h.controls_allowed
                  /\ (c.held \cup h.cruise_button_prev) \cap {"SET", "RESUME"} = {}
                  /\ ~OnButtons(m) /\ c.cruise => h.cruise_engaged_prev

Unasked == ~asked /\ ~Hyundai(mode) => Quiet(mode, hook, car)

LEMMA CountedStep == ModesTypeOK /\ Counted /\ [ModesNext]_modesVars => Counted'
<1> SUFFICES ASSUME ModesTypeOK, Counted, [ModesNext]_modesVars PROVE Counted'
  OBVIOUS
<1>1. /\ mode \in Mode /\ hook \in Hook
      /\ car.held \in SUBSET Button /\ car.cruise \in BOOLEAN /\ car.main \in BOOLEAN
      /\ since \in 0 .. HYUNDAI_PREV_BUTTON_SAMPLES
      /\ hook.last_button \in 0 .. HYUNDAI_PREV_BUTTON_SAMPLES
      /\ HYUNDAI_PREV_BUTTON_SAMPLES \in Nat
  BY Facts DEF ModesTypeOK, Hook
<1>2. ASSUME UNCHANGED mode, since' \in {0, since}, hook'.last_button = hook.last_button
      PROVE  Counted'
  BY <1>1, <1>2 DEF Counted
<1>3. CASE Press \/ MainSwitch \/ CancelReenables \/ CruiseEnds \/ HostPress
           \/ UNCHANGED modesVars
  BY <1>2, <1>3 DEF Press, MainSwitch, CancelReenables, CruiseEnds, HostPress, modesVars
<1>4. CASE RxCruise
  BY <1>1, <1>2, <1>4, CruiseDoes DEF RxCruise, Becomes
<1>5. CASE RxMain
  BY <1>1, <1>2, <1>5 DEF RxMain, Becomes, ReadMain, Hook
<1>6. CASE RxButtons
  <2>1. CASE mode.brand = "HYUNDAI"
    <3>1. hook' = ReadButtons(mode, hook, car.held)
      BY <1>6, <2>1 DEF RxButtons, Becomes, Honda
    <3>2. hook'.last_button = IF car.held # {} THEN 0
                ELSE IF hook.last_button < HYUNDAI_PREV_BUTTON_SAMPLES
                     THEN hook.last_button + 1 ELSE hook.last_button
      BY <1>1, <2>1, <3>1, ButtonsDo
    <3>3. since' = IF car.held # {} THEN 0
                ELSE IF since < HYUNDAI_PREV_BUTTON_SAMPLES THEN since + 1 ELSE since
      BY <1>6 DEF RxButtons
    <3>4. since <= hook.last_button
      BY <2>1 DEF Counted
    <3>5. since' <= hook'.last_button
      BY <1>1, <3>2, <3>3, <3>4
    <3> QED BY <3>5 DEF Counted
  <2>2. CASE mode.brand # "HYUNDAI"
    BY <1>6, <2>2 DEF RxButtons, Counted
  <2> QED BY <2>1, <2>2
<1>7. CASE RxPedals
  BY <1>1, <1>2, <1>7 DEF RxPedals, Becomes, Hook
<1>8. CASE RxAeb
  BY <1>1, <1>2, <1>8, AebDoes DEF RxAeb, Becomes
<1>9. CASE HostBrake
  BY <1>1, <1>2, <1>9 DEF HostBrake, Hook
<1>10. CASE SetMode
  <2>1. PICK m \in Mode : mode' = m /\ hook' = Reset(m, hook)
    BY <1>10 DEF SetMode
  <2>2. m.brand = "HYUNDAI" => hook'.last_button = HYUNDAI_PREV_BUTTON_SAMPLES
    BY <1>1, <2>1 DEF Reset, FreshHook, Hook
  <2> QED BY <1>1, <1>10, <2>1, <2>2 DEF SetMode, Counted
<1> QED BY <1>3, <1>4, <1>5, <1>6, <1>7, <1>8, <1>9, <1>10 DEF ModesNext

\* What a message may do to the controls, the buttons and the cruise control.
Gentle(m, h, c, q) ==
    /\ ~h.controls_allowed /\ q.controls_allowed =>
         \/ Hyundai(m)
         \/ (c.held \cup h.cruise_button_prev) \cap {"SET", "RESUME"} # {}
         \/ ~OnButtons(m) /\ c.cruise /\ ~h.cruise_engaged_prev
    /\ q.cruise_button_prev \in {h.cruise_button_prev, c.held}
    /\ c.cruise /\ h.cruise_engaged_prev => q.cruise_engaged_prev

LEMMA GentleQuiet ==
    ASSUME ModesTypeOK, Unasked, NEW q, Becomes(q), UNCHANGED <<mode, car>>,
           Gentle(mode, hook, car, q)
    PROVE  Unasked'
<1> SUFFICES ASSUME ~asked', ~Hyundai(mode) PROVE Quiet(mode, q, car)
  BY DEF Unasked, Becomes, Hyundai, OnButtons, Quiet
<1>1. Engaging(mode) = {"SET", "RESUME"}
  BY DEF Engaging, Hyundai
<1>2. CASE ~asked
  <2>1. Quiet(mode, hook, car)
    BY <1>2 DEF Unasked
  <2> QED BY <2>1 DEF Quiet, Gentle
<1>3. CASE asked
  <2>1. hook.controls_allowed /\ ~q.controls_allowed /\ ~Pending(mode, q, car)
    BY <1>3 DEF Becomes
  <2> QED BY <1>1, <1>3, <2>1 DEF Pending, Quiet
<1> QED BY <1>2, <1>3

LEMMA GentleEnters ==
    ASSUME Unasked, Gentle(mode, hook, car, hook'),
           ~hook.controls_allowed, hook'.controls_allowed
    PROVE  asked \/ Hyundai(mode)
BY DEF Unasked, Quiet, Gentle

\* Every message the panda reads is gentle.
Reads == RxCruise \/ RxMain \/ RxButtons \/ RxPedals \/ RxAeb

LEMMA ReadsGently ==
    ASSUME ModesTypeOK, Reads
    PROVE  /\ Becomes(hook') /\ UNCHANGED <<mode, car>>
           /\ Gentle(mode, hook, car, hook')
<1>1. /\ mode \in Mode /\ hook \in Hook
      /\ car.held \in SUBSET Button /\ car.cruise \in BOOLEAN /\ car.main \in BOOLEAN
  BY DEF ModesTypeOK
<1>2. Becomes(hook') /\ UNCHANGED <<mode, car>>
  BY DEF Reads, RxCruise, RxMain, RxButtons, RxPedals, RxAeb, Becomes
<1>3. CASE RxCruise
  <2>1. hook' = ReadCruise(mode, hook, car.cruise, car.main)
    BY <1>3 DEF RxCruise, Becomes
  <2> QED BY <1>1, <1>2, <2>1, CruiseDoes DEF Gentle
<1>4. CASE RxMain
  <2>1. hook' = ReadMain(mode, hook, car.main)
    BY <1>4 DEF RxMain, Becomes
  <2> QED BY <1>1, <1>2, <2>1, MainDoes DEF Gentle
<1>5. CASE RxButtons
  <2>1. PICK h \in Hook :
          /\ h.cruise_button_prev = hook.cruise_button_prev
          /\ h.cruise_engaged_prev = hook.cruise_engaged_prev
          /\ h.controls_allowed => hook.controls_allowed
          /\ hook' = ReadButtons(mode, h, car.held)
    BY <1>1, <1>5, MainTypes, MainDoes DEF RxButtons, Becomes
  <2>2. /\ hook'.cruise_engaged_prev = h.cruise_engaged_prev
        /\ hook'.cruise_button_prev \in {h.cruise_button_prev, car.held}
        /\ ~h.controls_allowed /\ hook'.controls_allowed =>
             (h.cruise_button_prev \cup car.held) \cap {"SET", "RESUME"} # {}
    BY <1>1, <2>1, ButtonsDo
  <2>3. h.cruise_button_prev \cup car.held = car.held \cup hook.cruise_button_prev
    BY <2>1
  <2> QED BY <1>2, <2>1, <2>2, <2>3 DEF Gentle
<1>6. CASE RxPedals
  <2>1. /\ hook'.cruise_button_prev = hook.cruise_button_prev
        /\ hook'.cruise_engaged_prev = hook.cruise_engaged_prev
        /\ hook'.controls_allowed => hook.controls_allowed
    BY <1>1, <1>6 DEF RxPedals, Becomes, Hook
  <2> QED BY <1>2, <2>1 DEF Gentle
<1>7. CASE RxAeb
  <2>1. /\ hook'.cruise_button_prev = hook.cruise_button_prev
        /\ hook'.cruise_engaged_prev = hook.cruise_engaged_prev
        /\ hook'.controls_allowed = hook.controls_allowed
    BY <1>1, <1>7, AebDoes DEF RxAeb, Becomes
  <2> QED BY <1>2, <2>1 DEF Gentle
<1> QED BY <1>3, <1>4, <1>5, <1>6, <1>7 DEF Reads

LEMMA UnaskedStep == ModesTypeOK /\ Unasked /\ [ModesNext]_modesVars => Unasked'
<1> SUFFICES ASSUME ModesTypeOK, Unasked, [ModesNext]_modesVars PROVE Unasked'
  OBVIOUS
<1>1. /\ mode \in Mode /\ hook \in Hook
      /\ car \in Car /\ asked \in BOOLEAN
      /\ car.held \in SUBSET Button /\ car.cruise \in BOOLEAN /\ car.main \in BOOLEAN
  BY DEF ModesTypeOK, Car
<1>2. CASE Reads
  BY <1>2, ReadsGently, GentleQuiet
<1>3. ASSUME UNCHANGED <<mode, hook, asked>>, car'.held = car.held,
             ~asked /\ ~OnButtons(mode) /\ ~Hyundai(mode) /\ car'.cruise => car.cruise
      PROVE  Unasked'
  BY <1>3 DEF Unasked, Hyundai, OnButtons, Quiet
<1>4. CASE Press
  <2> SUFFICES ASSUME ~asked', ~Hyundai(mode) PROVE Quiet(mode, hook, car')
    BY <1>4 DEF Press, Unasked, Hyundai, OnButtons, Quiet
  <2>1. Engaging(mode) = {"SET", "RESUME"}
    BY DEF Engaging, Hyundai
  <2>2. PICK b \in Held(mode.brand), on \in BOOLEAN :
          /\ on => car.cruise \/ (b \cup car.held) \cap {"SET", "RESUME"} # {}
          /\ car' = [car EXCEPT !.held = b, !.cruise = on]
          /\ asked' = (asked \/ b \cap Engaging(mode) # {})
    BY <1>1, <1>4 DEF Press
  <2>3. ~asked /\ b \cap {"SET", "RESUME"} = {}
    BY <2>1, <2>2
  <2>4. Quiet(mode, hook, car)
    BY <2>3 DEF Unasked
  <2>5. car'.held = b /\ car'.cruise = on
    BY <1>1, <2>2 DEF Car
  <2>6. on => car.cruise
    BY <2>2, <2>3, <2>4 DEF Quiet
  <2> QED BY <2>3, <2>4, <2>5, <2>6 DEF Quiet
<1>5. CASE MainSwitch \/ CancelReenables \/ CruiseEnds
  BY <1>1, <1>3, <1>5 DEF MainSwitch, CancelReenables, CruiseEnds, Car, Hyundai
<1>6. CASE HostPress
  <2>1. PICK x \in {"SET", "RESUME", "CANCEL"} :
          /\ MayPress(mode, hook, x)
          /\ car'.held = car.held
          /\ car'.cruise => car.cruise \/ x # "CANCEL"
    BY <1>1, <1>6 DEF HostPress, Car
  <2>2. MayPress(mode, hook, x) /\ x # "CANCEL" /\ ~OnButtons(mode) =>
          hook.controls_allowed
    BY DEF MayPress, Hyundai
  <2>3. ~asked /\ ~Hyundai(mode) => ~hook.controls_allowed
    BY DEF Unasked, Quiet
  <2> QED BY <1>3, <1>6, <2>1, <2>2, <2>3 DEF HostPress
<1>7. CASE HostBrake
  <2>1. /\ hook'.controls_allowed = hook.controls_allowed
        /\ hook'.cruise_button_prev = hook.cruise_button_prev
        /\ hook'.cruise_engaged_prev = hook.cruise_engaged_prev
    BY <1>1, <1>7 DEF HostBrake, Hook
  <2> QED BY <1>7, <2>1 DEF HostBrake, Unasked, Hyundai, OnButtons, Quiet
<1>8. CASE SetMode
  <2> SUFFICES ASSUME ~asked', ~Hyundai(mode') PROVE Quiet(mode', hook', car)
    BY <1>8 DEF SetMode, Unasked, Hyundai, OnButtons, Quiet
  <2>1. Engaging(mode') = {"SET", "RESUME"}
    BY DEF Engaging, Hyundai, OnButtons
  <2>2. /\ ~hook'.controls_allowed /\ hook'.cruise_button_prev = {}
    BY <1>1, <1>8 DEF SetMode, Reset, FreshHook
  <2>3. ~car.cruise /\ car.held \cap {"SET", "RESUME"} = {}
    BY <1>8, <2>1 DEF SetMode
  <2> QED BY <2>2, <2>3 DEF Quiet
<1>9. CASE UNCHANGED modesVars
  BY <1>3, <1>9 DEF modesVars
<1> QED BY <1>2, <1>4, <1>5, <1>6, <1>7, <1>8, <1>9 DEF ModesNext, Reads

LEMMA EngagesStep ==
    ModesTypeOK /\ Unasked /\ Counted /\ [ModesNext]_modesVars =>
        (~hook.controls_allowed /\ hook'.controls_allowed =>
           asked \/ (Hyundai(mode) /\ since < HYUNDAI_PREV_BUTTON_SAMPLES))
<1> SUFFICES ASSUME ModesTypeOK, Unasked, Counted, [ModesNext]_modesVars,
                    ~hook.controls_allowed, hook'.controls_allowed
             PROVE  asked \/ (Hyundai(mode) /\ since < HYUNDAI_PREV_BUTTON_SAMPLES)
  OBVIOUS
<1>1. /\ mode \in Mode /\ hook \in Hook
      /\ car.held \in SUBSET Button /\ car.cruise \in BOOLEAN /\ car.main \in BOOLEAN
      /\ since \in Nat /\ hook.last_button \in Nat
      /\ HYUNDAI_PREV_BUTTON_SAMPLES \in Nat
  BY Facts DEF ModesTypeOK, Hook
<1>2. Reads
  <2>1. HostBrake => hook'.controls_allowed = hook.controls_allowed
    BY <1>1 DEF HostBrake, Hook
  <2>2. SetMode => ~hook'.controls_allowed
    BY <1>1 DEF SetMode, Reset, FreshHook
  <2> QED BY <2>1, <2>2 DEF ModesNext, Press, MainSwitch, CancelReenables, CruiseEnds,
                           HostPress, modesVars, Reads
<1>3. asked \/ Hyundai(mode)
  BY <1>2, ReadsGently, GentleEnters
<1>4. CASE Hyundai(mode)
  <2>1. hook.last_button < HYUNDAI_PREV_BUTTON_SAMPLES
    <3>1. CASE RxCruise
      BY <1>1, <1>4, <3>1, CruiseDoes DEF RxCruise, Becomes, Hyundai
    <3>2. CASE RxMain
      BY <1>1, <3>2, MainDoes DEF RxMain, Becomes
    <3>3. CASE RxButtons
      <4>1. hook' = ReadButtons(mode, hook, car.held)
        BY <1>4, <3>3 DEF RxButtons, Becomes, Hyundai, Honda
      <4> QED BY <1>1, <1>4, <4>1, ButtonsDo DEF Hyundai
    <3>4. CASE RxPedals
      BY <1>1, <3>4 DEF RxPedals, Becomes, Hook
    <3>5. CASE RxAeb
      BY <1>1, <3>5, AebDoes DEF RxAeb, Becomes
    <3> QED BY <1>2, <3>1, <3>2, <3>3, <3>4, <3>5 DEF Reads
  <2>2. since <= hook.last_button
    BY <1>4 DEF Counted, Hyundai
  <2> QED BY <1>1, <1>4, <2>1, <2>2
<1> QED BY <1>3, <1>4

\* Controls are only entered when the driver asked for them, whatever buttons the
\* host presses and whatever modes it sets in between; a Hyundai's within a few
\* button messages of any button of the driver (set_safety_hooks and the hooks of
\* the car makers' modes).
THEOREM OnlyTheDriverEngages == ModesSpec => DriverEngages
<1>1. ModesInit => Unasked /\ Counted
  BY Facts DEF ModesInit, FreshHook, Unasked, Counted, Quiet
<1>2. ModesTypeOK /\ Unasked /\ Counted /\ [ModesNext]_modesVars =>
        (~hook.controls_allowed /\ hook'.controls_allowed =>
          \/ asked
          \/ /\ mode.brand = "HYUNDAI" /\ ~OnButtons(mode)
             /\ since < HYUNDAI_PREV_BUTTON_SAMPLES)
  BY EngagesStep DEF Hyundai
<1> QED BY <1>1, <1>2, TypeInit, TypeStep, UnaskedStep, CountedStep, PTL
        DEF ModesSpec, DriverEngages
=============================================================================
