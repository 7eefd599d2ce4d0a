-------------------------- MODULE SupervisorProofs -------------------------
(***************************************************************************)
(* Supervisor for every value of its constants: any tick rate, any time    *)
(* limits, any set of requests, and a harness replugged any number of      *)
(* times.  First what each C function keeps, as a lemma on its operator;   *)
(* then the steps; then the invariants.                                    *)
(***************************************************************************)
EXTENDS Supervisor, TLAPS

USE DEF CarMode, Harness, Modes, CanNum, Transceiver

\* Each core is configured for the safety mode.
Settled(s) == /\ s.can_silent = (s.mode = "SILENT")
              /\ \A c \in CanNum : s.core_silent[c] = (s.mode = "SILENT")

\* The heartbeat counter of a mode that lives on heartbeats is below the
\* limit, whether it is being watched or about to be watched again.
Kept(s) == (\/ s.mode = CarMode
            \/ s.mode \in HeartbeatModes /\ ~s.heartbeat_disabled)
             => s.heartbeat_counter < HEARTBEAT_IGNITION_CNT_ON

Lost(s) == s.heartbeat_lost => s.mode \in {"SILENT", "NOOUTPUT"}

Used(s) == s.controls_allowed =>
              /\ s.mode \in Intercepting
              /\ s.mode = CarMode => s.mismatches < MaxMismatches

\* What the functions called by several handlers preserve.
Good(s) == s \in Firmware /\ Settled(s) /\ Kept(s) /\ Lost(s) /\ Used(s)

\* Two states that agree on all that Good looks at beyond the types.
Alike(s, t) == /\ s.mode = t.mode
               /\ s.can_silent = t.can_silent
               /\ s.core_silent = t.core_silent
               /\ s.heartbeat_counter = t.heartbeat_counter
               /\ s.heartbeat_disabled = t.heartbeat_disabled
               /\ s.heartbeat_lost = t.heartbeat_lost
               /\ s.controls_allowed = t.controls_allowed
               /\ s.mismatches = t.mismatches

LEMMA AlikeGood ==
    ASSUME NEW s, NEW t, Good(s), t \in Firmware, Alike(s, t)
    PROVE  Good(t)
  BY DEF Good, Alike, Settled, Kept, Lost, Used

-----------------------------------------------------------------------------
(* CAN cores, transceivers, relay and power saving *)

LEMMA CanInitAllFacts ==
    ASSUME NEW s \in Firmware, s.can_silent = (s.mode = "SILENT")
    PROVE  /\ CanInitAll(s) \in Firmware
           /\ Settled(CanInitAll(s))
           /\ Kept(s) => Kept(CanInitAll(s))
           /\ Lost(s) => Lost(CanInitAll(s))
           /\ Used(s) => Used(CanInitAll(s))
           /\ CanInitAll(s).mode = s.mode
           /\ CanInitAll(s).param = s.param
           /\ CanInitAll(s).heartbeat_counter = s.heartbeat_counter
           /\ CanInitAll(s).controls_allowed = s.controls_allowed
  <1> DEFINE core == [c \in CanNum |-> s.can_silent]
             irq == [c \in CanNum |-> TRUE]
             r == [s EXCEPT !.core_silent = core, !.irq = irq]
  <1>1. core \in [CanNum -> BOOLEAN] /\ irq \in [CanNum -> BOOLEAN]
    BY DEF Firmware
  <1>2. \A c \in CanNum : core[c] = s.can_silent
    OBVIOUS
  <1>3. CanInitAll(s) = r
    BY DEF CanInitAll
  <1> HIDE DEF core, irq
  <1>4. r \in Firmware
    BY <1>1 DEF Firmware
  <1>5. /\ r.core_silent = core
        /\ r.can_silent = s.can_silent
        /\ r.mode = s.mode
        /\ r.param = s.param
        /\ r.heartbeat_counter = s.heartbeat_counter
        /\ r.heartbeat_disabled = s.heartbeat_disabled
        /\ r.heartbeat_lost = s.heartbeat_lost
        /\ r.controls_allowed = s.controls_allowed
        /\ r.mismatches = s.mismatches
    BY DEF Firmware
  <1> HIDE DEF r
  <1>6. Settled(r)
    BY <1>2, <1>5 DEF Settled
  <1> QED
    BY <1>3, <1>4, <1>5, <1>6 DEF Kept, Lost, Used

LEMMA CanInitGood ==
    ASSUME NEW s, Good(s), NEW c \in CanNum
    PROVE  Good(CanInit(s, c))
  BY ZenonT(60) DEF CanInit, Firmware, Good, Settled, Kept, Lost, Used

LEMMA EnableCanTransceiversAlike ==
    ASSUME NEW s \in Firmware, NEW e \in BOOLEAN
    PROVE  /\ EnableCanTransceivers(s, e) \in Firmware
           /\ Alike(s, EnableCanTransceivers(s, e))
           /\ EnableCanTransceivers(s, e).param = s.param
  BY DEF EnableCanTransceivers, Firmware, Alike

LEMMA SetCanModeAlike ==
    ASSUME NEW s \in Firmware, NEW m \in {"NORMAL", "OBD_CAN2"}
    PROVE  SetCanMode(s, m) \in Firmware /\ Alike(s, SetCanMode(s, m))
  <1>1. Mux(m, s.status) \in {2, 4}
    BY DEF Mux
  <1>2. (s.transceivers \ {2, 4}) \cup {Mux(m, s.status)} \in SUBSET Transceiver
    BY <1>1 DEF Firmware
  <1> QED
    BY <1>1, <1>2, ZenonT(60) DEF SetCanMode, Firmware, Alike

LEMMA SetInterceptRelayAlike ==
    ASSUME NEW s \in Firmware, NEW i \in BOOLEAN, NEW g \in BOOLEAN
    PROVE  /\ SetInterceptRelay(s, i, g) \in Firmware
           /\ Alike(s, SetInterceptRelay(s, i, g))
  BY ZenonT(60) DEF SetInterceptRelay, Firmware, Alike

LEMMA HarnessTickAlike ==
    ASSUME NEW s \in Firmware, NEW h \in Harness
    PROVE  HarnessTick(s, h) \in Firmware /\ Alike(s, HarnessTick(s, h))
  BY DEF HarnessTick, Firmware, Alike

\* The assignments of set_power_save_state.
LEMMA PowerFields ==
    ASSUME NEW s \in Firmware, NEW irq \in [CanNum -> BOOLEAN],
           NEW ir \in BOOLEAN, NEW e \in BOOLEAN
    PROVE  [s EXCEPT !.irq = irq, !.ir_on = ir, !.power_save = e] \in Firmware
  BY DEF Firmware

LEMMA SetPowerSaveAlike ==
    ASSUME NEW s \in Firmware, NEW e \in BOOLEAN
    PROVE  SetPowerSave(s, e) \in Firmware /\ Alike(s, SetPowerSave(s, e))
  <1>1. CASE e = s.power_save
    BY <1>1 DEF SetPowerSave, Alike
  <1>2. CASE e # s.power_save
    <2> DEFINE t == EnableCanTransceivers(s, ~e)
               other == IF s.status = "FLIPPED" THEN 0 ELSE 2
               irq == [c \in CanNum |-> IF c \in {1, other}
                                        THEN ~e ELSE s.irq[c]]
               ir == s.ir_on /\ ~e
    <2>1. t \in Firmware /\ Alike(s, t)
      BY EnableCanTransceiversAlike
    <2>2. irq \in [CanNum -> BOOLEAN] /\ ir \in BOOLEAN
      BY DEF Firmware
    <2> DEFINE r == SetPowerSave(s, e)
    <2>3. r = [t EXCEPT !.irq = irq,
                          !.ir_on = ir,
                          !.power_save = e]
      BY <1>2 DEF SetPowerSave
    <2> HIDE DEF t, irq, ir, r
    <2>4. r \in Firmware
      BY <2>1, <2>2, <2>3, PowerFields
    <2>5. Alike(t, r)
      BY <2>1, <2>2, <2>3 DEF Firmware, Alike
    <2> QED
      BY <2>1, <2>4, <2>5 DEF Alike, r
  <1> QED
    BY <1>1, <1>2

-----------------------------------------------------------------------------
(* Safety mode *)

\* The globals set_safety_mode assigns itself.
LEMMA ModeFields ==
    ASSUME NEW s \in Firmware, NEW n \in 0 .. CounterCap,
           NEW lost \in BOOLEAN, NEW silent \in BOOLEAN
    PROVE  [s EXCEPT !.heartbeat_counter = n, !.heartbeat_lost = lost,
                     !.can_silent = silent] \in Firmware
  BY DEF Firmware

LEMMA SwitchModeFacts ==
    ASSUME NEW s \in Firmware, NEW m \in Modes, NEW p \in {0, 1}
    PROVE  LET r == SwitchMode(s, m, p)
           IN  /\ r \in Firmware
               /\ r.mode = m
               /\ r.can_silent = (m = "SILENT")
               /\ r.controls_allowed = (m = "ALLOUTPUT")
               /\ m \in HeartbeatModes => /\ r.heartbeat_counter = 0
                                          /\ ~r.heartbeat_lost
               /\ m \notin HeartbeatModes =>
                    r.heartbeat_counter = s.heartbeat_counter
  <1> DEFINE h == SetSafetyHooks(s, m, p)
             r == SetInterceptRelay(h, m \in Intercepting, FALSE)
             mode == IF m = "ELM327" /\ p = 0 THEN "OBD_CAN2" ELSE "NORMAL"
             c == SetCanMode(r, mode)
  <1>1. /\ h \in Firmware
        /\ h.mode = m
        /\ h.controls_allowed = (m = "ALLOUTPUT")
        /\ h.heartbeat_counter = s.heartbeat_counter
    <2> DEFINE allowed == m = "ALLOUTPUT"
    <2>1. allowed \in BOOLEAN
      OBVIOUS
    <2>2. h = [s EXCEPT !.mode = m, !.param = p, !.controls_allowed = allowed]
      BY DEF SetSafetyHooks
    <2> HIDE DEF allowed, h
    <2>3. h \in Firmware
      BY <2>1, <2>2, ZenonT(60) DEF Firmware
    <2>4. h.mode = m /\ h.controls_allowed = allowed
      BY <2>2 DEF Firmware
    <2>5. h.heartbeat_counter = s.heartbeat_counter
      BY <2>2 DEF Firmware
    <2> QED
      BY <2>3, <2>4, <2>5 DEF allowed
  <1> HIDE DEF h
  <1>2. (m \in Intercepting) \in BOOLEAN /\ mode \in {"NORMAL", "OBD_CAN2"}
    OBVIOUS
  <1>3. r \in Firmware /\ Alike(h, r)
    BY <1>1, <1>2, SetInterceptRelayAlike
  <1> HIDE DEF r, mode
  <1>4. c \in Firmware /\ Alike(r, c)
    BY <1>2, <1>3, SetCanModeAlike
  <1>5. SwitchMode(s, m, p) =
          [c EXCEPT
            !.heartbeat_counter = IF m \in HeartbeatModes THEN 0 ELSE @,
            !.heartbeat_lost = @ /\ m \notin HeartbeatModes,
            !.can_silent = (m = "SILENT")]
    BY DEF SwitchMode, c, r, h, mode
  <1> HIDE DEF c
  <1>6. /\ c.mode = m
        /\ c.controls_allowed = (m = "ALLOUTPUT")
        /\ c.heartbeat_counter = s.heartbeat_counter
    BY <1>1, <1>3, <1>4 DEF Alike
  <1> DEFINE n == IF m \in HeartbeatModes THEN 0 ELSE c.heartbeat_counter
             lost == c.heartbeat_lost /\ m \notin HeartbeatModes
             silent == m = "SILENT"
             f == SwitchMode(s, m, p)
  <1>7. /\ n \in 0 .. CounterCap
        /\ lost \in BOOLEAN
        /\ silent \in BOOLEAN
    BY <1>4, SupervisorAssumption DEF Firmware
  <1>8. f = [c EXCEPT !.heartbeat_counter = n,
                      !.heartbeat_lost = lost,
                      !.can_silent = silent]
    BY <1>4, <1>5
  <1>9. /\ m \in HeartbeatModes => n = 0 /\ ~lost
        /\ m \notin HeartbeatModes => n = s.heartbeat_counter
    BY <1>6
  <1> HIDE DEF n, lost, f
  <1>10. f \in Firmware
    <2> HIDE DEF silent
    <2> QED
      BY <1>4, <1>7, <1>8, ModeFields
  <1>11. /\ f.mode = c.mode
         /\ f.controls_allowed = c.controls_allowed
         /\ f.heartbeat_counter = n
         /\ f.heartbeat_lost = lost
         /\ f.can_silent = silent
    <2> HIDE DEF silent
    <2> QED
      BY <1>4, <1>8 DEF Firmware
  <1> QED
    BY <1>6, <1>9, <1>10, <1>11 DEF f

\* set_safety_mode leaves nothing of the state before that matters here: it
\* takes any state of the right types to a good one.
LEMMA SetSafetyModeGood ==
    ASSUME NEW s \in Firmware, NEW m \in Modes, NEW p \in {0, 1}
    PROVE  /\ Good(SetSafetyMode(s, m, p))
           /\ SetSafetyMode(s, m, p).mode = IF m \in Registered THEN m
                                                                ELSE "SILENT"
  <1> DEFINE mode == IF m \in Registered THEN m ELSE "SILENT"
             r == SwitchMode(s, mode, IF m \in Registered THEN p ELSE 0)
  <1>1. SetSafetyMode(s, m, p) = CanInitAll(r)
    BY DEF SetSafetyMode
  <1>2. /\ r \in Firmware
        /\ r.mode = mode
        /\ r.can_silent = (mode = "SILENT")
        /\ r.controls_allowed = (mode = "ALLOUTPUT")
        /\ mode \in HeartbeatModes => /\ r.heartbeat_counter = 0
                                      /\ ~r.heartbeat_lost
    BY SwitchModeFacts
  <1> HIDE DEF r
  <1>3. mode \in Modes
    OBVIOUS
  <1> HIDE DEF mode
  <1>4. r.mode \in HeartbeatModes => r.heartbeat_counter = 0 /\ ~r.heartbeat_lost
    BY <1>2
  <1>5. CarMode \in HeartbeatModes /\ (r.mode \notin HeartbeatModes
                                        => r.mode \in {"SILENT", "NOOUTPUT"})
    BY <1>2, <1>3 DEF HeartbeatModes, Intercepting
  <1>6. Kept(r)
    BY <1>4, <1>5, SupervisorAssumption DEF Kept
  <1>7. Lost(r)
    BY <1>4, <1>5 DEF Lost
  <1>8. Used(r)
    BY <1>2 DEF Used, Intercepting
  <1> QED
    BY <1>1, <1>2, <1>6, <1>7, <1>8, CanInitAllFacts DEF Good, mode

-----------------------------------------------------------------------------
(* Power-on and tick_handler *)

LEMMA BootGood == ASSUME NEW h \in Harness PROVE Good(Boot(h))
  <1> DEFINE zero == [mode |-> "SILENT", param |-> 0,
                      controls_allowed |-> FALSE,
                      can_silent |-> TRUE,
                      core_silent |-> [c \in CanNum |-> TRUE],
                      irq |-> [c \in CanNum |-> FALSE],
                      flipped |-> FALSE,
                      can_mode |-> "NORMAL", fdcan2_mux |-> 2,
                      transceivers |-> {},
                      relay_driven |-> FALSE, relay_pins |-> {},
                      status |-> h, prev_status |-> "NC",
                      power_save |-> FALSE, ir_on |-> FALSE,
                      heartbeat_counter |-> 0,
                      heartbeat_lost |-> FALSE,
                      heartbeat_disabled |-> FALSE,
                      heartbeat_engaged |-> FALSE,
                      mismatches |-> 0,
                      siren_countdown |-> 0,
                      allowed_countdown |-> 0,
                      ignition_can |-> FALSE, ignition_can_cnt |-> 0,
                      loop_counter |-> 0]
             m == SetSafetyMode(zero, "SILENT", 0)
  <1>1. zero \in Firmware
    BY SupervisorAssumption DEF Firmware
  <1>2. Boot(h) = EnableCanTransceivers(m, TRUE)
    BY DEF Boot
  <1> HIDE DEF zero
  <1>3. Good(m)
    BY <1>1, SetSafetyModeGood
  <1> HIDE DEF m
  <1> QED
    BY <1>2, <1>3, EnableCanTransceiversAlike, AlikeGood DEF Good

LEMMA HarnessChangedGood ==
    ASSUME NEW s, Good(s)
    PROVE  Good(HarnessChanged(s))
  <1> DEFINE b == s.status = "FLIPPED"
             i == [s EXCEPT !.prev_status = s.status, !.flipped = b]
             o == CanInitAll(i)
             m == SetSafetyMode(o, s.mode, s.param)
  <1>1. HarnessChanged(s) = SetPowerSave(m, s.power_save)
    BY DEF HarnessChanged
  <1>2. i \in Firmware /\ i.can_silent = (i.mode = "SILENT")
    <2>1. b \in BOOLEAN
      OBVIOUS
    <2> HIDE DEF b
    <2> QED
      BY <2>1, ZenonT(60) DEF Good, Settled, Firmware
  <1> HIDE DEF i
  <1>3. o \in Firmware
    BY <1>2, CanInitAllFacts
  <1> HIDE DEF o
  <1>4. s.mode \in Modes /\ s.param \in {0, 1} /\ s.power_save \in BOOLEAN
    BY DEF Good, Firmware
  <1>5. Good(m)
    BY <1>3, <1>4, SetSafetyModeGood
  <1> HIDE DEF m
  <1> QED
    BY <1>1, <1>4, <1>5, SetPowerSaveAlike, AlikeGood DEF Good

LEMMA CheckHarnessGood ==
    ASSUME NEW s, Good(s), NEW h \in Harness
    PROVE  Good(CheckHarness(s, h))
  <1>1. Good(HarnessTick(s, h))
    BY HarnessTickAlike, AlikeGood DEF Good
  <1> QED
    BY <1>1, HarnessChangedGood DEF CheckHarness

\* Counting a second without heartbeat may take the counter to the limit; the
\* mode is left later in the same pass.
Counted(s) == /\ s \in Firmware /\ Settled(s) /\ Lost(s) /\ Used(s)
              /\ s.mode = CarMode => ~s.heartbeat_disabled

LEMMA CountHeartbeatCounted ==
    ASSUME NEW s, Good(s)
    PROVE  Counted(CountHeartbeat(s))
  <1> DEFINE n == Capped(s.heartbeat_counter + 1, CounterCap)
             off == s.heartbeat_disabled /\ s.mode # CarMode
             siren == Decremented(s.siren_countdown)
             r == [s EXCEPT !.heartbeat_counter = n,
                            !.heartbeat_disabled = off,
                            !.siren_countdown = siren]
  <1>1. s \in Firmware
    BY DEF Good
  <1>2. n \in 0 .. CounterCap
    BY <1>1, SupervisorAssumption DEF Capped, Firmware
  <1>3. siren \in 0 .. SirenTicks
    BY <1>1, SupervisorAssumption DEF Decremented, Firmware
  <1>4. off \in BOOLEAN /\ (s.mode = CarMode => ~off)
    OBVIOUS
  <1>5. CountHeartbeat(s) = r
    BY DEF CountHeartbeat
  <1> HIDE DEF n, off, siren
  <1>6. r \in Firmware
    BY <1>1, <1>2, <1>3, <1>4 DEF Firmware
  <1>7. /\ r.mode = s.mode
        /\ r.can_silent = s.can_silent
        /\ r.core_silent = s.core_silent
        /\ r.heartbeat_disabled = off
        /\ r.heartbeat_lost = s.heartbeat_lost
        /\ r.controls_allowed = s.controls_allowed
        /\ r.mismatches = s.mismatches
    BY <1>1 DEF Firmware
  <1> HIDE DEF r
  <1> QED
    BY <1>4, <1>5, <1>6, <1>7 DEF Good, Counted, Settled, Lost, Used

LEMMA CheckEngagedCounted ==
    ASSUME NEW s, Counted(s)
    PROVE  Counted(CheckEngaged(s))
  <1> DEFINE unused == s.controls_allowed /\ ~s.heartbeat_engaged
             count == IF unused THEN Capped(s.mismatches + 1, MaxMismatches)
                                ELSE 0
             allowed == s.controls_allowed /\ count < MaxMismatches
             down == IF s.controls_allowed \/ s.heartbeat_engaged
                     THEN AllowedTicks ELSE Decremented(s.allowed_countdown)
             r == [s EXCEPT !.mismatches = count,
                            !.controls_allowed = allowed,
                            !.allowed_countdown = down]
  <1>1. s \in Firmware
    BY DEF Counted
  <1>2. count \in 0 .. MaxMismatches
    BY <1>1, SupervisorAssumption DEF Capped, Firmware
  <1>3. down \in 0 .. AllowedTicks
    BY <1>1, SupervisorAssumption DEF Decremented, Firmware
  <1>4. /\ allowed \in BOOLEAN
        /\ allowed => s.controls_allowed /\ count < MaxMismatches
    OBVIOUS
  <1>5. CheckEngaged(s) = r
    BY DEF CheckEngaged
  <1> HIDE DEF count, allowed, down
  <1>6. r \in Firmware
    BY <1>1, <1>2, <1>3, <1>4 DEF Firmware
  <1>7. /\ r.mode = s.mode
        /\ r.can_silent = s.can_silent
        /\ r.core_silent = s.core_silent
        /\ r.heartbeat_disabled = s.heartbeat_disabled
        /\ r.heartbeat_lost = s.heartbeat_lost
        /\ r.controls_allowed = allowed
        /\ r.mismatches = count
    BY <1>1 DEF Firmware
  <1> HIDE DEF r
  <1> QED
    BY <1>4, <1>5, <1>6, <1>7 DEF Counted, Settled, Lost, Used

\* Whatever mode the heartbeat is lost in, the next one is SILENT.
LEMMA HeartbeatGoneGood ==
    ASSUME NEW s, Counted(s)
    PROVE  Good(HeartbeatGone(s))
  <1> DEFINE warn == s.allowed_countdown > 0
             siren == IF warn THEN SirenTicks ELSE s.siren_countdown
             down == IF warn THEN 0 ELSE s.allowed_countdown
             lost == s.heartbeat_lost \/ s.mode = CarMode
             h == [s EXCEPT !.siren_countdown = siren,
                            !.allowed_countdown = down,
                            !.heartbeat_lost = lost,
                            !.heartbeat_engaged = FALSE]
             m == IF s.mode # "SILENT" THEN SetSafetyMode(h, "SILENT", 0)
                                       ELSE h
             q == SetPowerSave(m, TRUE)
             r == [q EXCEPT !.ir_on = FALSE]
  <1>1. s \in Firmware
    BY DEF Counted
  <1>2. siren \in 0 .. SirenTicks /\ down \in 0 .. AllowedTicks
    BY <1>1, SupervisorAssumption DEF Firmware
  <1>3. lost \in BOOLEAN
    BY <1>1 DEF Firmware
  <1>4. HeartbeatGone(s) = r
    BY DEF HeartbeatGone
  <1> HIDE DEF siren, down, lost
  <1>5. h \in Firmware
    BY <1>1, <1>2, <1>3 DEF Firmware
  <1>6. /\ h.mode = s.mode
        /\ h.can_silent = s.can_silent
        /\ h.core_silent = s.core_silent
        /\ h.controls_allowed = s.controls_allowed
        /\ h.mismatches = s.mismatches
    BY <1>1 DEF Firmware
  <1> HIDE DEF h
  <1>7. Good(m)
    <2>1. CASE s.mode # "SILENT"
      BY <1>5, <2>1, SetSafetyModeGood
    <2>2. CASE s.mode = "SILENT"
      BY <1>5, <1>6, <2>2
         DEF Good, Counted, Settled, Kept, Lost, Used, HeartbeatModes,
             Intercepting
    <2> QED
      BY <2>1, <2>2
  <1> HIDE DEF m
  <1>8. Good(q)
    BY <1>7, SetPowerSaveAlike, AlikeGood DEF Good
  <1> HIDE DEF q
  <1>9. r \in Firmware /\ Alike(q, r)
    BY <1>8 DEF Good, Firmware, Alike
  <1> HIDE DEF r
  <1> QED
    BY <1>4, <1>8, <1>9, AlikeGood

LEMMA CheckHeartbeatGood ==
    ASSUME NEW s, Counted(s), NEW ign \in BOOLEAN
    PROVE  Good(CheckHeartbeat(s, ign))
  <1> DEFINE limit == IF Started(s, ign) THEN HEARTBEAT_IGNITION_CNT_ON
                                         ELSE HEARTBEAT_IGNITION_CNT_OFF
  <1>1. limit \in Int /\ limit <= HEARTBEAT_IGNITION_CNT_ON
    BY SupervisorAssumption
  <1>2. CheckHeartbeat(s, ign) =
          IF ~s.heartbeat_disabled /\ s.heartbeat_counter >= limit
          THEN HeartbeatGone(s) ELSE s
    BY DEF CheckHeartbeat
  <1> HIDE DEF limit
  <1>3. CASE ~s.heartbeat_disabled /\ s.heartbeat_counter >= limit
    BY <1>2, <1>3, HeartbeatGoneGood
  <1>4. CASE s.heartbeat_disabled
    BY <1>2, <1>4 DEF Good, Counted, Kept
  <1>5. CASE ~(s.heartbeat_counter >= limit)
    <2>1. s.heartbeat_counter \in Int /\ HEARTBEAT_IGNITION_CNT_ON \in Int
      BY SupervisorAssumption DEF Counted, Firmware
    <2>2. s.heartbeat_counter < HEARTBEAT_IGNITION_CNT_ON
      BY <1>1, <1>5, <2>1
    <2> QED
      BY <1>2, <1>5, <2>2 DEF Good, Counted, Kept
  <1> QED
    BY <1>3, <1>4, <1>5

LEMMA ExpireIgnitionGood ==
    ASSUME NEW s, Good(s)
    PROVE  Good(ExpireIgnition(s))
  <1> DEFINE on == s.ignition_can /\ s.ignition_can_cnt <= 2
             n == Capped(s.ignition_can_cnt + 1, 3)
             r == [s EXCEPT !.ignition_can = on, !.ignition_can_cnt = n]
  <1>1. on \in BOOLEAN /\ n \in 0 .. 3
    BY DEF Good, Firmware, Capped
  <1>2. ExpireIgnition(s) = r
    BY DEF ExpireIgnition
  <1> HIDE DEF on, n
  <1>3. r \in Firmware /\ Alike(s, r)
    BY <1>1, ZenonT(60) DEF Good, Firmware, Alike
  <1> HIDE DEF r
  <1> QED
    BY <1>2, <1>3, AlikeGood

\* Controls may be withdrawn, and allowed in a car's mode when the count of
\* mismatches is below the limit or starts again.
LEMMA ControlsGood ==
    ASSUME NEW s, Good(s), NEW allow \in BOOLEAN,
           NEW n \in 0 .. MaxMismatches,
           allow => /\ s.mode \in Intercepting
                    /\ s.mode = CarMode => n < MaxMismatches
    PROVE  Good([s EXCEPT !.controls_allowed = allow, !.mismatches = n])
  <1> DEFINE r == [s EXCEPT !.controls_allowed = allow, !.mismatches = n]
  <1>1. r \in Firmware
    BY DEF Good, Firmware
  <1>2. /\ r.mode = s.mode
        /\ r.can_silent = s.can_silent
        /\ r.core_silent = s.core_silent
        /\ r.heartbeat_counter = s.heartbeat_counter
        /\ r.heartbeat_disabled = s.heartbeat_disabled
        /\ r.heartbeat_lost = s.heartbeat_lost
        /\ r.controls_allowed = allow
        /\ r.mismatches = n
    BY DEF Good, Firmware
  <1> HIDE DEF r
  <1>3. Good(r)
    BY <1>1, <1>2 DEF Good, Settled, Kept, Lost, Used
  <1> QED
    BY <1>3 DEF r

LEMMA SafetyTickGood ==
    ASSUME NEW s, Good(s), NEW lagging \in BOOLEAN
    PROVE  Good(SafetyTick(s, lagging))
  <1> DEFINE allow == s.controls_allowed /\ ~(lagging /\ s.mode = CarMode)
  <1>1. allow \in BOOLEAN /\ s.mismatches \in 0 .. MaxMismatches
    BY DEF Good, Firmware
  <1>2. allow => /\ s.mode \in Intercepting
                 /\ s.mode = CarMode => s.mismatches < MaxMismatches
    BY DEF Good, Used
  <1>3. SafetyTick(s, lagging) =
          [s EXCEPT !.controls_allowed = allow, !.mismatches = s.mismatches]
    BY DEF SafetyTick, Good, Firmware
  <1> HIDE DEF allow
  <1>4. Good([s EXCEPT !.controls_allowed = allow,
                       !.mismatches = s.mismatches])
    BY <1>1, <1>2, ControlsGood
  <1> QED
    BY <1>3, <1>4

LEMMA RxHookGood ==
    ASSUME NEW s, Good(s), NEW allow \in BOOLEAN, s.mode = CarMode
    PROVE  Good(RxHook(s, allow))
  <1> DEFINE n == IF allow /\ ~s.controls_allowed THEN 0 ELSE s.mismatches
  <1>1. n \in 0 .. MaxMismatches
    BY SupervisorAssumption DEF Good, Firmware
  <1>2. allow => /\ s.mode \in Intercepting
                 /\ s.mode = CarMode => n < MaxMismatches
    BY SupervisorAssumption DEF Good, Used, Intercepting
  <1>3. RxHook(s, allow) =
          [s EXCEPT !.controls_allowed = allow, !.mismatches = n]
    BY DEF RxHook
  <1> HIDE DEF n
  <1>4. Good([s EXCEPT !.controls_allowed = allow, !.mismatches = n])
    BY <1>1, <1>2, ControlsGood
  <1> QED
    BY <1>3, <1>4

LEMMA TickHandlerGood ==
    ASSUME NEW s, Good(s), NEW seen \in Harness, NEW ign \in BOOLEAN,
           NEW lagging \in BOOLEAN
    PROVE  Good(TickHandler(s, seen, ign, lagging))
  <1> DEFINE h == CheckHarness(s, seen)
             t == IF s.loop_counter = 0 THEN SecondPass(h, ign, lagging) ELSE h
             r == [t EXCEPT !.loop_counter = (t.loop_counter + 1) % TICK_HZ]
  <1>1. Good(h)
    BY CheckHarnessGood
  <1> HIDE DEF h
  <1>2. Good(SecondPass(h, ign, lagging))
    <2>1. Counted(CheckEngaged(CountHeartbeat(h)))
      BY <1>1, CountHeartbeatCounted, CheckEngagedCounted
    <2>2. Good(CheckHeartbeat(CheckEngaged(CountHeartbeat(h)), ign))
      BY <2>1, CheckHeartbeatGood
    <2> QED
      BY <2>2, ExpireIgnitionGood, SafetyTickGood DEF SecondPass
  <1>3. Good(t)
    BY <1>1, <1>2
  <1>4. TickHandler(s, seen, ign, lagging) = r
    BY DEF TickHandler, h
  <1> HIDE DEF t
  <1>5. r \in Firmware /\ Alike(t, r)
    <2>1. (t.loop_counter + 1) % TICK_HZ \in 0 .. TICK_HZ - 1
      BY <1>3, SupervisorAssumption DEF Good, Firmware
    <2> QED
      BY <1>3, <2>1 DEF Good, Firmware, Alike
  <1> HIDE DEF r
  <1> QED
    BY <1>3, <1>4, <1>5, AlikeGood

-----------------------------------------------------------------------------
(* The requests that assign globals themselves *)

\* A state changed in heartbeat fields that Kept and Lost allow.
LEMMA HeartbeatGood ==
    ASSUME NEW s, Good(s), NEW engaged \in BOOLEAN
    PROVE  Good([s EXCEPT !.heartbeat_counter = 0, !.heartbeat_lost = FALSE,
                          !.heartbeat_disabled = FALSE,
                          !.heartbeat_engaged = engaged])
  <1> DEFINE r == [s EXCEPT !.heartbeat_counter = 0, !.heartbeat_lost = FALSE,
                            !.heartbeat_disabled = FALSE,
                            !.heartbeat_engaged = engaged]
  <1>1. r \in Firmware
    <2>1. s \in Firmware /\ 0 \in 0 .. CounterCap
      BY SupervisorAssumption DEF Good
    <2> QED
      BY <2>1 DEF Firmware
  <1>2. /\ r.mode = s.mode
        /\ r.can_silent = s.can_silent
        /\ r.core_silent = s.core_silent
        /\ r.heartbeat_counter = 0
        /\ ~r.heartbeat_lost
        /\ r.controls_allowed = s.controls_allowed
        /\ r.mismatches = s.mismatches
    BY DEF Good, Firmware
  <1> HIDE DEF r
  <1>3. Good(r)
    BY <1>1, <1>2, SupervisorAssumption DEF Good, Settled, Kept, Lost, Used
  <1> QED
    BY <1>3 DEF r

LEMMA DisableHeartbeatGood ==
    ASSUME NEW s, Good(s)
    PROVE  Good([s EXCEPT !.heartbeat_disabled = @ \/ s.mode # CarMode])
  <1> DEFINE off == s.heartbeat_disabled \/ s.mode # CarMode
             r == [s EXCEPT !.heartbeat_disabled = off]
  <1>1. off \in BOOLEAN /\ (s.heartbeat_disabled => off)
    BY DEF Good, Firmware
  <1> HIDE DEF off
  <1>2. r \in Firmware
    BY <1>1 DEF Good, Firmware
  <1>3. /\ r.mode = s.mode
        /\ r.can_silent = s.can_silent
        /\ r.core_silent = s.core_silent
        /\ r.heartbeat_counter = s.heartbeat_counter
        /\ r.heartbeat_disabled = off
        /\ r.heartbeat_lost = s.heartbeat_lost
        /\ r.controls_allowed = s.controls_allowed
        /\ r.mismatches = s.mismatches
    BY DEF Good, Firmware
  <1> HIDE DEF r
  <1>4. Good(r)
    BY <1>1, <1>2, <1>3 DEF Good, Settled, Kept, Lost, Used
  <1> QED
    BY <1>4 DEF r, off

LEMMA IrPowerGood ==
    ASSUME NEW s, Good(s), NEW on \in BOOLEAN
    PROVE  Good([s EXCEPT !.ir_on = on])
  <1>1. /\ [s EXCEPT !.ir_on = on] \in Firmware
        /\ Alike(s, [s EXCEPT !.ir_on = on])
    BY DEF Good, Firmware, Alike
  <1> QED
    BY <1>1, AlikeGood

LEMMA IgnitionGood ==
    ASSUME NEW s, Good(s), NEW on \in BOOLEAN
    PROVE  Good([s EXCEPT !.ignition_can = on, !.ignition_can_cnt = 0])
  <1> DEFINE r == [s EXCEPT !.ignition_can = on, !.ignition_can_cnt = 0]
  <1>1. s \in Firmware /\ 0 \in 0 .. 3
    BY DEF Good
  <1>2. r \in Firmware
    BY <1>1 DEF Firmware
  <1>3. Alike(s, r)
    BY <1>1 DEF Firmware, Alike
  <1> QED
    BY <1>2, <1>3, AlikeGood

LEMMA LoopbackGood ==
    ASSUME NEW s, Good(s)
    PROVE  Good(CanInitAll(s))
  <1>1. s \in Firmware /\ s.can_silent = (s.mode = "SILENT")
    BY DEF Good, Settled
  <1> QED
    BY <1>1, CanInitAllFacts DEF Good

-----------------------------------------------------------------------------
(* The invariant *)

\* The environment of the firmware.
Around == /\ plugged \in Harness
          /\ line \in BOOLEAN
          /\ plugs \in 0 .. MaxPlugs
          /\ host \in {"alive", "gone"}

IInv == Good(panda) /\ Around

LEMMA Initially == Init => IInv
  BY BootGood, SupervisorAssumption DEF Init, IInv, Around

LEMMA TickStep == IInv /\ Tick => IInv'
  <1> SUFFICES ASSUME IInv, Tick PROVE IInv'
    OBVIOUS
  <1>1. Good(panda')
    BY TickHandlerGood DEF IInv, Around, Tick
  <1> QED
    BY <1>1 DEF IInv, Around, Tick

LEMMA CarMessageStep == IInv /\ CarMessage => IInv'
  BY RxHookGood DEF IInv, Around, CarMessage

LEMMA IgnitionMessageStep == IInv /\ IgnitionMessage => IInv'
  BY IgnitionGood DEF IInv, Around, IgnitionMessage

\* A request leaves the environment alone, whatever it does to the firmware.
LEMMA HostRequestStep == IInv /\ HostRequest => IInv'
  <1> SUFFICES ASSUME IInv, HostRequest PROVE IInv'
    OBVIOUS
  <1> USE DEF IInv
  <1>1. Around'
    <2>1. UNCHANGED <<plugged, line, plugs, host>>
      BY DEF HostRequest, Request, Heartbeat, SetMode, DisableHeartbeat,
             PowerSave, IrPower, ObdMode, BusConfig, Loopback, DriveRelay,
             ResetRequest
    <2> QED
      BY <2>1 DEF Around
  <1>2. CASE Heartbeat
    <2>1. PICK engaged \in BOOLEAN :
            panda' = [panda EXCEPT !.heartbeat_counter = 0,
                                   !.heartbeat_lost = FALSE,
                                   !.heartbeat_disabled = FALSE,
                                   !.heartbeat_engaged = engaged]
      BY <1>2 DEF Heartbeat, Request
    <2>2. Good([panda EXCEPT !.heartbeat_counter = 0,
                             !.heartbeat_lost = FALSE,
                             !.heartbeat_disabled = FALSE,
                             !.heartbeat_engaged = engaged])
      BY HeartbeatGood
    <2> QED
      BY <1>1, <2>1, <2>2
  <1>3. CASE SetMode
    <2>1. PICK m \in Modes, p \in {0, 1} : panda' = SetSafetyMode(panda, m, p)
      BY <1>3 DEF SetMode, Request
    <2>2. Good(SetSafetyMode(panda, m, p))
      BY SetSafetyModeGood DEF Good
    <2> QED
      BY <1>1, <2>1, <2>2
  <1>4. CASE DisableHeartbeat
    BY <1>1, <1>4, DisableHeartbeatGood DEF DisableHeartbeat, Request
  <1>5. CASE PowerSave
    <2>1. PICK state \in BOOLEAN : panda' = SetPowerSave(panda, state)
      BY <1>5 DEF PowerSave, Request
    <2>2. Good(SetPowerSave(panda, state))
      BY SetPowerSaveAlike, AlikeGood DEF Good
    <2> QED
      BY <1>1, <2>1, <2>2
  <1>6. CASE IrPower
    BY <1>1, <1>6, IrPowerGood DEF IrPower, Request
  <1>7. CASE ObdMode
    <2>1. PICK m \in {"NORMAL", "OBD_CAN2"} : panda' = SetCanMode(panda, m)
      BY <1>7 DEF ObdMode, Request
    <2>2. Good(SetCanMode(panda, m))
      BY SetCanModeAlike, AlikeGood DEF Good
    <2> QED
      BY <1>1, <2>1, <2>2
  <1>8. CASE BusConfig
    BY <1>1, <1>8, CanInitGood DEF BusConfig, Request
  <1>9. CASE Loopback
    BY <1>1, <1>9, LoopbackGood DEF Loopback, Request
  <1>10. CASE DriveRelay
    <2>1. PICK i \in BOOLEAN, g \in BOOLEAN :
            panda' = SetInterceptRelay(panda, i, g)
      BY <1>10 DEF DriveRelay, Request
    <2>2. Good(SetInterceptRelay(panda, i, g))
      BY SetInterceptRelayAlike, AlikeGood DEF Good
    <2> QED
      BY <1>1, <2>1, <2>2
  <1>11. CASE ResetRequest
    BY <1>1, <1>11, BootGood DEF ResetRequest, Request, Around
  <1> QED
    BY <1>2, <1>3, <1>4, <1>5, <1>6, <1>7, <1>8, <1>9, <1>10, <1>11
       DEF HostRequest

LEMMA EnvironmentStep ==
    IInv /\ (Plug \/ IgnitionLine \/ HostGone) => IInv'
  <1>1. IInv /\ Plug => IInv'
    BY SupervisorAssumption DEF IInv, Around, Plug
  <1>2. IInv /\ IgnitionLine => IInv'
    BY DEF IInv, Around, IgnitionLine
  <1>3. IInv /\ HostGone => IInv'
    BY DEF IInv, Around, HostGone
  <1> QED
    BY <1>1, <1>2, <1>3

LEMMA Invariance == Spec => []IInv
  <1>1. IInv /\ UNCHANGED vars => IInv'
    BY DEF IInv, Around, vars
  <1>2. IInv /\ [Next]_vars => IInv'
    BY <1>1, TickStep, CarMessageStep, IgnitionMessageStep, HostRequestStep,
       EnvironmentStep DEF Next
  <1> QED
    BY <1>2, Initially, PTL DEF Spec

-----------------------------------------------------------------------------
(* What follows *)

\* Every global keeps its range: no handler takes a countdown of main.c below
\* zero or above the value it is armed with, for any tick rate and limits.
THEOREM TypeCorrect == Spec => []TypeOK
  <1>1. IInv => TypeOK
    BY DEF IInv, Around, Good, TypeOK
  <1> QED
    BY <1>1, Invariance, PTL

\* Whatever handler configured a CAN core last (set_safety_mode, can_init_all
\* or the can_init of one bus), the core is silent exactly in SILENT mode.
THEOREM Silence == Spec => []SilentIsSilent
  <1>1. IInv => SilentIsSilent
    BY DEF IInv, Good, Settled, SilentIsSilent
  <1> QED
    BY <1>1, Invariance, PTL

\* No order of mode changes, heartbeats, 0xf8 requests and ticks leaves a car's
\* safety mode standing beyond the heartbeat limit tick_handler tolerates.
THEOREM Heartbeats == Spec => []HeartbeatKeepsMode
  <1>1. IInv => HeartbeatKeepsMode
    BY DEF IInv, Good, Kept, HeartbeatKeepsMode
  <1> QED
    BY <1>1, Invariance, PTL

\* A lost heartbeat is reported only while the panda has no output.
THEOREM LostHeartbeats == Spec => []LostHasNoOutput
  <1>1. IInv => LostHasNoOutput
    BY DEF IInv, Good, Lost, LostHasNoOutput
  <1> QED
    BY <1>1, Invariance, PTL

\* No panda that misses its heartbeat lets the host drive: it leaves every mode
\* with output, and says so only there (tick_handler, set_safety_mode).
THEOREM LostHosts == Spec => []LostHostHasNoOutput
BY Heartbeats, LostHeartbeats, PTL DEF LostHostHasNoOutput

\* Controls are never allowed with the relay closed, nor beyond the mismatches
\* tick_handler tolerates in a car's mode.
THEOREM Controls == Spec => []ControlsAreUsed
  <1>1. IInv => ControlsAreUsed
    BY DEF IInv, Good, Used, ControlsAreUsed
  <1> QED
    BY <1>1, Invariance, PTL

-----------------------------------------------------------------------------
(* Wiring: relay, transceivers, interrupts and the orientation *)

\* The core whose interrupts power saving masks with FDCAN2's.
Other(s) == IF s.status = "FLIPPED" THEN 0 ELSE 2

\* Power saving masks no other cores than these, also when the harness was
\* turned round since: otherwise the next call would not unmask them all.
Wired(s) == /\ s.prev_status = s.status => s.flipped = (s.status = "FLIPPED")
            /\ s.fdcan2_mux = Mux(s.can_mode, s.status)
            /\ \A c \in CanNum : c \notin {1, Other(s)} => s.irq[c]
            /\ ~s.power_save => /\ \A c \in CanNum : s.irq[c]
                                /\ {1, 3, s.fdcan2_mux} \subseteq s.transceivers

Relayed(s) == /\ s.relay_pins = IF s.mode \notin Intercepting THEN {}
                                ELSE CASE s.status = "NORMAL"  -> {"SBU2"}
                                       [] s.status = "FLIPPED" -> {"SBU1"}
                                       [] s.status = "NC"      -> {}
              /\ s.relay_driven = (s.relay_pins # {})

\* Two states that agree on all of that.
SameWires(s, t) == /\ s.mode = t.mode /\ s.status = t.status
                   /\ s.prev_status = t.prev_status /\ s.flipped = t.flipped
                   /\ s.can_mode = t.can_mode /\ s.fdcan2_mux = t.fdcan2_mux
                   /\ s.transceivers = t.transceivers /\ s.irq = t.irq
                   /\ s.power_save = t.power_save
                   /\ s.relay_pins = t.relay_pins /\ s.relay_driven = t.relay_driven

LEMMA SameIsWired ==
    ASSUME NEW s, NEW t, SameWires(s, t)
    PROVE  (Wired(s) => Wired(t)) /\ (Relayed(s) => Relayed(t))
  BY DEF SameWires, Wired, Relayed, Other

LEMMA SetInterceptRelayWires ==
    ASSUME NEW s \in Firmware, NEW m \in Modes, NEW r, s.mode = m,
           \/ m \in Intercepting /\ r = SetInterceptRelay(s, TRUE, FALSE)
           \/ m \notin Intercepting /\ r = SetInterceptRelay(s, FALSE, FALSE)
    PROVE  /\ r.mode = s.mode /\ r.status = s.status
           /\ r.prev_status = s.prev_status /\ r.flipped = s.flipped
           /\ r.transceivers = s.transceivers /\ r.power_save = s.power_save
           /\ Relayed(r)
  <1> DEFINE drive == m \in Intercepting /\ s.status # "NC"
             pin == IF s.status = "NORMAL" THEN "SBU2" ELSE "SBU1"
             pins == IF drive THEN {pin} ELSE {}
  <1>1. r = [s EXCEPT !.relay_driven = drive, !.relay_pins = pins]
    <2>1. {p \in {"SBU1", "SBU2"} : drive /\ p = pin} = pins
      OBVIOUS
    <2> QED
      BY <2>1 DEF SetInterceptRelay
  <1>2. pins = {} <=> ~drive
    OBVIOUS
  <1>3. pins = IF m \notin Intercepting THEN {}
               ELSE CASE s.status = "NORMAL"  -> {"SBU2"}
                      [] s.status = "FLIPPED" -> {"SBU1"}
                      [] s.status = "NC"      -> {}
    BY DEF Firmware
  <1>4. drive \in BOOLEAN
    OBVIOUS
  <1> HIDE DEF drive, pins
  <1>5. /\ r.mode = s.mode /\ r.status = s.status
        /\ r.prev_status = s.prev_status /\ r.flipped = s.flipped
        /\ r.transceivers = s.transceivers /\ r.power_save = s.power_save
        /\ r.relay_pins = pins /\ r.relay_driven = drive
    BY <1>1 DEF Firmware
  <1>6. r.relay_driven = (r.relay_pins # {})
    BY <1>2, <1>4, <1>5
  <1>7. Relayed(r)
    BY <1>3, <1>5, <1>6 DEF Relayed
  <1> QED
    BY <1>5, <1>7

LEMMA SetCanModeWires ==
    ASSUME NEW s \in Firmware, NEW m \in {"NORMAL", "OBD_CAN2"}, NEW r,
           r = SetCanMode(s, m)
    PROVE  /\ r.mode = s.mode /\ r.status = s.status
           /\ r.prev_status = s.prev_status /\ r.flipped = s.flipped
           /\ r.irq = s.irq /\ r.power_save = s.power_save
           /\ r.relay_pins = s.relay_pins /\ r.relay_driven = s.relay_driven
           /\ r.can_mode = m /\ r.fdcan2_mux = Mux(m, s.status)
           /\ r.transceivers = (s.transceivers \ {2, 4}) \cup {Mux(m, s.status)}
  BY DEF SetCanMode, Firmware

\* set_safety_mode sets up relay, FDCAN2 and the interrupts, whatever they were.
LEMMA SetSafetyModeWires ==
    ASSUME NEW s \in Firmware, NEW m \in Modes, NEW p \in {0, 1}, NEW f,
           f = SetSafetyMode(s, m, p)
    PROVE  /\ f.status = s.status /\ f.prev_status = s.prev_status
           /\ f.flipped = s.flipped /\ f.power_save = s.power_save
           /\ f.fdcan2_mux = Mux(f.can_mode, f.status)
           /\ \A c \in CanNum : f.irq[c]
           /\ f.transceivers = (s.transceivers \ {2, 4}) \cup {f.fdcan2_mux}
           /\ Relayed(f)
  <1> DEFINE mode == IF m \in Registered THEN m ELSE "SILENT"
             param == IF m \in Registered THEN p ELSE 0
             h == SetSafetyHooks(s, mode, param)
             i == mode \in Intercepting
             r == SetInterceptRelay(h, i, FALSE)
             can == IF mode = "ELM327" /\ param = 0 THEN "OBD_CAN2" ELSE "NORMAL"
             c == SetCanMode(r, can)
             w == SwitchMode(s, mode, param)
  <1>1. /\ h \in Firmware /\ h.mode = mode /\ h.status = s.status
        /\ h.prev_status = s.prev_status /\ h.flipped = s.flipped
        /\ h.transceivers = s.transceivers /\ h.power_save = s.power_save
    <2> DEFINE allowed == mode = "ALLOUTPUT"
    <2>1. h = [s EXCEPT !.mode = mode, !.param = param, !.controls_allowed = allowed]
      BY DEF SetSafetyHooks
    <2>2. allowed \in BOOLEAN /\ mode \in Modes /\ param \in {0, 1}
      OBVIOUS
    <2> HIDE DEF allowed, mode, param, h
    <2>3. h \in Firmware
      BY <2>1, <2>2, ZenonT(60) DEF Firmware
    <2>4. h.mode = mode /\ h.status = s.status
      BY <2>1, <2>2 DEF Firmware
    <2>5. h.prev_status = s.prev_status /\ h.flipped = s.flipped
      BY <2>1, <2>2 DEF Firmware
    <2>6. h.transceivers = s.transceivers /\ h.power_save = s.power_save
      BY <2>1, <2>2 DEF Firmware
    <2> QED
      BY <2>3, <2>4, <2>5, <2>6
  <1>2. i \in BOOLEAN /\ can \in {"NORMAL", "OBD_CAN2"} /\ mode \in Modes /\ param \in {0, 1}
    OBVIOUS
  <1>3. f = CanInitAll(w)
    BY DEF SetSafetyMode
  <1>4. w = [c EXCEPT
            !.heartbeat_counter = IF mode \in HeartbeatModes THEN 0 ELSE @,
            !.heartbeat_lost = @ /\ mode \notin HeartbeatModes,
            !.can_silent = (mode = "SILENT")]
    BY DEF SwitchMode
  <1>5. w \in Firmware
    BY <1>2, SwitchModeFacts
  <1> HIDE DEF mode, param, h, can
  <1>6. r \in Firmware
    BY <1>1, <1>2, SetInterceptRelayAlike
  <1>r. \/ mode \in Intercepting /\ r = SetInterceptRelay(h, TRUE, FALSE)
        \/ mode \notin Intercepting /\ r = SetInterceptRelay(h, FALSE, FALSE)
    BY DEF SetInterceptRelay
  <1> HIDE DEF r
  <1>7. /\ r.mode = mode /\ r.status = s.status
        /\ r.prev_status = s.prev_status /\ r.flipped = s.flipped
        /\ r.transceivers = s.transceivers /\ r.power_save = s.power_save
        /\ Relayed(r)
    <2>1. h \in Firmware /\ mode \in Modes /\ h.mode = mode
      BY <1>1, <1>2
    <2>2. /\ r.mode = h.mode /\ r.status = h.status
          /\ r.prev_status = h.prev_status /\ r.flipped = h.flipped
          /\ r.transceivers = h.transceivers /\ r.power_save = h.power_save
          /\ Relayed(r)
      BY <2>1, <1>r, SetInterceptRelayWires
    <2> QED
      BY <1>1, <2>2
  <1>8. c \in Firmware
    BY <1>2, <1>6, SetCanModeAlike
  <1>c. c = SetCanMode(r, can)
    OBVIOUS
  <1> HIDE DEF c
  <1>9. /\ c.mode = r.mode /\ c.status = r.status
        /\ c.prev_status = r.prev_status /\ c.flipped = r.flipped
        /\ c.power_save = r.power_save
        /\ c.relay_pins = r.relay_pins /\ c.relay_driven = r.relay_driven
        /\ c.can_mode = can /\ c.fdcan2_mux = Mux(can, r.status)
        /\ c.transceivers = (r.transceivers \ {2, 4}) \cup {Mux(can, r.status)}
    BY <1>2, <1>6, <1>c, SetCanModeWires
  <1> HIDE DEF w
  <1>10. /\ w.mode = c.mode /\ w.status = c.status
         /\ w.prev_status = c.prev_status /\ w.flipped = c.flipped
         /\ w.power_save = c.power_save /\ w.transceivers = c.transceivers
         /\ w.relay_pins = c.relay_pins /\ w.relay_driven = c.relay_driven
         /\ w.can_mode = c.can_mode /\ w.fdcan2_mux = c.fdcan2_mux
    BY <1>4, <1>8 DEF Firmware
  <1>11. /\ f.mode = w.mode /\ f.status = w.status
         /\ f.prev_status = w.prev_status /\ f.flipped = w.flipped
         /\ f.power_save = w.power_save /\ f.transceivers = w.transceivers
         /\ f.relay_pins = w.relay_pins /\ f.relay_driven = w.relay_driven
         /\ f.can_mode = w.can_mode /\ f.fdcan2_mux = w.fdcan2_mux
         /\ \A x \in CanNum : f.irq[x]
    BY <1>3, <1>5 DEF CanInitAll, Firmware
  <1>12. s.status \in Harness
    BY DEF Firmware
  <1>13. Relayed(f)
    BY <1>7, <1>9, <1>10, <1>11 DEF Relayed
  <1> QED
    BY <1>7, <1>9, <1>10, <1>11, <1>13

\* What every other step does to the wiring: nothing it has to mend.
Keeps(s, t) == /\ t.status = s.status /\ t.prev_status = s.prev_status
               /\ Wired(s) => Wired(t)
               /\ Relayed(s) => Relayed(t)

LEMMA SameKeeps ==
    ASSUME NEW s, NEW t, SameWires(s, t)
    PROVE  Keeps(s, t)
  BY SameIsWired DEF SameWires, Keeps

\* set_power_save_state masks two cores and unmasks the same two, or one of
\* them twice: the other one is never masked.
LEMMA SetPowerSaveKeeps ==
    ASSUME NEW s \in Firmware, NEW e \in BOOLEAN, NEW r, r = SetPowerSave(s, e)
    PROVE  Keeps(s, r)
  <1>1. CASE e = s.power_save
    BY <1>1 DEF SetPowerSave, Keeps
  <1>2. CASE e # s.power_save
    <2> DEFINE t == EnableCanTransceivers(s, ~e)
               on == {x \in Transceiver : ~e \/ x = MainTransceiver(s)}
               irq == [c \in CanNum |-> IF c \in {1, Other(s)}
                                        THEN ~e ELSE s.irq[c]]
               ir == s.ir_on /\ ~e
    <2>1. t = [s EXCEPT !.transceivers = on]
      BY DEF EnableCanTransceivers
    <2>2. r = [t EXCEPT !.irq = irq, !.ir_on = ir, !.power_save = e]
      BY <1>2 DEF SetPowerSave, Other
    <2>3. ~e => on = Transceiver
      OBVIOUS
    <2>4. \A c \in CanNum : irq[c] = IF c \in {1, Other(s)} THEN ~e ELSE s.irq[c]
      OBVIOUS
    <2> HIDE DEF t, on, irq, ir
    <2>5. /\ t.status = s.status /\ t.prev_status = s.prev_status
          /\ t.mode = s.mode /\ t.flipped = s.flipped
          /\ t.can_mode = s.can_mode /\ t.fdcan2_mux = s.fdcan2_mux
          /\ t.relay_pins = s.relay_pins /\ t.relay_driven = s.relay_driven
          /\ t.transceivers = on
          /\ DOMAIN t = DOMAIN s
      BY <2>1 DEF Firmware
    <2>6. /\ r.status = s.status /\ r.prev_status = s.prev_status
          /\ r.mode = s.mode /\ r.flipped = s.flipped
          /\ r.can_mode = s.can_mode /\ r.fdcan2_mux = s.fdcan2_mux
          /\ r.relay_pins = s.relay_pins /\ r.relay_driven = s.relay_driven
          /\ r.transceivers = on
      BY <2>1, <2>2, <2>5 DEF Firmware
    <2>7. r.irq = irq /\ r.power_save = e
      BY <2>1, <2>2 DEF Firmware
    <2> HIDE <2>1, <2>2
    <2>8. Relayed(s) => Relayed(r)
      BY <2>6 DEF Relayed
    <2>9. ASSUME Wired(s) PROVE Wired(r)
      <3>1. Other(r) = Other(s)
        BY <2>6 DEF Other
      <3>2. \A c \in CanNum : c \notin {1, Other(r)} => r.irq[c]
        BY <2>4, <2>7, <2>9, <3>1 DEF Wired
      <3>3. ~e => \A c \in CanNum : r.irq[c]
        BY <2>4, <2>7, <2>9 DEF Wired
      <3>4. ~e => {1, 3, r.fdcan2_mux} \subseteq r.transceivers
        BY <2>3, <2>6 DEF Firmware
      <3>5. /\ r.prev_status = r.status => r.flipped = (r.status = "FLIPPED")
            /\ r.fdcan2_mux = Mux(r.can_mode, r.status)
        BY <2>6, <2>9 DEF Wired
      <3> QED
        BY <2>7, <3>2, <3>3, <3>4, <3>5 DEF Wired
    <2> QED
      BY <2>6, <2>8, <2>9 DEF Keeps
  <1> QED
    BY <1>1, <1>2

\* The transceivers that no harness change and no CAN mode turns off.
Lit(s) == ~s.power_save => {1, 3} \subseteq s.transceivers

\* set_safety_mode sets all of it up, if the orientation of the buses is right.
LEMMA SetSafetyModeWired ==
    ASSUME NEW s \in Firmware, NEW m \in Modes, NEW p \in {0, 1}, NEW f,
           f = SetSafetyMode(s, m, p), Lit(s),
           s.prev_status = s.status => s.flipped = (s.status = "FLIPPED")
    PROVE  /\ Wired(f) /\ Relayed(f)
           /\ f.status = s.status /\ f.prev_status = s.prev_status
  <1>1. /\ f.status = s.status /\ f.prev_status = s.prev_status
        /\ f.flipped = s.flipped /\ f.power_save = s.power_save
        /\ f.fdcan2_mux = Mux(f.can_mode, f.status)
        /\ \A c \in CanNum : f.irq[c]
        /\ f.transceivers = (s.transceivers \ {2, 4}) \cup {f.fdcan2_mux}
        /\ Relayed(f)
    BY SetSafetyModeWires
  <1>2. ~f.power_save => {1, 3, f.fdcan2_mux} \subseteq f.transceivers
    BY <1>1 DEF Lit
  <1> QED
    BY <1>1, <1>2 DEF Wired

\* tick_handler's "re-init everything that uses harness status" does.
LEMMA HarnessChangedWires ==
    ASSUME NEW s, Good(s), Lit(s), NEW r, r = HarnessChanged(s)
    PROVE  /\ Wired(r) /\ Relayed(r)
           /\ r.status = s.status /\ r.prev_status = s.status
  <1> DEFINE b == s.status = "FLIPPED"
             i == [s EXCEPT !.prev_status = s.status, !.flipped = b]
             o == CanInitAll(i)
             m == SetSafetyMode(o, s.mode, s.param)
  <1>1. r = SetPowerSave(m, s.power_save)
    BY DEF HarnessChanged
  <1>2. s \in Firmware
    BY DEF Good
  <1>3. /\ i \in Firmware /\ i.can_silent = (i.mode = "SILENT")
        /\ i.status = s.status /\ i.prev_status = s.status
        /\ i.transceivers = s.transceivers /\ i.power_save = s.power_save
        /\ i.flipped = (i.status = "FLIPPED")
    <2>1. b \in BOOLEAN /\ b = (s.status = "FLIPPED")
      OBVIOUS
    <2> HIDE DEF b
    <2>2. /\ i \in Firmware /\ i.can_silent = (i.mode = "SILENT")
          /\ i.status = s.status /\ i.prev_status = s.status
          /\ i.transceivers = s.transceivers /\ i.power_save = s.power_save
          /\ i.flipped = b
      BY <1>2, <2>1, ZenonT(60) DEF Good, Settled, Firmware
    <2> QED
      BY <2>1, <2>2
  <1> HIDE DEF i
  <1>4. /\ o \in Firmware
        /\ o.status = i.status /\ o.prev_status = i.prev_status
        /\ o.transceivers = i.transceivers /\ o.power_save = i.power_save
        /\ o.flipped = i.flipped
    <2>1. o \in Firmware
      BY <1>3, CanInitAllFacts
    <2> QED
      BY <1>3, <2>1 DEF CanInitAll, Firmware
  <1> HIDE DEF o
  <1>5. s.mode \in Modes /\ s.param \in {0, 1} /\ s.power_save \in BOOLEAN
    BY <1>2 DEF Firmware
  <1>6. Lit(o) /\ (o.prev_status = o.status => o.flipped = (o.status = "FLIPPED"))
    BY <1>3, <1>4 DEF Lit
  <1>7. /\ Wired(m) /\ Relayed(m)
        /\ m.status = o.status /\ m.prev_status = o.prev_status
    BY <1>4, <1>5, <1>6, SetSafetyModeWired
  <1>8. m \in Firmware
    BY <1>4, <1>5, SetSafetyModeGood DEF Good
  <1> HIDE DEF m
  <1>9. Keeps(m, r)
    BY <1>1, <1>5, <1>8, SetPowerSaveKeeps
  <1> QED
    BY <1>3, <1>4, <1>7, <1>9 DEF Keeps

\* A pass of tick_handler leaves no difference between the harness it read and
\* the wiring.
LEMMA CheckHarnessWires ==
    ASSUME NEW s, Good(s), Wired(s), NEW seen \in Harness,
           s.prev_status # s.status => s.status = seen,
           NEW r, r = CheckHarness(s, seen)
    PROVE  /\ Wired(r) /\ r.prev_status = r.status
           /\ Relayed(s) => Relayed(r)
  <1> DEFINE h == HarnessTick(s, seen)
  <1>1. s \in Firmware
    BY DEF Good
  <1>2. Good(h)
    BY <1>1, HarnessTickAlike, AlikeGood
  <1>3. /\ Lit(h) /\ h.prev_status = s.prev_status
        /\ h = s \/ h.status = seen
    BY <1>1 DEF HarnessTick, Firmware, Wired, Lit
  <1>4. h.prev_status = h.status => h = s
    <2>1. CASE h = s
      BY <2>1
    <2>2. CASE h # s /\ h.prev_status = h.status
      <3>1. h = [s EXCEPT !.status = seen]
        BY <2>2 DEF HarnessTick
      <3>2. s.status # seen
        BY <1>1, <2>2, <3>1 DEF Firmware
      <3>3. h.status = seen /\ s.prev_status = seen
        BY <1>3, <2>2
      <3> QED
        BY <3>2, <3>3
    <2> QED
      BY <2>1, <2>2
  <1>5. r = IF h.status # h.prev_status THEN HarnessChanged(h) ELSE h
    BY DEF CheckHarness
  <1> HIDE DEF h
  <1>6. CASE h.status # h.prev_status
    BY <1>2, <1>3, <1>5, <1>6, HarnessChangedWires
  <1>7. CASE h.status = h.prev_status
    BY <1>4, <1>5, <1>7
  <1> QED
    BY <1>6, <1>7

\* A lost heartbeat moves relay and wiring by set_safety_mode alone, and masks
\* interrupts by set_power_save_state alone.
LEMMA HeartbeatGoneKeeps ==
    ASSUME NEW s, Counted(s), NEW r, r = HeartbeatGone(s)
    PROVE  Keeps(s, r)
  <1> DEFINE warn == s.allowed_countdown > 0
             siren == IF warn THEN SirenTicks ELSE s.siren_countdown
             down == IF warn THEN 0 ELSE s.allowed_countdown
             lost == s.heartbeat_lost \/ s.mode = CarMode
             h == [s EXCEPT !.siren_countdown = siren,
                            !.allowed_countdown = down,
                            !.heartbeat_lost = lost,
                            !.heartbeat_engaged = FALSE]
             m == IF s.mode # "SILENT" THEN SetSafetyMode(h, "SILENT", 0)
                                       ELSE h
             q == SetPowerSave(m, TRUE)
  <1>1. s \in Firmware
    BY DEF Counted
  <1>2. siren \in 0 .. SirenTicks /\ down \in 0 .. AllowedTicks
    BY <1>1, SupervisorAssumption DEF Firmware
  <1>3. lost \in BOOLEAN
    BY <1>1 DEF Firmware
  <1>4. r = [q EXCEPT !.ir_on = FALSE]
    BY DEF HeartbeatGone
  <1> HIDE DEF siren, down, lost
  <1>5. h \in Firmware
    BY <1>1, <1>2, <1>3 DEF Firmware
  <1>6. SameWires(s, h)
    BY <1>1 DEF Firmware, SameWires
  <1> HIDE DEF h
  <1>7. m \in Firmware /\ Keeps(s, m)
    <2>1. CASE s.mode # "SILENT"
      <3>1. m = SetSafetyMode(h, "SILENT", 0) /\ m \in Firmware
        BY <1>5, <2>1, SetSafetyModeGood DEF Good
      <3> HIDE DEF m
      <3>2. ASSUME Wired(s) PROVE Wired(m)
        <4>1. Lit(h) /\ (h.prev_status = h.status => h.flipped = (h.status = "FLIPPED"))
          BY <1>6, <3>2 DEF SameWires, Wired, Lit
        <4> QED
          BY <1>5, <3>1, <4>1, SetSafetyModeWired
      <3>3. m.status = h.status /\ m.prev_status = h.prev_status /\ Relayed(m)
        BY <1>5, <3>1, SetSafetyModeWires
      <3> QED
        BY <1>6, <3>1, <3>2, <3>3 DEF Keeps, SameWires
    <2>2. CASE s.mode = "SILENT"
      BY <1>5, <1>6, <2>2, SameKeeps
    <2> QED
      BY <2>1, <2>2
  <1> HIDE DEF m
  <1>8. q \in Firmware /\ Keeps(m, q)
    BY <1>7, SetPowerSaveAlike, SetPowerSaveKeeps
  <1> HIDE DEF q
  <1>9. SameWires(q, r)
    BY <1>4, <1>8 DEF Firmware, SameWires
  <1>10. Keeps(q, r)
    BY <1>9, SameKeeps
  <1> QED
    BY <1>7, <1>8, <1>10 DEF Keeps

\* The other parts of the pass decimated to 1 Hz write none of it.
LEMMA CountingSameWires ==
    ASSUME NEW s \in Firmware, NEW lagging \in BOOLEAN
    PROVE  /\ SameWires(s, CountHeartbeat(s))
           /\ SameWires(s, CheckEngaged(s))
           /\ SameWires(s, ExpireIgnition(s))
           /\ SameWires(s, SafetyTick(s, lagging))
  <1>1. SameWires(s, CountHeartbeat(s))
    <2> DEFINE n == Capped(s.heartbeat_counter + 1, CounterCap)
               off == s.heartbeat_disabled /\ s.mode # CarMode
               siren == Decremented(s.siren_countdown)
    <2>1. CountHeartbeat(s) = [s EXCEPT !.heartbeat_counter = n,
                                        !.heartbeat_disabled = off,
                                        !.siren_countdown = siren]
      BY DEF CountHeartbeat
    <2> HIDE DEF n, off, siren
    <2> QED
      BY <2>1 DEF Firmware, SameWires
  <1>2. SameWires(s, CheckEngaged(s))
    <2> DEFINE unused == s.controls_allowed /\ ~s.heartbeat_engaged
               count == IF unused THEN Capped(s.mismatches + 1, MaxMismatches)
                                  ELSE 0
               allowed == s.controls_allowed /\ count < MaxMismatches
               down == IF s.controls_allowed \/ s.heartbeat_engaged
                       THEN AllowedTicks ELSE Decremented(s.allowed_countdown)
    <2>1. CheckEngaged(s) = [s EXCEPT !.mismatches = count,
                                      !.controls_allowed = allowed,
                                      !.allowed_countdown = down]
      BY DEF CheckEngaged
    <2> HIDE DEF count, allowed, down
    <2> QED
      BY <2>1 DEF Firmware, SameWires
  <1>3. SameWires(s, ExpireIgnition(s))
    <2> DEFINE on == s.ignition_can /\ s.ignition_can_cnt <= 2
               n == Capped(s.ignition_can_cnt + 1, 3)
    <2>1. ExpireIgnition(s) = [s EXCEPT !.ignition_can = on,
                                        !.ignition_can_cnt = n]
      BY DEF ExpireIgnition
    <2> HIDE DEF on, n
    <2> QED
      BY <2>1 DEF Firmware, SameWires
  <1>4. SameWires(s, SafetyTick(s, lagging))
    <2> DEFINE allow == s.controls_allowed /\ ~(lagging /\ s.mode = CarMode)
    <2>1. SafetyTick(s, lagging) = [s EXCEPT !.controls_allowed = allow]
      BY DEF SafetyTick
    <2> HIDE DEF allow
    <2> QED
      BY <2>1 DEF Firmware, SameWires
  <1> QED
    BY <1>1, <1>2, <1>3, <1>4

LEMMA SecondPassKeeps ==
    ASSUME NEW s, Good(s), NEW ign \in BOOLEAN, NEW lagging \in BOOLEAN
    PROVE  Keeps(s, SecondPass(s, ign, lagging))
  <1> DEFINE c == CountHeartbeat(s)
             e == CheckEngaged(c)
             h == CheckHeartbeat(e, ign)
             x == ExpireIgnition(h)
             r == SafetyTick(x, lagging)
  <1>1. s \in Firmware
    BY DEF Good
  <1>2. Counted(c) /\ Keeps(s, c)
    BY <1>1, CountHeartbeatCounted, CountingSameWires, SameKeeps
  <1> HIDE DEF c
  <1>3. Counted(e) /\ Keeps(c, e)
    BY <1>2, CheckEngagedCounted, CountingSameWires, SameKeeps DEF Counted
  <1> HIDE DEF e
  <1>4. Keeps(e, h)
    <2>1. h = HeartbeatGone(e) \/ h = e
      BY DEF CheckHeartbeat
    <2>2. Keeps(e, e)
      BY DEF Keeps
    <2> QED
      BY <1>3, <2>1, <2>2, HeartbeatGoneKeeps
  <1>5. Good(h)
    BY <1>3, CheckHeartbeatGood
  <1> HIDE DEF h
  <1>6. Good(x) /\ Keeps(h, x)
    BY <1>5, ExpireIgnitionGood, CountingSameWires, SameKeeps DEF Good
  <1> HIDE DEF x
  <1>7. Keeps(x, r)
    BY <1>6, CountingSameWires, SameKeeps DEF Good
  <1>8. SecondPass(s, ign, lagging) = r
    BY DEF SecondPass, c, e, h, x
  <1> HIDE DEF r
  <1> QED
    BY <1>2, <1>3, <1>4, <1>6, <1>7, <1>8 DEF Keeps

LEMMA TickHandlerWires ==
    ASSUME NEW s, Good(s), Wired(s), NEW seen \in Harness,
           s.prev_status # s.status => s.status = seen,
           NEW ign \in BOOLEAN, NEW lagging \in BOOLEAN,
           NEW r, r = TickHandler(s, seen, ign, lagging)
    PROVE  /\ Wired(r) /\ r.prev_status = r.status
           /\ Relayed(s) => Relayed(r)
  <1> DEFINE h == CheckHarness(s, seen)
             t == IF s.loop_counter = 0 THEN SecondPass(h, ign, lagging) ELSE h
             n == (t.loop_counter + 1) % TICK_HZ
  <1>1. /\ Wired(h) /\ h.prev_status = h.status
        /\ Relayed(s) => Relayed(h)
    BY CheckHarnessWires
  <1>2. Good(h)
    BY CheckHarnessGood
  <1>3. r = [t EXCEPT !.loop_counter = n]
    BY DEF TickHandler
  <1> HIDE DEF h
  <1>4. Keeps(h, t)
    <2>1. Keeps(h, h)
      BY DEF Keeps
    <2> QED
      BY <1>2, <2>1, SecondPassKeeps
  <1>5. t \in Firmware
    <2>1. Good(SecondPass(h, ign, lagging))
      <3>1. Counted(CheckEngaged(CountHeartbeat(h)))
        BY <1>2, CountHeartbeatCounted, CheckEngagedCounted
      <3>2. Good(CheckHeartbeat(CheckEngaged(CountHeartbeat(h)), ign))
        BY <3>1, CheckHeartbeatGood
      <3> QED
        BY <3>2, ExpireIgnitionGood, SafetyTickGood DEF SecondPass
    <2> QED
      BY <1>2, <2>1 DEF Good
  <1> HIDE DEF t, n
  <1>6. SameWires(t, r)
    BY <1>3, <1>5 DEF Firmware, SameWires
  <1>7. Keeps(t, r)
    BY <1>6, SameKeeps
  <1> QED
    BY <1>1, <1>4, <1>7 DEF Keeps

LEMMA BootWires ==
    ASSUME NEW h \in Harness, NEW r, r = Boot(h)
    PROVE  Wired(r) /\ Relayed(r) /\ r.status = h
  <1> DEFINE zero == [mode |-> "SILENT", param |-> 0,
                      controls_allowed |-> FALSE,
                      can_silent |-> TRUE,
                      core_silent |-> [c \in CanNum |-> TRUE],
                      irq |-> [c \in CanNum |-> FALSE],
                      flipped |-> FALSE,
                      can_mode |-> "NORMAL", fdcan2_mux |-> 2,
                      transceivers |-> {},
                      relay_driven |-> FALSE, relay_pins |-> {},
                      status |-> h, prev_status |-> "NC",
                      power_save |-> FALSE, ir_on |-> FALSE,
                      heartbeat_counter |-> 0,
                      heartbeat_lost |-> FALSE,
                      heartbeat_disabled |-> FALSE,
                      heartbeat_engaged |-> FALSE,
                      mismatches |-> 0,
                      siren_countdown |-> 0,
                      allowed_countdown |-> 0,
                      ignition_can |-> FALSE, ignition_can_cnt |-> 0,
                      loop_counter |-> 0]
             m == SetSafetyMode(zero, "SILENT", 0)
             on == {x \in Transceiver : TRUE \/ x = MainTransceiver(m)}
  <1>1. zero \in Firmware
    BY SupervisorAssumption DEF Firmware
  <1>2. r = [m EXCEPT !.transceivers = on]
    BY DEF Boot, EnableCanTransceivers
  <1>3. /\ zero.status = h /\ zero.prev_status = "NC"
        /\ zero.flipped = FALSE /\ zero.power_save = FALSE
    OBVIOUS
  <1> HIDE DEF zero
  <1>4. /\ m.status = zero.status /\ m.prev_status = zero.prev_status
        /\ m.flipped = zero.flipped /\ m.power_save = zero.power_save
        /\ m.fdcan2_mux = Mux(m.can_mode, m.status)
        /\ \A c \in CanNum : m.irq[c]
        /\ Relayed(m)
    BY <1>1, SetSafetyModeWires
  <1>5. m \in Firmware
    BY <1>1, SetSafetyModeGood DEF Good
  <1>6. on = Transceiver
    OBVIOUS
  <1> HIDE DEF m, on
  <1>7. /\ r.status = m.status /\ r.prev_status = m.prev_status
        /\ r.mode = m.mode /\ r.flipped = m.flipped
        /\ r.can_mode = m.can_mode /\ r.fdcan2_mux = m.fdcan2_mux
        /\ r.irq = m.irq /\ r.transceivers = Transceiver
        /\ r.relay_pins = m.relay_pins /\ r.relay_driven = m.relay_driven
    BY <1>2, <1>5, <1>6 DEF Firmware
  <1>8. Wired(r)
    BY <1>3, <1>4, <1>5, <1>7 DEF Wired, Firmware
  <1> QED
    BY <1>3, <1>4, <1>7, <1>8 DEF Relayed

\* The invariant: until the first pass of tick_handler the harness is the one
\* that harness_init found.
WInv == /\ Wired(panda)
        /\ panda.prev_status # panda.status => plugged = panda.status

\* Requests that write nothing of the wiring, and those that set some of it.
LEMMA RequestKeeps ==
    ASSUME IInv, HostRequest, ~ResetRequest, ~DriveRelay, WInv
    PROVE  /\ WInv'
           /\ Relayed(panda) => Relayed(panda)'
  <1> USE DEF IInv
  <1>1. panda \in Firmware /\ plugged' = plugged
    BY DEF Good, HostRequest, Request, Heartbeat, SetMode, DisableHeartbeat,
           PowerSave, IrPower, ObdMode, BusConfig, Loopback
  <1>2. ASSUME Keeps(panda, panda')
        PROVE  /\ WInv'
               /\ Relayed(panda) => Relayed(panda)'
    BY <1>1, <1>2 DEF Keeps, WInv, Wired, Relayed, Other
  <1>3. CASE Heartbeat
    <2>1. PICK engaged \in BOOLEAN :
            panda' = [panda EXCEPT !.heartbeat_counter = 0,
                                   !.heartbeat_lost = FALSE,
                                   !.heartbeat_disabled = FALSE,
                                   !.heartbeat_engaged = engaged]
      BY <1>3 DEF Heartbeat, Request
    <2>2. SameWires(panda, panda')
      BY <1>1, <2>1 DEF Firmware, SameWires
    <2> QED
      BY <1>2, <2>2, SameKeeps
  <1>4. CASE SetMode
    <2>1. PICK m \in Modes, p \in {0, 1} : panda' = SetSafetyMode(panda, m, p)
      BY <1>4 DEF SetMode, Request
    <2>2. Lit(panda) /\ (panda.prev_status = panda.status
                           => panda.flipped = (panda.status = "FLIPPED"))
      BY DEF WInv, Wired, Lit
    <2>3. /\ Wired(panda') /\ Relayed(panda')
          /\ panda'.status = panda.status
          /\ panda'.prev_status = panda.prev_status
      BY <1>1, <2>1, <2>2, SetSafetyModeWired
    <2>4. Keeps(panda, panda')
      BY <2>3 DEF Keeps
    <2> QED
      BY <1>2, <2>4
  <1>5. CASE DisableHeartbeat
    <2> DEFINE off == panda.heartbeat_disabled \/ panda.mode # CarMode
    <2>1. panda' = [panda EXCEPT !.heartbeat_disabled = off]
      BY <1>5 DEF DisableHeartbeat, Request
    <2> HIDE DEF off
    <2>2. SameWires(panda, panda')
      BY <1>1, <2>1 DEF Firmware, SameWires
    <2> QED
      BY <1>2, <2>2, SameKeeps
  <1>6. CASE PowerSave
    <2>1. PICK state \in BOOLEAN : panda' = SetPowerSave(panda, state)
      BY <1>6 DEF PowerSave, Request
    <2> QED
      BY <1>1, <1>2, <2>1, SetPowerSaveKeeps
  <1>7. CASE IrPower
    <2>1. PICK on \in BOOLEAN : panda' = [panda EXCEPT !.ir_on = on]
      BY <1>7 DEF IrPower, Request
    <2>2. SameWires(panda, panda')
      BY <1>1, <2>1 DEF Firmware, SameWires
    <2> QED
      BY <1>2, <2>2, SameKeeps
  <1>8. CASE ObdMode
    <2>1. PICK m \in {"NORMAL", "OBD_CAN2"} : panda' = SetCanMode(panda, m)
      BY <1>8 DEF ObdMode, Request
    <2>2. /\ panda'.mode = panda.mode /\ panda'.status = panda.status
          /\ panda'.prev_status = panda.prev_status
          /\ panda'.flipped = panda.flipped
          /\ panda'.irq = panda.irq /\ panda'.power_save = panda.power_save
          /\ panda'.relay_pins = panda.relay_pins
          /\ panda'.relay_driven = panda.relay_driven
          /\ panda'.can_mode = m /\ panda'.fdcan2_mux = Mux(m, panda.status)
          /\ panda'.transceivers = (panda.transceivers \ {2, 4})
                                     \cup {Mux(m, panda.status)}
      BY <1>1, <2>1, SetCanModeWires
    <2>3. Wired(panda')
      BY <2>2 DEF WInv, Wired, Other
    <2>4. Relayed(panda) => Relayed(panda')
      BY <2>2 DEF Relayed
    <2>5. Keeps(panda, panda')
      BY <2>2, <2>3, <2>4 DEF Keeps
    <2> QED
      BY <1>2, <2>5
  <1>9. ASSUME NEW irq \in [CanNum -> BOOLEAN], NEW core,
               \A c \in CanNum : panda.irq[c] => irq[c],
               panda' = [panda EXCEPT !.core_silent = core, !.irq = irq]
        PROVE  Keeps(panda, panda')
    <2>1. /\ panda'.mode = panda.mode /\ panda'.status = panda.status
          /\ panda'.prev_status = panda.prev_status
          /\ panda'.flipped = panda.flipped
          /\ panda'.irq = irq /\ panda'.power_save = panda.power_save
          /\ panda'.relay_pins = panda.relay_pins
          /\ panda'.relay_driven = panda.relay_driven
          /\ panda'.can_mode = panda.can_mode
          /\ panda'.fdcan2_mux = panda.fdcan2_mux
          /\ panda'.transceivers = panda.transceivers
      BY <1>1, <1>9 DEF Firmware
    <2> QED
      BY <1>9, <2>1 DEF Keeps, Wired, Relayed, Other
  <1>10. CASE BusConfig
    <2>1. PICK c \in CanNum : panda' = CanInit(panda, c)
      BY <1>10 DEF BusConfig, Request
    <2> DEFINE core == [panda.core_silent EXCEPT ![c] = panda.can_silent]
               irq == [panda.irq EXCEPT ![c] = TRUE]
    <2>2. panda' = [panda EXCEPT !.core_silent = core, !.irq = irq]
      BY <2>1 DEF CanInit
    <2>3. /\ irq \in [CanNum -> BOOLEAN]
          /\ \A x \in CanNum : panda.irq[x] => irq[x]
      BY <1>1 DEF Firmware
    <2> HIDE DEF core, irq
    <2> QED
      BY <1>2, <1>9, <2>2, <2>3
  <1>11. CASE Loopback
    <2> DEFINE core == [c \in CanNum |-> panda.can_silent]
               irq == [c \in CanNum |-> TRUE]
    <2>1. panda' = [panda EXCEPT !.core_silent = core, !.irq = irq]
      BY <1>11 DEF Loopback, Request, CanInitAll
    <2>2. /\ irq \in [CanNum -> BOOLEAN]
          /\ \A x \in CanNum : panda.irq[x] => irq[x]
      OBVIOUS
    <2> HIDE DEF core, irq
    <2> QED
      BY <1>2, <1>9, <2>1, <2>2
  <1> QED
    BY <1>3, <1>4, <1>5, <1>6, <1>7, <1>8, <1>10, <1>11 DEF HostRequest

LEMMA TickWires ==
    ASSUME IInv, Tick, WInv
    PROVE  /\ WInv'
           /\ Relayed(panda) => Relayed(panda)'
  <1>1. PICK lagging \in BOOLEAN :
          panda' = TickHandler(panda, plugged, line, lagging)
    BY DEF Tick
  <1>2. /\ Wired(panda') /\ panda'.prev_status = panda'.status
        /\ Relayed(panda) => Relayed(panda')
    BY <1>1, TickHandlerWires DEF IInv, Around, WInv
  <1> QED
    BY <1>2 DEF WInv, Wired, Relayed, Other

\* The car, the connector and the host do not touch the wiring.
LEMMA CarWires ==
    ASSUME IInv, CarMessage \/ IgnitionMessage \/ Plug \/ IgnitionLine \/ HostGone,
           WInv
    PROVE  /\ WInv'
           /\ Relayed(panda) => Relayed(panda)'
  <1>1. panda \in Firmware
    BY DEF IInv, Good
  <1>2. ASSUME Keeps(panda, panda'), plugged' = plugged
        PROVE  /\ WInv'
               /\ Relayed(panda) => Relayed(panda)'
    BY <1>2 DEF Keeps, WInv, Wired, Relayed, Other
  <1>3. CASE CarMessage
    <2>1. PICK allow \in BOOLEAN : panda' = RxHook(panda, allow)
      BY <1>3 DEF CarMessage
    <2> DEFINE n == IF allow /\ ~panda.controls_allowed THEN 0
                                                        ELSE panda.mismatches
    <2>2. panda' = [panda EXCEPT !.controls_allowed = allow, !.mismatches = n]
      BY <2>1 DEF RxHook
    <2> HIDE DEF n
    <2>3. SameWires(panda, panda')
      BY <1>1, <2>2 DEF Firmware, SameWires
    <2> QED
      BY <1>2, <1>3, <2>3, SameKeeps DEF CarMessage
  <1>4. CASE IgnitionMessage
    <2>1. PICK on \in BOOLEAN :
            panda' = [panda EXCEPT !.ignition_can = on, !.ignition_can_cnt = 0]
      BY <1>4 DEF IgnitionMessage
    <2>2. SameWires(panda, panda')
      BY <1>1, <2>1 DEF Firmware, SameWires
    <2> QED
      BY <1>2, <1>4, <2>2, SameKeeps DEF IgnitionMessage
  <1>5. CASE Plug
    BY <1>5 DEF Plug, WInv, Wired, Relayed, Other
  <1>6. CASE IgnitionLine \/ HostGone
    BY <1>6 DEF IgnitionLine, HostGone, WInv, Wired, Relayed, Other
  <1> QED
    BY <1>3, <1>4, <1>5, <1>6

LEMMA BootSteps ==
    /\ Init => WInv /\ Relayed(panda)
    /\ IInv /\ ResetRequest => WInv' /\ Relayed(panda)'
  <1>1. ASSUME Init PROVE WInv /\ Relayed(panda)
    BY <1>1, BootWires DEF Init, WInv
  <1>2. ASSUME IInv, ResetRequest PROVE WInv' /\ Relayed(panda)'
    <2>1. panda' = Boot(plugged) /\ plugged' = plugged /\ plugged \in Harness
      BY <1>2 DEF ResetRequest, Request, IInv, Around
    <2>2. Wired(panda') /\ Relayed(panda') /\ panda'.status = plugged
      BY <2>1, BootWires
    <2> QED
      BY <2>1, <2>2 DEF WInv, Wired, Relayed, Other
  <1> QED
    BY <1>1, <1>2

\* Only 0xc5 moves the relay without a reason, and it moves nothing else.
LEMMA DriveRelayWires ==
    ASSUME IInv, DriveRelay, WInv
    PROVE  WInv'
  <1>1. PICK i \in BOOLEAN, g \in BOOLEAN :
          /\ panda' = SetInterceptRelay(panda, i, g)
          /\ plugged' = plugged
    BY DEF DriveRelay, Request
  <1> DEFINE driven == panda'.relay_driven
             pins == panda'.relay_pins
  <1>2. panda \in Firmware
    BY DEF IInv, Good
  <1>3. panda' = [panda EXCEPT !.relay_driven = driven, !.relay_pins = pins]
    BY <1>1, <1>2 DEF SetInterceptRelay, Firmware
  <1> HIDE DEF driven, pins
  <1>4. /\ panda'.mode = panda.mode /\ panda'.status = panda.status
        /\ panda'.prev_status = panda.prev_status
        /\ panda'.flipped = panda.flipped
        /\ panda'.irq = panda.irq /\ panda'.power_save = panda.power_save
        /\ panda'.can_mode = panda.can_mode
        /\ panda'.fdcan2_mux = panda.fdcan2_mux
        /\ panda'.transceivers = panda.transceivers
    BY <1>2, <1>3 DEF Firmware
  <1> QED
    BY <1>1, <1>4 DEF WInv, Wired, Other

LEMMA WiresStep == IInv /\ WInv /\ [Next]_vars => WInv'
  <1>1. IInv /\ WInv /\ UNCHANGED vars => WInv'
    BY DEF WInv, Wired, Other, vars
  <1>2. IInv /\ WInv /\ HostRequest => WInv'
    BY BootSteps, DriveRelayWires, RequestKeeps
  <1> QED
    BY <1>1, <1>2, TickWires, CarWires DEF Next

\* The buses, the CAN pins and the interrupts follow the harness and the power
\* state through every order of replugging, mode changes, 0xdb, 0xe7, 0xde, 0xe5
\* and 0xc5: set_power_save_state, can_set_orientation and set_safety_mode mend
\* each other's leftovers.
THEOREM Wiring == Spec => []BusesAreWired
  <1>1. Init => WInv
    BY BootSteps
  <1>2. WInv => BusesAreWired
    BY DEF WInv, Wired, BusesAreWired, WiringFollowsHarness, AwakeListens
  <1> QED
    BY <1>1, <1>2, WiresStep, Invariance, PTL DEF Spec

LEMMA RelayStep ==
    ASSUME "relay" \notin Requests
    PROVE  IInv /\ WInv /\ Relayed(panda) /\ [Next]_vars => Relayed(panda)'
  <1>1. UNCHANGED vars /\ Relayed(panda) => Relayed(panda)'
    BY DEF Relayed, vars
  <1>2. ~DriveRelay
    BY DEF DriveRelay, Request
  <1>3. IInv /\ WInv /\ Relayed(panda) /\ HostRequest => Relayed(panda)'
    BY <1>2, BootSteps, RequestKeeps
  <1> QED
    BY <1>1, <1>3, TickWires, CarWires DEF Next

\* In a build without the debug request 0xc5 the relay is the one of the mode and
\* of the orientation after every step (set_intercept_relay, tick_handler).
THEOREM RelayMode ==
    ASSUME "relay" \notin Requests
    PROVE  Spec => []RelayFollowsMode
  <1> DEFINE R == Relayed(panda)
  <1>1. Init => R
    BY BootSteps
  <1>2. IInv /\ WInv /\ R /\ [Next]_vars => R'
    BY RelayStep
  <1>3. R => RelayFollowsMode
    BY DEF Relayed, RelayFollowsMode
  <1>4. Init => WInv
    BY BootSteps
  <1> HIDE DEF R
  <1> QED
    BY <1>1, <1>2, <1>3, <1>4, WiresStep, Invariance, PTL DEF Spec
=============================================================================
