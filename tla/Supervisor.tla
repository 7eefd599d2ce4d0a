----------------------------- MODULE Supervisor ----------------------------
(***************************************************************************)
(* The part of the firmware that decides what the panda may do to the car: *)
(* set_safety_mode and the 8 Hz tick_handler of board/main.c, the control  *)
(* requests of board/main_comms.h that change what they decide, the        *)
(* harness relay, power saving, and the CAN wiring of an STM32H7 board     *)
(* (red, tres, cuatro).                                                    *)
(*                                                                         *)
(* No interrupt priority is ever set, so no handler preempts another and   *)
(* each one is a single step.  The globals and the registers the handlers  *)
(* write are one record, panda, and every C function that several handlers *)
(* call is an operator from a record to a record.                          *)
(***************************************************************************)
EXTENDS Integers, FiniteSets

CONSTANTS
    TICK_HZ,                     \* passes of tick_handler per second: 8
    HEARTBEAT_IGNITION_CNT_ON,   \* seconds without heartbeat, started: 5
    HEARTBEAT_IGNITION_CNT_OFF,  \* seconds without heartbeat, not started: 2
    SirenTicks,                  \* siren_countdown is armed with this: 5
    AllowedTicks,                \* controls_allowed_countdown: 30
    MaxMismatches,               \* heartbeat_engaged mismatches allowed: 3
    CounterCap,                  \* heartbeat_counter saturates: UINT32_MAX
    Registered,                  \* safety modes in safety_hook_registry
    Requests,                    \* control requests the host issues
    MaxPlugs                     \* bound: times the harness is replugged

Harness == {"NC", "NORMAL", "FLIPPED"}
CarMode == "CAR"                 \* stands for every car's safety mode
Modes == {"SILENT", "NOOUTPUT", "ELM327", "ALLOUTPUT", CarMode}
CanNum == 0 .. 2                 \* FDCAN1, FDCAN2, FDCAN3
Transceiver == 1 .. 4

Firmware ==
    [mode : Modes, param : {0, 1}, controls_allowed : BOOLEAN,
     can_silent : BOOLEAN, core_silent : [CanNum -> BOOLEAN],
     irq : [CanNum -> BOOLEAN], flipped : BOOLEAN,
     can_mode : {"NORMAL", "OBD_CAN2"}, fdcan2_mux : {2, 4},
     transceivers : SUBSET Transceiver,
     relay_driven : BOOLEAN, relay_pins : SUBSET {"SBU1", "SBU2"},
     status : Harness, prev_status : Harness,
     power_save : BOOLEAN, ir_on : BOOLEAN,
     heartbeat_counter : 0 .. CounterCap, heartbeat_lost : BOOLEAN,
     heartbeat_disabled : BOOLEAN, heartbeat_engaged : BOOLEAN,
     mismatches : 0 .. MaxMismatches,
     siren_countdown : 0 .. SirenTicks,
     allowed_countdown : 0 .. AllowedTicks,
     ignition_can : BOOLEAN, ignition_can_cnt : 0 .. 3,
     loop_counter : 0 .. TICK_HZ - 1]

ASSUME SupervisorAssumption ==
    /\ TICK_HZ \in Nat \ {0}
    /\ HEARTBEAT_IGNITION_CNT_ON \in Nat \ {0}
    /\ HEARTBEAT_IGNITION_CNT_OFF \in 1 .. HEARTBEAT_IGNITION_CNT_ON
    /\ SirenTicks \in Nat
    /\ AllowedTicks \in Nat
    /\ MaxMismatches \in Nat \ {0}
    /\ CounterCap \in Nat
    /\ CounterCap >= HEARTBEAT_IGNITION_CNT_ON
    /\ {"SILENT", "NOOUTPUT", "ELM327", CarMode} \subseteq Registered
    /\ Registered \subseteq Modes
    /\ MaxPlugs \in Nat

VARIABLES
    panda,    \* the firmware: its globals and the registers it configures
    plugged,  \* the harness connector as it physically is
    line,     \* the ignition line of the car
    plugs,    \* how often the harness was replugged (bounded by MaxPlugs)
    host      \* "alive" or "gone": whether the host still sends requests

vars == <<panda, plugged, line, plugs, host>>

-----------------------------------------------------------------------------
(* CAN cores, transceivers and the relay *)

\* can_init_all: every core is configured from can_silent and, at the end of
\* llcan_init, its interrupts are enabled.
CanInitAll(s) ==
    [s EXCEPT !.core_silent = [c \in CanNum |-> s.can_silent],
              !.irq = [c \in CanNum |-> TRUE]]

\* can_init of one core (0xde, 0xf9 and 0xfc).
CanInit(s, c) ==
    [s EXCEPT !.core_silent[c] = s.can_silent, !.irq[c] = TRUE]

\* The transceiver, and the core, of the bus on the car's side.
MainTransceiver(s) == IF s.status = "FLIPPED" THEN 3 ELSE 1
MainCan(s) == IF s.flipped THEN 2 ELSE 0

\* red_enable_can_transceivers: the main one stays on in any case.
EnableCanTransceivers(s, enabled) ==
    [s EXCEPT !.transceivers =
        {t \in Transceiver : enabled \/ t = MainTransceiver(s)}]

\* Which transceiver FDCAN2 is wired to for a CAN mode and an orientation.
Mux(mode, status) ==
    IF (mode = "NORMAL") # (status = "FLIPPED") THEN 2 ELSE 4

\* red_set_can_mode: turns both FDCAN2 transceivers off, then one on.
SetCanMode(s, mode) ==
    LET mux == Mux(mode, s.status)
    IN  [s EXCEPT !.can_mode = mode,
                  !.fdcan2_mux = mux,
                  !.transceivers = (@ \ {2, 4}) \cup {mux}]

\* set_intercept_relay: the intercept relay hangs on SBU2 in the normal
\* orientation and on SBU1 otherwise, the ignition relay on the other one.
SetInterceptRelay(s, intercept, ignition) ==
    LET drive == intercept /\ s.status # "NC"
        interceptPin == IF s.status = "NORMAL" THEN "SBU2" ELSE "SBU1"
        ignitionPin == IF s.status = "NORMAL" THEN "SBU1" ELSE "SBU2"
    IN  [s EXCEPT !.relay_driven = drive \/ ignition,
                  !.relay_pins = {p \in {"SBU1", "SBU2"} :
                                     \/ drive /\ p = interceptPin
                                     \/ ignition /\ p = ignitionPin}]

\* harness_tick: the orientation cannot be read while a relay is driven.
HarnessTick(s, seen) ==
    IF s.relay_driven THEN s ELSE [s EXCEPT !.status = seen]

\* set_power_save_state: nothing happens unless the state changes.
SetPowerSave(s, state) ==
    IF state = s.power_save THEN s
    ELSE LET other == IF s.status = "FLIPPED" THEN 0 ELSE 2
         IN  [EnableCanTransceivers(s, ~state) EXCEPT
                !.irq = [c \in CanNum |-> IF c \in {1, other}
                                          THEN ~state ELSE s.irq[c]],
                !.ir_on = s.ir_on /\ ~state,
                !.power_save = state]

-----------------------------------------------------------------------------
(* Safety mode *)

\* set_safety_hooks, as far as this module goes: controls are not allowed in
\* the new mode, except that alloutput_init allows them.
SetSafetyHooks(s, mode, param) ==
    [s EXCEPT !.mode = mode,
              !.param = param,
              !.controls_allowed = (mode = "ALLOUTPUT")]

Intercepting == {"ALLOUTPUT", CarMode}
HeartbeatModes == {"ELM327"} \cup Intercepting

\* The relay is moved before anything else that depends on the mode.
SwitchMode(s, mode, param) ==
    LET h == SetSafetyHooks(s, mode, param)
        r == SetInterceptRelay(h, mode \in Intercepting, FALSE)
        c == SetCanMode(r, IF mode = "ELM327" /\ param = 0
                           THEN "OBD_CAN2" ELSE "NORMAL")
    IN  [c EXCEPT
            !.heartbeat_counter = IF mode \in HeartbeatModes THEN 0 ELSE @,
            !.heartbeat_lost = @ /\ mode \notin HeartbeatModes,
            !.can_silent = (mode = "SILENT")]

\* A bug: the cores keep the configuration of the mode before.
SetSafetyMode_nocaninit(s, m, p) ==
    IF m \in Registered THEN SwitchMode(s, m, p) ELSE SwitchMode(s, "SILENT", 0)

\* set_safety_mode: a mode that is not registered falls back to SILENT.
SetSafetyMode(s, m, p) ==
    CanInitAll(IF m \in Registered THEN SwitchMode(s, m, p)
                                   ELSE SwitchMode(s, "SILENT", 0))

-----------------------------------------------------------------------------
(* Power-on *)

\* Static initialisers, then board init (harness_init reads the orientation
\* and releases the relay), then main: SILENT and every transceiver on.  The
\* orientation of the buses and prev_harness_status stay at their defaults
\* until the first pass of tick_handler.
Boot(seen) ==
    LET zero == [mode |-> "SILENT", param |-> 0,
                 controls_allowed |-> FALSE,
                 can_silent |-> TRUE,
                 core_silent |-> [c \in CanNum |-> TRUE],
                 irq |-> [c \in CanNum |-> FALSE],
                 flipped |-> FALSE,
                 can_mode |-> "NORMAL", fdcan2_mux |-> 2,
                 transceivers |-> {},
                 relay_driven |-> FALSE, relay_pins |-> {},
                 status |-> seen, prev_status |-> "NC",
                 power_save |-> FALSE, ir_on |-> FALSE,
                 heartbeat_counter |-> 0,
                 heartbeat_lost |-> FALSE,
                 heartbeat_disabled |-> FALSE,
                 heartbeat_engaged |-> FALSE,
                 mismatches |-> 0,
                 siren_countdown |-> 0,
                 allowed_countdown |-> 0,
                 ignition_can |-> FALSE, ignition_can_cnt |-> 0,
                 loop_counter |-> 0]
    IN  EnableCanTransceivers(SetSafetyMode(zero, "SILENT", 0), TRUE)

-----------------------------------------------------------------------------
(* tick_handler *)

\* A bug: the buses are told, the relay and the CAN wiring are not.
HarnessChanged_norelay(s) ==
    CanInitAll([s EXCEPT !.prev_status = s.status,
                         !.flipped = (s.status = "FLIPPED")])

\* "re-init everything that uses harness status", when it has changed.  The
\* last call is made with the state power saving is in already.
HarnessChanged(s) ==
    LET o == CanInitAll([s EXCEPT !.prev_status = s.status,
                                  !.flipped = (s.status = "FLIPPED")])
        m == SetSafetyMode(o, s.mode, s.param)
    IN  SetPowerSave(m, s.power_save)

CheckHarness(s, seen) ==
    LET h == HarnessTick(s, seen)
    IN  IF h.status # h.prev_status THEN HarnessChanged(h) ELSE h

\* check_started: the ignition line is read through the harness.
Started(s, ign) == (s.status # "NC" /\ ign) \/ s.ignition_can

Capped(n, cap) == IF n > cap THEN cap ELSE n

\* What a countdown does in a second.
Decremented(n) == IF n > 0 THEN n - 1 ELSE 0

\* Disabling the heartbeat is undone in a car's safety mode.
CountHeartbeat(s) ==
    [s EXCEPT !.heartbeat_counter = Capped(@ + 1, CounterCap),
              !.heartbeat_disabled = @ /\ s.mode # CarMode,
              !.siren_countdown = Decremented(@)]

\* Controls that stay allowed without openpilot being engaged are withdrawn.
\* The counter is only compared with MaxMismatches; it saturates there.
CheckEngaged(s) ==
    LET unused == s.controls_allowed /\ ~s.heartbeat_engaged
        count == IF unused THEN Capped(s.mismatches + 1, MaxMismatches) ELSE 0
    IN  [s EXCEPT
            !.mismatches = count,
            !.controls_allowed = @ /\ count < MaxMismatches,
            !.allowed_countdown = IF s.controls_allowed \/ s.heartbeat_engaged
                                  THEN AllowedTicks ELSE Decremented(@)]

\* A bug: an unanswered heartbeat leaves the safety mode alone.
HeartbeatGone_keepsmode(s) ==
    [s EXCEPT !.heartbeat_lost = @ \/ s.mode = CarMode,
              !.heartbeat_engaged = FALSE, !.ir_on = FALSE]

\* No heartbeat for too long: siren if controls were in use lately, SILENT,
\* power saving, infrared light off.
HeartbeatGone(s) ==
    LET warn == s.allowed_countdown > 0
        h == [s EXCEPT !.siren_countdown = IF warn THEN SirenTicks ELSE @,
                       !.allowed_countdown = IF warn THEN 0 ELSE @,
                       !.heartbeat_lost = @ \/ s.mode = CarMode,
                       !.heartbeat_engaged = FALSE]
        m == IF s.mode # "SILENT" THEN SetSafetyMode(h, "SILENT", 0) ELSE h
    IN  [SetPowerSave(m, TRUE) EXCEPT !.ir_on = FALSE]

CheckHeartbeat(s, ign) ==
    LET limit == IF Started(s, ign) THEN HEARTBEAT_IGNITION_CNT_ON
                                    ELSE HEARTBEAT_IGNITION_CNT_OFF
    IN  IF ~s.heartbeat_disabled /\ s.heartbeat_counter >= limit
        THEN HeartbeatGone(s) ELSE s

\* CAN ignition lapses when nothing was heard for more than two seconds.
ExpireIgnition(s) ==
    [s EXCEPT !.ignition_can = @ /\ s.ignition_can_cnt <= 2,
              !.ignition_can_cnt = Capped(@ + 1, 3)]

\* safety_tick: lagging or invalid messages of a car withdraw the controls.
SafetyTick(s, lagging) ==
    [s EXCEPT !.controls_allowed = @ /\ ~(lagging /\ s.mode = CarMode)]

\* The passes decimated to 1 Hz.
SecondPass(s, ign, lagging) ==
    LET e == CheckEngaged(CountHeartbeat(s))
    IN  SafetyTick(ExpireIgnition(CheckHeartbeat(e, ign)), lagging)

TickHandler(s, seen, ign, lagging) ==
    LET h == CheckHarness(s, seen)
        t == IF s.loop_counter = 0 THEN SecondPass(h, ign, lagging) ELSE h
    IN  [t EXCEPT !.loop_counter = (@ + 1) % TICK_HZ]

-----------------------------------------------------------------------------
(* Steps *)

Init == /\ plugged \in Harness
        /\ line \in BOOLEAN
        /\ panda = Boot(plugged)
        /\ plugs = 0
        /\ host = "alive"

Tick == /\ \E lagging \in BOOLEAN :
             panda' = TickHandler(panda, plugged, line, lagging)
        /\ UNCHANGED <<plugged, line, plugs, host>>

\* A bug: mismatches counted for an earlier engagement are kept.
RxHook_nogreen(s, allow) == [s EXCEPT !.controls_allowed = allow]

\* safety_rx_hook of a car's mode may allow or withdraw controls; a rising
\* edge starts the mismatch count again.
RxHook(s, allow) ==
    [s EXCEPT !.controls_allowed = allow,
              !.mismatches = IF allow /\ ~s.controls_allowed THEN 0 ELSE @]

CarMessage == /\ panda.mode = CarMode
              /\ \E allow \in BOOLEAN : panda' = RxHook(panda, allow)
              /\ UNCHANGED <<plugged, line, plugs, host>>

\* ignition_can_hook, for a message that can be received on bus 0.
IgnitionMessage ==
    /\ panda.irq[MainCan(panda)]
    /\ (IF panda.flipped THEN 3 ELSE 1) \in panda.transceivers
    /\ \E on \in BOOLEAN :
         panda' = [panda EXCEPT !.ignition_can = on, !.ignition_can_cnt = 0]
    /\ UNCHANGED <<plugged, line, plugs, host>>

\* Control requests: comms_control_handler.
Request(name, s) ==
    /\ host = "alive"
    /\ name \in Requests
    /\ panda' = s
    /\ UNCHANGED <<plugged, line, plugs, host>>

\* 0xf3
Heartbeat == \E engaged \in BOOLEAN :
    Request("heartbeat",
            [panda EXCEPT !.heartbeat_counter = 0, !.heartbeat_lost = FALSE,
                          !.heartbeat_disabled = FALSE,
                          !.heartbeat_engaged = engaged])

\* 0xdc, with a mode the build may or may not have.  Only ELM327 looks at the
\* parameter here: whether it is 0.
SetMode == \E m \in Modes, p \in {0, 1} :
    /\ m = "ELM327" \/ p = 0
    /\ Request("mode", SetSafetyMode(panda, m, p))

\* 0xf8
DisableHeartbeat ==
    Request("disable_heartbeat",
            [panda EXCEPT !.heartbeat_disabled = @ \/ panda.mode # CarMode])

\* 0xe7
PowerSave == \E state \in BOOLEAN :
    Request("power_save", SetPowerSave(panda, state))

\* 0xb0
IrPower == \E on \in BOOLEAN :
    Request("ir_power", [panda EXCEPT !.ir_on = on])

\* 0xdb
ObdMode == \E m \in {"NORMAL", "OBD_CAN2"} :
    Request("obd", SetCanMode(panda, m))

\* 0xde, 0xf9, 0xfc: one core is initialised again
BusConfig == \E c \in CanNum : Request("bus", CanInit(panda, c))

\* 0xe5: all of them
Loopback == Request("loopback", CanInitAll(panda))

\* 0xc5, a debug request: drives the relays whatever the mode
DriveRelay == \E intercept, ignition \in BOOLEAN :
    Request("relay", SetInterceptRelay(panda, intercept, ignition))

\* 0xd8: the MCU restarts, its globals lose their values
ResetRequest == Request("reset", Boot(plugged))

HostRequest == \/ Heartbeat
               \/ SetMode
               \/ DisableHeartbeat
               \/ PowerSave
               \/ IrPower
               \/ ObdMode
               \/ BusConfig
               \/ Loopback
               \/ DriveRelay
               \/ ResetRequest

\* The car and the person at the connector.  A harness found by harness_init
\* is not pulled before the first pass of tick_handler has looked at it, at
\* most 125 ms later.
Plug == /\ plugs < MaxPlugs
        /\ panda.prev_status = panda.status
        /\ plugs' = plugs + 1
        /\ plugged' \in Harness \ {plugged}
        /\ UNCHANGED <<panda, line, host>>

IgnitionLine == /\ line' = ~line
                /\ UNCHANGED <<panda, plugged, plugs, host>>

\* The host crashes, sleeps or is unplugged.
HostGone == /\ host = "alive"
            /\ host' = "gone"
            /\ UNCHANGED <<panda, plugged, line, plugs>>

Next == \/ Tick
        \/ CarMessage
        \/ IgnitionMessage
        \/ HostRequest
        \/ Plug
        \/ IgnitionLine
        \/ HostGone

Spec == Init /\ [][Next]_vars

\* The timer interrupt of the 8 Hz tick always comes.
FairSpec == Spec /\ []<><<Tick>>_vars

-----------------------------------------------------------------------------
(* What must hold *)

\* One type invariant: the globals of main.c, safety.h and the drivers keep
\* their ranges, and the environment its own.
TypeOK == /\ panda \in Firmware
          /\ plugged \in Harness
          /\ line \in BOOLEAN
          /\ plugs \in 0 .. MaxPlugs
          /\ host \in {"alive", "gone"}

\* In SILENT, and only then, every CAN core is in bus-monitoring mode, which
\* can neither send nor acknowledge: whatever handler changed the mode or
\* initialised a core again (set_safety_mode, can_init_all, 0xde, 0xe5), and
\* whatever mode the tick fell back to.
SilentIsSilent == \A c \in CanNum : panda.core_silent[c] = (panda.mode = "SILENT")

\* The relay that cuts the car's buses open is driven exactly in the modes
\* that need it, never without a harness, and on the pin that belongs to the
\* orientation the buses are mapped for, although the orientation may change
\* while the mode stays (set_intercept_relay, harness_tick, tick_handler).
RelayFollowsMode ==
    /\ panda.relay_pins = IF panda.mode \notin Intercepting THEN {}
                          ELSE CASE panda.status = "NORMAL"  -> {"SBU2"}
                                 [] panda.status = "FLIPPED" -> {"SBU1"}
                                 [] panda.status = "NC"      -> {}
    /\ panda.relay_driven = (panda.relay_pins # {})

\* After a pass of tick_handler has seen a harness, the bus numbers and the
\* wiring of FDCAN2 (normal or OBD pins) are those of its orientation and of
\* the CAN mode asked for last (can_set_orientation, set_can_mode).
WiringFollowsHarness ==
    panda.prev_status = panda.status =>
        /\ panda.flipped = (panda.status = "FLIPPED")
        /\ panda.fdcan2_mux = Mux(panda.can_mode, panda.status)

\* Out of power saving the panda hears every bus: no core has its interrupts
\* masked and every transceiver in use is on, even if the harness was turned
\* round between the call of set_power_save_state that masked one pair of
\* cores and the call that unmasked another.
AwakeListens ==
    ~panda.power_save =>
        /\ \A c \in CanNum : panda.irq[c]
        /\ {1, 3, panda.fdcan2_mux} \subseteq panda.transceivers

\* The two together: the CAN hardware is set up for the harness that is there
\* and for the power state the panda is in, whatever step was last.
BusesAreWired == WiringFollowsHarness /\ AwakeListens

\* A car's safety mode never lasts through the seconds without heartbeat that
\* tick_handler tolerates, also when the heartbeat had been disabled (0xf8)
\* before the mode was entered; neither do ELM327 and ALLOUTPUT unless the
\* heartbeat is disabled.
HeartbeatKeepsMode ==
    (\/ panda.mode = CarMode
     \/ panda.mode \in HeartbeatModes /\ ~panda.heartbeat_disabled)
       => panda.heartbeat_counter < HEARTBEAT_IGNITION_CNT_ON

\* heartbeat_lost is reported in modes without output only: it is set with
\* the fall to SILENT and cleared by whatever leaves those modes.
LostHasNoOutput == panda.heartbeat_lost => panda.mode \in {"SILENT", "NOOUTPUT"}

\* The two together: no panda that misses its heartbeat lets the host drive.
LostHostHasNoOutput == HeartbeatKeepsMode /\ LostHasNoOutput

\* Controls are allowed only in a mode with the relay open, and in a car's
\* mode never beyond the mismatches tolerated while the host reports that it
\* is not engaged, although a message may allow them again at any time.
ControlsAreUsed ==
    panda.controls_allowed =>
        /\ panda.mode \in Intercepting
        /\ panda.mode = CarMode => panda.mismatches < MaxMismatches

\* Liveness: when the host is gone the panda ends in SILENT with power saving
\* on and the infrared light off and stays so, from whatever state it was
\* in, unless the heartbeat had been disabled outside a car's mode; and the
\* siren that a lost heartbeat sets off goes quiet again, while tick_handler
\* runs into the missing heartbeat every second.
GoneHostIsSafe ==
    /\ host = "gone" /\ (panda.mode = CarMode \/ ~panda.heartbeat_disabled)
         ~> [](panda.mode = "SILENT" /\ panda.power_save /\ ~panda.ir_on)
    /\ host = "gone" ~> [](panda.siren_countdown = 0)

-----------------------------------------------------------------------------
(* What the comments say and the code does not do *)

\* "Leave main CAN always on for CAN-based ignition detection" (red.h:31).
MainBusIsOn ==
    panda.prev_status = panda.status =>
        MainTransceiver(panda) \in panda.transceivers
=============================================================================
