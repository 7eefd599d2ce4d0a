-------------------------------- MODULE Modes -------------------------------
(***************************************************************************)
(* Who may drive: the part of the car makers' safety modes                 *)
(* (board/safety/safety_*.h) that differs from one to the next.  How the   *)
(* driver's buttons, the main switch and the stock cruise control enter    *)
(* and leave controls_allowed, which buttons the host may press for the    *)
(* driver, and how the stock emergency braking (AEB) of Honda and Tesla    *)
(* and the brake commands of the host keep out of each other's way.        *)
(*                                                                         *)
(* The driver, the car and the host act between any two messages the panda *)
(* receives.  What all modes share (message checks, pedals, lag) is in     *)
(* Safety; here it may withdraw the controls at any time.  A cruise        *)
(* control only comes on after a set or resume button, the driver's or one *)
(* the host pressed for him, and a Hyundai's also some time after cancels  *)
(* of the host: "some newer HKG models can re-enable after spamming cancel *)
(* button" (safety_hyundai_common.h:62).                                   *)
(***************************************************************************)
EXTENDS Integers

CONSTANTS
    Brands,                       \* bound: the brands whose modes are set
    Brakes,                       \* how hard a brake command is; 0: not at all
    HYUNDAI_PREV_BUTTON_SAMPLES,  \* 8
    NoAeb                         \* ALT_EXP_DISABLE_STOCK_AEB is set

Pcm == {"TOYOTA", "CHRYSLER", "MAZDA", "NISSAN", "SUBARU", "TESLA"}
Honda == {"HONDA_NIDEC", "HONDA_BOSCH"}
Volkswagen == {"VOLKSWAGEN_MQB", "VOLKSWAGEN_PQ"}

ASSUME ModesAssumption ==
    /\ Brands \subseteq Pcm \cup Honda \cup Volkswagen \cup {"HYUNDAI", "GM"}
    /\ Brakes \subseteq Nat /\ 0 \in Brakes
    /\ HYUNDAI_PREV_BUTTON_SAMPLES \in Nat \ {0}
    /\ NoAeb \in BOOLEAN

Button == {"SET", "RESUME", "CANCEL", "MAIN"}

\* A message tells of one button, but for Volkswagen's, which has a bit for each.
Held(brand) == {{}} \cup {{b} : b \in Button}
               \cup (IF brand \in Volkswagen THEN {{"SET", "CANCEL"}} ELSE {})

VARIABLES
    mode,   \* current_safety_mode, with what safety_param says of it
    hook,   \* the variables of safety.h and of the mode's file
    car,    \* the stock cruise control, its main switch, the buttons held, and
            \* whether cancels of the host may still turn the former on
    stock,  \* ghost: the AEB event: stronger than the host's brakes, let through
    sent,   \* ghost: the last brake command of the host that was let through
    asked,  \* ghost: the driver did ask for the controls, see Engaging
    since   \* ghost: button messages since the driver held one

modesVars == <<mode, hook, car, stock, sent, asked, since>>

Hook == [controls_allowed : BOOLEAN, gas_pressed_prev : BOOLEAN,
         cruise_engaged_prev : BOOLEAN,
         cruise_button_prev : SUBSET Button,  \* volkswagen_set_button_prev, too
         acc_main_on : BOOLEAN,
         last_button : 0 .. HYUNDAI_PREV_BUTTON_SAMPLES,
         honda_brake : Brakes, honda_fwd_brake : BOOLEAN,
         tesla_stock_aeb : BOOLEAN]

Mode == [brand : Brands \cup {"SILENT"}, long : BOOLEAN]

ModesTypeOK ==
    /\ mode \in Mode
    /\ hook \in Hook
    /\ car \in [cruise : BOOLEAN, main : BOOLEAN, held : SUBSET Button, spammed : BOOLEAN]
    /\ stock \in [due : BOOLEAN, passed : BOOLEAN]
    /\ sent \in Brakes
    /\ asked \in BOOLEAN
    /\ since \in 0 .. HYUNDAI_PREV_BUTTON_SAMPLES

\* The mode enters the controls on the driver's buttons, as the host controls
\* speed, instead of following the stock cruise control.
OnButtons(m) == m.long /\ m.brand \in {"HONDA_BOSCH", "HYUNDAI", "GM"} \cup Volkswagen

-----------------------------------------------------------------------------
(* Stock cruise control, as the mode reads it *)

\* pcm_cruise_check
PcmCruise(h, on) ==
    [h EXCEPT !.controls_allowed = on /\ (@ \/ ~h.cruise_engaged_prev),
              !.cruise_engaged_prev = on]

\* "Since some Nidec cars can brake down to 0 after the PCM disengages, we
\* don't disengage when the PCM does."
HondaCruise(m, h, on) ==
    [h EXCEPT !.controls_allowed = /\ @ \/ (on /\ ~h.cruise_engaged_prev)
                                   /\ on \/ m.brand = "HONDA_NIDEC",
              !.cruise_engaged_prev = on]

HyundaiCruise(h, on) ==
    [h EXCEPT !.controls_allowed =
                  on /\ (@ \/ (/\ ~h.cruise_engaged_prev
                               /\ h.last_button < HYUNDAI_PREV_BUTTON_SAMPLES)),
              !.cruise_engaged_prev = on]

\* TSK_06 also tells of the main switch, in both kinds of the mode.
MqbCruise(m, h, on, main) ==
    LET entered == IF OnButtons(m) THEN h ELSE PcmCruise(h, on)
    IN  [entered EXCEPT !.acc_main_on = main,
                        !.controls_allowed = @ /\ main]

\* The message that tells of the stock cruise control.
ReadCruise(m, h, on, main) ==
    IF m.brand = "VOLKSWAGEN_MQB" THEN MqbCruise(m, h, on, main)
    ELSE IF OnButtons(m) THEN h
    ELSE CASE m.brand \in Honda -> HondaCruise(m, h, on)
           [] m.brand = "HYUNDAI" -> HyundaiCruise(h, on)
           [] m.brand \in Pcm \cup {"GM", "VOLKSWAGEN_PQ"} -> PcmCruise(h, on)
           [] OTHER -> h

\* The message that only tells of the main switch: 0x326, Motor_5.
ReadMain(m, h, main) ==
    IF m.brand \in Honda \/ (m.brand = "VOLKSWAGEN_PQ" /\ OnButtons(m))
    THEN [h EXCEPT !.acc_main_on = main, !.controls_allowed = @ /\ main]
    ELSE h

-----------------------------------------------------------------------------
(* The driver's buttons, as the mode reads them *)

Released(h, b) == \E x \in {"SET", "RESUME"} : x \in h.cruise_button_prev \ b

\* A bug: a cancel button is looked at before the release of another.
HondaButtons_swapped(m, h, b) ==
    [h EXCEPT !.controls_allowed =
                  \/ @ /\ b \cap {"MAIN", "CANCEL"} = {}
                  \/ h.acc_main_on /\ OnButtons(m) /\ Released(h, b),
              !.cruise_button_prev = b]

\* 0x1A6 and 0x296
HondaButtons(m, h, b) ==
    [h EXCEPT !.controls_allowed =
                  /\ @ \/ (h.acc_main_on /\ OnButtons(m) /\ Released(h, b))
                  /\ b \cap {"MAIN", "CANCEL"} = {},
              !.cruise_button_prev = b]

\* hyundai_common_cruise_buttons_check
HyundaiButtons(m, h, b) ==
    LET last == IF b # {} THEN 0
                ELSE IF h.last_button < HYUNDAI_PREV_BUTTON_SAMPLES
                     THEN h.last_button + 1 ELSE h.last_button
    IN  IF ~OnButtons(m) THEN [h EXCEPT !.last_button = last]
        ELSE [h EXCEPT !.last_button = last,
                       !.controls_allowed = (@ \/ Released(h, b)) /\ "CANCEL" \notin b,
                       !.cruise_button_prev = b]

\* "falling edge of set or rising edge of resume (avoids fault)"
GmButtons(m, h, b) ==
    IF ~OnButtons(m) THEN h
    ELSE [h EXCEPT !.controls_allowed =
                       /\ \/ @
                          \/ "SET" \in h.cruise_button_prev \ b
                          \/ "RESUME" \in b \ h.cruise_button_prev
                       /\ "CANCEL" \notin b,
                   !.cruise_button_prev = b]

\* GRA_ACC_01 and GRA_Neu; the latter is not read with the stock cruise control.
VwButtons(m, h, b) ==
    IF OnButtons(m)
    THEN [h EXCEPT !.controls_allowed =
                       /\ IF Released(h, b) THEN h.acc_main_on ELSE @
                       /\ "CANCEL" \notin b,
                   !.cruise_button_prev = b]
    ELSE IF m.brand = "VOLKSWAGEN_MQB" /\ "CANCEL" \in b
         THEN [h EXCEPT !.controls_allowed = FALSE]
         ELSE h

ReadButtons(m, h, b) ==
    CASE m.brand \in Honda -> HondaButtons(m, h, b)
      [] m.brand = "HYUNDAI" -> HyundaiButtons(m, h, b)
      [] m.brand = "GM" -> GmButtons(m, h, b)
      [] m.brand \in Volkswagen -> VwButtons(m, h, b)
      [] OTHER -> h

-----------------------------------------------------------------------------
(* What the host may send *)

\* The tx hooks, for a message of the cruise control's buttons: resume only
\* with the controls, or cancel only.  Not whitelisted where nothing is said.
MayPress(m, h, x) ==
    CASE m.brand \in {"MAZDA", "HONDA_BOSCH"} \cup Volkswagen ->
             ~OnButtons(m) /\ (h.controls_allowed \/ x = "CANCEL")
      [] m.brand = "CHRYSLER" ->
             x = "CANCEL" \/ (x = "RESUME" /\ h.controls_allowed)
      [] m.brand = "HYUNDAI" ->
             \/ OnButtons(m)
             \/ x = "RESUME" /\ h.controls_allowed
             \/ x = "CANCEL" /\ h.cruise_engaged_prev
      [] m.brand = "GM" ->
             ~OnButtons(m) /\ x = "CANCEL" /\ h.cruise_engaged_prev
      [] m.brand \in {"NISSAN", "SUBARU", "TESLA", "TOYOTA"} -> x = "CANCEL"
      [] OTHER -> FALSE

get_longitudinal_allowed(h) == h.controls_allowed /\ ~h.gas_pressed_prev

\* The modes in which host and camera send the same brake message.
Brakes2(m) == m.brand = "HONDA_NIDEC" \/ (m.brand = "TESLA" /\ m.long)

\* The fwd hooks, for the same message of the camera.
FwdBrake(m, h) == IF m.brand = "HONDA_NIDEC" THEN h.honda_fwd_brake
                  ELSE h.tesla_stock_aeb

\* The tx hooks, for the brake command: 0x1FA, DAS_control.
TxBrake(m, h, brake) ==
    /\ brake = 0 \/ get_longitudinal_allowed(h)
    /\ ~FwdBrake(m, h)

\* A bug: the stock brakes are compared with the host's in every message.
ReadAeb_unlatched(m, h, aeb, brake) ==
    IF m.brand = "HONDA_NIDEC"
    THEN IF NoAeb THEN h
         ELSE [h EXCEPT !.honda_fwd_brake = aeb /\ brake >= h.honda_brake]
    ELSE [h EXCEPT !.tesla_stock_aeb = aeb]

\* The rx hooks, for that message: "Forward AEB when stock braking is higher
\* than openpilot braking; only stop forwarding when AEB event is over".
ReadAeb(m, h, aeb, brake) ==
    IF m.brand = "HONDA_NIDEC"
    THEN IF NoAeb THEN h
         ELSE [h EXCEPT !.honda_fwd_brake = aeb /\ (@ \/ brake >= h.honda_brake)]
    ELSE [h EXCEPT !.tesla_stock_aeb = aeb]

-----------------------------------------------------------------------------
(* Ghosts *)

\* The buttons with which a driver asks for the controls.
Engaging(m) == IF m.brand = "HYUNDAI" /\ ~OnButtons(m) THEN Button
               ELSE {"SET", "RESUME"}

\* The driver asked, and the panda has not read it yet.
Pending(m, h, c) == \/ (c.held \cup h.cruise_button_prev) \cap Engaging(m) # {}
                    \/ c.cruise /\ ~h.cruise_engaged_prev /\ asked

\* Every step the panda takes: once withdrawn, controls must be asked for anew.
Becomes(h) ==
    /\ hook' = h
    /\ asked' = IF hook.controls_allowed /\ ~h.controls_allowed
                THEN Pending(mode, h, car) ELSE asked

-----------------------------------------------------------------------------
(* The driver, and the car *)

\* Buttons are held or released; the cruise control may follow them.
Press == \E b \in Held(mode.brand) :
    /\ b # car.held
    /\ \E on \in {car.cruise}
                 \cup (IF car.main /\ (b \cup car.held) \cap {"SET", "RESUME"} # {}
                       THEN {TRUE} ELSE {})
                 \cup (IF "CANCEL" \in b THEN {FALSE} ELSE {}) :
          car' = [car EXCEPT !.held = b, !.cruise = on]
    /\ asked' = (asked \/ b \cap Engaging(mode) # {})
    /\ since' = IF b = {} THEN since ELSE 0
    /\ UNCHANGED <<mode, hook, stock, sent>>

MainSwitch == /\ car' = [car EXCEPT !.main = ~@, !.cruise = FALSE]
              /\ UNCHANGED <<mode, hook, stock, sent, asked, since>>

\* What the cancels of a host do to some cars.
CancelReenables == /\ car.spammed /\ car.main
                   /\ mode.brand = "HYUNDAI"
                   /\ car' = [car EXCEPT !.cruise = TRUE, !.spammed = FALSE]
                   /\ UNCHANGED <<mode, hook, stock, sent, asked, since>>

\* The brake, a fault: the car ends it.
CruiseEnds == /\ car.cruise
              /\ car' = [car EXCEPT !.cruise = FALSE]
              /\ UNCHANGED <<mode, hook, stock, sent, asked, since>>

-----------------------------------------------------------------------------
(* The panda *)

RxCruise == /\ Becomes(ReadCruise(mode, hook, car.cruise, car.main))
            /\ UNCHANGED <<mode, car, stock, sent, since>>

RxMain == /\ Becomes(ReadMain(mode, hook, car.main))
          /\ UNCHANGED <<mode, car, stock, sent, since>>

\* Honda's 0x1A6 brings the main switch, too; 0x296 does not.
RxButtons ==
    /\ \/ Becomes(ReadButtons(mode, hook, car.held))
       \/ /\ mode.brand \in Honda
          /\ Becomes(ReadButtons(mode, ReadMain(mode, hook, car.main), car.held))
    /\ since' = IF car.held # {} THEN 0
                ELSE IF since < HYUNDAI_PREV_BUTTON_SAMPLES THEN since + 1 ELSE since
    /\ UNCHANGED <<mode, car, stock, sent>>

\* What all modes share: pedals, messages that lag or are not valid.
RxPedals == /\ \E gas, withdraw \in BOOLEAN :
                  Becomes([hook EXCEPT !.gas_pressed_prev = gas,
                                       !.controls_allowed = @ /\ ~withdraw])
            /\ mode.brand # "SILENT"
            /\ UNCHANGED <<mode, car, stock, sent, since>>

\* The camera's brake message, and whether it is then forwarded.
RxAeb == \E aeb \in BOOLEAN, brake \in Brakes :
    LET h == ReadAeb(mode, hook, aeb, brake)
    IN  /\ Brakes2(mode)
        /\ Becomes(h)
        /\ stock' = [due |-> aeb /\ brake > sent,
                     passed |-> aeb /\ (FwdBrake(mode, h) \/ stock.passed)]
        /\ UNCHANGED <<mode, car, sent, since>>

\* The host presses a button for the driver.
HostPress == \E x \in {"SET", "RESUME", "CANCEL"} :
    /\ MayPress(mode, hook, x)
    /\ \E on \in {car.cruise, x # "CANCEL" /\ car.main} :
          car' = [car EXCEPT !.cruise = on,
                             !.spammed = @ \/ (x = "CANCEL" /\ mode.brand = "HYUNDAI")]
    /\ UNCHANGED <<mode, hook, stock, sent, asked, since>>

\* The host brakes.  Honda's hook remembers the command before it is checked.
HostBrake == \E brake \in Brakes :
    /\ Brakes2(mode)
    /\ hook' = IF mode.brand = "HONDA_NIDEC"
               THEN [hook EXCEPT !.honda_brake = brake] ELSE hook
    /\ sent' = IF TxBrake(mode, hook, brake) THEN brake ELSE sent
    /\ UNCHANGED <<mode, car, stock, asked, since>>

FreshHook == [controls_allowed |-> FALSE, gas_pressed_prev |-> FALSE,
              cruise_engaged_prev |-> FALSE, cruise_button_prev |-> {},
              acc_main_on |-> FALSE,
              last_button |-> HYUNDAI_PREV_BUTTON_SAMPLES,
              honda_brake |-> 0, honda_fwd_brake |-> FALSE,
              tesla_stock_aeb |-> FALSE]

\* A bug: the state of the buttons outlives the mode.
Reset_stale(m, h) ==
    [FreshHook EXCEPT !.cruise_button_prev = h.cruise_button_prev]

\* set_safety_hooks, with the init of the mode: variables of other modes' files
\* are left alone, and honda_bosch_init leaves two of Honda's.
Reset(m, h) ==
    [FreshHook EXCEPT
        !.last_button = IF m.brand = "HYUNDAI" THEN @ ELSE h.last_button,
        !.honda_brake = IF m.brand = "HONDA_NIDEC" THEN @ ELSE h.honda_brake,
        !.honda_fwd_brake = IF m.brand = "HONDA_NIDEC" THEN @ ELSE h.honda_fwd_brake,
        !.tesla_stock_aeb = IF m.brand = "TESLA" THEN @ ELSE h.tesla_stock_aeb]

SetMode == \E m \in Mode :
    /\ mode' = m
    /\ hook' = Reset(m, hook)
    /\ stock' = [due |-> FALSE, passed |-> FALSE]
    /\ sent' = 0
    /\ asked' = (car.cruise \/ car.held \cap Engaging(m) # {})
    /\ since' = HYUNDAI_PREV_BUTTON_SAMPLES
    /\ UNCHANGED car

ModesInit == /\ mode = [brand |-> "SILENT", long |-> FALSE]
             /\ hook = FreshHook
             /\ car = [cruise |-> FALSE, main |-> FALSE, held |-> {},
                       spammed |-> FALSE]
             /\ stock = [due |-> FALSE, passed |-> FALSE]
             /\ sent = 0
             /\ asked = FALSE
             /\ since = HYUNDAI_PREV_BUTTON_SAMPLES

ModesNext == \/ Press \/ MainSwitch \/ CancelReenables \/ CruiseEnds
             \/ RxCruise \/ RxMain \/ RxButtons \/ RxPedals \/ RxAeb
             \/ HostPress \/ HostBrake \/ SetMode

ModesSpec == ModesInit /\ [][ModesNext]_modesVars

-----------------------------------------------------------------------------
(* What must hold *)

\* Controls are only entered when the driver asked for them, by a button or a
\* cruise control that was on already when the mode was set, after they were
\* withdrawn last; the host cannot get them by pressing buttons for him, nor by
\* setting the mode again while one is released.  A Hyundai, which may turn its
\* cruise control on by itself, enters them within a few button messages of any
\* button of the driver.
DriverEngages ==
    [][~hook.controls_allowed /\ hook'.controls_allowed =>
          \/ asked
          \/ /\ mode.brand = "HYUNDAI" /\ ~OnButtons(mode)
             /\ since < HYUNDAI_PREV_BUTTON_SAMPLES]_modesVars

\* Where the driver's buttons enter the controls, a message with cancel in it
\* leaves them, even if another button is released in the same message, and
\* so does the main switch, where the mode reads it.
OffMeansOff ==
    OnButtons(mode) /\ hook.controls_allowed =>
        /\ "CANCEL" \notin hook.cruise_button_prev
        /\ mode.brand \in Honda \cup Volkswagen => hook.acc_main_on

\* Once a stock AEB event was let through, it is until it is over, and no brake
\* command of the host is, whatever either of them asks for meanwhile.
AebIsLatched ==
    stock.passed => /\ FwdBrake(mode, hook)
                    /\ \A brake \in Brakes : ~TxBrake(mode, hook, brake)

\* "Forward AEB when stock braking is higher than openpilot braking"
\* (safety_honda.h:161), openpilot's braking being what the panda sent.
StockAebWins == stock.due => FwdBrake(mode, hook)
=============================================================================
