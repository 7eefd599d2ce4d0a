------------------------------ MODULE Bootkick ------------------------------
(***************************************************************************)
(* Booting the computer (SOM) behind the panda: board/drivers/bootkick.h.  *)
(* The panda holds the SOM's power button on ignition or on a new harness, *)
(* lets go of it once openpilot sends heartbeats, and if the SOM does not  *)
(* come up tries a reset, once.                                            *)
(*                                                                         *)
(* bootkick_tick runs once a second, from tick_handler.  Ignition, harness *)
(* and heartbeats are those of Supervisor; here they are inputs, as are    *)
(* the signs of life it takes from the SOM.                                *)
(***************************************************************************)
EXTENDS Naturals

CONSTANTS WaitTicks,   \* 20: ticks the SOM has to show signs of life
          ResetTicks   \* 5: ticks a reset takes

ASSUME BootkickAssumption == /\ WaitTicks \in Nat \ {0}
                             /\ ResetTicks \in Nat \ {0}

BootState == {"STANDBY", "BOOTKICK", "RESET"}
Harness == {"NC", "NORMAL", "FLIPPED"}

VARIABLES
    boot_state,
    bootkick_ign_prev,
    bootkick_harness_status_prev,
    waiting_to_boot_countdown,
    boot_reset_countdown,
    bootkick_reset_triggered,
    quiet,  \* ghost: ticks since the last kick, if nothing else happened
    held    \* ghost: ticks in which the SOM was held in reset

bootVars == <<boot_state, bootkick_ign_prev, bootkick_harness_status_prev,
              waiting_to_boot_countdown, boot_reset_countdown,
              bootkick_reset_triggered, quiet, held>>

BootTypeOK ==
    /\ boot_state \in BootState
    /\ bootkick_ign_prev \in BOOLEAN
    /\ bootkick_harness_status_prev \in Harness
    /\ waiting_to_boot_countdown \in 0 .. WaitTicks
    /\ boot_reset_countdown \in 0 .. ResetTicks
    /\ bootkick_reset_triggered \in BOOLEAN
    /\ quiet \in 0 .. WaitTicks
    /\ held \in 0 .. ResetTicks + 1

BootInit == /\ boot_state = "BOOTKICK"
            /\ bootkick_ign_prev = FALSE
            /\ bootkick_harness_status_prev = "NC"
            /\ waiting_to_boot_countdown = 0
            /\ boot_reset_countdown = 0
            /\ bootkick_reset_triggered = FALSE
            /\ quiet = 0
            /\ held = 0

Down(n) == IF n > 0 THEN n - 1 ELSE 0

\* The ignition comes on or a harness is plugged in, or turned round.
Kick(ignition, harness) ==
    \/ ignition /\ ~bootkick_ign_prev
    \/ harness # bootkick_harness_status_prev /\ harness # "NC"

\* The state asked for, before a reset is considered.
Wanted(ignition, harness, recent_heartbeat) ==
    IF Kick(ignition, harness) THEN "BOOTKICK"
    ELSE IF recent_heartbeat THEN "STANDBY" ELSE boot_state

\* The wait that a kick out of standby starts, if there was no reset before.
Armed(wanted) ==
    IF ~bootkick_reset_triggered /\ wanted = "BOOTKICK" /\ boot_state = "STANDBY"
    THEN WaitTicks ELSE waiting_to_boot_countdown

\* A sign of life or another state ends the wait.
Waiting(wanted, alive) ==
    IF alive \/ wanted # "BOOTKICK" THEN 0 ELSE Armed(wanted)

\* A bug: the state asked for is obeyed during a reset, too.
Obeyed_at_once(wanted, resetting) ==
    IF resetting > 0 /\ wanted # "STANDBY" THEN "RESET"
    ELSE IF wanted = "RESET" THEN "BOOTKICK" ELSE wanted

\* "once BOOT_RESET is triggered, it stays until countdown is finished"
Obeyed(wanted, resetting) ==
    IF resetting > 0 THEN "RESET"
    ELSE IF wanted = "RESET" THEN "BOOTKICK" ELSE wanted

\* alive: w_ptr_tx of uart_ring_som_debug moved, or read_som_gpio().
bootkick_tick(ignition, harness, recent_heartbeat, alive) ==
    LET wanted == Wanted(ignition, harness, recent_heartbeat)
        waiting == Waiting(wanted, alive)
        resetting == IF waiting = 1 THEN ResetTicks ELSE boot_reset_countdown
    IN  /\ boot_state' = Obeyed(wanted, resetting)
        /\ bootkick_reset_triggered' = (bootkick_reset_triggered \/ resetting > 0)
        /\ bootkick_ign_prev' = ignition
        /\ bootkick_harness_status_prev' = harness
        /\ waiting_to_boot_countdown' = Down(waiting)
        /\ boot_reset_countdown' = Down(resetting)
        /\ quiet' = IF alive \/ wanted # "BOOTKICK" THEN 0
                    ELSE IF boot_state = "STANDBY" THEN 1
                    ELSE IF quiet \in 1 .. WaitTicks - 1 THEN quiet + 1 ELSE quiet
        /\ held' = IF boot_state' = "RESET" /\ held <= ResetTicks
                   THEN held + 1 ELSE held

BootNext == \E ignition, recent_heartbeat, alive \in BOOLEAN, harness \in Harness :
                bootkick_tick(ignition, harness, recent_heartbeat, alive)

BootSpec == BootInit /\ [][BootNext]_bootVars

-----------------------------------------------------------------------------
(* What must hold *)

\* "only try once per panda boot" and "once BOOT_RESET is triggered, it stays
\* until countdown is finished": in all the time the panda runs the SOM is held
\* in reset for ResetTicks at most, and for no less once it is let go,
\* whatever ignition, harness and heartbeats do meanwhile.
ResetsOnce == /\ held <= ResetTicks
              /\ boot_state # "RESET" => held \in {0, ResetTicks}

\* A reset starts only if the SOM was kicked out of standby and gave no sign of
\* life, nor openpilot a heartbeat, in all the time it was given.
ResetIsDue == boot_state # "RESET" /\ boot_state' = "RESET" => quiet' = WaitTicks

\* The two together: the SOM is reset once, for as long as it takes, and only
\* if it has to be.
ResetsWhenDue == [][ResetsOnce' /\ ResetIsDue]_bootVars
=============================================================================
