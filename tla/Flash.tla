------------------------------- MODULE Flash -------------------------------
(***************************************************************************)
(* Replacing the firmware: the host's Panda.flash and Panda.recover, the   *)
(* bootstub with its flasher (board/bootstub.c, flasher.h, early_init.h),  *)
(* the flash memory, and the ROM bootloader of the microcontroller (DFU).  *)
(*                                                                         *)
(* Power may be cut, and a request of the host may fail before or after it *)
(* was carried out, between any two steps.  Over SPI a request may also be *)
(* carried out twice (see Spi).  Over USB a handle is good for one boot of *)
(* the panda; over SPI there is nothing to lose.                           *)
(*                                                                         *)
(* The signature check stands for what it is there for: it accepts the     *)
(* words of an image exactly when all of them are in place.                *)
(***************************************************************************)
EXTENDS Integers

CONSTANTS
    Sectors,      \* the sectors of the application: 1 .. Sectors
    SectorWords,  \* words in each
    Size,         \* [{"old", "new"} -> Nat]: words of each image
    Transports,   \* SUBSET {"usb", "spi"}: how the host talks to the panda
    MaxFaults,    \* bound: power cuts and failing requests
    MaxRecovers   \* bound: calls of recover

Version == {"old", "new"}
Word == 1 .. Sectors * SectorWords

ASSUME FlashAssumption ==
    /\ Sectors \in Nat \ {0}
    /\ SectorWords \in Nat \ {0}
    /\ Size \in [Version -> Word]
    /\ Size["new"] < Sectors * SectorWords
    /\ Transports \subseteq {"usb", "spi"}
    /\ MaxFaults \in Nat /\ MaxRecovers \in Nat

VARIABLES
    transport,
    panda,     \* what runs, and what it has stored
    at,        \* where in flash or recover the host is
    pos,       \* the sector it erases or the word it writes next
    bootstub,  \* Panda.bootstub: what it found when it connected last
    handle,    \* its USB handle is still good
    recovers,
    faults,
    clean,     \* ghost: no fault since the host began
    returned,  \* ghost: the last flash returned, it did not raise
    dfu_cut    \* ghost: power was cut while the ROM bootloader ran

flashVars == <<transport, panda, at, pos, bootstub, handle, recovers, faults,
          clean, returned, dfu_cut>>

Erased == [of |-> "erased", nr |-> 0]
Spoilt == [of |-> "spoilt", nr |-> 0]  \* programmed without having been erased
Content == {Erased, Spoilt} \cup [of : Version, nr : Word]

Panda == [runs : {"off", "reset", "flasher", "app", "dfu", "dead"},
          mode : {"NORMAL", "SOFTLOADER", "BOOTLOADER", "other"},
          flash : [Word -> Content],
          stub : {"whole", "erased"},
          unlocked : BOOLEAN,
          prog_ptr : 0 .. Sectors * SectorWords + 1]

Step == {"idle", "compare", "enter", "reconnect", "present", "unlock", "erase",
         "write", "restart", "return",
         "to_flasher", "again", "to_dfu", "wait_dfu", "dfu_erase", "dfu_program",
         "dfu_jump", "connect"}

FlashTypeOK == /\ transport \in {"usb", "spi"}
          /\ panda \in Panda
          /\ at \in Step
          /\ pos \in Nat
          /\ bootstub \in BOOLEAN /\ handle \in BOOLEAN
          /\ recovers \in 0 .. MaxRecovers
          /\ faults \in 0 .. MaxFaults
          /\ clean \in BOOLEAN /\ returned \in BOOLEAN /\ dfu_cut \in BOOLEAN

Whole(p, v) == \A w \in 1 .. Size[v] : p.flash[w] = [of |-> v, nr |-> w]

Installed == IF Whole(panda, "old") THEN "old"
             ELSE IF Whole(panda, "new") THEN "new" ELSE "none"

-----------------------------------------------------------------------------
(* The panda *)

InSector(s) == {w \in Word : (w - 1) \div SectorWords + 1 = s}

\* A reset keeps the RAM word enter_bootloader_mode and the flash.
SystemReset(p, mode) == [p EXCEPT !.runs = "reset", !.mode = mode,
                                  !.unlocked = FALSE, !.prog_ptr = 0]

\* A bug: the flasher is entered, and the request for it is kept.
SoftFlasher_kept(p) == [p EXCEPT !.runs = "flasher"]

\* soft_flasher_start
SoftFlasher(p) == [p EXCEPT !.runs = "flasher", !.mode = "other"]

\* A bug: an application is started if the first of its words is there.
Verified_head(p) == \E v \in Version : p.flash[1] = [of |-> v, nr |-> 1]

\* The length, version and signature checks of bootstub.c.
Verified(p) == \E v \in Version : Whole(p, v)

\* early_initialization, then main of bootstub.c.  A value nobody wrote is
\* replaced, and the chip reset once more; the application, when it is
\* started, runs early_initialization again and finds BOOT_NORMAL.
Started(p) ==
    CASE p.mode = "other" -> SystemReset(p, "NORMAL")
      [] p.mode = "BOOTLOADER" -> [p EXCEPT !.runs = "dfu", !.mode = "other"]
      [] p.mode = "SOFTLOADER" -> SoftFlasher(p)
      [] p.mode = "NORMAL" -> IF Verified(p) THEN [p EXCEPT !.runs = "app"]
                                             ELSE SoftFlasher(p)

Boot == /\ panda.runs = "reset"
        /\ panda' = IF panda.stub = "whole" THEN Started(panda)
                                            ELSE [panda EXCEPT !.runs = "dead"]
        /\ UNCHANGED <<at, pos, bootstub, handle, recovers, faults,
                       clean, returned, dfu_cut>>

\* flash_erase_sector: any sector but that of the bootstub, once unlocked.
EraseSector(p, s) ==
    IF s # 0 /\ s <= Sectors /\ p.unlocked
    THEN [p EXCEPT !.flash = [w \in Word |-> IF w \in InSector(s) THEN Erased
                                                          ELSE p.flash[w]]]
    ELSE p

\* comms_endpoint2_write of the flasher.  A word can be programmed only once
\* between two erasures; a locked flash ignores it.
WriteWord(p, data) ==
    IF ~p.unlocked \/ p.prog_ptr \notin Word THEN p
    ELSE [p EXCEPT !.flash[p.prog_ptr] = IF @ = Erased THEN data ELSE Spoilt,
                   !.prog_ptr = @ + 1]

\* A bug: an unlocked flash is not rewound.
Unlock_once(p) ==
    IF p.unlocked THEN p ELSE [p EXCEPT !.unlocked = TRUE, !.prog_ptr = 1]

\* 0xb1
Unlock(p) == [p EXCEPT !.unlocked = TRUE, !.prog_ptr = 1]

\* What a request does to the panda: comms_control_handler and
\* comms_endpoint2_write of the flasher, and of the application as far as it
\* has the same requests (0xb0 to 0xb2 and endpoint 2 are other things there,
\* and a release build does not enter the ROM bootloader).
Serve(p, op) ==
    CASE op = "to_flasher" -> SystemReset(p, "SOFTLOADER")
      [] op = "to_dfu" /\ p.runs = "flasher" -> SystemReset(p, "BOOTLOADER")
      [] op = "restart" -> SystemReset(p, p.mode)
      [] op = "unlock" /\ p.runs = "flasher" -> Unlock(p)
      [] op = "erase" /\ p.runs = "flasher" -> EraseSector(p, pos)
      [] op = "write" /\ p.runs = "flasher" ->
             WriteWord(p, [of |-> "new", nr |-> pos])
      [] OTHER -> p

-----------------------------------------------------------------------------
(* The host's requests *)

Reachable == panda.runs \in {"flasher", "app"} /\ (transport = "spi" \/ handle)

Fault == /\ faults < MaxFaults
         /\ faults' = faults + 1
         /\ clean' = FALSE

NoFault == UNCHANGED <<faults, clean>>

\* A request that returns.  Over SPI it may have been carried out twice.
Answered(op) ==
    /\ Reachable
    /\ handle' = (handle /\ Serve(panda, op).runs # "reset")
    /\ \/ panda' = Serve(panda, op) /\ NoFault
       \/ /\ transport = "spi"
          /\ Serve(panda, op).runs # "reset"
          /\ panda' = Serve(Serve(panda, op), op)
          /\ Fault

\* A request that raises, carried out or not.
Failed(op) ==
    \/ ~Reachable /\ NoFault /\ UNCHANGED <<panda, handle>>
    \/ Reachable /\ Fault /\ UNCHANGED <<panda, handle>>
    \/ /\ Reachable /\ Fault
       /\ panda' = Serve(panda, op)
       /\ handle' = (handle /\ panda'.runs # "reset")

\* The exception ends flash or recover, the caller may call it again.
Raise == at' = "idle" /\ UNCHANGED pos

Go(step, p) == at' = step /\ pos' = p

\* One request of the host, after which it goes on to a step, or raises.
Request(op, step, p) ==
    \/ Answered(op) /\ Go(step, p)
    \/ Failed(op) /\ Raise

\* reset() swallows what the request raises.
ResetRequest(op, step) ==
    /\ Answered(op) \/ Failed(op)
    /\ Go(step, 0)

\* connect(), which looks whether it is the flasher that answers.
Connect(step) ==
    /\ panda.runs \in {"flasher", "app"}
    /\ bootstub' = (panda.runs = "flasher")
    /\ handle' = TRUE
    /\ Go(step, 0)
    /\ UNCHANGED <<panda, faults, clean>>

\* reconnect() gives up after 15 s, more than it takes to boot.
ReconnectFails == /\ panda.runs \notin {"flasher", "app", "reset"}
                  /\ Raise
                  /\ UNCHANGED <<panda, handle, bootstub, faults, clean>>

-----------------------------------------------------------------------------
(* flash() *)

\* A host finds the panda and calls flash, or recover.
Begin == /\ at = "idle"
         /\ panda.runs \in {"flasher", "app"}
         /\ bootstub' = (panda.runs = "flasher")
         /\ handle' = TRUE
         /\ \/ Go("compare", 0) /\ UNCHANGED recovers
            \/ /\ recovers < MaxRecovers
               /\ recovers' = recovers + 1
               /\ Go("to_flasher", 0)
         /\ clean' = TRUE
         /\ returned' = FALSE
         /\ UNCHANGED <<panda, faults, dfu_cut>>

\* up_to_date: the flasher has no signature to show.
UpToDate == panda.runs = "app" /\ Installed = "new"

Compare ==
    /\ at = "compare"
    /\ \/ Failed("compare") /\ Raise /\ UNCHANGED returned
       \/ Answered("compare") /\ UpToDate /\ Go("idle", 0) /\ returned' = TRUE
       \/ /\ Answered("compare") /\ ~UpToDate
          /\ Go(IF bootstub THEN "present" ELSE "enter", 0)
          /\ UNCHANGED returned
    /\ UNCHANGED <<bootstub, recovers, dfu_cut>>

Enter == /\ at = "enter"
         /\ ResetRequest("to_flasher", "reconnect")
         /\ UNCHANGED <<bootstub, recovers, returned, dfu_cut>>

\* reconnect, then assert(self.bootstub)
Reconnect == /\ at = "reconnect"
             /\ \/ Connect(IF panda.runs = "flasher" THEN "present" ELSE "idle")
                \/ ReconnectFails
             /\ UNCHANGED <<recovers, returned, dfu_cut>>

\* flasher_present: the application answers 0xb0 too, but with nothing.
Present == /\ at = "present"
           /\ Request("present", IF panda.runs = "flasher" THEN "unlock"
                                                           ELSE "idle", 0)
           /\ UNCHANGED <<bootstub, recovers, returned, dfu_cut>>

UnlockFlash == /\ at = "unlock"
               /\ Request("unlock", "erase", 1)
               /\ UNCHANGED <<bootstub, recovers, returned, dfu_cut>>

\* The first sectors that together are longer than the image.
LastSector == Size["new"] \div SectorWords + 1

Erase == /\ at = "erase"
         /\ IF pos < LastSector THEN Request("erase", "erase", pos + 1)
                                ELSE Request("erase", "write", 1)
         /\ UNCHANGED <<bootstub, recovers, returned, dfu_cut>>

Write == /\ at = "write"
         /\ IF pos < Size["new"] THEN Request("write", "write", pos + 1)
                                 ELSE Request("write", "restart", 0)
         /\ UNCHANGED <<bootstub, recovers, returned, dfu_cut>>

Restart == /\ at = "restart"
           /\ ResetRequest("restart", "return")
           /\ UNCHANGED <<bootstub, recovers, returned, dfu_cut>>

\* reconnect, and nothing is asked or compared.
Return == /\ at = "return"
          /\ \/ Connect("idle") /\ returned' = TRUE
             \/ ReconnectFails /\ UNCHANGED returned
          /\ UNCHANGED <<recovers, dfu_cut>>

-----------------------------------------------------------------------------
(* recover(), and recover.py for a panda that is in DFU mode already *)

ToFlasher == /\ at = "to_flasher"
             /\ ResetRequest("to_flasher", "again")
             /\ UNCHANGED <<bootstub, recovers, returned, dfu_cut>>

Again == /\ at = "again"
         /\ Connect("to_dfu") \/ ReconnectFails
         /\ UNCHANGED <<recovers, returned, dfu_cut>>

ToDfu == /\ at = "to_dfu"
         /\ ResetRequest("to_dfu", "wait_dfu")
         /\ UNCHANGED <<bootstub, recovers, returned, dfu_cut>>

WaitDfu == /\ \/ at = "wait_dfu" /\ panda.runs # "reset"
              \/ at = "idle" /\ panda.runs = "dfu"
           /\ IF panda.runs = "dfu" THEN Go("dfu_erase", 0) ELSE Raise
           /\ UNCHANGED <<panda, bootstub, handle, recovers, faults,
                          clean, returned, dfu_cut>>

\* A request to the ROM bootloader with this effect.
DfuRequest(effect, step, p) ==
    /\ \/ /\ panda.runs = "dfu" /\ panda' = effect
          /\ Go(step, p) /\ NoFault
       \/ /\ panda.runs = "dfu" /\ panda' \in {panda, effect}
          /\ Raise /\ Fault
       \/ /\ panda.runs # "dfu"
          /\ Raise /\ NoFault /\ UNCHANGED panda
    /\ UNCHANGED <<bootstub, handle, recovers, returned, dfu_cut>>

DfuErase ==
    /\ at = "dfu_erase"
    /\ LET erased == [w \in Word |-> IF w \in InSector(pos) THEN Erased
                                                            ELSE panda.flash[w]]
           effect == IF pos = 0 THEN [panda EXCEPT !.stub = "erased"]
                                ELSE [panda EXCEPT !.flash = erased]
       IN  IF pos < Sectors THEN DfuRequest(effect, "dfu_erase", pos + 1)
                            ELSE DfuRequest(effect, "dfu_program", 0)

\* A bug: the jump does not wait for the programming to end.
DfuProgram_early == /\ at = "dfu_program"
                    /\ DfuRequest(panda, "dfu_jump", 0)

DfuProgram == /\ at = "dfu_program"
              /\ DfuRequest([panda EXCEPT !.stub = "whole"], "dfu_jump", 0)

DfuJump == /\ at = "dfu_jump"
           /\ DfuRequest(SystemReset(panda, "other"), "connect", 0)

\* connect(True, True) waits, and flash follows.
Reflash == /\ at = "connect"
           /\ Connect("compare")
           /\ UNCHANGED <<recovers, returned, dfu_cut>>

HostStep == \/ Begin \/ Compare \/ Enter \/ Reconnect \/ Present \/ UnlockFlash
            \/ Erase \/ Write \/ Restart \/ Return
            \/ ToFlasher \/ Again \/ ToDfu \/ WaitDfu
            \/ DfuErase \/ DfuProgram \/ DfuJump \/ Reflash

-----------------------------------------------------------------------------
(* Power *)

\* The RAM word may survive a short cut.
PowerCut == /\ panda.runs # "off"
            /\ Fault
            /\ \E m \in {panda.mode, "other"} :
                   panda' = [SystemReset(panda, m) EXCEPT !.runs = "off"]
            /\ handle' = FALSE
            /\ dfu_cut' = (dfu_cut \/ panda.runs = "dfu")
            /\ UNCHANGED <<at, pos, bootstub, recovers, returned>>

PowerOn == /\ panda.runs = "off"
           /\ panda' = [panda EXCEPT !.runs = "reset"]
           /\ UNCHANGED <<at, pos, bootstub, handle, recovers, faults,
                          clean, returned, dfu_cut>>

-----------------------------------------------------------------------------

\* A panda that runs the old version, with nothing behind its image.
FlashInit == /\ transport \in Transports
        /\ panda = [runs |-> "off", mode |-> "other", stub |-> "whole",
                    flash |-> [w \in Word |-> IF w <= Size["old"]
                                              THEN [of |-> "old", nr |-> w]
                                              ELSE Erased],
                    unlocked |-> FALSE, prog_ptr |-> 0]
        /\ at = "idle" /\ pos = 0
        /\ bootstub = FALSE /\ handle = FALSE
        /\ recovers = 0 /\ faults = 0
        /\ clean = TRUE /\ returned = FALSE /\ dfu_cut = FALSE

FlashNext == (HostStep \/ Boot \/ PowerCut \/ PowerOn) /\ UNCHANGED transport

FlashSpec == FlashInit /\ [][FlashNext]_flashVars

\* A host that calls flash until there is nothing left to do, a panda that
\* boots when it has power.  Power is back some time.
FlashFairness == /\ WF_flashVars(HostStep /\ UNCHANGED transport)
            /\ WF_flashVars(Boot /\ UNCHANGED transport)
            /\ WF_flashVars(PowerOn /\ UNCHANGED transport)

FlashFairSpec == FlashSpec /\ FlashFairness

-----------------------------------------------------------------------------
(* What must hold *)

\* Whatever is cut off, an application that runs is one whole version, and it
\* is only replaced as a whole (bootstub.c, flasher.h, flash_static).
Running == IF panda.runs # "app" THEN "none"
           ELSE IF Installed = "none" THEN "broken" ELSE Installed

Firmware == INSTANCE Update WITH installed <- Installed, running <- Running

UpdateIsAtomic == Firmware!Spec

\* flash() can be cut off anywhere and leaves a panda that can be flashed
\* again: only one whose power was cut while the ROM bootloader replaced the
\* bootstub is lost (flash_erase_sector, program_bootstub).
OnlyDfuIsDangerous == panda.runs = "dead" => dfu_cut

\* A flash() that returned without any fault has installed the new version
\* (flash_static sends the image and does not look at it again).
FlashDelivers == returned /\ clean => Installed = "new"

\* Once the faults are over, a host that flashes again and again succeeds, in
\* whatever state they left flash memory, flasher and RAM.
FlashSucceeds == \/ <>(panda.runs = "dead")
                 \/ <>[](panda.runs = "app" /\ Installed = "new")
=============================================================================
