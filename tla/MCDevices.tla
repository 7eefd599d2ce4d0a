----------------------------- MODULE MCDevices -----------------------------
(***************************************************************************)
(* The parts of the firmware that keep to themselves, each on a small      *)
(* instance, one after the other: a behaviour is one of the part its first *)
(* state names.                                                            *)
(*   A ring of five elements holds four packets: full, empty, wrapped and  *)
(* cleared rings are all met.  An old image of five words and a new one of *)
(* three, in sectors of two: the last word of the old one stays behind.    *)
(***************************************************************************)
EXTENDS CanQueue, Uart, Bootkick, Flash

VARIABLE part

SizeOf == [v \in Version |-> IF v = "old" THEN 5 ELSE 3]

deviceVars == <<part, vars, uartVars, bootVars, flashVars>>

DevicesInit == /\ Init /\ UartInit /\ BootInit /\ FlashInit
               /\ part \in {"can_queue", "uart", "bootkick", "flash"}
               /\ part # "flash" => transport = "usb"

DevicesNext ==
    /\ UNCHANGED part
    /\ \/ /\ part = "can_queue" /\ Next
          /\ UNCHANGED <<uartVars, bootVars, flashVars>>
       \/ /\ part = "uart" /\ UartNext
          /\ UNCHANGED <<vars, bootVars, flashVars>>
       \/ /\ part = "bootkick" /\ BootNext
          /\ UNCHANGED <<vars, uartVars, flashVars>>
       \/ /\ part = "flash" /\ FlashNext
          /\ UNCHANGED <<vars, uartVars, bootVars>>

\* What FlashFairSpec assumes of the host, of the panda and of its power.
Flashing(A) == /\ part = "flash" /\ A
               /\ UNCHANGED <<transport, part, vars, uartVars, bootVars>>

DevicesSpec == /\ DevicesInit /\ [][DevicesNext]_deviceVars
               /\ WF_deviceVars(Flashing(HostStep))
               /\ WF_deviceVars(Flashing(Boot))
               /\ WF_deviceVars(Flashing(PowerOn))

\* The property of Flash, where the flash is what runs.
UpdateSucceeds == part = "flash" => FlashSucceeds
=============================================================================
