----------------------------- MODULE MCChannels ----------------------------
(***************************************************************************)
(* The ways between host and panda, each on a small instance, one after    *)
(* the other: a behaviour is one of the part its first state names.        *)
(*   A stream of five packets; the bytes inside a packet would be read as  *)
(* headers of packets of other lengths.  Chunks of three CAN packets for a *)
(* queue of five, in one and in two USB packets.  SPI packets of a few     *)
(* cells: a write has more data than a header, a read has none and a       *)
(* response that takes more than one read.                                 *)
(***************************************************************************)
EXTENDS CanComms, UsbEndpoints, Spi, TLC

VARIABLE part

Lengths == <<2, 3, 5, 3, 1, 4, 2, 3, 1, 5, 2, 4, 4, 2, 1, 3>>
PacketLength == [i \in Position |-> Lengths[i + 1]]
PacketEnds == {0, 2, 7, 10, 12, 16}

HostChunks == {<<3>>, <<1, 2>>}

SpiData == ("read" :> 1) @@ ("write" :> 3)
SpiResponse == ("read" :> 5) @@ ("write" :> 2)

channelVars == <<part, vars, usbVars, spiVars>>

ChannelsInit == /\ Init /\ UsbInit /\ SpiInit
                /\ part \in {"can", "usb", "spi"}
                /\ part # "spi" => kind = "read"

Stream(A) == part = "can" /\ A /\ UNCHANGED <<part, usbVars, spiVars>>
Usb(A) == part = "usb" /\ A /\ UNCHANGED <<part, vars, spiVars>>
Wired(A) == part = "spi" /\ A /\ UNCHANGED <<part, vars, usbVars>>

ChannelsNext == Stream(Next) \/ Usb(UsbNext) \/ Wired(SpiNext)

\* With what UsbFairness and SpiFairness assume.
ChannelsSpec == /\ ChannelsInit /\ [][ChannelsNext]_channelVars
                /\ WF_channelVars(Usb(PacketArrives))
                /\ WF_channelVars(Usb(usb_irqhandler))
                /\ WF_channelVars(Usb(CanPop))
                /\ WF_channelVars(Wired(Transfer))
                /\ WF_channelVars(Wired(Panda))
=============================================================================
