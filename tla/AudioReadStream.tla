--------------------------- MODULE AudioReadStream ---------------------------
(***************************************************************************)
(* The OUT (playback) stream of the USBX device audio class, standalone    *)
(* mode.  The class owns a small array of frame buffers.  The background   *)
(* read task, run by the superloop, arms one isochronous transfer at a     *)
(* time; the USB interrupt completes it; the task then logs the frame at   *)
(* transferPos and calls the application's frame_done callback, which      *)
(* obtains the oldest frame at accessPos and re-frees it.                  *)
(*                                                                         *)
(* Control requests (SET_CONFIGURATION, SET_INTERFACE) are deferred by the *)
(* interrupt to the DCD task, so they run in the superloop and never in    *)
(* the middle of a callback.  A bus reset or a disconnection deactivates   *)
(* the class in the interrupt itself, at any point of the callback.        *)
(***************************************************************************)
EXTENDS Naturals

CONSTANTS FrameCount,     \* frame buffers of the stream (3 in the application)
          PacketLengths   \* lengths of the isochronous packets the host sends

ASSUME FrameCountAssumption == FrameCount \in Nat /\ FrameCount >= 2
ASSUME PacketLengthsAssumption == PacketLengths \subseteq Nat

VARIABLES
  configured,    \* the device state is UX_DEVICE_CONFIGURED
  endpoint,      \* the stream has its data endpoint (alternate setting 1)
  taskState,     \* state of the background read task
  transfer,      \* state of the endpoint's transfer request
  actualLength,  \* length of the packet the transfer brought
  frameLength,   \* length logged in each frame buffer, 0 when it is free
  transferPos,   \* frame buffer the next packet is logged in
  accessPos,     \* frame buffer the application reads
  inCallback     \* the superloop is inside the frame_done callback

connectionVars == <<configured, endpoint>>
transferVars   == <<taskState, transfer, actualLength>>
frameVars      == <<frameLength, transferPos, accessPos>>
streamVars     == <<connectionVars, transferVars, frameVars, inCallback>>

Slots == 0 .. FrameCount - 1

StreamTypeOK ==
  /\ configured \in BOOLEAN
  /\ endpoint \in BOOLEAN
  /\ taskState \in {"STOP", "START", "WAIT"}
  /\ transfer \in {"idle", "armed", "done"}
  /\ actualLength \in PacketLengths \cup {0}
  /\ frameLength \in [Slots -> PacketLengths \cup {0}]
  /\ transferPos \in Slots
  /\ accessPos \in Slots
  /\ inCallback \in BOOLEAN

-----------------------------------------------------------------------------
(* Seeded faults: forms that a slip in the class would give the definitions *)
(* below.                                                                   *)

NextWithoutWrap(lengths, i) == i + 1
AdvanceOverOccupied(lengths, i) == (i + 1) % FrameCount
AccessTestSwapped(a, t) == IF a # t THEN a ELSE (a + 1) % FrameCount
-----------------------------------------------------------------------------

NextSlot(i) == (i + 1) % FrameCount

(* The transfer position stays where it is while the next buffer is occupied. *)
NextTransferPos(lengths, i) ==
  IF lengths[NextSlot(i)] > 0 THEN i ELSE NextSlot(i)

(* Freeing the buffer under transfer does not move the access position. *)
NextAccessPos(a, t) == IF a = t THEN a ELSE NextSlot(a)

Init ==
  /\ configured = FALSE
  /\ endpoint = FALSE
  /\ taskState = "STOP"
  /\ transfer = "idle"
  /\ actualLength = 0
  /\ frameLength = [i \in Slots |-> 0]
  /\ transferPos = 0
  /\ accessPos = 0
  /\ inCallback = FALSE

-----------------------------------------------------------------------------
(* Connection *)

(* SET_CONFIGURATION: the class is activated, its read task stopped. *)
SetConfiguration ==
  /\ ~inCallback
  /\ ~configured
  /\ configured' = TRUE
  /\ taskState' = "STOP"
  /\ UNCHANGED <<endpoint, transfer, actualLength, frameVars, inCallback>>

(* SET_INTERFACE 1: the change command empties the frame buffers, and the *)
(* application's stream_change callback starts the reception.             *)
OpenStream ==
  /\ ~inCallback
  /\ configured
  /\ ~endpoint
  /\ endpoint' = TRUE
  /\ frameLength' = [i \in Slots |-> 0]
  /\ transferPos' = accessPos
  /\ taskState' = IF frameLength'[transferPos'] > 0 THEN "STOP" ELSE "START"
  /\ transfer' = "idle"
  /\ actualLength' = 0
  /\ UNCHANGED <<configured, accessPos, inCallback>>

(* SET_INTERFACE 0: the pending transfer is aborted with the endpoint. *)
CloseStream ==
  /\ ~inCallback
  /\ configured
  /\ endpoint
  /\ endpoint' = FALSE
  /\ transfer' = "idle"
  /\ UNCHANGED <<configured, taskState, actualLength, frameVars, inCallback>>

(* Bus reset or disconnection, in the USB interrupt. *)
Disconnect ==
  /\ configured
  /\ configured' = FALSE
  /\ endpoint' = FALSE
  /\ transfer' = "idle"
  /\ UNCHANGED <<taskState, actualLength, frameVars, inCallback>>

-----------------------------------------------------------------------------
(* Reception *)

ArmTransfer ==
  /\ ~inCallback
  /\ configured
  /\ endpoint
  /\ taskState = "START"
  /\ taskState' = "WAIT"
  /\ transfer' = "armed"
  /\ UNCHANGED <<connectionVars, actualLength, frameVars, inCallback>>

(* The USB interrupt completes the armed transfer. *)
PacketArrives(length) ==
  /\ transfer = "armed"
  /\ transfer' = "done"
  /\ actualLength' = length
  /\ UNCHANGED <<connectionVars, taskState, frameVars, inCallback>>

(* The read task logs the frame, moves on unless the next buffer is still *)
(* occupied, and calls frame_done.                                        *)
TakePacket ==
  /\ ~inCallback
  /\ configured
  /\ endpoint
  /\ taskState = "WAIT"
  /\ transfer = "done"
  /\ taskState' = "START"
  /\ transfer' = "idle"
  /\ actualLength' = 0
  /\ frameLength' = [frameLength EXCEPT ![transferPos] = actualLength]
  /\ transferPos' = NextTransferPos(frameLength, transferPos)
  /\ inCallback' = TRUE
  /\ UNCHANGED <<connectionVars, accessPos>>

-----------------------------------------------------------------------------
(* The application's calls from the callback *)

(* read_frame_get succeeds. *)
FrameReady == configured /\ endpoint /\ frameLength[accessPos] > 0

(* read_frame_free. *)
FreeFrame ==
  IF FrameReady
    THEN /\ frameLength' = [frameLength EXCEPT ![accessPos] = 0]
         /\ accessPos' = NextAccessPos(accessPos, transferPos)
         /\ UNCHANGED transferPos
    ELSE UNCHANGED frameVars

(* A callback frees at most one frame, as its last call. *)
FreeAndReturn ==
  /\ inCallback
  /\ FreeFrame
  /\ inCallback' = FALSE
  /\ UNCHANGED <<connectionVars, transferVars>>

ReturnOnly ==
  /\ inCallback
  /\ inCallback' = FALSE
  /\ UNCHANGED <<connectionVars, transferVars, frameVars>>

-----------------------------------------------------------------------------

Next ==
  \/ SetConfiguration
  \/ OpenStream
  \/ CloseStream
  \/ Disconnect
  \/ ArmTransfer
  \/ \E length \in PacketLengths : PacketArrives(length)
  \/ TakePacket
  \/ FreeAndReturn
  \/ ReturnOnly

Spec == Init /\ [][Next]_streamVars

-----------------------------------------------------------------------------
(* Properties *)

(* Number of buffers from the access position up to the transfer position. *)
Backlog == (transferPos + FrameCount - accessPos) % FrameCount

(* The frame buffers are a queue: every buffer from accessPos up to        *)
(* transferPos holds a frame and every buffer beyond transferPos is free,  *)
(* so the wrapping positions of read_task and read_frame_free never strand *)
(* a frame or hand over an empty buffer (the buffer at transferPos itself  *)
(* is occupied after an overflow only).                                    *)
FifoShape ==
  \A i \in Slots :
    LET ahead == (i + FrameCount - accessPos) % FrameCount
    IN  IF ahead < Backlog THEN frameLength[i] > 0
        ELSE i # transferPos => frameLength[i] = 0
=============================================================================
