--------------------------- MODULE AudioWriteStream ---------------------------
(***************************************************************************)
(* The IN (recording) stream of the USBX device audio class, standalone    *)
(* mode.  The application writes frames at accessPos; the background write *)
(* task, run by the superloop, copies the frame at transferPos to the      *)
(* endpoint and arms one isochronous transfer at a time; the USB interrupt *)
(* completes it when the host has taken the packet; the task then frees    *)
(* the frame and calls the application's frame_done callback.              *)
(*                                                                         *)
(* As in AudioReadStream control requests run in the superloop, between    *)
(* two callbacks, and a bus reset or a disconnection deactivates the class *)
(* in the interrupt, at any point of the callback.                         *)
(***************************************************************************)
EXTENDS Naturals

CONSTANTS FrameCount,   \* frame buffers of the stream (3 in the application)
          Payloads,     \* what a frame may contain
          Empty         \* the mark of a free buffer (length 0), an empty packet

VARIABLES
  configured,   \* the device state is UX_DEVICE_CONFIGURED
  endpoint,     \* the stream has its data endpoint (alternate setting 1)
  taskState,    \* state of the background write task
  transfer,     \* state of the endpoint's transfer request
  inFlight,     \* what was copied to the endpoint for that transfer
  frames,       \* contents of each frame buffer
  transferPos,  \* frame buffer the next packet is taken from
  accessPos,    \* frame buffer the application writes
  wire,         \* history: the last packet the host received
  inCallback    \* the superloop is inside the frame_done callback

connectionVars == <<configured, endpoint>>
transferVars   == <<taskState, transfer, inFlight>>
bufferVars     == <<frames, transferPos, accessPos>>
streamVars     == <<connectionVars, transferVars, bufferVars, wire, inCallback>>

Slots == 0 .. FrameCount - 1

StreamTypeOK ==
  /\ configured \in BOOLEAN
  /\ endpoint \in BOOLEAN
  /\ taskState \in {"STOP", "START", "WAIT"}
  /\ transfer \in {"idle", "armed", "done"}
  /\ inFlight \in Payloads \cup {Empty}
  /\ frames \in [Slots -> Payloads \cup {Empty}]
  /\ transferPos \in Slots
  /\ accessPos \in Slots
  /\ wire \in Payloads \cup {Empty}
  /\ inCallback \in BOOLEAN

NextSlot(i) == (i + 1) % FrameCount

AdvanceOnlyToFrame(buffers, i) ==   \* seeded fault: as after an empty packet
  IF buffers[NextSlot(i)] # Empty THEN NextSlot(i) ELSE i

(* After a frame the transfer position always moves on; after an empty     *)
(* packet it does so only to reach a frame.                                *)
NextTransferPos(buffers, i) ==
  IF buffers[i] # Empty \/ buffers[NextSlot(i)] # Empty THEN NextSlot(i) ELSE i

Init ==
  /\ configured = FALSE
  /\ endpoint = FALSE
  /\ taskState = "STOP"
  /\ transfer = "idle"
  /\ inFlight = Empty
  /\ frames = [i \in Slots |-> Empty]
  /\ transferPos = 0
  /\ accessPos = 0
  /\ wire = Empty
  /\ inCallback = FALSE

-----------------------------------------------------------------------------
(* Connection *)

(* SET_CONFIGURATION: the class is activated, its write task stopped. *)
SetConfiguration ==
  /\ ~inCallback
  /\ ~configured
  /\ configured' = TRUE
  /\ taskState' = "STOP"
  /\ UNCHANGED <<endpoint, transfer, inFlight, bufferVars, wire, inCallback>>

OpenKeepsTask(first) ==   \* seeded fault: the task state is not reset
  /\ ~inCallback
  /\ configured
  /\ ~endpoint
  /\ endpoint' = TRUE
  /\ frames' = [i \in Slots |-> IF i = accessPos THEN first ELSE Empty]
  /\ transferPos' = accessPos
  /\ accessPos' = NextSlot(accessPos)
  /\ taskState' = IF taskState = "STOP" THEN "START" ELSE taskState
  /\ transfer' = "idle"
  /\ UNCHANGED <<configured, inFlight, wire, inCallback>>

(* SET_INTERFACE 1: the change command empties the frame buffers and stops *)
(* the task; the application's stream_change callback writes a first frame *)
(* and starts the transmission.                                            *)
OpenStream(first) ==
  /\ ~inCallback
  /\ configured
  /\ ~endpoint
  /\ endpoint' = TRUE
  /\ frames' = [i \in Slots |-> IF i = accessPos THEN first ELSE Empty]
  /\ transferPos' = accessPos
  /\ accessPos' = NextSlot(accessPos)
  /\ taskState' = "START"
  /\ transfer' = "idle"
  /\ UNCHANGED <<configured, inFlight, wire, inCallback>>

(* SET_INTERFACE 0: the pending transfer is aborted with the endpoint. *)
CloseStream ==
  /\ ~inCallback
  /\ configured
  /\ endpoint
  /\ endpoint' = FALSE
  /\ transfer' = "idle"
  /\ UNCHANGED <<configured, taskState, inFlight, bufferVars, wire, inCallback>>

(* Bus reset or disconnection, in the USB interrupt. *)
Disconnect ==
  /\ configured
  /\ configured' = FALSE
  /\ endpoint' = FALSE
  /\ transfer' = "idle"
  /\ UNCHANGED <<taskState, inFlight, bufferVars, wire, inCallback>>

-----------------------------------------------------------------------------
(* Transmission *)

(* The transfer is started anyway, even with an empty packet. *)
ArmTransfer ==
  /\ ~inCallback
  /\ configured
  /\ endpoint
  /\ taskState = "START"
  /\ taskState' = "WAIT"
  /\ transfer' = "armed"
  /\ inFlight' = frames[transferPos]
  /\ UNCHANGED <<connectionVars, bufferVars, wire, inCallback>>

(* The host takes the packet.  A frame in which it does not ask for one    *)
(* only makes the driver transmit the same packet again.                   *)
PacketSent ==
  /\ transfer = "armed"
  /\ transfer' = "done"
  /\ wire' = inFlight
  /\ UNCHANGED <<connectionVars, taskState, inFlight, bufferVars, inCallback>>

(* The write task frees the frame, moves on and calls frame_done. *)
FinishTransfer ==
  /\ ~inCallback
  /\ configured
  /\ endpoint
  /\ taskState = "WAIT"
  /\ transfer = "done"
  /\ taskState' = "START"
  /\ transfer' = "idle"
  /\ frames' = [frames EXCEPT ![transferPos] = Empty]
  /\ transferPos' = NextTransferPos(frames, transferPos)
  /\ inCallback' = TRUE
  /\ UNCHANGED <<connectionVars, inFlight, accessPos, wire>>

-----------------------------------------------------------------------------
(* The application's calls from the callback *)

(* frame_write would succeed. *)
HasRoom ==
  configured /\ endpoint /\ (accessPos = transferPos => frames[accessPos] = Empty)

WriteFrame(f) ==
  IF HasRoom
    THEN /\ frames' = [frames EXCEPT ![accessPos] = f]
         /\ accessPos' = NextSlot(accessPos)
         /\ UNCHANGED transferPos
    ELSE UNCHANGED bufferVars

(* A callback writes at most one frame, as its last call. *)
WriteAndReturn(f) ==
  /\ inCallback
  /\ WriteFrame(f)
  /\ inCallback' = FALSE
  /\ UNCHANGED <<connectionVars, transferVars, wire>>

ReturnOnly ==
  /\ inCallback
  /\ inCallback' = FALSE
  /\ UNCHANGED <<connectionVars, transferVars, bufferVars, wire>>

-----------------------------------------------------------------------------

Next ==
  \/ SetConfiguration \/ CloseStream \/ Disconnect
  \/ ArmTransfer \/ PacketSent \/ FinishTransfer \/ ReturnOnly
  \/ \E f \in Payloads : OpenStream(f) \/ WriteAndReturn(f)

Spec == Init /\ [][Next]_streamVars

-----------------------------------------------------------------------------
(* Refinement.  While the stream is open the frames not yet received are   *)
(* those from transferPos up to accessPos; the one that the host has taken *)
(* is still there until the write task frees it.                           *)

Held ==
  IF accessPos # transferPos THEN (accessPos + FrameCount - transferPos) % FrameCount
  ELSE IF frames[transferPos] = Empty THEN 0 ELSE FrameCount

Taken == IF transfer = "done" /\ inFlight # Empty THEN 1 ELSE 0

Waiting ==
  IF endpoint
    THEN [k \in 1 .. Held - Taken |-> frames[(transferPos + Taken + k - 1) % FrameCount]]
    ELSE << >>

Queue == INSTANCE FrameQueue WITH
  Capacity <- FrameCount, Frames <- Payloads, Nothing <- Empty, queue <- Waiting
=============================================================================
