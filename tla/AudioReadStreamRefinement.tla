---------------------- MODULE AudioReadStreamRefinement ----------------------
(***************************************************************************)
(* The frame buffers of the USBX audio OUT stream implement the queue that *)
(* FrameFifo describes, as long as the host sends no zero-length packet.   *)
(***************************************************************************)
EXTENDS AudioReadStream

(* The frames the buffers hold, oldest first, for the abstract queue. *)
HeldFrames ==
  [k \in 1 .. Backlog + (IF frameLength[transferPos] > 0 THEN 1 ELSE 0) |->
     frameLength[(accessPos + k - 1) % FrameCount]]

(* The buffers implement the queue that FrameFifo describes. *)
Fifo == INSTANCE FrameFifo WITH
  Capacity <- FrameCount, Frames <- PacketLengths,
  queue <- HeldFrames, provisional <- (frameLength[transferPos] > 0)

(* Frames are handed over in the order they were received, and only a      *)
(* frame whose reception reported an overflow is ever lost.                *)
DeliversInOrder == Fifo!Spec
==============================================================================
