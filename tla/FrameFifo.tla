------------------------------ MODULE FrameFifo ------------------------------
(***************************************************************************)
(* What the frame buffers of a USBX audio OUT stream promise to the        *)
(* application: received frames are handed over in the order they came,    *)
(* and a frame is lost in one way only.  When a reception fills the last   *)
(* buffer the class reports an overflow, and the frame just received stays *)
(* provisional: the next reception replaces it.                            *)
(***************************************************************************)
EXTENDS Integers, Sequences

CONSTANTS Capacity,   \* frame buffers of the stream
          Frames      \* what a frame may contain

VARIABLES queue,        \* received frames, oldest first
          provisional   \* the newest frame will be replaced by the next one

fifoVars == <<queue, provisional>>

FifoTypeOK ==
  /\ queue \in Seq(Frames)
  /\ Len(queue) <= Capacity
  /\ provisional \in BOOLEAN

Init ==
  /\ queue = << >>
  /\ provisional = FALSE

Opened ==
  /\ queue' = << >>
  /\ provisional' = FALSE

Receive(f) ==
  /\ queue' = Append(IF provisional THEN SubSeq(queue, 1, Len(queue) - 1) ELSE queue, f)
  /\ provisional' = (Len(queue') = Capacity)

Free ==
  /\ queue # << >>
  /\ queue' = Tail(queue)
  /\ provisional' = (provisional /\ queue' # << >>)

Next == Opened \/ Free \/ \E f \in Frames : Receive(f)

Spec == Init /\ [][Next]_fifoVars
=============================================================================
