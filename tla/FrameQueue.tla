------------------------------ MODULE FrameQueue ------------------------------
(***************************************************************************)
(* What an open IN stream of the USBX audio class promises: the host       *)
(* receives the frames the application writes, each once and in the order  *)
(* of writing.  An empty packet is sent only when no frame waits, and      *)
(* closing the stream is the only way to lose a frame.                     *)
(***************************************************************************)
EXTENDS Naturals, Sequences

CONSTANTS Capacity,   \* frame buffers of the stream
          Frames,     \* what a frame may contain
          Nothing     \* the contents of an empty packet

VARIABLES queue,   \* frames written and not yet received, oldest first
          wire     \* the last packet the host received

queueVars == <<queue, wire>>

Init ==
  /\ queue = << >>
  /\ wire = Nothing

Open(f) ==
  /\ queue' = <<f>>
  /\ UNCHANGED wire

Close ==
  /\ queue' = << >>
  /\ UNCHANGED wire

Write(f) ==
  /\ Len(queue) < Capacity
  /\ queue' = Append(queue, f)
  /\ UNCHANGED wire

Send ==
  \/ /\ queue # << >>
     /\ wire' = Head(queue)
     /\ queue' = Tail(queue)
  \/ /\ queue = << >>
     /\ wire' = Nothing
     /\ UNCHANGED queue

Next == Close \/ Send \/ \E f \in Frames : Open(f) \/ Write(f)

Spec == Init /\ [][Next]_queueVars
=============================================================================
