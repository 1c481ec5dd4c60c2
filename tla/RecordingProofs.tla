---------------------------- MODULE RecordingProofs ----------------------------
(***************************************************************************)
(* Theorems about Recording, for every buffer of whole packets and every   *)
(* number of frame buffers.                                                *)
(***************************************************************************)
EXTENDS Recording, Multiples, Sequences, TLAPS

-----------------------------------------------------------------------------
(* Whole packets *)

Whole(x) == \E k \in Nat : x = k * PacketLength

LEMMA PacketFits == PacketLength \in 1 .. BufferSize
<1>1. PICK n \in 1 .. BufferSize : BufferSize = n * PacketLength
  BY TilingAssumption
<1>2. PICK m \in Nat : n = m + 1
  <2>1. n - 1 \in Nat /\ n = (n - 1) + 1
    BY SizesAssumption
  <2> QED
    BY <2>1
<1>3. BufferSize = m * PacketLength + PacketLength /\ m * PacketLength \in Nat
  BY <1>1, <1>2, SizesAssumption
<1> QED
  BY <1>3, SizesAssumption

LEMMA WholeRoom ==
  ASSUME NEW x \in 0 .. BufferSize - 1, Whole(x)
  PROVE  x + PacketLength <= BufferSize
<1>1. PICK n \in 1 .. BufferSize : BufferSize = n * PacketLength
  BY TilingAssumption
<1>2. PICK k \in Nat : x = k * PacketLength
  BY DEF Whole
<1>3. PacketLength \in Nat \ {0} /\ n \in Nat /\ k * PacketLength < n * PacketLength
  BY <1>1, <1>2, SizesAssumption
<1> QED
  BY <1>1, <1>2, <1>3, NextMultiple

LEMMA WholeZero == Whole(0)
<1>1. 0 = 0 * PacketLength
  BY SizesAssumption
<1> QED
  BY <1>1 DEF Whole

LEMMA WholeNext ==
  ASSUME NEW x \in 0 .. BufferSize - 1, Whole(x), x + PacketLength # BufferSize
  PROVE  x + PacketLength \in 0 .. BufferSize - 1 /\ Whole(x + PacketLength)
<1>1. PICK k \in Nat : x = k * PacketLength
  BY DEF Whole
<1>2. x + PacketLength = (k + 1) * PacketLength
  BY <1>1, SizesAssumption
<1>3. Whole(x + PacketLength)
  BY <1>2 DEF Whole
<1> QED
  BY <1>3, WholeRoom, SizesAssumption

-----------------------------------------------------------------------------
(* The frame buffers *)

LEMMA SlotsStay ==
  ASSUME NEW i \in Stream!Slots
  PROVE  Stream!NextSlot(i) \in Stream!Slots /\ Stream!NextSlot(i) # i
  BY SizesAssumption DEF Stream!NextSlot, Stream!Slots

LEMMA SilenceIsAPacket == Silence \in Packets /\ NoPacket \notin Packets
  BY DEF Packets, Silence, NoPacket

LEMMA StreamTypes ==
  ASSUME Stream!StreamTypeOK, pc' \in {"idle", "begin", "advance", "write"},
         \/ Stream!SetConfiguration
         \/ Stream!CloseStream
         \/ Stream!Disconnect
         \/ Stream!ArmTransfer
         \/ Stream!PacketSent
         \/ Stream!FinishTransfer
         \/ Stream!ReturnOnly
         \/ \E f \in Packets : Stream!OpenStream(f) \/ Stream!WriteAndReturn(f)
  PROVE  Stream!StreamTypeOK'
<1> USE DEF Stream!StreamTypeOK, Stream!connectionVars, Stream!transferVars,
        Stream!bufferVars
<1>1. CASE Stream!SetConfiguration
  BY <1>1 DEF Stream!SetConfiguration
<1>2. CASE Stream!CloseStream
  BY <1>2 DEF Stream!CloseStream
<1>3. CASE Stream!Disconnect
  BY <1>3 DEF Stream!Disconnect
<1>4. CASE Stream!ArmTransfer
  BY <1>4 DEF Stream!ArmTransfer
<1>5. CASE Stream!PacketSent
  BY <1>5 DEF Stream!PacketSent
<1>6. CASE Stream!FinishTransfer
  BY <1>6, SlotsStay DEF Stream!FinishTransfer, Stream!NextTransferPos
<1>7. CASE Stream!ReturnOnly
  BY <1>7 DEF Stream!ReturnOnly
<1>8. ASSUME NEW f \in Packets, Stream!OpenStream(f) PROVE Stream!StreamTypeOK'
  BY <1>8, SlotsStay DEF Stream!OpenStream
<1>9. ASSUME NEW f \in Packets, Stream!WriteAndReturn(f) PROVE Stream!StreamTypeOK'
  BY <1>9, SlotsStay DEF Stream!WriteAndReturn, Stream!WriteFrame
<1> QED
  BY <1>1, <1>2, <1>3, <1>4, <1>5, <1>6, <1>7, <1>8, <1>9

LEMMA StreamKept ==
  ASSUME Stream!StreamTypeOK, UNCHANGED usbVars
  PROVE  Stream!StreamTypeOK'
  BY DEF Stream!StreamTypeOK, usbVars

-----------------------------------------------------------------------------
(* Types.  wr_ptr is compared with the end of the buffer for equality      *)
(* only, so that it stays in the buffer follows from its whole packets.    *)

RingInv == Whole(rd) /\ Whole(wr)

LEMMA ReadMoves ==
  ASSUME rd \in 0 .. BufferSize - 1, Whole(rd)
  PROVE  /\ ~(NextRead > BufferSize)
         /\ Normalise(WrapRead(NextRead)) \in 0 .. BufferSize - 1
         /\ Whole(Normalise(WrapRead(NextRead)))
<1>1. NextRead <= BufferSize /\ WrapRead(NextRead) = NextRead
  BY WholeRoom, SizesAssumption DEF NextRead, WrapRead
<1>2. CASE NextRead = BufferSize
  BY <1>1, <1>2, WholeZero, PacketFits, SizesAssumption DEF Normalise
<1>3. CASE NextRead # BufferSize
  BY <1>1, <1>3, WholeNext, SizesAssumption DEF Normalise, NextRead
<1> QED
  BY <1>1, <1>2, <1>3, SizesAssumption DEF NextRead

LEMMA WriteMoves ==
  ASSUME wr \in 0 .. BufferSize - 1, Whole(wr)
  PROVE  NextWrite(wr) \in 0 .. BufferSize - 1 /\ Whole(NextWrite(wr))
<1>1. CASE wr + PacketLength = BufferSize
  BY <1>1, WholeZero, PacketFits, SizesAssumption DEF NextWrite
<1>2. CASE wr + PacketLength # BufferSize
  BY <1>2, WholeNext DEF NextWrite
<1> QED
  BY <1>1, <1>2

LEMMA RecordingInit == Init => TypeOK /\ RingInv
<1> SUFFICES ASSUME Init PROVE TypeOK /\ RingInv
  OBVIOUS
<1>1. Stream!StreamTypeOK
  <2>1. 0 \in Stream!Slots
    BY SizesAssumption DEF Stream!Slots
  <2> QED
    BY <2>1 DEF Init, Stream!Init, Stream!StreamTypeOK
<1>2. rd \in 0 .. BufferSize - 1 /\ wr \in 0 .. BufferSize - 1 /\ RingInv
  BY WholeZero, PacketFits, SizesAssumption DEF Init, RingInv
<1> QED
  BY <1>1, <1>2 DEF Init, TypeOK

LEMMA RecordingStep == TypeOK /\ RingInv /\ [Next]_vars => TypeOK' /\ RingInv'
<1> SUFFICES ASSUME TypeOK, RingInv, [Next]_vars PROVE TypeOK' /\ RingInv'
  OBVIOUS
<1> USE DEF TypeOK, RingInv, ringVars, Whole
<1>1. CASE ControlRequest
  BY <1>1, StreamTypes DEF ControlRequest
<1>2. CASE OpenStream
  BY <1>2, StreamTypes, SilenceIsAPacket DEF OpenStream
<1>3. CASE Disconnect
  BY <1>3, StreamTypes DEF Disconnect
<1>4. CASE PacketSent
  BY <1>4, StreamTypes DEF PacketSent
<1>5. CASE ArmTransfer
  BY <1>5, StreamTypes DEF ArmTransfer
<1>6. CASE FinishTransfer
  BY <1>6, StreamTypes DEF FinishTransfer
<1>7. CASE CheckBegin
  BY <1>7, StreamTypes, StreamKept, SilenceIsAPacket DEF CheckBegin
<1>8. CASE AdvanceRead
  BY <1>8, ReadMoves, StreamKept DEF AdvanceRead
<1>9. CASE WritePacket
  <2>1. FromRing(rd) \in Packets
    BY SizesAssumption DEF FromRing, Packets
  <2> QED
    BY <1>9, <2>1, StreamTypes DEF WritePacket
<1>10. CASE MicrophonePacket
  BY <1>10, WriteMoves, StreamKept DEF MicrophonePacket
<1>11. CASE UNCHANGED vars
  BY <1>11, StreamKept DEF vars
<1> QED
  BY <1>1, <1>2, <1>3, <1>4, <1>5, <1>6, <1>7, <1>8, <1>9, <1>10, <1>11
  DEF Next, Superloop, FrameDone

LEMMA RecordingInvariant == Spec => [](TypeOK /\ RingInv)
  BY RecordingInit, RecordingStep, PTL DEF Spec

(* Every variable of the recording path keeps to its type; in particular   *)
(* rd_ptr and wr_ptr stay inside the buffer.                               *)
THEOREM RecordingTyping == Spec => []TypeOK
  BY RecordingInvariant, PTL

(* No packet is stored or taken past the memory of the buffer.             *)
THEOREM CopiesStayInBounds == Spec => []CopiesInBounds
<1>1. TypeOK /\ RingInv => CopiesInBounds
  BY WholeRoom, SizesAssumption DEF TypeOK, RingInv, CopiesInBounds
<1> QED
  BY <1>1, RecordingInvariant, PTL

-----------------------------------------------------------------------------
(* The stream never starves.  While it is open exactly one frame waits     *)
(* between two callbacks, the one at transferPos, and none inside a        *)
(* callback, which therefore always finds room for the next one.           *)

OneFrame ==
  endpoint =>
    /\ configured
    /\ IF pc = "idle"
         THEN /\ accessPos = Stream!NextSlot(transferPos)
              /\ \A i \in Stream!Slots : frames[i] = NoPacket <=> i # transferPos
         ELSE /\ accessPos = transferPos
              /\ \A i \in Stream!Slots : frames[i] = NoPacket

LEMMA OneFrameStep == TypeOK /\ RingInv /\ OneFrame /\ [Next]_vars => OneFrame'
<1> SUFFICES ASSUME TypeOK, RingInv, OneFrame, [Next]_vars PROVE OneFrame'
  OBVIOUS
<1> USE DEF OneFrame
<1>1. CASE UNCHANGED usbVars /\ ((pc = "idle") <=> (pc' = "idle"))
  BY <1>1 DEF usbVars, Stream!NextSlot, Stream!Slots
<1>2. CASE ControlRequest
  BY <1>2 DEF ControlRequest, Stream!SetConfiguration, Stream!CloseStream,
              Stream!bufferVars, Stream!NextSlot, Stream!Slots
<1>3. CASE OpenStream
  <2>1. transferPos' = accessPos /\ accessPos' = Stream!NextSlot(accessPos)
    BY <1>3 DEF OpenStream, Stream!OpenStream
  <2>2. \A i \in Stream!Slots : frames'[i] = NoPacket <=> i # accessPos
    BY <1>3 DEF OpenStream, Stream!OpenStream, Silence, NoPacket
  <2>3. pc' = "idle" /\ configured'
    BY <1>3 DEF OpenStream, Stream!OpenStream
  <2> QED
    BY <2>1, <2>2, <2>3 DEF Stream!NextSlot, Stream!Slots
<1>4. CASE Disconnect
  BY <1>4 DEF Disconnect, Stream!Disconnect
<1>5. CASE PacketSent
  BY <1>5 DEF PacketSent, Stream!PacketSent, Stream!connectionVars,
              Stream!bufferVars, Stream!NextSlot, Stream!Slots
<1>6. CASE ArmTransfer
  BY <1>6 DEF ArmTransfer, Stream!ArmTransfer, Stream!connectionVars,
              Stream!bufferVars, Stream!NextSlot, Stream!Slots
<1>7. CASE FinishTransfer
  <2>1. pc = "idle" /\ pc' # "idle" /\ configured /\ endpoint
    BY <1>7 DEF FinishTransfer, Stream!FinishTransfer
  <2>2. transferPos \in Stream!Slots
    BY DEF TypeOK, Stream!StreamTypeOK
  <2>3. transferPos' = accessPos /\ accessPos' = accessPos /\ configured'
    BY <1>7, <2>1, <2>2
    DEF FinishTransfer, Stream!FinishTransfer, Stream!NextTransferPos,
        Stream!connectionVars
  <2>4. \A i \in Stream!Slots : frames'[i] = NoPacket
    BY <1>7, <2>1 DEF FinishTransfer, Stream!FinishTransfer, TypeOK, Stream!StreamTypeOK
  <2> QED
    BY <2>1, <2>3, <2>4 DEF Stream!Slots
<1>8. ASSUME NEW f \in Packets, pc # "idle", pc' = "idle", Stream!WriteAndReturn(f)
      PROVE OneFrame'
  <2>1. CASE ~endpoint
    BY <1>8, <2>1 DEF Stream!WriteAndReturn, Stream!connectionVars
  <2>2. CASE endpoint
    <3>1. accessPos \in Stream!Slots /\ frames \in [Stream!Slots -> Packets \cup {NoPacket}]
      BY DEF TypeOK, Stream!StreamTypeOK
    <3>2. Stream!HasRoom
      BY <1>8, <2>2, <3>1 DEF Stream!HasRoom
    <3>3. /\ frames' = [frames EXCEPT ![accessPos] = f]
          /\ accessPos' = Stream!NextSlot(accessPos)
          /\ transferPos' = transferPos
          /\ configured'
      BY <1>8, <2>2, <3>2
      DEF Stream!WriteAndReturn, Stream!WriteFrame, Stream!connectionVars
    <3>4. f # NoPacket
      BY <1>8, SilenceIsAPacket
    <3> QED
      BY <1>8, <2>2, <3>1, <3>3, <3>4 DEF Stream!NextSlot, Stream!Slots
  <2> QED
    BY <2>1, <2>2
<1>9. CASE CheckBegin
  <2>1. CASE begun /\ wr < BufferSize \div 2
    BY <1>8, <1>9, <2>1, SilenceIsAPacket DEF CheckBegin
  <2>2. CASE ~(begun /\ wr < BufferSize \div 2)
    BY <1>1, <1>9, <2>2 DEF CheckBegin
  <2> QED
    BY <2>1, <2>2
<1>10. CASE AdvanceRead
  BY <1>1, <1>10, ReadMoves DEF AdvanceRead, TypeOK, RingInv
<1>11. CASE WritePacket
  <2>1. FromRing(rd) \in Packets
    BY SizesAssumption DEF FromRing, Packets, TypeOK
  <2> QED
    BY <1>8, <1>11, <2>1 DEF WritePacket
<1>12. CASE MicrophonePacket
  BY <1>1, <1>12 DEF MicrophonePacket
<1>13. CASE UNCHANGED vars
  BY <1>1, <1>13 DEF vars
<1> QED
  BY <1>2, <1>3, <1>4, <1>5, <1>6, <1>7, <1>9, <1>10, <1>11, <1>12, <1>13
  DEF Next, Superloop, FrameDone

LEMMA OneFrameInvariant == Spec => [](TypeOK /\ RingInv /\ OneFrame)
<1>1. Init => OneFrame
  BY DEF Init, Stream!Init, OneFrame
<1> QED
  BY <1>1, RecordingInit, RecordingStep, OneFrameStep, PTL DEF Spec

(* An armed transfer always carries a frame.                               *)
THEOREM StreamNeverStarves == Spec => []NeverStarves
<1>1. TypeOK /\ OneFrame => NeverStarves
  BY DEF TypeOK, Stream!StreamTypeOK, OneFrame, NeverStarves
<1> QED
  BY <1>1, OneFrameInvariant, PTL

-----------------------------------------------------------------------------
(* The application uses the frame buffers as the class expects. *)

LEMMA StreamSimulation ==
  TypeOK /\ RingInv /\ [Next]_vars => [Stream!Next]_(Stream!streamVars)
<1> SUFFICES ASSUME TypeOK, RingInv, [Next]_vars
             PROVE  [Stream!Next]_(Stream!streamVars)
  OBVIOUS
<1> USE DEF Stream!Next
<1>1. CASE UNCHANGED usbVars /\ ((pc = "idle") <=> (pc' = "idle"))
  BY <1>1 DEF usbVars, Stream!streamVars, Stream!connectionVars,
              Stream!transferVars, Stream!bufferVars
<1>2. CASE ControlRequest \/ Disconnect \/ PacketSent \/ ArmTransfer \/ FinishTransfer
  BY <1>2 DEF ControlRequest, Disconnect, PacketSent, ArmTransfer, FinishTransfer
<1>3. CASE OpenStream
  BY <1>3, SilenceIsAPacket DEF OpenStream
<1>4. CASE CheckBegin
  BY <1>1, <1>4, SilenceIsAPacket DEF CheckBegin
<1>5. CASE AdvanceRead
  BY <1>1, <1>5 DEF AdvanceRead
<1>6. CASE WritePacket
  <2>1. FromRing(rd) \in Packets
    BY SizesAssumption DEF FromRing, Packets, TypeOK
  <2> QED
    BY <1>6, <2>1 DEF WritePacket
<1>7. CASE MicrophonePacket \/ UNCHANGED vars
  BY <1>1, <1>7 DEF MicrophonePacket, vars
<1> QED
  BY <1>2, <1>3, <1>4, <1>5, <1>6, <1>7 DEF Next, Superloop, FrameDone

(* The recording application writes frames from the callbacks only, and at *)
(* most one in each.                                                       *)
THEOREM RecordingUsesStream == Spec => UsesStream
<1>1. Init => Stream!Init
  BY DEF Init
<1> QED
  BY <1>1, RecordingInvariant, StreamSimulation, PTL DEF Spec, UsesStream, Stream!Spec

-----------------------------------------------------------------------------
(* The host hears every frame, once and in order.  What waits for the host *)
(* is at most one frame, and what is in flight is that frame.              *)

InFlight ==
  /\ ~endpoint => transfer = "idle"
  /\ transfer # "idle" =>
       /\ pc = "idle"
       /\ taskState = "WAIT"
       /\ inFlight = frames[transferPos]

LEMMA InFlightStep ==
  TypeOK /\ RingInv /\ OneFrame /\ InFlight /\ [Next]_vars => InFlight'
<1> SUFFICES ASSUME TypeOK, RingInv, OneFrame, InFlight, [Next]_vars PROVE InFlight'
  OBVIOUS
<1> USE DEF InFlight
<1>1. CASE UNCHANGED <<usbVars, pc>>
  BY <1>1 DEF usbVars
<1>2. CASE ControlRequest
  BY <1>2 DEF ControlRequest, OneFrame, Stream!SetConfiguration, Stream!CloseStream,
              Stream!bufferVars
<1>3. CASE OpenStream \/ Disconnect
  BY <1>3 DEF OpenStream, Disconnect, Stream!OpenStream, Stream!Disconnect
<1>4. CASE PacketSent
  BY <1>4 DEF PacketSent, Stream!PacketSent, Stream!connectionVars, Stream!bufferVars
<1>5. CASE ArmTransfer
  BY <1>5 DEF ArmTransfer, Stream!ArmTransfer, Stream!connectionVars, Stream!bufferVars
<1>6. CASE FinishTransfer
  BY <1>6 DEF FinishTransfer, Stream!FinishTransfer, Stream!connectionVars
<1>7. CASE pc # "idle" /\ UNCHANGED <<endpoint, transfer>>
  BY <1>7
<1>8. CASE CheckBegin \/ AdvanceRead \/ WritePacket
  BY <1>7, <1>8 DEF CheckBegin, AdvanceRead, WritePacket, usbVars,
      Stream!WriteAndReturn, Stream!ReturnOnly, Stream!connectionVars, Stream!transferVars
<1>9. CASE MicrophonePacket \/ UNCHANGED vars
  BY <1>1, <1>9 DEF MicrophonePacket, vars
<1> QED
  BY <1>2, <1>3, <1>4, <1>5, <1>6, <1>8, <1>9 DEF Next, Superloop, FrameDone

QueueInv == TypeOK /\ RingInv /\ OneFrame /\ InFlight

LEMMA QueueInvariant == Spec => []QueueInv
<1>1. Init => InFlight
  BY DEF Init, Stream!Init, InFlight
<1>2. QueueInv /\ [Next]_vars => InFlight'
  BY InFlightStep DEF QueueInv
<1> QED
  BY <1>1, <1>2, OneFrameInvariant, PTL DEF Spec, QueueInv

(* The abstract queue, in terms of the buffers. *)
OnlyFrame ==
  Stream!Waiting = IF endpoint /\ pc = "idle" /\ transfer # "done"
                     THEN <<frames[transferPos]>> ELSE << >>

LEMMA QueueHoldsOne == QueueInv => OnlyFrame
<1> SUFFICES ASSUME QueueInv PROVE OnlyFrame
  OBVIOUS
<1> USE DEF QueueInv, OnlyFrame
<1>1. CASE ~endpoint
  BY <1>1 DEF Stream!Waiting
<1>2. CASE endpoint /\ pc # "idle"
  <2>1. Stream!Held = 0
    BY <1>2 DEF OneFrame, TypeOK, Stream!StreamTypeOK, Stream!Held
  <2>2. Stream!Taken = 0
    BY <1>2 DEF InFlight, Stream!Taken
  <2> QED
    BY <1>2, <2>1, <2>2 DEF Stream!Waiting
<1>3. CASE endpoint /\ pc = "idle"
  <2>1. transferPos \in Stream!Slots /\ frames[transferPos] # NoPacket
    BY <1>3 DEF OneFrame, TypeOK, Stream!StreamTypeOK
  <2>2. accessPos = Stream!NextSlot(transferPos)
    BY <1>3 DEF OneFrame
  <2>3. Stream!Held = 1
    <3>1. CASE transferPos + 1 < FrameCount
      <4>1. accessPos = transferPos + 1
        BY <2>1, <2>2, <3>1, SizesAssumption DEF Stream!NextSlot, Stream!Slots
      <4>2. accessPos # transferPos /\ accessPos + FrameCount - transferPos = FrameCount + 1
        BY <2>1, <4>1, SizesAssumption DEF Stream!Slots
      <4>3. (FrameCount + 1) % FrameCount = 1
        BY SizesAssumption
      <4> QED
        BY <4>2, <4>3 DEF Stream!Held
    <3>2. CASE transferPos + 1 = FrameCount
      <4>1. accessPos = 0
        BY <2>1, <2>2, <3>2, SizesAssumption DEF Stream!NextSlot, Stream!Slots
      <4>2. accessPos # transferPos /\ accessPos + FrameCount - transferPos = 1
        BY <2>1, <3>2, <4>1, SizesAssumption DEF Stream!Slots
      <4>3. 1 % FrameCount = 1
        BY SizesAssumption
      <4> QED
        BY <4>2, <4>3 DEF Stream!Held
    <3> QED
      BY <2>1, <3>1, <3>2, SizesAssumption DEF Stream!Slots
  <2>4. CASE transfer = "done"
    <3>1. Stream!Taken = 1
      BY <2>1, <2>4 DEF InFlight, Stream!Taken
    <3> QED
      BY <1>3, <2>3, <2>4, <3>1 DEF Stream!Waiting
  <2>5. CASE transfer # "done"
    <3>1. Stream!Taken = 0
      BY <2>5 DEF Stream!Taken
    <3>2. (transferPos + 0 + 1 - 1) % FrameCount = transferPos
      BY <2>1, SizesAssumption DEF Stream!Slots
    <3>3. Stream!Waiting = [k \in 1 .. 1 |-> frames[(transferPos + 0 + k - 1) % FrameCount]]
      BY <1>3, <2>3, <3>1 DEF Stream!Waiting
    <3>4. Stream!Waiting = <<frames[transferPos]>>
      BY <3>2, <3>3
    <3> QED
      BY <1>3, <2>5, <3>4
  <2> QED
    BY <2>4, <2>5
<1> QED
  BY <1>1, <1>2, <1>3

LEMMA QueueHoldsOneNext == QueueInv' => OnlyFrame'
  BY QueueHoldsOne, PTL

LEMMA QueueSimulation ==
  QueueInv /\ QueueInv' /\ [Next]_vars => [Stream!Queue!Next]_(Stream!Queue!queueVars)
<1> SUFFICES ASSUME QueueInv, QueueInv', [Next]_vars
             PROVE  [Stream!Queue!Next]_(Stream!Queue!queueVars)
  OBVIOUS
<1>0. OnlyFrame /\ OnlyFrame'
  BY QueueHoldsOne, QueueHoldsOneNext
<1> USE <1>0 DEF OnlyFrame, Stream!Queue!Next, Stream!Queue!queueVars
<1>1. CASE UNCHANGED <<usbVars, pc>>
  BY <1>1 DEF usbVars
<1>2. CASE ~endpoint' /\ UNCHANGED wire
  BY <1>2 DEF Stream!Queue!Close
<1>3. CASE ControlRequest \/ Disconnect
  <2>1. UNCHANGED wire
    BY <1>3 DEF ControlRequest, Disconnect, Stream!SetConfiguration,
                Stream!CloseStream, Stream!Disconnect
  <2>2. ~endpoint'
    BY <1>3 DEF ControlRequest, Disconnect, Stream!SetConfiguration,
                Stream!CloseStream, Stream!Disconnect, QueueInv, OneFrame
  <2> QED
    BY <1>2, <2>1, <2>2
<1>4. CASE OpenStream
  <2>1. UNCHANGED wire /\ pc' = "idle" /\ endpoint' /\ transfer' = "idle"
    BY <1>4 DEF OpenStream, Stream!OpenStream
  <2>2. frames'[transferPos'] = Silence
    BY <1>4 DEF OpenStream, Stream!OpenStream, QueueInv, TypeOK, Stream!StreamTypeOK
  <2> QED
    BY <2>1, <2>2, SilenceIsAPacket DEF Stream!Queue!Open
<1>5. CASE PacketSent
  <2>1. /\ transfer = "armed" /\ transfer' = "done" /\ pc = "idle" /\ endpoint
        /\ wire' = frames[transferPos]
    BY <1>5 DEF PacketSent, Stream!PacketSent, QueueInv, InFlight
  <2> QED
    BY <2>1 DEF Stream!Queue!Send
<1>6. CASE ArmTransfer
  <2>1. /\ transfer # "done" /\ transfer' # "done"
        /\ UNCHANGED <<wire, pc, endpoint, frames, transferPos>>
    BY <1>6 DEF ArmTransfer, Stream!ArmTransfer, Stream!connectionVars,
                Stream!bufferVars, QueueInv, InFlight
  <2> QED
    BY <2>1
<1>7. CASE FinishTransfer
  <2>1. transfer = "done" /\ pc' # "idle" /\ UNCHANGED wire
    BY <1>7 DEF FinishTransfer, Stream!FinishTransfer
  <2> QED
    BY <2>1
<1>8. ASSUME NEW f \in Packets, pc # "idle", pc' = "idle", Stream!WriteAndReturn(f)
      PROVE  [Stream!Queue!Next]_(Stream!Queue!queueVars)
  <2>1. UNCHANGED <<wire, endpoint, transfer>> /\ transfer = "idle"
    BY <1>8 DEF Stream!WriteAndReturn, Stream!connectionVars, Stream!transferVars,
                QueueInv, InFlight
  <2>2. CASE ~endpoint
    BY <1>2, <2>1, <2>2
  <2>3. CASE endpoint
    <3>1. Stream!HasRoom
      BY <2>3 , <1>8 DEF Stream!HasRoom, QueueInv, OneFrame, TypeOK, Stream!StreamTypeOK
    <3>2. frames' = [frames EXCEPT ![accessPos] = f] /\ transferPos' = accessPos
      BY <1>8, <2>3, <3>1
      DEF Stream!WriteAndReturn, Stream!WriteFrame, QueueInv, OneFrame
    <3>3. frames'[transferPos'] = f
      BY <3>2 DEF QueueInv, TypeOK, Stream!StreamTypeOK
    <3>4. Stream!Waiting = << >> /\ Stream!Waiting' = <<f>>
      BY <1>8, <2>1, <2>3, <3>3
    <3>5. Len(Stream!Waiting) < FrameCount /\ Stream!Waiting' = Append(Stream!Waiting, f)
      BY ONLY <3>4, SizesAssumption
    <3>6. Stream!Queue!Write(f)
      BY <2>1, <3>5 DEF Stream!Queue!Write
    <3> QED
      BY <3>6
  <2> QED
    BY <2>2, <2>3
<1>9. CASE pc # "idle" /\ pc' # "idle" /\ UNCHANGED usbVars
  BY <1>9 DEF usbVars
<1>10. CASE CheckBegin
  <2>1. CASE begun /\ wr < BufferSize \div 2
    BY <1>8, <1>10, <2>1, SilenceIsAPacket DEF CheckBegin
  <2>2. CASE ~(begun /\ wr < BufferSize \div 2)
    BY <1>9, <1>10, <2>2 DEF CheckBegin
  <2> QED
    BY <2>1, <2>2
<1>11. CASE AdvanceRead
  BY <1>9, <1>11, ReadMoves DEF AdvanceRead, QueueInv, TypeOK, RingInv
<1>12. CASE WritePacket
  <2>1. FromRing(rd) \in Packets
    BY SizesAssumption DEF FromRing, Packets, QueueInv, TypeOK
  <2> QED
    BY <1>8, <1>12, <2>1 DEF WritePacket
<1>13. CASE MicrophonePacket \/ UNCHANGED vars
  BY <1>1, <1>13 DEF MicrophonePacket, vars
<1> QED
  BY <1>3, <1>4, <1>5, <1>6, <1>7, <1>10, <1>11, <1>12, <1>13
  DEF Next, Superloop, FrameDone

(* The recording path implements FrameQueue: for any number of frame       *)
(* buffers the host receives the frames in the order of writing.           *)
THEOREM HostHearsEverything == Spec => HostHearsInOrder
<1>1. Init => Stream!Queue!Init
  BY DEF Init, Stream!Init, Stream!Queue!Init, Stream!Waiting
<1> QED
  BY <1>1, QueueInvariant, QueueSimulation, PTL
  DEF Spec, HostHearsInOrder, Stream!Queue!Spec
=============================================================================
