------------------------- MODULE AudioReadStreamProofs -------------------------
(***************************************************************************)
(* Theorems about AudioReadStream, for any number of frame buffers and any *)
(* packet lengths: the buffers are a queue, and implement FrameFifo, as    *)
(* long as no packet is empty.                                             *)
(***************************************************************************)
EXTENDS AudioReadStreamRefinement, Integers, Sequences, SequenceTheorems, TLAPS

-----------------------------------------------------------------------------
(* Types *)

LEMMA NextSlotIs ==
  ASSUME NEW i \in Slots
  PROVE  /\ NextSlot(i) \in Slots
         /\ NextSlot(i) = IF i + 1 = FrameCount THEN 0 ELSE i + 1
         /\ NextSlot(i) # i
  BY FrameCountAssumption DEF NextSlot, Slots

LEMMA StreamTypesStart == Init => StreamTypeOK
<1>1. 0 \in Slots
  BY FrameCountAssumption DEF Slots
<1> QED
  BY <1>1 DEF Init, StreamTypeOK

LEMMA StreamTypesKept == StreamTypeOK /\ [Next]_streamVars => StreamTypeOK'
<1> SUFFICES ASSUME StreamTypeOK, [Next]_streamVars PROVE StreamTypeOK'
  OBVIOUS
<1> USE DEF StreamTypeOK, connectionVars, transferVars, frameVars
<1>1. CASE SetConfiguration
  BY <1>1 DEF SetConfiguration
<1>2. CASE OpenStream
  BY <1>2 DEF OpenStream
<1>3. CASE CloseStream
  BY <1>3 DEF CloseStream
<1>4. CASE Disconnect
  BY <1>4 DEF Disconnect
<1>5. CASE ArmTransfer
  BY <1>5 DEF ArmTransfer
<1>6. ASSUME NEW length \in PacketLengths, PacketArrives(length) PROVE StreamTypeOK'
  BY <1>6 DEF PacketArrives
<1>7. CASE TakePacket
  BY <1>7, NextSlotIs DEF TakePacket, NextTransferPos
<1>8. CASE FreeAndReturn
  BY <1>8, NextSlotIs DEF FreeAndReturn, FreeFrame, NextAccessPos
<1>9. CASE ReturnOnly
  BY <1>9 DEF ReturnOnly
<1>10. CASE UNCHANGED streamVars
  BY <1>10 DEF streamVars
<1> QED
  BY <1>1, <1>2, <1>3, <1>4, <1>5, <1>6, <1>7, <1>8, <1>9, <1>10 DEF Next

(* Every variable of the stream keeps its type: the positions stay inside  *)
(* the array of frame buffers.                                             *)
THEOREM StreamTyping == Spec => []StreamTypeOK
  BY StreamTypesStart, StreamTypesKept, PTL DEF Spec

-----------------------------------------------------------------------------
(* Positions around the array *)

(* How far a buffer is ahead of the access position. *)
Ahead(i, access) == (i + FrameCount - access) % FrameCount

LEMMA AheadIs ==
  ASSUME NEW i \in Slots, NEW a \in Slots
  PROVE  /\ Ahead(i, a) = IF i >= a THEN i - a ELSE i + FrameCount - a
         /\ Ahead(i, a) \in Slots
<1>1. CASE i >= a
  <2>1. i + FrameCount - a = FrameCount + (i - a) /\ i - a \in 0 .. FrameCount - 1
    BY <1>1, FrameCountAssumption DEF Slots
  <2>2. (FrameCount + (i - a)) % FrameCount = i - a
    BY <2>1, FrameCountAssumption
  <2> QED
    BY <1>1, <2>1, <2>2 DEF Ahead, Slots
<1>2. CASE i < a
  BY <1>2, FrameCountAssumption DEF Ahead, Slots
<1> QED
  BY <1>1, <1>2 DEF Slots

(* The buffers as a queue, with the positions as parameters. *)
Shape(lengths, transfers, access) ==
  \A i \in Slots :
    IF Ahead(i, access) < Ahead(transfers, access) THEN lengths[i] > 0
    ELSE i # transfers => lengths[i] = 0

LEMMA ShapeIs == FifoShape <=> Shape(frameLength, transferPos, accessPos)
  BY DEF FifoShape, Shape, Ahead, Backlog

LEMMA ShapeNextIs == FifoShape' <=> Shape(frameLength', transferPos', accessPos')
  BY DEF FifoShape, Shape, Ahead, Backlog

(* The next buffer is occupied exactly when all others are. *)
LEMMA NextOccupied ==
  ASSUME NEW lengths \in [Slots -> Nat], NEW t \in Slots, NEW a \in Slots,
         Shape(lengths, t, a)
  PROVE  lengths[NextSlot(t)] > 0 <=> Ahead(t, a) = FrameCount - 1
<1>1. /\ NextSlot(t) \in Slots /\ NextSlot(t) # t
      /\ NextSlot(t) = IF t + 1 = FrameCount THEN 0 ELSE t + 1
  BY NextSlotIs
<1>2. /\ Ahead(t, a) = IF t >= a THEN t - a ELSE t + FrameCount - a
      /\ Ahead(NextSlot(t), a) = IF NextSlot(t) >= a THEN NextSlot(t) - a
                                 ELSE NextSlot(t) + FrameCount - a
  BY <1>1, AheadIs
<1>3. CASE Ahead(t, a) = FrameCount - 1
  <2>1. Ahead(NextSlot(t), a) < Ahead(t, a)
    BY <1>1, <1>2, <1>3, FrameCountAssumption DEF Slots
  <2> QED
    BY <1>1, <1>3, <2>1 DEF Shape
<1>4. CASE Ahead(t, a) # FrameCount - 1
  <2>1. ~(Ahead(NextSlot(t), a) < Ahead(t, a))
    BY <1>1, <1>2, <1>4, FrameCountAssumption DEF Slots
  <2>2. lengths[NextSlot(t)] = 0
    BY <1>1, <2>1 DEF Shape
  <2> QED
    BY <1>4, <2>2
<1> QED
  BY <1>3, <1>4

(* A frame is logged. *)
LEMMA LoggedShape ==
  ASSUME NEW lengths \in [Slots -> Nat], NEW t \in Slots, NEW a \in Slots,
         NEW f \in Nat \ {0}, Shape(lengths, t, a)
  PROVE  /\ Shape([lengths EXCEPT ![t] = f], NextTransferPos(lengths, t), a)
         /\ Ahead(NextTransferPos(lengths, t), a) =
              IF Ahead(t, a) = FrameCount - 1 THEN Ahead(t, a) ELSE Ahead(t, a) + 1
<1> DEFINE logged == [lengths EXCEPT ![t] = f]
<1>1. CASE lengths[NextSlot(t)] > 0
  <2>1. NextTransferPos(lengths, t) = t /\ Ahead(t, a) = FrameCount - 1
    BY <1>1, NextOccupied DEF NextTransferPos
  <2>2. ASSUME NEW i \in Slots
        PROVE  IF Ahead(i, a) < Ahead(t, a) THEN logged[i] > 0
               ELSE i # t => logged[i] = 0
    BY DEF Shape
  <2> QED
    BY <2>1, <2>2 DEF Shape
<1>2. CASE ~(lengths[NextSlot(t)] > 0)
  <2>1. NextTransferPos(lengths, t) = NextSlot(t) /\ Ahead(t, a) # FrameCount - 1
    BY <1>2, NextOccupied DEF NextTransferPos
  <2>2. NextSlot(t) \in Slots /\ NextSlot(t) = IF t + 1 = FrameCount THEN 0 ELSE t + 1
    BY NextSlotIs
  <2>3. Ahead(NextSlot(t), a) = Ahead(t, a) + 1
    <3>1. /\ Ahead(t, a) = IF t >= a THEN t - a ELSE t + FrameCount - a
          /\ Ahead(NextSlot(t), a) = IF NextSlot(t) >= a THEN NextSlot(t) - a
                                     ELSE NextSlot(t) + FrameCount - a
      BY <2>2, AheadIs
    <3> QED
      BY <2>1, <2>2, <3>1, FrameCountAssumption DEF Slots
  <2>4. ASSUME NEW i \in Slots
        PROVE  IF Ahead(i, a) < Ahead(NextSlot(t), a) THEN logged[i] > 0
               ELSE i # NextSlot(t) => logged[i] = 0
    <3>1. CASE i = t
      BY <2>3, <3>1, AheadIs DEF Slots
    <3>2. CASE i # t
      <4>1. Ahead(i, a) # Ahead(t, a)
        <5>1. /\ Ahead(t, a) = IF t >= a THEN t - a ELSE t + FrameCount - a
              /\ Ahead(i, a) = IF i >= a THEN i - a ELSE i + FrameCount - a
          BY AheadIs
        <5> QED
          BY <3>2, <5>1, FrameCountAssumption DEF Slots
      <4>2. Ahead(i, a) < Ahead(NextSlot(t), a) <=> Ahead(i, a) < Ahead(t, a)
        <5>1. Ahead(i, a) \in Int /\ Ahead(t, a) \in Int
          BY AheadIs DEF Slots
        <5> QED
          BY <2>3, <4>1, <5>1
      <4> QED
        BY <3>2, <4>2 DEF Shape
    <3> QED
      BY <3>1, <3>2
  <2> QED
    BY <2>1, <2>2, <2>3, <2>4 DEF Shape
<1> QED
  BY <1>1, <1>2

(* The oldest frame is freed. *)
LEMMA FreedShape ==
  ASSUME NEW lengths \in [Slots -> Nat], NEW t \in Slots, NEW a \in Slots,
         Shape(lengths, t, a)
  PROVE  /\ Shape([lengths EXCEPT ![a] = 0], t, NextAccessPos(a, t))
         /\ a # t => /\ Ahead(t, a) > 0
                     /\ Ahead(t, NextAccessPos(a, t)) = Ahead(t, a) - 1
<1> DEFINE freed == [lengths EXCEPT ![a] = 0]
<1>1. CASE a = t
  <2>1. NextAccessPos(a, t) = t /\ Ahead(t, a) = 0
    BY <1>1, AheadIs DEF NextAccessPos, Slots
  <2>2. ASSUME NEW i \in Slots PROVE ~(Ahead(i, a) < Ahead(t, a))
    BY <2>1, AheadIs DEF Slots
  <2> QED
    BY <1>1, <2>1, <2>2 DEF Shape
<1>2. CASE a # t
  <2>1. /\ NextAccessPos(a, t) = NextSlot(a) /\ NextSlot(a) \in Slots
        /\ NextSlot(a) = IF a + 1 = FrameCount THEN 0 ELSE a + 1
    BY <1>2, NextSlotIs DEF NextAccessPos
  <2>2. Ahead(t, a) > 0 /\ Ahead(t, NextSlot(a)) = Ahead(t, a) - 1
    <3>1. /\ Ahead(t, a) = IF t >= a THEN t - a ELSE t + FrameCount - a
          /\ Ahead(t, NextSlot(a)) = IF t >= NextSlot(a) THEN t - NextSlot(a)
                                     ELSE t + FrameCount - NextSlot(a)
      BY <2>1, AheadIs
    <3>2. CASE a + 1 = FrameCount
      <4>1. NextSlot(a) = 0
        BY <2>1, <3>2
      <4> QED
        BY <1>2, <3>1, <3>2, <4>1, FrameCountAssumption DEF Slots
    <3>3. CASE a + 1 # FrameCount
      <4>1. NextSlot(a) = a + 1
        BY <2>1, <3>3
      <4> QED
        BY <1>2, <3>1, <3>3, <4>1, FrameCountAssumption DEF Slots
    <3> QED
      BY <3>2, <3>3
  <2>3. ASSUME NEW i \in Slots
        PROVE  IF Ahead(i, NextSlot(a)) < Ahead(t, NextSlot(a)) THEN freed[i] > 0
               ELSE i # t => freed[i] = 0
    <3>0. /\ Ahead(i, a) = IF i >= a THEN i - a ELSE i + FrameCount - a
          /\ Ahead(i, NextSlot(a)) = IF i >= NextSlot(a) THEN i - NextSlot(a)
                                     ELSE i + FrameCount - NextSlot(a)
          /\ Ahead(t, a) \in 0 .. FrameCount - 1
      BY <2>1, AheadIs DEF Slots
    <3>1. CASE i = a
      <4>1. Ahead(i, NextSlot(a)) = FrameCount - 1
        BY <2>1, <3>0, <3>1, FrameCountAssumption DEF Slots
      <4>2. ~(Ahead(i, NextSlot(a)) < Ahead(t, NextSlot(a)))
        BY <2>2, <3>0, <4>1, FrameCountAssumption
      <4> QED
        BY <3>1, <4>2
    <3>2. CASE i # a
      <4>1. Ahead(i, NextSlot(a)) = Ahead(i, a) - 1
        <5>1. CASE a + 1 = FrameCount
          <6>1. NextSlot(a) = 0
            BY <2>1, <5>1
          <6> QED
            BY <3>0, <3>2, <5>1, <6>1, FrameCountAssumption DEF Slots
        <5>2. CASE a + 1 # FrameCount
          <6>1. NextSlot(a) = a + 1
            BY <2>1, <5>2
          <6> QED
            BY <3>0, <3>2, <5>2, <6>1, FrameCountAssumption DEF Slots
        <5> QED
          BY <5>1, <5>2
      <4>2. Ahead(i, NextSlot(a)) < Ahead(t, NextSlot(a)) <=> Ahead(i, a) < Ahead(t, a)
        <5>1. Ahead(i, a) \in Int
          BY AheadIs DEF Slots
        <5> QED
          BY <2>2, <3>0, <4>1, <5>1
      <4> QED
        BY <3>2, <4>2 DEF Shape
    <3> QED
      BY <3>1, <3>2
  <2> QED
    BY <2>1, <2>2, <2>3 DEF Shape
<1> QED
  BY <1>1, <1>2

-----------------------------------------------------------------------------
(* The shape of the queue *)

NoEmptyPacket == 0 \notin PacketLengths

(* A completed transfer has brought a packet. *)
Brought == transfer = "done" => actualLength > 0

QueueInv == StreamTypeOK /\ FifoShape /\ Brought

LEMMA LengthTypes ==
  ASSUME StreamTypeOK
  PROVE  /\ frameLength \in [Slots -> Nat] /\ actualLength \in Nat
         /\ transferPos \in Slots /\ accessPos \in Slots
<1>1. PacketLengths \cup {0} \subseteq Nat
  BY PacketLengthsAssumption
<1>2. \A i \in Slots : frameLength[i] \in Nat
  BY <1>1 DEF StreamTypeOK
<1>3. frameLength \in [Slots -> Nat]
  BY <1>2 DEF StreamTypeOK
<1> QED
  BY <1>1, <1>3 DEF StreamTypeOK

LEMMA QueueStart == Init => QueueInv
<1> SUFFICES ASSUME Init PROVE QueueInv
  OBVIOUS
<1>1. \A i \in Slots : ~(Ahead(i, 0) < Ahead(0, 0))
  BY AheadIs, FrameCountAssumption DEF Slots
<1>2. Shape(frameLength, transferPos, accessPos)
  BY <1>1 DEF Init, Shape
<1> QED
  BY <1>2, ShapeIs, StreamTypesStart DEF QueueInv, Brought, Init

LEMMA QueueKept ==
  ASSUME NoEmptyPacket, QueueInv, [Next]_streamVars
  PROVE  QueueInv'
<1> USE DEF connectionVars, transferVars, frameVars
<1>1. StreamTypeOK'
  BY StreamTypesKept DEF QueueInv
<1>2. /\ frameLength \in [Slots -> Nat] /\ actualLength \in Nat
      /\ transferPos \in Slots /\ accessPos \in Slots
      /\ Shape(frameLength, transferPos, accessPos)
  BY LengthTypes, ShapeIs DEF QueueInv
<1>3. CASE UNCHANGED frameVars /\ Brought'
  BY <1>1, <1>2, <1>3, ShapeNextIs DEF QueueInv
<1>4. CASE SetConfiguration \/ CloseStream \/ Disconnect \/ ArmTransfer \/ ReturnOnly
           \/ UNCHANGED streamVars
  BY <1>3, <1>4 DEF SetConfiguration, CloseStream, Disconnect, ArmTransfer, ReturnOnly,
                    streamVars, QueueInv, Brought
<1>5. ASSUME NEW length \in PacketLengths, PacketArrives(length) PROVE QueueInv'
  <2>1. length > 0
    BY PacketLengthsAssumption DEF NoEmptyPacket
  <2> QED
    BY <1>3, <1>5, <2>1 DEF PacketArrives, Brought
<1>6. CASE OpenStream
  <2>1. \A i \in Slots : ~(Ahead(i, accessPos) < Ahead(accessPos, accessPos))
    BY <1>2, AheadIs DEF Slots
  <2>2. Shape(frameLength', transferPos', accessPos')
    BY <1>6, <2>1 DEF OpenStream, Shape
  <2> QED
    BY <1>1, <1>6, <2>2, ShapeNextIs DEF QueueInv, Brought, OpenStream
<1>7. CASE TakePacket
  <2>1. actualLength \in Nat \ {0}
    BY <1>2, <1>7 DEF TakePacket, QueueInv, Brought
  <2>2. Shape(frameLength', transferPos', accessPos')
    BY <1>2, <1>7, <2>1, LoggedShape DEF TakePacket
  <2> QED
    BY <1>1, <1>7, <2>2, ShapeNextIs DEF QueueInv, Brought, TakePacket
<1>8. CASE FreeAndReturn
  <2>1. Brought'
    BY <1>8 DEF FreeAndReturn, QueueInv, Brought
  <2>2. CASE FrameReady
    <3>1. Shape(frameLength', transferPos', accessPos')
      BY <1>2, <1>8, <2>2, FreedShape DEF FreeAndReturn, FreeFrame
    <3> QED
      BY <1>1, <2>1, <3>1, ShapeNextIs DEF QueueInv
  <2>3. CASE ~FrameReady
    BY <1>3, <1>8, <2>1, <2>3 DEF FreeAndReturn, FreeFrame
  <2> QED
    BY <2>2, <2>3
<1> QED
  BY <1>4, <1>5, <1>6, <1>7, <1>8 DEF Next

(* The frame buffers are a queue for any number of them, if no packet is   *)
(* empty: an occupied next buffer means that all are occupied.             *)
THEOREM BuffersAreAQueue == NoEmptyPacket => (Spec => []FifoShape)
<1> SUFFICES ASSUME NoEmptyPacket PROVE Spec => []FifoShape
  OBVIOUS
<1>1. QueueInv /\ [Next]_streamVars => QueueInv'
  BY QueueKept
<1>2. QueueInv => FifoShape
  BY DEF QueueInv
<1> QED
  BY <1>1, <1>2, QueueStart, PTL DEF Spec

-----------------------------------------------------------------------------
(* The frames held, as a sequence *)

(* The buffer of the k-th frame held. *)
SlotAt(access, k) == (access + k - 1) % FrameCount

FramesHeld(lengths, transfers, access) ==
  Ahead(transfers, access) + (IF lengths[transfers] > 0 THEN 1 ELSE 0)

(* The frames held, with the positions as parameters. *)
Held(lengths, transfers, access) ==
  [k \in 1 .. FramesHeld(lengths, transfers, access) |-> lengths[SlotAt(access, k)]]

LEMMA HeldIs == HeldFrames = Held(frameLength, transferPos, accessPos)
  BY DEF HeldFrames, Held, FramesHeld, SlotAt, Ahead, Backlog

LEMMA HeldNextIs == HeldFrames' = Held(frameLength', transferPos', accessPos')
  BY DEF HeldFrames, Held, FramesHeld, SlotAt, Ahead, Backlog

LEMMA SlotAtIs ==
  ASSUME NEW a \in Slots, NEW k \in 1 .. FrameCount
  PROVE  /\ SlotAt(a, k) = IF a + k - 1 < FrameCount THEN a + k - 1
                           ELSE a + k - 1 - FrameCount
         /\ SlotAt(a, k) \in Slots
         /\ Ahead(SlotAt(a, k), a) = k - 1
<1>1. CASE a + k - 1 < FrameCount
  <2>1. SlotAt(a, k) = a + k - 1 /\ SlotAt(a, k) \in Slots
    BY <1>1, FrameCountAssumption DEF SlotAt, Slots
  <2>2. Ahead(SlotAt(a, k), a) = IF SlotAt(a, k) >= a THEN SlotAt(a, k) - a
                                 ELSE SlotAt(a, k) + FrameCount - a
    BY <2>1, AheadIs
  <2> QED
    BY <1>1, <2>1, <2>2 DEF Slots
<1>2. CASE a + k - 1 >= FrameCount
  <2>1. a + k - 1 = FrameCount + (a + k - 1 - FrameCount)
        /\ a + k - 1 - FrameCount \in 0 .. FrameCount - 1
    BY <1>2, FrameCountAssumption DEF Slots
  <2>2. SlotAt(a, k) = a + k - 1 - FrameCount
    BY <2>1, FrameCountAssumption DEF SlotAt
  <2>3. SlotAt(a, k) \in Slots
    BY <2>1, <2>2 DEF Slots
  <2>4. Ahead(SlotAt(a, k), a) = IF SlotAt(a, k) >= a THEN SlotAt(a, k) - a
                                 ELSE SlotAt(a, k) + FrameCount - a
    BY <2>3, AheadIs
  <2> QED
    BY <1>2, <2>2, <2>3, <2>4, FrameCountAssumption DEF Slots
<1> QED
  BY <1>1, <1>2, FrameCountAssumption DEF Slots

(* The buffer under transfer comes after all frames ahead of it. *)
LEMMA SlotAtAhead ==
  ASSUME NEW t \in Slots, NEW a \in Slots
  PROVE  SlotAt(a, Ahead(t, a) + 1) = t
<1>1. /\ Ahead(t, a) = IF t >= a THEN t - a ELSE t + FrameCount - a
      /\ Ahead(t, a) \in Slots
  BY AheadIs
<1>2. Ahead(t, a) + 1 \in 1 .. FrameCount
  BY <1>1, FrameCountAssumption DEF Slots
<1>3. SlotAt(a, Ahead(t, a) + 1) = IF a + (Ahead(t, a) + 1) - 1 < FrameCount
                                   THEN a + (Ahead(t, a) + 1) - 1
                                   ELSE a + (Ahead(t, a) + 1) - 1 - FrameCount
  BY <1>2, SlotAtIs
<1> QED
  BY <1>1, <1>3, FrameCountAssumption DEF Slots

LEMMA HeldIsSequence ==
  ASSUME NEW lengths \in [Slots -> Nat], NEW t \in Slots, NEW a \in Slots
  PROVE  /\ FramesHeld(lengths, t, a) \in 0 .. FrameCount
         /\ Held(lengths, t, a) \in Seq(Nat)
         /\ Len(Held(lengths, t, a)) = FramesHeld(lengths, t, a)
         /\ \A k \in 1 .. FramesHeld(lengths, t, a) :
              Held(lengths, t, a)[k] = lengths[SlotAt(a, k)]
<1> DEFINE n == FramesHeld(lengths, t, a)
<1>1. n \in 0 .. FrameCount
  <2>1. Ahead(t, a) \in 0 .. FrameCount - 1
    BY AheadIs DEF Slots
  <2> QED
    BY <2>1, FrameCountAssumption DEF FramesHeld
<1>2. ASSUME NEW k \in 1 .. n PROVE lengths[SlotAt(a, k)] \in Nat
  <2>1. k \in 1 .. FrameCount
    BY <1>1, FrameCountAssumption
  <2>2. SlotAt(a, k) \in Slots
    BY <2>1, SlotAtIs
  <2> QED
    BY <2>2
<1>3. Held(lengths, t, a) \in [1 .. n -> Nat]
  BY <1>2 DEF Held
<1> QED
  BY <1>1, <1>3 DEF Held

LEMMA NothingHeld ==
  ASSUME NEW lengths \in [Slots -> Nat], NEW t \in Slots, NEW a \in Slots,
         FramesHeld(lengths, t, a) = 0
  PROVE  Held(lengths, t, a) = << >>
  BY HeldIsSequence, EmptySeq

(* Logging appends a frame, in place of the newest one if the buffer under *)
(* transfer was occupied.                                                  *)
LEMMA LoggedIsReceived ==
  ASSUME NEW lengths \in [Slots -> Nat], NEW t \in Slots, NEW a \in Slots,
         NEW f \in Nat \ {0}, Shape(lengths, t, a)
  PROVE  LET logged == [lengths EXCEPT ![t] = f]
             u      == NextTransferPos(lengths, t)
             held   == Held(lengths, t, a)
             kept   == IF lengths[t] > 0 THEN SubSeq(held, 1, Len(held) - 1) ELSE held
         IN  /\ Held(logged, u, a) = Append(kept, f)
             /\ logged[u] > 0 <=> Len(Held(logged, u, a)) = FrameCount
<1> DEFINE before == Ahead(t, a)
           logged == [lengths EXCEPT ![t] = f]
           u      == NextTransferPos(lengths, t)
           held   == Held(lengths, t, a)
           kept   == IF lengths[t] > 0 THEN SubSeq(held, 1, Len(held) - 1) ELSE held
<1>1. before \in 0 .. FrameCount - 1
  BY AheadIs DEF Slots
<1>2. /\ logged \in [Slots -> Nat] /\ logged[t] = f
      /\ \A i \in Slots : i # t => logged[i] = lengths[i]
  OBVIOUS
<1>3. /\ held \in Seq(Nat)
      /\ Len(held) = before + (IF lengths[t] > 0 THEN 1 ELSE 0)
      /\ \A k \in 1 .. Len(held) : held[k] = lengths[SlotAt(a, k)]
  BY HeldIsSequence DEF FramesHeld
<1>4. /\ kept \in Seq(Nat) /\ Len(kept) = before
      /\ \A k \in 1 .. before : kept[k] = lengths[SlotAt(a, k)]
  <2>1. CASE lengths[t] > 0
    <3>1. Len(held) - 1 = before
      BY <1>1, <1>3, <2>1
    <3>2. \A k \in 1 .. before : held[k] \in Nat /\ held[k] = lengths[SlotAt(a, k)]
      BY <1>1, <1>3, <2>1, ElementOfSeq
    <3>3. /\ SubSeq(held, 1, before) \in Seq(Nat)
          /\ Len(SubSeq(held, 1, before)) = IF 1 <= before THEN before - 1 + 1 ELSE 0
          /\ \A k \in 1 .. before - 1 + 1 : SubSeq(held, 1, before)[k] = held[1 + k - 1]
      BY <1>1, <3>2, SubSeqProperties
    <3> QED
      BY <1>1, <2>1, <3>1, <3>2, <3>3
  <2>2. CASE ~(lengths[t] > 0)
    BY <1>1, <1>3, <2>2
  <2> QED
    BY <2>1, <2>2
<1>5. /\ u \in Slots
      /\ Ahead(u, a) + (IF logged[u] > 0 THEN 1 ELSE 0) = before + 1
      /\ logged[u] > 0 <=> before + 1 = FrameCount
  <2>1. CASE before = FrameCount - 1
    <3>1. u = t
      BY <2>1, NextOccupied DEF NextTransferPos
    <3> QED
      BY <1>1, <1>2, <2>1, <3>1, FrameCountAssumption
  <2>2. CASE before # FrameCount - 1
    <3>1. u = NextSlot(t) /\ ~(lengths[NextSlot(t)] > 0)
      BY <2>2, NextOccupied DEF NextTransferPos
    <3>2. NextSlot(t) \in Slots /\ NextSlot(t) # t
      BY NextSlotIs
    <3>3. Ahead(u, a) = before + 1
      BY <2>2, LoggedShape
    <3> QED
      BY <1>1, <1>2, <2>2, <3>1, <3>2, <3>3, FrameCountAssumption
  <2> QED
    BY <2>1, <2>2
<1>6. /\ Held(logged, u, a) \in Seq(Nat) /\ Len(Held(logged, u, a)) = before + 1
      /\ \A k \in 1 .. before + 1 : Held(logged, u, a)[k] = logged[SlotAt(a, k)]
  <2>1. FramesHeld(logged, u, a) = before + 1
    BY <1>5 DEF FramesHeld
  <2>2. /\ Held(logged, u, a) \in Seq(Nat)
        /\ Len(Held(logged, u, a)) = FramesHeld(logged, u, a)
        /\ \A k \in 1 .. FramesHeld(logged, u, a) :
             Held(logged, u, a)[k] = logged[SlotAt(a, k)]
    <3>1. logged \in [Slots -> Nat] /\ u \in Slots
      BY <1>2, <1>5
    <3> HIDE DEF before, logged, u
    <3> QED
      BY <3>1, HeldIsSequence
  <2> QED
    BY <2>1, <2>2
<1>7. /\ Append(kept, f) \in Seq(Nat) /\ Len(Append(kept, f)) = before + 1
      /\ \A k \in 1 .. before : Append(kept, f)[k] = kept[k]
      /\ Append(kept, f)[before + 1] = f
  BY <1>4, AppendProperties
<1>8. ASSUME NEW k \in 1 .. before + 1
      PROVE  Held(logged, u, a)[k] = Append(kept, f)[k]
  <2>1. CASE k = before + 1
    BY <1>2, <1>6, <1>7, <2>1, SlotAtAhead
  <2>2. CASE k # before + 1
    <3>1. k \in 1 .. before /\ k \in 1 .. FrameCount
      BY <1>1, <2>2, FrameCountAssumption
    <3>2. SlotAt(a, k) \in Slots /\ Ahead(SlotAt(a, k), a) = k - 1
      BY <3>1, SlotAtIs
    <3>3. SlotAt(a, k) # t
      BY <1>1, <3>1, <3>2
    <3> QED
      BY <1>2, <1>4, <1>6, <1>7, <3>1, <3>2, <3>3
  <2> QED
    BY <2>1, <2>2
<1>9. Held(logged, u, a) = Append(kept, f)
  <2> DEFINE left == Held(logged, u, a)
             right == Append(kept, f)
  <2>1. left \in Seq(Nat) /\ right \in Seq(Nat) /\ Len(left) = Len(right)
    BY <1>6, <1>7
  <2>2. \A k \in 1 .. Len(left) : left[k] = right[k]
    BY <1>6, <1>8
  <2> HIDE DEF left, right
  <2>3. left = right
    BY <2>1, <2>2, SeqEqual
  <2> QED
    BY <2>3 DEF left, right
<1> QED
  BY <1>5, <1>6, <1>9

(* Freeing takes the oldest frame away, and the buffer under transfer with *)
(* the last one.                                                           *)
LEMMA FreedIsTail ==
  ASSUME NEW lengths \in [Slots -> Nat], NEW t \in Slots, NEW a \in Slots,
         Shape(lengths, t, a), lengths[a] > 0
  PROVE  LET freed == [lengths EXCEPT ![a] = 0]
             b     == NextAccessPos(a, t)
             held  == Held(lengths, t, a)
         IN  /\ held # << >>
             /\ Held(freed, t, b) = Tail(held)
             /\ freed[t] > 0 <=> lengths[t] > 0 /\ Held(freed, t, b) # << >>
<1> DEFINE freed == [lengths EXCEPT ![a] = 0]
           b     == NextAccessPos(a, t)
           held  == Held(lengths, t, a)
<1>1. /\ freed \in [Slots -> Nat] /\ freed[a] = 0
      /\ \A i \in Slots : i # a => freed[i] = lengths[i]
  OBVIOUS
<1>2. /\ held \in Seq(Nat)
      /\ Len(held) = Ahead(t, a) + (IF lengths[t] > 0 THEN 1 ELSE 0)
      /\ \A k \in 1 .. Len(held) : held[k] = lengths[SlotAt(a, k)]
  <2>1. /\ held \in Seq(Nat)
        /\ Len(held) = FramesHeld(lengths, t, a)
        /\ \A k \in 1 .. FramesHeld(lengths, t, a) : held[k] = lengths[SlotAt(a, k)]
    BY HeldIsSequence
  <2> QED
    BY <2>1 DEF FramesHeld
<1>3. Ahead(t, a) \in 0 .. FrameCount - 1
  BY AheadIs DEF Slots
<1>4. /\ b \in Slots
      /\ FramesHeld(freed, t, b) = Len(held) - 1
      /\ Len(held) > 0
      /\ freed[t] > 0 <=> lengths[t] > 0 /\ Len(held) > 1
      /\ Len(held) > 1 => b = NextSlot(a)
  <2>1. CASE a = t
    <3>1. b = a /\ Ahead(t, a) = 0
      BY <2>1, AheadIs DEF NextAccessPos, Slots
    <3> QED
      BY <1>1, <1>2, <2>1, <3>1 DEF FramesHeld
  <2>2. CASE a # t
    <3>1. b = NextSlot(a) /\ b \in Slots
      BY <2>2, NextSlotIs DEF NextAccessPos
    <3>2. Ahead(t, a) > 0 /\ Ahead(t, b) = Ahead(t, a) - 1
      BY <2>2, FreedShape
    <3>3. freed[t] = lengths[t]
      BY <1>1, <2>2
    <3> QED
      BY <1>2, <1>3, <3>1, <3>2, <3>3 DEF FramesHeld
  <2> QED
    BY <2>1, <2>2
<1>5. /\ Held(freed, t, b) \in Seq(Nat) /\ Len(Held(freed, t, b)) = Len(held) - 1
      /\ \A k \in 1 .. Len(held) - 1 : Held(freed, t, b)[k] = freed[SlotAt(b, k)]
  <2>1. freed \in [Slots -> Nat] /\ b \in Slots
    BY <1>1, <1>4
  <2>2. /\ Held(freed, t, b) \in Seq(Nat)
        /\ Len(Held(freed, t, b)) = FramesHeld(freed, t, b)
        /\ \A k \in 1 .. FramesHeld(freed, t, b) :
             Held(freed, t, b)[k] = freed[SlotAt(b, k)]
    <3> HIDE DEF freed, b
    <3> QED
      BY <2>1, HeldIsSequence
  <2> QED
    BY <1>4, <2>2
<1>6. held # << >>
  BY <1>4
<1>7. /\ Tail(held) \in Seq(Nat) /\ Len(Tail(held)) = Len(held) - 1
      /\ \A k \in 1 .. Len(held) - 1 : Tail(held)[k] = held[k + 1]
  BY <1>2, <1>6, HeadTailProperties
<1>8. ASSUME NEW k \in 1 .. Len(held) - 1
      PROVE  Held(freed, t, b)[k] = Tail(held)[k]
  <2>1. /\ k \in 1 .. FrameCount /\ k + 1 \in 1 .. FrameCount
        /\ k + 1 \in 1 .. Len(held) /\ Len(held) > 1
    BY <1>2, <1>3, FrameCountAssumption
  <2>2. /\ SlotAt(a, k + 1) = IF a + (k + 1) - 1 < FrameCount THEN a + (k + 1) - 1
                              ELSE a + (k + 1) - 1 - FrameCount
        /\ SlotAt(a, k + 1) \in Slots
        /\ Ahead(SlotAt(a, k + 1), a) = (k + 1) - 1
    BY <2>1, SlotAtIs
  <2>3. SlotAt(b, k) = IF b + k - 1 < FrameCount THEN b + k - 1
                       ELSE b + k - 1 - FrameCount
    BY <1>4, <2>1, SlotAtIs
  <2>4. b = IF a + 1 = FrameCount THEN 0 ELSE a + 1
    BY <1>4, <2>1, NextSlotIs
  <2>5. SlotAt(b, k) = SlotAt(a, k + 1)
    BY <2>1, <2>2, <2>3, <2>4, FrameCountAssumption DEF Slots
  <2>6. Ahead(a, a) = 0
    BY AheadIs DEF Slots
  <2>7. SlotAt(a, k + 1) # a
    BY <2>1, <2>2, <2>6
  <2>8. Tail(held)[k] = lengths[SlotAt(a, k + 1)]
    BY <1>2, <1>7, <2>1
  <2>9. Held(freed, t, b)[k] = freed[SlotAt(a, k + 1)]
    BY <1>5, <2>5
  <2>10. freed[SlotAt(a, k + 1)] = lengths[SlotAt(a, k + 1)]
    BY <1>1, <2>2, <2>7
  <2> QED
    BY <2>8, <2>9, <2>10
<1>9. Held(freed, t, b) = Tail(held)
  BY <1>5, <1>7, <1>8, SeqEqual
<1>10. Held(freed, t, b) # << >> <=> Len(held) > 1
  BY <1>2, <1>5, EmptySeq
<1> QED
  BY <1>4, <1>6, <1>9, <1>10

-----------------------------------------------------------------------------
(* The refinement *)

LEMMA FifoStart ==
  ASSUME Init PROVE Fifo!Init
<1>1. 0 \in Slots
  BY FrameCountAssumption DEF Slots
<1>2. Ahead(0, 0) = 0
  BY <1>1, AheadIs DEF Slots
<1>3. /\ frameLength[transferPos] = 0 /\ transferPos = 0 /\ accessPos = 0
      /\ frameLength \in [Slots -> Nat]
  BY <1>1 DEF Init
<1>4. FramesHeld(frameLength, transferPos, accessPos) = 0
  BY <1>2, <1>3 DEF FramesHeld
<1>5. Held(frameLength, transferPos, accessPos) = << >>
  BY <1>1, <1>3, <1>4, NothingHeld
<1> QED
  BY <1>3, <1>5, HeldIs DEF Fifo!Init

LEMMA FifoStep ==
  ASSUME NoEmptyPacket, QueueInv, [Next]_streamVars
  PROVE  [Fifo!Next]_(Fifo!fifoVars)
<1> USE DEF connectionVars, transferVars, frameVars
<1>1. /\ frameLength \in [Slots -> Nat] /\ actualLength \in Nat
      /\ transferPos \in Slots /\ accessPos \in Slots
      /\ Shape(frameLength, transferPos, accessPos)
  BY LengthTypes, ShapeIs DEF QueueInv
<1>2. CASE UNCHANGED frameVars
  <2>1. HeldFrames' = HeldFrames
    BY <1>2, HeldIs, HeldNextIs
  <2> QED
    BY <1>2, <2>1 DEF Fifo!fifoVars
<1>3. CASE SetConfiguration \/ CloseStream \/ Disconnect \/ ArmTransfer \/ ReturnOnly
           \/ UNCHANGED streamVars
  BY <1>2, <1>3 DEF SetConfiguration, CloseStream, Disconnect, ArmTransfer, ReturnOnly,
                    streamVars
<1>4. ASSUME NEW length \in PacketLengths, PacketArrives(length)
      PROVE  [Fifo!Next]_(Fifo!fifoVars)
  BY <1>2, <1>4 DEF PacketArrives
<1>5. CASE OpenStream
  <2>1. /\ frameLength' = [i \in Slots |-> 0]
        /\ transferPos' = accessPos /\ accessPos' = accessPos
    BY <1>5 DEF OpenStream
  <2>2. frameLength' \in [Slots -> Nat] /\ frameLength'[transferPos'] = 0
    BY <1>1, <2>1
  <2>3. Ahead(accessPos, accessPos) = 0
    BY <1>1, AheadIs DEF Slots
  <2>4. FramesHeld(frameLength', transferPos', accessPos') = 0
    BY <2>1, <2>2, <2>3 DEF FramesHeld
  <2>5. Held(frameLength', transferPos', accessPos') = << >>
    BY <1>1, <2>1, <2>2, <2>4, NothingHeld
  <2>6. Fifo!Opened
    BY <2>2, <2>5, HeldNextIs DEF Fifo!Opened
  <2> QED
    BY <2>6 DEF Fifo!Next
<1>6. CASE TakePacket
  <2>1. actualLength \in Nat \ {0} /\ actualLength \in PacketLengths
    BY <1>1, <1>6 DEF TakePacket, QueueInv, Brought, StreamTypeOK
  <2>2. /\ frameLength' = [frameLength EXCEPT ![transferPos] = actualLength]
        /\ transferPos' = NextTransferPos(frameLength, transferPos)
        /\ accessPos' = accessPos
    BY <1>6 DEF TakePacket
  <2>3. /\ HeldFrames' = Append(IF frameLength[transferPos] > 0
                                  THEN SubSeq(HeldFrames, 1, Len(HeldFrames) - 1)
                                  ELSE HeldFrames, actualLength)
        /\ frameLength'[transferPos'] > 0 <=> Len(HeldFrames') = FrameCount
    <3>1. LET held == Held(frameLength, transferPos, accessPos)
          IN  /\ Held([frameLength EXCEPT ![transferPos] = actualLength],
                      NextTransferPos(frameLength, transferPos), accessPos) =
                   Append(IF frameLength[transferPos] > 0
                            THEN SubSeq(held, 1, Len(held) - 1) ELSE held, actualLength)
              /\ [frameLength EXCEPT ![transferPos] = actualLength]
                    [NextTransferPos(frameLength, transferPos)] > 0 <=>
                 Len(Held([frameLength EXCEPT ![transferPos] = actualLength],
                      NextTransferPos(frameLength, transferPos), accessPos)) = FrameCount
      BY <1>1, <2>1, LoggedIsReceived
    <3> QED
      BY <2>2, <3>1, HeldIs, HeldNextIs
  <2>4. Fifo!Receive(actualLength)
    BY <2>3 DEF Fifo!Receive
  <2> QED
    BY <2>1, <2>4 DEF Fifo!Next
<1>7. CASE FreeAndReturn
  <2>1. CASE FrameReady
    <3>1. /\ frameLength' = [frameLength EXCEPT ![accessPos] = 0]
          /\ accessPos' = NextAccessPos(accessPos, transferPos)
          /\ transferPos' = transferPos
          /\ frameLength[accessPos] > 0
      BY <1>7, <2>1 DEF FreeAndReturn, FreeFrame, FrameReady
    <3>2. /\ HeldFrames # << >>
          /\ HeldFrames' = Tail(HeldFrames)
          /\ frameLength'[transferPos'] > 0 <=>
               frameLength[transferPos] > 0 /\ HeldFrames' # << >>
      BY <1>1, <3>1, HeldIs, HeldNextIs, FreedIsTail
    <3>3. Fifo!Free
      BY <3>2 DEF Fifo!Free
    <3> QED
      BY <3>3 DEF Fifo!Next
  <2>2. CASE ~FrameReady
    BY <1>2, <1>7, <2>2 DEF FreeAndReturn, FreeFrame
  <2> QED
    BY <2>1, <2>2
<1> QED
  BY <1>3, <1>4, <1>5, <1>6, <1>7 DEF Next

(* The class's frame buffers implement the abstract queue of FrameFifo for *)
(* any number of buffers, if no packet is empty: frames come out in the    *)
(* order they were received, and only a provisional frame is ever lost.    *)
THEOREM StreamImplementsFifo == NoEmptyPacket => (Spec => DeliversInOrder)
<1> SUFFICES ASSUME NoEmptyPacket PROVE Spec => DeliversInOrder
  OBVIOUS
<1>1. QueueInv /\ [Next]_streamVars => QueueInv'
  BY QueueKept
<1>2. Init => Fifo!Init
  BY FifoStart
<1>3. QueueInv /\ [Next]_streamVars => [Fifo!Next]_(Fifo!fifoVars)
  BY FifoStep
<1> QED
  BY <1>1, <1>2, <1>3, QueueStart, PTL DEF Spec, DeliversInOrder, Fifo!Spec
=============================================================================
