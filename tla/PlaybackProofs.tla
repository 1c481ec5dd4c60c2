---------------------------- MODULE PlaybackProofs ----------------------------
(***************************************************************************)
(* Theorems about Playback, for every size of the ring and of the packets, *)
(* every number of frame buffers and every host that obeys HostAssumption. *)
(***************************************************************************)
EXTENDS Playback, Multiples, TLAPS

TypeInv == TypeOK /\ Stream!StreamTypeOK

LEMMA WordPositive == Word \in Nat /\ Word > 0
  BY DEF Word

LEMMA TypeInit == Init => TypeInv
<1> SUFFICES ASSUME Init PROVE TypeInv
  OBVIOUS
<1>1. Stream!StreamTypeOK
  <2>1. Stream!Init
    BY DEF Init
  <2>2. 0 \in Stream!Slots
    BY HostAssumption DEF Stream!Slots
  <2> QED
    BY <2>1, <2>2 DEF Stream!Init, Stream!StreamTypeOK
<1>2. Silence \in Regions
  BY SizesAssumption DEF Silence, Regions
<1>3. pc \in Points /\ count44 \in 0 .. NominalRun /\ ahead \in 0 .. MaxAhead
  BY KindAssumption, HostAssumption DEF Init, Points
<1>4. rd \in 0 .. BufferSize - 1 /\ wr \in 0 .. BufferSize /\ unread \in -1 .. BufferSize
  BY SizesAssumption DEF Init
<1>5. TypeOK
  <2>1. frame \in HostLengths \cup {0} /\ count \in 0 .. Word - 1 /\ free \in 0 .. Word - 1
    BY WordPositive DEF Init
  <2>2. wr \in 0 .. (IF pc = "wrap" THEN 2 * BufferSize ELSE BufferSize)
    BY <1>4 DEF Init
  <2>3. loadedFlags \in SUBSET {THRESHOLD, RESTART} /\ flags \in SUBSET {THRESHOLD, RESTART}
    BY DEF Init
  <2>4. data \in Regions /\ dma \in Regions /\ offset \in {0, 1}
    BY <1>2 DEF Init
  <2>5. /\ speaker \in {"INITIALIZED", "STARTED", "STOPPED"}
        /\ wrAhead \in BOOLEAN /\ stopCmd \in BOOLEAN /\ struck \in BOOLEAN
        /\ beenFull \in BOOLEAN
    BY DEF Init
  <2> QED
    BY <1>3, <1>4, <2>1, <2>2, <2>3, <2>4, <2>5 DEF TypeOK
<1> QED
  BY <1>1, <1>5 DEF TypeInv

-----------------------------------------------------------------------------
(* The frame buffers *)

LEMMA SlotsStay ==
  ASSUME NEW i \in Stream!Slots
  PROVE  Stream!NextSlot(i) \in Stream!Slots
  BY HostAssumption DEF Stream!NextSlot, Stream!Slots

(* A step of the class and of the USB interrupt keeps the stream well typed. *)
LEMMA StreamStep ==
  ASSUME Stream!StreamTypeOK, pc' \in Points,
         \/ Stream!SetConfiguration
         \/ Stream!OpenStream
         \/ Stream!CloseStream
         \/ Stream!Disconnect
         \/ Stream!ArmTransfer
         \/ \E length \in HostLengths : Stream!PacketArrives(length)
         \/ Stream!TakePacket
         \/ Stream!FreeAndReturn
  PROVE  Stream!StreamTypeOK'
<1> USE DEF Stream!StreamTypeOK, Stream!connectionVars, Stream!transferVars,
        Stream!frameVars
<1>1. CASE Stream!SetConfiguration
  BY <1>1 DEF Stream!SetConfiguration
<1>2. CASE Stream!OpenStream
  BY <1>2 DEF Stream!OpenStream
<1>3. CASE Stream!CloseStream
  BY <1>3 DEF Stream!CloseStream
<1>4. CASE Stream!Disconnect
  BY <1>4 DEF Stream!Disconnect
<1>5. CASE Stream!ArmTransfer
  BY <1>5 DEF Stream!ArmTransfer
<1>6. CASE \E length \in HostLengths : Stream!PacketArrives(length)
  BY <1>6 DEF Stream!PacketArrives
<1>7. CASE Stream!TakePacket
  BY <1>7, SlotsStay DEF Stream!TakePacket, Stream!NextTransferPos
<1>8. CASE Stream!FreeAndReturn
  BY <1>8, SlotsStay
  DEF Stream!FreeAndReturn, Stream!FreeFrame, Stream!NextAccessPos
<1> QED
  BY <1>1, <1>2, <1>3, <1>4, <1>5, <1>6, <1>7, <1>8

LEMMA StreamKept ==
  ASSUME Stream!StreamTypeOK, UNCHANGED usbVars
  PROVE  Stream!StreamTypeOK'
  BY DEF Stream!StreamTypeOK, usbVars

-----------------------------------------------------------------------------
(* Types, one step per action *)

LEMMA AdvanceInRing ==
  ASSUME NEW r \in 0 .. BufferSize - 1, NEW n \in 1 .. BufferSize
  PROVE  Advance(r, n) \in 0 .. BufferSize - 1
  BY SizesAssumption DEF Advance

LEMMA UnreadInRange ==
  ASSUME unread \in -1 .. BufferSize, NEW n \in 0 .. BufferSize
  PROVE  /\ Written(n) \in -1 .. BufferSize
         /\ Consumed(n) \in -1 .. BufferSize
  BY SizesAssumption DEF Written, Consumed

LEMMA U16InWord ==
  ASSUME NEW n \in Int PROVE U16(n) \in 0 .. Word - 1
  BY WordPositive DEF U16

LEMMA ReadLengths ==
  /\ ReadLength \in 1 .. BufferSize
  /\ DataSize \in Nat
  /\ Silence \in Regions
  BY SizesAssumption DEF ReadLength, DataSize, Silence, Regions

LEMMA UsbTypes ==
  ASSUME TypeInv,
         ControlRequest \/ Disconnect \/ PacketArrives \/ ArmTransfer \/ TakePacket
  PROVE  TypeInv'
<1> USE HostAssumption
    DEF TypeInv, TypeOK, audioVars, localVars, ringVars, speakerVars,
        outputVars, clockVars, Goto, Points
<1>1. CASE ControlRequest
  <2>1. TypeOK'
    BY <1>1 DEF ControlRequest
  <2> QED
    BY <1>1, <2>1, StreamStep DEF ControlRequest
<1>2. CASE Disconnect
  <2>1. TypeOK'
    BY <1>2 DEF Disconnect
  <2> QED
    BY <1>2, <2>1, StreamStep DEF Disconnect
<1>3. CASE PacketArrives
  <2>1. TypeOK'
    BY <1>3 DEF PacketArrives
  <2> QED
    BY <1>3, <2>1, StreamStep DEF PacketArrives
<1>4. CASE ArmTransfer
  <2>1. TypeOK'
    BY <1>4 DEF ArmTransfer
  <2> QED
    BY <1>4, <2>1, StreamStep DEF ArmTransfer
<1>5. CASE TakePacket
  <2>1. TypeOK'
    BY <1>5 DEF TakePacket
  <2> QED
    BY <1>5, <2>1, StreamStep DEF TakePacket
<1> QED
  BY <1>1, <1>2, <1>3, <1>4, <1>5

LEMMA ForgetTypes ==
  ASSUME ForgetLocals
  PROVE  /\ frame' \in HostLengths \cup {0}
         /\ count' \in 0 .. Word - 1
         /\ free' \in 0 .. Word - 1
         /\ wrAhead' \in BOOLEAN
         /\ loadedFlags' \in SUBSET {THRESHOLD, RESTART}
<1>1. frame' = 0 /\ count' = 0 /\ free' = 0 /\ wrAhead' = FALSE /\ loadedFlags' = {}
  BY DEF ForgetLocals
<1>2. 0 \in 0 .. Word - 1
  BY WordPositive
<1> QED
  BY <1>1, <1>2

LEMMA FrameDoneTypes ==
  ASSUME TypeInv, FrameDone
  PROVE  TypeInv'
<1> USE DEF TypeInv, TypeOK, audioVars, localVars, ringVars, speakerVars,
            outputVars, clockVars, Goto, Points
<1>1. CASE GetFrame
  <2>1. TypeOK'
    BY <1>1, HostAssumption DEF GetFrame, Stream!StreamTypeOK, Stream!FrameReady, usbVars
  <2> QED
    BY <1>1, <2>1, StreamKept DEF GetFrame
<1>2. CASE CheckRestart
  <2>1. TypeOK'
    BY <1>2 DEF CheckRestart
  <2> QED
    BY <1>2, <2>1, StreamKept DEF CheckRestart
<1>3. CASE CopyFrame
  <2>1. TypeOK'
    BY <1>3, HostAssumption, SizesAssumption, UnreadInRange DEF CopyFrame
  <2> QED
    BY <1>3, <2>1, StreamKept DEF CopyFrame
<1>4. CASE WrapWrite
  <2>1. TypeOK'
    BY <1>4, SizesAssumption DEF WrapWrite
  <2> QED
    BY <1>4, <2>1, StreamKept DEF WrapWrite
<1>5. CASE CopyMargin
  <2>1. TypeOK'
    BY <1>5 DEF CopyMargin
  <2> QED
    BY <1>5, <2>1, StreamKept DEF CopyMargin
<1>6. CASE ComparePointers
  <2>1. TypeOK'
    BY <1>6 DEF ComparePointers
  <2> QED
    BY <1>6, <2>1, StreamKept DEF ComparePointers
<1>7. CASE CountFilled
  <2>1. TypeOK'
    BY <1>7, SizesAssumption, U16InWord DEF CountFilled
  <2> QED
    BY <1>7, <2>1, StreamKept DEF CountFilled
<1>8. CASE NormaliseWrite
  <2>1. TypeOK'
    BY <1>8, SizesAssumption DEF NormaliseWrite
  <2> QED
    BY <1>8, <2>1, StreamKept DEF NormaliseWrite
<1>9. CASE CheckThreshold
  <2>1. TypeOK'
    BY <1>9 DEF CheckThreshold
  <2> QED
    BY <1>9, <2>1, StreamKept DEF CheckThreshold
<1>10. CASE StartSpeaker
  <2>1. TypeOK'
    BY <1>10 DEF StartSpeaker
  <2> QED
    BY <1>10, <2>1, StreamKept DEF StartSpeaker
<1>11. CASE LoadFlags
  <2>1. TypeOK'
    BY <1>11 DEF LoadFlags
  <2> QED
    BY <1>11, <2>1, StreamKept DEF LoadFlags
<1>12. CASE StoreFlags
  <2>1. TypeOK'
    BY <1>12 DEF StoreFlags
  <2> QED
    BY <1>12, <2>1, StreamKept DEF StoreFlags
<1>13. CASE ComputeFree
  <2>1. TypeOK'
    BY <1>13, SizesAssumption, U16InWord DEF ComputeFree
  <2> QED
    BY <1>13, <2>1, StreamKept DEF ComputeFree
<1>14. CASE CheckOverrun
  <2>1. TypeOK'
    BY <1>14 DEF CheckOverrun
  <2> QED
    BY <1>14, <2>1, StreamKept DEF CheckOverrun
<1>15. CASE SetRestart
  <2>1. TypeOK'
    BY <1>15 DEF SetRestart
  <2> QED
    BY <1>15, <2>1, StreamKept DEF SetRestart
<1>16. CASE RecheckRestart
  <2>1. TypeOK'
    BY <1>16 DEF RecheckRestart
  <2> QED
    BY <1>16, <2>1, StreamKept DEF RecheckRestart
<1>17. CASE ResetRead
  <2>1. TypeOK'
    BY <1>17, SizesAssumption DEF ResetRead
  <2> QED
    BY <1>17, <2>1, StreamKept DEF ResetRead
<1>18. CASE ResetWrite
  <2>1. TypeOK'
    BY <1>18, SizesAssumption DEF ResetWrite
  <2> QED
    BY <1>18, <2>1, StreamKept DEF ResetWrite
<1>19. CASE ResetFlags
  <2>1. TypeOK'
    BY <1>19 DEF ResetFlags
  <2> QED
    BY <1>19, <2>1, StreamKept DEF ResetFlags
<1>20. CASE DropFrame
  <2>1. TypeOK'
    BY <1>20, ForgetTypes DEF DropFrame
  <2> QED
    BY <1>20, <2>1, StreamKept DEF DropFrame
<1>21. CASE ReleaseFrame
  <2>1. TypeOK'
    BY <1>21, ForgetTypes DEF ReleaseFrame
  <2> QED
    BY <1>21, <2>1, StreamStep DEF ReleaseFrame
<1> QED
  BY <1>1, <1>2, <1>3, <1>4, <1>5, <1>6, <1>7, <1>8, <1>9, <1>10, <1>11, <1>12, <1>13, <1>14, <1>15, <1>16, <1>17, <1>18, <1>19, <1>20, <1>21
  DEF FrameDone

LEMMA DmaTypes ==
  ASSUME TypeInv, DmaComplete
  PROVE  TypeInv'
<1> USE DEF TypeInv, TypeOK
<1>1. Stream!StreamTypeOK'
  BY StreamKept DEF DmaComplete
<1>2. UNCHANGED <<pc, localVars, beenFull>> /\ ahead' = 0 /\ struck' \in BOOLEAN
  BY DEF DmaComplete
<1>3. count44 \in 0 .. NominalRun /\ NextTurn => count44' \in 0 .. NominalRun
  BY KindAssumption DEF NextTurn, LongTurn
<1>4. offset \in {0, 1} /\ NextTurn => offset' \in {0, 1}
  BY DEF NextTurn
<1>5. data \in Regions => AltHalf \in Regions
  BY ReadLengths DEF AltHalf, Regions
<1>6. TypeOK'
  <2> USE <1>2, HostAssumption DEF localVars, ringVars, speakerVars
  <2>1. CASE StopInjection
    <3>1. /\ data' \in Regions /\ dma' \in Regions /\ offset' \in {0, 1}
          /\ stopCmd' \in BOOLEAN /\ speaker' \in {"INITIALIZED", "STARTED", "STOPPED"}
      BY <2>1, ReadLengths DEF StopInjection
    <3> QED
      BY <2>1, <3>1 DEF StopInjection
  <2>2. CASE RepeatInjection
    BY <2>2 DEF RepeatInjection
  <2>3. CASE Underrun
    <3>1. data' \in Regions
      BY <1>5, <2>3, ReadLengths DEF Underrun, Regions
    <3> QED
      BY <1>3, <1>4, <2>3, <3>1 DEF Underrun, NextTurn
  <2>4. CASE Inject
    <3>1. data' \in Regions
      BY <1>5, <2>4, ReadLengths, SizesAssumption DEF Inject, NextData, Regions
    <3>2. rd' \in 0 .. BufferSize - 1 /\ unread' \in -1 .. BufferSize
      BY <2>4, AdvanceInRing, UnreadInRange, ReadLengths DEF Inject
    <3> QED
      BY <1>3, <1>4, <2>4, <3>1, <3>2 DEF Inject, NextTurn
  <2> QED
    BY <2>1, <2>2, <2>3, <2>4 DEF DmaComplete
<1> QED
  BY <1>1, <1>6

LEMMA TypeStep == TypeInv /\ [Next]_vars => TypeInv'
<1> SUFFICES ASSUME TypeInv, [Next]_vars PROVE TypeInv'
  OBVIOUS
<1>1. CASE UNCHANGED vars
  <2>1. Stream!StreamTypeOK'
    BY <1>1, StreamKept DEF TypeInv, vars
  <2>2. TypeOK'
    BY <1>1 DEF TypeInv, TypeOK, vars, localVars, ringVars, speakerVars,
                outputVars, clockVars
  <2> QED
    BY <2>1, <2>2 DEF TypeInv
<1>2. CASE Next
  BY <1>2, UsbTypes, FrameDoneTypes, DmaTypes DEF Next, Superloop
<1> QED
  BY <1>1, <1>2

(* Every variable keeps its type: in particular rd_ptr stays inside the    *)
(* ring and wr_ptr is past its end only between the copy and the wrap.     *)
THEOREM Typing == Spec => []TypeOK
<1>1. TypeInv => TypeOK
  BY DEF TypeInv
<1> QED
  BY TypeInit, TypeStep, <1>1, PTL DEF Spec

-----------------------------------------------------------------------------
(* While a restart is required the interrupt is kept away from the ring.    *)
(* RestartStopsReader is inductive: every step that requires a restart      *)
(* leaves a stop behind or is a step of a call of frame_done that still has *)
(* its reset to come.                                                       *)

LEMMA RestartStep == RestartStopsReader /\ [Next]_vars => RestartStopsReader'
<1> SUFFICES ASSUME RestartStopsReader, [Next]_vars PROVE RestartStopsReader'
  OBVIOUS
<1> USE DEF RestartStopsReader, AfterStart, audioVars, localVars, ringVars,
            speakerVars, outputVars, clockVars, Goto
<1>1. CASE UNCHANGED vars
  BY <1>1 DEF vars
<1>2. CASE ControlRequest \/ Disconnect \/ PacketArrives \/ ArmTransfer \/ TakePacket
  BY <1>2 DEF ControlRequest, Disconnect, PacketArrives, ArmTransfer, TakePacket
<1>3. CASE GetFrame \/ CheckRestart \/ CopyFrame \/ WrapWrite \/ CopyMargin
           \/ ComparePointers \/ CountFilled \/ NormaliseWrite \/ CheckThreshold
  BY <1>3 DEF GetFrame, CheckRestart, CopyFrame, WrapWrite, CopyMargin,
              ComparePointers, CountFilled, NormaliseWrite, CheckThreshold
<1>4. CASE StartSpeaker \/ LoadFlags \/ StoreFlags \/ ComputeFree
           \/ CheckOverrun \/ SetRestart \/ RecheckRestart
  BY <1>4 DEF StartSpeaker, LoadFlags, StoreFlags, ComputeFree, CheckOverrun,
              SetRestart, RecheckRestart
<1>5. CASE ResetRead \/ ResetWrite \/ ResetFlags \/ DropFrame \/ ReleaseFrame
  BY <1>5 DEF ResetRead, ResetWrite, ResetFlags, DropFrame, ReleaseFrame
<1>6. CASE DmaComplete
  BY <1>6 DEF DmaComplete, StopInjection, RepeatInjection, Underrun, Inject
<1> QED
  BY <1>1, <1>2, <1>3, <1>4, <1>5, <1>6 DEF Next, Superloop, FrameDone

(* The early branch of frame_done may reset rd_ptr, wr_ptr and flags one   *)
(* after the other without a lock: whenever it finds a restart required    *)
(* the interrupt has stopped reading the ring or will stop before it reads.*)
THEOREM RestartIsSafe == Spec => []RestartStopsReader
<1>1. Init => RestartStopsReader
  BY DEF Init, RestartStopsReader
<1> QED
  BY <1>1, RestartStep, PTL DEF Spec

-----------------------------------------------------------------------------
(* Whole packets: positions are multiples of the packet length. *)

Whole(x) == \E k \in Nat : x = k * PacketLength

LEMMA WholeRoom ==
  ASSUME ~Fractional, NEW x \in 0 .. BufferSize - 1, Whole(x)
  PROVE  x + PacketLength <= BufferSize
<1>1. PICK n \in 1 .. BufferSize : BufferSize = n * PacketLength
  BY TilingAssumption
<1>2. PICK k \in Nat : x = k * PacketLength
  BY DEF Whole
<1>3. PacketLength \in Nat \ {0} /\ n \in Nat /\ k * PacketLength < n * PacketLength
  BY <1>1, <1>2, SizesAssumption
<1> QED
  BY <1>1, <1>2, <1>3, NextMultiple

LEMMA WholeNext ==
  ASSUME NEW x \in Nat, Whole(x)
  PROVE  Whole(x + PacketLength)
<1>1. PICK k \in Nat : x = k * PacketLength
  BY DEF Whole
<1>2. x + PacketLength = (k + 1) * PacketLength
  BY <1>1, SizesAssumption
<1> QED
  BY <1>2 DEF Whole

LEMMA WholeZero == Whole(0)
<1>1. 0 = 0 * PacketLength
  BY SizesAssumption
<1> QED
  BY <1>1 DEF Whole

LEMMA WholeAdvance ==
  ASSUME ~Fractional, NEW r \in 0 .. BufferSize - 1, Whole(r)
  PROVE  Whole(Advance(r, PacketLength))
<1>1. r \in Nat /\ r + PacketLength <= BufferSize
  BY WholeRoom, SizesAssumption
<1>2. CASE r + PacketLength = BufferSize
  <2>1. Advance(r, PacketLength) = 0
    BY <1>2, SizesAssumption DEF Advance
  <2> QED
    BY <2>1, WholeZero
<1>3. CASE r + PacketLength < BufferSize
  <2>1. Advance(r, PacketLength) = r + PacketLength
    BY <1>3, SizesAssumption DEF Advance
  <2> QED
    BY <1>1, <2>1, WholeNext
<1> QED
  BY <1>1, <1>2, <1>3, SizesAssumption

-----------------------------------------------------------------------------
(* What the DMA sends from the ring ends inside the ring.  The size of the *)
(* next injection may be wrong only while a stop is pending, and then it   *)
(* is never sent; without fractional packets rd_ptr never leaves the whole *)
(* packets, and with them the straddling packet is sent from alt_buffer.   *)

EndsInRing(region) ==
  region.memory = "ring" => region.start + region.length <= BufferSize

InjectionInv ==
  /\ EndsInRing(dma)
  /\ stopCmd \/ EndsInRing(data)
  /\ Fractional \/ Whole(rd)

LEMMA NextDataFits ==
  ASSUME TypeOK, Fractional \/ Whole(rd)
  PROVE  EndsInRing(NextData)
<1>1. CASE Resolution24
  BY <1>1 DEF NextData, AltHalf, EndsInRing
<1>2. CASE ~Resolution24 /\ Fractional
  BY <1>2, SizesAssumption DEF NextData, DataSize, EndsInRing, TypeOK
<1>3. CASE ~Resolution24 /\ ~Fractional
  <2>1. rd + PacketLength <= BufferSize
    BY <1>3, WholeRoom DEF TypeOK
  <2>2. DataSize = PacketLength
    BY <1>3, SizesAssumption DEF DataSize, LongTurn
  <2> QED
    BY <1>3, <2>1, <2>2 DEF NextData, EndsInRing
<1> QED
  BY <1>1, <1>2, <1>3

LEMMA InjectionStep == TypeOK /\ InjectionInv /\ [Next]_vars => InjectionInv'
<1> SUFFICES ASSUME TypeOK, InjectionInv, [Next]_vars PROVE InjectionInv'
  OBVIOUS
<1> USE DEF InjectionInv, EndsInRing
<1>1. CASE UNCHANGED <<data, dma, rd>> /\ (stopCmd => stopCmd')
  BY <1>1 DEF Whole
<1>2. CASE ResetRead
  <2>1. UNCHANGED <<data, dma, stopCmd>> /\ rd' = 0
    BY <1>2 DEF ResetRead, speakerVars, outputVars
  <2>2. Whole(rd)'
    BY <2>1, WholeZero DEF Whole
  <2> QED
    BY <2>1, <2>2
<1>3. CASE StopInjection
  BY <1>3 DEF StopInjection, Silence, ringVars, Whole
<1>4. CASE RepeatInjection
  BY <1>4 DEF RepeatInjection, ringVars, speakerVars, Whole
<1>5. CASE Underrun
  BY <1>5 DEF Underrun, NextTurn, ringVars, Whole
<1>6. CASE Inject
  <2>1. EndsInRing(dma)' /\ EndsInRing(data)'
    BY <1>6, NextDataFits DEF Inject, NextTurn
  <2>2. CASE Fractional
    BY <2>1, <2>2
  <2>3. CASE ~Fractional
    <3>1. rd' = Advance(rd, PacketLength)
      BY <1>6, <2>3 DEF Inject, ReadLength, LongTurn
    <3>2. Whole(Advance(rd, PacketLength))
      BY <2>3, WholeAdvance DEF TypeOK
    <3> QED
      BY <2>1, <3>1, <3>2 DEF Whole
  <2> QED
    BY <2>2, <2>3
<1> USE DEF audioVars, ringVars, speakerVars, outputVars, Goto
<1>7. CASE UNCHANGED vars
  BY <1>1, <1>7 DEF vars
<1>8. CASE ControlRequest \/ Disconnect \/ PacketArrives \/ ArmTransfer \/ TakePacket
  BY <1>1, <1>8 DEF ControlRequest, Disconnect, PacketArrives, ArmTransfer, TakePacket
<1>9. CASE GetFrame \/ CheckRestart \/ CopyFrame \/ WrapWrite \/ CopyMargin
           \/ ComparePointers \/ CountFilled \/ NormaliseWrite \/ CheckThreshold
  BY <1>1, <1>9 DEF GetFrame, CheckRestart, CopyFrame, WrapWrite, CopyMargin,
              ComparePointers, CountFilled, NormaliseWrite, CheckThreshold
<1>10. CASE StartSpeaker \/ LoadFlags \/ StoreFlags \/ ComputeFree
           \/ CheckOverrun \/ SetRestart \/ RecheckRestart
  BY <1>1, <1>10 DEF StartSpeaker, LoadFlags, StoreFlags, ComputeFree, CheckOverrun,
              SetRestart, RecheckRestart
<1>11. CASE ResetWrite \/ ResetFlags \/ DropFrame \/ ReleaseFrame
  BY <1>1, <1>11 DEF ResetWrite, ResetFlags, DropFrame, ReleaseFrame
<1> QED
  BY <1>2, <1>3, <1>4, <1>5, <1>6, <1>7, <1>8, <1>9, <1>10, <1>11
  DEF Next, Superloop, FrameDone, DmaComplete

(* The DMA never reads past the regular part of the ring, for every ring   *)
(* and packet size, whatever the host sends and whenever it stops.         *)
THEOREM InjectionInBounds == Spec => []RingInjectionInBounds
<1>1. Init => InjectionInv
  BY WholeZero DEF Init, InjectionInv, EndsInRing, Silence
<1>2. InjectionInv => RingInjectionInBounds
  BY DEF InjectionInv, EndsInRing, RingInjectionInBounds
<1> QED
  BY <1>1, <1>2, InjectionStep, Typing, PTL DEF Spec

-----------------------------------------------------------------------------
(* The copy of a packet stays inside the memory of the ring, when the host *)
(* keeps to what the sizes were computed for: a margin of one packet       *)
(* behind the ring, or nothing but whole packets.                          *)

WholePackets == ~Fractional /\ HostLengths = {PacketLength}

PacketsHaveRoom ==
  \/ /\ HostLengths \subseteq 1 .. PacketLengthMax
     /\ BufferSize + PacketLengthMax <= BufferAllocated
  \/ WholePackets

(* Where wr_ptr may stand at the end of the ring or past it. *)
AfterCopy == {"wrap", "margin", "countCompare", "countRead", "normalise"}

WriteInv ==
  /\ pc \notin AfterCopy => wr < BufferSize
  /\ pc \in {"check", "copy"} => frame \in HostLengths
  /\ WholePackets => Whole(wr) /\ wr <= BufferSize

LEMMA CopyPosition ==
  ASSUME TypeInv, WriteInv, pc = "copy"
  PROVE  wr \in 0 .. BufferSize - 1 /\ frame \in HostLengths
<1>1. wr \in 0 .. BufferSize
  BY DEF TypeInv, TypeOK
<1>2. wr < BufferSize /\ frame \in HostLengths
  BY DEF WriteInv, AfterCopy
<1> QED
  BY <1>1, <1>2, SizesAssumption

LEMMA WriteStep == TypeInv /\ WriteInv /\ [Next]_vars => WriteInv'
<1> SUFFICES ASSUME TypeInv, WriteInv, [Next]_vars PROVE WriteInv'
  OBVIOUS
<1> USE DEF WriteInv, AfterCopy, Goto
<1>1. CASE /\ UNCHANGED <<wr, frame>>
           /\ pc' \in AfterCopy \/ pc \notin AfterCopy
           /\ pc' \in {"check", "copy"} => pc \in {"check", "copy"}
  BY <1>1 DEF Whole
<1>2. CASE GetFrame
  <2>1. Stream!FrameReady => frameLength[accessPos] \in HostLengths
    BY DEF TypeInv, Stream!StreamTypeOK, Stream!FrameReady
  <2> QED
    BY <1>2, <2>1 DEF GetFrame, ringVars, Whole
<1>3. CASE CopyFrame
  <2>1. ASSUME WholePackets
        PROVE  Whole(wr + frame) /\ wr + frame <= BufferSize
    <3>1. wr \in 0 .. BufferSize - 1 /\ frame \in HostLengths
      BY <1>3, CopyPosition DEF CopyFrame
    <3>2. frame = PacketLength /\ ~Fractional
      BY <2>1, <3>1 DEF WholePackets
    <3>3. Whole(wr)
      BY <2>1
    <3> QED
      BY <3>1, <3>2, <3>3, WholeNext, WholeRoom
  <2> QED
    BY <1>3, <2>1 DEF CopyFrame, Whole, localVars
<1>4. CASE WrapWrite
  BY <1>4, SizesAssumption DEF WrapWrite, TypeInv, TypeOK, Whole, localVars
<1>5. CASE NormaliseWrite
  <2>1. wr \in 0 .. BufferSize
    BY <1>5 DEF NormaliseWrite, TypeInv, TypeOK
  <2>2. wr' < BufferSize
    BY <1>5, <2>1, SizesAssumption DEF NormaliseWrite
  <2>3. WholePackets => Whole(wr)'
    BY <1>5, WholeZero DEF NormaliseWrite, Whole
  <2> QED
    BY <1>5, <2>2, <2>3, <2>1 DEF NormaliseWrite
<1>6. CASE ResetWrite
  <2>1. WholePackets => Whole(wr)'
    BY <1>6, WholeZero DEF ResetWrite, Whole
  <2> QED
    BY <1>6, <2>1, SizesAssumption DEF ResetWrite
<1> USE DEF audioVars, localVars, ringVars
<1>7. CASE UNCHANGED vars
  BY <1>1, <1>7 DEF vars
<1>8. CASE ControlRequest \/ Disconnect \/ PacketArrives \/ ArmTransfer \/ TakePacket
  BY <1>1, <1>8 DEF ControlRequest, Disconnect, PacketArrives, ArmTransfer, TakePacket
<1>9. CASE CheckRestart \/ CopyMargin \/ ComparePointers \/ CountFilled \/ CheckThreshold
  BY <1>1, <1>9 DEF CheckRestart, CopyMargin, ComparePointers, CountFilled, CheckThreshold
<1>10. CASE StartSpeaker \/ LoadFlags \/ StoreFlags \/ ComputeFree
           \/ CheckOverrun \/ SetRestart \/ RecheckRestart
  BY <1>1, <1>10 DEF StartSpeaker, LoadFlags, StoreFlags, ComputeFree, CheckOverrun,
              SetRestart, RecheckRestart
<1>11. CASE ResetRead \/ ResetFlags
  BY <1>1, <1>11 DEF ResetRead, ResetFlags
<1>12. CASE DropFrame \/ ReleaseFrame
  <2>1. UNCHANGED wr /\ pc' = "idle" /\ pc \notin AfterCopy
    BY <1>12 DEF DropFrame, ReleaseFrame
  <2> QED
    BY <2>1 DEF Whole
<1>13. CASE DmaComplete
  BY <1>1, <1>13 DEF DmaComplete, StopInjection, RepeatInjection, Underrun, Inject
<1> QED
  BY <1>2, <1>3, <1>4, <1>5, <1>6, <1>7, <1>8, <1>9, <1>10, <1>11, <1>12, <1>13
  DEF Next, Superloop, FrameDone

(* frame_done never writes past the memory of the ring, provided that the  *)
(* packets have room: the margin behind the ring takes the longest packet, *)
(* or the host sends whole packets only and the ring is made of them.      *)
THEOREM CopyInBounds == PacketsHaveRoom => (Spec => []WriteInBounds)
<1> SUFFICES ASSUME PacketsHaveRoom PROVE Spec => []WriteInBounds
  OBVIOUS
<1>1. Init => WriteInv
  BY WholeZero, SizesAssumption DEF Init, WriteInv, Whole
<1>2. TypeInv /\ WriteInv => WriteInBounds
  <2> SUFFICES ASSUME TypeInv, WriteInv, pc = "copy"
               PROVE  wr + frame <= BufferAllocated
    BY DEF WriteInBounds
  <2>1. wr \in 0 .. BufferSize - 1 /\ frame \in HostLengths
    BY CopyPosition
  <2>2. CASE WholePackets
    <3>1. wr + PacketLength <= BufferSize
      BY <2>1, <2>2, WholeRoom DEF WriteInv, WholePackets
    <3> QED
      BY <2>1, <2>2, <3>1, SizesAssumption DEF WholePackets
  <2>3. CASE ~WholePackets
    BY <2>1, <2>3, SizesAssumption DEF PacketsHaveRoom
  <2> QED
    BY <2>2, <2>3
<1> QED
  BY <1>1, <1>2, TypeInit, TypeStep, WriteStep, PTL DEF Spec

-----------------------------------------------------------------------------
(* The application drives the frame buffers as AudioReadStream expects:    *)
(* every step is a step of the stream, a callback that obtains and frees   *)
(* at most one frame, or none of its business.                             *)

LEMMA StreamSimulation == [Next]_vars => [Stream!Next]_(Stream!streamVars)
<1> SUFFICES ASSUME [Next]_vars PROVE [Stream!Next]_(Stream!streamVars)
  OBVIOUS
<1> USE DEF Stream!Next, Goto
<1>1. CASE UNCHANGED usbVars /\ ((pc = "idle") <=> (pc' = "idle"))
  BY <1>1 DEF usbVars, Stream!streamVars, Stream!connectionVars,
              Stream!transferVars, Stream!frameVars
<1>2. CASE ControlRequest \/ Disconnect \/ PacketArrives \/ ArmTransfer \/ TakePacket
  BY <1>2 DEF ControlRequest, Disconnect, PacketArrives, ArmTransfer, TakePacket
<1>3. CASE ReleaseFrame
  BY <1>3 DEF ReleaseFrame
<1>4. CASE DropFrame
  BY <1>4 DEF DropFrame, usbVars, Stream!ReturnOnly, Stream!connectionVars,
              Stream!transferVars, Stream!frameVars
<1>5. CASE UNCHANGED vars
  BY <1>1, <1>5 DEF vars
<1>6. CASE GetFrame \/ CheckRestart \/ CopyFrame \/ WrapWrite \/ CopyMargin
           \/ ComparePointers \/ CountFilled \/ NormaliseWrite \/ CheckThreshold
  BY <1>1, <1>6 DEF GetFrame, CheckRestart, CopyFrame, WrapWrite, CopyMargin,
              ComparePointers, CountFilled, NormaliseWrite, CheckThreshold
<1>7. CASE StartSpeaker \/ LoadFlags \/ StoreFlags \/ ComputeFree
           \/ CheckOverrun \/ SetRestart \/ RecheckRestart
  BY <1>1, <1>7 DEF StartSpeaker, LoadFlags, StoreFlags, ComputeFree, CheckOverrun,
              SetRestart, RecheckRestart
<1>8. CASE ResetRead \/ ResetWrite \/ ResetFlags
  BY <1>1, <1>8 DEF ResetRead, ResetWrite, ResetFlags
<1>9. CASE DmaComplete
  BY <1>1, <1>9 DEF DmaComplete
<1> QED
  BY <1>2, <1>3, <1>4, <1>5, <1>6, <1>7, <1>8, <1>9 DEF Next, Superloop, FrameDone

(* Playback implements the stream it uses, with inCallback read as "the    *)
(* superloop is inside frame_done".                                        *)
THEOREM PlaybackUsesStream == Spec => UsesStream
<1>1. Init => Stream!Init
  BY DEF Init
<1> QED
  BY <1>1, StreamSimulation, PTL DEF Spec, UsesStream, Stream!Spec

-----------------------------------------------------------------------------
(* Playing without a lock.  From here on the host is a regular one: it     *)
(* keeps to the packets the endpoint was sized for.  Its clock is its own: *)
(* it may send several packets between two completions of the DMA, as long *)
(* as they do not make up the threshold by themselves.  What remains is    *)
(* what frame_done and the interrupt may do to each other, until the ring  *)
(* is full for the first time.                                             *)

RegularHost ==
  /\ ~Fractional
  /\ HostLengths \subseteq 1 .. PacketLength
  /\ MaxAhead * PacketLength < InputThreshold
  /\ BufferSize < Word

(* The interrupt may take a packet from the ring. *)
Reading == speaker = "STARTED" /\ ~stopCmd

(* What the host sends between two completions at most, and what it may    *)
(* still send before the next one.                                         *)
Burst  == MaxAhead * PacketLength
Coming == (MaxAhead - ahead) * PacketLength

(* What the ring holds and what it may be given before the next completion:*)
(* the packet that the endpoint has received, the one that frame_done is   *)
(* about to copy, and the ones that are still to come.                     *)
Promised ==
  unread
  + (IF transfer = "done" THEN PacketLength ELSE 0)
  + (IF pc \in {"get", "check", "copy"} THEN PacketLength ELSE 0)
  + Coming

Resetting == {"dropRd", "dropWr", "dropFlags", "resetRd", "resetWr", "resetFlags"}

(* From the copy of a packet to the check of the threshold. *)
Measuring == {"wrap", "margin", "countCompare", "countRead", "normalise", "threshold"}

(* No transfer is armed or complete inside a call of frame_done. *)
CalledAtRest == pc # "idle" => transfer = "idle"

(* The distance of the pointers is what is unread, up to a lap; a lap more *)
(* only after the interrupt has read up to a wr_ptr that stands at the end *)
(* of the ring or past it, and then it does not strike again in this call. *)
Distance ==
  \/ wr - rd = unread
  \/ wr - rd = unread - BufferSize
  \/ pc \in AfterCopy /\ struck /\ Reading /\ wr - rd = unread + BufferSize

RingInv ==
  /\ unread \in 0 .. BufferSize - 1
  /\ pc \notin {"dropWr", "dropFlags", "resetWr", "resetFlags"} => Distance
  /\ pc \in {"dropWr", "dropFlags", "resetWr", "resetFlags"} => rd = 0 /\ unread = 0
  /\ pc \in {"dropFlags", "resetFlags"} => wr = 0

(* What was measured is true, unless the interrupt has read since. *)
CountInv ==
  ~Reading \/ ~struck =>
    /\ pc = "countRead" => wrAhead = (wr >= rd)
    /\ pc \in {"normalise", "threshold"} => count = unread

FlagsInv ==
  /\ flags \in {{}, {THRESHOLD}, {RESTART}}
  /\ RESTART \in flags => ~Reading
  /\ Reading => THRESHOLD \in flags \/ pc \in {"loadFlags", "storeFlags"}
  /\ THRESHOLD \in flags => Reading \/ pc = "setRestart"
  /\ pc \in Resetting => RESTART \in flags
  /\ pc = "setRestart" => ~Reading

(* The speaker is started with a filled ring and no stop in sight, so no   *)
(* underrun comes between the two halves of the read-modify-write of flags.*)
StartInv ==
  /\ pc = "start" =>
       ~stopCmd /\ speaker # "STARTED" /\ flags = {} /\ unread >= InputThreshold
  /\ pc \in {"loadFlags", "storeFlags"} =>
       Reading /\ flags = {} /\ (~struck => unread >= InputThreshold)
  /\ pc = "storeFlags" => loadedFlags = {}

(* What the ring holds: while a stop is pending that a reset has overtaken,*)
(* no more than the packets of one completion, too few for the threshold;  *)
(* after an underrun in this call, less than the threshold; and while the  *)
(* threshold is awaited, not yet the threshold.                            *)
HeldInv ==
  /\ stopCmd /\ RESTART \notin flags /\ pc # "setRestart" =>
       Promised <= Burst
  /\ RESTART \in flags /\ pc = "copy" => unread < InjectionSize
  /\ RESTART \in flags /\ pc \in Measuring => unread < InjectionSize + PacketLength
  /\ ~Reading /\ RESTART \notin flags /\ pc # "setRestart" =>
       unread < InputThreshold + (IF pc \in Measuring \cup {"start"} THEN PacketLength ELSE 0)

PlayInv == CalledAtRest /\ RingInv /\ CountInv /\ FlagsInv /\ StartInv /\ HeldInv

LEMMA RegularSizes ==
  ASSUME RegularHost
  PROVE  /\ BufferSize \in Nat /\ PacketLength \in Nat /\ InjectionSize \in Nat
         /\ InputThreshold \in Nat /\ MaxAhead \in Nat
         /\ 1 <= BufferSize /\ 1 <= PacketLength /\ PacketLength <= InjectionSize
         /\ InjectionSize + PacketLength <= InputThreshold
         /\ Burst \in Nat /\ Burst < InputThreshold
         /\ ReadLength = PacketLength
         /\ DataSize = InjectionSize
<1>1. MaxAhead \in Nat /\ PacketLength \in Nat
  BY SizesAssumption, HostAssumption
<1>2. Burst \in Nat /\ Burst < InputThreshold
  BY <1>1 DEF Burst, RegularHost
<1> QED
  BY <1>1, <1>2, SizesAssumption DEF RegularHost, ReadLength, DataSize, LongTurn

(* What the step lemmas below need of the types. *)
PlayTypes ==
  /\ pc \in Points
  /\ rd \in 0 .. BufferSize - 1
  /\ wr \in Nat /\ (pc # "wrap" => wr <= BufferSize) /\ (pc \notin AfterCopy => wr < BufferSize)
  /\ unread \in Int
  /\ pc = "copy" => frame \in 1 .. PacketLength
  /\ ahead \in 0 .. MaxAhead
  /\ stopCmd \in BOOLEAN /\ struck \in BOOLEAN
  /\ speaker \in {"INITIALIZED", "STARTED", "STOPPED"}

LEMMA TypesForPlay ==
  ASSUME RegularHost, TypeInv, WriteInv
  PROVE  PlayTypes
<1>1. /\ pc \in Points /\ rd \in 0 .. BufferSize - 1 /\ unread \in Int
      /\ stopCmd \in BOOLEAN /\ struck \in BOOLEAN
      /\ speaker \in {"INITIALIZED", "STARTED", "STOPPED"}
  BY RegularSizes DEF TypeInv, TypeOK
<1>2. ahead \in 0 .. MaxAhead
  BY DEF TypeInv, TypeOK
<1>3. wr \in Nat /\ (pc # "wrap" => wr <= BufferSize)
  BY RegularSizes DEF TypeInv, TypeOK
<1>4. pc \notin AfterCopy => wr < BufferSize
  BY DEF WriteInv
<1>5. pc = "copy" => frame \in 1 .. PacketLength
  BY DEF WriteInv, RegularHost
<1> QED
  BY <1>1, <1>2, <1>3, <1>4, <1>5 DEF PlayTypes

LEMMA ComingSize ==
  ASSUME RegularHost, NEW a \in 0 .. MaxAhead
  PROVE  /\ (MaxAhead - a) * PacketLength \in Nat
         /\ (MaxAhead - a) * PacketLength <= Burst
         /\ (MaxAhead - (a + 1)) * PacketLength = (MaxAhead - a) * PacketLength - PacketLength
<1>1. MaxAhead \in Nat /\ PacketLength \in Nat
  BY RegularSizes
<1>2. PICK n \in Nat : n = MaxAhead - a
  BY <1>1
<1>3. n * PacketLength \in Nat /\ a * PacketLength \in Nat
  BY <1>1, <1>2
<1>4. MaxAhead * PacketLength = n * PacketLength + a * PacketLength
  <2>1. MaxAhead = n + a
    BY <1>1, <1>2
  <2> QED
    BY <2>1, <1>1, <1>2
<1>5. (n - 1) * PacketLength = n * PacketLength - PacketLength
  BY <1>1, <1>2
<1>6. MaxAhead - (a + 1) = n - 1
  BY <1>1, <1>2
<1> QED
  BY <1>1, <1>2, <1>3, <1>4, <1>5, <1>6 DEF Burst

LEMMA ComingNow ==
  ASSUME RegularHost, PlayTypes
  PROVE  Coming \in Nat /\ Coming <= Burst
  BY ComingSize DEF Coming, PlayTypes

LEMMA PlayInit == RegularHost /\ Init => PlayInv
<1> SUFFICES ASSUME RegularHost, Init PROVE PlayInv
  OBVIOUS
<1>1. CalledAtRest /\ FlagsInv /\ StartInv
  BY DEF Init, CalledAtRest, FlagsInv, StartInv, Reading, Resetting
<1>2. RingInv /\ CountInv
  BY RegularSizes DEF Init, RingInv, CountInv, Distance
<1>3. HeldInv
  BY RegularSizes DEF Init, HeldInv, Reading, Measuring
<1> QED
  BY <1>1, <1>2, <1>3 DEF PlayInv

(* The USB side only moves packets towards frame_done. *)
LEMMA PlayUsb ==
  ASSUME RegularHost, PlayTypes, PlayInv,
         ControlRequest \/ Disconnect \/ PacketArrives \/ ArmTransfer \/ TakePacket
  PROVE  PlayInv'
<1> DEFINE Kept == UNCHANGED <<localVars, ringVars, speakerVars, outputVars>>
<1>1. CASE ControlRequest \/ Disconnect \/ ArmTransfer
  <2>1. Kept /\ UNCHANGED <<pc, clockVars>>
    BY <1>1 DEF ControlRequest, Disconnect, ArmTransfer, audioVars
  <2>2. pc # "idle" /\ transfer = "idle" => transfer' = "idle"
    BY <1>1 DEF ControlRequest, Disconnect, ArmTransfer, Stream!SetConfiguration,
                Stream!OpenStream, Stream!CloseStream, Stream!Disconnect, Stream!ArmTransfer
  <2>3. transfer' = "done" => transfer = "done"
    BY <1>1 DEF ControlRequest, Disconnect, ArmTransfer, Stream!SetConfiguration,
                Stream!OpenStream, Stream!CloseStream, Stream!Disconnect, Stream!ArmTransfer
  <2>4. Promised' <= Promised /\ Promised \in Int /\ Promised' \in Int
    BY <2>1, <2>3, RegularSizes, ComingNow DEF PlayTypes, Promised, Coming, ringVars, clockVars
  <2>5. CalledAtRest' /\ RingInv' /\ CountInv' /\ FlagsInv' /\ StartInv'
    BY <2>1, <2>2 DEF PlayInv, CalledAtRest, RingInv, CountInv, FlagsInv, StartInv, Distance,
                      Reading, localVars, ringVars, speakerVars, clockVars
  <2>6. HeldInv'
    BY <2>1, <2>4, RegularSizes DEF PlayTypes, PlayInv, HeldInv, Reading, ringVars, speakerVars
  <2> QED
    BY <2>5, <2>6 DEF PlayInv
<1>2. CASE PacketArrives
  <2>1. Kept /\ UNCHANGED <<pc, struck>> /\ ahead' = ahead + 1
    BY <1>2 DEF PacketArrives, audioVars
  <2>2. transfer = "armed" /\ pc = "idle"
    BY <1>2 DEF PacketArrives, Stream!PacketArrives, PlayInv, CalledAtRest
  <2>3. Promised' <= Promised /\ Promised \in Int /\ Promised' \in Int
    <3>1. Coming' = Coming - PacketLength /\ Coming \in Nat
      BY <2>1, ComingSize DEF PlayTypes, Coming
    <3>2. unread' = unread /\ unread \in Int
      BY <2>1 DEF ringVars, PlayTypes
    <3> QED
      BY <2>1, <2>2, <3>1, <3>2, RegularSizes DEF Promised
  <2>4. CalledAtRest' /\ RingInv' /\ CountInv' /\ FlagsInv' /\ StartInv'
    BY <2>1, <2>2 DEF PlayInv, CalledAtRest, RingInv, CountInv, FlagsInv, StartInv, Distance,
                      Reading, localVars, ringVars, speakerVars
  <2>5. HeldInv'
    BY <2>1, <2>3, RegularSizes DEF PlayTypes, PlayInv, HeldInv, Reading, ringVars, speakerVars
  <2> QED
    BY <2>4, <2>5 DEF PlayInv
<1>3. CASE TakePacket
  <2>1. Kept /\ ahead' = ahead /\ struck' = FALSE /\ pc = "idle" /\ pc' = "get"
    BY <1>3 DEF TakePacket, audioVars, Goto
  <2>2. transfer = "done" /\ transfer' = "idle"
    BY <1>3 DEF TakePacket, Stream!TakePacket
  <2>3. Promised' = Promised /\ Promised \in Int
    BY <2>1, <2>2, RegularSizes, ComingNow DEF PlayTypes, Promised, Coming, ringVars
  <2>4. CalledAtRest' /\ FlagsInv' /\ StartInv'
    BY <2>1, <2>2 DEF PlayInv, CalledAtRest, FlagsInv, StartInv, Resetting,
                      Reading, localVars, speakerVars
  <2>5. RingInv' /\ CountInv'
    BY <2>1 DEF PlayInv, RingInv, CountInv, Distance, Reading, AfterCopy, ringVars
  <2>6. HeldInv'
    BY <2>1, <2>3, RegularSizes DEF PlayTypes, PlayInv, HeldInv, Reading, Measuring,
                                    ringVars, speakerVars
  <2> QED
    BY <2>4, <2>5, <2>6 DEF PlayInv
<1> QED
  BY <1>1, <1>2, <1>3

(* The steps of frame_done that only move on, or write a local that is not *)
(* looked at again.                                                        *)
LEMMA PlayMovesOn ==
  ASSUME RegularHost, PlayTypes, PlayInv,
         GetFrame \/ CheckRestart \/ CopyMargin \/ LoadFlags \/ ComputeFree
           \/ RecheckRestart \/ ReleaseFrame
  PROVE  PlayInv'
<1>1. /\ UNCHANGED <<ringVars, speakerVars, clockVars>> /\ pc' \in Points
      /\ <<pc, pc'>> \in {<<"get", "check">>, <<"get", "release">>, <<"check", "dropRd">>,
                          <<"check", "copy">>, <<"margin", "countCompare">>,
                          <<"loadFlags", "storeFlags">>, <<"freeRead", "overrun">>,
                          <<"recheck", "resetRd">>, <<"recheck", "release">>,
                          <<"release", "idle">>}
  BY DEF GetFrame, CheckRestart, CopyMargin, LoadFlags, ComputeFree, RecheckRestart,
         ReleaseFrame, Goto, audioVars, Points
<1>2. /\ pc' \in {"dropRd", "resetRd"} <=> pc \in {"check", "recheck"} /\ RESTART \in flags
      /\ pc' = "storeFlags" => loadedFlags' = flags
  BY <1>1 DEF GetFrame, CheckRestart, CopyMargin, LoadFlags, ComputeFree, RecheckRestart,
         ReleaseFrame, Goto, Points
<1>3. transfer' = transfer
  BY DEF GetFrame, CheckRestart, CopyMargin, LoadFlags, ComputeFree, RecheckRestart,
         ReleaseFrame, usbVars, Stream!FreeAndReturn, Stream!transferVars
<1>4. Promised' <= Promised /\ Promised \in Int /\ Promised' \in Int
  BY <1>1, <1>3, RegularSizes, ComingNow DEF PlayTypes, Promised, Coming, ringVars, clockVars
<1>5. CalledAtRest'
  BY <1>1, <1>3 DEF PlayInv, CalledAtRest
<1>6. RingInv' /\ CountInv'
  BY <1>1 DEF PlayInv, RingInv, CountInv, Distance, Reading, AfterCopy, ringVars,
              speakerVars, clockVars
<1>7. FlagsInv'
  BY <1>1, <1>2 DEF PlayInv, FlagsInv, StartInv, Reading, Resetting, speakerVars
<1>8. StartInv'
  BY <1>1, <1>2 DEF PlayInv, StartInv, Reading, ringVars, speakerVars, clockVars
<1>9. HeldInv'
  BY <1>1, <1>2, <1>4, RegularSizes DEF PlayTypes, PlayInv, HeldInv, Reading, Measuring,
                                        ringVars, speakerVars
<1> QED
  BY <1>5, <1>6, <1>7, <1>8, <1>9 DEF PlayInv

(* The copy never laps the reader: the ring is not full after it. *)
LEMMA RoomToCopy ==
  ASSUME RegularHost, PlayTypes, PlayInv, CopyFrame, ~beenFull'
  PROVE  /\ frame \in 1 .. PacketLength
         /\ unread \in Nat /\ unread + frame < BufferSize
         /\ Written(frame) = unread + frame
         /\ wr - rd = unread \/ wr - rd = unread - BufferSize
<1>1. frame \in 1 .. PacketLength /\ unread \in Nat
  BY DEF CopyFrame, Goto, PlayTypes, PlayInv, RingInv
<1>2. wr - rd = unread \/ wr - rd = unread - BufferSize
  BY DEF CopyFrame, Goto, PlayInv, RingInv, Distance, AfterCopy
<1>3. unread + frame < BufferSize
  <2>1. ~(unread + frame >= BufferSize)
    BY Zenon DEF CopyFrame
  <2> QED
    BY <1>1, <2>1, RegularSizes
<1> QED
  BY <1>1, <1>2, <1>3, RegularSizes DEF Written

LEMMA PlayCopies ==
  ASSUME RegularHost, PlayTypes, PlayInv, CopyFrame, ~beenFull'
  PROVE  PlayInv'
<1>1. /\ UNCHANGED <<usbVars, localVars, rd, speakerVars, outputVars, ahead, struck>>
      /\ pc = "copy" /\ pc' = "wrap" /\ wr' = wr + frame /\ unread' = Written(frame)
  BY DEF CopyFrame, Goto
<1>2. /\ frame \in 1 .. PacketLength
      /\ unread \in Nat /\ unread + frame < BufferSize
      /\ unread' = unread + frame
      /\ wr - rd = unread \/ wr - rd = unread - BufferSize
  BY <1>1, RoomToCopy
<1>3. rd \in Nat /\ wr \in Nat
  BY RegularSizes DEF PlayTypes
<1>4. RingInv'
  BY <1>1, <1>2, <1>3, RegularSizes DEF RingInv, Distance
<1>5. Promised' <= Promised /\ Promised \in Int /\ Promised' \in Int
  BY <1>1, <1>2, RegularSizes, ComingNow DEF PlayTypes, Promised, Coming, usbVars, ringVars, clockVars
<1>6. CalledAtRest' /\ CountInv' /\ FlagsInv' /\ StartInv'
  BY <1>1 DEF PlayInv, CalledAtRest, CountInv, FlagsInv, StartInv, Reading, Resetting,
              usbVars, speakerVars
<1>7. HeldInv'
  <2>1. UNCHANGED <<speaker, stopCmd, flags>> /\ (Reading' <=> Reading)
    BY <1>1 DEF Reading, speakerVars
  <2>3. HeldInv
    BY DEF PlayInv
  <2>5. stopCmd' /\ RESTART \notin flags' => Promised' <= Burst
    BY <2>1, <2>3, <1>1, <1>5, RegularSizes DEF HeldInv
  <2>6. RESTART \in flags' => unread' < InjectionSize + PacketLength
    BY <2>1, <2>3, <1>1, <1>2, RegularSizes DEF HeldInv
  <2>7. ~Reading' /\ RESTART \notin flags' => unread' < InputThreshold + PacketLength
    BY <2>1, <2>3, <1>1, <1>2, RegularSizes DEF HeldInv, Measuring
  <2> QED
    BY <2>5, <2>6, <2>7, <1>1 DEF HeldInv, Measuring
<1> QED
  BY <1>4, <1>6, <1>7 DEF PlayInv

LEMMA PlayWraps ==
  ASSUME RegularHost, PlayTypes, PlayInv, WrapWrite \/ NormaliseWrite
  PROVE  PlayInv'
<1>1. /\ UNCHANGED <<usbVars, localVars, rd, unread, speakerVars, outputVars, clockVars>>
      /\ <<pc, pc'>> \in {<<"wrap", "margin">>, <<"wrap", "countCompare">>,
                          <<"normalise", "threshold">>}
      /\ pc = "wrap" => IF wr > BufferSize THEN wr' = wr - BufferSize
                                           ELSE wr' = wr
      /\ pc = "normalise" => IF wr = BufferSize THEN wr' = 0 ELSE wr' = wr
  BY RegularSizes DEF WrapWrite, NormaliseWrite, Goto, PlayTypes
<1>2. rd \in 0 .. BufferSize - 1 /\ wr \in Nat /\ unread \in 0 .. BufferSize - 1
  BY DEF PlayTypes, PlayInv, RingInv
<1>3. Distance
  BY <1>1 DEF PlayInv, RingInv
<1>4. Distance'
  <2>1. CASE pc = "wrap"
    BY <2>1, <1>1, <1>2, <1>3, RegularSizes DEF Distance, AfterCopy, Reading, speakerVars, clockVars
  <2>2. CASE pc = "normalise"
    BY <2>2, <1>1, <1>2, <1>3, RegularSizes DEF Distance, PlayTypes
  <2> QED
    BY <1>1, <2>1, <2>2
<1>5. RingInv'
  BY <1>1, <1>2, <1>4 DEF RingInv
<1>6. Promised' = Promised /\ Promised \in Int
  BY <1>1, RegularSizes, ComingNow DEF PlayTypes, Promised, Coming, usbVars, ringVars, clockVars
<1>7. CalledAtRest' /\ CountInv' /\ FlagsInv' /\ StartInv'
  BY <1>1 DEF PlayInv, CalledAtRest, CountInv, FlagsInv, StartInv, Reading, Resetting,
              usbVars, localVars, speakerVars, clockVars
<1>8. HeldInv'
  BY <1>1, <1>2, <1>6, RegularSizes DEF PlayInv, HeldInv, Reading, Measuring, speakerVars
<1> QED
  BY <1>5, <1>7, <1>8 DEF PlayInv

(* FILLED_SIZE is what is unread, as long as no lap is in the way. *)
LEMMA FilledIsUnread ==
  ASSUME RegularHost, PlayTypes, PlayInv,
         pc \notin {"dropWr", "dropFlags", "resetWr", "resetFlags"},
         pc \notin AfterCopy \/ ~Reading \/ ~struck
  PROVE  FilledSize(wr, rd) = unread
<1>1. wr - rd = unread \/ wr - rd = unread - BufferSize
  BY DEF PlayInv, RingInv, Distance
<1>2. rd \in 0 .. BufferSize - 1 /\ wr \in Nat /\ unread \in 0 .. BufferSize - 1
  BY DEF PlayTypes, PlayInv, RingInv
<1> QED
  BY <1>1, <1>2, RegularSizes DEF FilledSize

LEMMA U16Small ==
  ASSUME RegularHost, NEW n \in 0 .. BufferSize - 1
  PROVE  U16(n) = n
  BY RegularSizes DEF U16, Word, RegularHost

LEMMA PlayMeasures ==
  ASSUME RegularHost, PlayTypes, PlayInv, ComparePointers \/ CountFilled
  PROVE  PlayInv'
<1>1. /\ UNCHANGED <<usbVars, ringVars, speakerVars, outputVars, clockVars>>
      /\ <<pc, pc'>> \in {<<"countCompare", "countRead">>, <<"countRead", "normalise">>,
                          <<"freeCompare", "freeRead">>}
  BY DEF ComparePointers, CountFilled, Goto
<1>2. Promised' = Promised /\ Promised \in Int
  BY <1>1, RegularSizes, ComingNow DEF PlayTypes, Promised, Coming, usbVars, ringVars, clockVars
<1>3. CalledAtRest' /\ FlagsInv' /\ StartInv'
  BY <1>1 DEF PlayInv, CalledAtRest, FlagsInv, StartInv, Reading, Resetting, usbVars, speakerVars
<1>4. RingInv'
  BY <1>1 DEF PlayInv, RingInv, Distance, Reading, AfterCopy, ringVars, speakerVars, clockVars
<1>5. HeldInv'
  BY <1>1, <1>2, RegularSizes DEF PlayTypes, PlayInv, HeldInv, Reading, Measuring,
                                  ringVars, speakerVars
<1>6. CountInv'
  <2>1. CASE pc' = "countRead"
    BY <2>1, <1>1 DEF ComparePointers, CountFilled, Goto, CountInv, ringVars
  <2>2. CASE pc' = "normalise"
    <3> SUFFICES ASSUME ~Reading \/ ~struck PROVE count' = unread
      BY <2>2, <1>1 DEF CountInv, Reading, ringVars, speakerVars, clockVars
    <3>1. wrAhead = (wr >= rd) /\ count' = U16(IF wrAhead THEN wr - rd ELSE wr + BufferSize - rd)
      BY <2>2, <1>1 DEF CountFilled, ComparePointers, Goto, PlayInv, CountInv
    <3>2. count' = U16(FilledSize(wr, rd))
      BY <3>1 DEF FilledSize
    <3>3. FilledSize(wr, rd) = unread
      BY <2>2, <1>1, FilledIsUnread
    <3> QED
      BY <3>2, <3>3, U16Small DEF PlayInv, RingInv
  <2>3. CASE pc' = "freeRead"
    BY <2>3 DEF CountInv
  <2> QED
    BY <1>1, <2>1, <2>2, <2>3
<1> QED
  BY <1>3, <1>4, <1>5, <1>6 DEF PlayInv

(* The threshold is only found reached when the speaker is not reading, no *)
(* stop is pending and no restart is required.                             *)
LEMMA PlayChecks ==
  ASSUME RegularHost, PlayTypes, PlayInv, CheckThreshold
  PROVE  PlayInv'
<1>1. /\ UNCHANGED <<usbVars, audioVars, clockVars>>
      /\ pc = "threshold"
      /\ pc' = IF THRESHOLD \notin flags /\ count >= InputThreshold
                 THEN "start" ELSE "freeCompare"
  BY DEF CheckThreshold
<1>2. Promised' = Promised /\ Promised \in Int
  BY <1>1, RegularSizes, ComingNow DEF PlayTypes, Promised, Coming, usbVars, audioVars, ringVars, clockVars
<1>3. unread \in 0 .. BufferSize - 1 /\ (~Reading => count = unread)
  BY <1>1 DEF PlayInv, RingInv, CountInv
<1>4. THRESHOLD \notin flags => ~Reading
  BY <1>1 DEF PlayInv, FlagsInv
<1>5. pc' = "start" => RESTART \notin flags /\ ~stopCmd /\ flags = {}
  <2> SUFFICES ASSUME pc' = "start" PROVE RESTART \notin flags /\ ~stopCmd /\ flags = {}
    OBVIOUS
  <2>1. THRESHOLD \notin flags /\ ~Reading /\ unread >= InputThreshold
    BY <1>1, <1>3, <1>4
  <2>2. RESTART \notin flags
    BY <2>1, <1>1, <1>3, RegularSizes DEF PlayInv, HeldInv, Measuring
  <2>3. ~stopCmd
    BY <2>1, <2>2, <1>1, <1>3, RegularSizes, ComingNow DEF PlayInv, HeldInv, Promised
  <2> QED
    BY <2>1, <2>2, <2>3 DEF PlayInv, FlagsInv
<1>6. RingInv' /\ CountInv'
  <2>1. Distance
    BY <1>1 DEF PlayInv, RingInv
  <2>2. wr - rd = unread \/ wr - rd = unread - BufferSize
    BY <2>1, <1>1 DEF Distance, AfterCopy
  <2> QED
    BY <1>1, <1>3, <2>2 DEF RingInv, CountInv, Distance, audioVars, ringVars
<1>7. CalledAtRest' /\ FlagsInv'
  BY <1>1, <1>4 DEF PlayInv, CalledAtRest, FlagsInv, Reading, Resetting, usbVars, audioVars, speakerVars
<1>8. StartInv'
  <2>1. pc' = "start" => unread >= InputThreshold /\ speaker # "STARTED"
    BY <1>1, <1>3, <1>4, <1>5 DEF Reading
  <2> QED
    BY <1>1, <1>5, <2>1 DEF StartInv, audioVars, speakerVars, ringVars
<1>9. HeldInv'
  <2>1. ~Reading /\ RESTART \notin flags /\ pc' # "start" => unread < InputThreshold
    <3> SUFFICES ASSUME ~Reading, RESTART \notin flags, pc' # "start"
                 PROVE  unread < InputThreshold
      OBVIOUS
    <3>1. THRESHOLD \notin flags
      BY <1>1 DEF PlayInv, FlagsInv
    <3> QED
      BY <3>1, <1>1, <1>3, RegularSizes
  <2> QED
    BY <1>1, <1>2, <2>1, RegularSizes DEF PlayTypes, PlayInv, HeldInv, Reading, Measuring,
                                          audioVars, ringVars, speakerVars
<1> QED
  BY <1>6, <1>7, <1>8, <1>9 DEF PlayInv

LEMMA PlayStarts ==
  ASSUME RegularHost, PlayTypes, PlayInv, StartSpeaker \/ StoreFlags
  PROVE  PlayInv'
<1>1. /\ UNCHANGED <<usbVars, localVars, ringVars, stopCmd, ahead>>
      /\ <<pc, pc'>> \in {<<"start", "loadFlags">>, <<"storeFlags", "freeCompare">>}
      /\ pc = "start" => speaker' = "STARTED" /\ struck' = FALSE /\ flags' = flags
      /\ pc = "storeFlags" => speaker' = speaker /\ struck' = struck
                              /\ flags' = loadedFlags \cup {THRESHOLD}
  BY DEF StartSpeaker, StoreFlags, Goto, clockVars
<1>2. Promised' = Promised /\ Promised \in Int
  BY <1>1, RegularSizes, ComingNow DEF PlayTypes, Promised, Coming, usbVars, ringVars
<1>3. Reading'
  BY <1>1 DEF PlayInv, StartInv, Reading
<1>4. CalledAtRest' /\ CountInv'
  BY <1>1 DEF PlayInv, CalledAtRest, CountInv, usbVars
<1>5. RingInv'
  BY <1>1 DEF PlayInv, RingInv, Distance, AfterCopy, ringVars
<1>6. FlagsInv' /\ StartInv'
  BY <1>1, <1>3 DEF PlayInv, StartInv, FlagsInv, Resetting, ringVars, THRESHOLD, RESTART
<1>7. HeldInv'
  BY <1>1, <1>2, <1>3, <1>6 DEF HeldInv, FlagsInv, Reading
<1> QED
  BY <1>4, <1>5, <1>6, <1>7 DEF PlayInv

(* An overrun: the stop first, then the flag. *)
LEMMA PlayOverruns ==
  ASSUME RegularHost, PlayTypes, PlayInv, CheckOverrun \/ SetRestart
  PROVE  PlayInv'
<1>1. /\ UNCHANGED <<usbVars, localVars, ringVars, speaker, clockVars>>
      /\ \/ pc = "overrun" /\ pc' = "setRestart" /\ stopCmd' = TRUE /\ flags' = flags
         \/ pc = "overrun" /\ pc' = "recheck" /\ stopCmd' = stopCmd /\ flags' = flags
         \/ pc = "setRestart" /\ pc' = "recheck" /\ stopCmd' = stopCmd /\ flags' = {RESTART}
  BY DEF CheckOverrun, SetRestart, Goto
<1>2. Promised' = Promised /\ Promised \in Int
  BY <1>1, RegularSizes, ComingNow DEF PlayTypes, Promised, Coming, usbVars, ringVars, clockVars
<1>3. CalledAtRest' /\ CountInv' /\ RingInv' /\ StartInv'
  BY <1>1 DEF PlayInv, CalledAtRest, CountInv, RingInv, StartInv, Distance, AfterCopy,
              usbVars, ringVars
<1>4. FlagsInv'
  BY <1>1 DEF PlayInv, FlagsInv, Reading, Resetting, THRESHOLD, RESTART
<1>5. HeldInv'
  BY <1>1, <1>2 DEF PlayInv, FlagsInv, HeldInv, Reading, Measuring, ringVars, RESTART
<1> QED
  BY <1>3, <1>4, <1>5 DEF PlayInv

(* The reset, in either branch: the interrupt stays away while it lasts. *)
LEMMA PlayResets ==
  ASSUME RegularHost, PlayTypes, PlayInv, ResetRead \/ ResetWrite \/ ResetFlags \/ DropFrame
  PROVE  PlayInv'
<1>1. /\ UNCHANGED <<usbVars, speaker, stopCmd, clockVars>>
      /\ \/ /\ <<pc, pc'>> \in {<<"dropRd", "dropWr">>, <<"resetRd", "resetWr">>}
            /\ rd' = 0 /\ unread' = 0 /\ wr' = wr /\ flags' = flags
         \/ /\ <<pc, pc'>> \in {<<"dropWr", "dropFlags">>, <<"resetWr", "resetFlags">>}
            /\ wr' = 0 /\ UNCHANGED <<rd, unread, flags>>
         \/ /\ <<pc, pc'>> \in {<<"dropFlags", "idle">>, <<"resetFlags", "release">>}
            /\ UNCHANGED <<rd, wr, unread>> /\ flags' = {}
  BY DEF ResetRead, ResetWrite, ResetFlags, DropFrame, Goto, speakerVars, ringVars
<1>2. RESTART \in flags /\ ~Reading /\ pc \in Resetting
  BY <1>1 DEF PlayInv, FlagsInv, Resetting
<1>3. transfer' = "idle"
  BY <1>1 DEF PlayInv, CalledAtRest, usbVars
<1>4. CalledAtRest' /\ CountInv' /\ StartInv'
  BY <1>1, <1>3 DEF CalledAtRest, CountInv, StartInv
<1>5. RingInv'
  BY <1>1, RegularSizes DEF PlayInv, RingInv, Distance
<1>6. FlagsInv'
  BY <1>1, <1>2 DEF PlayInv, FlagsInv, Reading, Resetting
<1>7. flags' = {} => unread' = 0 /\ Promised' <= Burst
  <2>1. flags' = {} => unread' = 0
    BY <1>1, <1>2 DEF PlayInv, RingInv
  <2>2. pc' \notin {"get", "check", "copy"}
    BY <1>1
  <2> QED
    <3>1. Coming' \in Nat /\ Coming' <= Burst
      BY <1>1, ComingSize DEF PlayTypes, Coming, clockVars
    <3> QED
      BY <2>1, <2>2, <1>3, <3>1, RegularSizes DEF Promised
<1>8. HeldInv'
  <2>1. ~Reading'
    BY <1>1, <1>2 DEF Reading
  <2>2. pc' \notin Measuring /\ pc' # "copy" /\ (RESTART \in flags' \/ flags' = {})
    BY <1>1, <1>2 DEF Measuring
  <2> QED
    BY <1>1, <1>7, <2>1, <2>2, RegularSizes DEF HeldInv
<1> QED
  BY <1>4, <1>5, <1>6, <1>8 DEF PlayInv

(* The interrupt stops the speaker, or sends what it has once more. *)
LEMMA PlayWaits ==
  ASSUME RegularHost, PlayTypes, PlayInv, DmaComplete, StopInjection \/ RepeatInjection
  PROVE  PlayInv'
<1>1. /\ UNCHANGED <<usbVars, localVars, ringVars, flags, pc>> /\ ahead' = 0
      /\ stopCmd' = FALSE /\ ~Reading /\ ~Reading'
      /\ pc # "start" \/ speaker' = speaker
  BY DEF DmaComplete, StopInjection, RepeatInjection, Reading, PlayTypes, speakerVars,
         PlayInv, StartInv
<1>2. CalledAtRest' /\ CountInv' /\ RingInv'
  BY <1>1 DEF PlayInv, CalledAtRest, CountInv, RingInv, Distance, usbVars, localVars, ringVars
<1>3. FlagsInv' /\ StartInv'
  BY <1>1 DEF PlayInv, FlagsInv, StartInv, Resetting, localVars, ringVars
<1>4. HeldInv'
  BY <1>1 DEF PlayInv, HeldInv, ringVars
<1> QED
  BY <1>2, <1>3, <1>4 DEF PlayInv

(* When the interrupt reads the ring it sees it as it is. *)
LEMMA ReaderSees ==
  ASSUME RegularHost, PlayTypes, PlayInv, DmaComplete, Reading
  PROVE  /\ FilledSize(wr, rd) = unread
         /\ unread \in 0 .. BufferSize - 1
         /\ wr - rd = unread \/ wr - rd = unread - BufferSize
         /\ pc \notin {"start", "setRestart"} \cup Resetting
         /\ pc # "idle" => ~struck
<1>1. pc \notin {"start", "setRestart"} \cup Resetting
  BY DEF PlayInv, FlagsInv, StartInv, Reading
<1>2. pc # "idle" => ~struck
  BY <1>1 DEF DmaComplete
<1>3. wr - rd = unread \/ wr - rd = unread - BufferSize
  BY <1>1, <1>2 DEF PlayInv, RingInv, Distance, Resetting, AfterCopy
<1>4. FilledSize(wr, rd) = unread
  BY <1>1, <1>2, FilledIsUnread DEF Resetting, AfterCopy
<1> QED
  BY <1>1, <1>2, <1>3, <1>4 DEF PlayInv, RingInv

LEMMA PlayUnderruns ==
  ASSUME RegularHost, PlayTypes, PlayInv, DmaComplete, Underrun
  PROVE  PlayInv'
<1>1. /\ UNCHANGED <<usbVars, localVars, ringVars, pc>>
      /\ Reading /\ stopCmd' = TRUE /\ ~Reading' /\ flags' = {RESTART}
      /\ FilledSize(wr, rd) < InjectionSize
  BY DEF DmaComplete, Underrun, UnderrunHappened, Reading
<1>2. /\ unread \in 0 .. BufferSize - 1 /\ unread < InjectionSize
      /\ wr - rd = unread \/ wr - rd = unread - BufferSize
      /\ pc \notin {"start", "setRestart"} \cup Resetting
      /\ pc # "idle" => ~struck
  BY <1>1, ReaderSees
<1>3. pc \notin {"loadFlags", "storeFlags"}
  BY <1>2, RegularSizes DEF PlayInv, StartInv
<1>4. CalledAtRest' /\ FlagsInv' /\ StartInv'
  BY <1>1, <1>2, <1>3 DEF PlayInv, CalledAtRest, FlagsInv, StartInv, Resetting, usbVars,
                          localVars, THRESHOLD, RESTART
<1>5. RingInv' /\ CountInv'
  BY <1>1, <1>2 DEF PlayInv, RingInv, CountInv, Distance, Resetting, localVars, ringVars
<1>6. HeldInv'
  BY <1>1, <1>2, RegularSizes DEF HeldInv, ringVars
<1> QED
  BY <1>4, <1>5, <1>6 DEF PlayInv

LEMMA InjectReads ==
  ASSUME RegularHost, PlayTypes, PlayInv, DmaComplete, Inject
  PROVE  /\ Reading /\ Reading'
         /\ PacketLength <= unread
         /\ unread' = unread - PacketLength
         /\ rd' = Advance(rd, PacketLength)
         /\ UNCHANGED <<usbVars, localVars, wr, speakerVars, pc>>
         /\ ahead' = 0 /\ struck' = (pc # "idle")
<1>1. /\ UNCHANGED <<usbVars, localVars, wr, speakerVars, pc>>
      /\ ahead' = 0 /\ struck' = (pc # "idle")
      /\ unread' = Consumed(PacketLength) /\ rd' = Advance(rd, PacketLength)
      /\ ~(FilledSize(wr, rd) < InjectionSize)
      /\ Reading
  BY RegularSizes DEF DmaComplete, Inject, UnderrunHappened, Reading
<1>2. FilledSize(wr, rd) = unread /\ unread \in Nat
  BY <1>1, ReaderSees
<1>3. PacketLength <= unread
  BY <1>1, <1>2, RegularSizes
<1>4. unread' = unread - PacketLength
  BY <1>1, <1>2, <1>3, RegularSizes DEF Consumed
<1> QED
  BY <1>1, <1>3, <1>4 DEF Reading, speakerVars

LEMMA PlayInjects ==
  ASSUME RegularHost, PlayTypes, PlayInv, DmaComplete, Inject
  PROVE  PlayInv'
<1>1. /\ Reading /\ Reading'
      /\ PacketLength <= unread
      /\ unread' = unread - PacketLength
      /\ rd' = Advance(rd, PacketLength)
      /\ UNCHANGED <<usbVars, localVars, wr, speakerVars, pc>>
      /\ ahead' = 0 /\ struck' = (pc # "idle")
  BY InjectReads
<1>2. /\ unread \in 0 .. BufferSize - 1
      /\ wr - rd = unread \/ wr - rd = unread - BufferSize
      /\ pc \notin {"start", "setRestart"} \cup Resetting
      /\ pc # "idle" => ~struck
  BY <1>1, ReaderSees
<1>4. Distance'
  <2>1. wr \in Nat /\ rd \in 0 .. BufferSize - 1
    BY DEF PlayTypes
  <2>2. CASE rd + PacketLength < BufferSize
    <3>1. rd' = rd + PacketLength
      BY <2>1, <2>2, <1>1, RegularSizes DEF Advance
    <3> QED
      BY <3>1, <2>1, <1>1, <1>2, RegularSizes DEF Distance
  <2>3. CASE rd + PacketLength >= BufferSize
    <3>1. rd' = rd + PacketLength - BufferSize
      BY <2>1, <2>3, <1>1, RegularSizes DEF Advance
    <3>2. wr' - rd' = unread' + BufferSize \/ wr' - rd' = unread'
      BY <3>1, <2>1, <1>1, <1>2, RegularSizes
    <3>3. wr' - rd' = unread' + BufferSize /\ pc \notin AfterCopy => FALSE
      BY <3>1, <2>1, <2>3, <1>1, <1>2, RegularSizes DEF PlayTypes
    <3>4. pc \in AfterCopy => struck'
      BY <1>1 DEF AfterCopy
    <3> QED
      BY <3>2, <3>3, <3>4, <1>1 DEF Distance
  <2> QED
    BY <2>1, <2>2, <2>3, RegularSizes
<1>5. RingInv'
  BY <1>1, <1>2, <1>4, RegularSizes DEF RingInv, Resetting
<1>6. CalledAtRest' /\ CountInv'
  BY <1>1 DEF PlayInv, CalledAtRest, CountInv, usbVars
<1>7. FlagsInv' /\ StartInv'
  BY <1>1, <1>2 DEF PlayInv, FlagsInv, StartInv, speakerVars, localVars
<1>8. HeldInv'
  BY <1>1, <1>2 DEF PlayInv, FlagsInv, HeldInv, Reading, speakerVars
<1> QED
  BY <1>5, <1>6, <1>7, <1>8 DEF PlayInv

LEMMA PlayStep ==
  ASSUME RegularHost, TypeInv, WriteInv, PlayInv, [Next]_vars, ~beenFull'
  PROVE  PlayInv'
<1>1. PlayTypes
  BY TypesForPlay
<1>2. CASE UNCHANGED vars
  BY <1>2 DEF vars, usbVars, localVars, ringVars, speakerVars, clockVars, PlayInv,
              CalledAtRest, RingInv, CountInv, FlagsInv, StartInv, HeldInv, Distance,
              Reading, Promised, Coming
<1>3. CASE ControlRequest \/ Disconnect \/ PacketArrives \/ ArmTransfer \/ TakePacket
  BY <1>1, <1>3, PlayUsb
<1>4. CASE FrameDone
  BY <1>1, <1>4, PlayMovesOn, PlayCopies, PlayWraps, PlayMeasures, PlayChecks, PlayStarts,
     PlayOverruns, PlayResets DEF FrameDone
<1>5. CASE DmaComplete
  BY <1>1, <1>5, PlayWaits, PlayUnderruns, PlayInjects DEF DmaComplete
<1> QED
  BY <1>2, <1>3, <1>4, <1>5 DEF Next, Superloop

LEMMA WriteInit == Init => WriteInv
  BY WholeZero, SizesAssumption DEF Init, WriteInv, Whole, AfterCopy

(* Only the copy of a packet fills the ring, and the history keeps it. *)
LEMMA OnlyCopyFills == [Next]_vars /\ ~CopyFrame => beenFull' = beenFull
<1> SUFFICES ASSUME [Next]_vars, ~CopyFrame PROVE beenFull' = beenFull
  OBVIOUS
<1> USE DEF clockVars
<1>1. CASE UNCHANGED vars
  BY <1>1 DEF vars
<1>2. CASE ControlRequest \/ Disconnect \/ PacketArrives \/ ArmTransfer \/ TakePacket
  BY <1>2 DEF ControlRequest, Disconnect, PacketArrives, ArmTransfer, TakePacket
<1>3. CASE GetFrame \/ CheckRestart \/ WrapWrite \/ CopyMargin
           \/ ComparePointers \/ CountFilled \/ NormaliseWrite \/ CheckThreshold
  BY <1>3 DEF GetFrame, CheckRestart, WrapWrite, CopyMargin,
              ComparePointers, CountFilled, NormaliseWrite, CheckThreshold
<1>4. CASE StartSpeaker \/ LoadFlags \/ StoreFlags \/ ComputeFree
           \/ CheckOverrun \/ SetRestart \/ RecheckRestart
  BY <1>4 DEF StartSpeaker, LoadFlags, StoreFlags, ComputeFree, CheckOverrun,
              SetRestart, RecheckRestart
<1>5. CASE ResetRead \/ ResetWrite \/ ResetFlags \/ DropFrame \/ ReleaseFrame
  BY <1>5 DEF ResetRead, ResetWrite, ResetFlags, DropFrame, ReleaseFrame
<1>6. CASE DmaComplete
  BY <1>6 DEF DmaComplete
<1> QED
  BY <1>1, <1>2, <1>3, <1>4, <1>5, <1>6 DEF Next, Superloop, FrameDone

LEMMA BeenFullStays == beenFull /\ [Next]_vars => beenFull'
  BY OnlyCopyFills DEF CopyFrame

(* Only the interrupt prepares what is sent. *)
LEMMA OutsideInterrupt ==
  ASSUME Next
  PROVE  \/ DmaComplete
         \/ /\ UNCHANGED outputVars
            /\ stopCmd => stopCmd'
            /\ speaker' = speaker \/ (pc = "start" /\ StartSpeaker)
            /\ rd' = rd \/ (pc \in Resetting /\ pc' # pc)
<1> SUFFICES ASSUME ~DmaComplete
             PROVE  /\ UNCHANGED outputVars
                    /\ stopCmd => stopCmd'
                    /\ speaker' = speaker \/ (pc = "start" /\ StartSpeaker)
                    /\ rd' = rd \/ (pc \in Resetting /\ pc' # pc)
  OBVIOUS
<1> USE DEF audioVars, ringVars, speakerVars, Goto, Resetting
<1>1. CASE ControlRequest \/ Disconnect \/ PacketArrives \/ ArmTransfer \/ TakePacket
  BY <1>1 DEF ControlRequest, Disconnect, PacketArrives, ArmTransfer, TakePacket
<1>2. CASE GetFrame \/ CheckRestart \/ CopyFrame \/ WrapWrite \/ CopyMargin
           \/ ComparePointers \/ CountFilled \/ NormaliseWrite \/ CheckThreshold
  BY <1>2 DEF GetFrame, CheckRestart, CopyFrame, WrapWrite, CopyMargin,
              ComparePointers, CountFilled, NormaliseWrite, CheckThreshold
<1>3. CASE StartSpeaker \/ LoadFlags \/ StoreFlags \/ ComputeFree
           \/ CheckOverrun \/ SetRestart \/ RecheckRestart
  BY <1>3 DEF StartSpeaker, LoadFlags, StoreFlags, ComputeFree, CheckOverrun,
              SetRestart, RecheckRestart
<1>4. CASE ResetRead \/ ResetWrite \/ ResetFlags \/ DropFrame \/ ReleaseFrame
  BY <1>4 DEF ResetRead, ResetWrite, ResetFlags, DropFrame, ReleaseFrame
<1> QED
  BY <1>1, <1>2, <1>3, <1>4 DEF Next, Superloop, FrameDone

(* Only a start lets the interrupt read again. *)
LEMMA OnlyStartReads ==
  ASSUME [Next]_vars, PlayInv, ~Reading, Reading'
  PROVE  StartSpeaker
<1>1. CASE UNCHANGED vars
  BY <1>1 DEF vars, speakerVars, Reading
<1>2. CASE Next /\ ~StartSpeaker
  <2>1. ~DmaComplete
    BY DEF DmaComplete, StopInjection, RepeatInjection, Underrun, Inject, Reading, speakerVars
  <2>2. speaker' = speaker
    BY <1>2, <2>1, OutsideInterrupt
  <2>3. stopCmd => stopCmd'
    BY <1>2, <2>1, OutsideInterrupt
  <2> QED
    BY <2>2, <2>3 DEF Reading
<1> QED
  BY <1>1, <1>2

LEMMA Playing == ASSUME RegularHost PROVE Spec => [](PlayTypes /\ (beenFull \/ PlayInv))
<1>1. Init => PlayInv
  BY PlayInit
<1>2. TypeInv /\ WriteInv /\ (beenFull \/ PlayInv) /\ [Next]_vars => (beenFull \/ PlayInv)'
  BY PlayStep, BeenFullStays
<1>3. TypeInv /\ WriteInv => PlayTypes
  BY TypesForPlay
<1> QED
  BY <1>1, <1>2, <1>3, TypeInit, TypeStep, WriteInit, WriteStep, PTL DEF Spec

(* The interrupt never moves rd_ptr past wr_ptr, wherever it strikes in    *)
(* frame_done: also while wr_ptr stands past the end of the ring, between  *)
(* the two reads of the pointers, and in the middle of a reset.            *)
THEOREM NothingStaleIsPlayed == RegularHost => (Spec => []NeverPlaysStale)
<1> SUFFICES ASSUME RegularHost PROVE Spec => []NeverPlaysStale
  OBVIOUS
<1>1. beenFull \/ PlayInv => NeverPlaysStale
  BY RegularSizes DEF PlayInv, RingInv, NeverPlaysStale
<1> QED
  BY <1>1, Playing, PTL

(* The speaker reads only a ring that has reached the threshold. *)
THEOREM ThresholdIsAwaited == RegularHost => (Spec => []ReadAwaitsThreshold)
<1> SUFFICES ASSUME RegularHost PROVE Spec => []ReadAwaitsThreshold
  OBVIOUS
<1>1. beenFull \/ PlayInv => ReadAwaitsThreshold
  BY DEF PlayInv, FlagsInv, Reading, ReadAwaitsThreshold
<1> QED
  BY <1>1, Playing, PTL

(* A speaker that has stopped waits for the threshold or for the restart:  *)
(* no interleaving leaves the threshold noted and the speaker stopped,     *)
(* which nothing would ever start again.                                   *)
THEOREM StoppedIsRestarted == RegularHost => (Spec => []StoppedWillRestart)
<1> SUFFICES ASSUME RegularHost PROVE Spec => []StoppedWillRestart
  OBVIOUS
<1>1. beenFull \/ PlayInv => StoppedWillRestart
  BY DEF PlayInv, FlagsInv, Reading, StoppedWillRestart
<1> QED
  BY <1>1, Playing, PTL

(* The read-modify-write of flags in frame_done never loses the request to *)
(* restart that the interrupt sets: it only runs when no underrun can come.*)
THEOREM RestartIsKept == RegularHost => (Spec => RestartNeverLost)
<1> SUFFICES ASSUME RegularHost PROVE Spec => RestartNeverLost
  OBVIOUS
<1>1. (beenFull \/ PlayInv) /\ [Next]_vars
        => [~beenFull /\ (RESTART \in flags \ flags') => wr = 0 /\ rd = 0]_vars
  <2> SUFFICES ASSUME PlayInv, Next, RESTART \in flags, RESTART \notin flags'
               PROVE  wr = 0 /\ rd = 0
    BY DEF RESTART
  <2>1. CASE StoreFlags \/ StartSpeaker \/ LoadFlags
    BY <2>1 DEF StoreFlags, StartSpeaker, LoadFlags, Goto, PlayInv, StartInv, speakerVars
  <2>2. CASE ResetFlags \/ DropFrame
    BY <2>2 DEF ResetFlags, DropFrame, Goto, PlayInv, RingInv
  <2>3. CASE CheckOverrun \/ SetRestart
    BY <2>3 DEF CheckOverrun, SetRestart
  <2>4. CASE DmaComplete
    BY <2>4 DEF DmaComplete, StopInjection, RepeatInjection, Underrun, Inject, speakerVars
  <2>5. CASE ControlRequest \/ Disconnect \/ PacketArrives \/ ArmTransfer \/ TakePacket
    BY <2>5 DEF ControlRequest, Disconnect, PacketArrives, ArmTransfer, TakePacket,
                audioVars, speakerVars
  <2>6. CASE GetFrame \/ CheckRestart \/ CopyFrame \/ WrapWrite \/ CopyMargin
             \/ ComparePointers \/ CountFilled \/ NormaliseWrite \/ CheckThreshold
             \/ ComputeFree \/ RecheckRestart \/ ResetRead \/ ResetWrite \/ ReleaseFrame
    BY <2>6 DEF GetFrame, CheckRestart, CopyFrame, WrapWrite, CopyMargin, ComparePointers,
                CountFilled, NormaliseWrite, CheckThreshold, ComputeFree, RecheckRestart,
                ResetRead, ResetWrite, ReleaseFrame, audioVars, speakerVars
  <2> QED
    BY <2>1, <2>2, <2>3, <2>4, <2>5, <2>6 DEF Next, Superloop, FrameDone
<1> QED
  BY <1>1, Playing, PTL DEF Spec, RestartNeverLost

-----------------------------------------------------------------------------
(* When the ring is never full: a host in step with the DMA, that sends no *)
(* more than one packet between two completions.                           *)

(* What the ring then holds at most: a byte less than the threshold, the   *)
(* packet that reaches it, and one more that comes before the completion.  *)
MostHeld == InputThreshold - 1 + 2 * PacketLength

HostInStep == RegularHost /\ MaxAhead = 1 /\ MostHeld < BufferSize

StepInv == PlayInv /\ ~beenFull /\ (Reading => Promised <= MostHeld)

LEMMA InStepSizes ==
  ASSUME HostInStep
  PROVE  /\ RegularHost /\ MostHeld < BufferSize /\ Burst = PacketLength
         /\ MostHeld = InputThreshold - 1 + 2 * PacketLength /\ MostHeld \in Nat
<1>1. RegularHost /\ MaxAhead = 1 /\ MostHeld < BufferSize
  BY DEF HostInStep
<1> QED
  BY <1>1, RegularSizes DEF MostHeld, Burst

(* Between two starts nothing is promised twice: what the host sends after *)
(* a completion has been read in that completion.                          *)
LEMMA PromisedFalls ==
  ASSUME HostInStep, PlayTypes, PlayTypes', PlayInv, [Next]_vars, ~beenFull', Reading, Reading'
  PROVE  Promised' <= Promised
<1> USE DEF audioVars, localVars, ringVars, clockVars, Goto
<1>1. /\ RegularHost /\ Burst = PacketLength /\ PacketLength \in Nat
      /\ unread \in Int /\ unread' \in Int
      /\ Coming \in Nat /\ Coming' \in Nat /\ Coming' <= Burst
  <2>1. Coming' \in Nat /\ Coming' <= Burst
    BY InStepSizes, ComingSize DEF PlayTypes, Coming
  <2> QED
    BY <2>1, InStepSizes, RegularSizes, ComingNow DEF PlayTypes
<1>2. CASE UNCHANGED <<unread, transfer, ahead>>
           /\ (pc' \in {"get", "check", "copy"} => pc \in {"get", "check", "copy"})
  BY <1>1, <1>2 DEF Promised, Coming
<1>3. CASE UNCHANGED vars
  BY <1>2, <1>3 DEF vars, usbVars
<1>4. CASE ControlRequest \/ Disconnect \/ ArmTransfer
  <2>1. UNCHANGED <<pc, unread, ahead>> /\ (transfer' = "done" => transfer = "done")
    BY <1>4 DEF ControlRequest, Disconnect, ArmTransfer, Stream!SetConfiguration,
                Stream!OpenStream, Stream!CloseStream, Stream!Disconnect, Stream!ArmTransfer
  <2> QED
    BY <1>1, <2>1 DEF Promised, Coming
<1>5. CASE PacketArrives
  <2>1. UNCHANGED <<pc, unread>> /\ ahead' = ahead + 1 /\ transfer # "done"
    BY <1>5 DEF PacketArrives, Stream!PacketArrives
  <2>2. Coming' = Coming - PacketLength
    BY <1>1, <2>1, ComingSize DEF PlayTypes, Coming
  <2> QED
    BY <1>1, <2>1, <2>2 DEF Promised
<1>6. CASE TakePacket
  <2>1. UNCHANGED <<unread, ahead>> /\ pc = "idle" /\ transfer = "done" /\ transfer' = "idle"
    BY <1>6 DEF TakePacket, Stream!TakePacket
  <2> QED
    BY <1>1, <2>1 DEF Promised, Coming
<1>7. CASE CopyFrame
  <2>1. /\ unread' = unread + frame /\ frame \in 1 .. PacketLength
        /\ UNCHANGED <<transfer, ahead>> /\ pc = "copy" /\ pc' = "wrap"
    BY <1>1, <1>7, RoomToCopy DEF CopyFrame, usbVars
  <2> QED
    BY <1>1, <2>1 DEF Promised, Coming
<1>8. CASE GetFrame \/ CheckRestart \/ WrapWrite \/ CopyMargin \/ ComparePointers
           \/ CountFilled \/ NormaliseWrite \/ CheckThreshold
  BY <1>2, <1>8 DEF GetFrame, CheckRestart, WrapWrite, CopyMargin, ComparePointers,
                    CountFilled, NormaliseWrite, CheckThreshold, usbVars
<1>9. CASE StartSpeaker \/ LoadFlags \/ StoreFlags \/ ComputeFree
           \/ CheckOverrun \/ SetRestart \/ RecheckRestart
  BY <1>2, <1>9 DEF StartSpeaker, LoadFlags, StoreFlags, ComputeFree, CheckOverrun,
                    SetRestart, RecheckRestart, usbVars
<1>10. CASE ResetRead \/ ResetWrite \/ ResetFlags \/ DropFrame
  <2>1. pc \in Resetting
    BY <1>10 DEF ResetRead, ResetWrite, ResetFlags, DropFrame, Resetting
  <2> QED
    BY <2>1 DEF PlayInv, FlagsInv
<1>11. CASE ReleaseFrame
  BY <1>2, <1>11 DEF ReleaseFrame, Stream!FreeAndReturn, Stream!transferVars
<1>12. CASE DmaComplete
  <2>1. Inject
    BY <1>12 DEF DmaComplete, StopInjection, RepeatInjection, Underrun, Reading
  <2>2. unread' = unread - PacketLength /\ UNCHANGED <<pc, transfer>>
    BY <1>1, <1>12, <2>1, InjectReads DEF usbVars
  <2>3. pc' = pc /\ transfer' = transfer
    BY <2>2
  <2> QED
    BY <1>1, <2>2, <2>3 DEF Promised, Coming
<1> QED
  BY <1>3, <1>4, <1>5, <1>6, <1>7, <1>8, <1>9, <1>10, <1>11, <1>12
  DEF Next, Superloop, FrameDone

(* The packet that is copied still leaves a place. *)
LEMMA InStepNotFull ==
  ASSUME HostInStep, PlayTypes, StepInv, [Next]_vars
  PROVE  ~beenFull'
<1>1. CASE CopyFrame
  <2>1. pc = "copy" /\ frame \in 1 .. PacketLength /\ unread \in Nat
    BY <1>1 DEF CopyFrame, Goto, StepInv, PlayInv, RingInv, PlayTypes
  <2>2. unread + PacketLength < BufferSize
    <3>1. CASE Reading
      <4>1. unread + PacketLength <= Promised
        BY <2>1, ComingNow, InStepSizes, RegularSizes DEF Promised
      <4>2. Promised \in Int
        BY <2>1, ComingNow, InStepSizes, RegularSizes DEF Promised
      <4> QED
        BY <2>1, <3>1, <4>1, <4>2, InStepSizes, RegularSizes DEF StepInv
    <3>2. CASE ~Reading
      BY <2>1, <3>2, InStepSizes, RegularSizes DEF StepInv, PlayInv, HeldInv, Measuring
    <3> QED
      BY <3>1, <3>2
  <2>3. ~(unread + frame >= BufferSize)
    BY <2>1, <2>2, InStepSizes, RegularSizes
  <2> QED
    BY <1>1, <2>3, Zenon DEF CopyFrame, StepInv
<1>2. CASE ~CopyFrame
  BY <1>2, OnlyCopyFills DEF StepInv
<1> QED
  BY <1>1, <1>2

LEMMA InStep ==
  ASSUME HostInStep, TypeInv, WriteInv, PlayTypes, PlayTypes', StepInv, [Next]_vars
  PROVE  StepInv'
<1>1. ~beenFull'
  BY InStepNotFull
<1>2. PlayInv /\ PlayInv' /\ RegularHost
  BY <1>1, PlayStep, InStepSizes DEF StepInv
<1>3. \/ Promised' <= MostHeld /\ Promised' \in Int
      \/ ~Reading'
  <2> SUFFICES ASSUME Reading' PROVE Promised' <= MostHeld /\ Promised' \in Int
    OBVIOUS
  <2>1. Promised \in Int /\ Promised' \in Int
    <3>1. Coming' \in Nat
      BY <1>2, ComingSize DEF PlayTypes, Coming
    <3> QED
      BY <1>2, <3>1, ComingNow, RegularSizes DEF Promised, PlayTypes
  <2>2. CASE Reading
    BY <1>1, <1>2, <2>1, <2>2, PromisedFalls, InStepSizes DEF StepInv
  <2>3. CASE ~Reading
    <3>1. StartSpeaker
      BY <1>2, <2>3, OnlyStartReads
    <3>2. /\ pc = "start" /\ pc' = "loadFlags"
          /\ UNCHANGED <<unread, transfer, ahead>>
      BY <3>1 DEF StartSpeaker, Goto, usbVars, ringVars
    <3>3. unread < InputThreshold + PacketLength /\ transfer = "idle"
      BY <2>3, <3>2, <1>2 DEF PlayInv, StartInv, HeldInv, CalledAtRest
    <3>4. Coming' = Coming /\ Coming \in Nat /\ Coming <= PacketLength /\ unread \in Int
      BY <3>2, <1>2, ComingNow, InStepSizes DEF Coming, PlayTypes
    <3> QED
      BY <2>1, <3>2, <3>3, <3>4, InStepSizes, RegularSizes DEF Promised
  <2> QED
    BY <2>2, <2>3
<1> QED
  BY <1>1, <1>2, <1>3 DEF StepInv

(* A host in step never fills the ring, if the ring has a place for two    *)
(* packets beyond the threshold: for it the theorems above hold without    *)
(* their condition, and every sound that is played is its own.             *)
THEOREM HostInStepNeverFills == HostInStep => (Spec => []~beenFull)
<1> SUFFICES ASSUME HostInStep PROVE Spec => []~beenFull
  OBVIOUS
<1>1. RegularHost
  BY InStepSizes
<1>2. Init => StepInv
  BY <1>1, PlayInit DEF Init, StepInv, Reading
<1>3. TypeInv /\ WriteInv => PlayTypes
  BY <1>1, TypesForPlay
<1>4. TypeInv' /\ WriteInv' => PlayTypes'
  BY <1>3, PTL
<1>5. TypeInv /\ WriteInv /\ TypeInv' /\ WriteInv' /\ StepInv /\ [Next]_vars => StepInv'
  BY <1>3, <1>4, InStep
<1>6. StepInv => ~beenFull
  BY DEF StepInv
<1> QED
  BY <1>2, <1>5, <1>6, TypeInit, TypeStep, WriteInit, WriteStep, PTL DEF Spec

-----------------------------------------------------------------------------
(* What the DMA is sending and will send next.                             *)

(* With 16-bit samples the next injection ends where the interrupt reads,  *)
(* and the one being sent ends where the next begins, round the ring.      *)
EndsAt(region, r) ==
  \/ region.start + PacketLength = r
  \/ region.start + PacketLength = BufferSize /\ r = 0

SentInv ==
  /\ Resolution24 \/ speaker # "STARTED" => data.memory = "alt" /\ dma.memory = "alt"
  /\ Reading /\ data.memory = "ring" =>
       data.length = PacketLength /\ EndsAt(data, rd)
  /\ Reading /\ dma.memory = "ring" =>
       data.memory = "ring" /\ dma.length = PacketLength /\ EndsAt(dma, data.start)

LEMMA SentStep ==
  ASSUME RegularHost, TypeOK, InjectionInv, PlayInv, SentInv, [Next]_vars
  PROVE  SentInv'
<1>1. CASE UNCHANGED vars
  BY <1>1 DEF SentInv, EndsAt, Reading, vars, outputVars, ringVars, speakerVars
<1>2. CASE Next /\ ~DmaComplete
  <2>1. /\ UNCHANGED <<data, dma>>
        /\ stopCmd => stopCmd'
        /\ speaker' = speaker \/ pc = "start"
        /\ rd' = rd \/ pc \in Resetting
    BY <1>2, OutsideInterrupt DEF outputVars
  <2>2. CASE pc = "start"
    BY <2>1, <2>2 DEF PlayInv, StartInv, SentInv, Reading, Resetting
  <2>3. CASE pc \in Resetting
    BY <2>1, <2>3 DEF PlayInv, FlagsInv, SentInv, Reading, Resetting, TypeOK
  <2>4. CASE pc \notin Resetting /\ pc # "start"
    BY <2>1, <2>4 DEF SentInv, EndsAt, Reading
  <2> QED
    BY <2>2, <2>3, <2>4
<1>3. CASE StopInjection
  BY <1>3 DEF StopInjection, SentInv, Silence
<1>4. CASE RepeatInjection
  BY <1>4 DEF RepeatInjection, SentInv, Reading, speakerVars
<1>5. CASE Underrun
  BY <1>5 DEF Underrun, NextTurn, AltHalf, SentInv, Reading
<1>6. CASE Inject
  <2>1. dma' = data /\ data' = NextData /\ UNCHANGED <<speaker, stopCmd>> /\ Reading
        /\ rd' = Advance(rd, PacketLength)
    BY <1>6, RegularSizes DEF Inject, NextTurn, speakerVars, Reading
  <2>2. CASE Resolution24
    BY <2>1, <2>2 DEF SentInv, NextData, AltHalf, Reading
  <2>3. CASE ~Resolution24
    <3>1. data' = [memory |-> "ring", start |-> rd, length |-> PacketLength]
      BY <2>1, <2>3, SizesAssumption, RegularSizes DEF NextData, RegularHost
    <3>2. rd \in 0 .. BufferSize - 1 /\ rd + PacketLength <= BufferSize
      BY WholeRoom DEF TypeOK, InjectionInv, RegularHost
    <3>3. rd' = IF rd + PacketLength = BufferSize THEN 0 ELSE rd + PacketLength
      BY <2>1, <3>2, RegularSizes DEF Advance
    <3>4. EndsAt(data, rd)'
      BY <3>1, <3>2, <3>3, RegularSizes DEF EndsAt
    <3>5. dma'.memory = "ring" => dma'.length = PacketLength /\ EndsAt(dma', data'.start)
      BY <2>1, <3>1 DEF SentInv
    <3> QED
      BY <2>1, <2>3, <3>1, <3>4, <3>5 DEF SentInv, Reading, EndsAt
  <2> QED
    BY <2>2, <2>3
<1> QED
  BY <1>1, <1>2, <1>3, <1>4, <1>5, <1>6 DEF DmaComplete

(* frame_done never overwrites what is being sent or will be sent next, as *)
(* long as the ring has room for the two packets that rd_ptr has already   *)
(* passed: wherever the pointers stand, and whatever is read between the   *)
(* checks and the copy.                                                    *)
THEOREM SentIsIntact == RegularHost => (Spec => []InjectionIntact)
<1> SUFFICES ASSUME RegularHost PROVE Spec => []InjectionIntact
  OBVIOUS
<1>1. Init => SentInv
  BY DEF Init, SentInv, Silence, Reading
<1>2. Init => InjectionInv
  BY WholeZero DEF Init, InjectionInv, EndsInRing, Silence
<1>3. TypeOK /\ InjectionInv /\ (beenFull \/ PlayInv) /\ (beenFull \/ SentInv) /\ [Next]_vars
        => (beenFull \/ SentInv)'
  BY SentStep, BeenFullStays
<1>4. TypeOK /\ PlayTypes /\ (beenFull \/ PlayInv) /\ (beenFull \/ SentInv) => InjectionIntact
  <2> SUFFICES ASSUME TypeOK, PlayTypes, PlayInv, SentInv, pc = "copy", ~stopCmd, RoomForSent,
                      NEW region \in {data, dma}, region.memory = "ring",
                      wr < region.start + region.length, region.start < wr + frame
               PROVE  FALSE
    BY DEF InjectionIntact, Overlaps
  <2>1. Reading
    BY DEF SentInv, Reading
  <2>2. data.memory = "ring" /\ EndsAt(data, rd) /\ region.length = PacketLength
    BY <2>1 DEF SentInv
  <2>3. region = data \/ (region = dma /\ EndsAt(dma, data.start))
    BY <2>1 DEF SentInv
  <2>4. /\ frame \in 1 .. PacketLength /\ unread \in Nat
        /\ unread + frame + 2 * PacketLength <= BufferSize
        /\ wr - rd = unread \/ wr - rd = unread - BufferSize
    BY DEF RoomForSent, PlayTypes, PlayInv, RingInv, Distance, AfterCopy
  <2>5. /\ wr \in 0 .. BufferSize - 1 /\ rd \in 0 .. BufferSize - 1
        /\ data.start \in Nat /\ dma.start \in Nat
    BY RegularSizes DEF TypeOK, PlayTypes, AfterCopy, Regions
  <2>6. CASE wr - rd = unread
    <3>1. region = data => FALSE
      BY <2>2, <2>4, <2>5, <2>6, RegularSizes DEF EndsAt
    <3>2. region = dma /\ EndsAt(dma, data.start) => FALSE
      BY <2>2, <2>4, <2>5, <2>6, RegularSizes DEF EndsAt
    <3> QED
      BY <2>3, <3>1, <3>2
  <2>7. CASE wr - rd = unread - BufferSize
    <3>1. region = data => FALSE
      BY <2>2, <2>4, <2>5, <2>7, RegularSizes DEF EndsAt
    <3>2. region = dma /\ EndsAt(dma, data.start) => FALSE
      BY <2>2, <2>4, <2>5, <2>7, RegularSizes DEF EndsAt
    <3> QED
      BY <2>3, <3>1, <3>2
  <2> QED
    BY <2>4, <2>6, <2>7
<1> QED
  BY <1>1, <1>2, <1>3, <1>4, InjectionStep, Typing, Playing, PTL DEF Spec

-----------------------------------------------------------------------------
(* Padding.  With whole packets the two halves of alt_buffer have the same *)
(* length and the second is chosen only while the first is sent.           *)

HalvesInv ==
  Resolution24 =>
    /\ data.length = InjectionSize
    /\ data.start \in {0, InjectionSize}
    /\ offset = 1 => data.start = 0

LEMMA HalvesStep ==
  ASSUME ~Fractional, offset \in {0, 1}, HalvesInv, [Next]_vars
  PROVE  HalvesInv'
<1>1. DataSize = InjectionSize
  BY DEF DataSize, LongTurn
<1>2. CASE UNCHANGED <<data, offset>>
  BY <1>2 DEF HalvesInv
<1>3. CASE StopInjection
  BY <1>3 DEF StopInjection, HalvesInv, Silence
<1>4. CASE Underrun \/ Inject
  <2> SUFFICES ASSUME Resolution24 PROVE HalvesInv'
    BY DEF HalvesInv
  <2>1. data' = AltHalf /\ offset' = 1 - offset
    BY <1>4 DEF Underrun, Inject, NextData, NextTurn
  <2>2. /\ data'.length = InjectionSize
        /\ data'.start = IF offset = 0 THEN 0 ELSE InjectionSize
    BY <1>1, <2>1 DEF AltHalf, HalvesInv
  <2> QED
    BY <2>1, <2>2 DEF HalvesInv
<1>5. CASE RepeatInjection
  BY <1>2, <1>5 DEF RepeatInjection
<1>6. CASE UNCHANGED vars
  BY <1>2, <1>6 DEF vars, outputVars
<1> QED
  BY <1>2, <1>3, <1>4, <1>5, <1>6, OutsideInterrupt DEF DmaComplete, outputVars

(* A packet is padded into the half of alt_buffer that is not being sent,  *)
(* from the second packet after a stop on.                                 *)
THEOREM HalvesAlternate == ~Fractional => (Spec => PaddingAlternates)
<1> SUFFICES ASSUME ~Fractional PROVE Spec => PaddingAlternates
  OBVIOUS
<1>1. Init => HalvesInv
  BY DEF Init, HalvesInv, Silence
<1>2. TypeOK /\ HalvesInv /\ [Next]_vars => HalvesInv'
  BY HalvesStep DEF TypeOK
<1>3. TypeOK /\ HalvesInv /\ [Next]_vars
        => [Padding /\ (offset = 1 \/ data.start > 0) => Disjoint(data', dma')]_vars
  <2> SUFFICES ASSUME TypeOK, HalvesInv, Next, Padding, offset = 1 \/ data.start > 0
               PROVE  Disjoint(data', dma')
    OBVIOUS
  <2>1. Inject
    BY OutsideInterrupt
    DEF Padding, DmaComplete, StopInjection, RepeatInjection, Underrun, ringVars
  <2>2. dma' = data /\ data' = AltHalf /\ DataSize = InjectionSize
    BY <2>1 DEF Inject, NextTurn, NextData, Padding, DataSize, LongTurn
  <2>3. /\ data.length = InjectionSize /\ offset \in {0, 1}
        /\ data.start = IF offset = 0 THEN InjectionSize ELSE 0
    BY SizesAssumption DEF HalvesInv, Padding, TypeOK
  <2>4. /\ data'.length = InjectionSize
        /\ data'.start = IF offset = 0 THEN 0 ELSE InjectionSize
    BY <2>2, <2>3 DEF AltHalf
  <2> QED
    BY <2>2, <2>3, <2>4, SizesAssumption DEF Disjoint
<1> QED
  BY <1>1, <1>2, <1>3, Typing, PTL DEF Spec, PaddingAlternates
=============================================================================
