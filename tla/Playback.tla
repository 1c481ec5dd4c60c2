------------------------------- MODULE Playback -------------------------------
(***************************************************************************)
(* The playback path of the UAC 1.0 speaker applications, from the USB     *)
(* frame to the SAI: the circular buffer that the superloop fills in       *)
(* USBD_AUDIO_PlaybackStreamFrameDone and that the SAI DMA interrupt       *)
(* empties in BSP_AUDIO_OUT_TransferComplete_CallBack.                     *)
(*                                                                         *)
(* The DMA interrupt has a higher priority than everything else, so it is  *)
(* one atomic step; the callback in the superloop takes no lock and is     *)
(* split at every access to a variable that the interrupt also uses.  The  *)
(* frame buffers are the ones of AudioReadStream, instantiated here.       *)
(*                                                                         *)
(* Sizes and offsets count any unit that divides the real byte counts.     *)
(***************************************************************************)
EXTENDS Integers

CONSTANTS
  BufferSize,       \* audio_speaker_buffer.size, the regular part of the ring
  BufferAllocated,  \* size of the memory behind it, the margin included
  PacketLength,     \* audio_speaker_specific.packet_length, one millisecond
  PacketLengthMax,  \* packet_length_max_44_1
  InjectionSize,    \* injection_size, one millisecond as sent to the SAI
  AltHalfSize,      \* alt_buf_half_size
  AltAllocated,     \* size of the memory behind alt_buffer
  InputThreshold,   \* input_threshold
  Resolution24,     \* 24-bit samples, padded to 32 bits before injection
  Fractional,       \* 44.1 kHz: one packet in NominalRun + 1 is a sample longer
  NominalRun,       \* 9
  FrameCount,       \* frame buffers of the USB stream
  HostLengths,      \* lengths of the packets the host sends
  MaxAhead          \* packets received between two DMA completions, at most

ASSUME SizesAssumption ==
  /\ {BufferSize, PacketLength, InjectionSize, PacketLengthMax, AltHalfSize,
      AltAllocated, BufferAllocated} \subseteq Nat \ {0}
  /\ InputThreshold \in Nat
  /\ InputThreshold >= InjectionSize + PacketLengthMax
  /\ PacketLength <= PacketLengthMax
  /\ PacketLengthMax <= BufferSize
  /\ BufferSize <= BufferAllocated
  /\ PacketLength <= InjectionSize
  /\ InjectionSize <= AltHalfSize
  /\ \/ Resolution24
     \/ InjectionSize = PacketLength /\ AltHalfSize = PacketLengthMax

ASSUME KindAssumption ==
  /\ Resolution24 \in BOOLEAN
  /\ Fractional \in BOOLEAN
  /\ NominalRun \in Nat

ASSUME HostAssumption ==
  /\ HostLengths \subseteq 1 .. BufferSize
  /\ FrameCount \in Nat /\ FrameCount >= 2
  /\ MaxAhead \in Nat \ {0}

(* Without fractional packets the ring holds a whole number of packets. *)
ASSUME TilingAssumption ==
  Fractional \/ \E n \in 1 .. BufferSize : BufferSize = n * PacketLength

-----------------------------------------------------------------------------

VARIABLES
  configured, endpoint, taskState, transfer, actualLength,
  frameLength, transferPos, accessPos,   \* the USB stream, see AudioReadStream
  pc,            \* where the superloop is; "idle" outside frame_done
  frame,         \* frame_length: length of the frame being copied
  wrAhead,       \* the comparison at the head of a size macro
  count,         \* buffer_data_count
  free,          \* buffer_free_size
  loadedFlags,   \* flags, as read by the |= that sets THRESHOLD_REACHED
  rd, wr,        \* rd_ptr and wr_ptr of the ring
  flags,         \* audio_speaker_specific.flags
  speaker,       \* audio_speaker_state
  stopCmd,       \* SPEAKER_CMD_STOP is set in cmd
  data,          \* what the next DMA transfer will send: data and data_size
  offset,        \* half of alt_buffer the next padded packet goes to
  count44,       \* injection_44_count
  dma,           \* what the DMA is sending now
  unread,        \* history: bytes of the ring written and not yet read
  beenFull,      \* history: a packet has filled the ring to the last byte
  ahead,         \* packets received since the last DMA completion
  struck         \* a DMA completion has interrupted this call of frame_done

usbVars     == <<configured, endpoint, taskState, transfer, actualLength,
                 frameLength, transferPos, accessPos>>
localVars   == <<frame, wrAhead, count, free, loadedFlags>>
ringVars    == <<rd, wr, unread>>
speakerVars == <<flags, speaker, stopCmd>>
outputVars  == <<data, offset, count44, dma>>
clockVars   == <<beenFull, ahead, struck>>
vars == <<usbVars, pc, localVars, ringVars, speakerVars, outputVars, clockVars>>

Stream == INSTANCE AudioReadStream WITH
            PacketLengths <- HostLengths, inCallback <- (pc # "idle")

THRESHOLD == "USBD_AUDIO_THRESHOLD_REACHED"
RESTART   == "USBD_AUDIO_RESTART_REQUIRED"

(* The points of frame_done between which the DMA interrupt may strike. *)
Points ==
  {"idle", "get", "check", "dropRd", "dropWr", "dropFlags",
   "copy", "wrap", "margin", "countCompare", "countRead", "normalise",
   "threshold", "start", "loadFlags", "storeFlags",
   "freeCompare", "freeRead", "overrun", "setRestart", "recheck",
   "resetRd", "resetWr", "resetFlags", "release"}

(* The points of a call of frame_done that may have started the speaker. *)
AfterStart ==
  {"loadFlags", "storeFlags", "freeCompare", "freeRead", "overrun",
   "setRestart", "recheck", "resetRd", "resetWr", "resetFlags"}

Word == 256 * 256   \* values of a uint16_t

Regions == [memory : {"alt", "ring"}, start : Nat, length : Nat]

TypeOK ==
  /\ pc \in Points
  /\ frame \in HostLengths \cup {0}
  /\ wrAhead \in BOOLEAN
  /\ count \in 0 .. Word - 1
  /\ free \in 0 .. Word - 1
  /\ loadedFlags \in SUBSET {THRESHOLD, RESTART}
  /\ rd \in 0 .. BufferSize - 1
  /\ wr \in 0 .. (IF pc = "wrap" THEN 2 * BufferSize ELSE BufferSize)
  /\ flags \in SUBSET {THRESHOLD, RESTART}
  /\ speaker \in {"INITIALIZED", "STARTED", "STOPPED"}
  /\ stopCmd \in BOOLEAN
  /\ data \in Regions
  /\ offset \in {0, 1}
  /\ count44 \in 0 .. NominalRun
  /\ dma \in Regions
  /\ unread \in -1 .. BufferSize
  /\ beenFull \in BOOLEAN
  /\ ahead \in 0 .. MaxAhead
  /\ struck \in BOOLEAN

-----------------------------------------------------------------------------
(* Helpers *)

(* The locals of the macros and of frame_done are uint16_t. *)
U16(x) == x % Word

(* History of unread bytes: a write that laps the reader leaves only what it *)
(* wrote past the read pointer; a read past the write pointer leaves -1.     *)
Written(n) == IF unread < 0 THEN -1
              ELSE IF unread + n > BufferSize THEN unread + n - BufferSize
              ELSE unread + n
Consumed(n) == IF unread < n THEN -1 ELSE unread - n

(* Seeded faults, here and below: the form a slip in the code would give   *)
(* the definition that follows.  No run but a mutation uses them.          *)
AdvanceWithoutWrap(r, length) == r + length
NeverUnderrun(filled) == FALSE

FilledSize(w, r) == IF w >= r THEN w - r ELSE w + BufferSize - r

Advance(r, length) ==
  IF r + length >= BufferSize THEN r + length - BufferSize ELSE r + length

UnderrunHappened(filled) == filled < InjectionSize

Silence == [memory |-> "alt", start |-> 0, length |-> InjectionSize]

Goto(from, to) == pc = from /\ pc' = to

(* Locals die with the call; they are cleared to keep one idle state. *)
ForgetLocals ==
  /\ frame' = 0
  /\ wrAhead' = FALSE
  /\ count' = 0
  /\ free' = 0
  /\ loadedFlags' = {}

-----------------------------------------------------------------------------
(* Initial state: USBD_AUDIO_PlaybackInit has started the injection of the *)
(* silent alternate buffer; the host has not configured the device yet.    *)

Init ==
  /\ pc = "idle"
  /\ Stream!Init
  /\ frame = 0
  /\ wrAhead = FALSE
  /\ count = 0
  /\ free = 0
  /\ loadedFlags = {}
  /\ rd = 0
  /\ wr = 0
  /\ flags = {}
  /\ speaker = "INITIALIZED"
  /\ stopCmd = FALSE
  /\ data = Silence
  /\ offset = 0
  /\ count44 = 0
  /\ dma = Silence
  /\ unread = 0
  /\ beenFull = FALSE
  /\ ahead = 0
  /\ struck = FALSE

-----------------------------------------------------------------------------
(* The USB side: control requests and the read task run in the superloop,  *)
(* between two calls of frame_done; packets and disconnections are         *)
(* interrupts.  USBD_AUDIO_PlaybackStreamChange changes no variable of the *)
(* ring or of the speaker: opening only starts the reception, and the      *)
(* branch that would stop the speaker on closing compares two different    *)
(* constants and is never taken.                                           *)

audioVars == <<localVars, ringVars, speakerVars, outputVars>>

ControlRequest ==
  /\ UNCHANGED pc
  /\ Stream!SetConfiguration \/ Stream!OpenStream \/ Stream!CloseStream
  /\ UNCHANGED <<audioVars, clockVars>>

Disconnect ==
  /\ UNCHANGED pc
  /\ Stream!Disconnect
  /\ UNCHANGED <<audioVars, clockVars>>

PacketArrives ==
  /\ ahead < MaxAhead
  /\ ahead' = ahead + 1
  /\ UNCHANGED pc
  /\ \E length \in HostLengths : Stream!PacketArrives(length)
  /\ UNCHANGED <<audioVars, beenFull, struck>>

ArmTransfer ==
  /\ UNCHANGED pc
  /\ Stream!ArmTransfer
  /\ UNCHANGED <<audioVars, clockVars>>

TakePacket ==
  /\ Goto("idle", "get")
  /\ Stream!TakePacket
  /\ struck' = FALSE
  /\ UNCHANGED <<audioVars, beenFull, ahead>>

-----------------------------------------------------------------------------
(* USBD_AUDIO_PlaybackStreamFrameDone, step by step *)

GetFrame ==
  /\ pc = "get"
  /\ \/ /\ Stream!FrameReady
        /\ frame' = frameLength[accessPos]
        /\ pc' = "check"
     \/ /\ ~Stream!FrameReady
        /\ pc' = "release"
        /\ UNCHANGED frame
  /\ UNCHANGED <<usbVars, wrAhead, count, free, loadedFlags,
                 ringVars, speakerVars, outputVars, clockVars>>

ResetOnlyFlags ==   \* seeded fault: the pointers are not reset
  /\ pc = "check"
  /\ pc' = IF RESTART \in flags THEN "dropFlags" ELSE "copy"
  /\ UNCHANGED <<usbVars, audioVars, clockVars>>

CheckRestart ==
  /\ pc = "check"
  /\ pc' = IF RESTART \in flags THEN "dropRd" ELSE "copy"
  /\ UNCHANGED <<usbVars, audioVars, clockVars>>

(* The packet is copied behind wr, and wr moves past it. *)
CopyFrame ==
  /\ Goto("copy", "wrap")
  /\ wr' = wr + frame
  /\ unread' = Written(frame)
  /\ beenFull' = (beenFull \/ unread + frame >= BufferSize)
  /\ UNCHANGED <<usbVars, localVars, rd, speakerVars, outputVars, ahead, struck>>

WrapWrite ==
  /\ pc = "wrap"
  /\ \/ /\ wr > BufferSize
        /\ wr' = wr - BufferSize
        /\ pc' = "margin"
     \/ /\ wr <= BufferSize
        /\ pc' = "countCompare"
        /\ UNCHANGED wr
  /\ UNCHANGED <<usbVars, localVars, rd, unread, speakerVars, outputVars, clockVars>>

(* What spilled into the margin is copied to the head of the ring. *)
CopyMargin ==
  /\ Goto("margin", "countCompare")
  /\ UNCHANGED <<usbVars, audioVars, clockVars>>

(* FILLED_SIZE and FREE_SIZE read the pointers twice: to compare them and  *)
(* to subtract them.                                                       *)
ComparePointers ==
  /\ Goto("countCompare", "countRead") \/ Goto("freeCompare", "freeRead")
  /\ wrAhead' = (wr >= rd)
  /\ UNCHANGED <<usbVars, frame, count, free, loadedFlags,
                 ringVars, speakerVars, outputVars, clockVars>>

CountFilled ==
  /\ Goto("countRead", "normalise")
  /\ count' = U16(IF wrAhead THEN wr - rd ELSE wr + BufferSize - rd)
  /\ UNCHANGED <<usbVars, frame, wrAhead, free, loadedFlags,
                 ringVars, speakerVars, outputVars, clockVars>>

NeverNormalise ==   \* seeded fault: wr_ptr stays at the end of the ring
  /\ Goto("normalise", "threshold")
  /\ UNCHANGED <<usbVars, audioVars, clockVars>>

NormaliseWrite ==
  /\ Goto("normalise", "threshold")
  /\ wr' = IF wr = BufferSize THEN 0 ELSE wr
  /\ UNCHANGED <<usbVars, localVars, rd, unread, speakerVars, outputVars, clockVars>>

CheckThreshold ==
  /\ pc = "threshold"
  /\ pc' = IF THRESHOLD \notin flags /\ count >= InputThreshold
             THEN "start" ELSE "freeCompare"
  /\ UNCHANGED <<usbVars, audioVars, clockVars>>

(* AUDIO_SpeakerStart: mute and volume go to the codec over I2C, which may  *)
(* take several DMA completions, and only then the state is changed.        *)
StartSpeaker ==
  /\ Goto("start", "loadFlags")
  /\ speaker' = "STARTED"
  /\ struck' = FALSE
  /\ UNCHANGED <<usbVars, localVars, ringVars, flags, stopCmd, outputVars,
                 beenFull, ahead>>

LoadFlags ==
  /\ Goto("loadFlags", "storeFlags")
  /\ loadedFlags' = flags
  /\ UNCHANGED <<usbVars, frame, wrAhead, count, free,
                 ringVars, speakerVars, outputVars, clockVars>>

StoreFlags ==
  /\ Goto("storeFlags", "freeCompare")
  /\ flags' = loadedFlags \cup {THRESHOLD}
  /\ UNCHANGED <<usbVars, localVars, ringVars, speaker, stopCmd, outputVars, clockVars>>

ComputeFree ==
  /\ Goto("freeRead", "overrun")
  /\ free' = U16(IF wrAhead THEN rd + BufferSize - wr ELSE rd - wr)
  /\ UNCHANGED <<usbVars, frame, wrAhead, count, loadedFlags,
                 ringVars, speakerVars, outputVars, clockVars>>

CheckOverrun ==
  /\ pc = "overrun"
  /\ \/ /\ free < PacketLength
        /\ stopCmd' = TRUE
        /\ pc' = "setRestart"
     \/ /\ free >= PacketLength
        /\ pc' = "recheck"
        /\ UNCHANGED stopCmd
  /\ UNCHANGED <<usbVars, localVars, ringVars, flags, speaker, outputVars, clockVars>>

SetRestart ==
  /\ Goto("setRestart", "recheck")
  /\ flags' = {RESTART}
  /\ UNCHANGED <<usbVars, localVars, ringVars, speaker, stopCmd, outputVars, clockVars>>

RecheckRestart ==
  /\ pc = "recheck"
  /\ pc' = IF RESTART \in flags THEN "resetRd" ELSE "release"
  /\ UNCHANGED <<usbVars, audioVars, clockVars>>

(* Both branches that honour a restart reset the pointers and the flags.   *)
ResetRead ==
  /\ Goto("dropRd", "dropWr") \/ Goto("resetRd", "resetWr")
  /\ rd' = 0
  /\ unread' = 0
  /\ UNCHANGED <<usbVars, localVars, wr, speakerVars, outputVars, clockVars>>

ResetWrite ==
  /\ Goto("dropWr", "dropFlags") \/ Goto("resetWr", "resetFlags")
  /\ wr' = 0
  /\ UNCHANGED <<usbVars, localVars, rd, unread, speakerVars, outputVars, clockVars>>

ResetFlags ==
  /\ Goto("resetFlags", "release")
  /\ flags' = {}
  /\ UNCHANGED <<usbVars, localVars, ringVars, speaker, stopCmd, outputVars, clockVars>>

DropKeepsFlags ==   \* seeded fault: flags is not cleared
  /\ Goto("dropFlags", "idle")
  /\ ForgetLocals
  /\ UNCHANGED <<usbVars, ringVars, speakerVars, outputVars, clockVars>>

(* The early branch returns here, and does not free the frame. *)
DropFrame ==
  /\ Goto("dropFlags", "idle")
  /\ flags' = {}
  /\ ForgetLocals
  /\ UNCHANGED <<usbVars, ringVars, speaker, stopCmd, outputVars, clockVars>>

FreesAgain ==   \* seeded fault: the callback goes on after the frame is freed
  /\ pc = "release"
  /\ UNCHANGED pc
  /\ Stream!FreeFrame
  /\ UNCHANGED <<configured, endpoint, taskState, transfer, actualLength,
                 audioVars, clockVars>>

ReleaseFrame ==
  /\ Goto("release", "idle")
  /\ Stream!FreeAndReturn
  /\ ForgetLocals
  /\ UNCHANGED <<ringVars, speakerVars, outputVars, clockVars>>

FrameDone ==
  \/ GetFrame \/ CheckRestart \/ CopyFrame \/ WrapWrite \/ CopyMargin
  \/ ComparePointers \/ CountFilled \/ NormaliseWrite
  \/ CheckThreshold \/ StartSpeaker \/ LoadFlags \/ StoreFlags
  \/ ComputeFree \/ CheckOverrun \/ SetRestart \/ RecheckRestart
  \/ ResetRead \/ ResetWrite \/ ResetFlags \/ DropFrame \/ ReleaseFrame

-----------------------------------------------------------------------------
(* BSP_AUDIO_OUT_TransferComplete_CallBack, in the DMA interrupt.  The     *)
(* speaker is never OFF once the superloop runs, and SPEAKER_CMD_EXIT is   *)
(* set by AUDIO_SpeakerDeInit only, which nothing calls.                   *)

StopKeepsData ==   \* seeded fault: the ring is still sent after the stop
  /\ stopCmd
  /\ stopCmd' = FALSE
  /\ speaker' = "STOPPED"
  /\ dma' = data
  /\ UNCHANGED <<ringVars, flags, data, offset, count44>>

(* A pending stop: back to silence. *)
StopInjection ==
  /\ stopCmd
  /\ stopCmd' = FALSE
  /\ speaker' = "STOPPED"
  /\ data' = Silence
  /\ dma' = Silence
  /\ offset' = 0
  /\ UNCHANGED <<ringVars, flags, count44>>

(* Not started: the same data is sent again. *)
RepeatInjection ==
  /\ ~stopCmd
  /\ speaker # "STARTED"
  /\ dma' = data
  /\ UNCHANGED <<ringVars, speakerVars, data, offset, count44>>

(* Started: the prepared data is sent, and the next one chosen. *)
LongTurn == Fractional /\ count44 >= NominalRun

DataSize == IF LongTurn THEN AltHalfSize ELSE InjectionSize

ReadLength == IF LongTurn THEN PacketLengthMax ELSE PacketLength

(* The 44.1 kHz count, and the half of alt_buffer, move in either case. *)
NextTurn ==
  /\ count44' = IF ~Fractional THEN count44 ELSE IF LongTurn THEN 0 ELSE count44 + 1
  /\ offset' = IF Resolution24 THEN 1 - offset ELSE offset
  /\ dma' = data

AltHalfNeverMoves ==   \* seeded fault: the second half is never used
  [memory |-> "alt", length |-> DataSize, start |-> 0]

AltHalf == [memory |-> "alt", length |-> DataSize,
            start |-> IF offset = 0 THEN 0 ELSE data.length]

UnderrunWithoutStop ==   \* seeded fault: the speaker is not stopped
  /\ ~stopCmd
  /\ speaker = "STARTED"
  /\ UnderrunHappened(FilledSize(wr, rd))
  /\ NextTurn
  /\ flags' = {RESTART}
  /\ UNCHANGED <<ringVars, speaker, stopCmd, data>>

UnderrunWithoutRestart ==   \* seeded fault: no restart is required
  /\ ~stopCmd
  /\ speaker = "STARTED"
  /\ UnderrunHappened(FilledSize(wr, rd))
  /\ NextTurn
  /\ stopCmd' = TRUE
  /\ UNCHANGED <<ringVars, speaker, flags, data>>

Underrun ==
  /\ ~stopCmd
  /\ speaker = "STARTED"
  /\ UnderrunHappened(FilledSize(wr, rd))
  /\ NextTurn
  /\ stopCmd' = TRUE
  /\ flags' = {RESTART}
  /\ data' = IF Resolution24 THEN AltHalf ELSE [data EXCEPT !.length = DataSize]
  /\ UNCHANGED <<ringVars, speaker>>

NextDataStraddles ==   \* seeded fault: the distance to the end is not looked at
  IF Resolution24 THEN AltHalf
  ELSE [memory |-> "ring", start |-> rd, length |-> DataSize]

(* At 44.1 kHz a packet that straddles the end of the ring goes through    *)
(* the alternate buffer; otherwise 16-bit samples are sent from the ring.  *)
NextData ==
  IF Resolution24 THEN AltHalf
  ELSE IF Fractional /\ BufferSize - rd < DataSize
       THEN [memory |-> "alt", start |-> 0, length |-> DataSize]
       ELSE [memory |-> "ring", start |-> rd, length |-> DataSize]

Inject ==
  /\ ~stopCmd
  /\ speaker = "STARTED"
  /\ ~UnderrunHappened(FilledSize(wr, rd))
  /\ NextTurn
  /\ data' = NextData
  /\ rd' = Advance(rd, ReadLength)
  /\ unread' = Consumed(ReadLength)
  /\ UNCHANGED <<wr, speakerVars>>

(* A call of frame_done is shorter than the millisecond between two        *)
(* completions, the codec's part of it apart.                              *)
DmaComplete ==
  /\ pc = "idle" \/ pc = "start" \/ ~struck
  /\ StopInjection \/ RepeatInjection \/ Underrun \/ Inject
  /\ ahead' = 0
  /\ struck' = (pc # "idle")
  /\ UNCHANGED <<usbVars, pc, localVars, beenFull>>

-----------------------------------------------------------------------------

Superloop == ArmTransfer \/ TakePacket \/ FrameDone

Next ==
  \/ ControlRequest \/ Disconnect \/ PacketArrives
  \/ Superloop
  \/ DmaComplete

(* The superloop always comes round, and the SAI clock always asks for the *)
(* next block.  Nothing is assumed of the host in Spec; StreamingSpec adds *)
(* that the host answers an armed transfer.                                *)
Spec == Init /\ [][Next]_vars /\ WF_vars(Superloop) /\ WF_vars(DmaComplete)

StreamingSpec == Spec /\ WF_vars(PacketArrives)

-----------------------------------------------------------------------------
(* Safety properties *)

(* What the DMA sends from the ring ends inside its regular part: the wrap *)
(* of rd_ptr in the interrupt keeps a whole packet before the end, at      *)
(* 44.1 kHz a packet that would straddle the end goes through alt_buffer,  *)
(* and a size changed by an underrun is replaced by the stop it raises.    *)
RingInjectionInBounds ==
  dma.memory = "ring" => dma.start + dma.length <= BufferSize

(* What the DMA sends from alt_buffer lies inside its memory, which is     *)
(* said to contain two packets when the samples are padded.                *)
AltInjectionInBounds ==
  dma.memory = "alt" => dma.start + dma.length <= AltAllocated

(* frame_done never copies a packet past the memory of the ring: wr_ptr is *)
(* brought back before the next packet, for every packet the host sends.   *)
WriteInBounds == pc = "copy" => wr + frame <= BufferAllocated

(* The interrupt never moves rd_ptr past wr_ptr, which would make the ring *)
(* look full and play a whole lap of old samples: the underrun check comes *)
(* first, and a reset of the pointers is never seen half done.  So it is   *)
(* until the ring is first full, which passes for empty (FullIsOverrun).   *)
NeverPlaysStale == ~beenFull => unread >= 0

(* While a restart is required the interrupt is kept away from the ring:   *)
(* the stop is pending or has been honoured.  frame_done relies on it to   *)
(* reset rd_ptr, wr_ptr and flags one after the other without a lock.  A   *)
(* call that has just started the speaker is excepted: it ends with the    *)
(* reset.                                                                  *)
RestartStopsReader ==
  RESTART \in flags /\ pc \notin AfterStart => stopCmd \/ speaker = "STOPPED"

(* Between two calls of frame_done the speaker only reads a ring that has  *)
(* reached the threshold: reading is blocked until then, and blocked again *)
(* by every stop.  An amount that was counted before a completion struck   *)
(* starts the speaker only if it is still there, until the ring is full.   *)
ReadAwaitsThreshold ==
  ~beenFull /\ pc = "idle" /\ speaker = "STARTED" => THRESHOLD \in flags \/ stopCmd

(* A ring without a free byte is found to be an overrun. *)
FullIsOverrun == pc = "overrun" /\ unread = BufferSize => free < PacketLength

Overlaps(start, length, region) ==
  /\ region.memory = "ring"
  /\ start < region.start + region.length
  /\ region.start < start + length

(* The two packets that rd_ptr has passed last may still be sent: beside   *)
(* what is unread and the packet to be copied they need a place too.       *)
RoomForSent == unread + frame + 2 * PacketLength <= BufferSize

(* As long as there is that room, frame_done never overwrites the samples  *)
(* that the DMA is sending or will send next, wherever the pointers stand, *)
(* unless the stop that silences them is already pending.  Nothing in the  *)
(* code keeps the room: the overrun check asks for one free packet, after  *)
(* the copy.                                                               *)
InjectionIntact ==
  ~beenFull /\ pc = "copy" /\ ~stopCmd /\ RoomForSent =>
    \A region \in {data, dma} : ~Overlaps(wr, frame, region)

(* A packet ignored because a restart was required is gone: when a packet  *)
(* is copied to the ring no older one waits in the frame buffers.          *)
IgnoredPacketIsGone ==
  pc = "copy" => \A i \in Stream!Slots \ {accessPos} : frameLength[i] = 0

(* The threshold that unblocks the reader is only remembered while the     *)
(* reader is unblocked or about to be stopped and reset: a stopped speaker *)
(* is always started again by the packets that follow, as long as the ring *)
(* has never been full.                                                    *)
StoppedWillRestart ==
  ~beenFull /\ pc = "idle" /\ speaker # "STARTED" => flags = {} \/ RESTART \in flags

-----------------------------------------------------------------------------
(* Action properties *)

(* The pending request to restart is only ever withdrawn with the pointers *)
(* reset, never by the superloop's read-modify-write of flags, as long as  *)
(* the ring has never been full.                                           *)
RestartNeverLost ==
  [][~beenFull /\ (RESTART \in flags \ flags') => wr = 0 /\ rd = 0]_vars

Disjoint(a, b) == a.start + a.length <= b.start \/ b.start + b.length <= a.start

(* The padding of an injection: the interrupt writes alt_buffer. *)
Padding == Resolution24 /\ rd' # rd /\ pc' = pc

(* A packet is padded into the half of alt_buffer that is not being sent.  *)
PaddingSparesInjection == [][Padding => Disjoint(data', dma')]_vars

(* Only the first packet padded after the silence of a stop goes where the *)
(* DMA is reading; from then on the two halves of alt_buffer alternate,    *)
(* whatever stops and restarts come in between.  So it is without          *)
(* fractional packets; a long packet reaches into the other half.          *)
PaddingAlternates ==
  [][Padding /\ (offset = 1 \/ data.start > 0) => Disjoint(data', dma')]_vars

-----------------------------------------------------------------------------
(* The application uses the frame buffers as the class expects: it obtains *)
(* and frees them from the callback only, and at most one per callback.    *)
UsesStream == Stream!Spec

-----------------------------------------------------------------------------
(* Liveness *)

(* As long as the stream stays open and the host keeps sending, playing is *)
(* always resumed, whatever underruns happen, unless the ring gets full.   *)
KeepsPlaying == <>[]endpoint /\ []~beenFull => []<>(speaker = "STARTED")

(* When the stream is closed for good, the speaker stops by itself: the    *)
(* remaining samples are played and the underrun stops it.                 *)
FallsSilent == <>[]~endpoint => <>[](speaker # "STARTED")
=============================================================================
