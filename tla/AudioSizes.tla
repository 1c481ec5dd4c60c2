------------------------------ MODULE AudioSizes ------------------------------
(***************************************************************************)
(* The byte counts of the playback applications, as the preprocessor, the  *)
(* initialisation of the ring and of the speaker compute them, and the     *)
(* walk of rd_ptr over the ring under the 44.1 kHz schedule (nine packets  *)
(* of 44 samples, then one of 45) or the plain one.  Playback abstracts    *)
(* these numbers; this module checks them for every build.                 *)
(***************************************************************************)
EXTENDS Integers

CONSTANTS Frequencies,   \* of the builds, in hertz
          Resolutions,   \* of the builds, in bytes per sample
          Channels       \* USBD_AUDIO_PLAY_CHANNEL_COUNT

VARIABLES build,     \* the frequency and resolution compiled in
          rd,        \* rd_ptr
          count44,   \* injection_44_count
          stopping,  \* an underrun has asked for the stop that resets the ring
          debt       \* history: thousandths of a sample that the reads since the
                     \* ring was reset are short of build.frequency a second

scheduleVars == <<build, rd, count44, stopping, debt>>

U16(n) == n % 65536
MemorySize == 10 * 1024          \* USBD_AUDIO_PLAYBACK_BUFFER_SIZE

(* Bytes of one millisecond of sound, whole samples only. *)
MsPacketSize(frequency, resolution) ==
  (frequency \div 1000) * Channels * resolution

(* The schedule of the interrupt knows whole samples a millisecond, and the *)
(* one fraction of 44.1 kHz; a full-speed isochronous endpoint takes at     *)
(* most 1023 bytes.                                                         *)
ASSUME BuildsAssumption ==
  /\ Channels \in Nat \ {0}
  /\ Resolutions \subseteq {2, 3}
  /\ Frequencies \subseteq { 1000 * k : k \in 1 .. 1023 } \cup {44100}
  /\ \A f \in Frequencies, r \in Resolutions : MsPacketSize(f + 999, r) <= 1023

PacketLength(b) == U16(MsPacketSize(b.frequency, b.resolution))
MaxPacketLength(b) == U16(MsPacketSize(b.frequency + 999, b.resolution))
SampleLength(b) == Channels * b.resolution

(* USBD_AUDIO_PLAY_EPOUT_FS_MPS, the size of the endpoint and of a frame buffer. *)
EndpointSize(b) == MsPacketSize(b.frequency + 999, b.resolution)

Margin(b) == IF MaxPacketLength(b) > PacketLength(b) THEN MaxPacketLength(b) ELSE 0

RingSizeNotRounded(b) == U16(MemorySize - Margin(b))   \* seeded fault

RingSizeWithoutMargin(b) ==   \* seeded fault
  U16((MemorySize \div MaxPacketLength(b)) * MaxPacketLength(b))

RingSize(b) ==
  U16(((MemorySize - Margin(b)) \div MaxPacketLength(b)) * MaxPacketLength(b))

Is44(b) == b.frequency = 44100
Is24(b) == b.resolution = 3

InjectionNotPadded(b) == PacketLength(b)   \* seeded fault: 24 bits kept as they are

(* 24-bit samples are sent to the SAI in 32 bits. *)
InjectionSize(b) ==
  IF Is24(b) THEN MsPacketSize(b.frequency, b.resolution + 1) ELSE PacketLength(b)

LongPacketLength(b) == PacketLength(b) + SampleLength(b)

AltHalfSize(b) ==
  CASE Is44(b) /\ Is24(b)  -> InjectionSize(b) + 4 * Channels
    [] Is44(b) /\ ~Is24(b) -> LongPacketLength(b)
    [] OTHER               -> InjectionSize(b)

InputThreshold(b) == RingSize(b) \div 2

-----------------------------------------------------------------------------

Init ==
  /\ build \in [frequency : Frequencies, resolution : Resolutions]
  /\ rd = 0
  /\ count44 = 0
  /\ stopping = FALSE
  /\ debt = 0

LongTurnLate == Is44(build) /\ count44 >= 10   \* seeded fault: ten short packets

LongTurn == Is44(build) /\ count44 >= 9

DataSize == IF LongTurn THEN AltHalfSize(build) ELSE InjectionSize(build)
ReadLength == IF LongTurn THEN LongPacketLength(build) ELSE PacketLength(build)

(* Bytes that the interrupt prepares from n bytes of the ring: each sample *)
(* of three gets a fourth.                                                 *)
PaddedLength(n) == IF Is24(build) THEN (n \div 3) * 4 ELSE n

(* The schedule moves before the underrun check, whatever that finds. *)
StepCount ==
  /\ ~stopping
  /\ count44' = IF ~Is44(build) THEN count44 ELSE IF LongTurn THEN 0 ELSE count44 + 1
  /\ UNCHANGED build

(* A turn of the DMA interrupt that reads a packet. *)
Inject ==
  /\ StepCount
  /\ rd' = IF rd + ReadLength >= RingSize(build)
             THEN rd + ReadLength - RingSize(build) ELSE rd + ReadLength
  /\ debt' = debt + build.frequency - 1000 * (ReadLength \div SampleLength(build))
  /\ UNCHANGED stopping

(* A turn that finds too little in the ring reads nothing and stops. *)
Underrun ==
  /\ StepCount
  /\ stopping' = TRUE
  /\ UNCHANGED <<rd, debt>>

(* The ring is reset after an underrun or an overrun; the count is not. *)
Restart ==
  /\ rd' = 0
  /\ debt' = 0
  /\ stopping' = FALSE
  /\ UNCHANGED <<build, count44>>

Next == Inject \/ Underrun \/ Restart

Spec == Init /\ [][Next]_scheduleVars

-----------------------------------------------------------------------------
(* Properties *)

(* Every packet is injected whole: the size given to the DMA is that of    *)
(* what is prepared for it, padding and long packets included, and rd_ptr  *)
(* stops a packet short of the end of the ring, whose size the             *)
(* initialisation rounds to whole packets; at 44.1 kHz, where packets do   *)
(* straddle the end, both copies of the interrupt stay inside the ring.    *)
PacketsFit ==
  /\ DataSize = PaddedLength(ReadLength)
  /\ RingSize(build) - rd >= IF Is44(build) THEN 1 ELSE ReadLength
  /\ ReadLength <= RingSize(build)

(* The schedule keeps the pace of the host: after any number of reads      *)
(* since the ring was reset less than one sample of build.frequency        *)
(* samples a second is missing or too many, wherever in the schedule the   *)
(* underruns before, which used up turns without a read, have left it.     *)
KeepsPace == -1000 < debt /\ debt < 1000

(* The memory behind the ring holds the ring and one long packet more, so  *)
(* that a packet that begins inside the ring ends inside the memory.       *)
MarginFits == RingSize(build) + Margin(build) <= MemorySize

(* What Playback assumes of its constants holds for this build: the packet *)
(* fits the endpoint, padding never shrinks it, and the threshold leaves   *)
(* the reader the packets an underrun check may leave behind.  A host that *)
(* sends four packets between two completions does not reach the threshold *)
(* by them alone, and the ring has a place for four beyond the threshold.  *)
PlaybackAssumptions ==
  /\ LongPacketLength(build) <= EndpointSize(build) \/ ~Is44(build)
  /\ PacketLength(build) <= InjectionSize(build)
  /\ InjectionSize(build) <= AltHalfSize(build)
  /\ Is24(build) => 3 * InjectionSize(build) = 4 * PacketLength(build)
  /\ InputThreshold(build) >= InjectionSize(build) + MaxPacketLength(build)
  /\ 4 * MaxPacketLength(build) < InputThreshold(build)
  /\ InputThreshold(build) - 1 + 4 * MaxPacketLength(build) <= RingSize(build)
  /\ ~Is44(build) => RingSize(build) % PacketLength(build) = 0
=============================================================================
