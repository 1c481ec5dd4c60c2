--------------------------- MODULE AudioSizesProofs ---------------------------
(***************************************************************************)
(* Theorems about AudioSizes, for every build: any number of whole kHz or  *)
(* 44.1 kHz, 16 or 24 bits, and any number of channels, as long as one     *)
(* millisecond fits a full-speed isochronous packet.                       *)
(***************************************************************************)
EXTENDS AudioSizes, Multiples

Builds == [frequency : Frequencies, resolution : Resolutions]

(* Samples of one millisecond, without the fraction. *)
Samples(b) == b.frequency \div 1000

(* Whole packets in the ring. *)
Packets(b) == (MemorySize - Margin(b)) \div MaxPacketLength(b)

-----------------------------------------------------------------------------
(* What the conversions of the preprocessor and of C yield *)

LEMMA Small == ASSUME NEW n \in Nat, n < 65536 PROVE U16(n) = n
<1>1. n % 65536 = n
  OBVIOUS
<1> QED
  BY <1>1 DEF U16

(* A whole number of packets divided by one is that number. *)
LEMMA WholeQuotient ==
  ASSUME NEW m \in Nat \ {0}, NEW k \in Nat
  PROVE  (k * m) \div m = k /\ (k * m) % m = 0
<1> DEFINE n == k * m
           q == n \div m
           r == n % m
<1>1. n \in Nat /\ q \in Int /\ r \in 0 .. m - 1 /\ n = q * m + r
  <2>1. n \in Nat
    OBVIOUS
  <2> HIDE DEF n
  <2> QED
    BY <2>1
<1>2. (k - q) * m = k * m - q * m
  <2> HIDE DEF n, q, r
  <2> QED
    BY <1>1
<1>3. (k - q) * m = r /\ k - q \in Int
  BY <1>1, <1>2
<1>4. k - q = 0 /\ r = 0
  BY <1>1, <1>3, LessThanOne
<1>5. q = k
  <2> HIDE DEF q
  <2> QED
    BY <1>1, <1>4
<1> QED
  BY <1>4, <1>5

(* The frequency, and the number of samples in a packet of either kind. *)
LEMMA FrequencyIs ==
  ASSUME NEW b \in Builds
  PROVE  /\ b.frequency \in Nat /\ Samples(b) \in Nat \ {0} /\ Samples(b) <= 1023
         /\ Is44(b) => b.frequency = 44100 /\ Samples(b) = 44
                       /\ (b.frequency + 999) \div 1000 = 45
         /\ ~Is44(b) => b.frequency = 1000 * Samples(b)
                        /\ (b.frequency + 999) \div 1000 = Samples(b)
<1>1. b.frequency \in { 1000 * k : k \in 1 .. 1023 } \cup {44100}
  BY BuildsAssumption DEF Builds
<1>2. CASE b.frequency = 44100
  BY <1>2 DEF Samples, Is44
<1>3. CASE b.frequency # 44100
  <2>1. PICK k \in 1 .. 1023 : b.frequency = 1000 * k
    BY <1>1, <1>3
  <2>2. k \in Nat \ {0} /\ k <= 1023
    BY <2>1
  <2>3. (1000 * k) \div 1000 = k /\ (1000 * k + 999) \div 1000 = k
    BY <2>2
  <2> QED
    BY <1>3, <2>1, <2>2, <2>3 DEF Samples, Is44
<1> QED
  BY <1>2, <1>3

(* The bytes of a sample and of the packets. *)
LEMMA LengthsAre ==
  ASSUME NEW b \in Builds
  PROVE  /\ SampleLength(b) \in Nat \ {0} /\ SampleLength(b) <= 1023
         /\ PacketLength(b) = Samples(b) * SampleLength(b)
         /\ PacketLength(b) \in Nat \ {0} /\ PacketLength(b) <= 1023
         /\ MaxPacketLength(b) = EndpointSize(b)
         /\ MaxPacketLength(b) \in Nat \ {0} /\ MaxPacketLength(b) <= 1023
         /\ Is44(b) => MaxPacketLength(b) = 45 * SampleLength(b)
         /\ ~Is44(b) => MaxPacketLength(b) = PacketLength(b)
<1> DEFINE f == b.frequency
           r == b.resolution
           s == SampleLength(b)
           k == Samples(b)
           j == (f + 999) \div 1000
<1>1. /\ f \in Frequencies /\ r \in Resolutions /\ r \in {2, 3}
      /\ Channels \in Nat \ {0}
      /\ MsPacketSize(f + 999, r) <= 1023
  <2>1. f \in Frequencies /\ r \in Resolutions
    BY DEF Builds
  <2> HIDE DEF f, r
  <2> QED
    BY <2>1, BuildsAssumption
<1>2. s \in Nat \ {0} /\ s = Channels * r
  BY <1>1 DEF SampleLength
<1>3. /\ k \in Nat \ {0} /\ k <= 1023 /\ j \in Nat \ {0} /\ j <= 1023 /\ k <= j
      /\ Is44(b) => k = 44 /\ j = 45
      /\ ~Is44(b) => j = k
  BY FrequencyIs
<1> HIDE DEF s, k, j
<1>4. MsPacketSize(f, r) = k * s
  <2>1. MsPacketSize(f, r) = k * Channels * r
    BY DEF MsPacketSize, k, Samples
  <2>2. k * Channels * r = k * (Channels * r)
    BY <1>1, <1>3
  <2> QED
    BY <1>2, <2>1, <2>2
<1>5. MsPacketSize(f + 999, r) = j * s
  <2>1. MsPacketSize(f + 999, r) = j * Channels * r
    BY DEF MsPacketSize, j
  <2>2. j * Channels * r = j * (Channels * r)
    BY <1>1, <1>3
  <2> QED
    BY <1>2, <2>1, <2>2
<1>6. /\ k * s \in Nat \ {0} /\ k * s <= 1023
      /\ j * s \in Nat \ {0} /\ j * s <= 1023
      /\ s \in Nat \ {0} /\ s <= 1023
  <2>1. PICK i \in Nat : k = 1 + i
    <3>1. k - 1 \in Nat /\ k = 1 + (k - 1)
      BY <1>3
    <3> QED
      BY <3>1
  <2>2. PICK d \in Nat : j = k + d
    <3>1. j - k \in Nat /\ j = k + (j - k)
      BY <1>3
    <3> QED
      BY <3>1
  <2>3. /\ k * s = s + i * s /\ i * s \in Nat
        /\ j * s = k * s + d * s /\ d * s \in Nat
    BY <1>2, <2>1, <2>2
  <2>4. j * s <= 1023
    BY <1>1, <1>5
  <2>5. s >= 1 /\ s \in Int
    BY <1>2
  <2>6. k * s \in Nat /\ j * s \in Nat
    BY <1>2, <1>3
  <2> HIDE DEF r, f
  <2> QED
    BY <2>3, <2>4, <2>5, <2>6
<1>7. /\ PacketLength(b) = k * s
      /\ MaxPacketLength(b) = j * s
      /\ EndpointSize(b) = j * s
  <2>1. U16(k * s) = k * s /\ U16(j * s) = j * s
    BY <1>6, Small
  <2> QED
    BY <1>4, <1>5, <2>1 DEF PacketLength, MaxPacketLength, EndpointSize
<1> QED
  BY <1>3, <1>6, <1>7 DEF s, k

(* The ring: whole packets of the longest kind, and with the margin no     *)
(* more than the memory; less than one packet is left over.                *)
LEMMA RingIs ==
  ASSUME NEW b \in Builds
  PROVE  /\ Margin(b) = IF Is44(b) THEN MaxPacketLength(b) ELSE 0
         /\ Packets(b) \in Nat \ {0}
         /\ RingSize(b) = Packets(b) * MaxPacketLength(b)
         /\ RingSize(b) \in Nat \ {0} /\ RingSize(b) + Margin(b) <= MemorySize
         /\ RingSize(b) + MaxPacketLength(b) > MemorySize - Margin(b)
<1> DEFINE m == MaxPacketLength(b)
           room == MemorySize - Margin(b)
           q == Packets(b)
<1>1. m \in Nat \ {0} /\ m <= 1023
  BY LengthsAre
<1>2. Margin(b) = IF Is44(b) THEN m ELSE 0
  <2>1. CASE Is44(b)
    <3>1. /\ m = 45 * SampleLength(b) /\ PacketLength(b) = 44 * SampleLength(b)
          /\ SampleLength(b) \in Nat \ {0} /\ SampleLength(b) <= 1023
      BY <2>1, LengthsAre, FrequencyIs
    <3>2. m > PacketLength(b)
      BY <3>1
    <3> QED
      BY <2>1, <3>2 DEF Margin
  <2>2. CASE ~Is44(b)
    <3>1. m = PacketLength(b)
      BY <2>2, LengthsAre
    <3> QED
      BY <1>1, <2>2, <3>1 DEF Margin
  <2> QED
    BY <2>1, <2>2
<1>3. room \in Nat /\ room >= 9217 /\ room <= 10240
  BY <1>1, <1>2 DEF MemorySize
<1>4. q = room \div m
  BY DEF Packets
<1> HIDE DEF m, room, q
<1>5. /\ q \in Int /\ room = q * m + (room % m) /\ room % m \in 0 .. m - 1
  <2>1. m \in Nat \ {0} /\ room \in Nat
    BY <1>1, <1>3
  <2> QED
    BY <1>4, <2>1
<1>6. q >= 1
  <2> SUFFICES ASSUME q <= 0 PROVE FALSE
    BY <1>5
  <2>1. PICK n \in Nat : q = 0 - n
    <3>1. 0 - q \in Nat /\ q = 0 - (0 - q)
      BY <1>5
    <3> QED
      BY <3>1
  <2>2. q * m = 0 - n * m /\ n * m \in Nat
    BY <1>1, <2>1
  <2> QED
    BY <1>1, <1>3, <1>5, <2>2
<1>7. q * m \in Nat \ {0} /\ q * m <= room /\ q * m + m > room
  <2>1. PICK n \in Nat : q = 1 + n
    <3>1. q - 1 \in Nat /\ q = 1 + (q - 1)
      BY <1>5, <1>6
    <3> QED
      BY <3>1
  <2>2. q * m = m + n * m /\ n * m \in Nat
    BY <1>1, <2>1
  <2>3. room \in Int /\ room % m \in 0 .. m - 1 /\ room = q * m + (room % m)
    BY <1>3, <1>5
  <2> QED
    BY <1>1, <2>2, <2>3
<1>8. RingSize(b) = q * m
  <2>1. RingSize(b) = U16(q * m)
    BY <1>4 DEF RingSize, room, m
  <2>2. q * m \in Nat /\ q * m < 65536
    BY <1>3, <1>7
  <2>3. U16(q * m) = q * m
    <3> DEFINE t == q * m
    <3> HIDE DEF t
    <3>1. ASSUME t \in Nat, t < 65536 PROVE U16(t) = t
      BY <3>1, Small
    <3> QED
      BY <2>2, <3>1 DEF t
  <2> QED
    BY <2>1, <2>3
<1>9. RingSize(b) + Margin(b) <= MemorySize /\ RingSize(b) + m > MemorySize - Margin(b)
  <2>1. Margin(b) \in Nat /\ room = 10240 - Margin(b) /\ MemorySize = 10240
    BY <1>1, <1>2 DEF room, MemorySize
  <2> QED
    BY <1>7, <1>8, <2>1
<1> QED
  BY <1>2, <1>5, <1>6, <1>7, <1>8, <1>9 DEF m, room, q

(* What the injection takes: padding makes four bytes of three. *)
LEMMA InjectionIs ==
  ASSUME NEW b \in Builds
  PROVE  /\ InjectionSize(b) \in Nat
         /\ PacketLength(b) <= InjectionSize(b)
         /\ ~Is24(b) => InjectionSize(b) = PacketLength(b)
         /\ Is24(b) => \E n \in Nat : PacketLength(b) = n * 3 /\ InjectionSize(b) = n * 4
         /\ InjectionSize(b) <= AltHalfSize(b)
<1>1. /\ b.resolution \in {2, 3} /\ Channels \in Nat \ {0}
      /\ Samples(b) \in Nat \ {0} /\ Samples(b) <= 1023
      /\ PacketLength(b) \in Nat \ {0} /\ PacketLength(b) <= 1023
      /\ SampleLength(b) \in Nat \ {0} /\ SampleLength(b) <= 1023
      /\ PacketLength(b) = Samples(b) * SampleLength(b)
  <2>1. b.resolution \in Resolutions
    BY DEF Builds
  <2> HIDE DEF Builds
  <2>2. Resolutions \subseteq {2, 3} /\ Channels \in Nat \ {0}
    BY BuildsAssumption
  <2>3. b.resolution \in {2, 3}
    BY <2>1, <2>2
  <2> QED
    BY <2>2, <2>3, FrequencyIs, LengthsAre
<1>2. CASE Is24(b)
  <2> DEFINE n == Samples(b) * Channels
  <2>1. b.resolution = 3
    BY <1>2 DEF Is24
  <2>2. InjectionSize(b) = Samples(b) * Channels * 4
    BY <1>2, <2>1 DEF InjectionSize, MsPacketSize, Samples
  <2>3. n \in Nat
    BY <1>1
  <2>4. PacketLength(b) = n * 3
    <3>1. SampleLength(b) = Channels * 3
      BY <2>1 DEF SampleLength
    <3>2. Samples(b) * (Channels * 3) = Samples(b) * Channels * 3
      BY <1>1
    <3> QED
      BY <1>1, <3>1, <3>2
  <2> HIDE DEF n
  <2>5. InjectionSize(b) = n * 4
    BY <2>2 DEF n
  <2>6. AltHalfSize(b) \in {InjectionSize(b), InjectionSize(b) + 4 * Channels}
    BY <1>2 DEF AltHalfSize
  <2> QED
    BY <1>1, <1>2, <2>3, <2>4, <2>5, <2>6
<1>3. CASE ~Is24(b)
  <2>1. InjectionSize(b) = PacketLength(b)
    BY <1>3 DEF InjectionSize
  <2>2. \/ AltHalfSize(b) = PacketLength(b)
        \/ AltHalfSize(b) = PacketLength(b) + SampleLength(b)
    BY <1>3, <2>1 DEF AltHalfSize, LongPacketLength
  <2>3. PacketLength(b) \in Nat /\ SampleLength(b) \in Nat
    BY <1>1
  <2> QED
    BY <1>3, <2>1, <2>2, <2>3
<1> QED
  BY <1>2, <1>3

-----------------------------------------------------------------------------
(* The invariants *)

(***************************************************************************)
(* Without fractional packets rd_ptr is a multiple of the packet; with     *)
(* them it is anywhere in the ring, and the reads since the last reset are *)
(* behind the host by as many tenths of a sample as count44 has gone up.   *)
(***************************************************************************)
DebtInv ==
  /\ ~Is44(build) => debt = 0
  /\ Is44(build) =>
       \E first, last \in 0 .. 9 :
         debt = 100 * (last - first) /\ (stopping \/ last = count44)

SizesInv ==
  /\ build \in Builds
  /\ count44 \in 0 .. 9
  /\ rd \in 0 .. RingSize(build) - 1
  /\ ~Is44(build) => \E n \in Nat : rd = n * PacketLength(build)
  /\ stopping \in BOOLEAN
  /\ DebtInv

LEMMA SizesInit == Init => SizesInv
<1> SUFFICES ASSUME Init PROVE SizesInv
  OBVIOUS
<1>1. build \in Builds /\ rd = 0 /\ count44 = 0 /\ debt = 0 /\ stopping = FALSE
  BY DEF Init, Builds
<1>2. RingSize(build) \in Nat \ {0} /\ PacketLength(build) \in Nat
  BY <1>1, RingIs, LengthsAre
<1>3. 0 = 0 * PacketLength(build)
  BY <1>2
<1>4. DebtInv
  <2>1. 0 \in 0 .. 9 /\ debt = 100 * (0 - 0)
    BY <1>1
  <2> QED
    BY <1>1, <2>1 DEF DebtInv
<1>5. rd \in 0 .. RingSize(build) - 1 /\ count44 \in 0 .. 9
  <2>1. rd = 0 /\ count44 = 0
    BY <1>1
  <2> QED
    BY <1>2, <2>1
<1>6. stopping \in BOOLEAN
  BY DEF Init
<1>7. \E n \in Nat : rd = n * PacketLength(build)
  BY <1>1, <1>3
<1> QED
  BY <1>1, <1>4, <1>5, <1>6, <1>7 DEF SizesInv

(* One turn of the interrupt takes Samples, or one more at a long turn. *)
LEMMA ReadIs ==
  ASSUME SizesInv
  PROVE  /\ ReadLength \in Nat \ {0} /\ ReadLength <= 1023 /\ ReadLength <= RingSize(build)
         /\ ~LongTurn => ReadLength = PacketLength(build)
                         /\ ReadLength \div SampleLength(build) = Samples(build)
         /\ LongTurn => Is44(build) /\ count44 = 9
                        /\ ReadLength \div SampleLength(build) = 45
<1>1. build \in Builds /\ count44 \in 0 .. 9
  BY DEF SizesInv
<1> DEFINE s == SampleLength(build)
<1>2. /\ s \in Nat \ {0} /\ Samples(build) \in Nat
      /\ PacketLength(build) = Samples(build) * s
      /\ PacketLength(build) \in Nat \ {0} /\ PacketLength(build) <= 1023
      /\ MaxPacketLength(build) \in Nat \ {0} /\ MaxPacketLength(build) <= 1023
      /\ RingSize(build) \in Nat /\ RingSize(build) >= 8000
  <2>1. RingSize(build) + MaxPacketLength(build) > MemorySize - Margin(build)
    BY <1>1, RingIs
  <2>2. /\ Margin(build) \in Nat /\ Margin(build) <= 1023
        /\ MaxPacketLength(build) \in Nat \ {0} /\ MaxPacketLength(build) <= 1023
    BY <1>1, RingIs, LengthsAre
  <2>3. RingSize(build) \in Nat
    BY <1>1, RingIs
  <2>4. RingSize(build) >= 8000
    BY <2>1, <2>2, <2>3 DEF MemorySize
  <2>5. /\ s \in Nat \ {0} /\ Samples(build) \in Nat \ {0}
        /\ PacketLength(build) = Samples(build) * s
        /\ PacketLength(build) \in Nat \ {0} /\ PacketLength(build) <= 1023
    BY <1>1, LengthsAre, FrequencyIs
  <2> QED
    BY <2>2, <2>3, <2>4, <2>5
<1>3. CASE ~LongTurn
  <2>1. ReadLength = PacketLength(build)
    BY <1>3 DEF ReadLength
  <2>2. (Samples(build) * s) \div s = Samples(build)
    BY <1>2, WholeQuotient
  <2> QED
    BY <1>2, <1>3, <2>1, <2>2
<1>4. CASE LongTurn
  <2>1. Is44(build) /\ count44 = 9
    BY <1>1, <1>4 DEF LongTurn
  <2>2. PacketLength(build) = 44 * s /\ MaxPacketLength(build) = 45 * s
    BY <1>1, <1>2, <2>1, LengthsAre, FrequencyIs
  <2>3. ReadLength = 45 * s
    BY <1>2, <1>4, <2>2 DEF ReadLength, LongPacketLength
  <2>4. (45 * s) \div s = 45
    BY <1>2, WholeQuotient
  <2> QED
    BY <1>2, <1>4, <2>1, <2>2, <2>3, <2>4
<1> QED
  BY <1>3, <1>4

LEMMA SizesStep == SizesInv /\ [Next]_scheduleVars => SizesInv'
<1> SUFFICES ASSUME SizesInv, [Next]_scheduleVars PROVE SizesInv'
  OBVIOUS
<1>1. /\ build \in Builds /\ count44 \in 0 .. 9
      /\ RingSize(build) \in Nat \ {0} /\ rd \in 0 .. RingSize(build) - 1
      /\ PacketLength(build) \in Nat \ {0} /\ PacketLength(build) <= 1023
      /\ stopping \in BOOLEAN /\ DebtInv
  BY RingIs, LengthsAre DEF SizesInv
<1>2. CASE Inject
  <2>1. build' = build /\ ~stopping /\ stopping' = stopping
    BY <1>2 DEF Inject, StepCount
  <2>2. rd' = IF rd + ReadLength >= RingSize(build)
                THEN rd + ReadLength - RingSize(build) ELSE rd + ReadLength
    BY <1>2 DEF Inject
  <2>3. ReadLength \in Nat \ {0} /\ ReadLength <= 1023 /\ ReadLength <= RingSize(build)
    BY ReadIs
  <2>4. rd' \in 0 .. RingSize(build) - 1
    BY <1>1, <2>2, <2>3
  <2>5. count44' \in 0 .. 9
    BY <1>1, <1>2 DEF Inject, StepCount, LongTurn
  <2>6. ASSUME ~Is44(build) PROVE \E n \in Nat : rd' = n * PacketLength(build)
    <3> DEFINE p == PacketLength(build)
               q == Packets(build)
    <3>1. PICK n \in Nat : rd = n * p
      BY <2>6 DEF SizesInv
    <3>2. ReadLength = p /\ p \in Nat \ {0}
      BY <1>1, <2>6, ReadIs
    <3>3. q \in Nat /\ RingSize(build) = q * p
      BY <1>1, <2>6, RingIs, LengthsAre
    <3> HIDE DEF p, q
    <3>4. n * p + p <= q * p
      BY <1>1, <3>1, <3>2, <3>3, NextMultiple
    <3>5. CASE n * p + p = q * p
      <4>1. rd' = 0 /\ 0 = 0 * p
        BY <2>2, <3>1, <3>2, <3>3, <3>5
      <4> QED
        BY <4>1 DEF p
    <3>6. CASE n * p + p # q * p
      <4>1. n * p + p \in Nat /\ q * p \in Nat
        BY <3>2, <3>3
      <4>2. rd' = n * p + p
        BY <2>2, <3>1, <3>2, <3>3, <3>4, <3>6, <4>1
      <4>3. n * p + p = (n + 1) * p /\ n + 1 \in Nat
        BY <3>2
      <4> QED
        BY <4>2, <4>3 DEF p
    <3> QED
      BY <3>5, <3>6
  <2>7. DebtInv'
    <3>1. debt' = debt + build.frequency - 1000 * (ReadLength \div SampleLength(build))
      BY <1>2 DEF Inject
    <3>2. CASE ~Is44(build)
      <4>1. ~LongTurn /\ build.frequency = 1000 * Samples(build) /\ Samples(build) \in Nat
        BY <1>1, <3>2, FrequencyIs DEF LongTurn
      <4>2. debt' = 0
        BY <1>1, <3>1, <3>2, <4>1, ReadIs DEF DebtInv
      <4> QED
        BY <2>1, <3>2, <4>2 DEF DebtInv
    <3>3. CASE Is44(build)
      <4>1. PICK first \in 0 .. 9 : debt = 100 * (count44 - first)
        BY <1>1, <2>1, <3>3 DEF DebtInv
      <4>2. build.frequency = 44100 /\ Samples(build) = 44
        BY <1>1, <3>3, FrequencyIs
      <4>3. debt' = 100 * (count44' - first)
        <5>1. CASE LongTurn
          <6>1. count44 = 9 /\ count44' = 0
            BY <1>2, <3>3, <5>1, ReadIs DEF Inject, StepCount
          <6> QED
            BY <3>1, <4>1, <4>2, <5>1, <6>1, ReadIs
        <5>2. CASE ~LongTurn
          <6>1. count44' = count44 + 1
            BY <1>2, <3>3, <5>2 DEF Inject, StepCount
          <6> QED
            BY <1>1, <3>1, <4>1, <4>2, <5>2, <6>1, ReadIs
        <5> QED
          BY <5>1, <5>2
      <4> QED
        BY <2>1, <2>5, <3>3, <4>3 DEF DebtInv
    <3> QED
      BY <3>2, <3>3
  <2> QED
    BY <1>1, <2>1, <2>4, <2>5, <2>6, <2>7 DEF SizesInv
<1>3. CASE Underrun
  <2>1. /\ UNCHANGED <<build, rd, debt>> /\ stopping' = TRUE
        /\ count44' \in 0 .. 9
    BY <1>1, <1>3 DEF Underrun, StepCount, LongTurn
  <2>2. DebtInv'
    BY <1>1, <2>1 DEF DebtInv
  <2> QED
    BY <1>1, <2>1, <2>2 DEF SizesInv
<1>4. CASE Restart
  <2>1. rd' = 0 /\ debt' = 0 /\ stopping' = FALSE /\ UNCHANGED <<build, count44>>
    BY <1>4 DEF Restart
  <2>2. 0 = 0 * PacketLength(build)
    BY <1>1
  <2>3. DebtInv'
    <3>1. debt' = 100 * (count44' - count44')
      BY <1>1, <2>1
    <3> QED
      BY <1>1, <2>1, <3>1 DEF DebtInv
  <2>4. rd' \in 0 .. RingSize(build) - 1
    <3>1. rd' = 0
      BY <2>1
    <3> QED
      BY <1>1, <3>1
  <2>5. \E n \in Nat : rd' = n * PacketLength(build)
    BY <2>1, <2>2
  <2>6. stopping' \in BOOLEAN
    BY <1>4 DEF Restart
  <2> QED
    BY <1>1, <2>1, <2>3, <2>4, <2>5, <2>6 DEF SizesInv
<1>5. CASE UNCHANGED scheduleVars
  BY <1>5 DEF SizesInv, DebtInv, scheduleVars
<1> QED
  BY <1>2, <1>3, <1>5, <1>4 DEF Next

LEMMA SizesHold == Spec => []SizesInv
  BY SizesInit, SizesStep, PTL DEF Spec

-----------------------------------------------------------------------------
(* The theorems *)

(* What is prepared for a turn is what the DMA is given to send: the four  *)
(* sizes of a short and of a long turn, padded or not, agree.              *)
LEMMA SentIsPrepared == SizesInv => DataSize = PaddedLength(ReadLength)
<1> SUFFICES ASSUME SizesInv PROVE DataSize = PaddedLength(ReadLength)
  OBVIOUS
<1>1. build \in Builds
  BY DEF SizesInv
<1>2. CASE ~Is24(build)
  <2>1. InjectionSize(build) = PacketLength(build)
    BY <1>1, <1>2, InjectionIs
  <2>2. Is44(build) => AltHalfSize(build) = LongPacketLength(build)
    BY <1>2 DEF AltHalfSize
  <2> QED
    BY <1>2, <2>1, <2>2 DEF DataSize, PaddedLength, ReadLength, LongTurn
<1>3. CASE Is24(build)
  <2>1. PICK n \in Nat : PacketLength(build) = n * 3 /\ InjectionSize(build) = n * 4
    BY <1>1, <1>3, InjectionIs
  <2>2. Channels \in Nat /\ SampleLength(build) = Channels * 3
    BY <1>3, BuildsAssumption DEF SampleLength, Is24
  <2>3. CASE LongTurn
    <3>1. LongPacketLength(build) = (n + Channels) * 3
      BY <2>1, <2>2 DEF LongPacketLength
    <3>2. AltHalfSize(build) = (n + Channels) * 4
      BY <1>3, <2>1, <2>2, <2>3 DEF AltHalfSize, LongTurn
    <3>3. ((n + Channels) * 3) \div 3 = n + Channels
      BY <2>2, WholeQuotient
    <3> QED
      BY <1>3, <2>3, <3>1, <3>2, <3>3 DEF DataSize, PaddedLength, ReadLength
  <2>4. CASE ~LongTurn
    <3>1. (n * 3) \div 3 = n
      BY WholeQuotient
    <3> QED
      BY <1>3, <2>1, <2>4, <3>1 DEF DataSize, PaddedLength, ReadLength
  <2> QED
    BY <2>3, <2>4
<1> QED
  BY <1>2, <1>3

(* Every packet is injected whole, in every build: what is sent is what is *)
(* prepared, and rd_ptr stops a packet short of the end of the ring, or,   *)
(* at 44.1 kHz, the two copies of the interrupt stay inside the ring.      *)
THEOREM PacketsAlwaysFit == Spec => []PacketsFit
<1>1. SizesInv => PacketsFit
  <2> SUFFICES ASSUME SizesInv PROVE PacketsFit
    OBVIOUS
  <2>1. /\ build \in Builds
        /\ RingSize(build) \in Nat \ {0} /\ rd \in 0 .. RingSize(build) - 1
        /\ PacketLength(build) \in Nat \ {0} /\ PacketLength(build) <= 1023
    BY RingIs, LengthsAre DEF SizesInv
  <2>2. DataSize = PaddedLength(ReadLength) /\ ReadLength <= RingSize(build)
    BY ReadIs, SentIsPrepared
  <2>3. CASE Is44(build)
    BY <2>1, <2>2, <2>3 DEF PacketsFit
  <2>4. CASE ~Is44(build)
    <3> DEFINE p == PacketLength(build)
               q == Packets(build)
    <3>1. PICK n \in Nat : rd = n * p
      BY <2>4 DEF SizesInv
    <3>2. ReadLength = p /\ p \in Nat \ {0}
      BY <2>1, <2>4, ReadIs DEF LongTurn
    <3>3. q \in Nat /\ RingSize(build) = q * p
      BY <2>1, <2>4, RingIs, LengthsAre
    <3> HIDE DEF p, q
    <3>4. n * p + p <= q * p
      BY <2>1, <3>1, <3>2, <3>3, NextMultiple
    <3>5. RingSize(build) - rd >= ReadLength
      <4>1. n * p \in Nat /\ q * p \in Nat
        BY <3>2, <3>3
      <4> QED
        BY <3>1, <3>2, <3>3, <3>4, <4>1
    <3> QED
      BY <2>2, <2>4, <3>5 DEF PacketsFit
  <2> QED
    BY <2>3, <2>4
<1> QED
  BY <1>1, SizesHold, PTL

(* The schedule of nine packets of 44 samples and one of 45 keeps the pace *)
(* of 44.1 kHz, and so does the plain one: less than a sample is missing   *)
(* or too many after any number of reads, although an underrun uses up a   *)
(* turn and the next reads begin anywhere in the schedule.                 *)
THEOREM PaceIsKept == Spec => []KeepsPace
<1>1. SizesInv => KeepsPace
  <2> SUFFICES ASSUME SizesInv PROVE KeepsPace
    OBVIOUS
  <2>1. CASE ~Is44(build)
    BY <2>1 DEF SizesInv, DebtInv, KeepsPace
  <2>2. CASE Is44(build)
    <3>1. PICK first \in 0 .. 9, last \in 0 .. 9 : debt = 100 * (last - first)
      BY <2>2 DEF SizesInv, DebtInv
    <3> QED
      BY <3>1 DEF KeepsPace
  <2> QED
    BY <2>1, <2>2
<1> QED
  BY <1>1, SizesHold, PTL

(* The memory behind the ring takes the packet that begins inside it, for  *)
(* every size that the initialisation may round the ring to.               *)
THEOREM MarginAlwaysFits == Spec => []MarginFits
<1>1. SizesInv => MarginFits
  <2> SUFFICES ASSUME SizesInv PROVE MarginFits
    OBVIOUS
  <2>1. build \in Builds
    BY DEF SizesInv
  <2> QED
    BY <2>1, RingIs DEF MarginFits
<1> QED
  BY <1>1, SizesHold, PTL

(* Every build satisfies what the theorems about Playback assume of its    *)
(* sizes, the room for the packets that the DMA is sending included.       *)
THEOREM BuildsSuitPlayback == Spec => []PlaybackAssumptions
<1>1. SizesInv => PlaybackAssumptions
  <2> SUFFICES ASSUME SizesInv PROVE PlaybackAssumptions
    OBVIOUS
  <2>1. build \in Builds
    BY DEF SizesInv
  <2>2. /\ PacketLength(build) \in Nat \ {0} /\ PacketLength(build) <= 1023
        /\ MaxPacketLength(build) \in Nat \ {0} /\ MaxPacketLength(build) <= 1023
        /\ MaxPacketLength(build) = EndpointSize(build)
        /\ SampleLength(build) \in Nat
        /\ InjectionSize(build) \in Nat
        /\ RingSize(build) \in Nat
    <3>2. RingSize(build) \in Nat
      BY <2>1, RingIs
    <3>3. /\ PacketLength(build) \in Nat \ {0} /\ PacketLength(build) <= 1023
          /\ MaxPacketLength(build) \in Nat \ {0} /\ MaxPacketLength(build) <= 1023
          /\ MaxPacketLength(build) = EndpointSize(build)
          /\ SampleLength(build) \in Nat \ {0} /\ SampleLength(build) <= 1023
      BY <2>1, LengthsAre
    <3>4. SampleLength(build) \in Nat
      BY <3>3
    <3> QED
      BY <2>1, <3>2, <3>3, <3>4, InjectionIs
  <2>3. LongPacketLength(build) <= EndpointSize(build) \/ ~Is44(build)
    <3> SUFFICES ASSUME Is44(build) PROVE LongPacketLength(build) = EndpointSize(build)
      BY <2>2
    <3>1. /\ PacketLength(build) = 44 * SampleLength(build)
          /\ EndpointSize(build) = 45 * SampleLength(build)
      BY <2>1, LengthsAre, FrequencyIs
    <3> QED
      BY <2>2, <3>1 DEF LongPacketLength
  <2>4. Is24(build) => 3 * InjectionSize(build) = 4 * PacketLength(build)
    <3> SUFFICES ASSUME Is24(build)
                 PROVE  3 * InjectionSize(build) = 4 * PacketLength(build)
      OBVIOUS
    <3>1. PICK n \in Nat : PacketLength(build) = n * 3 /\ InjectionSize(build) = n * 4
      BY <2>1, InjectionIs
    <3> QED
      BY <3>1
  <2>5. InjectionSize(build) <= 1364
    <3>1. Is24(build) \/ InjectionSize(build) = PacketLength(build)
      BY <2>1, InjectionIs
    <3> QED
      BY <2>2, <2>4, <3>1
  <2>6. RingSize(build) > 10240 - 2 * MaxPacketLength(build)
    <3>1. Margin(build) \in {0, MaxPacketLength(build)}
      BY <2>1, RingIs
    <3>2. RingSize(build) + MaxPacketLength(build) > MemorySize - Margin(build)
      BY <2>1, RingIs
    <3> QED
      BY <2>2, <3>1, <3>2 DEF MemorySize
  <2>7. /\ InputThreshold(build) \in Nat
        /\ InputThreshold(build) * 2 <= RingSize(build)
        /\ RingSize(build) <= InputThreshold(build) * 2 + 1
    BY <2>2 DEF InputThreshold
  <2>8. InputThreshold(build) >= InjectionSize(build) + MaxPacketLength(build)
    BY <2>2, <2>5, <2>6, <2>7
  <2>9. InputThreshold(build) - 1 + 4 * MaxPacketLength(build) <= RingSize(build)
    BY <2>2, <2>6, <2>7
  <2>10. 4 * MaxPacketLength(build) < InputThreshold(build)
    BY <2>2, <2>6, <2>7
  <2>11. ~Is44(build) => RingSize(build) % PacketLength(build) = 0
    <3> SUFFICES ASSUME ~Is44(build) PROVE RingSize(build) % PacketLength(build) = 0
      OBVIOUS
    <3>1. /\ Packets(build) \in Nat
          /\ RingSize(build) = Packets(build) * PacketLength(build)
          /\ PacketLength(build) \in Nat \ {0}
      BY <2>1, <2>2, RingIs, LengthsAre
    <3>2. (Packets(build) * PacketLength(build)) % PacketLength(build) = 0
      BY <3>1, WholeQuotient
    <3> QED
      BY <3>1, <3>2
  <2> QED
    BY <2>1, <2>3, <2>8, <2>9, <2>11, <2>10, <2>4, InjectionIs DEF PlaybackAssumptions
<1> QED
  BY <1>1, SizesHold, PTL
=============================================================================
