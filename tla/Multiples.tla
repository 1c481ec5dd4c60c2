------------------------------- MODULE Multiples -------------------------------
(***************************************************************************)
(* Facts about whole packets that the proofs of the playback path, of the  *)
(* recording path and of the control endpoint share.                       *)
(***************************************************************************)
EXTENDS Integers, TLAPS

(* A multiple of the packet length below the end of a buffer of whole      *)
(* packets leaves room for one more packet, which is why rd_ptr and wr_ptr *)
(* may be compared with the end after an access and not before.            *)
LEMMA NextMultiple ==
  ASSUME NEW p \in Nat \ {0}, NEW k \in Nat, NEW n \in Nat, k * p < n * p
  PROVE  k * p + p <= n * p
<1>1. k < n
  <2> SUFFICES ASSUME n <= k PROVE FALSE
    OBVIOUS
  <2>1. PICK d \in Nat : k = n + d
    <3>1. k - n \in Nat /\ k = n + (k - n)
      OBVIOUS
    <3> QED
      BY <3>1
  <2>2. k * p = n * p + d * p /\ d * p \in Nat /\ n * p \in Nat
    BY <2>1
  <2> QED
    BY <2>2
<1>2. PICK d \in Nat : n = k + 1 + d
  <2>1. n - k - 1 \in Nat /\ n = k + 1 + (n - k - 1)
    BY <1>1
  <2> QED
    BY <2>1
<1>3. n * p = k * p + p + d * p /\ d * p \in Nat /\ k * p \in Nat
  BY <1>2
<1> QED
  BY <1>3

(* A multiple smaller than one packet is none. *)
LEMMA LessThanOne ==
  ASSUME NEW m \in Nat \ {0}, NEW d \in Int, NEW s \in 0 .. m - 1, d * m = s
  PROVE  d = 0 /\ s = 0
<1>1. d < 1
  <2> SUFFICES ASSUME d >= 1 PROVE FALSE
    OBVIOUS
  <2>1. PICK e \in Nat : d = e + 1
    <3>1. d - 1 \in Nat /\ d = (d - 1) + 1
      OBVIOUS
    <3> QED
      BY <3>1
  <2>2. d * m = e * m + m /\ e * m \in Nat
    BY <2>1
  <2> QED
    BY <2>2
<1>2. d > -1
  <2> SUFFICES ASSUME d <= -1 PROVE FALSE
    OBVIOUS
  <2>1. PICK e \in Nat : d = -1 - e
    <3>1. -1 - d \in Nat /\ d = -1 - (-1 - d)
      OBVIOUS
    <3> QED
      BY <3>1
  <2>2. d * m = 0 - m - e * m /\ e * m \in Nat
    BY <2>1
  <2> QED
    BY <2>2
<1>3. d = 0
  BY <1>1, <1>2
<1> QED
  BY <1>3

(* What follows whole packets completes a whole number of packets if it is *)
(* itself a whole packet: when an answer needs the empty packet at its end.*)
LEMMA CompletesPackets ==
  ASSUME NEW m \in Nat \ {0}, NEW k \in Nat, NEW r \in 1 .. m
  PROVE  (k * m + r) % m = 0 <=> r = m
<1> DEFINE n == k * m + r
<1> DEFINE q == n \div m
<1> DEFINE s == n % m
<1>1. n \in Nat /\ q \in Int /\ s \in 0 .. m - 1 /\ n = q * m + s
  OBVIOUS
<1>2. (q - k) * m = q * m - k * m
  BY <1>1
<1>3. CASE s = 0
  <2>1. (q - k) * m = r
    BY <1>1, <1>2, <1>3
  <2>2. CASE r < m
    <3>1. q - k \in Int /\ r \in 0 .. m - 1
      BY <1>1, <2>2
    <3>2. r = 0
      BY <2>1, <3>1, LessThanOne
    <3> QED
      BY <3>2
  <2> QED
    BY <1>3, <2>2
<1>4. CASE r = m
  <2>1. (k + 1 - q) * m = k * m + m - q * m
    BY <1>1
  <2>2. (k + 1 - q) * m = s /\ k + 1 - q \in Int
    BY <1>1, <1>4, <2>1
  <2>3. s = 0
    BY <1>1, <2>2, LessThanOne
  <2> QED
    BY <2>3, <1>4
<1> QED
  BY <1>3, <1>4
=============================================================================
