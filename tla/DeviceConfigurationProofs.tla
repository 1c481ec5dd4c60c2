------------------------ MODULE DeviceConfigurationProofs ------------------------
(***************************************************************************)
(* Theorems about DeviceConfiguration, for every number of streams: what   *)
(* the device told the host is so, and its pools neither leak nor run out, *)
(* however many resets strike however many requests half way.              *)
(***************************************************************************)
EXTENDS DeviceConfiguration, FiniteSetTheorems, SequenceTheorems,
        WellFoundedInduction, TLAPS

(* Where the superloop is: *)
Changing   == {"dismount", "open", "change"}           \* in SET_INTERFACE
Resting    == Changing \cup {"idle"}
Unmounting == {"deactivate", "free", "unlink", "clear"}
Mounting   == {"select", "mount", "configured"}

Configured == device_state = "CONFIGURED"

(* The chain holds the interfaces from s on, each in the slot of its number. *)
ChainFrom(s) ==
    /\ Len(chain) = Streams + 1 - s
    /\ \A i \in 1..Len(chain) : chain[i] = s + i - 1

ChainEmpty == Len(chain) = 0

(***************************************************************************)
(* The chain is all there or empty, but for the requests that take it      *)
(* apart or put it together.  A reset empties a configured device's chain  *)
(* and leaves the chain of the others as it is, so what an interrupted     *)
(* mounting has mounted is still there for the next one, which finds no    *)
(* slot free.                                                              *)
(***************************************************************************)
ChainInv ==
    /\ pc \in Resting => IF Configured THEN ChainFrom(0) ELSE ChainEmpty
    /\ pc \in {"deactivate", "free", "unlink"} =>
         cursor \in Slots /\ IF Configured THEN ChainFrom(cursor) ELSE ChainEmpty
    /\ pc = "clear" =>
         cursor \in Slots /\ IF Configured THEN ChainFrom(cursor + 1) ELSE ChainEmpty
    /\ pc \in {"free", "unlink", "clear"} /\ Configured =>
         next_interface = IF cursor = Streams THEN None ELSE cursor + 1
    /\ pc = "detach" =>
         ChainEmpty \/ (ChainFrom(0) /\ Configured /\ selected = 0 /\ request.value = 1)
    /\ pc \in Mounting => ~Configured /\ request.value = 1
    /\ pc = "select" => ChainEmpty \/ ChainFrom(0)
    /\ pc = "mount" =>
         /\ number \in Interfaces
         /\ \/ ChainFrom(0)
            \/ Len(chain) = number /\ \A i \in 1..number : chain[i] = i - 1
    /\ pc = "configured" => ChainFrom(0)

RequestInv ==
    /\ pc \in Unmounting \cup {"detach"} => request.value \in 0..1
    /\ pc \in Changing =>
         request.value \in 0..1 /\ request.number \in Endpoints /\ cursor = request.number
    /\ pc \in Changing /\ Configured => selected = 1 /\ ~interrupted
    /\ pc \in {"mount", "configured"} /\ ~interrupted => selected = 1

(***************************************************************************)
(* A slot is in use exactly if it is in the chain; outside SET_INTERFACE   *)
(* alternate settings other than 0 exist only while a configuration is     *)
(* selected.                                                               *)
(***************************************************************************)
SlotInv ==
    /\ \A s \in Slots :
         (pc = "clear" /\ s = cursor) \/ (slot[s].used <=> s \in InChain)
    /\ \A s \in InChain : slot[s].number = s /\ slot[s].class
    /\ slot[0].alternate = 0
    /\ selected = 0 \/ pc \in Mounting \cup {"detach"} =>
         \A s \in InChain : slot[s].alternate = 0
    /\ pc \notin Unmounting /\ ~ChainEmpty => audio.control = 0

(* The endpoint of the interface being deleted is freed before the slot is. *)
Freed(s) == pc \in {"unlink", "clear"} /\ s = cursor

(***************************************************************************)
(* An endpoint of the pool is in use, with the ED of a stream, exactly if  *)
(* the slot of that stream holds it, in the chain or not: a reset in the   *)
(* middle of SET_INTERFACE leaves one to a slot that is free.              *)
(***************************************************************************)
PoolInv ==
    /\ \A e \in Endpoints, s \in Slots :
         pool[e].used /\ pool[e].ed = s <=> slot[s].endpoint = e /\ ~Freed(s)
    /\ \A e \in Endpoints :
         pc \in {"unlink", "clear"} /\ slot[cursor].endpoint = e =>
           ~pool[e].used /\ pool[e].ed = cursor
    /\ \A i \in Endpoints :
         i \in ed_used <=> \E e \in Endpoints : pool[e].used /\ pool[e].ed = i
    /\ pc = "open" => slot[cursor].endpoint = None

(* What the host was told, and what the device has selected, are the same. *)
ServedInv ==
    /\ interrupted => hostSelected = 0 /\ hostAlternate = AllZero
    /\ pc \in Resting /\ hostSelected = 1 => selected = 1
    /\ pc \in Resting /\ selected = 1 =>
         /\ Configured
         /\ \A i \in Endpoints : StreamServed(i) \/ (pc \in Changing /\ i = request.number)
    /\ pc = "change" /\ Configured /\ request.value = 1 => slot[cursor].endpoint # None

DeviceInv ==
    TypeOK /\ ChainInv /\ RequestInv /\ SlotInv /\ PoolInv /\ ServedInv
-----------------------------------------------------------------------------
(* The chain as a sequence *)

LEMMA ChainIs ==
    ASSUME TypeOK
    PROVE  /\ Len(chain) \in Nat
           /\ DOMAIN chain = 1..Len(chain)
           /\ \A i \in 1..Len(chain) : chain[i] \in Slots
           /\ chain = <<>> <=> ChainEmpty
<1>1. chain \in Seq(Slots)
  BY DEF TypeOK
<1> QED
  BY <1>1, EmptySeq, LenProperties, ElementOfSeq DEF ChainEmpty

LEMMA InChainIs ==
    ASSUME TypeOK
    PROVE  /\ InChain \subseteq Slots
           /\ ChainEmpty => InChain = {}
           /\ \A s \in 0..Streams + 1 : ChainFrom(s) => InChain = s..Streams
           /\ \A n \in 0..Streams + 1 :
                Len(chain) = n /\ (\A i \in 1..n : chain[i] = i - 1) => InChain = 0..n - 1
<1>1. InChain = { chain[i] : i \in 1..Len(chain) } /\ Len(chain) \in Nat
  BY ChainIs DEF InChain
<1>2. InChain \subseteq Slots
  BY <1>1, ChainIs
<1>3. ChainEmpty => InChain = {}
  BY <1>1 DEF ChainEmpty
<1>4. ASSUME NEW s \in 0..Streams + 1, ChainFrom(s)
      PROVE  InChain = s..Streams
  <2>1. ASSUME NEW t \in s..Streams PROVE t \in InChain
    <3>1. t - s + 1 \in 1..Len(chain) /\ chain[t - s + 1] = t
      BY <1>1, <1>4, <2>1, StreamsAssumption DEF ChainFrom
    <3> QED
      BY <1>1, <3>1
  <2>2. ASSUME NEW t \in InChain PROVE t \in s..Streams
    <3>1. PICK i \in 1..Len(chain) : t = chain[i]
      BY <1>1
    <3> QED
      BY <1>1, <1>4, <3>1, StreamsAssumption DEF ChainFrom
  <2> QED
    BY <2>1, <2>2
<1>5. ASSUME NEW n \in 0..Streams + 1, Len(chain) = n, \A i \in 1..n : chain[i] = i - 1
      PROVE  InChain = 0..n - 1
  <2>1. ASSUME NEW t \in 0..n - 1 PROVE t \in InChain
    <3>1. t + 1 \in 1..Len(chain) /\ chain[t + 1] = t
      BY <1>5, <2>1, StreamsAssumption
    <3> QED
      BY <1>1, <3>1
  <2>2. ASSUME NEW t \in InChain PROVE t \in 0..n - 1
    <3>1. PICK i \in 1..n : t = chain[i]
      BY <1>1, <1>5
    <3> QED
      BY <1>5, <3>1, StreamsAssumption
  <2> QED
    BY <2>1, <2>2
<1> QED
  BY <1>2, <1>3, <1>4, <1>5

LEMMA DeviceInit == Init => DeviceInv
<1> SUFFICES ASSUME Init PROVE DeviceInv
  OBVIOUS
<1>1. 1 \in Endpoints /\ 0 \in Slots /\ 0 \in Interfaces /\ Endpoints \subseteq Slots
  BY StreamsAssumption DEF Endpoints, Slots, Interfaces
<1>2. chain \in Seq(Slots) /\ Len(chain) = 0 /\ InChain = {}
  BY EmptySeq DEF Init, InChain
<1>3. TypeOK
  <2>1. slot \in [Slots -> [used : BOOLEAN, number : Interfaces, alternate : 0..1,
                            class : BOOLEAN, endpoint : Endpoints \cup {None}]]
    BY <1>1 DEF Init, FreeSlot
  <2>2. pool \in [Endpoints -> [used : BOOLEAN, ed : Endpoints]]
    BY <1>1 DEF Init
  <2>3. audio \in [control : Slots \cup {None}, stream : [Endpoints -> Slots \cup {None}],
                   endpoint : [Endpoints -> Endpoints \cup {None}]]
    BY DEF Init, NoAudio
  <2>4. request \in [kind : {"none", "configuration", "interface"},
                     value : 0..2, number : Interfaces]
    BY <1>1 DEF Init, NoRequest
  <2>5. number \in 0..Streams + 1 /\ hostAlternate \in [Endpoints -> 0..1]
    BY StreamsAssumption DEF Init
  <2>6. /\ device_state \in {"RESET", "ATTACHED", "CONFIGURED"} /\ selected \in 0..1
        /\ ed_used \subseteq Endpoints /\ hostSelected \in 0..1
        /\ cursor \in Slots \cup {None} /\ next_interface \in Slots \cup {None}
    BY DEF Init
  <2>8. plugged \in BOOLEAN /\ interrupted \in BOOLEAN
    BY DEF Init
  <2>7. pc \in {"idle", "deactivate", "free", "unlink", "clear", "detach", "select",
               "mount", "configured", "dismount", "open", "change"}
    BY DEF Init
  <2> QED
    BY <1>2, <2>1, <2>2, <2>3, <2>4, <2>5, <2>6, <2>7, <2>8 DEF TypeOK
<1>4. ChainInv /\ RequestInv
  BY <1>2 DEF Init, ChainInv, RequestInv, Resting, Changing, Mounting, Unmounting,
              Configured, ChainEmpty
<1>5. SlotInv
  BY <1>1, <1>2 DEF Init, SlotInv, FreeSlot, Mounting, ChainEmpty
<1>6. PoolInv
  BY DEF Init, PoolInv, Freed, FreeSlot, None, Endpoints
<1>7. ServedInv
  BY DEF Init, ServedInv, AllZero, Resting, Changing
<1> QED
  BY <1>3, <1>4, <1>5, <1>6, <1>7 DEF DeviceInv

-----------------------------------------------------------------------------
(* The interrupt *)

(* Types the step lemmas share. *)
LEMMA NumberSets ==
    /\ Endpoints \subseteq Slots /\ Interfaces = Slots /\ 0 \in Slots /\ 1 \in Endpoints
    /\ None \notin Slots /\ None \notin Endpoints /\ Slots \subseteq Int
    /\ \A s \in Slots : s = 0 \/ s \in Endpoints
    /\ 0 \notin Endpoints
    BY StreamsAssumption DEF Endpoints, Slots, Interfaces, None

(* What becomes of the pools when the interrupt finds a configured device. *)
LEMMA Released ==
    ASSUME DeviceInv, Configured, Disconnected
    PROVE  /\ chain' = <<>> /\ selected' = 0
           /\ slot' = [s \in Slots |->
                         IF s \in InChain THEN FreeSlot(slot[s].number, slot[s].alternate)
                                          ELSE slot[s]]
           /\ pool' = [e \in Endpoints |-> [pool[e] EXCEPT !.used = @ /\ e \notin Mounted]]
           /\ ed_used' = ed_used \ { pool[e].ed : e \in Mounted }
           /\ audio' \in {audio, NoAudio}
    BY DEF Disconnected, RevertedSelection, Configured

LEMMA PoolRecord ==
    ASSUME NEW p \in [used : BOOLEAN, ed : Endpoints], NEW u \in BOOLEAN
    PROVE  /\ [p EXCEPT !.used = u] \in [used : BOOLEAN, ed : Endpoints]
           /\ [p EXCEPT !.used = u].used = u
           /\ [p EXCEPT !.used = u].ed = p.ed
    OBVIOUS

LEMMA ReleasedTypes ==
    ASSUME DeviceInv, Configured, Disconnected
    PROVE  /\ chain' \in Seq(Slots) /\ Len(chain') = 0 /\ InChain' = {}
           /\ slot' \in [Slots -> [used : BOOLEAN, number : Interfaces, alternate : 0..1,
                           class : BOOLEAN, endpoint : Endpoints \cup {None}]]
           /\ pool' \in [Endpoints -> [used : BOOLEAN, ed : Endpoints]]
           /\ ed_used' \subseteq Endpoints
           /\ audio' \in [control : Slots \cup {None}, stream : [Endpoints -> Slots \cup {None}],
                  endpoint : [Endpoints -> Endpoints \cup {None}]]
<1> USE Released
<1>1. chain' \in Seq(Slots) /\ Len(chain') = 0 /\ InChain' = {}
  BY EmptySeq DEF InChain
<1>2. slot' \in [Slots -> [used : BOOLEAN, number : Interfaces, alternate : 0..1,
                           class : BOOLEAN, endpoint : Endpoints \cup {None}]]
  <2>1. \A s \in Slots : FreeSlot(slot[s].number, slot[s].alternate) \in
           [used : BOOLEAN, number : Interfaces, alternate : 0..1,
            class : BOOLEAN, endpoint : Endpoints \cup {None}]
    BY DEF DeviceInv, TypeOK, FreeSlot
  <2>2. slot \in [Slots -> [used : BOOLEAN, number : Interfaces, alternate : 0..1,
                           class : BOOLEAN, endpoint : Endpoints \cup {None}]]
    BY DEF DeviceInv, TypeOK
  <2> QED
    BY <2>1, <2>2
<1>3. pool' \in [Endpoints -> [used : BOOLEAN, ed : Endpoints]]
  <2> DEFINE released(e) == [pool[e] EXCEPT !.used = @ /\ e \notin Mounted]
  <2>1. ASSUME NEW e \in Endpoints
        PROVE  released(e) \in [used : BOOLEAN, ed : Endpoints]
    <3>1. pool[e] \in [used : BOOLEAN, ed : Endpoints]
      BY DEF DeviceInv, TypeOK
    <3> QED
      BY <3>1, PoolRecord
  <2>2. pool' = [e \in Endpoints |-> released(e)]
    OBVIOUS
  <2> HIDE DEF released
  <2> QED
    BY <2>1, <2>2
<1>4. NoAudio \in [control : Slots \cup {None}, stream : [Endpoints -> Slots \cup {None}],
                   endpoint : [Endpoints -> Endpoints \cup {None}]]
  BY DEF NoAudio
<1> QED
  BY <1>1, <1>2, <1>3, <1>4 DEF DeviceInv, TypeOK

LEMMA ReleasedPool ==
    ASSUME DeviceInv, Configured, Disconnected, UNCHANGED <<pc, cursor>>
    PROVE  PoolInv'
<1> USE Released
<1>1. /\ slot \in [Slots -> [used : BOOLEAN, number : Interfaces, alternate : 0..1,
                           class : BOOLEAN, endpoint : Endpoints \cup {None}]]
      /\ pool \in [Endpoints -> [used : BOOLEAN, ed : Endpoints]]
      /\ PoolInv /\ InChain \subseteq Slots
  BY InChainIs DEF DeviceInv, TypeOK
<1>2. ASSUME NEW e \in Endpoints
      PROVE  pool'[e].ed = pool[e].ed /\ (pool'[e].used <=> pool[e].used /\ e \notin Mounted)
  <2> DEFINE u == pool[e].used /\ e \notin Mounted
  <2>1. pool[e] \in [used : BOOLEAN, ed : Endpoints] /\ u \in BOOLEAN
    BY <1>1
  <2>2. pool'[e] = [pool[e] EXCEPT !.used = u]
    BY <1>1
  <2> HIDE DEF u
  <2>3. pool'[e].ed = pool[e].ed /\ pool'[e].used = u
    BY <2>1, <2>2, PoolRecord
  <2> QED
    BY <2>3 DEF u
<1>3. \A s \in Slots : slot'[s].endpoint = IF s \in InChain THEN None ELSE slot[s].endpoint
  BY <1>1 DEF FreeSlot
<1>4. \A e \in Endpoints : e \in Mounted <=> \E s \in InChain : slot[s].endpoint = e
  BY NumberSets DEF Mounted
<1>5. ASSUME NEW e \in Endpoints, NEW s \in Slots, pool'[e].used, pool'[e].ed = s
      PROVE  slot'[s].endpoint = e /\ ~Freed(s)
  BY <1>1, <1>2, <1>3, <1>4, <1>5 DEF PoolInv
<1>6. ASSUME NEW e \in Endpoints, NEW s \in Slots, slot'[s].endpoint = e, ~Freed(s)
      PROVE  pool'[e].used /\ pool'[e].ed = s
  <2>1. s \notin InChain /\ slot[s].endpoint = e
    BY <1>3, <1>6, NumberSets
  <2>2. pool[e].used /\ pool[e].ed = s
    BY <1>1, <1>6, <2>1 DEF PoolInv
  <2>3. ASSUME NEW t \in InChain, slot[t].endpoint = e PROVE FALSE
    <3>1. CASE Freed(t)
      BY <1>1, <2>2, <2>3, <3>1, NumberSets DEF PoolInv, Freed
    <3>2. CASE ~Freed(t)
      BY <1>1, <2>1, <2>2, <2>3, <3>2 DEF PoolInv
    <3> QED
      BY <3>1, <3>2
  <2> QED
    BY <1>2, <1>4, <2>2, <2>3
<1>7. \A e \in Endpoints, s \in Slots :
        pool'[e].used /\ pool'[e].ed = s <=> slot'[s].endpoint = e /\ ~Freed(s)'
  BY <1>5, <1>6 DEF Freed
<1>8. \A e \in Endpoints :
        pc' \in {"unlink", "clear"} /\ slot'[cursor'].endpoint = e =>
          ~pool'[e].used /\ pool'[e].ed = cursor'
  <2>1. SUFFICES ASSUME NEW e \in Endpoints, pc \in {"unlink", "clear"},
                        slot'[cursor].endpoint = e
                 PROVE  ~pool'[e].used /\ pool'[e].ed = cursor
    OBVIOUS
  <2>2. cursor \in Slots
    BY <2>1 DEF DeviceInv, ChainInv
  <2>3. slot[cursor].endpoint = e
    BY <1>3, <2>1, <2>2, NumberSets
  <2>4. ~pool[e].used /\ pool[e].ed = cursor
    BY <1>1, <2>1, <2>3 DEF PoolInv
  <2> QED
    BY <1>2, <2>4
<1>9. ASSUME NEW i \in Endpoints
      PROVE  i \in ed_used' <=> \E e \in Endpoints : pool'[e].used /\ pool'[e].ed = i
  <2>1. CASE \E e \in Mounted : pool[e].ed = i
    <3>1. PICK e \in Mounted : pool[e].ed = i
      BY <2>1
    <3>2. i \notin ed_used'
      BY <3>1
    <3>3. ASSUME NEW f \in Endpoints, pool'[f].used, pool'[f].ed = i PROVE FALSE
      <4>1. PICK t \in InChain : slot[t].endpoint = e
        BY <1>1, <3>1 DEF Mounted
      <4>2. f \notin Mounted /\ pool[f].used /\ pool[f].ed = i /\ i \in Slots
        BY <1>2, <3>3, NumberSets
      <4>3. slot'[i].endpoint = f /\ ~Freed(i)
        BY <1>5, <3>3, <4>2
      <4>4. pool[e].ed = t
        BY <1>1, <3>1, <4>1, NumberSets DEF PoolInv, Freed, Mounted
      <4> QED
        BY <1>1, <1>3, <3>1, <4>1, <4>3, <4>4, NumberSets
    <3> QED
      BY <3>2, <3>3
  <2>2. CASE ~\E e \in Mounted : pool[e].ed = i
    <3>1. i \in ed_used' <=> i \in ed_used
      BY <2>2
    <3>2. \A e \in Endpoints : pool[e].ed = i => (pool'[e].used <=> pool[e].used)
      BY <1>2, <2>2
    <3>3. i \in ed_used <=> \E e \in Endpoints : pool[e].used /\ pool[e].ed = i
      BY <1>1 DEF PoolInv
    <3> QED
      BY <1>2, <3>1, <3>2, <3>3
  <2> QED
    BY <2>1, <2>2
<1>10. pc' = "open" => slot'[cursor'].endpoint = None
  BY <1>1, <1>3, NumberSets DEF PoolInv, DeviceInv, RequestInv, Changing
<1> QED
  BY <1>7, <1>8, <1>9, <1>10 DEF PoolInv

LEMMA InterruptStep ==
    ASSUME DeviceInv, Interrupt
    PROVE  DeviceInv'
<1>1. /\ IfConnected /\ HostStartsOver /\ UNCHANGED control
      /\ device_state' \in {"ATTACHED", "RESET"} /\ plugged' \in BOOLEAN
  BY DEF Interrupt, BusReset, Unplug
<1>2. ~Configured' /\ interrupted' = TRUE /\ hostSelected' = 0 /\ hostAlternate' = AllZero
  BY <1>1 DEF Configured, HostStartsOver, AllZero
<1>3. UNCHANGED <<pc, request, cursor, next_interface, number>>
  BY <1>1 DEF control
<1>4. hostAlternate' \in [Endpoints -> 0..1]
  BY <1>2 DEF AllZero
<1>5. RequestInv'
  BY <1>2, <1>3 DEF DeviceInv, RequestInv
<1>6. CASE Configured
  <2>1. Disconnected
    BY <1>1, <1>6 DEF IfConnected, Configured
  <2>2. chain' = <<>> /\ selected' = 0
    BY <1>6, <2>1, Released
  <2>3. Len(chain') = 0 /\ InChain' = {}
    BY <1>6, <2>1, ReleasedTypes
  <2>4. TypeOK'
    BY <1>1, <1>2, <1>3, <1>4, <1>6, <2>1, <2>2, ReleasedTypes DEF DeviceInv, TypeOK
  <2>5. ChainInv'
    BY <1>2, <1>3, <1>6, <2>3 DEF DeviceInv, ChainInv, ChainEmpty, Mounting
  <2>6. SlotInv'
    <3>1. \A s \in Slots : slot'[s] = IF s \in InChain THEN FreeSlot(slot[s].number, slot[s].alternate)
                                                       ELSE slot[s]
      BY <1>6, <2>1, Released
    <3>2. \A s \in Slots : (pc' = "clear" /\ s = cursor') \/ (slot'[s].used <=> s \in InChain')
      <4> SUFFICES ASSUME NEW s \in Slots, ~(pc = "clear" /\ s = cursor) PROVE ~slot'[s].used
        BY <1>3, <2>3
      <4>1. CASE s \in InChain
        <5>1. slot'[s] = FreeSlot(slot[s].number, slot[s].alternate)
          BY <3>1, <4>1
        <5>2. slot'[s].used = FALSE
          BY <5>1 DEF FreeSlot
        <5> QED
          BY <5>2
      <4>2. CASE s \notin InChain
        <5>1. ~slot[s].used
          BY <4>2 DEF DeviceInv, SlotInv
        <5> QED
          BY <3>1, <4>2, <5>1
      <4> QED
        BY <4>1, <4>2
    <3>3. slot'[0].alternate = 0
      <4>1. slot[0].alternate = 0
        BY DEF DeviceInv, SlotInv
      <4>2. slot'[0] \in {slot[0], FreeSlot(slot[0].number, slot[0].alternate)}
        BY <3>1, NumberSets
      <4> QED
        BY <4>1, <4>2 DEF FreeSlot
    <3> QED
      BY <2>3, <3>2, <3>3 DEF SlotInv, ChainEmpty
  <2>7. PoolInv'
    BY <1>3, <1>6, <2>1, ReleasedPool
  <2>8. ServedInv'
    BY <1>2, <2>2 DEF ServedInv
  <2> QED
    BY <1>5, <2>4, <2>5, <2>6, <2>7, <2>8 DEF DeviceInv
<1>7. CASE ~Configured
  <2>1. UNCHANGED <<chain, slot, pool, ed_used, audio>> /\ selected' \in {0, selected}
    BY <1>1, <1>7 DEF IfConnected, Disconnected, RevertedSelection, Configured
  <2>2. InChain' = InChain
    BY <2>1 DEF InChain
  <2>3. TypeOK'
    BY <1>1, <1>2, <1>3, <1>4, <2>1 DEF DeviceInv, TypeOK
  <2>4. ChainInv'
    BY <1>2, <1>3, <1>7, <2>1 DEF DeviceInv, ChainInv, ChainFrom, ChainEmpty
  <2>5. pc \notin Mounting \cup {"detach"} => InChain = {}
    BY <1>7, InChainIs DEF DeviceInv, ChainInv, TypeOK, Resting, Changing, Mounting
  <2>6. SlotInv'
    BY <1>3, <2>1, <2>2, <2>5 DEF DeviceInv, SlotInv, ChainEmpty
  <2>7. PoolInv'
    BY <1>3, <2>1 DEF DeviceInv, PoolInv, Freed
  <2>8. ServedInv'
    BY <1>2, <1>3, <1>7, <2>1 DEF DeviceInv, ServedInv, Resting, Changing
  <2> QED
    BY <1>5, <2>3, <2>4, <2>6, <2>7, <2>8 DEF DeviceInv
<1> QED
  BY <1>6, <1>7

-----------------------------------------------------------------------------
(* Requests *)

(* Steps that touch neither the pools nor the slots' endpoints. *)
LEMMA PoolKept ==
    ASSUME PoolInv, UNCHANGED <<pool, ed_used>>,
           \A s \in Slots : slot'[s].endpoint = slot[s].endpoint,
           \/ pc \notin {"unlink", "clear"} /\ pc' \notin {"unlink", "clear", "open"}
           \/ pc = "unlink" /\ pc' = "clear" /\ cursor' = cursor /\ cursor \in Slots
    PROVE  PoolInv'
    BY DEF PoolInv, Freed

LEMMA ServedKept ==
    ASSUME UNCHANGED <<chain, slot, pool, ed_used, audio, hostAlternate>>,
           NEW i \in Endpoints, StreamServed(i)
    PROVE  StreamServed(i)'
    BY DEF StreamServed

LEMMA SetConfigurationStep ==
    ASSUME DeviceInv, NEW v \in 0..2, SetConfiguration(v)
    PROVE  DeviceInv'
<1>1. /\ pc = "idle" /\ UNCHANGED <<stack, next_interface, number, plugged>>
      /\ request' = [kind |-> "configuration", value |-> v, number |-> 0]
      /\ interrupted' = FALSE /\ hostAlternate' = hostAlternate
      /\ \/ /\ pc' = "idle" /\ cursor' = cursor
            /\ hostSelected' = hostSelected \/ (selected = v /\ hostSelected' = v)
         \/ /\ pc' = "deactivate" /\ selected # 0 /\ chain # <<>> /\ cursor' = Head(chain)
            /\ v \in 0..1 /\ hostSelected' = hostSelected
         \/ /\ pc' = "detach" /\ selected # v /\ v \in 0..1 /\ hostSelected' = hostSelected
            /\ \/ selected # 0 /\ chain = <<>> /\ cursor' = None
               \/ selected = 0 /\ cursor' = cursor
  BY DEF SetConfiguration, Take, Told, Refused, InConfigurations
<1>2. UNCHANGED <<device_state, selected, chain, slot, pool, ed_used, audio>> /\ InChain' = InChain
  BY <1>1 DEF stack, InChain
<1>3. TypeOK /\ selected \in 0..1 /\ (chain = <<>> <=> ChainEmpty)
  BY ChainIs DEF DeviceInv, TypeOK
<1>4. IF Configured THEN ChainFrom(0) ELSE ChainEmpty
  BY <1>1 DEF DeviceInv, ChainInv, Resting
<1>5. pc' = "deactivate" => cursor' = 0 /\ Configured
  <2> SUFFICES ASSUME pc' = "deactivate" PROVE cursor' = 0 /\ Configured
    OBVIOUS
  <2>1. Configured /\ ChainFrom(0)
    BY <1>1, <1>3, <1>4 DEF DeviceInv, ServedInv, Resting
  <2>2. Head(chain) = chain[1] /\ chain[1] = 0
    BY <1>3, <2>1, StreamsAssumption DEF ChainFrom, TypeOK
  <2> QED
    BY <1>1, <2>1, <2>2
<1>6. TypeOK'
  <2>1. request' \in [kind : {"none", "configuration", "interface"}, value : 0..2, number : Interfaces]
    BY <1>1, NumberSets
  <2>2. cursor' \in Slots \cup {None} /\ hostSelected' \in 0..1
    BY <1>1, <1>3, <1>5, NumberSets DEF TypeOK
  <2> QED
    BY <1>1, <1>2, <1>3, <2>1, <2>2 DEF TypeOK
<1>7. ChainInv'
  <2>1. pc' = "idle" => ChainInv'
    BY <1>2, <1>4 DEF ChainInv, ChainFrom, ChainEmpty, Configured, Resting, Changing, Mounting
  <2>2. pc' = "deactivate" => ChainInv'
    BY <1>2, <1>4, <1>5, NumberSets
    DEF ChainInv, ChainFrom, ChainEmpty, Configured, Resting, Changing, Mounting
  <2>3. pc' = "detach" => ChainEmpty \/ (ChainFrom(0) /\ Configured /\ selected = 0 /\ v = 1)
    BY <1>1, <1>3, <1>4
  <2>4. pc' = "detach" => ChainInv'
    BY <1>1, <1>2, <2>3
    DEF ChainInv, ChainFrom, ChainEmpty, Configured, Resting, Changing, Mounting
  <2> QED
    BY <1>1, <2>1, <2>2, <2>4
<1>8. RequestInv'
  BY <1>1 DEF RequestInv, Unmounting, Changing
<1>9. SlotInv'
  <2>1. pc' \notin {"clear"} \cup Mounting /\ pc \notin {"clear"} \cup Unmounting
    BY <1>1 DEF Mounting, Unmounting
  <2>2. pc' = "detach" => selected = 0 \/ InChain = {}
    BY <1>1, <1>3, InChainIs
  <2>3. SlotInv /\ (selected = 0 => \A s \in InChain : slot[s].alternate = 0)
    BY DEF DeviceInv, SlotInv
  <2> QED
    BY <1>2, <2>1, <2>2, <2>3 DEF SlotInv, ChainEmpty
<1>10. PoolInv'
  BY <1>1, <1>2, PoolKept DEF DeviceInv
<1>11. ServedInv'
  <2>1. \A i \in Endpoints : StreamServed(i) => StreamServed(i)'
    BY <1>1, <1>2, ServedKept
  <2> QED
    BY <1>1, <1>2, <1>3, <2>1 DEF DeviceInv, ServedInv, Configured, Resting, Changing
<1> QED
  BY <1>6, <1>7, <1>8, <1>9, <1>10, <1>11 DEF DeviceInv

(* The interface of a number is in the slot of that number. *)
LEMMA HoldingIs ==
    ASSUME DeviceInv, pc = "idle", Configured, NEW n \in Interfaces, Holding(n) # {}
    PROVE  /\ chain[CHOOSE i \in Holding(n) : \A j \in Holding(n) : i <= j] = n
           /\ n \in InChain
<1>1. ChainFrom(0) /\ TypeOK
  BY DEF DeviceInv, ChainInv, Resting
<1>2. InChain = Slots
  BY <1>1, InChainIs, StreamsAssumption DEF Slots
<1>3. Holding(n) = {n + 1}
  <2>1. \A i \in 1..Len(chain) : slot[chain[i]].number = chain[i] /\ chain[i] = i - 1
    BY <1>1, <1>2, ChainIs DEF DeviceInv, SlotInv, ChainFrom
  <2>2. DOMAIN chain = 1..Streams + 1 /\ Len(chain) = Streams + 1
    BY <1>1, ChainIs, StreamsAssumption DEF ChainFrom
  <2> QED
    BY <2>1, <2>2, StreamsAssumption DEF Holding, Interfaces
<1>4. (CHOOSE i \in Holding(n) : \A j \in Holding(n) : i <= j) = n + 1
  BY <1>3, NumberSets
<1>5. n \in InChain
  BY <1>2, NumberSets
<1>6. n + 1 \in 1..Len(chain) /\ chain[n + 1] = 0 + (n + 1) - 1
  BY <1>1, StreamsAssumption DEF ChainFrom, Interfaces
<1>7. chain[n + 1] = n
  BY <1>6 DEF Interfaces
<1> QED
  BY <1>4, <1>5, <1>7

LEMMA SetInterfaceStep ==
    ASSUME DeviceInv, NEW n \in Interfaces, NEW a \in 0..1, SetInterface(n, a)
    PROVE  DeviceInv'
<1>1. /\ pc = "idle" /\ UNCHANGED <<stack, next_interface, number, plugged>>
      /\ request' = [kind |-> "interface", value |-> a, number |-> n]
      /\ interrupted' = FALSE /\ UNCHANGED <<hostSelected, hostAlternate>>
      /\ \/ pc' = "idle" /\ cursor' = cursor
         \/ /\ pc' = "dismount" /\ Configured /\ Holding(n) # {} /\ selected = 1
            /\ LET s == chain[CHOOSE i \in Holding(n) : \A j \in Holding(n) : i <= j]
               IN  cursor' = s /\ slot[s].alternate # a
            /\ a = 0 \/ n > 0
  BY DEF SetInterface, Take, Told, Refused, InFramework, Configured
<1>2. UNCHANGED <<device_state, selected, chain, slot, pool, ed_used, audio>> /\ InChain' = InChain
  BY <1>1 DEF stack, InChain
<1>3. pc' = "dismount" => cursor' = n /\ n \in Endpoints
  <2> SUFFICES ASSUME pc' = "dismount" PROVE cursor' = n /\ n \in Endpoints
    OBVIOUS
  <2>1. cursor' = n /\ slot[n].alternate # a
    BY <1>1, HoldingIs
  <2>2. n # 0
    BY <1>1, <2>1 DEF DeviceInv, SlotInv
  <2> QED
    BY <2>1, <2>2, NumberSets
<1>4. TypeOK'
  <2>1. request' \in [kind : {"none", "configuration", "interface"}, value : 0..2, number : Interfaces]
    BY <1>1
  <2>2. cursor' \in Slots \cup {None}
    BY <1>1, <1>3, NumberSets DEF DeviceInv, TypeOK
  <2> QED
    BY <1>1, <1>2, <2>1, <2>2 DEF DeviceInv, TypeOK
<1>5. ChainInv'
  BY <1>1, <1>2 DEF DeviceInv, ChainInv, ChainFrom, ChainEmpty, Configured, Resting, Changing, Mounting
<1>6. RequestInv'
  BY <1>1, <1>2, <1>3 DEF RequestInv, Unmounting, Changing, Configured
<1>7. SlotInv'
  BY <1>1, <1>2 DEF DeviceInv, SlotInv, Mounting, Unmounting, ChainEmpty
<1>8. PoolInv'
  BY <1>1, <1>2, PoolKept DEF DeviceInv
<1>9. ServedInv'
  <2>1. \A i \in Endpoints : StreamServed(i) => StreamServed(i)'
    BY <1>1, <1>2, ServedKept
  <2> QED
    BY <1>1, <1>2, <2>1 DEF DeviceInv, ServedInv, Configured, Resting, Changing
<1> QED
  BY <1>4, <1>5, <1>6, <1>7, <1>8, <1>9 DEF DeviceInv

-----------------------------------------------------------------------------
(* Taking the chain apart *)

LEMMA DeactivateStep ==
    ASSUME DeviceInv, DeactivateClass
    PROVE  DeviceInv'
<1>1. /\ pc = "deactivate" /\ pc' = "free" /\ next_interface' = NextOf(cursor)
      /\ audio' \in {audio, NoAudio}
      /\ UNCHANGED <<device_state, selected, chain, slot, pool, ed_used,
                     request, cursor, number, host>>
  BY DEF DeactivateClass
<1>2. /\ TypeOK /\ Len(chain) \in Nat /\ InChain' = InChain
      /\ cursor \in Slots /\ IF Configured THEN ChainFrom(cursor) ELSE ChainEmpty
  BY <1>1, ChainIs DEF DeviceInv, ChainInv, InChain
<1>3. Configured => NextOf(cursor) = IF cursor = Streams THEN None ELSE cursor + 1
  <2> SUFFICES ASSUME Configured
               PROVE  NextOf(cursor) = IF cursor = Streams THEN None ELSE cursor + 1
    OBVIOUS
  <2>1. Len(chain) = Streams + 1 - cursor /\ \A i \in 1..Len(chain) : chain[i] = cursor + i - 1
    BY <1>2 DEF ChainFrom
  <2>2. CASE cursor = Streams
    BY <2>1, <2>2, StreamsAssumption DEF NextOf
  <2>3. CASE cursor # Streams
    <3>1. 1 \in 1..Len(chain) - 1 /\ chain[1] = cursor /\ chain[1 + 1] = cursor + 1
      BY <1>2, <2>1, <2>3, StreamsAssumption DEF Slots
    <3>2. \A i \in 1..Len(chain) - 1 : chain[i] = cursor => i = 1
      BY <1>2, <2>1, StreamsAssumption DEF Slots
    <3>3. (CHOOSE i \in 1..Len(chain) - 1 : chain[i] = cursor) = 1
      BY <3>1, <3>2
    <3> QED
      BY <2>3, <3>1, <3>3 DEF NextOf
  <2> QED
    BY <2>2, <2>3
<1>4. NextOf(cursor) \in Slots \cup {None}
  <2>1. CASE Configured
    BY <1>2, <1>3, <2>1, StreamsAssumption DEF Slots
  <2>2. CASE ~Configured
    BY <1>2, <2>2 DEF NextOf, ChainEmpty
  <2> QED
    BY <2>1, <2>2
<1>5. TypeOK'
  <2>1. NoAudio \in [control : Slots \cup {None}, stream : [Endpoints -> Slots \cup {None}],
                     endpoint : [Endpoints -> Endpoints \cup {None}]]
    BY DEF NoAudio
  <2> QED
    BY <1>1, <1>2, <1>4, <2>1 DEF TypeOK, host
<1>6. ChainInv'
  BY <1>1, <1>2, <1>3
  DEF ChainInv, ChainFrom, ChainEmpty, Configured, Resting, Changing, Mounting
<1>7. RequestInv'
  BY <1>1 DEF DeviceInv, RequestInv, Unmounting, Changing
<1>8. SlotInv'
  BY <1>1, <1>2 DEF DeviceInv, SlotInv, Unmounting, Mounting
<1>9. PoolInv'
  BY <1>1, PoolKept DEF DeviceInv
<1>10. ServedInv'
  BY <1>1 DEF DeviceInv, ServedInv, Resting, Changing, host
<1> QED
  BY <1>5, <1>6, <1>7, <1>8, <1>9, <1>10 DEF DeviceInv

(* What an endpoint being freed leaves in the pools: nothing with its ED. *)
LEMMA EndpointIsFreed ==
    ASSUME DeviceInv, pc \notin {"unlink", "clear"}, NEW s \in Slots,
           EndpointFreed(slot[s].endpoint)
    PROVE  /\ pool' \in [Endpoints -> [used : BOOLEAN, ed : Endpoints]]
           /\ ed_used' \subseteq Endpoints
           /\ \A e \in Endpoints : pool'[e].ed = pool[e].ed
           /\ \A e \in Endpoints :
                pool'[e].used <=> pool[e].used /\ slot[s].endpoint # e
           /\ \A e \in Endpoints :
                pool[e].used /\ pool[e].ed = s <=> slot[s].endpoint = e
           /\ \A i \in Endpoints : i \in ed_used' <=> i \in ed_used /\ i # s
<1>1. /\ pool \in [Endpoints -> [used : BOOLEAN, ed : Endpoints]] /\ ed_used \subseteq Endpoints
      /\ slot[s].endpoint \in Endpoints \cup {None} /\ PoolInv
  BY DEF DeviceInv, TypeOK
<1>2. \A e \in Endpoints : pool[e].used /\ pool[e].ed = s <=> slot[s].endpoint = e
  BY <1>1 DEF PoolInv, Freed
<1>3. CASE slot[s].endpoint = None
  <2>1. pool' = pool /\ ed_used' = ed_used
    BY <1>3 DEF EndpointFreed
  <2>2. s \notin ed_used
    BY <1>1, <1>2, <1>3, NumberSets DEF PoolInv
  <2> QED
    BY <1>1, <1>2, <1>3, <2>1, <2>2, NumberSets
<1>4. CASE slot[s].endpoint # None
  <2> DEFINE f == slot[s].endpoint
  <2>1. /\ f \in Endpoints
        /\ pool' = [pool EXCEPT ![f].used = FALSE]
        /\ ed_used' = ed_used \ {pool[f].ed}
    BY <1>1, <1>4 DEF EndpointFreed
  <2>2. pool[f].ed = s
    BY <1>2, <2>1
  <2>3. pool'[f] = [pool[f] EXCEPT !.used = FALSE] /\ \A e \in Endpoints \ {f} : pool'[e] = pool[e]
    BY <1>1, <2>1
  <2>4. pool'[f].used = FALSE /\ pool'[f].ed = pool[f].ed
        /\ pool'[f] \in [used : BOOLEAN, ed : Endpoints]
    BY <1>1, <2>1, <2>3, PoolRecord
  <2>5. pool' \in [Endpoints -> [used : BOOLEAN, ed : Endpoints]]
    BY <1>1, <2>1, <2>3, <2>4
  <2> HIDE DEF f
  <2>6. \A e \in Endpoints : pool'[e].ed = pool[e].ed /\ (pool'[e].used <=> pool[e].used /\ f # e)
    BY <2>1, <2>3, <2>4
  <2> QED
    BY <1>1, <1>2, <2>1, <2>2, <2>5, <2>6 DEF f
<1> QED
  BY <1>3, <1>4

LEMMA FreeStep ==
    ASSUME DeviceInv, FreeEndpoints
    PROVE  DeviceInv'
<1>1. /\ pc = "free" /\ pc' = "unlink" /\ EndpointFreed(slot[cursor].endpoint)
      /\ UNCHANGED <<device_state, selected, chain, slot, audio,
                     request, cursor, next_interface, number, host>>
  BY DEF FreeEndpoints
<1>2. TypeOK /\ cursor \in Slots /\ InChain' = InChain
  BY <1>1 DEF DeviceInv, ChainInv, InChain
<1>3. /\ pool' \in [Endpoints -> [used : BOOLEAN, ed : Endpoints]]
      /\ ed_used' \subseteq Endpoints
      /\ \A e \in Endpoints : pool'[e].ed = pool[e].ed
      /\ \A e \in Endpoints : pool'[e].used <=> pool[e].used /\ slot[cursor].endpoint # e
      /\ \A e \in Endpoints : pool[e].used /\ pool[e].ed = cursor <=> slot[cursor].endpoint = e
      /\ \A i \in Endpoints : i \in ed_used' <=> i \in ed_used /\ i # cursor
  BY <1>1, <1>2, EndpointIsFreed
<1>4. TypeOK'
  BY <1>1, <1>2, <1>3 DEF TypeOK, host
<1>5. ChainInv'
  BY <1>1, <1>2
  DEF DeviceInv, ChainInv, ChainFrom, ChainEmpty, Configured, Resting, Changing, Mounting
<1>6. RequestInv'
  BY <1>1 DEF DeviceInv, RequestInv, Unmounting, Changing
<1>7. SlotInv'
  BY <1>1, <1>2 DEF DeviceInv, SlotInv, Unmounting, Mounting
<1>8. PoolInv'
  <2>1. \A e \in Endpoints, s \in Slots :
          pool[e].used /\ pool[e].ed = s <=> slot[s].endpoint = e
    BY <1>1 DEF DeviceInv, PoolInv, Freed
  <2>2. ASSUME NEW e \in Endpoints, NEW s \in Slots
        PROVE  pool'[e].used /\ pool'[e].ed = s <=> slot[s].endpoint = e /\ s # cursor
    BY <1>2, <1>3, <2>1
  <2>3. \A e \in Endpoints :
          slot[cursor].endpoint = e => ~pool'[e].used /\ pool'[e].ed = cursor
    BY <1>3
  <2>4. ASSUME NEW i \in Endpoints
        PROVE  i \in ed_used' <=> \E e \in Endpoints : pool'[e].used /\ pool'[e].ed = i
    <3>1. i \in ed_used <=> \E e \in Endpoints : pool[e].used /\ pool[e].ed = i
      BY DEF DeviceInv, PoolInv
    <3> QED
      BY <1>3, <3>1
  <2> QED
    BY <1>1, <2>2, <2>3, <2>4 DEF PoolInv, Freed
<1>9. ServedInv'
  BY <1>1 DEF DeviceInv, ServedInv, Resting, Changing, host
<1> QED
  BY <1>4, <1>5, <1>6, <1>7, <1>8, <1>9 DEF DeviceInv

LEMMA UnlinkStep ==
    ASSUME DeviceInv, UnlinkInterface
    PROVE  DeviceInv'
<1>1. /\ pc = "unlink" /\ pc' = "clear"
      /\ chain' = IF chain # <<>> /\ Head(chain) = cursor THEN Tail(chain) ELSE <<>>
      /\ UNCHANGED <<device_state, selected, slot, pool, ed_used, audio,
                     request, cursor, next_interface, number, host>>
  BY DEF UnlinkInterface
<1>2. /\ TypeOK /\ Len(chain) \in Nat /\ chain \in Seq(Slots) /\ (chain = <<>> <=> ChainEmpty)
      /\ cursor \in Slots /\ IF Configured THEN ChainFrom(cursor) ELSE ChainEmpty
  BY <1>1, ChainIs DEF DeviceInv, ChainInv, TypeOK
<1>3. Configured => ChainFrom(cursor + 1)' /\ chain' \in Seq(Slots)
  <2> SUFFICES ASSUME Configured PROVE ChainFrom(cursor + 1)' /\ chain' \in Seq(Slots)
    OBVIOUS
  <2>1. Len(chain) = Streams + 1 - cursor /\ \A i \in 1..Len(chain) : chain[i] = cursor + i - 1
    BY <1>2 DEF ChainFrom
  <2>2. chain # <<>> /\ Head(chain) = cursor
    BY <1>2, <2>1, StreamsAssumption DEF Slots, ChainEmpty
  <2>3. /\ chain' = Tail(chain) /\ chain' \in Seq(Slots) /\ Len(chain') = Len(chain) - 1
        /\ \A i \in 1..Len(chain') : chain'[i] = chain[i + 1]
    BY <1>1, <1>2, <2>2, HeadTailProperties
  <2>4. cursor \in Nat /\ Streams \in Nat /\ Len(chain) \in Nat /\ cursor' = cursor
    BY <1>1, <1>2, StreamsAssumption DEF Slots
  <2>5. Len(chain') = Streams + 1 - (cursor + 1)
    BY <2>1, <2>3, <2>4
  <2>6. ASSUME NEW i \in 1..Len(chain') PROVE chain'[i] = (cursor + 1) + i - 1
    <3>1. i + 1 \in 1..Len(chain) /\ chain'[i] = chain[i + 1]
      BY <2>3, <2>4, <2>6
    <3>2. chain[i + 1] = cursor + (i + 1) - 1
      BY <2>1, <3>1
    <3> QED
      BY <2>4, <3>1, <3>2
  <2> QED
    BY <2>3, <2>4, <2>5, <2>6 DEF ChainFrom
<1>4. ~Configured => chain' = <<>> /\ ChainEmpty' /\ chain' \in Seq(Slots)
  BY <1>1, <1>2, EmptySeq DEF ChainEmpty
<1>5. TypeOK'
  BY <1>1, <1>2, <1>3, <1>4 DEF TypeOK, host
<1>6. ChainInv'
  BY <1>1, <1>2, <1>3, <1>4
  DEF DeviceInv, ChainInv, ChainFrom, Configured, Resting, Changing, Mounting
<1>7. InChain' = InChain \ {cursor}
  <2>1. CASE Configured
    <3>1. InChain = cursor..Streams
      BY <1>2, <2>1, InChainIs, StreamsAssumption DEF Slots
    <3>2. InChain' = { chain'[i] : i \in 1..Len(chain') }
      BY <1>3, <2>1, LenProperties DEF InChain
    <3>3. Len(chain') = Streams - cursor /\ \A i \in 1..Len(chain') : chain'[i] = cursor + i
      BY <1>1, <1>2, <1>3, <2>1, StreamsAssumption DEF ChainFrom, Slots
    <3>4. ASSUME NEW t \in cursor + 1..Streams PROVE t \in InChain'
      <4>1. t - cursor \in 1..Len(chain') /\ chain'[t - cursor] = t
        BY <1>2, <3>3, <3>4, StreamsAssumption DEF Slots
      <4> QED
        BY <3>2, <4>1
    <3>5. ASSUME NEW t \in InChain' PROVE t \in cursor + 1..Streams
      <4>1. PICK i \in 1..Len(chain') : t = chain'[i]
        BY <3>2
      <4> QED
        BY <1>2, <3>3, <4>1, StreamsAssumption DEF Slots
    <3> QED
      BY <1>2, <3>1, <3>4, <3>5, StreamsAssumption DEF Slots
  <2>2. CASE ~Configured
    <3>1. InChain = {}
      BY <1>2, <2>2, InChainIs
    <3>2. InChain' = {}
      BY <1>4, <2>2 DEF InChain
    <3> QED
      BY <3>1, <3>2
  <2> QED
    BY <2>1, <2>2
<1>8. RequestInv'
  BY <1>1 DEF DeviceInv, RequestInv, Unmounting, Changing
<1>9. SlotInv'
  BY <1>1, <1>7 DEF DeviceInv, SlotInv, Unmounting, Mounting
<1>10. PoolInv'
  BY <1>1, <1>2, PoolKept DEF DeviceInv
<1>11. ServedInv'
  BY <1>1 DEF DeviceInv, ServedInv, Resting, Changing, host
<1> QED
  BY <1>5, <1>6, <1>8, <1>9, <1>10, <1>11 DEF DeviceInv

LEMMA ClearStep ==
    ASSUME DeviceInv, ClearInterface
    PROVE  DeviceInv'
<1>1. /\ pc = "clear" /\ cursor' = next_interface
      /\ slot' = [slot EXCEPT ![cursor] = FreeSlot(@.number, @.alternate)]
      /\ pc' = IF next_interface = None THEN "detach" ELSE "deactivate"
      /\ UNCHANGED <<device_state, selected, chain, pool, ed_used, audio,
                     request, next_interface, number, host>>
  BY DEF ClearInterface
<1>2. /\ TypeOK /\ cursor \in Slots /\ InChain' = InChain
      /\ IF Configured THEN ChainFrom(cursor + 1) ELSE ChainEmpty
      /\ Configured => next_interface = IF cursor = Streams THEN None ELSE cursor + 1
  BY <1>1 DEF DeviceInv, ChainInv, InChain
<1>3. /\ slot'[cursor] = FreeSlot(slot[cursor].number, slot[cursor].alternate)
      /\ \A s \in Slots \ {cursor} : slot'[s] = slot[s]
      /\ slot' \in [Slots -> [used : BOOLEAN, number : Interfaces, alternate : 0..1,
                              class : BOOLEAN, endpoint : Endpoints \cup {None}]]
  <2>1. FreeSlot(slot[cursor].number, slot[cursor].alternate) \in
          [used : BOOLEAN, number : Interfaces, alternate : 0..1,
           class : BOOLEAN, endpoint : Endpoints \cup {None}]
    BY <1>2 DEF TypeOK, FreeSlot
  <2> QED
    BY <1>1, <1>2, <2>1 DEF TypeOK
<1>4. /\ slot'[cursor].used = FALSE /\ slot'[cursor].endpoint = None
      /\ slot'[cursor].alternate = slot[cursor].alternate
  BY <1>3 DEF FreeSlot
<1>5. TypeOK'
  BY <1>1, <1>2, <1>3 DEF TypeOK, host
<1>6. cursor \notin InChain
  <2>1. CASE Configured
    <3>1. cursor + 1 \in 0..Streams + 1
      BY <1>2, StreamsAssumption DEF Slots
    <3>2. InChain = cursor + 1..Streams
      BY <1>2, <2>1, <3>1, InChainIs
    <3> QED
      BY <1>2, <3>2 DEF Slots
  <2>2. CASE ~Configured
    BY <1>2, <2>2, InChainIs
  <2> QED
    BY <2>1, <2>2
<1>7. /\ pc' = "detach" => ChainEmpty
      /\ pc' = "deactivate" =>
           next_interface \in Slots /\ IF Configured THEN ChainFrom(next_interface) ELSE ChainEmpty
  <2>1. CASE Configured
    <3>1. cursor = Streams => ChainEmpty
      BY <1>2, <2>1, StreamsAssumption DEF ChainFrom, ChainEmpty
    <3> QED
      BY <1>1, <1>2, <2>1, <3>1, NumberSets, StreamsAssumption DEF Slots, None
  <2>2. CASE ~Configured
    BY <1>1, <1>2, <2>2 DEF TypeOK
  <2> QED
    BY <2>1, <2>2
<1>8. ChainInv'
  BY <1>1, <1>7 DEF ChainInv, ChainFrom, ChainEmpty, Configured, Resting, Changing, Mounting
<1>9. RequestInv'
  BY <1>1 DEF DeviceInv, RequestInv, Unmounting, Changing
<1>10. SlotInv'
  <2>1. SlotInv
    BY DEF DeviceInv
  <2>2. \A s \in Slots : slot'[s].used <=> s \in InChain'
    BY <1>1, <1>2, <1>3, <1>4, <1>6, <2>1 DEF SlotInv
  <2>3. \A s \in InChain : s \in Slots \ {cursor} /\ slot'[s] = slot[s]
    BY <1>2, <1>3, <1>6, InChainIs
  <2>4. slot'[0].alternate = 0
    BY <1>2, <1>3, <1>4, <2>1, NumberSets DEF SlotInv
  <2>5. pc' = "detach" => InChain = {}
    BY <1>2, <1>7, InChainIs
  <2>6. pc' \in {"detach", "deactivate"}
    BY <1>1
  <2>7. /\ \A s \in InChain : slot[s].number = s /\ slot[s].class
        /\ selected = 0 => \A s \in InChain : slot[s].alternate = 0
    BY <2>1 DEF SlotInv
  <2> QED
    BY <1>1, <1>2, <1>7, <2>2, <2>3, <2>4, <2>5, <2>6, <2>7
    DEF SlotInv, Unmounting, Mounting, ChainEmpty
<1>11. PoolInv'
  <2>1. PoolInv
    BY DEF DeviceInv
  <2>2. ASSUME NEW e \in Endpoints, NEW s \in Slots
        PROVE  pool[e].used /\ pool[e].ed = s <=> slot'[s].endpoint = e
    <3>1. CASE s = cursor
      BY <1>1, <1>4, <2>1, <3>1, NumberSets DEF PoolInv, Freed
    <3>2. CASE s # cursor
      BY <1>1, <1>3, <2>1, <3>2 DEF PoolInv, Freed
    <3> QED
      BY <3>1, <3>2
  <2>3. pc' \notin {"unlink", "clear", "open"}
    BY <1>1
  <2> QED
    BY <1>1, <2>1, <2>2, <2>3 DEF PoolInv, Freed
<1>12. ServedInv'
  BY <1>1 DEF DeviceInv, ServedInv, Resting, Changing, host
<1> QED
  BY <1>5, <1>8, <1>9, <1>10, <1>11, <1>12 DEF DeviceInv

(* No configuration is selected any more, or not yet. *)
LEMMA DetachStep ==
    ASSUME DeviceInv, Detach
    PROVE  DeviceInv'
<1>1. /\ pc = "detach" /\ selected' = 0 /\ ~Configured' /\ device_state' = "ATTACHED"
      /\ UNCHANGED <<chain, slot, pool, ed_used, audio, request, cursor, next_interface,
                     number, plugged, interrupted>>
      /\ \/ /\ request.value = 0 /\ pc' = "idle"
            /\ \/ interrupted /\ UNCHANGED <<hostSelected, hostAlternate>>
               \/ ~interrupted /\ hostSelected' = 0 /\ hostAlternate' = AllZero
         \/ /\ request.value # 0 /\ pc' = "select"
            /\ UNCHANGED <<hostSelected, hostAlternate>>
  BY DEF Detach, Answered, Told, Refused, Configured
<1>2. TypeOK /\ request.value \in 0..1 /\ InChain' = InChain /\ AllZero \in [Endpoints -> 0..1]
  BY <1>1 DEF DeviceInv, RequestInv, InChain, AllZero
<1>3. ChainEmpty \/ (ChainFrom(0) /\ request.value = 1)
  BY <1>1 DEF DeviceInv, ChainInv
<1>4. TypeOK'
  BY <1>1, <1>2 DEF TypeOK
<1>5. ChainInv'
  BY <1>1, <1>2, <1>3 DEF ChainInv, ChainFrom, ChainEmpty, Resting, Changing, Mounting
<1>6. RequestInv'
  BY <1>1 DEF RequestInv, Unmounting, Changing
<1>7. SlotInv'
  BY <1>1, <1>2 DEF DeviceInv, SlotInv, Unmounting, Mounting, ChainEmpty
<1>8. PoolInv'
  BY <1>1, PoolKept DEF DeviceInv
<1>9. ServedInv'
  BY <1>1 DEF DeviceInv, ServedInv, Resting, Changing
<1> QED
  BY <1>4, <1>5, <1>6, <1>7, <1>8, <1>9 DEF DeviceInv

-----------------------------------------------------------------------------
(* Putting the chain together *)

LEMMA SelectStep ==
    ASSUME DeviceInv, Select
    PROVE  DeviceInv'
<1>1. /\ pc = "select" /\ pc' = "mount" /\ selected' = request.value /\ number' = 0
      /\ UNCHANGED <<device_state, chain, slot, pool, ed_used, audio, request, cursor,
                     next_interface, host>>
  BY DEF Select
<1>2. /\ TypeOK /\ request.value = 1 /\ ~Configured /\ (ChainEmpty \/ ChainFrom(0))
      /\ InChain' = InChain
  BY <1>1 DEF DeviceInv, ChainInv, Mounting, InChain
<1>3. TypeOK'
  BY <1>1, <1>2, StreamsAssumption DEF TypeOK, host
<1>4. ChainInv'
  BY <1>1, <1>2, NumberSets
  DEF ChainInv, ChainFrom, ChainEmpty, Configured, Resting, Changing, Mounting
<1>5. RequestInv'
  BY <1>1, <1>2 DEF RequestInv, Unmounting, Changing
<1>6. SlotInv'
  BY <1>1, <1>2 DEF DeviceInv, SlotInv, Unmounting, Mounting, ChainEmpty
<1>7. PoolInv'
  BY <1>1, PoolKept DEF DeviceInv
<1>8. ServedInv'
  BY <1>1 DEF DeviceInv, ServedInv, Resting, Changing, host
<1> QED
  BY <1>3, <1>4, <1>5, <1>6, <1>7, <1>8 DEF DeviceInv

LEMMA MountedRecord ==
    ASSUME NEW r \in [used : BOOLEAN, number : Interfaces, alternate : 0..1,
                      class : BOOLEAN, endpoint : Endpoints \cup {None}],
           NEW n \in Interfaces, NEW m,
           m = [r EXCEPT !.used = TRUE, !.number = n, !.alternate = 0, !.class = TRUE]
    PROVE  /\ m \in [used : BOOLEAN, number : Interfaces, alternate : 0..1,
                      class : BOOLEAN, endpoint : Endpoints \cup {None}]
           /\ m.used = TRUE /\ m.number = n /\ m.alternate = 0
           /\ m.class = TRUE /\ m.endpoint = r.endpoint
<1>1. m = [used |-> TRUE, number |-> n, alternate |-> 0, class |-> TRUE, endpoint |-> r.endpoint]
  OBVIOUS
<1>2. r.endpoint \in Endpoints \cup {None} /\ 0 \in 0..1
  OBVIOUS
<1>3. m \in [used : BOOLEAN, number : Interfaces, alternate : 0..1,
             class : BOOLEAN, endpoint : Endpoints \cup {None}]
  BY <1>1, <1>2, Zenon
<1>4. /\ m.used = TRUE /\ m.number = n /\ m.alternate = 0
      /\ m.class = TRUE /\ m.endpoint = r.endpoint
  BY <1>1, Zenon
<1> QED
  BY <1>3, <1>4

(* A slot is taken in the order of the numbers, or none is free because an *)
(* interrupted request has mounted everything.                             *)
LEMMA MountTakes ==
    ASSUME DeviceInv, MountInterface
    PROVE  /\ number \in Interfaces
           /\ \/ /\ ChainFrom(0) /\ InChain = Slots
                 /\ UNCHANGED <<chain, slot, audio>>
              \/ /\ Len(chain) = number /\ InChain = 0..number - 1
                 /\ \A i \in 1..number : chain[i] = i - 1
                 /\ slot' = [slot EXCEPT ![number].used = TRUE, ![number].number = number,
                                         ![number].alternate = 0, ![number].class = TRUE]
                 /\ chain' = Append(chain, number)
                 /\ audio' = Activated(number, number)
<1>1. /\ pc = "mount" /\ TypeOK /\ number \in Interfaces
      /\ \/ ChainFrom(0)
         \/ Len(chain) = number /\ \A i \in 1..number : chain[i] = i - 1
  BY DEF MountInterface, DeviceInv, ChainInv
<1>2. FreeSlots = Slots \ InChain
  BY <1>1 DEF FreeSlots, DeviceInv, SlotInv
<1>3. CASE ChainFrom(0)
  <2>1. InChain = Slots
    BY <1>1, <1>3, InChainIs, StreamsAssumption DEF Slots
  <2> QED
    BY <1>1, <1>2, <1>3, <2>1 DEF MountInterface
<1>4. CASE Len(chain) = number /\ \A i \in 1..number : chain[i] = i - 1
  <2>1. InChain = 0..number - 1
    BY <1>1, <1>4, InChainIs, StreamsAssumption DEF Interfaces
  <2>2. FreeSlots = number..Streams
    BY <1>1, <1>2, <2>1, StreamsAssumption DEF Slots, Interfaces
  <2>3. number \in FreeSlots /\ \A t \in FreeSlots : number <= t
    BY <1>1, <2>2, StreamsAssumption DEF Interfaces
  <2>4. FirstFree = number
    BY <1>1, <2>2, <2>3, StreamsAssumption DEF FirstFree, Interfaces
  <2> QED
    BY <1>1, <1>4, <2>1, <2>3, <2>4 DEF MountInterface
<1> QED
  BY <1>1, <1>3, <1>4

LEMMA MountStep ==
    ASSUME DeviceInv, MountInterface
    PROVE  DeviceInv'
<1>1. /\ pc = "mount" /\ number' = number + 1
      /\ pc' = IF number = Streams THEN "configured" ELSE "mount"
      /\ UNCHANGED <<device_state, selected, pool, ed_used, request, cursor,
                     next_interface, host>>
  BY DEF MountInterface
<1>2. TypeOK /\ number \in Interfaces /\ ~Configured /\ request.value = 1 /\ SlotInv
  BY <1>1, MountTakes DEF DeviceInv, ChainInv, Mounting
<1>3. number' \in 0..Streams + 1
  BY <1>1, <1>2, StreamsAssumption DEF Interfaces
<1>4. RequestInv'
  BY <1>1 DEF DeviceInv, RequestInv, Unmounting, Changing, host
<1>5. ServedInv'
  BY <1>1 DEF DeviceInv, ServedInv, Resting, Changing, host
<1>6. CASE ChainFrom(0) /\ InChain = Slots /\ UNCHANGED <<chain, slot, audio>>
  <2>1. TypeOK'
    BY <1>1, <1>2, <1>3, <1>6 DEF TypeOK, host
  <2>2. ChainInv'
    BY <1>1, <1>2, <1>6, StreamsAssumption
    DEF ChainInv, ChainFrom, Configured, Resting, Changing, Mounting, Interfaces
  <2>3. SlotInv'
    <3>1. InChain' = InChain
      BY <1>6 DEF InChain
    <3> QED
      BY <1>1, <1>2, <1>6, <3>1 DEF SlotInv, Unmounting, Mounting, ChainEmpty
  <2>4. PoolInv'
    BY <1>1, <1>6, PoolKept DEF DeviceInv
  <2> QED
    BY <1>4, <1>5, <2>1, <2>2, <2>3, <2>4 DEF DeviceInv
<1>7. CASE /\ Len(chain) = number /\ InChain = 0..number - 1
           /\ \A i \in 1..number : chain[i] = i - 1
           /\ slot' = [slot EXCEPT ![number].used = TRUE, ![number].number = number,
                                   ![number].alternate = 0, ![number].class = TRUE]
           /\ chain' = Append(chain, number)
           /\ audio' = Activated(number, number)
  <2>1. number \in Slots /\ number \in Nat /\ Streams \in Nat /\ number <= Streams
    BY <1>2, StreamsAssumption DEF Slots, Interfaces
  <2>2. /\ chain' \in Seq(Slots) /\ Len(chain') = number + 1
        /\ \A i \in 1..number + 1 : chain'[i] = i - 1
    <3>1. chain \in Seq(Slots)
      BY <1>2 DEF TypeOK
    <3>2. /\ chain' \in Seq(Slots) /\ Len(chain') = number + 1
          /\ \A i \in 1..number : chain'[i] = chain[i]
          /\ chain'[number + 1] = number
      BY <1>7, <2>1, <3>1, AppendProperties
    <3> QED
      BY <1>7, <2>1, <3>2
  <2>3. InChain' = 0..number
    <3>1. InChain' = { chain'[i] : i \in 1..number + 1 }
      BY <2>2, LenProperties DEF InChain
    <3>2. ASSUME NEW t \in 0..number PROVE t \in InChain'
      <4>1. t + 1 \in 1..number + 1 /\ chain'[t + 1] = t
        BY <2>1, <2>2, <3>2
      <4> QED
        BY <3>1, <4>1
    <3>3. ASSUME NEW t \in InChain' PROVE t \in 0..number
      BY <2>1, <2>2, <3>1, <3>3
    <3> QED
      BY <3>2, <3>3
  <2>4. /\ slot' \in [Slots -> [used : BOOLEAN, number : Interfaces, alternate : 0..1,
                                class : BOOLEAN, endpoint : Endpoints \cup {None}]]
        /\ slot'[number].used = TRUE /\ slot'[number].number = number
        /\ slot'[number].alternate = 0 /\ slot'[number].class = TRUE
        /\ slot'[number].endpoint = slot[number].endpoint
        /\ \A s \in Slots \ {number} : slot'[s] = slot[s]
    <3> DEFINE mounted == [slot[number] EXCEPT !.used = TRUE, !.number = number,
                                               !.alternate = 0, !.class = TRUE]
    <3>1. slot \in [Slots -> [used : BOOLEAN, number : Interfaces, alternate : 0..1,
                              class : BOOLEAN, endpoint : Endpoints \cup {None}]]
      BY <1>2 DEF TypeOK
    <3>2. slot' = [slot EXCEPT ![number] = mounted]
      BY <1>7, <2>1, <3>1
    <3>3. /\ mounted \in [used : BOOLEAN, number : Interfaces, alternate : 0..1,
                           class : BOOLEAN, endpoint : Endpoints \cup {None}]
          /\ mounted.used = TRUE /\ mounted.number = number /\ mounted.alternate = 0
          /\ mounted.class = TRUE /\ mounted.endpoint = slot[number].endpoint
      <4>1. slot[number] \in [used : BOOLEAN, number : Interfaces, alternate : 0..1,
                              class : BOOLEAN, endpoint : Endpoints \cup {None}]
        BY <2>1, <3>1
      <4> QED
        BY <1>2, <4>1, MountedRecord
    <3> HIDE DEF mounted
    <3> QED
      BY <2>1, <3>1, <3>2, <3>3
  <2>5. /\ audio' \in [control : Slots \cup {None}, stream : [Endpoints -> Slots \cup {None}],
                       endpoint : [Endpoints -> Endpoints \cup {None}]]
        /\ audio'.control = IF number = 0 THEN 0 ELSE audio.control
    BY <1>2, <1>7, <2>1 DEF TypeOK, Activated
  <2>6. TypeOK'
    BY <1>1, <1>2, <1>3, <2>2, <2>4, <2>5 DEF TypeOK, host
  <2>7. ChainInv'
    <3>1. number = Streams => ChainFrom(0)'
      BY <2>1, <2>2 DEF ChainFrom
    <3>2. number # Streams =>
            number' \in Interfaces /\ Len(chain') = number' /\ \A i \in 1..number' : chain'[i] = i - 1
      BY <1>1, <2>1, <2>2 DEF Interfaces
    <3> QED
      BY <1>1, <1>2, <3>1, <3>2 DEF ChainInv, Configured, Resting, Changing, Mounting
  <2>8. SlotInv'
    <3>1. \A s \in Slots : s \in InChain' <=> s \in InChain \/ s = number
      BY <1>7, <2>1, <2>3 DEF Slots
    <3>2. InChain' \subseteq Slots
      BY <2>1, <2>3 DEF Slots
    <3>3. \A s \in Slots : slot'[s].used <=> s \in InChain'
      BY <1>1, <1>2, <2>4, <3>1 DEF SlotInv
    <3>4. \A s \in InChain' : slot'[s].number = s /\ slot'[s].class
      BY <1>2, <2>4, <3>1, <3>2 DEF SlotInv
    <3>5. \A s \in InChain' : slot'[s].alternate = 0
      BY <1>1, <1>2, <2>4, <3>1, <3>2 DEF SlotInv, Mounting
    <3>6. slot'[0].alternate = 0
      BY <1>2, <2>4, NumberSets DEF SlotInv
    <3>7. audio'.control = 0
      BY <1>1, <1>2, <1>7, <2>5 DEF SlotInv, Unmounting, ChainEmpty
    <3> QED
      BY <3>3, <3>4, <3>5, <3>6, <3>7 DEF SlotInv
  <2>9. PoolInv'
    <3>1. \A s \in Slots : slot'[s].endpoint = slot[s].endpoint
      BY <2>4
    <3> QED
      BY <1>1, <3>1, PoolKept DEF DeviceInv
  <2> QED
    BY <1>4, <1>5, <2>6, <2>7, <2>8, <2>9 DEF DeviceInv
<1> QED
  BY <1>6, <1>7, MountTakes

(* The chain in full has every interface in its place. *)
LEMMA ChainAt ==
    ASSUME ChainFrom(0), NEW s \in Slots
    PROVE  chain[s + 1] = s
<1>1. s + 1 \in 1..Len(chain) /\ s \in Int
  BY StreamsAssumption DEF ChainFrom, Slots
<1>2. chain[s + 1] = 0 + (s + 1) - 1
  BY <1>1 DEF ChainFrom
<1> QED
  BY <1>1, <1>2

LEMMA ConfigureStep ==
    ASSUME DeviceInv, Configure
    PROVE  DeviceInv'
<1>1. /\ pc = "configured" /\ pc' = "idle" /\ Configured'
      /\ device_state' = "CONFIGURED"
      /\ UNCHANGED <<selected, chain, slot, pool, ed_used, audio, request, cursor,
                     next_interface, number, plugged, interrupted>>
      /\ \/ interrupted /\ UNCHANGED <<hostSelected, hostAlternate>>
         \/ /\ ~interrupted /\ hostSelected' = request.value /\ hostAlternate' = AllZero
  BY DEF Configure, Answered, Told, Refused, Configured
<1>2. /\ TypeOK /\ ChainFrom(0) /\ request.value = 1 /\ InChain' = InChain
      /\ AllZero \in [Endpoints -> 0..1] /\ SlotInv /\ RequestInv
  BY <1>1 DEF DeviceInv, ChainInv, Mounting, InChain, AllZero
<1>3. InChain = Slots
  BY <1>2, InChainIs, StreamsAssumption DEF Slots
<1>4. TypeOK'
  BY <1>1, <1>2 DEF TypeOK
<1>5. ChainInv'
  BY <1>1, <1>2 DEF ChainInv, ChainFrom, Resting, Changing, Mounting
<1>6. RequestInv'
  BY <1>1 DEF RequestInv, Unmounting, Changing
<1>7. SlotInv'
  BY <1>1, <1>2 DEF SlotInv, Unmounting, Mounting, ChainEmpty
<1>8. PoolInv'
  BY <1>1, PoolKept DEF DeviceInv
<1>9. ServedInv'
  <2>1. hostAlternate' = AllZero /\ (hostSelected' = 1 => selected = 1)
        /\ (interrupted => hostSelected' = 0)
    BY <1>1, <1>2 DEF DeviceInv, ServedInv, RequestInv
  <2>2. ASSUME NEW i \in Endpoints PROVE StreamServed(i)'
    <3>1. chain[i + 1] = i
      BY <1>2, ChainAt, NumberSets
    <3>2. slot[i].alternate = 0 /\ hostAlternate'[i] = 0
      BY <1>1, <1>2, <1>3, <2>1, NumberSets DEF SlotInv, Mounting, AllZero
    <3> QED
      BY <1>1, <3>1, <3>2 DEF StreamServed
  <2> QED
    BY <1>1, <2>1, <2>2 DEF ServedInv, Resting
<1> QED
  BY <1>4, <1>5, <1>6, <1>7, <1>8, <1>9 DEF DeviceInv

-----------------------------------------------------------------------------
(* Changing an alternate setting *)

(***************************************************************************)
(* The slot of the request holds no endpoint, so its ED is free; and every *)
(* endpoint in use has the ED of another stream, so one is left.           *)
(***************************************************************************)
LEMMA Available ==
    ASSUME DeviceInv, pc = "open"
    PROVE  FreeEndpointsOfPool # {} /\ request.number \notin ed_used
<1>1. /\ request.number \in Endpoints /\ cursor = request.number
      /\ pool \in [Endpoints -> [used : BOOLEAN, ed : Endpoints]]
      /\ slot[cursor].endpoint = None
      /\ PoolInv
  BY DEF DeviceInv, RequestInv, Changing, TypeOK, PoolInv
<1>2. \A e \in Endpoints : ~(pool[e].used /\ pool[e].ed = request.number)
  <2>1. request.number \in Slots /\ None \notin Endpoints
    BY <1>1, NumberSets
  <2>2. slot[request.number].endpoint \notin Endpoints
    BY <1>1, <2>1
  <2> QED
    BY <1>1, <2>1, <2>2 DEF PoolInv
<1>3. request.number \notin ed_used
  BY <1>1, <1>2 DEF PoolInv
<1>4. ASSUME FreeEndpointsOfPool = {} PROVE FALSE
  <2> DEFINE others == Endpoints \ {request.number}
             ed == [e \in Endpoints |-> pool[e].ed]
  <2>1. \A e \in Endpoints : pool[e].used
    BY <1>4 DEF FreeEndpointsOfPool
  <2>2. ed \in [Endpoints -> others]
    BY <1>1, <1>2, <2>1
  <2>3. \A e, f \in Endpoints : ed[e] = ed[f] => e = f
    <3> SUFFICES ASSUME NEW e \in Endpoints, NEW f \in Endpoints, pool[e].ed = pool[f].ed
                 PROVE  e = f
      OBVIOUS
    <3>1. pool[e].ed \in Slots
      BY <1>1, NumberSets
    <3> QED
      BY <1>1, <2>1, <3>1 DEF PoolInv
  <2>4. IsFiniteSet(Endpoints) /\ Cardinality(Endpoints) \in Nat
    BY FS_Interval, FS_CardinalityType, StreamsAssumption DEF Endpoints
  <2>5. IsFiniteSet(others) /\ Cardinality(others) = Cardinality(Endpoints) - 1
    BY <1>1, <2>4, FS_RemoveElement
  <2>6. Cardinality(others) < Cardinality(Endpoints)
    BY <2>4, <2>5
  <2> HIDE DEF others, ed
  <2>7. \E e, f \in Endpoints : e # f /\ ed[e] = ed[f]
    BY <2>2, <2>4, <2>5, <2>6, FS_PigeonHole
  <2> QED
    BY <2>3, <2>7
<1> QED
  BY <1>3, <1>4

(* The streams that a request is not about are served as before. *)
LEMMA OthersServed ==
    ASSUME DeviceInv, pc \in Changing, Configured, chain' = chain,
           NEW i \in Endpoints, i # request.number, StreamServed(i),
           slot'[i] = slot[i], hostAlternate'[i] = hostAlternate[i],
           audio'.stream[i] = audio.stream[i], audio'.endpoint[i] = audio.endpoint[i],
           \A e \in Endpoints : pool[e].used /\ pool[e].ed = i => pool'[e] = pool[e],
           i \in ed_used => i \in ed_used'
    PROVE  StreamServed(i)'
<1>1. chain[i + 1] = i
  BY ChainAt, NumberSets DEF DeviceInv, ChainInv, Resting
<1>2. slot[i].endpoint \in Endpoints \cup {None}
  BY NumberSets DEF DeviceInv, TypeOK
<1> QED
  BY <1>1, <1>2 DEF StreamServed

LEMMA DismountStep ==
    ASSUME DeviceInv, Dismount
    PROVE  DeviceInv'
<1>1. /\ pc = "dismount" /\ pc' = IF request.value = 0 THEN "change" ELSE "open"
      /\ EndpointFreed(slot[cursor].endpoint)
      /\ slot' = [slot EXCEPT ![cursor].endpoint = None]
      /\ UNCHANGED <<device_state, selected, chain, audio, request, cursor,
                     next_interface, number, host>>
  BY DEF Dismount
<1>2. /\ TypeOK /\ cursor \in Endpoints /\ cursor \in Slots /\ cursor = request.number
      /\ request.value \in 0..1 /\ InChain' = InChain
  BY <1>1, NumberSets DEF DeviceInv, RequestInv, Changing, InChain
<1>3. /\ slot' \in [Slots -> [used : BOOLEAN, number : Interfaces, alternate : 0..1,
                              class : BOOLEAN, endpoint : Endpoints \cup {None}]]
      /\ slot'[cursor] = [slot[cursor] EXCEPT !.endpoint = None]
      /\ \A s \in Slots \ {cursor} : slot'[s] = slot[s]
  BY <1>1, <1>2 DEF TypeOK
<1>4. /\ slot'[cursor].endpoint = None
      /\ slot'[cursor].used = slot[cursor].used /\ slot'[cursor].number = slot[cursor].number
      /\ slot'[cursor].alternate = slot[cursor].alternate /\ slot'[cursor].class = slot[cursor].class
  BY <1>2, <1>3 DEF TypeOK
<1>5. /\ pool' \in [Endpoints -> [used : BOOLEAN, ed : Endpoints]]
      /\ ed_used' \subseteq Endpoints
      /\ \A e \in Endpoints : pool'[e].ed = pool[e].ed
      /\ \A e \in Endpoints : pool'[e].used <=> pool[e].used /\ slot[cursor].endpoint # e
      /\ \A e \in Endpoints : pool[e].used /\ pool[e].ed = cursor <=> slot[cursor].endpoint = e
      /\ \A i \in Endpoints : i \in ed_used' <=> i \in ed_used /\ i # cursor
  BY <1>1, <1>2, EndpointIsFreed
<1>6. TypeOK'
  BY <1>1, <1>2, <1>3, <1>5 DEF TypeOK, host
<1>7. ChainInv'
  BY <1>1 DEF DeviceInv, ChainInv, ChainFrom, ChainEmpty, Configured, Resting, Changing, Mounting
<1>8. RequestInv'
  BY <1>1, <1>2 DEF DeviceInv, RequestInv, Unmounting, Changing, Configured, host
<1>9. SlotInv'
  <2>1. \A s \in Slots : /\ slot'[s].used = slot[s].used /\ slot'[s].number = slot[s].number
                         /\ slot'[s].alternate = slot[s].alternate /\ slot'[s].class = slot[s].class
    BY <1>3, <1>4
  <2>2. InChain \subseteq Slots /\ SlotInv
    BY <1>2, InChainIs DEF DeviceInv
  <2> QED
    BY <1>1, <1>2, <2>1, <2>2, NumberSets DEF SlotInv, Unmounting, Mounting, ChainEmpty
<1>10. \A e \in Endpoints, s \in Slots :
          pool'[e].used /\ pool'[e].ed = s <=> slot'[s].endpoint = e
  <2> SUFFICES ASSUME NEW e \in Endpoints, NEW s \in Slots
               PROVE  pool'[e].used /\ pool'[e].ed = s <=> slot'[s].endpoint = e
    OBVIOUS
  <2>1. pool[e].used /\ pool[e].ed = s <=> slot[s].endpoint = e
    BY <1>1 DEF DeviceInv, PoolInv, Freed
  <2>2. CASE s = cursor
    BY <1>4, <1>5, <2>1, <2>2, NumberSets
  <2>3. CASE s # cursor
    BY <1>3, <1>5, <2>1, <2>3
  <2> QED
    BY <2>2, <2>3
<1>11. PoolInv'
  <2>1. ASSUME NEW i \in Endpoints
        PROVE  i \in ed_used' <=> \E e \in Endpoints : pool'[e].used /\ pool'[e].ed = i
    <3>1. i \in ed_used <=> \E e \in Endpoints : pool[e].used /\ pool[e].ed = i
      BY DEF DeviceInv, PoolInv
    <3> QED
      BY <1>5, <3>1
  <2>2. pc' \notin {"unlink", "clear"} /\ cursor' = cursor
    BY <1>1
  <2> QED
    BY <1>4, <1>10, <2>1, <2>2 DEF PoolInv, Freed
<1>12. ServedInv'
  <2>1. pc' \in Changing /\ (pc' = "change" => request.value = 0)
    BY <1>1 DEF Changing
  <2>2. ASSUME Configured, NEW i \in Endpoints, i # request.number, StreamServed(i)
        PROVE  StreamServed(i)'
    <3>1. ASSUME NEW e \in Endpoints, pool[e].used, pool[e].ed = i PROVE pool'[e] = pool[e]
      <4>1. /\ pool[e] \in [used : BOOLEAN, ed : Endpoints]
            /\ pool'[e] \in [used : BOOLEAN, ed : Endpoints]
        BY <1>2, <1>5 DEF TypeOK
      <4>2. slot[cursor].endpoint # e
        BY <1>2, <1>5, <2>2, <3>1
      <4>3. pool'[e].used = TRUE /\ pool[e].used = TRUE /\ pool'[e].ed = pool[e].ed
        BY <1>5, <3>1, <4>1, <4>2
      <4>4. /\ pool[e] = [used |-> pool[e].used, ed |-> pool[e].ed]
            /\ pool'[e] = [used |-> pool'[e].used, ed |-> pool'[e].ed]
        BY <4>1
      <4> QED
        BY <4>3, <4>4
    <3>2. slot'[i] = slot[i]
      BY <1>2, <1>3, <2>2, NumberSets
    <3> QED
      BY <1>1, <1>2, <1>5, <2>2, <3>1, <3>2, OthersServed DEF Changing, host
  <2>3. \A i \in Endpoints : selected = 1 => StreamServed(i)' \/ i = request.number
    BY <1>1, <2>2 DEF DeviceInv, ServedInv, Resting, Changing
  <2> QED
    BY <1>1, <2>1, <2>3 DEF DeviceInv, ServedInv, Configured, Resting, Changing, host
<1> QED
  BY <1>6, <1>7, <1>8, <1>9, <1>11, <1>12 DEF DeviceInv

(* A set of numbers that is not empty has a least element, which CHOOSE finds. *)
LEMMA LowestIs ==
    ASSUME NEW S \in SUBSET Nat, S # {}
    PROVE  (CHOOSE x \in S : \A y \in S : x <= y) \in S
<1>1. IsWellFoundedOn(OpToRel(<, Nat), Nat)
  BY NatLessThanWellFounded
<1>2. PICK x \in S : \A y \in S : <<y, x>> \notin OpToRel(<, Nat)
  BY <1>1, WFMin
<1>3. \A y \in S : x <= y
  <2> SUFFICES ASSUME NEW y \in S, ~(x <= y) PROVE FALSE
    OBVIOUS
  <2>1. <<y, x>> \in Nat \X Nat /\ y < x
    OBVIOUS
  <2>2. <<y, x>> \in OpToRel(<, Nat)
    BY <2>1 DEF OpToRel
  <2> QED
    BY <1>2, <2>2
<1> QED
  BY <1>2, <1>3

(* A record of the pool or of the slots, with one field replaced. *)
LEMMA OpenedSlot ==
    ASSUME TypeOK, NEW s \in Slots, NEW e \in Endpoints \cup {None},
           slot' = [slot EXCEPT ![s].endpoint = e]
    PROVE  /\ slot' \in [Slots -> [used : BOOLEAN, number : Interfaces, alternate : 0..1,
                                   class : BOOLEAN, endpoint : Endpoints \cup {None}]]
           /\ slot'[s].endpoint = e
           /\ \A t \in Slots \ {s} : slot'[t] = slot[t]
           /\ \A t \in Slots : /\ slot'[t].used = slot[t].used
                               /\ slot'[t].number = slot[t].number
                               /\ slot'[t].alternate = slot[t].alternate
                               /\ slot'[t].class = slot[t].class
<1>1. slot \in [Slots -> [used : BOOLEAN, number : Interfaces, alternate : 0..1,
                          class : BOOLEAN, endpoint : Endpoints \cup {None}]]
  BY DEF TypeOK
<1>2. slot' = [slot EXCEPT ![s] = [@ EXCEPT !.endpoint = e]]
  OBVIOUS
<1>3. \A t \in Slots : slot'[t] = IF t = s THEN [slot[t] EXCEPT !.endpoint = e] ELSE slot[t]
  BY <1>1, <1>2
<1>4. ASSUME NEW t \in Slots
      PROVE  /\ [slot[t] EXCEPT !.endpoint = e].used = slot[t].used
             /\ [slot[t] EXCEPT !.endpoint = e].number = slot[t].number
             /\ [slot[t] EXCEPT !.endpoint = e].alternate = slot[t].alternate
             /\ [slot[t] EXCEPT !.endpoint = e].class = slot[t].class
             /\ [slot[t] EXCEPT !.endpoint = e].endpoint = e
             /\ [slot[t] EXCEPT !.endpoint = e] \in
                  [used : BOOLEAN, number : Interfaces, alternate : 0..1,
                   class : BOOLEAN, endpoint : Endpoints \cup {None}]
  BY <1>1
<1> QED
  BY <1>1, <1>2, <1>3, <1>4

LEMMA OpenStep ==
    ASSUME DeviceInv, OpenEndpoint
    PROVE  DeviceInv'
<1> DEFINE n == request.number
           Opened(e) == [used |-> TRUE, ed |-> n]
<1>1. /\ pc = "open"
      /\ UNCHANGED <<device_state, selected, chain, audio, request, cursor,
                     next_interface, number, plugged, interrupted>>
  BY DEF OpenEndpoint
<1>2. /\ TypeOK /\ n \in Endpoints /\ n \in Slots /\ cursor = n
      /\ request.value \in 0..1 /\ InChain' = InChain
      /\ slot[n].endpoint = None
  <2>1. pc \in Changing /\ RequestInv /\ PoolInv /\ TypeOK /\ InChain' = InChain
    BY <1>1 DEF DeviceInv, Changing, InChain
  <2>2. n \in Endpoints /\ cursor = n /\ request.value \in 0..1
    BY <2>1 DEF RequestInv
  <2> QED
    BY <1>1, <2>1, <2>2, NumberSets DEF PoolInv
<1>3. PICK e \in FreeEndpointsOfPool :
         /\ pool' = [pool EXCEPT ![e] = [used |-> TRUE, ed |-> n]]
         /\ slot' = [slot EXCEPT ![n].endpoint = e]
         /\ ed_used' = ed_used \cup {n}
         /\ pc' = "change"
         /\ UNCHANGED <<hostSelected, hostAlternate>>
  <2> DEFINE P(f) == f \in FreeEndpointsOfPool /\ \A g \in FreeEndpointsOfPool : f <= g
             low == CHOOSE f \in FreeEndpointsOfPool : \A g \in FreeEndpointsOfPool : f <= g
  <2>1. FreeEndpointsOfPool # {} /\ n \notin ed_used
    BY <1>1, Available
  <2>2. FreeEndpointsOfPool \in SUBSET Nat
    BY DEF FreeEndpointsOfPool, Endpoints
  <2>3. low \in FreeEndpointsOfPool
    BY <2>1, <2>2, LowestIs
  <2> HIDE DEF low
  <2> QED
    BY <1>1, <1>2, <2>1, <2>3 DEF OpenEndpoint, low
<1>4. e \in Endpoints /\ ~pool[e].used /\ None \notin Endpoints
  BY <1>3, NumberSets DEF FreeEndpointsOfPool
<1>5. /\ slot' \in [Slots -> [used : BOOLEAN, number : Interfaces, alternate : 0..1,
                              class : BOOLEAN, endpoint : Endpoints \cup {None}]]
      /\ slot'[n].endpoint = e
      /\ \A t \in Slots \ {n} : slot'[t] = slot[t]
      /\ \A t \in Slots : /\ slot'[t].used = slot[t].used
                          /\ slot'[t].number = slot[t].number
                          /\ slot'[t].alternate = slot[t].alternate
                          /\ slot'[t].class = slot[t].class
  BY <1>2, <1>3, <1>4, OpenedSlot
<1>6. /\ pool' \in [Endpoints -> [used : BOOLEAN, ed : Endpoints]]
      /\ pool'[e] = [used |-> TRUE, ed |-> n]
      /\ \A f \in Endpoints \ {e} : pool'[f] = pool[f]
      /\ ed_used' \subseteq Endpoints
  <2>1. [used |-> TRUE, ed |-> n] \in [used : BOOLEAN, ed : Endpoints]
    BY <1>2
  <2> QED
    BY <1>2, <1>3, <1>4, <2>1 DEF TypeOK
<1>7. pool'[e].used /\ pool'[e].ed = n
  BY <1>6
<1>8. TypeOK'
  BY <1>1, <1>2, <1>3, <1>5, <1>6 DEF TypeOK
<1>9. ChainInv'
  BY <1>1, <1>3 DEF DeviceInv, ChainInv, ChainFrom, ChainEmpty, Configured, Resting, Changing, Mounting
<1>10. RequestInv'
  BY <1>1, <1>2, <1>3 DEF DeviceInv, RequestInv, Unmounting, Changing, Configured
<1>11. SlotInv'
  <2>1. InChain \subseteq Slots /\ SlotInv
    BY <1>2, InChainIs DEF DeviceInv
  <2> QED
    BY <1>1, <1>2, <1>3, <1>5, <2>1, NumberSets DEF SlotInv, Unmounting, Mounting, ChainEmpty
<1>12. \A f \in Endpoints, s \in Slots :
          pool'[f].used /\ pool'[f].ed = s <=> slot'[s].endpoint = f
  <2> SUFFICES ASSUME NEW f \in Endpoints, NEW s \in Slots
               PROVE  pool'[f].used /\ pool'[f].ed = s <=> slot'[s].endpoint = f
    OBVIOUS
  <2>1. pool[f].used /\ pool[f].ed = s <=> slot[s].endpoint = f
    BY <1>1 DEF DeviceInv, PoolInv, Freed
  <2>2. CASE f = e
    <3>1. slot[s].endpoint # e
      BY <1>4, <2>1, <2>2
    <3>2. slot'[s].endpoint = e <=> s = n
      BY <1>5, <3>1
    <3> QED
      BY <1>7, <2>2, <3>2
  <2>3. CASE f # e
    <3>1. pool'[f] = pool[f]
      BY <1>6, <2>3
    <3>2. CASE s = n
      BY <1>2, <1>4, <1>5, <2>1, <2>3, <3>1, <3>2
    <3>3. CASE s # n
      BY <1>5, <2>1, <3>1, <3>3
    <3> QED
      BY <3>2, <3>3
  <2> QED
    BY <2>2, <2>3
<1>13. PoolInv'
  <2>1. ASSUME NEW i \in Endpoints
        PROVE  i \in ed_used' <=> \E f \in Endpoints : pool'[f].used /\ pool'[f].ed = i
    <3>1. i \in ed_used <=> \E f \in Endpoints : pool[f].used /\ pool[f].ed = i
      BY DEF DeviceInv, PoolInv
    <3>2. CASE i = n
      BY <1>3, <1>4, <1>7, <3>2
    <3>3. CASE i # n
      <4>1. i \in ed_used' <=> i \in ed_used
        BY <1>3, <3>3
      <4>2. ASSUME NEW f \in Endpoints
            PROVE  pool'[f].used /\ pool'[f].ed = i <=> pool[f].used /\ pool[f].ed = i
        BY <1>4, <1>6, <1>7, <3>3
      <4> QED
        BY <3>1, <4>1, <4>2
    <3> QED
      BY <3>2, <3>3
  <2> QED
    BY <1>3, <1>12, <2>1 DEF PoolInv, Freed
<1>14. ServedInv'
  <2>1. pc' \in Changing /\ pc \in Changing /\ slot'[cursor'].endpoint # None
    BY <1>1, <1>2, <1>3, <1>4, <1>5 DEF Changing
  <2>2. ASSUME Configured, NEW i \in Endpoints, i # n, StreamServed(i)
        PROVE  StreamServed(i)'
    <3>1. \A f \in Endpoints : pool[f].used /\ pool[f].ed = i => pool'[f] = pool[f]
      BY <1>4, <1>6
    <3>2. slot'[i] = slot[i]
      BY <1>5, <2>2, NumberSets
    <3> QED
      BY <1>1, <1>3, <2>1, <2>2, <3>1, <3>2, OthersServed
  <2>3. \A i \in Endpoints : selected = 1 => StreamServed(i)' \/ i = n
    BY <1>1, <2>1, <2>2 DEF DeviceInv, ServedInv, Resting
  <2> QED
    BY <1>1, <1>3, <2>1, <2>3 DEF DeviceInv, ServedInv, Configured, Resting
<1> QED
  BY <1>8, <1>9, <1>10, <1>11, <1>13, <1>14 DEF DeviceInv

(* The slot of the request with its new alternate setting. *)
LEMMA ChangedSlot ==
    ASSUME TypeOK, NEW s \in Slots, NEW a \in 0..1,
           slot' = [slot EXCEPT ![s].alternate = a]
    PROVE  /\ slot' \in [Slots -> [used : BOOLEAN, number : Interfaces, alternate : 0..1,
                                   class : BOOLEAN, endpoint : Endpoints \cup {None}]]
           /\ slot'[s].alternate = a
           /\ \A t \in Slots \ {s} : slot'[t] = slot[t]
           /\ \A t \in Slots : /\ slot'[t].used = slot[t].used
                               /\ slot'[t].number = slot[t].number
                               /\ slot'[t].endpoint = slot[t].endpoint
                               /\ slot'[t].class = slot[t].class
<1>1. slot \in [Slots -> [used : BOOLEAN, number : Interfaces, alternate : 0..1,
                          class : BOOLEAN, endpoint : Endpoints \cup {None}]]
  BY DEF TypeOK
<1>2. slot' = [slot EXCEPT ![s] = [@ EXCEPT !.alternate = a]]
  OBVIOUS
<1>3. \A t \in Slots : slot'[t] = IF t = s THEN [slot[t] EXCEPT !.alternate = a] ELSE slot[t]
  BY <1>1, <1>2
<1>4. ASSUME NEW t \in Slots
      PROVE  /\ [slot[t] EXCEPT !.alternate = a].used = slot[t].used
             /\ [slot[t] EXCEPT !.alternate = a].number = slot[t].number
             /\ [slot[t] EXCEPT !.alternate = a].endpoint = slot[t].endpoint
             /\ [slot[t] EXCEPT !.alternate = a].class = slot[t].class
             /\ [slot[t] EXCEPT !.alternate = a].alternate = a
             /\ [slot[t] EXCEPT !.alternate = a] \in
                  [used : BOOLEAN, number : Interfaces, alternate : 0..1,
                   class : BOOLEAN, endpoint : Endpoints \cup {None}]
  BY <1>1
<1> QED
  BY <1>1, <1>2, <1>3, <1>4

(* The class with the pointers of one stream replaced. *)
LEMMA ChangedAudio ==
    ASSUME TypeOK, NEW i, NEW s \in Slots, NEW e \in Endpoints \cup {None},
           audio' = [audio EXCEPT !.stream[i] = s, !.endpoint[i] = e]
    PROVE  /\ audio' \in [control : Slots \cup {None}, stream : [Endpoints -> Slots \cup {None}],
                          endpoint : [Endpoints -> Endpoints \cup {None}]]
           /\ audio'.control = audio.control
           /\ i \in Endpoints => audio'.stream[i] = s /\ audio'.endpoint[i] = e
           /\ \A j \in Endpoints \ {i} :
                audio'.stream[j] = audio.stream[j] /\ audio'.endpoint[j] = audio.endpoint[j]
<1>1. audio \in [control : Slots \cup {None}, stream : [Endpoints -> Slots \cup {None}],
                 endpoint : [Endpoints -> Endpoints \cup {None}]]
  BY DEF TypeOK
<1>2. /\ audio'.control = audio.control
      /\ audio'.stream = [audio.stream EXCEPT ![i] = s]
      /\ audio'.endpoint = [audio.endpoint EXCEPT ![i] = e]
      /\ audio' = [control |-> audio'.control, stream |-> audio'.stream,
                   endpoint |-> audio'.endpoint]
  BY <1>1
<1>3. /\ [audio.stream EXCEPT ![i] = s] \in [Endpoints -> Slots \cup {None}]
      /\ [audio.endpoint EXCEPT ![i] = e] \in [Endpoints -> Endpoints \cup {None}]
  BY <1>1
<1>4. audio' \in [control : Slots \cup {None}, stream : [Endpoints -> Slots \cup {None}],
                  endpoint : [Endpoints -> Endpoints \cup {None}]]
  BY <1>1, <1>2, <1>3
<1>5. i \in Endpoints => audio'.stream[i] = s /\ audio'.endpoint[i] = e
  BY <1>1, <1>2
<1>6. \A j \in Endpoints \ {i} :
        audio'.stream[j] = audio.stream[j] /\ audio'.endpoint[j] = audio.endpoint[j]
  BY <1>1, <1>2
<1> QED
  BY <1>2, <1>4, <1>5, <1>6

LEMMA ChangeStep ==
    ASSUME DeviceInv, Change
    PROVE  DeviceInv'
<1> DEFINE n == request.number
           i == StreamOf(n)
           e == IF request.value = 0 THEN None ELSE slot[cursor].endpoint
<1>1. /\ pc = "change"
      /\ slot' = [slot EXCEPT ![cursor].alternate = request.value]
      /\ audio' = [audio EXCEPT !.stream[i] = cursor, !.endpoint[i] = e]
      /\ IF request.value # 0 /\ e = None
         THEN Refused
         ELSE Answered(hostSelected, [hostAlternate EXCEPT ![n] = request.value])
      /\ UNCHANGED <<device_state, selected, chain, pool, ed_used, request, cursor,
                     next_interface, number, plugged, interrupted>>
  BY DEF Change
<1>2. /\ TypeOK /\ n \in Endpoints /\ n \in Slots /\ cursor = n
      /\ request.value \in 0..1 /\ InChain' = InChain
      /\ slot[n].endpoint \in Endpoints \cup {None} /\ e \in Endpoints \cup {None}
  <2>1. pc \in Changing /\ RequestInv /\ TypeOK /\ InChain' = InChain
    BY <1>1 DEF DeviceInv, Changing, InChain
  <2>2. n \in Endpoints /\ cursor = n /\ request.value \in 0..1
    BY <2>1 DEF RequestInv
  <2> QED
    BY <2>1, <2>2, NumberSets DEF TypeOK
<1>3. pc' = "idle"
  BY <1>1 DEF Refused, Answered, Told
<1>4. /\ hostSelected' = hostSelected
      /\ \/ hostAlternate' = hostAlternate
         \/ ~interrupted /\ hostAlternate' = [hostAlternate EXCEPT ![n] = request.value]
      /\ (request.value = 0 \/ e # None) /\ ~interrupted =>
           hostAlternate' = [hostAlternate EXCEPT ![n] = request.value]
  BY <1>1 DEF Refused, Answered, Told
<1>5. /\ slot' \in [Slots -> [used : BOOLEAN, number : Interfaces, alternate : 0..1,
                              class : BOOLEAN, endpoint : Endpoints \cup {None}]]
      /\ slot'[n].alternate = request.value
      /\ \A t \in Slots \ {n} : slot'[t] = slot[t]
      /\ \A t \in Slots : /\ slot'[t].used = slot[t].used
                          /\ slot'[t].number = slot[t].number
                          /\ slot'[t].endpoint = slot[t].endpoint
                          /\ slot'[t].class = slot[t].class
  BY <1>1, <1>2, ChangedSlot
<1>6. /\ audio' \in [control : Slots \cup {None}, stream : [Endpoints -> Slots \cup {None}],
                     endpoint : [Endpoints -> Endpoints \cup {None}]]
      /\ audio'.control = audio.control
      /\ i \in Endpoints => audio'.stream[i] = n /\ audio'.endpoint[i] = e
      /\ \A j \in Endpoints \ {i} :
           audio'.stream[j] = audio.stream[j] /\ audio'.endpoint[j] = audio.endpoint[j]
  <2> HIDE DEF i, e
  <2> QED
    BY <1>1, <1>2, ChangedAudio
<1>7. Configured => i = n
  <2> SUFFICES ASSUME Configured PROVE i = n
    OBVIOUS
  <2>1. ChainFrom(0) /\ SlotInv
    BY <1>1 DEF DeviceInv, ChainInv, Resting, Changing
  <2>2. InChain = Slots /\ ~ChainEmpty
    BY <1>2, <2>1, InChainIs, StreamsAssumption DEF Slots, ChainFrom, ChainEmpty
  <2>3. audio.control = 0 /\ slot[0].number = 0
    BY <1>1, <2>1, <2>2, NumberSets DEF SlotInv, Unmounting
  <2> QED
    <3>1. n \in Int /\ audio.control # None
      BY <1>2, <2>3, NumberSets
    <3>2. StreamOf(n) = n - slot[audio.control].number
      BY <3>1 DEF StreamOf
    <3> QED
      BY <2>3, <3>1, <3>2
<1> HIDE DEF i, e
<1>8. TypeOK'
  <2>1. hostAlternate' \in [Endpoints -> 0..1]
    BY <1>2, <1>4 DEF TypeOK
  <2> QED
    BY <1>1, <1>2, <1>3, <1>4, <1>5, <1>6, <2>1 DEF TypeOK
<1>9. ChainInv'
  BY <1>1, <1>3 DEF DeviceInv, ChainInv, ChainFrom, ChainEmpty, Configured, Resting, Changing, Mounting
<1>10. RequestInv'
  BY <1>3 DEF RequestInv, Unmounting, Changing
<1>11. SlotInv'
  <2>1. /\ InChain \subseteq Slots /\ SlotInv
        /\ ChainEmpty => InChain = {}
    BY <1>2, InChainIs DEF DeviceInv
  <2>2. selected = 0 => ChainEmpty
    <3>1. selected = 0 => ~Configured
      BY <1>1 DEF DeviceInv, RequestInv, Changing
    <3> QED
      BY <1>1, <3>1 DEF DeviceInv, ChainInv, Resting, Changing
  <2>3. ChainEmpty' = ChainEmpty
    BY <1>1 DEF ChainEmpty
  <2>4. \A s \in Slots : slot'[s].used <=> s \in InChain'
    BY <1>1, <1>2, <1>5, <2>1 DEF SlotInv
  <2>5. \A s \in InChain' : slot'[s].number = s /\ slot'[s].class
    BY <1>2, <1>5, <2>1 DEF SlotInv
  <2>6. slot'[0].alternate = 0
    BY <1>2, <1>5, <2>1, NumberSets DEF SlotInv
  <2>7. selected' = 0 => InChain' = {}
    BY <1>1, <1>2, <2>1, <2>2
  <2>8. ~ChainEmpty' => audio'.control = 0
    BY <1>1, <1>6, <2>1, <2>3 DEF SlotInv, Unmounting
  <2> QED
    BY <1>3, <2>4, <2>5, <2>6, <2>7, <2>8 DEF SlotInv, Mounting
<1>12. PoolInv'
  BY <1>1, <1>2, <1>3, <1>5 DEF DeviceInv, PoolInv, Freed
<1>13. ServedInv'
  <2>1. pc \in Changing /\ pc \in Resting /\ ServedInv
    BY <1>1 DEF DeviceInv, Changing, Resting
  <2>2. interrupted' => hostSelected' = 0 /\ hostAlternate' = AllZero
    BY <1>1, <1>4, <2>1 DEF ServedInv, AllZero
  <2>3. ASSUME Configured, NEW j \in Endpoints, j # n, StreamServed(j)
        PROVE  StreamServed(j)'
    <3>1. slot'[j] = slot[j]
      BY <1>5, <2>3, NumberSets
    <3>2. audio'.stream[j] = audio.stream[j] /\ audio'.endpoint[j] = audio.endpoint[j]
      BY <1>6, <1>7, <2>3
    <3>3. hostAlternate'[j] = hostAlternate[j]
      BY <1>2, <1>4, <2>3 DEF TypeOK
    <3> QED
      BY <1>1, <2>1, <2>3, <3>1, <3>2, <3>3, OthersServed
  <2>4. ASSUME Configured PROVE StreamServed(n)'
    <3>1. /\ ~interrupted /\ ChainFrom(0) /\ PoolInv /\ i = n
          /\ request.value = 1 => slot[n].endpoint # None
      BY <1>1, <1>2, <1>7, <2>1, <2>4
         DEF DeviceInv, RequestInv, ChainInv, Resting, Changing, ServedInv
    <3>2. chain'[n + 1] = n
      BY <1>1, <1>2, <3>1, ChainAt
    <3>3. request.value = 0 \/ (e # None /\ e = slot[n].endpoint /\ e \in Endpoints)
      BY <1>2, <3>1 DEF e
    <3>4. hostAlternate'[n] = request.value
      BY <1>2, <1>4, <3>1, <3>3 DEF TypeOK
    <3>5. ASSUME request.value # 0
          PROVE  pool'[e] = [used |-> TRUE, ed |-> n] /\ n \in ed_used'
      <4>1. e \in Endpoints /\ e = slot[n].endpoint
        BY <3>3, <3>5
      <4>2. pool[e].used /\ pool[e].ed = n
        BY <1>1, <1>2, <3>1, <4>1 DEF PoolInv, Freed
      <4>3. pool[e] \in [used : BOOLEAN, ed : Endpoints]
        BY <1>2, <4>1 DEF TypeOK
      <4>4. pool[e].used = TRUE
        BY <4>2, <4>3
      <4>5. pool[e] = [used |-> TRUE, ed |-> n]
        BY <4>2, <4>3, <4>4
      <4>6. n \in ed_used
        BY <1>2, <3>1, <4>1, <4>2 DEF PoolInv
      <4> QED
        BY <1>1, <4>5, <4>6
    <3>6. slot'[n].alternate = request.value /\ slot'[n].endpoint = slot[n].endpoint
      BY <1>2, <1>5
    <3>7. audio'.stream[n] = n /\ audio'.endpoint[n] = e
      BY <1>2, <1>6, <3>1
    <3>8. request.value # 0 => e # None /\ e = slot'[n].endpoint
      BY <3>3, <3>6
    <3>9. ASSUME NEW j \in Endpoints, j = n PROVE StreamServed(j)'
      <4>1. chain'[j + 1] = j /\ slot'[j].alternate = hostAlternate'[j]
        BY <3>2, <3>4, <3>6, <3>9
      <4>2. ASSUME hostAlternate'[j] = 1
            PROVE  /\ slot'[j].endpoint # None /\ audio'.stream[j] = j
                   /\ audio'.endpoint[j] = slot'[j].endpoint
                   /\ pool'[slot'[j].endpoint] = [used |-> TRUE, ed |-> j]
                   /\ j \in ed_used'
        BY <3>4, <3>5, <3>7, <3>8, <3>9, <4>2
      <4> QED
        BY <4>1, <4>2 DEF StreamServed
    <3>10. n' = n
      BY <1>1
    <3> QED
      BY <1>2, <3>9, <3>10
  <2>5. selected' = 1 => Configured'
    BY <1>1, <2>1 DEF ServedInv, Configured
  <2>6. selected' = 1 => \A j \in Endpoints : StreamServed(j)'
    BY <1>1, <2>1, <2>3, <2>4 DEF ServedInv
  <2>7. hostSelected' = 1 => selected' = 1
    BY <1>1, <1>4, <2>1 DEF ServedInv
  <2> QED
    BY <1>3, <2>2, <2>5, <2>6, <2>7 DEF ServedInv
<1> QED
  BY <1>8, <1>9, <1>10, <1>11, <1>12, <1>13 DEF DeviceInv

-----------------------------------------------------------------------------
(* The theorems *)

LEMMA ConfigurationStep ==
    ASSUME DeviceInv, [Next]_vars
    PROVE  DeviceInv'
<1>1. CASE Interrupt
  BY <1>1, InterruptStep
<1>2. CASE HostRequest
  BY <1>2, SetConfigurationStep, SetInterfaceStep DEF HostRequest
<1>3. CASE Superloop
  BY <1>3, DeactivateStep, FreeStep, UnlinkStep, ClearStep, DetachStep, SelectStep,
     MountStep, ConfigureStep, DismountStep, OpenStep, ChangeStep DEF Superloop
<1>4. CASE UNCHANGED vars
  <2>1. /\ UNCHANGED <<device_state, selected, chain, slot, pool, ed_used, audio>>
        /\ UNCHANGED <<pc, request, cursor, next_interface, number>>
        /\ UNCHANGED <<plugged, interrupted, hostSelected, hostAlternate>>
    BY <1>4 DEF vars, stack, control, host
  <2>2. TypeOK' /\ RequestInv' /\ ChainInv'
    BY <2>1 DEF DeviceInv, TypeOK, RequestInv, ChainInv, ChainFrom, ChainEmpty, Configured
  <2>3. InChain' = InChain
    BY <2>1 DEF InChain
  <2>4. SlotInv' /\ PoolInv'
    BY <2>1, <2>3 DEF DeviceInv, SlotInv, PoolInv, Freed, ChainEmpty
  <2>5. ServedInv'
    BY <2>1 DEF DeviceInv, ServedInv, StreamServed, Configured
  <2> QED
    BY <2>2, <2>4, <2>5 DEF DeviceInv
<1> QED
  BY <1>1, <1>2, <1>3, <1>4 DEF Next

(* DeviceInv holds in every reachable state, whatever a reset interrupts. *)
THEOREM DeviceInvariant == Spec => []DeviceInv
<1>1. Init => DeviceInv
  BY DeviceInit
<1>2. DeviceInv /\ [Next]_vars => DeviceInv'
  BY ConfigurationStep
<1> QED
  BY <1>1, <1>2, PTL DEF Spec

LEMMA InvServes ==
    ASSUME DeviceInv
    PROVE  AnsweredIsServed
<1> SUFFICES ASSUME pc = "idle", hostSelected = 1
             PROVE  /\ Configured
                    /\ selected = 1
                    /\ Len(chain) = Streams + 1
                    /\ \A n \in Interfaces :
                         /\ slot[chain[n + 1]].used
                         /\ slot[chain[n + 1]].number = n
                         /\ slot[chain[n + 1]].class
                    /\ audio.control = chain[1]
                    /\ \A i \in Endpoints : StreamServed(i)
  BY DEF AnsweredIsServed, Configured
<1>1. selected = 1 /\ Configured /\ \A i \in Endpoints : StreamServed(i)
  BY DEF DeviceInv, ServedInv, Resting, Changing
<1>2. TypeOK /\ ChainFrom(0) /\ SlotInv
  BY <1>1 DEF DeviceInv, ChainInv, Resting
<1>3. InChain = Slots /\ ~ChainEmpty /\ Len(chain) = Streams + 1
  BY <1>2, InChainIs, StreamsAssumption DEF Slots, ChainFrom, ChainEmpty
<1>4. \A n \in Interfaces : chain[n + 1] = n
  BY <1>2, ChainAt, NumberSets
<1>5. \A n \in Interfaces : slot[n].used /\ slot[n].number = n /\ slot[n].class
  BY <1>2, <1>3, NumberSets DEF SlotInv
<1>6. audio.control = 0 /\ chain[1] = 0
  <2>1. chain[0 + 1] = 0
    BY <1>4, NumberSets
  <2> QED
    BY <1>2, <1>3, <2>1 DEF SlotInv, Unmounting
<1> QED
  BY <1>1, <1>3, <1>4, <1>5, <1>6

LEMMA InvKeeps ==
    ASSUME DeviceInv
    PROVE  NothingLeaks
<1> SUFFICES ASSUME pc = "idle"
             PROVE  /\ \A e \in Endpoints :
                         pool[e].used <=> \E s \in Slots : slot[s].endpoint = e
                    /\ ed_used = { pool[e].ed : e \in { f \in Endpoints : pool[f].used } }
                    /\ \A s \in Slots : slot[s].used <=> s \in InChain
                    /\ Cardinality(InChain) = Len(chain)
  BY DEF NothingLeaks
<1>1. TypeOK /\ SlotInv /\ PoolInv
  BY DEF DeviceInv
<1>2. \A e \in Endpoints, s \in Slots :
         pool[e].used /\ pool[e].ed = s <=> slot[s].endpoint = e
  BY <1>1 DEF PoolInv, Freed
<1>3. ed_used \subseteq Endpoints /\ \A e \in Endpoints : pool[e].ed \in Endpoints
  BY <1>1 DEF TypeOK
<1>4. ASSUME NEW e \in Endpoints
      PROVE  pool[e].used <=> \E s \in Slots : slot[s].endpoint = e
  <2>1. pool[e].ed \in Slots
    BY <1>3, NumberSets
  <2> QED
    BY <1>2, <2>1
<1>5. ed_used = { pool[e].ed : e \in { f \in Endpoints : pool[f].used } }
  <2>1. \A i \in Endpoints : i \in ed_used <=> \E e \in Endpoints : pool[e].used /\ pool[e].ed = i
    BY <1>1 DEF PoolInv
  <2> QED
    BY <1>3, <2>1
<1>6. \A s \in Slots : slot[s].used <=> s \in InChain
  BY <1>1 DEF SlotInv
<1>7. Cardinality(InChain) = Len(chain)
  <2>1. ChainFrom(0) \/ ChainEmpty
    BY DEF DeviceInv, ChainInv, Resting
  <2>2. CASE ChainFrom(0)
    <3>1. InChain = 0..Streams /\ Len(chain) = Streams + 1
      BY <1>1, <2>2, InChainIs, StreamsAssumption DEF ChainFrom
    <3>2. Cardinality(0..Streams) = Streams - 0 + 1
      BY FS_Interval, StreamsAssumption
    <3> QED
      BY <3>1, <3>2, StreamsAssumption
  <2>3. CASE ChainEmpty
    BY <1>1, <2>3, InChainIs, FS_EmptySet DEF ChainEmpty
  <2> QED
    BY <2>1, <2>2, <2>3
<1> QED
  BY <1>4, <1>5, <1>6, <1>7

(***************************************************************************)
(* Every variable of the stack, of the class and of the request stays in   *)
(* its range, whatever a reset interrupts.                                 *)
(***************************************************************************)
THEOREM DeviceTypes == Spec => []TypeOK
<1>1. DeviceInv => TypeOK
  BY DEF DeviceInv
<1> QED
  BY <1>1, DeviceInvariant, PTL

(***************************************************************************)
(* What the device answered to SET_CONFIGURATION and SET_INTERFACE is what *)
(* it does, for every number of streams and whatever a reset interrupts.   *)
(***************************************************************************)
THEOREM DeviceServes == Spec => []AnsweredIsServed
<1>1. DeviceInv => AnsweredIsServed
  BY InvServes
<1> QED
  BY <1>1, DeviceInvariant, PTL

(***************************************************************************)
(* Between requests the pools hold what the interfaces have, and no more:  *)
(* nothing is lost in a request that a reset interrupts.                   *)
(***************************************************************************)
THEOREM DeviceKeeps == Spec => []NothingLeaks
<1>1. DeviceInv => NothingLeaks
  BY InvKeeps
<1> QED
  BY <1>1, DeviceInvariant, PTL

(***************************************************************************)
(* As many endpoints as streams are enough: an alternate setting with an   *)
(* endpoint always finds one free in the pool, and its ED too.             *)
(***************************************************************************)
THEOREM DeviceHasEndpoint == Spec => []EndpointAvailable
<1>1. DeviceInv => EndpointAvailable
  BY Available DEF EndpointAvailable
<1> QED
  BY <1>1, DeviceInvariant, PTL
=============================================================================
