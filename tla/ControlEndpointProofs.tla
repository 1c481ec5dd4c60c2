------------------------- MODULE ControlEndpointProofs -------------------------
(***************************************************************************)
(* Theorems about ControlEndpoint, for every packet size, every set of     *)
(* requests and every number of resets: the superloop's deferred work      *)
(* never mixes two requests, answers and payloads are whole.  All but the  *)
(* typing need a host that waits for its transfer to end (~Hasty).         *)
(***************************************************************************)
EXTENDS ControlEndpoint, Multiples, TLAPS

-----------------------------------------------------------------------------
(* Types *)

LEMMA RequestTypes ==
  ASSUME NEW r \in Requests \cup {NoRequest}
  PROVE  /\ r.kind \in {"in", "out", "none"}
         /\ r.length \in Nat
         /\ r.asked \in Nat
         /\ r.kind # "none" => r.length > 0
         /\ r.length <= r.asked
         /\ r.kind # "in" => r.length = r.asked
<1>1. CASE r = NoRequest
  BY <1>1 DEF NoRequest
<1>2. CASE r \in Requests
  BY <1>2, RequestsAssumption
<1> QED
  BY <1>1, <1>2

LEMMA AtMostInNat ==
  ASSUME NEW a \in Nat, NEW b \in Nat
  PROVE  AtMost(a, b) \in Nat /\ AtMost(a, b) <= a /\ AtMost(a, b) <= b
  BY DEF AtMost

LEMMA TransmitTypes ==
  ASSUME NEW s \in 0..MaxRequests, NEW n \in Nat
  PROVE  /\ Transmit(s, n) \in [serial : 0..MaxRequests, length : Nat]
         /\ Transmit(s, n).serial = s
         /\ Transmit(s, n).length = AtMost(n, MaxPacketSize)
  BY AtMostInNat, SizeAssumption DEF Transmit

TransferFields == [in_transfer_length : Nat, force_zlp : BOOLEAN,
                   actual_length : Nat, requested_length : Nat]

LEMMA NoPacketTyped ==
  NoPacket \in [serial : 0..MaxRequests, length : Nat] /\ NoPacket.length = 0
  BY BoundAssumption DEF NoPacket

LEMMA FreshTransferTyped == FreshTransfer \in TransferFields
<1>1. UX_SETUP_SIZE \in Nat
  BY DEF UX_SETUP_SIZE
<1> QED
  BY <1>1 DEF FreshTransfer, TransferFields

LEMMA TypesStart == Init => TypeOK
<1> SUFFICES ASSUME Init PROVE TypeOK
  OBVIOUS
<1>1. transfer \in TransferFields
  BY FreshTransferTyped DEF Init
<1>2. reading \in [serial : 0..MaxRequests, request : Requests \cup {NoRequest}]
  BY BoundAssumption DEF Init
<1>3. tx \in [serial : 0..MaxRequests, length : Nat]
  BY NoPacketTyped DEF Init
<1>4. ed_status = {} /\ task = {} /\ loaded = {}
  BY DEF Init
<1>5. /\ ed_state \in EdStates
      /\ setup \in Requests \cup {NoRequest}
      /\ serial \in 0..MaxRequests /\ resets \in 0..MaxResets
  BY BoundAssumption DEF Init, EdStates
<1>6. /\ pc = "idle" /\ outcome = "none" /\ received = 0
      /\ rx = FALSE /\ halted = FALSE /\ lost = FALSE
  BY DEF Init
<1> QED
  BY <1>1, <1>2, <1>3, <1>4, <1>5, <1>6 DEF TypeOK, TransferFields

LEMMA TypesKept ==
  ASSUME TypeOK, [Next]_vars
  PROVE  TypeOK'
<1> USE BoundAssumption DEF TypeOK, edVars, taskVars, hostVars
<1>1. ASSUME NEW r \in Requests, SetupStage(r) PROVE TypeOK'
  <2>1. r.asked \in Nat
    BY RequestTypes
  <2>2. ed_status' \subseteq StatusBits
    BY <1>1 DEF SetupStage, Cleared, StatusBits, SETUP, SETUP_IN, SETUP_STATUS
  <2>3. ed_state' \in EdStates
    BY <1>1 DEF SetupStage, EdStates
  <2>4. transfer' \in TransferFields
    <3>1. [transfer EXCEPT !.actual_length = 0] \in TransferFields
      BY DEF TransferFields
    <3>2. [transfer EXCEPT !.actual_length = 0, !.requested_length = r.asked]
            \in TransferFields
      BY <2>1 DEF TransferFields
    <3> QED
      BY <1>1, <3>1, <3>2 DEF SetupStage
  <2> QED
    <3>1. serial' \in 0..MaxRequests /\ tx' \in [serial : 0..MaxRequests, length : Nat]
      BY <1>1, NoPacketTyped DEF SetupStage
    <3>2. /\ setup' \in Requests \cup {NoRequest}
          /\ outcome' = "waiting" /\ received' = 0 /\ lost' = FALSE
          /\ UNCHANGED <<taskVars, resets>>
      BY <1>1 DEF SetupStage
    <3>3. halted' \in BOOLEAN /\ rx' \in BOOLEAN
      BY <1>1 DEF SetupStage
    <3> QED
      BY <2>2, <2>3, <2>4, <3>1, <3>2, <3>3 DEF TransferFields
<1>2. CASE DataInStage
  <2>1. tx.serial \in 0..MaxRequests /\ tx.length \in Nat
    OBVIOUS
  <2>2. received' \in Nat /\ outcome' \in {"waiting", "done"}
    BY <1>2, <2>1 DEF DataInStage
  <2>3. CASE NextPacket
    <3>1. CASE LastPacket
      <4>1. transfer' \in TransferFields
        <5>1. /\ [transfer EXCEPT !.force_zlp = FALSE] \in TransferFields
              /\ [transfer EXCEPT !.actual_length = transfer.requested_length]
                   \in TransferFields
          BY DEF TransferFields
        <5> QED
          BY <2>3, <3>1, <5>1 DEF NextPacket
      <4>2. tx' \in [serial : 0..MaxRequests, length : Nat]
        BY <2>1, <2>3, <3>1, TransmitTypes, NoPacketTyped DEF NextPacket
      <4>3. ed_status' \subseteq StatusBits /\ ed_state' \in EdStates
        BY <2>3, <3>1 DEF NextPacket, EdStates, StatusBits
      <4> QED
        BY <1>2, <2>2, <4>1, <4>2, <4>3 DEF DataInStage, TransferFields
    <3>2. CASE ~LastPacket
      <4> DEFINE length == AtMost(transfer.in_transfer_length - MaxPacketSize, MaxPacketSize)
      <4>1. length \in Nat /\ transfer.in_transfer_length - length \in Nat
        <5>1. transfer.in_transfer_length - MaxPacketSize \in Nat
          BY <3>2, SizeAssumption DEF LastPacket
        <5> QED
          <6>1. length \in Nat /\ length <= transfer.in_transfer_length - MaxPacketSize
            BY <5>1, AtMostInNat, SizeAssumption
          <6> QED
            BY <5>1, <6>1, SizeAssumption
      <4>2. tx' \in [serial : 0..MaxRequests, length : Nat]
        BY <2>1, <2>3, <3>2, <4>1, TransmitTypes DEF NextPacket
      <4>3. transfer' \in [in_transfer_length : Nat, force_zlp : BOOLEAN,
                           actual_length : Nat, requested_length : Nat]
        BY <2>3, <3>2, <4>1 DEF NextPacket
      <4> QED
        BY <1>2, <2>2, <2>3, <3>2, <4>2, <4>3 DEF DataInStage, NextPacket
    <3> QED
      BY <3>1, <3>2
  <2>4. CASE ~NextPacket
    BY <1>2, <2>2, <2>4, NoPacketTyped DEF DataInStage
  <2> QED
    BY <2>3, <2>4
<1>3. CASE DataOutStage
  <2> DEFINE length == AtMost(setup.asked - received, MaxPacketSize)
  <2>1. length \in Nat
    <3>1. setup.asked - received \in Nat
      BY <1>3, RequestTypes DEF DataOutStage
    <3> QED
      BY <3>1, AtMostInNat, SizeAssumption
  <2>2. received' \in Nat /\ transfer' \in [in_transfer_length : Nat, force_zlp : BOOLEAN,
                                            actual_length : Nat, requested_length : Nat]
    BY <1>3, <2>1 DEF DataOutStage
  <2>3. ed_status' \subseteq StatusBits /\ rx' \in BOOLEAN
    BY <1>3 DEF DataOutStage, StatusBits, SETUP, SETUP_OUT
  <2> QED
    BY <1>3, <2>2, <2>3 DEF DataOutStage
<1>4. CASE StallSeen
  BY <1>4 DEF StallSeen
<1>5. CASE Timeout
  BY <1>5 DEF Timeout
<1>6. CASE BusReset
  <2>1. transfer' \in TransferFields /\ tx' \in [serial : 0..MaxRequests, length : Nat]
    BY <1>6, FreshTransferTyped, NoPacketTyped DEF BusReset
  <2>2. resets' \in 0..MaxResets
    BY <1>6 DEF BusReset
  <2> QED
    BY <1>6, <2>1, <2>2 DEF BusReset, TransferFields
<1>7. CASE TakeSetup
  BY <1>7 DEF TakeSetup, TakenStatus, StatusBits, SETUP
<1>8. CASE ReadSetup
  BY <1>8 DEF ReadSetup, EdStates
<1>9. CASE RefuseRequest
  BY <1>9 DEF RefuseRequest, StatusBits
<1>10. CASE SendData
  <2>1. reading.request.length \in Nat
    BY RequestTypes
  <2>2. transfer' \in [in_transfer_length : Nat, force_zlp : BOOLEAN,
                       actual_length : Nat, requested_length : Nat]
    BY <1>10, <2>1 DEF SendData, StartTransfer
  <2>3. ed_status' \subseteq StatusBits
    BY <1>10 DEF SendData, StartTransfer, StatusBits
  <2>4. tx' \in [serial : 0..MaxRequests, length : Nat]
    BY <1>10, <2>1, TransmitTypes DEF SendData, StartTransfer
  <2> QED
    BY <1>10, <2>2, <2>3, <2>4 DEF SendData, Continue
<1>11. CASE CarryOut
  BY <1>11 DEF CarryOut, Continue
<1>12. CASE AnswerStatus
  BY <1>12, TransmitTypes DEF AnswerStatus, EdStates
<1>13. CASE LoadStatus
  BY <1>13 DEF LoadStatus
<1>14. CASE StoreStatus
  BY <1>14 DEF StoreStatus
<1>15. CASE UNCHANGED vars
  BY <1>15 DEF vars
<1> QED
  BY <1>1, <1>2, <1>3, <1>4, <1>5, <1>6, <1>7, <1>8, <1>9, <1>10, <1>11, <1>12, <1>13,
     <1>14, <1>15 DEF Next, Superloop, Transfers, HostSetup

(* Every variable keeps its type, with a hasty host too: the lengths left  *)
(* to send and to receive never go below zero.                             *)
THEOREM ControlTyping == Spec => []TypeOK
  BY TypesStart, TypesKept, PTL DEF Spec

-----------------------------------------------------------------------------
(* The invariant *)

(* The two bits of the field that name a helper. *)
Field(status) == status \cap SETUP

(* The latest request still has to be processed, or is being processed:    *)
(* its bits are in the status word, in the superloop's hands, or in the    *)
(* word that the superloop is about to store back.                         *)
Pending ==
    \/ Field(ed_status) # {}
    \/ pc \in {"read", "process", "answer"}
    \/ pc = "store" /\ Field(loaded) # {}

(* Why two requests never mix: while one is pending the host has not seen  *)
(* it end, and nothing but it can be sent.                                 *)
OneRequest ==
    /\ pc \in {"read", "process", "answer"} => Field(ed_status) = {}
    /\ Pending => /\ tx = NoPacket
                  /\ \/ outcome \in {"waiting", "reset"}
                     \/ outcome = "stalled" /\ Oversized(setup)
                  /\ halted => Oversized(setup)
    /\ Oversized(setup) /\ outcome = "waiting" => halted
    /\ tx # NoPacket => tx.serial = serial

(* Wherever a code is that selects a helper, it fits the latest request. *)
RightHelper ==
    /\ Field(ed_status) \in {{}, HelperFor(setup)}
    /\ pc \in {"read", "process", "answer"} => task = HelperFor(setup)
    /\ pc \in {"process", "answer"} => reading = [serial |-> serial, request |-> setup]
    /\ pc = "answer" => task # SETUP_IN
    /\ pc = "store" => Field(loaded) \in {{}, HelperFor(setup)}

(* The driver and the host count a payload alike, and it is complete when  *)
(* its request is handed to the superloop.                                 *)
PayloadCounted ==
    setup.kind = "out" /\ ~Oversized(setup) /\ outcome = "waiting" =>
        /\ transfer.actual_length = received
        /\ transfer.requested_length = setup.asked
        /\ received <= setup.asked
        /\ Pending \/ tx # NoPacket => received = setup.asked

(* The packet at the endpoint carries units of the answer: whole packets   *)
(* went before it, and what is left agrees with in_transfer_length while   *)
(* more packets follow, and with force_zlp when it is the last.            *)
Sending ==
    LET left == setup.length - received
    IN  /\ left > 0
        /\ \E k \in Nat : received = k * MaxPacketSize
        /\ tx.length = AtMost(left, MaxPacketSize)
        /\ IF left > MaxPacketSize THEN transfer.in_transfer_length = left
                                   ELSE LastPacket
        /\ transfer.force_zlp = (setup.asked # setup.length
                                 /\ setup.length % MaxPacketSize = 0)

(* It is the empty packet that ends an answer. *)
Closing ==
    /\ tx.length = 0
    /\ received = setup.length
    /\ LastPacket
    /\ ~transfer.force_zlp

AnswerCounted ==
    /\ pc = "process" /\ task = SETUP_IN => ed_state = "DATA_TX"
    /\ setup.kind = "in" /\ outcome = "waiting" =>
         /\ Pending => received = 0
         /\ tx # NoPacket => ed_state = "DATA_TX" /\ (Sending \/ Closing)
    /\ setup.kind = "in" /\ outcome = "done" => received = setup.length /\ tx = NoPacket

Meets == OneRequest /\ RightHelper /\ PayloadCounted /\ AnswerCounted

ControlInv == TypeOK /\ Meets

-----------------------------------------------------------------------------
(* The field and the helpers *)

LEMMA FieldOf ==
  ASSUME NEW s
  PROVE  /\ Field(s \cup {"DONE"}) = Field(s)
         /\ Field(s \cup {"TRANSFER"}) = Field(s)
         /\ Field(s \cup {"STALLED"}) = Field(s)
         /\ Field(s \ {"TASK_PENDING"}) = Field(s)
         /\ Field(s \cap {"STALLED", "TASK_PENDING"}) = {}
         /\ Field(s \ {"STALLED", "TRANSFER", "DONE"}) = Field(s)
         /\ Field((s \ SETUP) \cup {"TASK_PENDING"}) = {}
         /\ Field({}) = {}
  BY DEF Field, SETUP

LEMMA FieldSet ==
  ASSUME NEW s, Field(s) = {}
  PROVE  /\ Field(s \cup SETUP_IN) = SETUP_IN
         /\ Field(s \cup SETUP_STATUS) = SETUP_STATUS
         /\ Field(s \cup {"STALLED"} \cup SETUP_STATUS) = SETUP_STATUS
         /\ Field(s \cup SETUP_OUT) = SETUP_OUT
  BY DEF Field, SETUP, SETUP_IN, SETUP_OUT, SETUP_STATUS

LEMMA HelpersDiffer ==
  /\ SETUP_IN # {} /\ SETUP_OUT # {} /\ SETUP_STATUS # {}
  /\ SETUP_IN # SETUP_OUT /\ SETUP_IN # SETUP_STATUS /\ SETUP_OUT # SETUP_STATUS
  BY DEF SETUP_IN, SETUP_OUT, SETUP_STATUS

LEMMA HelperIs ==
  ASSUME NEW r \in Requests \cup {NoRequest}
  PROVE  /\ HelperFor(r) # {}
         /\ r.kind = "in" <=> HelperFor(r) = SETUP_IN
         /\ r.kind = "out" /\ ~Oversized(r) <=> HelperFor(r) = SETUP_OUT
         /\ r.kind = "none" \/ Oversized(r) <=> HelperFor(r) = SETUP_STATUS
         /\ Oversized(r) => r.kind = "out"
<1>1. Oversized(r) => r.kind = "out"
  BY DEF Oversized
<1>2. CASE r.kind = "in"
  <2>1. HelperFor(r) = SETUP_IN
    BY <1>2 DEF HelperFor
  <2> QED
    BY <1>1, <1>2, <2>1, HelpersDiffer
<1>3. CASE r.kind = "out" /\ ~Oversized(r)
  <2>1. HelperFor(r) = SETUP_OUT
    BY <1>3 DEF HelperFor
  <2> QED
    BY <1>1, <1>3, <2>1, HelpersDiffer
<1>4. CASE r.kind = "none" \/ Oversized(r)
  <2>1. HelperFor(r) = SETUP_STATUS
    BY <1>1, <1>4 DEF HelperFor
  <2> QED
    BY <1>1, <1>4, <2>1, HelpersDiffer
<1> QED
  BY <1>2, <1>3, <1>4, RequestTypes

-----------------------------------------------------------------------------
(* The host and the interrupt *)

(* A host that waits asks only when nothing is pending. *)
LEMMA HostWaits ==
  ASSUME ControlInv, ~Hasty, HostSetup
  PROVE  ~Pending
<1> USE DEF ControlInv, Meets, OneRequest
<1>1. CASE AtRest
  BY <1>1 DEF AtRest, Pending, Field
<1>2. CASE outcome \in {"none", "done", "timeout"}
  BY <1>2
<1>3. CASE outcome = "stalled" /\ ~Oversized(setup)
  BY <1>3
<1> QED
  BY <1>1, <1>2, <1>3 DEF HostSetup

LEMMA SetupMeets ==
  ASSUME ControlInv, ~Hasty, HostSetup
  PROVE  Meets'
<1>1. PICK r \in Requests : SetupStage(r)
  BY DEF HostSetup
<1>2. /\ Field(ed_status) = {}
      /\ pc \notin {"read", "process", "answer"}
      /\ pc = "store" => Field(loaded) = {}
  BY HostWaits DEF Pending
<1>3. /\ setup' = r /\ tx' = NoPacket /\ outcome' = "waiting" /\ received' = 0
      /\ pc' = pc /\ loaded' = loaded
  BY <1>1 DEF SetupStage, taskVars
<1>4. /\ r.kind = "out" /\ ~Oversized(r) => Field(ed_status') = {}
      /\ ~(r.kind = "out" /\ ~Oversized(r)) => Field(ed_status') = HelperFor(r)
      /\ halted' <=> Oversized(r)
  <2>1. Field(Cleared) = {}
    BY <1>2, FieldOf DEF Cleared
  <2>2. r \in Requests \cup {NoRequest}
    OBVIOUS
  <2>3. CASE r.kind = "in"
    BY <1>1, <2>1, <2>2, <2>3, FieldSet, HelperIs DEF SetupStage
  <2>4. CASE r.kind = "none"
    BY <1>1, <2>1, <2>2, <2>4, FieldSet, HelperIs DEF SetupStage
  <2>5. CASE Oversized(r)
    BY <1>1, <2>1, <2>2, <2>5, FieldSet, HelperIs DEF SetupStage
  <2>6. CASE r.kind = "out" /\ ~Oversized(r)
    BY <1>1, <2>1, <2>6 DEF SetupStage
  <2> QED
    BY <2>2, <2>3, <2>4, <2>5, <2>6, RequestTypes
<1>5. OneRequest'
  BY <1>2, <1>3, <1>4 DEF OneRequest, Pending
<1>6. RightHelper'
  BY <1>2, <1>3, <1>4 DEF RightHelper
<1>7. PayloadCounted'
  <2>1. r.kind = "out" /\ ~Oversized(r) =>
          transfer'.actual_length = 0 /\ transfer'.requested_length = r.asked
    BY <1>1 DEF SetupStage, ControlInv, TypeOK
  <2>2. r.kind = "out" /\ ~Oversized(r) => ~Pending'
    BY <1>2, <1>3, <1>4 DEF Pending
  <2> QED
    BY <1>3, <2>1, <2>2, RequestTypes DEF PayloadCounted
<1>8. AnswerCounted'
  BY <1>2, <1>3 DEF AnswerCounted
<1> QED
  BY <1>5, <1>6, <1>7, <1>8 DEF Meets

LEMMA StallMeets ==
  ASSUME ControlInv, StallSeen
  PROVE  Meets'
<1> USE DEF ControlInv, StallSeen, edVars, taskVars
<1>1. Pending' <=> Pending
  BY DEF Pending
<1>2. OneRequest'
  BY <1>1 DEF Meets, OneRequest
<1>3. RightHelper'
  BY DEF Meets, RightHelper
<1>4. PayloadCounted' /\ AnswerCounted'
  BY DEF Meets, PayloadCounted, AnswerCounted
<1> QED
  BY <1>2, <1>3, <1>4 DEF Meets

LEMMA TimeoutMeets ==
  ASSUME ControlInv, ~Hasty, Timeout
  PROVE  Meets'
<1> USE DEF ControlInv, Timeout, edVars, taskVars
<1>1. ~Pending /\ ~Pending'
  BY DEF Pending, AtRest, Field
<1>2. OneRequest'
  BY <1>1 DEF Meets, OneRequest
<1>3. RightHelper'
  BY DEF Meets, RightHelper
<1>4. PayloadCounted' /\ AnswerCounted'
  BY DEF Meets, PayloadCounted, AnswerCounted
<1> QED
  BY <1>2, <1>3, <1>4 DEF Meets

LEMMA ResetMeets ==
  ASSUME ControlInv, BusReset
  PROVE  Meets'
<1> USE DEF ControlInv, BusReset, taskVars
<1>1. Field(ed_status') = {}
  BY FieldOf
<1>2. OneRequest'
  BY <1>1 DEF Meets, OneRequest
<1>3. RightHelper'
  BY <1>1 DEF Meets, RightHelper
<1>4. PayloadCounted' /\ AnswerCounted'
  BY DEF Meets, PayloadCounted, AnswerCounted
<1> QED
  BY <1>2, <1>3, <1>4 DEF Meets

LEMMA PayloadMeets ==
  ASSUME ControlInv, DataOutStage
  PROVE  Meets'
<1> DEFINE length == AtMost(setup.asked - received, MaxPacketSize)
<1> DEFINE actual == transfer.actual_length + length
<1>1. /\ outcome = "waiting" /\ setup.kind = "out" /\ ~Oversized(setup)
      /\ received < setup.asked
  BY DEF DataOutStage, ControlInv, Meets, OneRequest
<1>2. ~Pending /\ tx = NoPacket /\ transfer.actual_length = received
      /\ transfer.requested_length = setup.asked
  <2>1. received \in Nat /\ setup.asked \in Nat
    BY RequestTypes DEF ControlInv, TypeOK
  <2> QED
    BY <1>1, <2>1 DEF ControlInv, Meets, PayloadCounted
<1>3. /\ length \in Nat /\ received' = received + length /\ received' <= setup.asked
      /\ length # MaxPacketSize => received' = setup.asked
      /\ received' \in Nat /\ received \in Nat /\ setup.asked \in Nat
  <2>1. received \in Nat /\ setup.asked \in Nat
    BY RequestTypes DEF ControlInv, TypeOK
  <2>2. setup.asked - received \in Nat
    BY <1>1, <2>1
  <2> QED
    BY <1>1, <2>1, <2>2, AtMostInNat, SizeAssumption DEF DataOutStage, AtMost
<1>4. transfer'.actual_length = received' /\ transfer'.requested_length = setup.asked
  BY <1>2, <1>3 DEF DataOutStage, ControlInv, TypeOK
<1>5. /\ Field(ed_status') \in {{}, SETUP_OUT}
      /\ Field(ed_status') # {} => received' = setup.asked
  <2>1. Field(ed_status) = {}
    BY <1>2 DEF Pending
  <2>2. CASE PayloadEnds(actual, length)
    <3>1. received' = setup.asked
      BY <1>2, <1>3, <2>2 DEF PayloadEnds
    <3>2. ed_status' = ed_status \cup SETUP_OUT
      BY <2>2 DEF DataOutStage
    <3> QED
      BY <2>1, <3>1, <3>2, FieldSet
  <2>3. CASE ~PayloadEnds(actual, length)
    BY <2>1, <2>3 DEF DataOutStage
  <2> QED
    BY <2>2, <2>3
<1>6. HelperFor(setup) = SETUP_OUT
  BY <1>1, HelperIs DEF ControlInv, TypeOK
<1>7. /\ UNCHANGED <<setup, serial, pc, task, reading, loaded, tx, halted, outcome, ed_state>>
      /\ pc \notin {"read", "process", "answer"}
      /\ pc = "store" => Field(loaded) = {}
      /\ ~halted
  BY <1>2 DEF DataOutStage, taskVars, Pending
<1>8. OneRequest'
  BY <1>1, <1>2, <1>7 DEF OneRequest
<1>9. RightHelper'
  BY <1>5, <1>6, <1>7 DEF RightHelper
<1>10. PayloadCounted'
  BY <1>2, <1>3, <1>4, <1>5, <1>7 DEF PayloadCounted, Pending
<1>11. AnswerCounted'
  BY <1>1, <1>7 DEF AnswerCounted
<1> QED
  BY <1>8, <1>9, <1>10, <1>11 DEF Meets

(* A packet of an answer: the arithmetic of NextPacket. *)
LEMMA PacketSent ==
  ASSUME ControlInv, DataInStage, setup.kind = "in", Sending, ed_state = "DATA_TX"
  PROVE  \/ /\ outcome' = "waiting" /\ ed_state' = "DATA_TX"
            /\ Sending' \/ Closing'
         \/ /\ outcome' = "done" /\ tx' = NoPacket
            /\ received' = setup.length
<1> DEFINE left == setup.length - received
<1> DEFINE more == transfer.in_transfer_length - MaxPacketSize
<1>1. /\ setup.length \in Nat /\ setup.asked \in Nat /\ received \in Nat
      /\ setup.length <= setup.asked
      /\ MaxPacketSize \in Nat /\ MaxPacketSize > 0
      /\ left \in Nat /\ left > 0
      /\ tx.length = AtMost(left, MaxPacketSize)
  BY RequestTypes, SizeAssumption DEF ControlInv, TypeOK, Sending
<1>2. /\ setup' = setup /\ received' = received + tx.length
      /\ outcome' = IF tx.length = MaxPacketSize /\ received' < setup.asked
                    THEN "waiting" ELSE "done"
      /\ NextPacket
  BY DEF DataInStage
<1>3. PICK k \in Nat : received = k * MaxPacketSize
  BY DEF Sending
<1>4. CASE left > MaxPacketSize
  <2>1. transfer.in_transfer_length = left /\ ~LastPacket /\ tx.length = MaxPacketSize
    BY <1>1, <1>4 DEF Sending, LastPacket, AtMost
  <2>2. /\ received' = received + MaxPacketSize /\ received' < setup.asked
        /\ outcome' = "waiting"
        /\ setup.length - received' = more /\ more \in Nat /\ more > 0
        /\ left = more + MaxPacketSize
    BY <1>1, <1>2, <1>4, <2>1
  <2>3. received' = (k + 1) * MaxPacketSize /\ k + 1 \in Nat
    BY <1>1, <1>3, <2>2
  <2>4. /\ tx' = Transmit(tx.serial, AtMost(more, MaxPacketSize))
        /\ transfer' = [transfer EXCEPT !.in_transfer_length = @ - AtMost(more, MaxPacketSize)]
        /\ ed_state' = ed_state
    BY <1>2, <2>1 DEF NextPacket, edVars
  <2>5. AtMost(AtMost(more, MaxPacketSize), MaxPacketSize) = AtMost(more, MaxPacketSize)
    BY <1>1, <2>2 DEF AtMost
  <2>6. tx'.length = AtMost(more, MaxPacketSize) /\ tx'.length > 0
    BY <1>1, <2>2, <2>4, <2>5 DEF Transmit, AtMost
  <2>7. /\ transfer'.in_transfer_length = left - AtMost(more, MaxPacketSize)
        /\ transfer'.force_zlp = transfer.force_zlp
    BY <2>1, <2>4 DEF ControlInv, TypeOK
  <2>8. IF more > MaxPacketSize
        THEN transfer'.in_transfer_length = more
        ELSE transfer'.in_transfer_length <= MaxPacketSize
    BY <1>1, <2>2, <2>7 DEF AtMost
  <2>9. Sending'
    BY <1>2, <2>2, <2>3, <2>6, <2>7, <2>8 DEF Sending, LastPacket
  <2> QED
    BY <2>2, <2>4, <2>9
<1>5. CASE left <= MaxPacketSize
  <2>1. tx.length = left /\ LastPacket /\ received' = setup.length
    BY <1>1, <1>2, <1>5 DEF Sending, AtMost
  <2>2. /\ setup.length = k * MaxPacketSize + left /\ left \in 1..MaxPacketSize
        /\ k * MaxPacketSize \in Nat
    BY <1>1, <1>3, <1>5
  <2>3. setup.length % MaxPacketSize = 0 <=> left = MaxPacketSize
    <3>1. (k * MaxPacketSize + left) % MaxPacketSize = 0 <=> left = MaxPacketSize
      BY <2>2, CompletesPackets, SizeAssumption
    <3> QED
      BY <2>2, <3>1
  <2>4. transfer.force_zlp <=> setup.asked # setup.length /\ left = MaxPacketSize
    BY <2>3 DEF Sending
  <2>5. CASE transfer.force_zlp
    <3>1. /\ tx' = Transmit(tx.serial, 0)
          /\ transfer' = [transfer EXCEPT !.force_zlp = FALSE]
          /\ ed_state' = ed_state
      BY <1>2, <2>1, <2>5 DEF NextPacket, edVars
    <3>2. outcome' = "waiting"
      BY <1>1, <1>2, <2>1, <2>4, <2>5
    <3>3. tx'.length = 0
      BY <1>1, <3>1 DEF Transmit, AtMost
    <3>4. ~transfer'.force_zlp /\ transfer'.in_transfer_length = transfer.in_transfer_length
      BY <3>1 DEF ControlInv, TypeOK
    <3>5. Closing'
      BY <1>2, <2>1, <3>3, <3>4 DEF Closing, LastPacket
    <3> QED
      BY <3>1, <3>2, <3>5
  <2>6. CASE ~transfer.force_zlp
    <3>1. tx' = NoPacket
      BY <1>2, <2>1, <2>6 DEF NextPacket
    <3>2. outcome' = "done"
      BY <1>1, <1>2, <2>1, <2>4, <2>6
    <3> QED
      BY <2>1, <3>1, <3>2
  <2> QED
    BY <2>5, <2>6
<1> QED
  BY <1>1, <1>4, <1>5

LEMMA AnswerMeets ==
  ASSUME ControlInv, DataInStage
  PROVE  Meets'
<1>1. /\ outcome = "waiting" /\ tx # NoPacket /\ ~halted /\ ~Pending
      /\ outcome' \in {"waiting", "done"}
      /\ setup.kind # "in" => outcome' = "done"
  BY DEF DataInStage, ControlInv, Meets, OneRequest
<1>2. UNCHANGED <<setup, serial, pc, task, reading, loaded, halted>>
  BY DEF DataInStage, taskVars
<1>3. /\ Field(ed_status') = Field(ed_status)
      /\ tx' # NoPacket => tx'.serial = tx.serial
  <2>1. CASE ed_state # "DATA_TX"
    BY <2>1 DEF DataInStage, edVars
  <2>2. CASE NextPacket /\ LastPacket
    <3>1. CASE transfer.force_zlp
      BY <2>2, <3>1 DEF NextPacket, edVars, Transmit
    <3>2. CASE ~transfer.force_zlp
      <4>1. ed_status' = ed_status \cup {"DONE"} /\ tx' = NoPacket
        BY <2>2, <3>2 DEF NextPacket
      <4> QED
        BY <4>1, FieldOf
    <3> QED
      BY <3>1, <3>2
  <2>3. CASE NextPacket /\ ~LastPacket
    BY <2>3 DEF NextPacket, edVars, Transmit
  <2> QED
    BY <2>1, <2>2, <2>3 DEF DataInStage
<1>4. ~Pending' /\ Field(ed_status) = {}
  BY <1>1, <1>2, <1>3 DEF Pending
<1>5. OneRequest'
  BY <1>1, <1>2, <1>3, <1>4 DEF ControlInv, Meets, OneRequest
<1>6. RightHelper'
  BY <1>2, <1>3 DEF ControlInv, Meets, RightHelper
<1>7. PayloadCounted'
  BY <1>1, <1>2 DEF PayloadCounted
<1>8. AnswerCounted'
  <2>1. pc \notin {"read", "process", "answer"}
    BY <1>1 DEF Pending
  <2>2. CASE setup.kind # "in"
    BY <1>2, <2>1, <2>2 DEF AnswerCounted
  <2>3. CASE setup.kind = "in"
    <3>1. ed_state = "DATA_TX" /\ (Sending \/ Closing)
      BY <1>1, <2>3 DEF ControlInv, Meets, AnswerCounted
    <3>2. CASE Sending
      BY <1>2, <1>4, <2>1, <2>3, <3>1, <3>2, PacketSent DEF AnswerCounted
    <3>3. CASE Closing
      <4>1. received' = setup.length /\ outcome' = "done" /\ tx' = NoPacket
        BY <1>1, <3>1, <3>3, SizeAssumption
        DEF DataInStage, NextPacket, Closing, ControlInv, TypeOK
      <4> QED
        BY <1>2, <2>1, <4>1 DEF AnswerCounted
    <3> QED
      BY <3>1, <3>2, <3>3
  <2> QED
    BY <2>2, <2>3
<1> QED
  BY <1>5, <1>6, <1>7, <1>8 DEF Meets

-----------------------------------------------------------------------------
(* The superloop *)

LEMMA TakeMeets ==
  ASSUME ControlInv, TakeSetup
  PROVE  Meets'
<1> USE DEF ControlInv, Meets, hostVars
<1>1. /\ Field(ed_status) # {} /\ task' = Field(ed_status)
      /\ Field(ed_status') = {} /\ pc' = "read"
  BY FieldOf DEF TakeSetup, TakenStatus, Field
<1>2. Pending /\ Pending'
  BY <1>1 DEF Pending
<1>3. UNCHANGED <<setup, serial, transfer, tx, halted, outcome, received>>
  BY DEF TakeSetup
<1>4. OneRequest'
  BY <1>1, <1>2, <1>3 DEF OneRequest
<1>5. RightHelper'
  BY <1>1, <1>3 DEF RightHelper
<1>6. PayloadCounted'
  BY <1>2, <1>3 DEF PayloadCounted
<1>7. AnswerCounted'
  BY <1>1, <1>2, <1>3 DEF AnswerCounted, OneRequest
<1> QED
  BY <1>4, <1>5, <1>6, <1>7

LEMMA ReadMeets ==
  ASSUME ControlInv, ReadSetup
  PROVE  Meets'
<1> USE DEF ControlInv, Meets, hostVars
<1>1. /\ pc = "read" /\ pc' = "process" /\ Pending /\ Pending'
      /\ UNCHANGED <<ed_status, task, setup, serial, transfer, tx, halted, outcome, received>>
      /\ reading' = [serial |-> serial, request |-> setup]
  BY DEF ReadSetup, Pending
<1>2. OneRequest'
  BY <1>1 DEF OneRequest
<1>3. RightHelper'
  BY <1>1 DEF RightHelper
<1>4. PayloadCounted'
  BY <1>1 DEF PayloadCounted
<1>5. AnswerCounted'
  <2>1. task = SETUP_IN => ed_state' = "DATA_TX"
    BY DEF ReadSetup
  <2> QED
    BY <1>1, <2>1 DEF AnswerCounted, OneRequest
<1> QED
  BY <1>2, <1>3, <1>4, <1>5

LEMMA RefuseMeets ==
  ASSUME ControlInv, RefuseRequest
  PROVE  Meets'
<1> USE DEF ControlInv, Meets, hostVars
<1>1. /\ pc = "process" /\ pc' = "load" /\ Pending
      /\ UNCHANGED <<setup, serial, transfer, tx, outcome, received, ed_state>>
      /\ Field(ed_status) = {} /\ Field(ed_status') = {} /\ tx = NoPacket /\ halted'
  BY FieldOf DEF RefuseRequest, Pending, OneRequest
<1>2. ~Pending'
  BY <1>1 DEF Pending
<1>3. OneRequest'
  BY <1>1, <1>2 DEF OneRequest
<1>4. RightHelper'
  BY <1>1 DEF RightHelper
<1>5. PayloadCounted'
  BY <1>1, <1>2 DEF PayloadCounted
<1>6. AnswerCounted'
  BY <1>1, <1>2 DEF AnswerCounted
<1> QED
  BY <1>3, <1>4, <1>5, <1>6

LEMMA SendMeets ==
  ASSUME ControlInv, SendData
  PROVE  Meets'
<1> USE DEF ControlInv, Meets, hostVars
<1>1. /\ pc = "process" /\ Pending
      /\ UNCHANGED <<setup, serial, outcome, received, ed_state, halted>>
      /\ reading.serial = serial /\ reading.request = setup
      /\ Field(ed_status) = {} /\ tx = NoPacket /\ setup.kind = "in"
  BY DEF SendData, Pending, OneRequest, RightHelper
<1>2. task = SETUP_IN /\ pc' = "load"
  BY <1>1, HelperIs DEF SendData, RightHelper, Continue, TypeOK
<1>3. /\ Field(ed_status') = {}
      /\ tx' = NoPacket \/ tx' = Transmit(serial, setup.length)
      /\ transfer' = [in_transfer_length |-> setup.length,
                      force_zlp |-> setup.asked # setup.length
                                    /\ setup.length % MaxPacketSize = 0,
                      actual_length |-> 0,
                      requested_length |-> setup.length]
  <2>1. StartTransfer(setup, serial)
    BY <1>1 DEF SendData
  <2> QED
    BY <1>1, <2>1, FieldOf DEF StartTransfer
<1>4. ~Pending'
  BY <1>2, <1>3 DEF Pending
<1>5. OneRequest'
  <2>1. ~Oversized(setup)
    BY <1>1 DEF Oversized
  <2> QED
    BY <1>1, <1>2, <1>3, <1>4, <2>1 DEF OneRequest, Transmit
<1>6. RightHelper'
  BY <1>2, <1>3 DEF RightHelper
<1>7. PayloadCounted'
  BY <1>1 DEF PayloadCounted
<1>8. AnswerCounted'
  <2>1. SUFFICES ASSUME outcome = "waiting", tx' # NoPacket
                 PROVE  ed_state' = "DATA_TX" /\ Sending'
    BY <1>1, <1>2, <1>4 DEF AnswerCounted, OneRequest
  <2>2. ed_state = "DATA_TX" /\ received = 0
    BY <1>1, <1>2, <2>1 DEF AnswerCounted
  <2>3. setup.length \in Nat /\ setup.length > 0 /\ setup.length - 0 = setup.length
    BY <1>1, RequestTypes DEF TypeOK
  <2>4. 0 = 0 * MaxPacketSize
    BY SizeAssumption
  <2>5. tx'.length = AtMost(setup.length, MaxPacketSize)
    BY <1>3, <2>1 DEF Transmit
  <2>6. Sending'
    BY <1>1, <1>3, <2>2, <2>3, <2>4, <2>5, SizeAssumption DEF Sending, LastPacket
  <2> QED
    BY <1>1, <2>2, <2>6
<1> QED
  BY <1>5, <1>6, <1>7, <1>8

LEMMA CarryMeets ==
  ASSUME ControlInv, CarryOut
  PROVE  Meets'
<1> USE DEF ControlInv, Meets, hostVars, edVars
<1>1. /\ pc = "process" /\ Pending
      /\ UNCHANGED <<ed_status, ed_state, transfer, setup, serial, task, reading, tx,
                     halted, outcome, received>>
      /\ reading = [serial |-> serial, request |-> setup]
      /\ Field(ed_status) = {} /\ tx = NoPacket /\ setup.kind # "in"
  BY DEF CarryOut, Pending, OneRequest, RightHelper
<1>2. task # SETUP_IN /\ pc' = "answer"
  BY <1>1, HelperIs DEF CarryOut, RightHelper, Continue, TypeOK
<1>3. Pending'
  BY <1>2 DEF Pending
<1>4. OneRequest'
  BY <1>1, <1>2, <1>3 DEF OneRequest
<1>5. RightHelper'
  BY <1>1, <1>2 DEF RightHelper
<1>6. PayloadCounted'
  BY <1>1, <1>3 DEF PayloadCounted
<1>7. AnswerCounted'
  BY <1>1, <1>2 DEF AnswerCounted
<1> QED
  BY <1>4, <1>5, <1>6, <1>7

LEMMA StatusMeets ==
  ASSUME ControlInv, AnswerStatus
  PROVE  Meets'
<1> USE DEF ControlInv, Meets, hostVars
<1>1. /\ pc = "answer" /\ pc' = "load" /\ Pending
      /\ UNCHANGED <<ed_status, transfer, setup, serial, halted, outcome, received>>
      /\ tx' = Transmit(serial, 0)
      /\ Field(ed_status) = {}
  BY DEF AnswerStatus, Pending, OneRequest, RightHelper
<1>2. ~Pending'
  BY <1>1 DEF Pending
<1>3. setup.kind # "in"
  BY <1>1, HelperIs DEF RightHelper, TypeOK
<1>4. OneRequest'
  BY <1>1, <1>2 DEF OneRequest, Transmit
<1>5. RightHelper'
  BY <1>1 DEF RightHelper
<1>6. PayloadCounted'
  BY <1>1 DEF PayloadCounted
<1>7. AnswerCounted'
  BY <1>1, <1>3 DEF AnswerCounted
<1> QED
  BY <1>4, <1>5, <1>6, <1>7

LEMMA LoadMeets ==
  ASSUME ControlInv, LoadStatus
  PROVE  Meets'
<1> USE DEF ControlInv, Meets, hostVars, edVars
<1>1. /\ pc = "load" /\ pc' = "store" /\ loaded' = ed_status
      /\ UNCHANGED <<ed_status, ed_state, transfer, setup, serial, tx, halted, outcome,
                     received>>
  BY DEF LoadStatus
<1>2. Pending' <=> Pending
  BY <1>1 DEF Pending
<1>3. OneRequest'
  BY <1>1, <1>2 DEF OneRequest
<1>4. RightHelper'
  BY <1>1 DEF RightHelper
<1>5. PayloadCounted'
  BY <1>1, <1>2 DEF PayloadCounted
<1>6. Sending' = Sending /\ Closing' = Closing
  BY <1>1 DEF Sending, Closing, LastPacket
<1>7. AnswerCounted'
  BY <1>1, <1>2, <1>6 DEF AnswerCounted
<1> QED
  BY <1>3, <1>4, <1>5, <1>7

LEMMA StoreMeets ==
  ASSUME ControlInv, StoreStatus
  PROVE  Meets'
<1> USE DEF ControlInv, Meets, hostVars
<1>1. /\ pc = "store" /\ pc' = "idle"
      /\ UNCHANGED <<ed_state, transfer, setup, serial, tx, halted, outcome, received>>
      /\ Field(ed_status') = Field(loaded)
  BY FieldOf DEF StoreStatus
<1>2. Pending' => Pending
  BY <1>1 DEF Pending
<1>3. OneRequest'
  BY <1>1, <1>2 DEF OneRequest
<1>4. RightHelper'
  BY <1>1 DEF RightHelper
<1>5. PayloadCounted'
  BY <1>1, <1>2 DEF PayloadCounted
<1>6. Sending' = Sending /\ Closing' = Closing
  BY <1>1 DEF Sending, Closing, LastPacket
<1>7. AnswerCounted'
  BY <1>1, <1>2, <1>6 DEF AnswerCounted
<1> QED
  BY <1>3, <1>4, <1>5, <1>7

-----------------------------------------------------------------------------
(* The invariant holds, and what follows from it *)

LEMMA ControlInvStart == Init => ControlInv
<1> SUFFICES ASSUME Init PROVE Meets
  BY TypesStart DEF ControlInv
<1>1. Field(ed_status) = {} /\ setup.kind = "none" /\ ~Oversized(setup)
  BY FieldOf DEF Init, NoRequest, Oversized
<1> QED
  BY <1>1 DEF Init, Meets, OneRequest, RightHelper, PayloadCounted, AnswerCounted, Pending

LEMMA ControlInvKept ==
  ASSUME ControlInv, ~Hasty, [Next]_vars
  PROVE  ControlInv'
<1>1. TypeOK'
  BY TypesKept DEF ControlInv
<1>2. CASE UNCHANGED vars
  <2>1. (Pending' <=> Pending) /\ (Sending' <=> Sending) /\ (Closing' <=> Closing)
    BY <1>2 DEF vars, Pending, Sending, Closing, LastPacket
  <2> QED
    BY <1>1, <1>2, <2>1
    DEF vars, ControlInv, Meets, OneRequest, RightHelper, PayloadCounted, AnswerCounted
<1>3. CASE Next
  <2>1. Meets'
    BY <1>3, SetupMeets, StallMeets, TimeoutMeets, ResetMeets, PayloadMeets, AnswerMeets,
       TakeMeets, ReadMeets, RefuseMeets, SendMeets, CarryMeets, StatusMeets, LoadMeets,
       StoreMeets
    DEF Next, Superloop, Transfers
  <2> QED
    BY <1>1, <2>1 DEF ControlInv
<1> QED
  BY <1>2, <1>3

LEMMA ControlInvAlways == ~Hasty => (Spec => []ControlInv)
<1> SUFFICES ASSUME ~Hasty PROVE Spec => []ControlInv
  OBVIOUS
<1>1. ControlInv /\ [Next]_vars => ControlInv'
  BY ControlInvKept
<1> QED
  BY <1>1, ControlInvStart, PTL DEF Spec

(* What endpoint 0 is about to send answers the latest request: as long as *)
(* a request is pending there is nothing to send, and the host asks again  *)
(* only when none is.                                                      *)
THEOREM LatestIsAnswered == ~Hasty => (Spec => []AnswersLatest)
<1>1. ControlInv => AnswersLatest
  BY DEF ControlInv, Meets, OneRequest, AnswersLatest
<1> QED
  BY <1>1, ControlInvAlways, PTL

(* The helper that runs is that of the request it processes. *)
THEOREM HelperIsRight == ~Hasty => (Spec => []HelperFits)
<1>1. ControlInv => HelperFits
  BY DEF ControlInv, Meets, RightHelper, HelperFits
<1> QED
  BY <1>1, ControlInvAlways, PTL

(* A payload that fits the buffer is complete when it is processed, for    *)
(* every length and packet size.                                           *)
THEOREM PayloadIsComplete == ~Hasty => (Spec => []PayloadComplete)
<1>1. ASSUME ControlInv PROVE PayloadComplete
  <2>1. SUFFICES ASSUME pc \in {"process", "answer"}, reading.request.kind = "out",
                        ~Oversized(reading.request), outcome # "reset"
                 PROVE  transfer.actual_length = reading.request.asked
    BY DEF PayloadComplete
  <2>2. Pending /\ reading.request = setup
    BY <1>1, <2>1 DEF ControlInv, Meets, RightHelper, Pending
  <2>3. outcome = "waiting"
    BY <1>1, <2>1, <2>2 DEF ControlInv, Meets, OneRequest
  <2> QED
    BY <1>1, <2>1, <2>2, <2>3 DEF ControlInv, Meets, PayloadCounted
<1> QED
  BY <1>1, ControlInvAlways, PTL

(* An answer that has ended for the host is whole and has ended for the    *)
(* driver, for every length, asked or there, and every packet size.        *)
THEOREM AnswerIsWhole == ~Hasty => (Spec => []AnswerWhole)
<1>1. ControlInv => AnswerWhole
  BY DEF ControlInv, Meets, AnswerCounted, AnswerWhole
<1> QED
  BY <1>1, ControlInvAlways, PTL
=============================================================================
