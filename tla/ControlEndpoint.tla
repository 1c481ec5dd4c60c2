---------------------------- MODULE ControlEndpoint ----------------------------
(***************************************************************************)
(* Control transfers of the standalone STM32 device controller driver      *)
(* (ux_dcd_stm32_callback.c, ux_dcd_stm32_transfer_run.c).                 *)
(*                                                                         *)
(* The USB interrupt does not process a control request: it copies the     *)
(* SETUP packet, records in the status word of endpoint 0 what there is to *)
(* do, and leaves the work to the superloop, which calls                   *)
(* _ux_dcd_stm32_setup_isr_pending.  Both sides update the same status     *)
(* word; the superloop does so with interrupts disabled when it takes a    *)
(* request, and without when it is done.                                   *)
(*                                                                         *)
(* A step of the superloop ends wherever the interrupt can make a          *)
(* difference.  A handler of the interrupt is one step.                    *)
(***************************************************************************)
EXTENDS Integers, FiniteSets

CONSTANTS
    Requests,        \* what the host may ask: records [kind, length, asked]
    MaxPacketSize,   \* wMaxPacketSize of endpoint 0
    ControlMax,      \* UX_SLAVE_REQUEST_CONTROL_MAX_LENGTH
    MaxRequests,     \* bound: SETUP packets
    MaxResets,       \* bound: bus resets
    Hasty            \* may the host ask again while a request is processed?

(***************************************************************************)
(* kind "in" has a data stage to the host: the device has length units to  *)
(* send of the asked (wLength) ones.  kind "out" has a data stage from the *)
(* host of length = asked units, kind "none" has no data stage.            *)
(***************************************************************************)
ASSUME RequestsAssumption ==
    Requests \subseteq { r \in [kind : {"in", "out", "none"}, length : Nat, asked : Nat] :
                            /\ r.kind # "none" => r.length > 0
                            /\ r.length <= r.asked
                            /\ r.kind # "in" => r.length = r.asked
                            /\ r.kind = "none" => r.asked = 0 }
ASSUME SizeAssumption == MaxPacketSize \in Nat \ {0} /\ ControlMax \in Nat
ASSUME BoundAssumption == MaxRequests \in Nat /\ MaxResets \in Nat /\ Hasty \in BOOLEAN

(***************************************************************************)
(* The bits of ux_dcd_stm32_ed_status.  SETUP_IN, SETUP_STATUS and         *)
(* SETUP_OUT are 1, 2 and 3 in a field of two bits.                        *)
(***************************************************************************)
SETUP_IN     == {"bit8"}
SETUP_STATUS == {"bit9"}
SETUP_OUT    == {"bit8", "bit9"}
SETUP        == {"bit8", "bit9"}
StatusBits   == SETUP \cup {"TRANSFER", "STALLED", "DONE", "TASK_PENDING"}

EdStates == {"IDLE", "DATA_TX", "DATA_RX", "STATUS_TX", "STATUS_RX"}

VARIABLES
    ed_status,   \* ux_dcd_stm32_ed_status of endpoint 0, without USED
    ed_state,    \* ux_dcd_stm32_ed_state
    transfer,    \* the fields of the transfer request
    setup,       \* the request in transfer_request_setup
    serial,      \* how many SETUP packets have come: the identity of setup
    pc,          \* where the superloop is
    task,        \* the superloop's ed_status & SETUP
    reading,     \* the request the superloop has read, with its serial
    loaded,      \* the status word the superloop has loaded at line 184
    tx,          \* what endpoint 0 IN will send: a packet, or NoPacket
    rx,          \* is endpoint 0 OUT ready for a packet?
    halted,      \* does the hardware answer with a stall?
    outcome,     \* the host's view of its latest request
    received,    \* units the host got (in) or has delivered (out)
    lost,        \* history: the latest SETUP was erased from the status word
    resets       \* bus resets so far

edVars   == <<ed_status, ed_state>>
taskVars == <<pc, task, reading, loaded>>
hostVars == <<outcome, received>>
vars == <<ed_status, ed_state, transfer, setup, serial, pc, task, reading, loaded,
          tx, rx, halted, outcome, received, lost, resets>>

NoPacket == [serial |-> 0, length |-> 0]
NoRequest == [kind |-> "none", length |-> 0, asked |-> 0]

TypeOK ==
    /\ ed_status \subseteq StatusBits
    /\ ed_state \in EdStates
    /\ transfer \in [in_transfer_length : Nat, force_zlp : BOOLEAN,
                     actual_length : Nat, requested_length : Nat]
    /\ setup \in Requests \cup {NoRequest}
    /\ serial \in 0..MaxRequests
    /\ pc \in {"idle", "read", "process", "answer", "load", "store"}
    /\ task \subseteq SETUP
    /\ reading \in [serial : 0..MaxRequests, request : Requests \cup {NoRequest}]
    /\ loaded \subseteq StatusBits
    /\ tx \in [serial : 0..MaxRequests, length : Nat]
    /\ rx \in BOOLEAN
    /\ halted \in BOOLEAN
    /\ outcome \in {"none", "waiting", "done", "stalled", "timeout", "reset"}
    /\ received \in Nat
    /\ lost \in BOOLEAN
    /\ resets \in 0..MaxResets

\* The transfer request as _ux_dcd_stm32_initialize_complete leaves it.
UX_SETUP_SIZE == 8
FreshTransfer == [in_transfer_length |-> UX_SETUP_SIZE, force_zlp |-> FALSE,
                  actual_length |-> 0, requested_length |-> UX_SETUP_SIZE]

Init ==
    /\ ed_status = {}
    /\ ed_state = "IDLE"
    /\ transfer = FreshTransfer
    /\ setup = NoRequest
    /\ serial = 0
    /\ pc = "idle"
    /\ task = {}
    /\ reading = [serial |-> 0, request |-> NoRequest]
    /\ loaded = {}
    /\ tx = NoPacket
    /\ rx = FALSE
    /\ halted = FALSE
    /\ outcome = "none"
    /\ received = 0
    /\ lost = FALSE
    /\ resets = 0

AtMost(a, b) == IF a < b THEN a ELSE b

\* HAL_PCD_EP_Transmit on endpoint 0: the hardware sends one packet at a time.
Transmit(of, length) == [serial |-> of, length |-> AtMost(length, MaxPacketSize)]
-----------------------------------------------------------------------------
(***************************************************************************)
(* HAL_PCD_SetupStageCallback.  The hardware always accepts a SETUP        *)
(* packet; it stops what endpoint 0 was sending and lifts its stall.       *)
(***************************************************************************)
\* Seeded faults, here and below: the form a slip in the code would give the
\* definition that follows.  No run but a mutation uses them.
ClearedStall == ed_status \ {"STALLED"}

Cleared == ed_status \ {"STALLED", "TRANSFER", "DONE"}

Oversized(r) == r.kind = "out" /\ r.asked > ControlMax

SetupStage(r) ==
    /\ serial < MaxRequests
    /\ serial' = serial + 1
    /\ setup' = r
    /\ tx' = NoPacket
    /\ outcome' = "waiting"
    /\ received' = 0
    /\ lost' = FALSE
    /\ \/ /\ r.kind = "in"
          /\ ed_status' = Cleared \cup SETUP_IN
          /\ transfer' = [transfer EXCEPT !.actual_length = 0]
          /\ halted' = FALSE
          /\ UNCHANGED <<ed_state, rx>>
       \/ /\ r.kind = "none"
          /\ ed_status' = Cleared \cup SETUP_STATUS
          /\ transfer' = [transfer EXCEPT !.actual_length = 0]
          /\ halted' = FALSE
          /\ UNCHANGED <<ed_state, rx>>
       \/ /\ Oversized(r)
          /\ ed_status' = Cleared \cup {"STALLED"} \cup SETUP_STATUS
          /\ ed_state' = "IDLE"
          /\ transfer' = [transfer EXCEPT !.actual_length = 0, !.requested_length = r.asked]
          /\ halted' = TRUE
          /\ UNCHANGED rx
       \/ /\ r.kind = "out" /\ ~Oversized(r)
          /\ ed_status' = Cleared
          /\ ed_state' = "DATA_RX"
          /\ transfer' = [transfer EXCEPT !.actual_length = 0, !.requested_length = r.asked]
          /\ halted' = FALSE
          /\ rx' = TRUE
    /\ UNCHANGED <<taskVars, resets>>

(***************************************************************************)
(* When the host sends one: after the previous transfer has ended for it,  *)
(* and after a reset once the recovery time of the bus (10 ms) has passed, *)
(* which leaves the superloop ample time to come to rest.  An oversized    *)
(* payload is refused by the interrupt, with the superloop still to come:  *)
(* only a hasty host, who may ask at any time, asks again before that.     *)
(***************************************************************************)
AtRest == pc = "idle" /\ ed_status \cap SETUP = {}

HostSetup ==
    /\ \/ outcome \in {"none", "done", "timeout"}
       \/ outcome = "stalled" /\ (Oversized(setup) => AtRest)
       \/ outcome = "reset" /\ AtRest
       \/ Hasty
    /\ \E r \in Requests : SetupStage(r)

(***************************************************************************)
(* HAL_PCD_DataInStageCallback on endpoint 0: the host has taken a packet. *)
(* The host's transfer ends with a short packet or with all it asked for.  *)
(***************************************************************************)
LastUnlessFull == transfer.in_transfer_length < MaxPacketSize
NeverLast == FALSE

LastPacket == transfer.in_transfer_length <= MaxPacketSize

NextPacket ==
    IF LastPacket
    THEN IF transfer.force_zlp
         THEN /\ tx' = Transmit(tx.serial, 0)
              /\ transfer' = [transfer EXCEPT !.force_zlp = FALSE]
              /\ UNCHANGED edVars
         ELSE /\ tx' = NoPacket
              /\ transfer' = [transfer EXCEPT !.actual_length = transfer.requested_length]
              /\ ed_status' = ed_status \cup {"DONE"}
              /\ ed_state' = "STATUS_RX"
    ELSE LET length == AtMost(transfer.in_transfer_length - MaxPacketSize, MaxPacketSize)
         IN  /\ tx' = Transmit(tx.serial, length)
             /\ transfer' = [transfer EXCEPT !.in_transfer_length = @ - length]
             /\ UNCHANGED edVars

DataInStage ==
    /\ outcome = "waiting"
    /\ tx # NoPacket
    /\ ~halted
    /\ received' = received + tx.length
    /\ outcome' = IF setup.kind = "in" /\ tx.length = MaxPacketSize /\ received' < setup.asked
                  THEN "waiting" ELSE "done"
    /\ \/ /\ ed_state = "DATA_TX"
          /\ rx' = TRUE
          /\ NextPacket
       \/ /\ ed_state # "DATA_TX"
          /\ tx' = NoPacket
          /\ UNCHANGED <<edVars, transfer, rx>>
    /\ UNCHANGED <<setup, serial, taskVars, halted, lost, resets>>

(***************************************************************************)
(* HAL_PCD_DataOutStageCallback on endpoint 0: a packet of the host's data *)
(* stage.  The host sends no more than it announced.                       *)
(***************************************************************************)
AnyPacketEnds(actual, length) == TRUE

PayloadEnds(actual, length) ==
    actual = transfer.requested_length \/ length # MaxPacketSize

DataOutStage ==
    /\ outcome = "waiting"
    /\ setup.kind = "out"
    /\ received < setup.asked
    /\ rx /\ ~halted
    /\ LET length == AtMost(setup.asked - received, MaxPacketSize)
           actual == transfer.actual_length + length
       IN  /\ received' = received + length
           /\ ed_state = "DATA_RX"
           /\ transfer' = [transfer EXCEPT !.actual_length = actual]
           /\ IF PayloadEnds(actual, length)
              THEN ed_status' = ed_status \cup SETUP_OUT /\ rx' = FALSE
              ELSE UNCHANGED <<ed_status, rx>>
    /\ UNCHANGED <<ed_state, setup, serial, taskVars, tx, halted, outcome, lost, resets>>

\* The host meets the stall.
StallSeen ==
    /\ outcome = "waiting"
    /\ halted
    /\ outcome' = "stalled"
    /\ UNCHANGED <<edVars, transfer, setup, serial, taskVars, tx, rx, halted, received,
                   lost, resets>>

(***************************************************************************)
(* The host gives up after seconds, when nothing more can come; a hasty    *)
(* host does not wait for that.                                            *)
(***************************************************************************)
Timeout ==
    /\ outcome = "waiting"
    /\ \/ Hasty
       \/ /\ AtRest
          /\ tx = NoPacket
          /\ ~halted
          /\ setup.kind = "out" => ~rx
    /\ outcome' = "timeout"
    /\ UNCHANGED <<edVars, transfer, setup, serial, taskVars, tx, rx, halted, received,
                   lost, resets>>

(***************************************************************************)
(* HAL_PCD_ResetCallback, as far as endpoint 0 is concerned: destroyed by  *)
(* _ux_device_stack_disconnect, created by                                 *)
(* _ux_dcd_stm32_initialize_complete.  The superloop may be anywhere.      *)
(***************************************************************************)
BusReset ==
    /\ resets < MaxResets
    /\ resets' = resets + 1
    /\ ed_status' = {}
    /\ transfer' = FreshTransfer
    /\ tx' = NoPacket
    /\ rx' = FALSE
    /\ halted' = FALSE
    /\ outcome' = "reset"
    /\ UNCHANGED <<ed_state, setup, serial, taskVars, received, lost>>
-----------------------------------------------------------------------------
(***************************************************************************)
(* _ux_dcd_stm32_setup_isr_pending.  Lines 148-169 run with interrupts     *)
(* disabled.                                                               *)
(***************************************************************************)
TakenStatusKept == ed_status \cup {"TASK_PENDING"}
TakenStatusHalf == (ed_status \ {"bit8"}) \cup {"TASK_PENDING"}

TakenStatus == (ed_status \ SETUP) \cup {"TASK_PENDING"}

TakeSetup ==
    /\ pc = "idle"
    /\ "TASK_PENDING" \notin ed_status
    /\ ed_status \cap SETUP # {}
    /\ task' = ed_status \cap SETUP
    /\ ed_status' = TakenStatus
    /\ pc' = "read"
    /\ UNCHANGED <<ed_state, transfer, setup, serial, reading, loaded, tx, rx, halted,
                   hostVars, lost, resets>>

\* The start of the helper that the switch selects, and of the request processing.
ReadSetup ==
    /\ pc = "read"
    /\ ed_state' = IF task = SETUP_IN THEN "DATA_TX" ELSE ed_state
    /\ reading' = [serial |-> serial, request |-> setup]
    /\ pc' = "process"
    /\ UNCHANGED <<ed_status, transfer, setup, serial, task, loaded, tx, rx, halted,
                   hostVars, lost, resets>>

\* Where the helper continues: setup_in is finished, the others answer.
Continue == IF task = SETUP_IN THEN "load" ELSE "answer"

(***************************************************************************)
(* _ux_device_stack_transfer_request for the data stage: the parameters,   *)
(* then _ux_dcd_stm32_transfer_run, which disables interrupts.             *)
(***************************************************************************)
StartTransfer(r, of) ==
    /\ transfer' = [in_transfer_length |-> r.length,
                    force_zlp |-> r.asked # r.length /\ r.length % MaxPacketSize = 0,
                    actual_length |-> 0,
                    requested_length |-> r.length]
    /\ \/ /\ "STALLED" \in ed_status
          /\ UNCHANGED <<ed_status, tx>>
       \/ /\ "STALLED" \notin ed_status
          /\ {"TRANSFER", "DONE"} \subseteq ed_status
          /\ ed_status' = ed_status \cap {"STALLED", "TASK_PENDING"}
          /\ UNCHANGED tx
       \/ /\ "STALLED" \notin ed_status
          /\ "TRANSFER" \in ed_status /\ "DONE" \notin ed_status
          /\ UNCHANGED <<ed_status, tx>>
       \/ /\ ed_status \cap {"STALLED", "TRANSFER"} = {}
          /\ ed_status' = ed_status \cup {"TRANSFER"}
          /\ tx' = Transmit(of, r.length)

(***************************************************************************)
(* _ux_device_stack_control_request_process: the request is refused with a *)
(* stall (its status change runs with interrupts disabled), or carried     *)
(* out, which for a request of kind "in" starts the data stage.            *)
(***************************************************************************)
RefuseRequest ==
    /\ pc = "process"
    /\ ed_status' = ed_status \cup {"STALLED"}
    /\ halted' = TRUE
    /\ pc' = "load"
    /\ UNCHANGED <<ed_state, transfer, setup, serial, task, reading, loaded, tx, rx,
                   hostVars, lost, resets>>

SendData ==
    /\ pc = "process"
    /\ reading.request.kind = "in"
    /\ StartTransfer(reading.request, reading.serial)
    /\ pc' = Continue
    /\ UNCHANGED <<ed_state, setup, serial, task, reading, loaded, rx, halted,
                   hostVars, lost, resets>>

CarryOut ==
    /\ pc = "process"
    /\ reading.request.kind # "in"
    /\ pc' = Continue
    /\ UNCHANGED <<edVars, transfer, setup, serial, task, reading, loaded, tx, rx, halted,
                   hostVars, lost, resets>>

\* The status stage of setup_out and setup_status: an empty packet to the host.
AnswerStatus ==
    /\ pc = "answer"
    /\ ed_state' = IF task = SETUP_OUT THEN "STATUS_TX" ELSE "STATUS_RX"
    /\ tx' = Transmit(reading.serial, 0)
    /\ pc' = "load"
    /\ UNCHANGED <<ed_status, transfer, setup, serial, task, reading, loaded, rx, halted,
                   hostVars, lost, resets>>

(***************************************************************************)
(* Line 184, ed_status &= ~TASK_PENDING, with interrupts enabled: a load   *)
(* and a store.                                                            *)
(***************************************************************************)
LoadStatus ==
    /\ pc = "load"
    /\ loaded' = ed_status
    /\ pc' = "store"
    /\ UNCHANGED <<edVars, transfer, setup, serial, task, reading, tx, rx, halted,
                   hostVars, lost, resets>>

StoreStatus ==
    /\ pc = "store"
    /\ ed_status' = loaded \ {"TASK_PENDING"}
    /\ lost' = (lost \/ ~((ed_status \cap SETUP) \subseteq loaded))
    /\ pc' = "idle"
    /\ UNCHANGED <<ed_state, transfer, setup, serial, task, reading, loaded, tx, rx, halted,
                   hostVars, resets>>
-----------------------------------------------------------------------------
Superloop == TakeSetup \/ ReadSetup \/ RefuseRequest \/ SendData \/ CarryOut
             \/ AnswerStatus \/ LoadStatus \/ StoreStatus

Transfers == DataInStage \/ DataOutStage \/ StallSeen

Next == Superloop \/ Transfers \/ HostSetup \/ Timeout \/ BusReset

(***************************************************************************)
(* The superloop never blocks; a host with a request outstanding keeps     *)
(* asking for the rest of it.  Nobody has to send a request, to time out   *)
(* or to reset the bus.                                                    *)
(***************************************************************************)
Spec == Init /\ [][Next]_vars
FairSpec == Spec /\ WF_vars(Superloop) /\ WF_vars(Transfers)
-----------------------------------------------------------------------------
(***************************************************************************)
(* What endpoint 0 is about to send answers the latest request, never an   *)
(* earlier one: the superloop's work of one request cannot slip into the   *)
(* next, although nothing but the host's patience separates them.          *)
(***************************************************************************)
AnswersLatest == tx # NoPacket => tx.serial = serial

(***************************************************************************)
(* The helper that runs fits the request that is processed: the two-bit    *)
(* field, into which the interrupt ORs, never mixes two requests.  A       *)
(* payload that does not fit the buffer is refused, and processed without. *)
(***************************************************************************)
HelperFor(r) == CASE r.kind = "in" -> SETUP_IN
                  [] r.kind = "out" /\ ~Oversized(r) -> SETUP_OUT
                  [] OTHER -> SETUP_STATUS

HelperFits == pc \in {"process", "answer"} => task = HelperFor(reading.request)

(***************************************************************************)
(* "If so, wait for the payload to be delivered": a request with a payload *)
(* is processed when all of it has come.                                   *)
(***************************************************************************)
PayloadComplete ==
    /\ pc \in {"process", "answer"}
    /\ reading.request.kind = "out"
    /\ ~Oversized(reading.request)
    /\ outcome # "reset"
    => transfer.actual_length = reading.request.asked

(***************************************************************************)
(* The same of every payload, the oversized included, which the code does  *)
(* not keep: it hands an oversized request to the superloop all the same.  *)
(***************************************************************************)
PayloadDelivered ==
    /\ pc \in {"process", "answer"}
    /\ reading.request.kind = "out"
    /\ outcome # "reset"
    => transfer.actual_length = reading.request.asked

(***************************************************************************)
(* A data stage that has ended for the host has ended for the driver, with *)
(* every unit sent once: packets, in_transfer_length and the forced empty  *)
(* packet agree at every length, multiples of the packet size included.    *)
(***************************************************************************)
AnswerWhole ==
    setup.kind = "in" /\ outcome = "done" => received = setup.length /\ tx = NoPacket

(***************************************************************************)
(* Every request is answered, unless the bus is reset or its SETUP bits    *)
(* were set between the load and the store of line 184.                    *)
(***************************************************************************)
AnsweredUnlessLost ==
    \A k \in 1..MaxRequests :
        (serial = k /\ outcome = "waiting") ~> (outcome \in {"done", "stalled", "reset"} \/ lost)

(***************************************************************************)
(* "This function handles pending control ISR from HAL driver": when the   *)
(* superloop is at rest, no request of the host is left behind.            *)
(***************************************************************************)
NothingLeftBehind ==
    outcome = "waiting" /\ AtRest => tx # NoPacket \/ halted \/ (setup.kind = "out" /\ rx)
=============================================================================
