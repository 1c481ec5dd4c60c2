-------------------------- MODULE DeviceConfiguration --------------------------
(***************************************************************************)
(* Mounting and unmounting of the configuration and of the alternate       *)
(* settings of the device: SET_CONFIGURATION and SET_INTERFACE as the      *)
(* superloop carries them out, against a bus reset or an unplugged cable,  *)
(* which the USB interrupt handles at once, wherever the superloop is.     *)
(*                                                                         *)
(* The framework of the projects has configuration 1 with an audio control *)
(* interface, number 0, and streaming interfaces 1..Streams, each with an  *)
(* alternate setting 0 without endpoint and an alternate setting 1 with    *)
(* one isochronous endpoint.                                               *)
(***************************************************************************)
EXTENDS Integers, Sequences, FiniteSets

CONSTANT Streams   \* streaming interfaces; 1 in every project

ASSUME StreamsAssumption == Streams \in Nat \ {0}

Interfaces == 0..Streams     \* bInterfaceNumber
Slots      == 0..Streams     \* ux_slave_device_interfaces_pool
Endpoints  == 1..Streams     \* ux_slave_device_endpoints_pool; also the EDs
None       == -1             \* UX_NULL

VARIABLES
    device_state,  \* ux_slave_device_state
    selected,      \* ux_slave_device_configuration_selected
    chain,         \* the interfaces from ux_slave_device_first_interface on
    slot,          \* the interfaces pool
    pool,          \* endpoints pool: is it used, and the ED it has or had
    ed_used,       \* EDs (by number) whose status is USED
    audio,         \* the pointers of the audio class: control, stream, endpoint
    pc,            \* where the superloop is
    request,       \* the request it carries out
    cursor,        \* interface_ptr
    next_interface,
    number,        \* bInterfaceNumber of the descriptor it mounts
    plugged,       \* may the host send requests?
    interrupted,   \* history: disconnected since the request was taken
    hostSelected,  \* what the host was told since the last reset: ...
    hostAlternate  \* ... configuration, and alternate setting per stream

stack   == <<device_state, selected, chain, slot, pool, ed_used, audio>>
control == <<pc, request, cursor, next_interface, number>>
host    == <<plugged, interrupted, hostSelected, hostAlternate>>
vars    == <<stack, control, host>>

NoRequest == [kind |-> "none", value |-> 0, number |-> 0]
FreeSlot(n, a) == [used |-> FALSE, number |-> n, alternate |-> a,
                   class |-> FALSE, endpoint |-> None]
NoAudio == [control |-> None, stream |-> [i \in Endpoints |-> None],
            endpoint |-> [i \in Endpoints |-> None]]

TypeOK ==
    /\ device_state \in {"RESET", "ATTACHED", "CONFIGURED"}
    /\ selected \in 0..1
    /\ chain \in Seq(Slots)
    /\ slot \in [Slots -> [used : BOOLEAN, number : Interfaces, alternate : 0..1,
                           class : BOOLEAN, endpoint : Endpoints \cup {None}]]
    /\ pool \in [Endpoints -> [used : BOOLEAN, ed : Endpoints]]
    /\ ed_used \subseteq Endpoints
    /\ audio \in [control : Slots \cup {None}, stream : [Endpoints -> Slots \cup {None}],
                  endpoint : [Endpoints -> Endpoints \cup {None}]]
    /\ pc \in {"idle", "deactivate", "free", "unlink", "clear", "detach", "select",
               "mount", "configured", "dismount", "open", "change"}
    /\ request \in [kind : {"none", "configuration", "interface"},
                    value : 0..2, number : Interfaces]
    /\ cursor \in Slots \cup {None}
    /\ next_interface \in Slots \cup {None}
    /\ number \in 0..Streams + 1
    /\ plugged \in BOOLEAN
    /\ interrupted \in BOOLEAN
    /\ hostSelected \in 0..1
    /\ hostAlternate \in [Endpoints -> 0..1]

Init ==
    /\ device_state = "RESET"
    /\ selected = 0
    /\ chain = <<>>
    /\ slot = [s \in Slots |-> FreeSlot(0, 0)]
    /\ pool = [e \in Endpoints |-> [used |-> FALSE, ed |-> 1]]
    /\ ed_used = {}
    /\ audio = NoAudio
    /\ pc = "idle"
    /\ request = NoRequest
    /\ cursor = None
    /\ next_interface = None
    /\ number = 0
    /\ plugged = FALSE
    /\ interrupted = FALSE
    /\ hostSelected = 0
    /\ hostAlternate = [i \in Endpoints |-> 0]

InChain == { chain[i] : i \in DOMAIN chain }
-----------------------------------------------------------------------------
(***************************************************************************)
(* The interrupt.  _ux_device_stack_disconnect walks the chain only when   *)
(* the device is configured; each interface deactivates its class, if it   *)
(* has one, and is deleted with its endpoints.                             *)
(***************************************************************************)
\* Seeded faults, here and below: the form a slip in the code would give the
\* definition that follows.  No run but a mutation uses them.
NothingMounted == {}
NotReverted == UNCHANGED selected

Mounted == { slot[s].endpoint : s \in InChain } \ {None}

RevertedSelection == selected' = 0

Disconnected ==
    /\ IF device_state = "CONFIGURED"
       THEN /\ chain' = <<>>
            /\ slot' = [s \in Slots |->
                          IF s \in InChain THEN FreeSlot(slot[s].number, slot[s].alternate)
                                           ELSE slot[s]]
            /\ pool' = [e \in Endpoints |->
                          [pool[e] EXCEPT !.used = @ /\ e \notin Mounted]]
            /\ ed_used' = ed_used \ { pool[e].ed : e \in Mounted }
            /\ audio' = IF \E s \in InChain : slot[s].class THEN NoAudio ELSE audio
       ELSE UNCHANGED <<chain, slot, pool, ed_used, audio>>
    /\ RevertedSelection

\* What a disconnection means to the host.
HostStartsOver ==
    /\ interrupted' = TRUE
    /\ hostSelected' = 0
    /\ hostAlternate' = [i \in Endpoints |-> 0]

IfConnected == IF device_state # "RESET" THEN Disconnected
                                         ELSE UNCHANGED <<chain, slot, pool, ed_used,
                                                          audio, selected>>

\* HAL_PCD_ResetCallback
BusReset ==
    /\ IfConnected
    /\ device_state' = "ATTACHED"
    /\ plugged' = TRUE
    /\ HostStartsOver
    /\ UNCHANGED control

\* HAL_PCD_DisconnectCallback
Unplug ==
    /\ plugged
    /\ IfConnected
    /\ device_state' = "RESET"
    /\ plugged' = FALSE
    /\ HostStartsOver
    /\ UNCHANGED control
-----------------------------------------------------------------------------
(***************************************************************************)
(* The superloop.  A request is answered by its last step; an answer       *)
(* reaches the host unless it was disconnected meanwhile.                  *)
(***************************************************************************)
Take(r) ==
    /\ pc = "idle"
    /\ plugged
    /\ request' = r
    /\ interrupted' = FALSE

Refused ==
    /\ pc' = "idle"
    /\ UNCHANGED <<hostSelected, hostAlternate>>

Told(value, alternates) ==
    /\ pc' = "idle"
    /\ hostSelected' = value
    /\ hostAlternate' = alternates

Answered(value, alternates) == IF interrupted THEN Refused ELSE Told(value, alternates)

AllZero == [i \in Endpoints |-> 0]

(***************************************************************************)
(* _ux_device_stack_configuration_set                                      *)
(***************************************************************************)
AnyValue(v) == TRUE

InConfigurations(v) == v \in {0, 1}

SetConfiguration(v) ==
    /\ Take([kind |-> "configuration", value |-> v, number |-> 0])
    /\ \/ /\ selected = v
          /\ Told(v, hostAlternate)
          /\ UNCHANGED <<cursor>>
       \/ /\ selected # v
          /\ ~InConfigurations(v)
          /\ Refused
          /\ UNCHANGED <<cursor>>
       \/ /\ selected # v
          /\ InConfigurations(v)
          /\ IF selected # 0
             THEN /\ pc' = IF chain = <<>> THEN "detach" ELSE "deactivate"
                  /\ cursor' = IF chain = <<>> THEN None ELSE Head(chain)
             ELSE pc' = "detach" /\ UNCHANGED cursor
          /\ UNCHANGED <<hostSelected, hostAlternate>>
    /\ UNCHANGED <<stack, next_interface, number, plugged>>

\* ux_slave_interface_next_interface: a deleted interface has none.
NextOf(s) ==
    IF \E i \in 1..Len(chain) - 1 : chain[i] = s
    THEN chain[(CHOOSE i \in 1..Len(chain) - 1 : chain[i] = s) + 1]
    ELSE None

DeactivateClass ==
    /\ pc = "deactivate"
    /\ audio' = IF slot[cursor].class THEN NoAudio ELSE audio
    /\ next_interface' = NextOf(cursor)
    /\ pc' = "free"
    /\ UNCHANGED <<device_state, selected, chain, slot, pool, ed_used,
                   request, cursor, number, host>>

(***************************************************************************)
(* _ux_device_stack_interface_delete in three steps: the endpoints, the    *)
(* chain, the interface itself.                                            *)
(***************************************************************************)
EndpointKept(e) == UNCHANGED <<pool, ed_used>>

EndpointFreed(e) ==
    IF e = None THEN UNCHANGED <<pool, ed_used>>
    ELSE /\ pool' = [pool EXCEPT ![e].used = FALSE]
         /\ ed_used' = ed_used \ {pool[e].ed}

FreeEndpoints ==
    /\ pc = "free"
    /\ EndpointFreed(slot[cursor].endpoint)
    /\ pc' = "unlink"
    /\ UNCHANGED <<device_state, selected, chain, slot, audio,
                   request, cursor, next_interface, number, host>>

UnlinkInterface ==
    /\ pc = "unlink"
    /\ chain' = IF chain # <<>> /\ Head(chain) = cursor THEN Tail(chain) ELSE <<>>
    /\ pc' = "clear"
    /\ UNCHANGED <<device_state, selected, slot, pool, ed_used, audio,
                   request, cursor, next_interface, number, host>>

ClearInterface ==
    /\ pc = "clear"
    /\ slot' = [slot EXCEPT ![cursor] = FreeSlot(@.number, @.alternate)]
    /\ cursor' = next_interface
    /\ pc' = IF next_interface = None THEN "detach" ELSE "deactivate"
    /\ UNCHANGED <<device_state, selected, chain, pool, ed_used, audio,
                   request, next_interface, number, host>>

\* No configuration is selected; unconfiguring ends here.
Detach ==
    /\ pc = "detach"
    /\ selected' = 0
    /\ device_state' = "ATTACHED"
    /\ IF request.value = 0
       THEN Answered(0, AllZero)
       ELSE pc' = "select" /\ UNCHANGED <<hostSelected, hostAlternate>>
    /\ UNCHANGED <<chain, slot, pool, ed_used, audio, request, cursor, next_interface,
                   number, plugged, interrupted>>

Select ==
    /\ pc = "select"
    /\ selected' = request.value
    /\ number' = 0
    /\ pc' = "mount"
    /\ UNCHANGED <<device_state, chain, slot, pool, ed_used, audio, request, cursor,
                   next_interface, host>>

(***************************************************************************)
(* _ux_device_stack_interface_set for the alternate setting 0 of an        *)
(* interface, with _ux_device_stack_interface_start and                    *)
(* _ux_device_class_audio_activate.  That no slot is free is an error,     *)
(* which the caller ignores.                                               *)
(***************************************************************************)
FreeSlots == { s \in Slots : ~slot[s].used }
FirstFree == CHOOSE s \in FreeSlots : \A t \in FreeSlots : s <= t

\* stream_index of a streaming interface, from 1.
StreamOf(n) ==
    IF audio.control = None THEN 1 ELSE n - slot[audio.control].number

Activated(s, n) ==
    IF n = 0 THEN [audio EXCEPT !.control = s]
             ELSE [audio EXCEPT !.stream[StreamOf(n)] = s]

MountInterface ==
    /\ pc = "mount"
    /\ IF FreeSlots = {}
       THEN UNCHANGED <<chain, slot, audio>>
       ELSE /\ slot' = [slot EXCEPT ![FirstFree].used = TRUE,
                                    ![FirstFree].number = number,
                                    ![FirstFree].alternate = 0,
                                    ![FirstFree].class = TRUE]
            /\ chain' = Append(chain, FirstFree)
            /\ audio' = Activated(FirstFree, number)
    /\ number' = number + 1
    /\ pc' = IF number = Streams THEN "configured" ELSE "mount"
    /\ UNCHANGED <<device_state, selected, pool, ed_used, request, cursor,
                   next_interface, host>>

Configure ==
    /\ pc = "configured"
    /\ device_state' = "CONFIGURED"
    /\ Answered(request.value, AllZero)
    /\ UNCHANGED <<selected, chain, slot, pool, ed_used, audio, request, cursor,
                   next_interface, number, plugged, interrupted>>

(***************************************************************************)
(* _ux_device_stack_alternate_setting_set                                  *)
(***************************************************************************)
Holding(n) == { i \in DOMAIN chain : slot[chain[i]].number = n }

\* The alternate setting is in the framework, and so is the selected configuration.
InFramework(n, a) == selected = 1 /\ (a = 0 \/ n > 0)

SetInterface(n, a) ==
    /\ Take([kind |-> "interface", value |-> a, number |-> n])
    /\ \/ /\ device_state # "CONFIGURED" \/ Holding(n) = {}
          /\ Refused
          /\ UNCHANGED cursor
       \/ /\ device_state = "CONFIGURED" /\ Holding(n) # {}
          /\ LET s == chain[CHOOSE i \in Holding(n) : \A j \in Holding(n) : i <= j]
             IN  \/ /\ slot[s].alternate = a
                    /\ Told(hostSelected, hostAlternate)
                    /\ UNCHANGED cursor
                 \/ /\ slot[s].alternate # a /\ ~InFramework(n, a)
                    /\ Refused
                    /\ UNCHANGED cursor
                 \/ /\ slot[s].alternate # a /\ InFramework(n, a)
                    /\ cursor' = s
                    /\ pc' = "dismount"
                    /\ UNCHANGED <<hostSelected, hostAlternate>>
    /\ UNCHANGED <<stack, next_interface, number, plugged>>

\* The endpoint of the previous alternate setting is destroyed and freed.
Dismount ==
    /\ pc = "dismount"
    /\ EndpointFreed(slot[cursor].endpoint)
    /\ slot' = [slot EXCEPT ![cursor].endpoint = None]
    /\ pc' = IF request.value = 0 THEN "change" ELSE "open"
    /\ UNCHANGED <<device_state, selected, chain, audio, request, cursor,
                   next_interface, number, host>>

(***************************************************************************)
(* An endpoint from the pool is created by _ux_dcd_stm32_endpoint_create,  *)
(* which refuses a physical endpoint in use, and attached to the interface.*)
(***************************************************************************)
FreeEndpointsOfPool == { e \in Endpoints : ~pool[e].used }

OpenEndpoint ==
    /\ pc = "open"
    /\ \/ /\ FreeEndpointsOfPool = {} \/ request.number \in ed_used
          /\ Refused
          /\ UNCHANGED <<pool, ed_used, slot>>
       \/ /\ FreeEndpointsOfPool # {} /\ request.number \notin ed_used
          /\ LET e == CHOOSE e \in FreeEndpointsOfPool : \A f \in FreeEndpointsOfPool : e <= f
             IN  /\ pool' = [pool EXCEPT ![e] = [used |-> TRUE, ed |-> request.number]]
                 /\ slot' = [slot EXCEPT ![cursor].endpoint = e]
          /\ ed_used' = ed_used \cup {request.number}
          /\ pc' = "change"
          /\ UNCHANGED <<hostSelected, hostAlternate>>
    /\ UNCHANGED <<device_state, selected, chain, audio, request, cursor,
                   next_interface, number, plugged, interrupted>>

(***************************************************************************)
(* The new setting is noted, and the class told (_ux_device_class_audio_   *)
(* change), which looks for the endpoint and fails without one.            *)
(***************************************************************************)
Change ==
    /\ pc = "change"
    /\ slot' = [slot EXCEPT ![cursor].alternate = request.value]
    /\ LET i == StreamOf(request.number)
           e == IF request.value = 0 THEN None ELSE slot[cursor].endpoint
       IN  /\ audio' = [audio EXCEPT !.stream[i] = cursor, !.endpoint[i] = e]
           /\ IF request.value # 0 /\ e = None
              THEN Refused
              ELSE Answered(hostSelected,
                            [hostAlternate EXCEPT ![request.number] = request.value])
    /\ UNCHANGED <<device_state, selected, chain, pool, ed_used, request, cursor,
                   next_interface, number, plugged, interrupted>>
-----------------------------------------------------------------------------
Interrupt == BusReset \/ Unplug

HostRequest ==
    \/ \E v \in 0..2 : SetConfiguration(v)
    \/ \E n \in Interfaces, a \in 0..1 : SetInterface(n, a)

Superloop ==
    \/ DeactivateClass \/ FreeEndpoints \/ UnlinkInterface \/ ClearInterface
    \/ Detach \/ Select \/ MountInterface \/ Configure
    \/ Dismount \/ OpenEndpoint \/ Change

Next == Interrupt \/ HostRequest \/ Superloop

Spec == Init /\ [][Next]_vars
-----------------------------------------------------------------------------
(***************************************************************************)
(* What the device answered is what it does: however many resets struck    *)
(* however many requests half way, a host that was told that configuration *)
(* 1 is selected, and alternate setting a of a stream, has all interfaces  *)
(* mounted in order with their class, and the stream its endpoint, created *)
(* and known to the class, if a is 1.  If a is 0 it has none, but for one  *)
(* that a reset left to the slot between Dismount and Change: that one     *)
(* stays created until the stream is next dismounted or deleted.           *)
(***************************************************************************)
StreamServed(i) ==
    LET s == chain[i + 1]
    IN  /\ slot[s].alternate = hostAlternate[i]
        /\ hostAlternate[i] = 1 =>
             /\ slot[s].endpoint # None
             /\ audio.stream[i] = s
             /\ audio.endpoint[i] = slot[s].endpoint
             /\ pool[slot[s].endpoint] = [used |-> TRUE, ed |-> i]
             /\ i \in ed_used

AnsweredIsServed ==
    pc = "idle" /\ hostSelected = 1 =>
      /\ device_state = "CONFIGURED"
      /\ selected = 1
      /\ Len(chain) = Streams + 1
      /\ \A n \in Interfaces :
           LET s == chain[n + 1] IN slot[s].used /\ slot[s].number = n /\ slot[s].class
      /\ audio.control = chain[1]
      /\ \A i \in Endpoints : StreamServed(i)

(***************************************************************************)
(* The pools suffice: selecting an alternate setting never fails for want  *)
(* of an endpoint, whatever a reset has interrupted before.                *)
(***************************************************************************)
EndpointAvailable ==
    pc = "open" => FreeEndpointsOfPool # {} /\ request.number \notin ed_used

(***************************************************************************)
(* Nothing leaks: between requests an endpoint of the pool is in use only  *)
(* if the slot of an interface holds it, with its physical endpoint, and a *)
(* slot is in use only if its interface is in the chain, once.             *)
(***************************************************************************)
NothingLeaks ==
    pc = "idle" =>
      /\ \A e \in Endpoints : pool[e].used <=> \E s \in Slots : slot[s].endpoint = e
      /\ ed_used = { pool[e].ed : e \in { f \in Endpoints : pool[f].used } }
      /\ \A s \in Slots : slot[s].used <=> s \in InChain
      /\ Cardinality(InChain) = Len(chain)

(***************************************************************************)
(* "We are reverting to configuration 0.": a device whose bus was reset is *)
(* not configured until it is told so again.                               *)
(***************************************************************************)
ResetReverts == pc = "idle" /\ interrupted => device_state # "CONFIGURED"
=============================================================================
