# Verification of the STM32 USB audio examples

This directory specifies, in TLA+, the behaviour of the repository's own code:
the USB Audio Class 1.0 playback and recording applications for the
STM32F769I-Discovery board, with the parts of the USBX device stack they run on. TLC checks small
instances of the specifications; TLAPS proves the main safety results for every
value of the constants.

Paths below are relative to the repository root (`src/` in PROJECT.json).
`PLAY` abbreviates
`Projects/STM32F769I-Discovery/Applications/USBX_Test/common_play` and `RECORD` its
sibling `common_record`.

## 1. The system

The repository vendors ST's firmware (HAL, BSP, USBX, ThreadX, FileX, NetXDuo,
LevelX) and adds a family of applications. The logic the repository itself
contributes is the playback path in `PLAY/`, shared by twelve projects
`UAC10_PLAY_{8,16,32,44_1,48,96}KHz_{16,24}B_Standalone` that differ only in
the frequency and resolution macros; a recording path in `RECORD/`
(shared by two projects); and a USB mass-storage RAM disk for the
NUCLEO-H723ZG. The root `Readme.md` lists playback as working at all
frequencies and leaves recording unchecked.

### 1.1 How playback runs

There is no RTOS. Three contexts share the state:

| context | what runs in it |
|---|---|
| superloop (`main.c`, `USBX_Device_Process`) | `ux_system_tasks_run`: the DCD task, which handles deferred control requests, then the class's read task, which calls the application's `frame_done` |
| USB OTG_HS interrupt, priority 7 | completion of a packet; bus reset and disconnection, which deactivate the class there and then |
| SAI DMA interrupt, priority 2 | `BSP_AUDIO_OUT_TransferComplete_CallBack`, once a millisecond |

The DMA interrupt preempts everything and is preempted by nothing that touches
this state: it is one atomic step. The superloop takes no lock: it can be
interrupted between any two accesses. The DMA is in normal mode: if the callback
did not start the next transfer, the output would stop for good.

```
 host --packets--> USB interrupt --> frame buffers (class) --frame_done--> ring --DMA interrupt--> SAI
                    |                     ^                     |            ^
                    +-- reset ------------+                     +-- flags, state, stop command --+
```

Recording runs the other way: the DFSDM's DMA interrupts store a packet of the
microphone each millisecond, the class's write task sends the frame at its
transfer position, and `frame_done`, called when a packet has been sent, takes the
next packet from the ring and writes it into a frame buffer.

Control requests reach both through the same path: the USB interrupt notes a
SETUP packet in the status word of endpoint 0, the DCD task in the superloop
carries it out, and a SET_CONFIGURATION or SET_INTERFACE request mounts and
unmounts interfaces, which activates, opens or closes the streams above.

### 1.2 Components

| component | state | operations | what makes it correct |
|---|---|---|---|
| **Playback ring and speaker** (`PLAY/ux_device_audio_play.c`) | `rd_ptr`, `wr_ptr`, `flags`, `audio_speaker_state`, `cmd`, `data`/`data_size`, `offset`, `injection_44_count` | `PlaybackStreamFrameDone`, `PlaybackStreamChange`, `SpeakerStart`, DMA completion, initialisation | reader never passes writer; both stay in the memory; the stop and restart protocol never loses a restart nor resets a ring that is being read; playing resumes after every underrun and ends after the stream is closed |
| **Byte counts** (`PLAY/audio_user.h`, `PlaybackInitializeDataBuffer`, `SpeakerInit`) | constants of a build | integer computations | packets tile the ring, margins fit, the 44/45-sample schedule keeps pace |
| **USBX audio OUT stream** (`ux_device_class_audio_*`) | frame buffers, transfer and access positions, task state | activate, change, read task, `read_frame_get`, `read_frame_free`, deactivate | frames come out in the order they came in; nothing but an overflow loses one; positions stay consistent across reopening and disconnection |
| **Device controller driver** (`ux_dcd_stm32_*`) | physical endpoint status bits and states, transfer requests | SETUP, data and status stages, their deferral, create/destroy endpoint, run/abort transfer, reset | requests, answers and payloads never mix; answers are whole; every request is answered |
| **USBX device stack core** | device state, chain of interfaces, pools of interfaces and endpoints, alternate settings | configuration, alternate setting, disconnect, `tasks_run` | what the host was told is mounted; nothing leaks; the pools suffice |
| **Start-up and superloop** (`app_usbx_device.c`, `main.c`) | which parts have been started | initialisation order, superloop | nothing runs on state that does not exist yet |
| **Controls** (`PLAY/ux_device_audio.c`, `ux_device_class_audio10_control_process.c`, `wm8994.c`) | mute and volume as noted, described and in the codec; the instance pointer | feature-unit requests, start of the speaker, activation, deactivation | the pointer is valid when used; the codec follows what the host reads back |
| **Recording** (`RECORD/`, `ux_device_class_audio_*`) | microphone ring, frame buffers, write task state | `frame_done` (write), stream change, DMA half and full transfer, write task, `frame_write` | ring bounds, threshold, the stream never starves, the host hears each frame once and in order |
| **RAM disk** (`NUCLEO-H723ZG/.../Ux_Device_MSC_RAMDisk*`) | sectors | read, write, status | accesses stay inside the disk |
| **SAI/DMA/codec driver** (BSP, HAL) | the transfer in flight | start, change buffer, interrupt | external; modelled as a completion that must be re-armed |
| descriptors, board configuration, vendored libraries | - | - | not modelled, see 7 |

### 1.3 What is hard

- *Lock-free sharing.* `frame_done` resets `rd_ptr`, `wr_ptr` and `flags` in three
  stores, updates `flags` with `|=`, and evaluates macros that read `rd_ptr` twice,
  all while the DMA interrupt may read and write the same variables.
- *Stale reads.* The amount of data is computed at line 169 and acted on at 180;
  what the DMA sends was chosen one completion earlier.
- *A protocol of three parties.* After an underrun the interrupt asks for a stop
  and a restart; the next interrupt honours the stop, the superloop honours the
  restart, the threshold starts the speaker again. Each waits for another.
- *Boundaries.* Full and empty rings have equal pointers; a packet may straddle
  the end of the ring; 44.1 kHz has packets of two lengths; 24-bit samples grow on
  their way out.
- *Failure.* A bus reset deactivates the class inside an interrupt, in the middle
  of a callback; the host may close and reopen the stream at any time; more
  packets may come than the SAI consumes, or fewer.

- *Deferral.* A control request is noted by the interrupt in a two-bit field of a
  status word and carried out by the superloop, which updates the same word. A
  request that comes too early, or a reset in the middle of one, meets work that
  is half done.
- *Shared pools.* Interfaces and endpoints come from pools with no reserve; the
  interrupt returns them while the superloop may be walking the same lists.

PROJECT.json lists every such place, with its line and the properties that cover
it, or why none does.

## 2. Modules

| module | models | extends / instantiates |
|---|---|---|
| `FrameFifo` | abstract: what the frame buffers of an OUT stream promise | - |
| `AudioReadStream` | the OUT stream of the USBX audio class | - |
| `AudioReadStreamRefinement` | `AudioReadStream` implements `FrameFifo` | extends `AudioReadStream`, instantiates `FrameFifo` |
| `AudioReadStreamProofs` | theorems about both | extends `AudioReadStreamRefinement`, `TLAPS` |
| `Playback` | `frame_done` against the DMA interrupt, on top of the stream | instantiates `AudioReadStream` |
| `PlaybackProofs` | theorems about `Playback` | extends `Playback`, `Multiples` |
| `AudioSizes` | the byte counts of the builds, the walk of `rd_ptr` | - |
| `AudioSizesProofs` | theorems about `AudioSizes` | extends `AudioSizes`, `Multiples` |
| `FrameQueue` | abstract: what an open IN stream promises | - |
| `AudioWriteStream` | the IN stream of the USBX audio class | instantiates `FrameQueue` |
| `Recording` | recording `frame_done` against the microphone, on top of the stream | instantiates `AudioWriteStream` |
| `RecordingProofs` | theorems about `Recording` | extends `Recording`, `Multiples` |
| `ControlEndpoint` | control transfers on endpoint 0 between interrupt and superloop | - |
| `MCControlEndpoint` | the set of requests for TLC | extends `ControlEndpoint` |
| `ControlEndpointProofs` | theorems about `ControlEndpoint` | extends `ControlEndpoint`, `Multiples` |
| `DeviceConfiguration` | SET_CONFIGURATION and SET_INTERFACE against resets | - |
| `DeviceConfigurationProofs` | theorems about `DeviceConfiguration` | extends `DeviceConfiguration`, `TLAPS` |
| `AudioControls` | mute and volume, from class requests to the codec | extends `DeviceConfiguration` |
| `MCAudioControls` | the set of volumes for TLC | extends `AudioControls` |
| `AudioControlsProofs` | theorems about `AudioControls` | extends `AudioControls`, `DeviceConfigurationProofs` |
| `Multiples` | lemmas about whole packets, shared by the proofs | `TLAPS` |

Two constants need a module for model checking, because a `.cfg` cannot write them:
the requests of `ControlEndpoint`, which are records, and the volumes of
`AudioControls`, which are negative. All others are given directly. Several modules hold *seeded faults*: variants of a definition, marked as
such, that no specification uses; a property that no such variant violates would
say nothing.

### 2.1 AudioReadStream

One action per operation of the class as it is used here:

| action | code |
|---|---|
| `SetConfiguration` | `_ux_device_class_audio_activate` (deferred to the superloop) |
| `OpenStream`, `CloseStream` | `_ux_device_class_audio_change`, with the application's `stream_change` callback, which starts the reception |
| `Disconnect` | `_ux_device_class_audio_deactivate`, in the USB interrupt |
| `ArmTransfer`, `TakePacket` | the two halves of `_ux_device_class_audio_read_task_function` |
| `PacketArrives` | `HAL_PCD_DataOutStageCallback` on the isochronous endpoint |
| `FreeAndReturn`, `ReturnOnly` | the callback, with or without `read_frame_free` |

`frameLength[i] = 0` is a free buffer, as in the code. `SET_CONFIGURATION 0` has
the same effect on this state as `Disconnect`, and is that action.
`_ux_device_class_audio_tasks_run` does nothing while the device is not configured,
so the read task's own exit for that case is not a transition of its own.
`FrameFifo` is the abstract view: a queue of at most `Capacity` frames,
whose newest element is provisional when it filled the last buffer: the class
reports an overflow and the next packet overwrites that frame.

### 2.2 Playback

`Playback` composes the stream with the ring. `pc` is the place in
`USBD_AUDIO_PlaybackStreamFrameDone`, and steps end wherever the DMA interrupt
can make a difference: at every access to `rd_ptr`, `wr_ptr`, `flags`, the state or
the command. `ComparePointers` and `CountFilled`/`ComputeFree` are the two reads of
`rd_ptr` in the macros, `LoadFlags` and `StoreFlags` the two halves of `flags |=`;
`ResetRead`, `ResetWrite`, `ResetFlags`/`DropFrame` the three stores of a reset. All
playback projects are built without optimisation (`CCOptLevel` 0 in the `.ewp`
files), so the accesses are performed in the order of the source.

The DMA interrupt is `DmaComplete`, with one disjunct per path of the callback:
`StopInjection`, `RepeatInjection`, `Underrun`, `Inject`. `data` is what the next
transfer will send, `dma` what is being sent. 24-bit padding writes one half of
`alt_buffer`; at 44.1 kHz `count44` chooses the long turn.

Samples are not modelled. The history variable `unread` counts the bytes written
and not yet read, and is -1 once the reader has passed the writer; `beenFull`
remembers that a packet has once filled the ring to the last byte. From then on
nothing that the code counts can be relied on (run `full_ring`), so the properties
about what the ring holds are stated up to that moment. Two more
variables bound the environment: `ahead` (packets since the last completion) and
`struck` (see section 4).

### 2.3 AudioSizes

The computations that produce those sizes, for every frequency and
resolution of the projects, in 16-bit arithmetic where the code stores a
`uint16_t`, and the walk of `rd_ptr` around the ring: `Inject` is a turn of the
interrupt that reads a packet, `Underrun` one that finds too little and stops, and
`Restart` the reset of the ring. Both kinds of turn step `injection_44_count`, which
the code does before the underrun check (`StepCount`), and the reset leaves it alone.
`debt` is the history of what was read since the reset against the pace of the host.

### 2.4 Recording

`AudioWriteStream` is the mirror of `AudioReadStream`: the application writes at
`accessPos`, the write task sends from `transferPos`.

| action | code |
|---|---|
| `OpenStream` | `_ux_device_class_audio_change`, and the application's `stream_change`, which writes a first frame and starts the transmission |
| `ArmTransfer`, `FinishTransfer` | the two halves of `_ux_device_class_audio_write_task_function` |
| `PacketSent` | `HAL_PCD_DataInStageCallback` on the isochronous endpoint |
| `WriteAndReturn`, `ReturnOnly` | the callback, with or without `frame_write` |

A frame is its identity; `Empty` marks a free buffer and is what an empty packet
carries. `FrameQueue` is the abstract view: a queue from which the host receives
every frame once and in order, and nothing when it is empty. `Waiting` is the
refinement mapping: the buffers from `transferPos` on, without the one the host has
already taken while the write task has not yet freed it.

`Recording` puts the ring on top. The steps of
`USBD_AUDIO_RecordingStreamFrameDone` are `CheckBegin` (the begin-of-stream test),
`AdvanceRead` (`rd_ptr`, with the early return) and `WritePacket`;
`MicrophonePacket` is one call of `AUDIO_FillDataToBuffer`. The content of a
frame is the offset it was taken from, or silence. `lapped` is a history variable.

### 2.5 ControlEndpoint

Endpoint 0 between the host, the interrupt and the superloop. A handler of the
interrupt is one step; the superloop's steps end wherever the interrupt can make a
difference.

| action | code (`ux_dcd_stm32_callback.c` unless noted) |
|---|---|
| `SetupStage` | `HAL_PCD_SetupStageCallback` |
| `DataInStage`, `DataOutStage` | the branches of `HAL_PCD_DataInStageCallback` and `HAL_PCD_DataOutStageCallback` for endpoint 0 |
| `BusReset` | `HAL_PCD_ResetCallback`, with `_ux_dcd_stm32_initialize_complete` |
| `TakeSetup` | `_ux_dcd_stm32_setup_isr_pending`, lines 148-169, with interrupts disabled |
| `ReadSetup`, `AnswerStatus` | `_ux_dcd_stm32_setup_in`, `_setup_out`, `_setup_status` |
| `SendData` | `_ux_device_stack_transfer_request` and `_ux_dcd_stm32_transfer_run` |
| `RefuseRequest`, `CarryOut` | `_ux_device_stack_control_request_process` |
| `LoadStatus`, `StoreStatus` | line 184, `ed_status &= ~TASK_PENDING` |
| `StallSeen`, `Timeout`, `HostSetup` | the host |

The status word is a set of bits; `SETUP_IN`, `SETUP_STATUS` and `SETUP_OUT` share
two of them, as in the code, so a mixture of two requests is expressible. `serial`
numbers the SETUP packets; what is sent carries the number of the request it
answers. Lengths are numbers, contents are not modelled.

### 2.6 DeviceConfiguration

The walk over the chain of interfaces in `_ux_device_stack_configuration_set`
(`DeactivateClass` to `Configure`) and the replacement of a setting in
`_ux_device_stack_alternate_setting_set` (`Dismount`, `OpenEndpoint`, `Change`), in
steps between which `BusReset` or `Unplug` may run the whole of
`_ux_device_stack_disconnect`. Slots and endpoints keep their identity after they are
freed, as the memory of the code does, and the superloop's pointer to one
(`cursor`) survives the reset. `hostSelected` and `hostAlternate` are what the
host was told since the last reset.

### 2.7 AudioControls

A class request is answered in two steps, with room for a reset between them:
`ClassRequest` is the stack's dispatch, and one of the following is
`USBD_AUDIO_ControlProcess`.

| action | code |
|---|---|
| `DeviceStep` | the steps of `DeviceConfiguration`, with `USBD_AUDIO_Activate` and `USBD_AUDIO_Deactivate`, which set and clear `instance` |
| `ClassRequest` | `_ux_device_stack_control_request_process`, class requests; `routed` is the table of classes, filled by the first SET_CONFIGURATION and never cleared |
| `SetMute`, `SetVolume`, `GetControl`, `Unsupported` | `_ux_device_class_audio10_control_process` for the feature unit (`Noted`), and what the application makes of it (`CarriedOut`) |
| `UseNull` | the same with a NULL instance; nothing is known of the program afterwards (`Halted`) |
| `SpeakerStart` | `AUDIO_SpeakerStart`, which writes mute and volume to the codec |

A setting exists three times: as the class notes it (`setting`, what the host reads
back), as the application describes it, and as two registers of the codec.
`Percent` and `Converted` are the macros of the code, with C's division and the eight
bits of the result. When the speaker is started is `Playback`'s concern; here it
may be at any time between two requests while a stream is open.

### 2.8 How the layers fit

`Playback` and `Recording` instantiate their stream with `inCallback` as
`pc # "idle"`, and the runs (and theorems) `UsesStream` show that their steps are
steps of it. The streams take from the layers below that a control request
runs between two callbacks, and that a completed transfer belongs to the endpoint
that armed it; `ControlEndpoint` and `DeviceConfiguration` model how those requests
come about and what is mounted in the end.

## 3. Runs

| run | question | shows |
|---|---|---|
| `stream_fifo` | are the frame buffers a queue? | `FifoShape`: buffers from the access position to the transfer position are full, the rest free; `DeliversInOrder`: the class implements `FrameFifo`, across reopening and disconnection inside a callback |
| `playback_16` | is the lock-free protocol sound when the host may be up to two packets ahead of the SAI? | until the ring is first full: `NeverPlaysStale`, `ReadAwaitsThreshold`, `InjectionIntact` (the writer spares what the DMA is sending while the ring has room for it), `StoppedWillRestart`, `RestartNeverLost`, and sound comes back after every underrun (`KeepsPlaying`); always: `WriteInBounds`, the application's use of the stream (`UsesStream`), and sound ends when the stream is closed (`FallsSilent`) |
| `playback_44` | do straddling packets and two lengths keep the reader in the ring? | `RingInjectionInBounds`, `RestartStopsReader` |
| `playback_24` | does padding spare what is being sent? | `PaddingAlternates`: yes, but for the first packet after silence; `NeverPlaysStale` |
| `sizes` | do the twelve builds satisfy what `Playback` assumes? | `PacketsFit`: every packet is injected whole; `KeepsPace`: less than a sample is lost or gained between two resets, also when underruns have used up turns of the schedule; `MarginFits`, `PlaybackAssumptions` |
| `recording` | does the microphone reach the host? | `CopiesInBounds`; `NeverStarves`: a frame is ready whenever a transfer is armed; `HostHearsInOrder`: the buffers implement `FrameQueue`; `UsesStream`; `KeepsSending` |
| `control_endpoint` | do interrupt and superloop ever mix two control requests? | `AnswersLatest`, `HelperFits`, `PayloadComplete`, `AnswerWhole`; `AnsweredUnlessLost`: every request is answered, or was erased at line 184 |
| `configuration` | what does a reset in the middle of a request leave behind, and does the codec follow the host? | `AnsweredIsServed`: what the host was told is mounted; `EndpointAvailable`, `NothingLeaks`: the pools suffice for ever; `ControlsServed`: a host that was told it is configured never meets the NULL pointer; `CodecAgrees`: the codec is silent only if asked, at the level the host reads back; `OnlyChangesAreHeard`: no request carries an earlier change out again |
| `full_ring`, `ignored_packet`, `alt_buffer_24`, `half_buffer` | what the comments promise, see section 6 | one counterexample each |

`playback_16` and `playback_24` check the same `NeverPlaysStale` on two different
paths of the interrupt. Every run but `control_endpoint` checks for deadlock
too: there the number of requests is bounded, and after the last one the
device rightly has nothing to do.

## 4. Bounds and assumptions

- *Sizes.* The ring holds a handful of packets (6 for the protocol, 10 units for
  44.1 kHz with 1 and 2 unit packets, 6 packets of 3 units padded to 4 for 24
  bits, 4 for liveness) instead of 53 or so. The unit of the code's arithmetic is a packet, so
  every case occurs: wrap of either pointer, the exact end, straddling, empty,
  threshold, full. `SizesAssumption` names what is needed of the sizes, and
  `PlaybackAssumptions` (run `sizes`, theorem `BuildsSuitPlayback`) that the real sizes
  satisfy it, together with what the theorems of section 5 ask for besides.
- *NominalRun = 2* stands for 9 short packets between two long ones.
- *FrameCount* is 3 in the application; 2, the least the class accepts, is used
  where the property is not about the buffers.
- *MaxAhead*: packets that may come between two DMA completions; a packet may
  also not come at all. The host's clock is its own, so nothing in the code bounds the
  pace; every run of `Playback` has 2, with which the host can run ahead for
  ever, the ring fills up, and the overrun check at line 205 is exercised at every
  distance of the pointers. Once a packet has filled the ring to the last byte it
  passes for empty (`full_ring`), and after that the host can bring about anything
  (*After a full ring*, section 6); the properties that speak of the ring's contents are
  therefore conditional on `~beenFull`. The theorems hold for every
  `MaxAhead`, five of them as long as such a burst stays below the threshold
  (`RegularHost`, section 5).
- *struck*: at most one completion falls into one call of `frame_done`, because
  the call takes far less than the millisecond between two of them. The exception
  is `AUDIO_SpeakerStart`, which talks to the codec over I2C: at `start` any number
  of completions may pass.
- *The host* sends packets of `HostLengths`, none of them empty (see section 6 for
  the empty packet).
- *Stream layer.* One run of the read or write task is atomic with respect to a bus
  reset. The callback is not: a reset may strike at any of its points.
- *Recording.* 4 packets of 2 units in a ring of 8, one spare unit behind it, and 3
  frame buffers. Both pointers wrap, the reader laps the writer and is lapped.
  Nothing ties the microphone's pace to the host's.
- *Control endpoint.* Packets of 2 units and a buffer of 4: `ModelRequests` has answers
  shorter than a packet, of exact multiples with and without the empty packet at
  the end, and longer; payloads of one and two packets and one that does not
  fit. `MaxRequests` = 4 SETUP packets and `MaxResets` = 1 bus reset are enough for
  the superloop to be caught in each of its steps by a request, a reset and the
  request after it. `Hasty = FALSE` is the host of the USB specification: it sends
  the next SETUP only when its transfer has ended, and after a reset leaves the
  recovery time. With `Hasty = TRUE` four properties fail (section 6).
- *Configuration.* `Streams` = 2: every project has one streaming interface; with two
  the chain has a middle, and the pools of interfaces and endpoints can be
  exhausted by a leak of one. Resets and unplugging are unbounded. The theorems hold
  for any number of streams.
- *Volumes.* The default, the least announced (0%, which mutes) and the least of all,
  which was not announced and wraps. The theorems hold for every set.

*Fairness.* `WF(Superloop)`: the loop in `main` never blocks, `frame_done` has no
waiting loop, and the interrupts are far shorter than their period.
`WF(DmaComplete)`: the SAI is clocked and every path of the callback re-arms the
DMA. `StreamingSpec` adds `WF(PacketArrives)`: a host that has opened the
stream answers an armed transfer. `WF(PacketSent)` in `Recording` is a host that
polls the endpoint of an open stream. `WF(Transfers)` in `ControlEndpoint` is a host
that goes on with the transfer it has begun. Nothing is assumed of control requests,
timeouts or disconnections; `KeepsPlaying` and `KeepsSending` are conditional on a
stream that stays open and `FallsSilent` on one that stays closed. No fairness is
assumed of the microphone: `KeepsSending` speaks of packets taken from its ring,
whether they are new or not.

## 5. What is proved

Every theorem holds for all constants that satisfy the assumptions of its
module; further premises are part of its statement.

`PlaybackProofs`: any ring, packet, threshold, number of frame buffers, resolution,
schedule, host and `MaxAhead`, but for the premises stated.

| theorem | statement | argument |
|---|---|---|
| `Typing` | `Spec => []TypeOK` | `TypeInv`, the conjunction with the stream's own type invariant, is inductive; `AdvanceInRing` and `UnreadInRange` give the arithmetic |
| `RestartIsSafe` | `Spec => []RestartStopsReader` | inductive as stated: every step that requires a restart leaves a stop pending, a stopped speaker, or a call that has its reset still to come |
| `InjectionInBounds` | `Spec => []RingInjectionInBounds` | `InjectionInv`: what is sent *and what has been prepared* ends inside the ring, unless a stop will replace it (after an underrun only the size is changed), and, without fractional packets, `rd` is a whole number of packets. A multiple of the packet length below the end leaves room for one more (`NextMultiple`, `WholeRoom`) |
| `CopyInBounds` | `PacketsHaveRoom => (Spec => []WriteInBounds)` | `WriteInv`: outside the copy `wr` is inside the ring, and with whole packets on the grid. `PacketsHaveRoom` is what the code needs of host and memory: a margin for the longest packet, or whole packets only (section 6 shows what happens without) |
| `PlaybackUsesStream` | `Spec => UsesStream` | step simulation: each action of `Playback` is a step or a stutter of `AudioReadStream` with `inCallback` as `pc # "idle"` |
| `NothingStaleIsPlayed` | `RegularHost => (Spec => []NeverPlaysStale)` | `PlayInv`, below |
| `ThresholdIsAwaited` | `RegularHost => (Spec => []ReadAwaitsThreshold)` | `PlayInv` |
| `StoppedIsRestarted` | `RegularHost => (Spec => []StoppedWillRestart)` | `PlayInv` |
| `RestartIsKept` | `RegularHost => (Spec => RestartNeverLost)` | `PlayInv`: the read-modify-write of `flags` runs only while no underrun can come |
| `SentIsIntact` | `RegularHost => (Spec => []InjectionIntact)` | `SentInv`: while the ring is read, what will be sent next ends at `rd`, and what is being sent ends where that begins; so the two packets before `rd` are all that the writer has to spare, and `RoomForSent`, the premise of the property, leaves them |
| `HostInStepNeverFills` | `HostInStep => (Spec => []~beenFull)` | `InStepNotFull`: with one packet at most between two completions a ring that is being read holds `MostHeld` at most (`StepInv`): a byte less than the threshold, the packet that reaches it, and one more |
| `HalvesAlternate` | `~Fractional => (Spec => PaddingAlternates)` | `HalvesInv`: `offset` names the half that is not being sent, through every stop |

*The lock-free protocol.* `PlayInv` is the argument that the code does without a lock.
It ties the history variable `unread` to the pointers (`Distance`: up to a lap,
also while `wr_ptr` stands past the end of the ring), says what a value computed
before the interrupt struck is still good for (`CountInv`), which of `flags`, state and
command can be set at which point of `frame_done` (`FlagsInv`, `StartInv`), and what
the ring holds while it is not read (`HeldInv`): less than the threshold, and, while a
stop is pending that a reset has overtaken, no more than the packets of one burst. Nothing
less is inductive: the reader cannot pass the writer because the check for an underrun
compares a true amount; the amount is true because equal pointers mean an empty ring; and
they do as long as the ring is not full. A stale count does no harm at line 179:
if the interrupt has read since, the threshold had been noted before, and if it has found an
underrun and cleared the flags, the count itself was below the threshold. That the ring never becomes full is not the code's doing, so the theorems carry
`beenFull` as the way out (`Playing`).

`RegularHost` is what that needs: packets, whole or short, but none empty or longer than
`PacketLength`; no fractional packets; a ring that 16 bits can count; and
`MaxAhead * PacketLength < InputThreshold`, a burst between two completions that does not
make up the threshold by itself. The ring's part of it is true of every build, for bursts
of up to four packets (`BuildsSuitPlayback`); 96 kHz with 24 bits, whose packets are the
largest, takes eight. Both other parts are needed: section 6 has a counterexample that TLC finds at
44.1 kHz (to `NeverPlaysStale`) and one with a burst that reaches the threshold (to
`StoppedWillRestart`).

`HostInStepNeverFills` is the case of a host that is locked to the SAI, jitter of a
packet included: for it the condition `~beenFull` holds for ever. With two packets of room
more, `RoomForSent` holds as well whenever a packet is copied to a ring that is being read
(model-checked with `Playback16.cfg` and `MaxAhead = 1`).

`AudioReadStreamProofs`: any number of frame buffers, any packet lengths.

| theorem | statement | argument |
|---|---|---|
| `StreamTyping` | `Spec => []StreamTypeOK` | inductive as stated |
| `BuffersAreAQueue` | `NoEmptyPacket => (Spec => []FifoShape)` | `QueueInv` adds that a completed transfer has brought something. The class decides by one look at the next buffer whether to move on; `NextOccupied`: in a queue the next buffer is occupied exactly when all are |
| `StreamImplementsFifo` | `NoEmptyPacket => (Spec => DeliversInOrder)` | step simulation under `QueueInv`: logging is `Receive` (`LoggedIsReceived`), freeing is `Free` (`FreedIsTail`), both by comparing the sequences buffer by buffer around the array |

`RecordingProofs`: any ring that whole packets tile, any number of frame buffers.

| theorem | statement | argument |
|---|---|---|
| `RecordingTyping`, `CopiesStayInBounds` | `Spec => []TypeOK`, `Spec => []CopiesInBounds` | `RingInv`: both pointers are whole numbers of packets below the end, so that the early return of `frame_done` cannot be taken |
| `StreamNeverStarves` | `Spec => []NeverStarves` | `OneFrame`: outside a callback exactly one buffer of an open stream holds a frame, the one at `transferPos`, and `accessPos` is the next; inside it none does |
| `RecordingUsesStream` | `Spec => UsesStream` | step simulation |
| `HostHearsEverything` | `Spec => HostHearsInOrder` | with `OneFrame` the abstract queue has at most one element (`QueueHoldsOne`); each step of the stream is one of `FrameQueue` |

`ControlEndpointProofs`: any packet size, any set of requests, any number of requests
and resets. All but the first are for a host that waits: `~Hasty => (Spec => []P)`.

| theorem | property | argument |
|---|---|---|
| `ControlTyping` | `TypeOK` | inductive as stated, for hasty hosts too |
| `LatestIsAnswered` | `AnswersLatest` | `OneRequest`: while the superloop is busy, or the field holds bits, the host is waiting for that very request, or the bus was reset and the host has not yet asked again |
| `HelperIsRight` | `HelperFits` | `RightHelper`: the two bits of the field, taken or not, are those of the request in `setup` |
| `PayloadIsComplete` | `PayloadComplete` | `PayloadCounted`: the driver's `actual_length` is what the host has delivered, and the request's bits are set only with the last packet |
| `AnswerIsWhole` | `AnswerWhole` | `AnswerCounted`: what the host received and what is left add up to the length, whole packets have been taken before the last (`CompletesPackets`), and the forced empty packet is pending exactly when the length is a shortened multiple |

The four share one inductive invariant, `ControlInv`; none of its parts is inductive
alone, because what keeps a late step of the superloop harmless is that the
host still waits for it.

`AudioControlsProofs`: any volumes and mute values, any number of streams.

| theorem | statement | argument |
|---|---|---|
| `CodecAlwaysAgrees` | `ControlsSpec => []CodecAgrees` | `ControlsInv` adds that setting and description are the same between two requests: `SpeakerStart` writes the codec from the latter, the property speaks of the former |
| `OnlyChangesAreEverHeard` | `ControlsSpec => OnlyChangesAreHeard` | every request notes afresh what it changed, so `changed` never says more than the step itself did |
| `DeviceIsUnchanged` | `ControlsSpec => Spec` | every step of the application is one of the device or a stutter, so all that is proved of `DeviceConfiguration` holds here |
| `ControlsAlwaysServed` | `ControlsSpec => []ControlsServed` | `InstanceInv`, on top of `DeviceInv`: while an interface is in the chain the instance is there, but in the requests that take the chain apart. A mounting that finds no slot free sets none, and finds one set |
| `ControlsTypes` | `ControlsSpec => []ControlsTypeOK` | with `DeviceInv`; the level stays in the six bits of the register for all 65536 volumes (`LevelIsSmall`) |
| `MoreIsNotLess` | for announced `v <= w`, `LevelOf(Percent(v)) <= LevelOf(Percent(w))` | in the announced range the percentage is in 0..100 and the eight bits do not matter (`PercentOfAnnounced`) |

`DeviceConfigurationProofs`: any number of streams, any number of resets.

| theorem | statement | argument |
|---|---|---|
| `DeviceTypes` | `Spec => []TypeOK` | part of `DeviceInv` |
| `DeviceServes` | `Spec => []AnsweredIsServed` | `DeviceInv`, below (`InvServes`) |
| `DeviceKeeps` | `Spec => []NothingLeaks` | `DeviceInv` (`InvKeeps`) |
| `DeviceHasEndpoint` | `Spec => []EndpointAvailable` | `Available`: the endpoints in use have the EDs of the other streams, each its own, so one of as many endpoints as streams is left (`FS_PigeonHole`) |

`DeviceInv` describes every point of a walk over the chain that a reset has cut short.
`ChainInv` says what the chain is at each: complete or empty between requests, what
the cursor has left of it while a configured device is being unmounted, a
prefix or all of it while it is being mounted. A reset empties the chain of a configured
device only; an interrupted mounting is finished in vain, and the next one finds its
interfaces and no slot free. `SlotInv` says that the slots in use are those in the chain, each
interface in the slot of its number; `PoolInv` that an endpoint is in use, with the
ED of a stream, exactly if the slot of that stream holds it, whether or not the slot is in the
chain, except between the steps that free both; `RequestInv` and `ServedInv` what the host and the
device believe to be selected.

`AudioSizesProofs`: any whole number of kHz or 44.1 kHz, 16 or 24 bits, any number of
channels, as long as one millisecond fits the 1023 bytes of a full-speed isochronous packet
(`BuildsAssumption`).

| theorem | statement | argument |
|---|---|---|
| `PacketsAlwaysFit` | `Spec => []PacketsFit` | `SentIsPrepared`: the sizes of the speaker's initialisation are those of the padding, long packets included; `SizesInv`: `rd` is a whole number of packets below the end of a ring of whole packets (`RingIs`, `NextMultiple`), or, at 44.1 kHz, anywhere in it |
| `PaceIsKept` | `Spec => []KeepsPace` | `DebtInv`, in `SizesInv`: the reads since the last reset are short of the pace by a tenth of a sample for every step that the count has gone up since then, and a turn that underruns moves it only when no read follows before the next reset (`ReadIs`) |
| `MarginAlwaysFits` | `Spec => []MarginFits` | `RingIs` |
| `BuildsSuitPlayback` | `Spec => []PlaybackAssumptions` | less than two packets of the 10240 bytes are lost to the margin and the rounding (`RingIs`); padding makes four bytes of three (`InjectionIs`) |

Every invariant and every action property that a run checks is thus stated by a
theorem. Only model-checked, on the instances of section 3, is liveness (`KeepsPlaying`,
`FallsSilent`, `KeepsSending`, `AnsweredUnlessLost`), which is out of the prover's
reach, as are induction over data and recursive operators; and for hosts and builds outside
`RegularHost`, `playback_44` and the counterexamples of section 6 are all there is about
staleness.

## 6. Disagreements between the code and its comments

Four runs have a counterexample as their result; PROJECT.json quotes the comments.

| run | comment | what the code does |
|---|---|---|
| `full_ring` | "Check if overrun is happened" | a ring filled to the last byte has equal pointers and passes for empty: the overrun is not seen, old samples are lost unnoticed |
| `ignored_packet` | "ignore the packet and reset buffer" | the early return does not free the frame: it is played later |
| `alt_buffer_24` | "alt_buff will contain two packet" | one packet is allocated, the second half lies past it |
| `half_buffer` | "First threshold is a half of buffer" | the flag that enables the threshold is tested the wrong way round and never set: the first packet is taken before anything is recorded |

More were met while modelling. They are not runs, but the changes below make
TLC show them.

*Playback*

- *Short packets* (`:154`). `Playback16.cfg` with `BufferSize`, `BufferAllocated` 12,
  `PacketLength`, `PacketLengthMax`, `InjectionSize`, `AltHalfSize`, `AltAllocated` 2,
  `InputThreshold` 6 and `HostLengths = {1, 2}`: `WriteInBounds` fails. Only the 44.1 kHz
  build has a margin; after one short packet at another frequency a later copy ends
  past the ring.
- *Underrun at 44.1 kHz* (`:624`). `Playback44.cfg` with `NeverPlaysStale`: the check
  asks for 44 samples where the turn reads 45.
- *First padding* (`:637`). `Playback24.cfg` with `PaddingSparesInjection`: the first
  padded packet is written over the silence being sent.
- *After a full ring* (`:205`). `Playback16.cfg` with `ReadAwaitsThreshold` or
  `StoppedWillRestart` without `~beenFull`, or `KeepsPlaying` without
  `[]~beenFull`: a packet fills the ring while `wr_ptr` stands at its end, and is counted as
  a full ring at line 169; `wr_ptr` is then brought to 0 and equals `rd_ptr`, so that an
  interrupt in the same call finds an underrun. The stale count starts the speaker on a ring that is
  reset a moment later. After that the threshold can stay noted while the
  speaker is stopped: it is never started again.
- *Samples overwritten while they are sent* (`:154`, `:205`). `PlaybackFullRing.cfg` with
  `InjectionIntact` without `RoomForSent`: the overrun check asks for one free packet,
  after the copy, but `rd_ptr` is two packets ahead of what the DMA has
  sent. With 4 of the 6 packets held, `wr_ptr` is two packets before `rd_ptr`, and the
  next copy overwrites the packet that is being sent, long before the overrun
  is noticed. A host whose clock is a little faster than the SAI's gets there.
- *A burst that reaches the threshold* (`:179`). `Playback16.cfg` with
  `MaxAhead = InputThreshold = 2` or 3: `StoppedWillRestart` fails; the threshold
  is reached while the stop of an overtaken underrun is still pending, and the stop then
  silences a speaker that nobody will start again. No real build has a threshold that
  small.
- *Long padded packets.* 44.1 kHz with 24 bits (`Fractional` and `Resolution24`,
  `NominalRun` 3, `BufferSize` 48, `BufferAllocated` 60, `PacketLength` 9,
  `PacketLengthMax` 12, `InjectionSize` 12, `AltHalfSize` 16, `AltAllocated` 32,
  `InputThreshold` 24): `PaddingAlternates` fails, because the start of
  the second half is the length of the packet before it, and the long packet in
  the first half reaches into it.
- *Closing* (`:96`). `stream_change` compares two different constants before it would
  stop the speaker; the branch is never taken. `FallsSilent` shows that the
  underrun check does the job instead.

*OUT stream*

- *Empty packets.* With 0 in `PacketLengths` the stream is no longer a queue: an
  empty packet occupies a position but counts as a free buffer, so
  `read_frame_get` reports an underflow while later frames wait behind it.

*Recording* (lines of `RECORD/ux_device_audio_record.c`)

- *One packet ahead* (`:119`). Without the threshold `rd_ptr` starts one packet ahead
  of `wr_ptr`. The first lap of the ring is sent before it is recorded, and from
  then on, while both keep the same pace, the packets are about a lap old.
- *No overflow check* (`:358`, "check for overflow"). What follows the comment compares
  `wr_ptr` with the end only. When the paces differ the pointers meet and cross, and
  a packet may be sent half old and half new.
- *Never stopped.* Closing the stream does not stop the microphone, and neither
  pointer is reset when it is reopened.
- *Every packet an underflow.* The write task finds no next frame at each completion,
  because `frame_done` writes it only then, and counts an error; `NeverStarves`
  shows that the host does not notice.
- *48 kHz only.* `wr_ptr` is compared with the end for equality; packets that do not
  tile the ring (44.1 kHz) would pass it. `TilingAssumption` says so.

*Control endpoint* (`ControlEndpoint.cfg` with one change; lines of
`ux_dcd_stm32_callback.c`)

- *A lost request* (`:184`). With `NothingLeftBehind` as the invariant: the superloop
  refuses a request with a stall and loads the status word; the host sees the stall
  and sends its next SETUP; the store erases its bits, and nobody will process it.
- *Oversized payloads.* With `PayloadDelivered`: the interrupt stalls a request whose
  payload does not fit, and still hands it to the superloop, which processes it
  with whatever the buffer holds.
- *A hasty host.* With `Hasty = TRUE`, `AnswersLatest`, `HelperFits`, `PayloadComplete`
  and `AnswerWhole` fail: nothing but the host's patience separates two requests.

*Configuration* (`AudioControls.cfg` with `ResetReverts`)

- *A reset inside SET_CONFIGURATION.* "We are reverting to configuration 0."
  (`ux_device_stack_disconnect.c:161`), but the superloop then goes on to mount the
  interfaces and declares the device configured. The next SET_CONFIGURATION finds
  the interfaces still mounted, ignores that no slot is free, and ends well all the
  same: `AnsweredIsServed` holds.
- *A reset inside SET_INTERFACE*, after the old endpoint was removed and before the new
  one is opened: the superloop goes on and opens it for a slot that the reset has freed. The next
  SET_CONFIGURATION mounts the slot as it is, and the stream is at alternate setting 0 with its
  endpoint created, until it is dismounted or deleted. `AnsweredIsServed` therefore says what
  a stream at setting 1 has and not what one at setting 0 lacks; `NothingLeaks` and
  `EndpointAvailable` show that the endpoint is not lost and does no other harm.

*Controls* (`AudioControls.cfg` with the invariant named)

- *A lost mute* (`ux_device_audio_play.c:475`, "set Mute value to speaker"). With
  `MuteIsKept`: the codec unmutes for any volume but 0, and `AUDIO_SpeakerStart` writes
  the mute first. A host that has muted the speaker, and reads back that it has,
  hears it again after the next underrun or change of volume. The other way round, a volume
  of 0% is undone by muting and unmuting.
- *A volume that is no percentage* (`audio_user.h:55`; `BSP_AUDIO_OUT_SetVolume`: "in
  percentage from 0% to 100%"). With `VolumeIsPercent`: nothing clamps a volume to the range
  that was announced. The least volume of all, -32768, is 180% in eight bits,
  and the codec plays at its highest level.
- *A NULL instance* (`ux_device_audio.c:127`). With `NeverNull`: a reset between dispatch
  and processing is enough, and so is a class request after a reset and before the next
  SET_CONFIGURATION, because the table of classes is never cleared.
  `ControlsServed` shows that nothing else is.
- *Mute values.* The comment of `AUDIO_SpeakerMute` says "0: mute, 1: unmute"; 1
  mutes. The comment of `USBD_AUDIO_VOLUME_SPEAKER_RES_DB_256` says 1 dB; the 1 it
  stands for is 1/256 dB.

## 7. Not modelled

- *Start-up.* The DMA runs before the speaker's state leaves OFF, and USB is connected
  before the ring is allocated. Both windows are a few instructions wide, and the
  first completion a millisecond away.
- *RAM disk*: stateless copies between a buffer and an array, checked against the size
  of the disk by the vendored class.
- *A reset inside the read or write task*, between its check of the device state and
  `_ux_dcd_stm32_transfer_run`. The endpoint's TRANSFER bit then survives the
  endpoint's re-creation, and the first completion or abort clears it.
- *Suspend and resume*, bulk and interrupt endpoints, the threaded build of the driver.
- Vendored code off these paths, descriptors, clock and pin set-up: static data or
  third-party code.
- `AUDIO_SpeakerDeInit`: it has no caller.
- The codec beyond its mute and level, and the I2C traffic: no state of the ring depends
  on it; only its duration does, and `start` allows for it. The control of the
  sampling frequency: no project announces it, and a request for it is stalled
  (`Unsupported`).
- Cache coherence: the buffers lie in a region that the MPU makes non-cacheable.

## 8. Plan

Done: the streams and their refinements, playback, recording, byte counts, control
endpoint, configuration, controls, and the proofs of section 5. Left, in the order of
importance:

1. *The read task split* at `_ux_dcd_stm32_transfer_run`, with the status bits of the
   isochronous endpoint, so that a reset may fall inside it.
2. *An abstract playback specification*: samples in, samples or silence out, the
   gaps being exactly those between a stop and the next threshold; `Playback`
   refines it.
