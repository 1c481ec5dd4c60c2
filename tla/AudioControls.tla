----------------------------- MODULE AudioControls -----------------------------
(***************************************************************************)
(* Mute and volume of the playback application (ux_device_audio.c), from   *)
(* the host's class requests to the codec, on top of DeviceConfiguration:  *)
(* the application answers them with an instance pointer that activation   *)
(* sets and deactivation, which a bus reset runs in the interrupt, clears. *)
(*                                                                         *)
(* The codec has two registers that matter, its mute and its level.  The   *)
(* application also writes both when playing starts or is resumed.         *)
(***************************************************************************)
EXTENDS DeviceConfiguration

CONSTANTS
    Volumes,      \* what the host may ask for: in 1/256 dB, 16 bits, signed
    MuteValues    \* what the host may ask for: a byte, 1 for mute

VolumeMin     == -6400   \* USBD_AUDIO_VOLUME_SPEAKER_MIN_DB_256
VolumeMax     == 1536    \* USBD_AUDIO_VOLUME_SPEAKER_MAX_DB_256
VolumeDefault == 256     \* USBD_AUDIO_VOLUME_SPEAKER_DEFAULT_DB_256
Announced     == VolumeMin..VolumeMax

Short == -32768..32767
Byte  == 0..255

ASSUME VolumesAssumption == Volumes \subseteq Short
ASSUME MuteValuesAssumption == MuteValues \subseteq Byte

VARIABLES
    setting,      \* audio_control[0]: mute and volume
    changed,      \* audio_control[0]: which of them the latest request changed
    description,  \* audio_speaker_description: mute and volume
    codec,        \* the codec's mute and level registers
    speaker,      \* audio_speaker_state: was it ever started?
    instance,     \* the application's pointer audio: is it not NULL?
    routed,       \* ux_system_slave_interface_class_array: is the class in it?
    dispatched,   \* the stack has called the application with a class request
    faulted       \* the NULL pointer was used: nothing is known from then on

controlVars == <<setting, changed, description, codec, speaker>>
routeVars   == <<instance, routed, dispatched, faulted>>
allVars     == <<vars, controlVars, routeVars>>

ControlsTypeOK ==
    /\ TypeOK
    /\ setting \in [mute : Byte, volume : Short]
    /\ changed \in {"nothing", "mute", "volume"}
    /\ description \in [mute : Byte, volume : Short]
    /\ codec \in [muted : BOOLEAN, level : 0..63]
    /\ speaker \in {"INITIALIZED", "STARTED"}
    /\ instance \in BOOLEAN
    /\ routed \in BOOLEAN
    /\ dispatched \in BOOLEAN
    /\ faulted \in BOOLEAN
-----------------------------------------------------------------------------
(***************************************************************************)
(* Volumes: VOLUME_DB_256_TO_PERCENT divides as C does, towards zero, and  *)
(* keeps eight bits; VOLUME_CONVERT makes a level of a percentage.         *)
(***************************************************************************)
Scaled(v) == (v - VolumeMin) * 100

Percent(v) ==
    LET range == VolumeMax - VolumeMin
    IN  (IF Scaled(v) >= 0 THEN Scaled(v) \div range ELSE -((-Scaled(v)) \div range)) % 256

Converted(percent) == IF percent > 100 THEN 100 ELSE (percent * 63) \div 100

LevelOf(percent) == IF Converted(percent) > 62 THEN 63 ELSE Converted(percent)

(***************************************************************************)
(* wm8994_SetMute and wm8994_SetVolume.  A volume of 0 mutes and leaves    *)
(* the level; any other volume sets the level and unmutes.                 *)
(***************************************************************************)
CodecSetMute(c, value) == [c EXCEPT !.muted = (value = 1)]

\* Seeded faults, here and below: the form a slip in the code would give the
\* definition that follows.  No run but a mutation uses them.
VolumeLeavesMute(c, percent) ==
    IF percent = 0 THEN [c EXCEPT !.muted = TRUE] ELSE [c EXCEPT !.level = LevelOf(percent)]

CodecSetVolume(c, percent) ==
    IF percent = 0 THEN [c EXCEPT !.muted = TRUE]
                   ELSE [muted |-> FALSE, level |-> LevelOf(percent)]

\* AUDIO_SpeakerInit: the codec is initialised at 70% and set to play.
ControlsInit ==
    /\ Init
    /\ setting = [mute |-> 0, volume |-> VolumeDefault]
    /\ changed = "nothing"
    /\ description = [mute |-> 0, volume |-> VolumeDefault]
    /\ codec = [muted |-> FALSE, level |-> LevelOf(70)]
    /\ speaker = "INITIALIZED"
    /\ instance = FALSE
    /\ routed = FALSE
    /\ dispatched = FALSE
    /\ faulted = FALSE
-----------------------------------------------------------------------------
(***************************************************************************)
(* The device's own steps.  The application's instance is set when an      *)
(* interface is mounted and cleared when a class is deactivated.  The      *)
(* table by which class requests find their class is filled by the first   *)
(* SET_CONFIGURATION, and nothing ever takes an entry out.                 *)
(***************************************************************************)
AlwaysDropped(deactivated) == FALSE

Dropped(deactivated) == instance /\ ~deactivated

InstanceMounted == instance' = (instance \/ FreeSlots # {})

DeviceStep ==
    /\ ~faulted
    /\ \/ /\ Interrupt
          /\ instance' = Dropped(device_state = "CONFIGURED" /\ \E s \in InChain : slot[s].class)
          /\ UNCHANGED routed
       \/ /\ DeactivateClass
          /\ instance' = Dropped(slot[cursor].class)
          /\ UNCHANGED routed
       \/ /\ MountInterface
          /\ InstanceMounted
          /\ routed' = TRUE
       \/ /\ \/ HostRequest /\ ~dispatched
             \/ FreeEndpoints \/ UnlinkInterface \/ ClearInterface
             \/ Detach \/ Select \/ Configure \/ Dismount \/ OpenEndpoint \/ Change
          /\ UNCHANGED <<instance, routed>>
    /\ UNCHANGED <<controlVars, dispatched, faulted>>

(***************************************************************************)
(* A class request finds its class whatever the state of the device is,    *)
(* and the class calls the application.  Before the first configuration    *)
(* there is no class to find, and the request is stalled.                  *)
(***************************************************************************)
ClassRequest ==
    /\ ~faulted
    /\ pc = "idle" /\ ~dispatched
    /\ plugged
    /\ routed
    /\ dispatched' = TRUE
    /\ UNCHANGED <<vars, controlVars, instance, routed, faulted>>

\* USBD_AUDIO_ControlProcess with a NULL instance.
UseNull ==
    /\ dispatched /\ ~faulted
    /\ ~instance
    /\ faulted' = TRUE
    /\ UNCHANGED <<vars, controlVars, instance, routed, dispatched>>
-----------------------------------------------------------------------------
(***************************************************************************)
(* USBD_AUDIO_ControlProcess.  The class's part notes a setting and what   *)
(* it has changed; the application's part carries the change to its own    *)
(* description and to the codec.                                           *)
(***************************************************************************)
ChangeKept(new, what) ==
    /\ setting' = new
    /\ changed' = IF new = setting THEN changed ELSE what

Noted(new, what) ==
    /\ setting' = new
    /\ changed' = IF new = setting THEN "nothing" ELSE what

CarriedOut ==
    \/ /\ changed' = "mute"
       /\ description' = [description EXCEPT !.mute = setting'.mute]
       /\ codec' = CodecSetMute(codec, description'.mute)
    \/ /\ changed' = "volume"
       /\ description' = [description EXCEPT !.volume = setting'.volume]
       /\ codec' = CodecSetVolume(codec, Percent(description'.volume))
    \/ changed' = "nothing" /\ UNCHANGED <<description, codec>>

Process(new, what) ==
    /\ dispatched /\ ~faulted
    /\ instance
    /\ Noted(new, what)
    /\ CarriedOut
    /\ dispatched' = FALSE
    /\ UNCHANGED <<vars, speaker, instance, routed, faulted>>

SetMute(m)   == Process([setting EXCEPT !.mute = m], "mute")
SetVolume(v) == Process([setting EXCEPT !.volume = v], "volume")

\* GET_CUR, GET_MIN, GET_MAX and GET_RES.
GetControl == Process(setting, "nothing")

(***************************************************************************)
(* Another channel than the master, too little data, another unit, or the  *)
(* sampling frequency of an endpoint: stalled, without a look at changed.  *)
(***************************************************************************)
Unsupported ==
    /\ dispatched /\ ~faulted
    /\ instance
    /\ changed' = "nothing"
    /\ dispatched' = FALSE
    /\ UNCHANGED <<vars, setting, description, codec, speaker, instance, routed, faulted>>

(***************************************************************************)
(* AUDIO_SpeakerStart, when frame_done of an open stream has reached the   *)
(* threshold: at first, and after every underrun or overrun.               *)
(***************************************************************************)
SpeakerStart ==
    /\ ~faulted
    /\ pc = "idle" /\ ~dispatched
    /\ device_state = "CONFIGURED"
    /\ \E i \in Endpoints : audio.endpoint[i] # None
    /\ codec' = CodecSetVolume(CodecSetMute(codec, description.mute),
                               Percent(description.volume))
    /\ speaker' = "STARTED"
    /\ UNCHANGED <<vars, setting, changed, description, routeVars>>

\* After the NULL pointer was used the program is as good as halted.
Halted == faulted /\ UNCHANGED allVars

ControlsNext ==
    \/ DeviceStep
    \/ ClassRequest \/ UseNull
    \/ \E m \in MuteValues : SetMute(m)
    \/ \E v \in Volumes : SetVolume(v)
    \/ GetControl \/ Unsupported
    \/ SpeakerStart
    \/ Halted

ControlsSpec == ControlsInit /\ [][ControlsNext]_allVars
-----------------------------------------------------------------------------
(***************************************************************************)
(* A host that was told that configuration 1 is selected has its controls  *)
(* answered: whatever resets struck whatever requests half way, the        *)
(* application's pointer is set again before the host is told so.          *)
(***************************************************************************)
ControlsServed == pc = "idle" /\ hostSelected = 1 => instance

(***************************************************************************)
(* Whatever sequence of requests and restarts led here: the codec is never *)
(* silent unless the host asked for it, by mute or by a volume of 0%, and  *)
(* once playing has started its level is that of the volume the host will  *)
(* read back.                                                              *)
(***************************************************************************)
SilentOnlyIfAsked == codec.muted => setting.mute = 1 \/ Percent(setting.volume) = 0

LevelIsSetting ==
    speaker = "STARTED" /\ Percent(setting.volume) # 0 =>
        codec.level = LevelOf(Percent(setting.volume))

CodecAgrees == SilentOnlyIfAsked /\ LevelIsSetting

(***************************************************************************)
(* The codec is written for a change or a start, never because a request   *)
(* found the change of an earlier one still noted: to read a control, or   *)
(* to ask for what is set already, is not heard.                           *)
(***************************************************************************)
OnlyChangesAreHeard == [][codec' = codec \/ setting' # setting \/ SpeakerStart]_allVars

(***************************************************************************)
(* "Mute/Unmute audio codec volume": a mute that the host reads back as    *)
(* set is the codec's.                                                     *)
(***************************************************************************)
MuteIsKept == setting.mute = 1 => codec.muted

\* "Volume level to be set in percentage from 0% to 100%"
VolumeIsPercent == Percent(description.volume) \in 0..100

\* The instance is valid when it is used.
NeverNull == ~faulted
=============================================================================
