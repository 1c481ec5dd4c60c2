-------------------------- MODULE AudioControlsProofs --------------------------
(***************************************************************************)
(* Theorems about AudioControls, for every set of volumes and mute values  *)
(* a host may send and any number of streams.                              *)
(***************************************************************************)
EXTENDS AudioControls, DeviceConfigurationProofs, TLAPS

(***************************************************************************)
(* Volumes.  Inside the range that was announced the percentage is one,    *)
(* whatever the eight bits it is kept in, and more volume is never less    *)
(* level.                                                                  *)
(***************************************************************************)
LEMMA PercentOfAnnounced ==
    ASSUME NEW v \in Announced
    PROVE  /\ Percent(v) = ((v + 6400) * 100) \div 7936
           /\ Percent(v) \in 0..100
<1> DEFINE scaled == (v + 6400) * 100
<1>1. v \in Int /\ -6400 <= v /\ v <= 1536
  BY DEF Announced, VolumeMin, VolumeMax
<1>2. /\ Scaled(v) = scaled
      /\ scaled \in Int /\ 0 <= scaled /\ scaled <= 793600
  BY <1>1 DEF Scaled, VolumeMin
<1>3. VolumeMax - VolumeMin = 7936
  BY DEF VolumeMin, VolumeMax
<1> HIDE DEF scaled
<1>4. scaled \div 7936 \in 0..100
  BY <1>2
<1>5. Percent(v) = (scaled \div 7936) % 256
  BY <1>2, <1>3 DEF Percent
<1>6. Percent(v) = scaled \div 7936
  BY <1>4, <1>5
<1> QED
  BY <1>4, <1>6 DEF scaled

LEMMA LevelOfMonotone ==
    ASSUME NEW p \in 0..255, NEW q \in 0..255, p <= q
    PROVE  LevelOf(p) <= LevelOf(q)
<1>1. CASE q > 100
  <2>1. LevelOf(q) = 63
    BY <1>1 DEF LevelOf, Converted
  <2>2. LevelOf(p) <= 63
    BY DEF LevelOf, Converted
  <2> QED
    BY <2>1, <2>2
<1>2. CASE q <= 100
  <2>1. (p * 63) \div 100 <= (q * 63) \div 100
    OBVIOUS
  <2>2. Converted(p) <= Converted(q) /\ Converted(p) \in Nat /\ Converted(q) \in 0..63
    BY <1>2, <2>1 DEF Converted
  <2> QED
    BY <2>2 DEF LevelOf
<1> QED
  BY <1>1, <1>2

(* A host that asks for more within the range that was announced is never  *)
(* given a lower level of the codec (audio_user.h:55 and VOLUME_CONVERT).  *)
THEOREM MoreIsNotLess ==
    ASSUME NEW v \in Announced, NEW w \in Announced, v <= w
    PROVE  LevelOf(Percent(v)) <= LevelOf(Percent(w))
<1>1. ((v + 6400) * 100) \div 7936 <= ((w + 6400) * 100) \div 7936
  BY DEF Announced, VolumeMin, VolumeMax
<1>2. Percent(v) \in 0..255 /\ Percent(w) \in 0..255 /\ Percent(v) <= Percent(w)
  BY <1>1, PercentOfAnnounced
<1> QED
  BY <1>2, LevelOfMonotone
-----------------------------------------------------------------------------
(***************************************************************************)
(* The inductive invariant: CodecAgrees speaks of the setting, SpeakerStart*)
(* writes the codec from the description.  They are the same between two   *)
(* requests.                                                               *)
(***************************************************************************)
Described == description = setting

SettingType == setting \in [mute : Byte, volume : Short]

CodecType == codec \in [muted : BOOLEAN, level : 0..63]

ControlsInv == SettingType /\ CodecType /\ Described /\ CodecAgrees

LEMMA ShortIsInt == Short \subseteq Int
  BY DEF Short

LEMMA LevelIsSmall ==
    ASSUME NEW v \in Short
    PROVE  Percent(v) \in 0..255 /\ LevelOf(Percent(v)) \in 0..63
<1>1. v \in Int
  BY ShortIsInt
<1>2. VolumeMin \in Int /\ VolumeMax - VolumeMin = 7936
  BY DEF VolumeMin, VolumeMax
<1>3. v - VolumeMin \in Int
  BY <1>1, <1>2
<1>4. Scaled(v) \in Int
  BY <1>3 DEF Scaled
<1>5. Percent(v) \in 0..255
  <2> DEFINE quotient == IF Scaled(v) >= 0 THEN Scaled(v) \div 7936 ELSE -((-Scaled(v)) \div 7936)
  <2>1. Scaled(v) \div 7936 \in Int /\ (-Scaled(v)) \div 7936 \in Int
    BY <1>4
  <2>2. quotient \in Int
    BY <2>1
  <2>3. Percent(v) = quotient % 256
    BY <1>2 DEF Percent
  <2> HIDE DEF quotient
  <2>4. quotient % 256 \in 0..255
    BY <2>2
  <2> QED
    BY <2>3, <2>4
<1>6. ASSUME NEW p \in 0..255 PROVE LevelOf(p) \in 0..63
  <2>1. CASE p > 100
    BY <2>1 DEF LevelOf, Converted
  <2>2. CASE p <= 100
    <3>1. (p * 63) \div 100 \in 0..63
      BY <2>2
    <3> QED
      BY <2>2, <3>1 DEF LevelOf, Converted
  <2> QED
    BY <2>1, <2>2
<1> QED
  BY <1>5, <1>6

(***************************************************************************)
(* Writing the volume leaves the codec silent only if it is 0%, and at the *)
(* level of the volume otherwise.                                          *)
(***************************************************************************)
LEMMA SetVolumeWrites ==
    ASSUME NEW c \in [muted : BOOLEAN, level : 0..63], NEW v \in Short
    PROVE  LET d == CodecSetVolume(c, Percent(v))
           IN  /\ d \in [muted : BOOLEAN, level : 0..63]
               /\ d.muted => Percent(v) = 0
               /\ Percent(v) # 0 => d.level = LevelOf(Percent(v))
  BY LevelIsSmall DEF CodecSetVolume

LEMMA InitControls == ControlsInit => ControlsInv
<1> SUFFICES ASSUME ControlsInit PROVE ControlsInv
  OBVIOUS
<1>1. SettingType /\ Described
  BY DEF ControlsInit, SettingType, Described, Byte, Short, VolumeDefault
<1>2. CodecType
  BY DEF ControlsInit, CodecType, LevelOf, Converted
<1>3. SilentOnlyIfAsked
  BY DEF ControlsInit, SilentOnlyIfAsked
<1>4. LevelIsSetting
  BY DEF ControlsInit, LevelIsSetting
<1> QED
  BY <1>1, <1>2, <1>3, <1>4 DEF ControlsInv, CodecAgrees

(***************************************************************************)
(* What a request may ask: a new mute, a new volume, or nothing new.       *)
(***************************************************************************)
Asks(new, what) ==
    \/ what = "mute" /\ \E m \in Byte : new = [setting EXCEPT !.mute = m]
    \/ what = "volume" /\ \E v \in Short : new = [setting EXCEPT !.volume = v]
    \/ what = "nothing" /\ new = setting

\* A request leaves the codec as the setting demands.
LEMMA ProcessControls ==
    ASSUME ControlsInv, NEW new, NEW what, Asks(new, what), Process(new, what)
    PROVE  ControlsInv'
<1>1. /\ setting' = new /\ speaker' = speaker
      /\ changed' = IF new = setting THEN "nothing" ELSE what
      /\ CarriedOut
  BY DEF Process, Noted
<1>2. /\ setting \in [mute : Byte, volume : Short]
      /\ codec \in [muted : BOOLEAN, level : 0..63]
      /\ description = setting
      /\ SilentOnlyIfAsked /\ LevelIsSetting
  BY DEF ControlsInv, SettingType, CodecType, Described, CodecAgrees
<1>3. CASE new = setting
  <2>1. UNCHANGED <<setting, speaker, description, codec>>
    BY <1>1, <1>3 DEF CarriedOut
  <2> QED
    BY <2>1 DEF ControlsInv, SettingType, CodecType, Described, CodecAgrees,
                SilentOnlyIfAsked, LevelIsSetting
<1>4. CASE new # setting /\ what = "mute"
  <2>1. PICK m \in Byte : new = [setting EXCEPT !.mute = m]
    BY <1>4 DEF Asks
  <2>2. /\ setting' = [mute |-> m, volume |-> setting.volume]
        /\ setting'.mute = m /\ setting'.volume = setting.volume
    BY <1>1, <1>2, <2>1
  <2>3. changed' = "mute"
    BY <1>1, <1>4
  <2>4. /\ description' = [description EXCEPT !.mute = m]
        /\ codec' = CodecSetMute(codec, description'.mute)
    BY <1>1, <2>2, <2>3 DEF CarriedOut
  <2>5. description' = setting' /\ description'.mute = m
    BY <1>1, <1>2, <2>1, <2>2, <2>4
  <2>6. /\ codec' \in [muted : BOOLEAN, level : 0..63]
        /\ codec'.muted = (m = 1) /\ codec'.level = codec.level
    BY <1>2, <2>4, <2>5 DEF CodecSetMute
  <2>7. SettingType' /\ CodecType' /\ Described'
    BY <1>2, <2>2, <2>5, <2>6 DEF SettingType, CodecType, Described
  <2>8. SilentOnlyIfAsked'
    BY <2>2, <2>6 DEF SilentOnlyIfAsked
  <2>9. LevelIsSetting'
    BY <1>1, <1>2, <2>2, <2>6 DEF LevelIsSetting
  <2> QED
    BY <2>7, <2>8, <2>9 DEF ControlsInv, CodecAgrees
<1>5. CASE new # setting /\ what = "volume"
  <2>1. PICK v \in Short : new = [setting EXCEPT !.volume = v]
    BY <1>5 DEF Asks
  <2>2. /\ setting' = [mute |-> setting.mute, volume |-> v]
        /\ setting'.volume = v
    BY <1>1, <1>2, <2>1
  <2>3. changed' = "volume"
    BY <1>1, <1>5
  <2>4. /\ description' = [description EXCEPT !.volume = v]
        /\ codec' = CodecSetVolume(codec, Percent(description'.volume))
    BY <1>1, <2>2, <2>3 DEF CarriedOut
  <2>5. description' = setting' /\ description'.volume = v
    BY <1>1, <1>2, <2>1, <2>2, <2>4
  <2>6. /\ codec' \in [muted : BOOLEAN, level : 0..63]
        /\ codec'.muted => Percent(v) = 0
        /\ Percent(v) # 0 => codec'.level = LevelOf(Percent(v))
    BY <1>2, <2>4, <2>5, SetVolumeWrites
  <2>7. SettingType' /\ CodecType' /\ Described'
    BY <1>2, <2>2, <2>5, <2>6 DEF SettingType, CodecType, Described
  <2>8. SilentOnlyIfAsked' /\ LevelIsSetting'
    BY <2>2, <2>6 DEF SilentOnlyIfAsked, LevelIsSetting
  <2> QED
    BY <2>7, <2>8 DEF ControlsInv, CodecAgrees
<1> QED
  BY <1>3, <1>4, <1>5 DEF Asks

\* So does a start, which writes the mute and then the volume.
LEMMA StartControls == ControlsInv /\ SpeakerStart => ControlsInv'
<1> SUFFICES ASSUME ControlsInv, SpeakerStart PROVE ControlsInv'
  OBVIOUS
<1> DEFINE c == CodecSetMute(codec, description.mute)
<1>1. /\ setting \in [mute : Byte, volume : Short]
      /\ codec \in [muted : BOOLEAN, level : 0..63]
      /\ description = setting
  BY DEF ControlsInv, SettingType, CodecType, Described
<1>2. setting' = setting /\ description' = description
  BY DEF SpeakerStart
<1>3. codec' = CodecSetVolume(c, Percent(setting.volume))
  BY <1>1 DEF SpeakerStart
<1>4. c \in [muted : BOOLEAN, level : 0..63] /\ setting.volume \in Short
  BY <1>1 DEF CodecSetMute
<1> HIDE DEF c
<1>5. /\ codec' \in [muted : BOOLEAN, level : 0..63]
      /\ codec'.muted => Percent(setting.volume) = 0
      /\ Percent(setting.volume) # 0 => codec'.level = LevelOf(Percent(setting.volume))
  BY <1>3, <1>4, SetVolumeWrites
<1>6. SettingType' /\ CodecType' /\ Described'
  BY <1>1, <1>2, <1>5 DEF SettingType, CodecType, Described
<1>7. SilentOnlyIfAsked' /\ LevelIsSetting'
  BY <1>2, <1>5 DEF SilentOnlyIfAsked, LevelIsSetting
<1> QED
  BY <1>6, <1>7 DEF ControlsInv, CodecAgrees

LEMMA NextControls == ControlsInv /\ [ControlsNext]_allVars => ControlsInv'
<1> SUFFICES ASSUME ControlsInv, [ControlsNext]_allVars PROVE ControlsInv'
  OBVIOUS
<1>1. ASSUME UNCHANGED <<setting, description, codec, speaker>> PROVE ControlsInv'
  BY <1>1 DEF ControlsInv, SettingType, CodecType, Described, CodecAgrees,
              SilentOnlyIfAsked, LevelIsSetting
<1>2. CASE DeviceStep
  BY <1>1, <1>2 DEF DeviceStep, controlVars
<1>3. CASE ClassRequest \/ UseNull
  BY <1>1, <1>3 DEF ClassRequest, UseNull, controlVars
<1>4. ASSUME NEW m \in MuteValues, SetMute(m) PROVE ControlsInv'
  <2>1. Asks([setting EXCEPT !.mute = m], "mute")
    BY MuteValuesAssumption DEF Asks
  <2> QED
    BY <1>4, <2>1, ProcessControls DEF SetMute
<1>5. ASSUME NEW v \in Volumes, SetVolume(v) PROVE ControlsInv'
  <2>1. Asks([setting EXCEPT !.volume = v], "volume")
    BY VolumesAssumption DEF Asks
  <2> QED
    BY <1>5, <2>1, ProcessControls DEF SetVolume
<1>6. CASE GetControl
  <2>1. Asks(setting, "nothing")
    BY DEF Asks
  <2> QED
    BY <1>6, <2>1, ProcessControls DEF GetControl
<1>7. CASE Unsupported
  BY <1>1, <1>7 DEF Unsupported
<1>8. CASE SpeakerStart
  BY <1>8, StartControls
<1>9. CASE Halted \/ UNCHANGED allVars
  BY <1>1, <1>9 DEF Halted, allVars, controlVars
<1> QED
  BY <1>2, <1>3, <1>4, <1>5, <1>6, <1>7, <1>8, <1>9 DEF ControlsNext

(* The codec agrees with what the host reads back: it is silent only if    *)
(* asked, and at the level of the setting, after any sequence of requests, *)
(* starts and resets (ux_device_audio.c:131, ux_device_audio_play.c:471).  *)
THEOREM CodecAlwaysAgrees == ControlsSpec => []CodecAgrees
<1>1. ControlsInv => CodecAgrees
  BY DEF ControlsInv
<1> QED
  BY InitControls, NextControls, <1>1, PTL DEF ControlsSpec
-----------------------------------------------------------------------------
(* A request that changes nothing writes nothing to the codec: the change  *)
(* an earlier request noted is not carried out again.                      *)
THEOREM OnlyChangesAreEverHeard == ControlsSpec => OnlyChangesAreHeard
<1> DEFINE A == codec' = codec \/ setting' # setting \/ SpeakerStart
<1>1. ASSUME NEW new, NEW what, Process(new, what) PROVE A
  <2>1. CASE new = setting
    <3>1. changed' = "nothing"
      BY <1>1, <2>1 DEF Process, Noted
    <3> QED
      BY <1>1, <3>1 DEF Process, CarriedOut
  <2>2. CASE new # setting
    BY <1>1, <2>2 DEF Process, Noted
  <2> QED
    BY <2>1, <2>2
<1>2. [ControlsNext]_allVars => [A]_allVars
  <2> SUFFICES ASSUME ControlsNext PROVE A
    BY DEF allVars, controlVars
  <2>1. CASE DeviceStep
    BY <2>1 DEF DeviceStep, controlVars
  <2>2. CASE ClassRequest \/ UseNull
    BY <2>2 DEF ClassRequest, UseNull, controlVars
  <2>3. ASSUME NEW m \in MuteValues, SetMute(m) PROVE A
    BY <1>1, <2>3 DEF SetMute
  <2>4. ASSUME NEW v \in Volumes, SetVolume(v) PROVE A
    BY <1>1, <2>4 DEF SetVolume
  <2>5. CASE GetControl
    BY <1>1, <2>5 DEF GetControl
  <2>6. CASE Unsupported
    BY <2>6 DEF Unsupported
  <2>7. CASE SpeakerStart
    BY <2>7
  <2>8. CASE Halted
    BY <2>8 DEF Halted, allVars, controlVars
  <2> QED
    BY <2>1, <2>2, <2>3, <2>4, <2>5, <2>6, <2>7, <2>8 DEF ControlsNext
<1> QED
  BY <1>2, PTL DEF ControlsSpec, OnlyChangesAreHeard
-----------------------------------------------------------------------------
(***************************************************************************)
(* The device under the application.                                       *)
(***************************************************************************)

\* A step of the whole is a step of the device, or none.
LEMMA DeviceOnly == [ControlsNext]_allVars => [Next]_vars
<1>1. DeviceStep => Next
  BY DEF DeviceStep, Next, Superloop
<1>2. ClassRequest \/ UseNull => UNCHANGED vars
  BY DEF ClassRequest, UseNull
<1>3. ASSUME NEW m, SetMute(m) PROVE UNCHANGED vars
  BY <1>3 DEF SetMute, Process
<1>4. ASSUME NEW v, SetVolume(v) PROVE UNCHANGED vars
  BY <1>4 DEF SetVolume, Process
<1>5. GetControl \/ Unsupported \/ SpeakerStart => UNCHANGED vars
  BY DEF GetControl, Process, Unsupported, SpeakerStart
<1>6. Halted \/ UNCHANGED allVars => UNCHANGED vars
  BY DEF Halted, allVars
<1> QED
  BY <1>1, <1>2, <1>3, <1>4, <1>5, <1>6 DEF ControlsNext

(* The application leaves the stack as it is: whatever the controls do,    *)
(* the device mounts and unmounts as it does without them, so that what is *)
(* proved of the device holds of the whole (of the stack ux_device_audio.c *)
(* keeps only a pointer, lines 78 and 99).                                 *)
THEOREM DeviceIsUnchanged == ControlsSpec => Spec
<1>1. ControlsInit => Init
  BY DEF ControlsInit
<1> QED
  BY <1>1, DeviceOnly, PTL DEF ControlsSpec, Spec

(***************************************************************************)
(* While an interface is in the chain, the application has its instance,   *)
(* but for the requests that take the chain apart.  A mounting that finds  *)
(* no slot free sets no instance; it finds none because an interrupted one *)
(* has mounted everything, which set it.                                   *)
(***************************************************************************)
InstanceInv == pc \notin Unmounting /\ ~ChainEmpty => instance

LEMMA InitInstance == ControlsInit => InstanceInv
  BY EmptySeq DEF ControlsInit, Init, InstanceInv, ChainEmpty

LEMMA NextInstance ==
    ASSUME DeviceInv, InstanceInv, [ControlsNext]_allVars
    PROVE  InstanceInv'
<1>1. ASSUME UNCHANGED <<pc, chain, instance>> PROVE InstanceInv'
  BY <1>1 DEF InstanceInv, ChainEmpty
<1>2. ASSUME UNCHANGED <<chain, instance>>, pc \notin Unmounting PROVE InstanceInv'
  BY <1>2 DEF InstanceInv, ChainEmpty
<1>3. ASSUME pc' \in Unmounting \/ ChainEmpty' PROVE InstanceInv'
  BY <1>3 DEF InstanceInv
<1>4. ASSUME Interrupt, instance' = Dropped(device_state = "CONFIGURED" /\ \E s \in InChain : slot[s].class)
      PROVE  InstanceInv'
  <2>1. CASE Configured
    <3>1. chain' = <<>>
      BY <1>4, <2>1 DEF Interrupt, BusReset, Unplug, IfConnected, Disconnected, Configured
    <3> QED
      BY <1>3, <3>1, EmptySeq DEF ChainEmpty
  <2>2. CASE ~Configured
    <3>1. chain' = chain /\ pc' = pc
      BY <1>4, <2>2
         DEF Interrupt, BusReset, Unplug, IfConnected, Disconnected, Configured, control
    <3>2. instance => instance'
      BY <1>4, <2>2 DEF Dropped, Configured
    <3> QED
      BY <3>1, <3>2 DEF InstanceInv, ChainEmpty
  <2> QED
    BY <2>1, <2>2
<1>5. ASSUME MountInterface, InstanceMounted PROVE InstanceInv'
  <2>1. CASE FreeSlots = {}
    <3>1. pc = "mount" /\ chain' = chain
      BY <1>5, <2>1 DEF MountInterface
    <3>2. instance => instance'
      BY <1>5, <2>1 DEF InstanceMounted
    <3> QED
      BY <3>1, <3>2 DEF InstanceInv, ChainEmpty, Unmounting
  <2>2. CASE FreeSlots # {}
    BY <1>5, <2>2 DEF InstanceMounted, InstanceInv
  <2> QED
    BY <2>1, <2>2
<1>6. ASSUME HostRequest, UNCHANGED instance PROVE InstanceInv'
  <2>1. pc = "idle" /\ chain' = chain
    BY <1>6 DEF HostRequest, SetConfiguration, SetInterface, Take, stack
  <2> QED
    BY <1>2, <1>6, <2>1 DEF Unmounting
<1>7. ASSUME DeactivateClass \/ FreeEndpoints \/ UnlinkInterface PROVE InstanceInv'
  <2>1. pc' \in Unmounting
    BY <1>7 DEF DeactivateClass, FreeEndpoints, UnlinkInterface, Unmounting
  <2> QED
    BY <1>3, <2>1
<1>8. ASSUME ClearInterface PROVE InstanceInv'
  <2>1. /\ pc = "clear" /\ chain' = chain
        /\ pc' = IF next_interface = None THEN "detach" ELSE "deactivate"
    BY <1>8 DEF ClearInterface
  <2>2. CASE next_interface = None
    <3>1. cursor \in Slots /\ IF Configured THEN ChainFrom(cursor + 1) ELSE ChainEmpty
      BY <2>1 DEF DeviceInv, ChainInv
    <3>2. Configured => cursor = Streams
      <4>1. Configured => next_interface = IF cursor = Streams THEN None ELSE cursor + 1
        BY <2>1 DEF DeviceInv, ChainInv
      <4>2. cursor + 1 # None
        BY <3>1 DEF Slots, None
      <4> QED
        BY <2>2, <4>1, <4>2
    <3>3. ChainEmpty
      BY <3>1, <3>2, StreamsAssumption DEF ChainFrom, ChainEmpty
    <3> QED
      BY <1>3, <2>1, <3>3 DEF ChainEmpty
  <2>3. CASE next_interface # None
    BY <1>3, <2>1, <2>3 DEF Unmounting
  <2> QED
    BY <2>2, <2>3
<1>9. ASSUME Detach \/ Select \/ Configure \/ Dismount \/ OpenEndpoint \/ Change,
             UNCHANGED instance
      PROVE  InstanceInv'
  <2>1. pc \in {"detach", "select", "configured", "dismount", "open", "change"} /\ chain' = chain
    BY <1>9 DEF Detach, Select, Configure, Dismount, OpenEndpoint, Change
  <2> QED
    BY <1>2, <1>9, <2>1 DEF Unmounting
<1>10. CASE DeviceStep
  <2>1. CASE /\ Interrupt
             /\ instance' = Dropped(device_state = "CONFIGURED" /\ \E s \in InChain : slot[s].class)
    BY <1>4, <2>1
  <2>2. CASE MountInterface /\ InstanceMounted
    BY <1>5, <2>2
  <2>3. CASE DeactivateClass \/ FreeEndpoints \/ UnlinkInterface
    BY <1>7, <2>3
  <2>4. CASE ClearInterface
    BY <1>8, <2>4
  <2>5. CASE HostRequest /\ UNCHANGED instance
    BY <1>6, <2>5
  <2>6. CASE /\ Detach \/ Select \/ Configure \/ Dismount \/ OpenEndpoint \/ Change
             /\ UNCHANGED instance
    BY <1>9, <2>6
  <2> QED
    BY <1>10, <2>1, <2>2, <2>3, <2>4, <2>5, <2>6 DEF DeviceStep
<1>11. ASSUME UNCHANGED vars, UNCHANGED instance PROVE InstanceInv'
  BY <1>1, <1>11 DEF vars, stack, control
<1>12. CASE ClassRequest \/ UseNull \/ SpeakerStart \/ Unsupported
  BY <1>11, <1>12 DEF ClassRequest, UseNull, SpeakerStart, Unsupported, routeVars
<1>13. ASSUME NEW new, NEW what, Process(new, what) PROVE InstanceInv'
  BY <1>11, <1>13 DEF Process
<1>14. CASE Halted \/ UNCHANGED allVars
  BY <1>11, <1>14 DEF Halted, allVars, routeVars
<1> QED
  BY <1>10, <1>12, <1>13, <1>14 DEF ControlsNext, SetMute, SetVolume, GetControl

(* A host that was told that configuration 1 is selected has its controls  *)
(* answered: the pointer of ux_device_audio.c:127 is not NULL, whatever    *)
(* resets struck whatever requests half way.                               *)
THEOREM ControlsAlwaysServed == ControlsSpec => []ControlsServed
<1>1. ControlsInit => DeviceInv /\ InstanceInv
  BY DeviceInit, InitInstance DEF ControlsInit
<1>2. DeviceInv /\ InstanceInv /\ [ControlsNext]_allVars => DeviceInv' /\ InstanceInv'
  BY DeviceOnly, ConfigurationStep, NextInstance
<1>3. DeviceInv /\ InstanceInv => ControlsServed
  <2> SUFFICES ASSUME DeviceInv, InstanceInv, pc = "idle", hostSelected = 1
               PROVE  instance
    BY DEF ControlsServed
  <2>1. Len(chain) = Streams + 1
    BY InvServes DEF AnsweredIsServed
  <2>2. ~ChainEmpty
    BY <2>1, StreamsAssumption DEF ChainEmpty
  <2> QED
    BY <2>2 DEF InstanceInv, Unmounting
<1> QED
  BY <1>1, <1>2, <1>3, PTL DEF ControlsSpec
-----------------------------------------------------------------------------
(* What the other invariants do not say of the types. *)
RouteType ==
    /\ changed \in {"nothing", "mute", "volume"}
    /\ speaker \in {"INITIALIZED", "STARTED"}
    /\ instance \in BOOLEAN
    /\ routed \in BOOLEAN
    /\ dispatched \in BOOLEAN
    /\ faulted \in BOOLEAN

LEMMA NextRoute ==
    ASSUME RouteType, [ControlsNext]_allVars
    PROVE  RouteType'
<1>1. ASSUME NEW new, NEW what \in {"nothing", "mute", "volume"}, Process(new, what)
      PROVE  RouteType'
  BY <1>1 DEF Process, Noted, RouteType
<1>2. ASSUME NEW m, SetMute(m) PROVE RouteType'
  BY <1>1, <1>2 DEF SetMute
<1>3. ASSUME NEW v, SetVolume(v) PROVE RouteType'
  BY <1>1, <1>3 DEF SetVolume
<1>4. CASE GetControl
  BY <1>1, <1>4 DEF GetControl
<1>5. CASE DeviceStep
  <2>1. UNCHANGED <<changed, speaker, dispatched, faulted>>
    BY <1>5 DEF DeviceStep, controlVars
  <2>2. routed' \in BOOLEAN
    BY <1>5 DEF DeviceStep, RouteType
  <2>3. instance' \in BOOLEAN
    BY <1>5 DEF DeviceStep, Dropped, InstanceMounted, RouteType
  <2> QED
    BY <2>1, <2>2, <2>3 DEF RouteType
<1>6. CASE ClassRequest \/ UseNull \/ Unsupported \/ SpeakerStart
  BY <1>6 DEF ClassRequest, UseNull, Unsupported, SpeakerStart, RouteType, controlVars, routeVars
<1>7. CASE Halted \/ UNCHANGED allVars
  BY <1>7 DEF Halted, allVars, RouteType, controlVars, routeVars
<1> QED
  BY <1>2, <1>3, <1>4, <1>5, <1>6, <1>7 DEF ControlsNext

(***************************************************************************)
(* Every variable of the device and of the application stays in its range: *)
(* the level of the codec in its six bits, for every volume a host sends.  *)
(***************************************************************************)
THEOREM ControlsTypes == ControlsSpec => []ControlsTypeOK
<1>1. ControlsInit => DeviceInv /\ ControlsInv /\ RouteType
  BY DeviceInit, InitControls DEF ControlsInit, RouteType
<1>2. DeviceInv /\ ControlsInv /\ RouteType /\ [ControlsNext]_allVars
      => DeviceInv' /\ ControlsInv' /\ RouteType'
  BY DeviceOnly, ConfigurationStep, NextControls, NextRoute
<1>3. DeviceInv /\ ControlsInv /\ RouteType => ControlsTypeOK
  BY DEF DeviceInv, ControlsInv, SettingType, CodecType, Described, RouteType, ControlsTypeOK
<1> QED
  BY <1>1, <1>2, <1>3, PTL DEF ControlsSpec
=============================================================================
