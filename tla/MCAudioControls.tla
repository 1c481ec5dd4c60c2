---------------------------- MODULE MCAudioControls ----------------------------
(***************************************************************************)
(* Volumes for TLC: the default, the least that was announced, which is    *)
(* 0%, and one that was not announced, the least of all.                   *)
(***************************************************************************)
EXTENDS AudioControls

MCVolumes == {-32768, VolumeMin, VolumeDefault}
=============================================================================
