----------------------------- MODULE MCFatSound -----------------------------
(***************************************************************************)
(* The volume of MCFat, with what the theorems about the FAT driver assume *)
(* of a volume: TLC evaluates it before it checks what they conclude.      *)
(***************************************************************************)
EXTENDS MCFat, FatProofs

ASSUME VolumeIsSound == SoundVolume
=============================================================================
