------------------------------ MODULE Storage ------------------------------
(***************************************************************************)
(* The storage of the firmware: littlefs, the NOR flash, the FAT file      *)
(* system and the SD card.  Each has state of its own, so that what one of *)
(* them does cannot break a property of another: in a behaviour only one   *)
(* of the four moves.                                                      *)
(***************************************************************************)
EXTENDS LittleFs, NorFlash, FatFs, SdCard

VARIABLE part   \* the one that moves

storageVars == <<part, lfsVars, norVars, fatVars, sdVars>>

Init == /\ part \in {"littlefs", "nor", "fat", "sd"}
        /\ LfsInit /\ NorInit /\ FatInit /\ SdInit
        /\ part = "littlefs" \/ disk = "blank"
        /\ part = "fat" \/ ~medium
        /\ part = "sd" \/ ready

Next == \/ part = "littlefs" /\ LfsNext /\ UNCHANGED <<part, norVars, fatVars, sdVars>>
        \/ part = "nor" /\ NorNext /\ UNCHANGED <<part, lfsVars, fatVars, sdVars>>
        \/ part = "fat" /\ FatNext /\ UNCHANGED <<part, lfsVars, norVars, sdVars>>
        \/ part = "sd" /\ SdNext /\ UNCHANGED <<part, lfsVars, norVars, fatVars>>

Spec == Init /\ [][Next]_storageVars /\ NorFairness /\ SdFairness

(* The variables of the four have their types. *)
StorageTypeOK == LfsTypeOK /\ NorTypeOK /\ FatTypeOK /\ SdTypeOK

(* Both file systems: while nothing runs, the flag that says mounted tells *)
(* the truth.                                                              *)
FlagsTellTruth == FlagTellsTruth /\ VolumeBehindFlag

(* Every call of the two drivers comes back: of the flash driver, whose    *)
(* polls have no bound, while no other is in it; of the SD card driver,    *)
(* whose waits all have one, at any time.                                  *)
CallsComeBack == LoneCallsReturn /\ CallsReturn
=============================================================================
