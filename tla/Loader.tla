-------------------------------- MODULE Loader --------------------------------
(***************************************************************************)
(* The boot loader (bootloader/main.c): the stages that load the kernel,   *)
(* and the attempts to leave the firmware's boot services with a memory    *)
(* map that is still current.  The firmware numbers the states of its      *)
(* memory map; its timers and drivers may change it at any time until the  *)
(* services are left, and so does each call that allocates or frees.       *)
(***************************************************************************)
EXTENDS Naturals, FiniteSets

CONSTANTS
  MaxExitAttempts,     (* 5                                                *)
  RING_SEGMENTS,       (* the stages: 4                                    *)
  Slack,               (* descriptors asked for beyond those there are: 8  *)
  MaxChanges           (* bound: changes the firmware makes by itself      *)

LoaderConstants ==
  /\ MaxExitAttempts \in Nat \ {0} /\ RING_SEGMENTS \in Nat \ {0}
  /\ Slack \in Nat /\ MaxChanges \in Nat

VARIABLES
  pc,
  Stage, Attempt,
  KernelLoaded,        (* the kernel is at KERNEL_LOAD_ADDRESS             *)
  MemMapSize,          (* in descriptors: the buffer's, then the map's     *)
  MemMap, MapKey,      (* the map in the buffer, and its key               *)
  Status,              (* of the last call                                 *)
  \* the firmware
  current,             (* the state of its memory map                      *)
  descriptors,         (* how many descriptors that has                    *)
  services,            (* boot services may still be called                *)
  changes

firmware == <<current, descriptors, changes>>
loader == <<Stage, Attempt, KernelLoaded, MemMapSize, MemMap, MapKey, Status>>
vars == <<pc, loader, firmware, services>>

Init ==
  /\ pc = "stages" /\ Stage = 0 /\ Attempt = 0 /\ KernelLoaded = FALSE
  /\ MemMapSize = 0 /\ MemMap = 0 /\ MapKey = 0 /\ Status = "success"
  /\ current = 1 /\ descriptors = 1 /\ changes = 0 /\ services = TRUE

(* A call that allocates or frees may split a region or not.               *)
Changed == current' = current + 1 /\ descriptors' \in {descriptors, descriptors + 1}

Halted == pc' = "hang"

------------------------------------------------------------------------------
(* RunStage and the loop around it: the loaded image, the root directory,  *)
(* the kernel's file, and last the kernel itself.                          *)

RunStage ==
  /\ pc = "stages" /\ Stage < RING_SEGMENTS
  /\ \/ Stage' = Stage + 1 /\ KernelLoaded' = (Stage' = RING_SEGMENTS) /\ UNCHANGED pc
     \/ Halted /\ UNCHANGED <<Stage, KernelLoaded>>
  /\ Changed
  /\ UNCHANGED <<Attempt, MemMapSize, MemMap, MapKey, Status, services, changes>>

StagesComplete ==
  /\ pc = "stages" /\ Stage = RING_SEGMENTS
  /\ pc' = "size"
  /\ UNCHANGED <<loader, firmware, services>>

(* for (Attempt = 0; Attempt < MaxExitAttempts; Attempt++)                 *)
NextAttempt == Attempt' = Attempt + 1 /\ pc' = (IF Attempt + 1 < MaxExitAttempts THEN "size" ELSE "exited")

(* How large the map is: the call is made with no room, and its status is  *)
(* not looked at.                                                          *)
GetMapSize ==
  /\ pc = "size"
  /\ MemMapSize' = descriptors + Slack
  /\ Status' = "small"
  /\ pc' = "allocate"
  /\ UNCHANGED <<Stage, Attempt, KernelLoaded, MemMap, MapKey, firmware, services>>

(* The buffer of the attempt before is freed, and a new one allocated.     *)
AllocatePool ==
  /\ pc = "allocate"
  /\ \/ Status' = "success" /\ pc' = "map"
     \/ Status' = "error" /\ Halted
  /\ MemMap' = 0
  /\ Changed
  /\ UNCHANGED <<Stage, Attempt, KernelLoaded, MemMapSize, MapKey, services, changes>>

(* The map may have outgrown the room, or the call fail.                   *)
GetMemoryMap ==
  /\ pc = "map"
  /\ \/ /\ descriptors <= MemMapSize
        /\ MemMapSize' = descriptors /\ MemMap' = current /\ MapKey' = current
        /\ Status' = "success" /\ pc' = "exit"
        /\ UNCHANGED Attempt
     \/ /\ Status' = "error" /\ NextAttempt
        /\ UNCHANGED <<MemMapSize, MemMap, MapKey>>
  /\ UNCHANGED <<Stage, KernelLoaded, firmware, services>>

(* The firmware refuses a key that is not current.                         *)
ExitBootServices ==
  /\ pc = "exit"
  /\ \/ /\ MapKey = current
        /\ services' = FALSE /\ Status' = "success" /\ pc' = "exited" /\ UNCHANGED Attempt
     \/ MapKey # current /\ Status' = "error" /\ NextAttempt /\ UNCHANGED services
  /\ UNCHANGED <<Stage, KernelLoaded, MemMapSize, MemMap, MapKey, firmware>>

(* Mutant of KernelMain: however the attempts ended.                       *)
KernelMainAnyway ==
  /\ pc = "exited"
  /\ pc' = "kernel"
  /\ UNCHANGED <<loader, firmware, services>>

(* The kernel, if the last call succeeded.                                 *)
KernelMain ==
  /\ pc = "exited"
  /\ pc' = IF Status = "success" THEN "kernel" ELSE "hang"
  /\ UNCHANGED <<loader, firmware, services>>

(* The firmware's own doing.                                               *)
MapChanges ==
  /\ services /\ pc # "hang" /\ changes < MaxChanges
  /\ changes' = changes + 1 /\ Changed
  /\ UNCHANGED <<pc, loader, services>>

Steps ==
  \/ RunStage \/ StagesComplete
  \/ GetMapSize \/ AllocatePool \/ GetMemoryMap \/ ExitBootServices \/ KernelMain

Next == Steps \/ MapChanges

Spec == Init /\ [][Next]_vars

------------------------------------------------------------------------------

TypeOK ==
  /\ pc \in {"stages", "size", "allocate", "map", "exit", "exited", "kernel", "hang"}
  /\ Stage \in 0..RING_SEGMENTS /\ Attempt \in 0..MaxExitAttempts
  /\ MemMapSize \in Nat /\ MapKey \in 0..current /\ MemMap \in 0..current
  /\ Status \in {"success", "small", "error"}
  /\ changes \in 0..MaxChanges

(* The kernel runs only when it is loaded and the firmware has let go of   *)
(* the machine, and the map it is handed is whole and that of this moment: *)
(* it tells of every page, the map's own buffer among them, however often  *)
(* the map changed under the attempts.  A loader that hangs still has the  *)
(* firmware below it.                                                      *)
KernelOwnsMachine ==
  /\ pc = "hang" => services
  /\ pc = "kernel" =>
       /\ KernelLoaded /\ ~services
       /\ MemMap = current /\ MemMapSize = descriptors
==============================================================================
