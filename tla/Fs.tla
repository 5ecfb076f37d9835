---------------------------------- MODULE Fs ----------------------------------
(***************************************************************************)
(* fs.c: volumes that are mounted as partitions turn up, paths, and the    *)
(* current directory, which is kept as a text and is looked up again by    *)
(* every relative path.                                                    *)
(*                                                                         *)
(* A path is a sequence of names, "." and ".."; letter case and which of   *)
(* the slashes is used are left out.  A directory or file is known by the  *)
(* names that lead to it from the root of its volume.                      *)
(***************************************************************************)
EXTENDS Integers, Sequences, SequencesExt

CONSTANTS
  Dirs, Files,         (* of each partition that can be mounted            *)
  NameLength,          (* characters of each name                          *)
  Beginning,           (* a name's first k characters, as a name           *)
  Inputs,              (* paths that are typed: [volume, absolute, names]  *)
  MAX_COMPONENTS,      (* 128                                              *)
  FS_PATH_MAX,         (* 512                                              *)
  MAX_VOLUMES,         (* what the volume pages hold                       *)
  VOLUMES_PER_PAGE,    (* of them, in one page                             *)
  MaxParts             (* bound: partitions of one session                 *)

FsConstants ==
  /\ MAX_COMPONENTS \in Nat /\ FS_PATH_MAX \in Nat /\ MAX_VOLUMES \in Nat
  /\ VOLUMES_PER_PAGE \in Nat \ {0} /\ MaxParts \in Nat
  /\ \A p \in DOMAIN Dirs : <<>> \in Dirs[p] /\ Dirs[p] \cap Files[p] = {}
  /\ \A input \in Inputs : input.volume \in Nat

VARIABLES
  Parts,               (* partitions found: is each FAT32?                 *)
  PartCursor,
  Volumes,             (* the partition of each volume                     *)
  mounting,            (* in MountNewPartitions                            *)
  CwdVolume, CwdPathText,
  Status,              (* what FsChdir returned                            *)
  entered              (* history: the directory last entered              *)

cwd == <<CwdVolume, CwdPathText, Status, entered>>
vars == <<Parts, PartCursor, Volumes, mounting, cwd>>

Init ==
  /\ Parts = <<>> /\ PartCursor = 0 /\ Volumes = <<>> /\ mounting = FALSE
  /\ CwdVolume = -1 /\ CwdPathText = <<>>
  /\ Status = "none" /\ entered = [volume |-> -1, path |-> <<>>]

------------------------------------------------------------------------------
(* Mounting. *)

(* FsMountDevice: the scan of a drive has found some partitions. *)
FsMountDevice ==
  /\ ~mounting /\ mounting' = TRUE
  /\ \E fat32 \in BOOLEAN, count \in 0..2 :
       /\ Len(Parts) + count <= MaxParts
       /\ Parts' = Parts \o [k \in 1..count |-> fat32]
  /\ UNCHANGED <<PartCursor, Volumes, cwd>>

(* VolumeNext: the first volume of a page may find no memory for it. *)
MayHaveRoom == Len(Volumes) < MAX_VOLUMES
MayLackRoom == Len(Volumes) = MAX_VOLUMES \/ Len(Volumes) % VOLUMES_PER_PAGE = 0

Skipped(k) == ~Parts[k]

(* The loop breaks off behind the last partition or without a page; then   *)
(* the first volume becomes the current one.                               *)
MountDone ==
  /\ mounting' = FALSE
  /\ IF Volumes # <<>> /\ CwdVolume < 0
       THEN CwdVolume' = 1 /\ CwdPathText' = <<>> /\ entered' = [volume |-> 1, path |-> <<>>]
       ELSE UNCHANGED <<CwdVolume, CwdPathText, entered>>
  /\ UNCHANGED <<Parts, Volumes, Status>>

Mount(k) == Volumes' = Append(Volumes, k)

MountNewPartitions ==
  /\ mounting
  /\ \/ PartCursor = Len(Parts) /\ UNCHANGED PartCursor /\ MountDone
     \/ /\ PartCursor < Len(Parts) /\ PartCursor' = PartCursor + 1
        /\ LET k == PartCursor + 1
           IN  \/ /\ Skipped(k)
                  /\ UNCHANGED <<Parts, Volumes, mounting, cwd>>
               \/ /\ ~Skipped(k)
                  /\ \/ MayLackRoom /\ MountDone
                     \/ /\ MayHaveRoom
                        /\ \/ Mount(k)
                           \/ UNCHANGED Volumes   \* FatMount fails
                        /\ UNCHANGED <<Parts, mounting, cwd>>

------------------------------------------------------------------------------
(* Paths. *)

PushComponent(C, name) ==
  IF Len(C) >= MAX_COMPONENTS THEN C ELSE Append(C, name)

(* SplitInto, into the components C that there are. *)
SplitInto(C, names) ==
  FoldLeft(LAMBDA D, name :
             IF name = "." THEN D
             ELSE IF name = ".." THEN (IF D = <<>> THEN D ELSE Front(D))
             ELSE PushComponent(D, name), C, names)

ParseInput(input) ==
  [volume |-> IF input.volume # 0 THEN input.volume ELSE CwdVolume,
   components |-> IF input.volume # 0 \/ input.absolute THEN SplitInto(<<>>, input.names)
                  ELSE SplitInto(SplitInto(<<>>, CwdPathText), input.names)]

(* A volume named before a colon must be mounted; else there must be a     *)
(* current one.                                                            *)
HasVolume(input) == IF input.volume # 0 THEN input.volume <= Len(Volumes) ELSE CwdVolume > 0

There(v, path) == path \in Dirs[Volumes[v]] \cup Files[Volumes[v]]
IsDir(v, path) == path \in Dirs[Volumes[v]]

(* One more name for Node->Path: all of it, as much as fits, or none.      *)
PathText(text, name) ==
  IF text.length >= FS_PATH_MAX - 2 THEN text
  ELSE LET room == FS_PATH_MAX - 1 - (text.length + 1)
       IN  IF NameLength[name] <= room
             THEN [length |-> text.length + 1 + NameLength[name], names |-> Append(text.names, name)]
             ELSE [length |-> FS_PATH_MAX - 1, names |-> Append(text.names, Beginning[name][room])]

NoText == [length |-> 0, names |-> <<>>]

(* FsResolve's loop over the components. *)
Look(v, components) ==
  FoldLeft(LAMBDA node, name :
             IF node.status # "ok" THEN node
             ELSE IF ~IsDir(v, node.path) THEN [node EXCEPT !.status = "not a directory"]
             ELSE IF ~There(v, Append(node.path, name)) THEN [node EXCEPT !.status = "not found"]
             ELSE [node EXCEPT !.path = Append(@, name), !.text = PathText(@, name)],
           [status |-> "ok", path |-> <<>>, text |-> NoText], components)

FsResolve(input) ==
  LET P == ParseInput(input)
      node == Look(P.volume, P.components)
  IN  IF HasVolume(input)
        THEN [status |-> node.status, volume |-> P.volume, path |-> node.path, text |-> node.text]
      ELSE [status |-> "no volume", volume |-> 0, path |-> <<>>, text |-> NoText]

Enterable(node) == node.status = "ok" /\ IsDir(node.volume, node.path)

(* Mutant: the volume is left as it was. *)
EnterSameVolume(node) ==
  /\ CwdPathText' = node.text.names /\ UNCHANGED CwdVolume
  /\ entered' = [volume |-> node.volume, path |-> node.path]

Enter(node) ==
  /\ CwdPathText' = node.text.names /\ CwdVolume' = node.volume
  /\ entered' = [volume |-> node.volume, path |-> node.path]

(* A lookup may also fail because the drive cannot be read. *)
FsChdir(input) ==
  /\ ~mounting
  /\ LET node == FsResolve(input)
     IN  \/ Enterable(node) /\ Enter(node) /\ Status' = "ok"
         \/ Status' = "failed" /\ UNCHANGED <<CwdVolume, CwdPathText, entered>>
  /\ UNCHANGED <<Parts, PartCursor, Volumes, mounting>>

Next == FsMountDevice \/ MountNewPartitions \/ \E input \in Inputs : FsChdir(input)

Spec == Init /\ [][Next]_vars

------------------------------------------------------------------------------

TypeOK ==
  /\ PartCursor \in 0..Len(Parts)
  /\ \A v \in DOMAIN Volumes : Volumes[v] \in 1..PartCursor
  /\ mounting \in BOOLEAN /\ Status \in {"none", "ok", "failed"}
  /\ CwdVolume = -1 \/ CwdVolume \in DOMAIN Volumes
  /\ Len(Volumes) <= MAX_VOLUMES

(* Each volume is a FAT32 partition of its own. *)
VolumesDiffer ==
  /\ \A v \in DOMAIN Volumes : Parts[Volumes[v]]
  /\ \A v, w \in DOMAIN Volumes : v < w => Volumes[v] < Volumes[w]

(* What the shell and the explorer keep, a volume's index, stays good when *)
(* drives come, and so does the current directory.                         *)
IndexesStay ==
  [][/\ IsPrefix(Volumes, Volumes')
     /\ CwdVolume > 0 /\ mounting => UNCHANGED <<CwdVolume, CwdPathText>>]_vars

(* The text that is kept of the current directory leads back to the        *)
(* directory that was entered, on the same volume.                         *)
CwdIsEntered ==
  ~mounting /\ CwdVolume > 0 =>
    LET node == Look(CwdVolume, SplitInto(<<>>, CwdPathText))
    IN  node.status = "ok" /\ node.path = entered.path /\ CwdVolume = entered.volume

(* Walking the tree name by name, from a directory to its parent at "..".  *)
Walk(v, from, names) ==
  FoldLeft(LAMBDA node, name :
             IF ~node.ok \/ ~IsDir(v, node.path) THEN [node EXCEPT !.ok = FALSE]
             ELSE IF name = "." THEN node
             ELSE IF name = ".." THEN [node EXCEPT !.path = IF @ = <<>> THEN @ ELSE Front(@)]
             ELSE [ok |-> There(v, Append(node.path, name)), path |-> Append(node.path, name)],
           [ok |-> TRUE, path |-> from], names)

(* A path that leads somewhere step by step leads there through FsResolve  *)
(* as well, although that one handles the text and looks up afterwards.  A *)
(* path too deep for the table is left out: it loses names.                *)
ResolvesLikeTheTree ==
  \A input \in Inputs :
    ~mounting /\ HasVolume(input) =>
      LET v == IF input.volume # 0 THEN input.volume ELSE CwdVolume
          from == IF input.volume # 0 \/ input.absolute THEN <<>> ELSE entered.path
          walk == Walk(v, from, input.names)
          node == FsResolve(input)
      IN  walk.ok /\ Len(from) + Len(input.names) <= MAX_COMPONENTS
            => node.status = "ok" /\ node.path = walk.path /\ node.volume = v
==============================================================================
