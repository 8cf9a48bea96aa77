----------------------------- MODULE Discovery -----------------------------
(***************************************************************************)
(* Which disks the program offers, and when one of them is quiet: the      *)
(* decisions of discover_candidates, revalidate_identity and quiesce_disk  *)
(* on what lsblk and findmnt report.                                       *)
(*                                                                         *)
(* A disk is a record of what lsblk tells of it and its partitions:        *)
(*   path, kind, usb, sector, swap (some filesystem on it is swap), held   *)
(*   (device mapper or the like holds it), identity (model, serial, size). *)
(* A mount is a record of its target, the disk its source is on, and       *)
(* whether the source is written with a subtree, as /dev/sda2[/@].         *)
(***************************************************************************)
EXTENDS Integers, FiniteSets

\* The targets told apart, and where an output may be: at one of them.
Targets == {"/", "/boot", "/data"}

NoOutput == "none"

\* Path::starts_with: every path is below "/".
PathContains(target, output) ==
  output # NoOutput /\ (target = "/" \/ target = output)

\* findmnt prints a tree, in which every mount but "/" is a child of another;
\* the program reads the list at its top.
TopOfTree(mounts) == {m \in mounts : m.target = "/"}

\* Disks a listed mount excludes.  A source with a subtree is not the path of
\* a device, and excludes none.
InUse(mounts, output) ==
  {m.disk : m \in {n \in TopOfTree(mounts) :
                     /\ ~n.subtree
                     /\ \/ n.target \in {"/", "/boot"}
                        \/ PathContains(n.target, output)}}

Candidates(plugged, mounts, output) ==
  {d \in plugged : /\ d.kind = "disk" /\ d.usb /\ d.sector = 512
                   /\ ~d.swap
                   /\ d \notin InUse(mounts, output)}

\* The candidate at a path.  No two disks have the same path.
AtPath(disks, path) == {d \in disks : d.path = path}

\* Mutant: only the model is compared.
SameModel(selected, current) == selected.model = current.model

SameIdentity(selected, current) == selected = current

MountsOf(mounts, disk) == {m \in mounts : m.disk = disk}

\* What quiesce_disk cannot undo by unmounting.
Occupied(disk) == disk.swap \/ disk.held
=============================================================================
