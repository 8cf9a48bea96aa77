------------------------------ MODULE MCShrink ------------------------------
(***************************************************************************)
(* Small disks for ShrinkTransaction: a sector has 2 bytes, a KiB 4, an    *)
(* ext4 block 8, the image is aligned to 16 and the fixed margin is 24, so *)
(* that none divides a target by accident.                                 *)
(***************************************************************************)
EXTENDS ShrinkTransaction

Unused == [type |-> "empty", start |-> 0, sectors |-> 0, boot |-> FALSE]
Boot(start, sectors) ==
  [type |-> "fat", start |-> start, sectors |-> sectors, boot |-> TRUE]
Root(start, sectors) ==
  [type |-> "linux", start |-> start, sectors |-> sectors, boot |-> FALSE]
Ext4(number, start, bytes, minimum) ==
  [number |-> number, start |-> start, bytes |-> bytes, minimum |-> minimum,
   block |-> 8, checked |-> FALSE, service |-> "absent"]

\* The margin is 5% of the minimum, and the target is no whole KiB.
Large == [sectors |-> 420,
          table |-> <<Boot(2, 4), Root(8, 400), Unused>>,
          fs |-> Ext4(2, 8, 800, 600)]

\* The fixed margin applies; the root is the first entry.
RootFirst == [sectors |-> 100,
              table |-> <<Root(8, 60), Unused, Boot(2, 3)>>,
              fs |-> Ext4(1, 8, 120, 64)]

\* The target is capped by the current size, and the filesystem is smaller
\* than its partition.
Capped == [sectors |-> 80,
           table |-> <<Boot(2, 4), Root(8, 56), Unused>>,
           fs |-> Ext4(2, 8, 88, 72)]

\* Nearly full: the aligned end lies behind the end of the partition.
Full == [sectors |-> 60,
         table |-> <<Boot(2, 4), Root(8, 45), Unused>>,
         fs |-> Ext4(2, 8, 88, 80)]

\* The aligned image would be larger than the disk: no plan.
Tight == [sectors |-> 53,
          table |-> <<Boot(2, 4), Root(8, 45), Unused>>,
          fs |-> Ext4(2, 8, 88, 80)]

\* Another partition lies behind the root: not supported.
RootNotLast == [sectors |-> 100,
                table |-> <<Boot(2, 4), Root(8, 45), Boot(60, 5)>>,
                fs |-> Ext4(2, 8, 88, 40)]

AllDisks == {Large, RootFirst, Capped, Full, Tight, RootNotLast}
Shrinkable == {Large, RootFirst, Capped, Full}
=============================================================================
