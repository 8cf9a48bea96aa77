------------------------------ MODULE MCFlash ------------------------------
(* Flashes of images of two and three blocks to disks of two to four. *)
EXTENDS FlashRun

Identity(model, serial, size) ==
  [model |-> model, serial |-> serial, size |-> size]

Stick(serial, blocks, mounted) ==
  [path |-> Path, kind |-> "disk", usb |-> TRUE, sector |-> 512,
   swap |-> FALSE, held |-> FALSE, mounted |-> mounted,
   identity |-> Identity("reader", serial, Len(blocks)), blocks |-> blocks]

Old(n) == [i \in 1..n |-> "old"]

\* Two readers of one model, a smaller one, one of another model, and disks
\* the running system uses.
Reader      == Stick("s1", Old(4), {<<"/data", FALSE>>})
OtherReader == Stick("s2", Old(4), {})
SmallReader == Stick("s3", Old(2), {})
OtherModel  == [Stick("s4", Old(4), {}) EXCEPT !.identity.model = "other"]
HeldReader  == [Stick("s5", Old(4), {}) EXCEPT !.held = TRUE]
SwapReader  == [Stick("s6", Old(4), {}) EXCEPT !.swap = TRUE]
RootReader  == Stick("s7", Old(4), {<<"/", FALSE>>, <<"/data", FALSE>>})
TreeReader  == Stick("s0", Old(4), {<<"/", TRUE>>, <<"/data", FALSE>>})
BootReader  == Stick("s8", Old(4), {<<"/boot", FALSE>>})

Host == [Stick("s9", Old(4), {<<"/", FALSE>>})
           EXCEPT !.path = "nvme0n1", !.usb = FALSE]

Spares == {Reader, OtherReader, SmallReader, OtherModel, HeldReader,
           SwapReader, RootReader, TreeReader, Host}
WithBoot == {Host, RootReader, BootReader}

Unused == [type |-> "empty", start |-> 0, sectors |-> 0, boot |-> FALSE]
Root(sectors) ==
  [type |-> "linux", start |-> 1, sectors |-> sectors, boot |-> FALSE]

\* t1 and t2 hold a root of one and of two blocks, t3 one behind the end of
\* every image.
Tables == [t1 |-> <<Root(1), Unused>>, t2 |-> <<Root(2), Unused>>,
           t3 |-> <<Root(5), Unused>>]

Image(blocks, sound) == [blocks |-> blocks, sound |-> sound]
Short  == Image(<<"t1", "a">>, TRUE)
Long   == Image(<<"t2", "a", "b">>, TRUE)
Other  == Image(<<"t2", "a", "c">>, TRUE)
Cut    == Image(<<"t2", "a">>, FALSE)
Beyond == Image(<<"t3", "a", "b">>, TRUE)
Gpt    == Image(<<"t2", "efi", "b">>, TRUE)
Contents == {Short, Long, Other, Cut, Beyond, Gpt}

Describing(described, withHash) ==
  [matches |-> TRUE, raw |-> Len(described.blocks), compressed |-> described,
   hash |-> IF withHash THEN described.blocks ELSE NoHash,
   partitions |-> {<<1, "linux", 1, Len(described.blocks) - 1>>}]

Metadata == {NoSidecar, Describing(Long, TRUE), Describing(Long, FALSE),
             [Describing(Short, TRUE) EXCEPT !.partitions = {}],
             [Describing(Long, TRUE) EXCEPT !.matches = FALSE]}

Choices == [pre : {"none", "basic", "full"}, post : {"none", "full"},
            model : {"reader"}]
=============================================================================
