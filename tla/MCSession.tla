----------------------------- MODULE MCSession -----------------------------
(* Sessions with two readers of one model listed, and others to exchange:  *)
(* other disks, and other cards in the first reader.                       *)
EXTENDS Session

Disk(name, serial, layout) ==
  [model |-> name, serial |-> serial, layout |-> layout]

Known   == Disk("reader", "s1", "recognized")
Unknown == Disk("reader", "s2", "unknown")
Spare   == Disk("reader", "s3", "recognized")
Other   == Disk("other", "s4", "recognized")

UnknownCard == Disk("reader", "s1", "unknown")
ForeignCard == Disk("reader", "s1", "unsupported")

AllDisks == {Known, Unknown, Spare, Other, UnknownCard, ForeignCard}
TwoReaders == <<Known, Unknown>>
Typed == {"reader", "other"}

\* A name with each kind of extension, and none at all.
OutputNames == {Empty, Name("n", "none"), Name("n", "xz"), Name("n", "raw")}
=============================================================================
