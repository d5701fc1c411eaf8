------------------------------ MODULE MCFsBoot ------------------------------
(* The disks for which module FsBoot is checked.  With the sizes of         *)
(* FsBoot.cfg the metadata of a partition of 74 or 75 sectors takes 8 or 9  *)
(* of them, and every root directory goes to sector 10 of its disk.         *)
EXTENDS FsBoot, TLC

Area(start, cnt) == [start |-> start, cnt |-> cnt]
Logic(ebr, start, cnt) == [ebr |-> ebr, start |-> start, cnt |-> cnt]

Disk(prims, at, ext, logics) == [prims |-> prims, at |-> at, ext |-> ext, logics |-> logics]

\* The root directories lie in the gap before the first partition.  sdb has more
\* logical partitions than are kept, and sdd an extended partition after sdb's.
Gap ==
    0 :> Disk(<< Area(12, 75), Area(90, 74) >>, 3, 170,
              << Logic(0, 1, 75), Logic(80, 1, 74), Logic(160, 2, 75) >>)
    @@ 1 :> Disk(<< Area(12, 75) >>, 2, 100, << Logic(0, 1, 74) >>)

\* A first partition that starts right after the table: the root directories of all
\* partitions of sdb are its first data sector.  Only sdd has an extended partition,
\* as its table's first entry.
Close ==
    0 :> Disk(<< Area(1, 74), Area(80, 75) >>, 0, 0, << >>)
    @@ 1 :> Disk(<< Area(90, 75) >>, 1, 200, << Logic(0, 1, 75), Logic(80, 1, 75) >>)

\* As many primary partitions as a table has entries.
Full == 0 :> Disk([i \in 1 .. 4 |-> Area(80 * i, 75)], 0, 0, << >>)

\* No primary partition, so no sdb1.
NoPrimary == 0 :> Disk(<< >>, 1, 20, << Logic(0, 1, 75) >>)

Disks == {Gap, Close, Full, NoPrimary}
=============================================================================
