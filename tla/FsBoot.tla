-------------------------------- MODULE FsBoot --------------------------------
(***************************************************************************)
(* The boot of the file system: ide_init's scan of the partition tables    *)
(* (device/ide.c), filesys_init, partition_format and mount_partition      *)
(* (fs/fs.c), and the power cuts that may come at any time.  Main does all *)
(* of it alone, before any other thread uses a disk.                       *)
(*                                                                         *)
(* A channel's first disk is not looked at, so the disks are numbered by   *)
(* their channel: 0 is sdb, 1 is sdd; partition n of disk hd is << hd, n >>*)
(* and sdb1 is << 0, 1 >>.  A sector is written whole or not at all, and   *)
(* the sectors of an ide_write one after the other before it returns: that *)
(* a write of several sectors returns early, which Ide shows, is left out. *)
(***************************************************************************)
EXTENDS Layout, Sequences, FiniteSets

CONSTANTS
    Geometries,     \* how the disks may be partitioned, see partition_table
    PRIM_PARTS,     \* 4: primary partitions and entries of a partition table
    LOGIC_PARTS,    \* 8: logical partitions kept for a disk
    MaxCuts,        \* bound: power cuts
    MaxEntries,     \* bound: entries of the root directory
    NoMount

\* A disk: prims are its primary partitions, in the table's order; entry `at' (0: none)
\* is the extended one, at sector ext, with a table for each of logics; their `ebr'
\* counts from ext, their start from their table.  Where its partitions lie:
Areas(g) ==
    {[start_lba |-> g.prims[i].start, sector_counter |-> g.prims[i].cnt] : i \in 1 .. Len(g.prims)}
    \cup {[start_lba |-> g.ext + g.logics[i].ebr + g.logics[i].start,
           sector_counter |-> g.logics[i].cnt] : i \in 1 .. Len(g.logics)}

\* The boot block, the super block, the bitmaps and the inode table of a partition.
metadata(part) ==
    part.start_lba .. part.start_lba + used_sects + block_bitmap_sects(part) - 1

\* Every partition_format on a disk writes the root directory to this sector.
root_dir_lba == inode_table_sects + inode_table_sects

\* Where the tables of a disk are, and where else partition_scan looks for one on disk d,
\* if an earlier disk has left the address of its extended partition in extra_lba_base.
tables(g) == {0, g.ext} \cup {g.ext + g.logics[i].ebr : i \in 1 .. Len(g.logics)}
strays(g, d) == {g[c].ext + g[d].ext : c \in {c \in 0 .. d - 1 : g[c].at > 0 /\ g[d].at > 0}}

ASSUME FsBootAssumption ==
    /\ PRIM_PARTS \in Nat \ {0} /\ LOGIC_PARTS \in Nat \ {0}
    /\ MaxCuts \in Nat /\ MaxEntries \in Nat

\* Partitions are disjoint and hold their metadata and a block (without one, the ASSERT
\* on sec_cnt stops the machine when the block bitmap is written), root_dir_lba is in no
\* metadata, tables and strays are in no partition, and a stray is no table: it reads as
\* zeros.
ASSUME GeometryAssumption ==
    \A g \in Geometries :
        /\ IsFiniteSet(DOMAIN g) /\ DOMAIN g = 0 .. Cardinality(DOMAIN g) - 1
        /\ \A d \in DOMAIN g :
            /\ g[d].prims \in Seq([start : Nat, cnt : Nat])
            /\ g[d].logics \in Seq([ebr : Nat, start : Nat, cnt : Nat])
            /\ g[d].ext \in Nat /\ g[d].at \in 0 .. Len(g[d].prims) + 1
            /\ g[d].at = 0 <=> g[d].ext = 0
            /\ g[d].at = 0 => g[d].logics = << >>
            /\ Len(g[d].prims) + (IF g[d].at > 0 THEN 1 ELSE 0) <= PRIM_PARTS
            /\ strays(g, d) \cap tables(g[d]) = {}
            /\ root_dir_lba \notin tables(g[d]) \cup strays(g, d)
            /\ \A a \in Areas(g[d]) :
                /\ a.sector_counter > used_sects /\ block_bitmap_sects(a) > 0
                /\ root_dir_lba \notin metadata(a)
                /\ \A lba \in tables(g[d]) \cup strays(g, d) :
                    lba \notin a.start_lba .. a.start_lba + a.sector_counter - 1
                /\ \A b \in Areas(g[d]) :
                    \/ a = b
                    \/ a.start_lba + a.sector_counter <= b.start_lba
                    \/ b.start_lba + b.sector_counter <= a.start_lba

VARIABLES
    geometry,           \* which of Geometries, fixed
    sectors,            \* the disks: what was ever written to them, by sector
    ide,                \* the globals of ide.c, and the calls of partition_scan: their
                        \* ext_lba and the entries of its table still to be seen
    curr_part,          \* the mounted partition, or NoMount
    hd, part_idx,       \* where ide_init and filesys_init are
    todo,               \* the sectors partition_format has still to write
    pc,
    cuts,
    whole               \* history: partitions that were formatted to the end

boot_vars == << geometry, sectors, ide, curr_part, hd, part_idx, todo, pc, cuts, whole >>

channel_cnt == Cardinality(DOMAIN geometry)

-----------------------------------------------------------------------------
(* The disks.                                                              *)

Zero == [kind |-> "zero"]
Sector(d, lba) == IF lba \in DOMAIN sectors[d] THEN sectors[d][lba] ELSE Zero

\* A partition table entry: fs_type 0 (unused), 5 (extended) or another one.
Entry(fs_type, start_lba, sec_cnt) ==
    [fs_type |-> fs_type, start_lba |-> start_lba, sec_cnt |-> sec_cnt]
Unused == Entry(0, 0, 0)

\* A sector as struct boot_sector: a table, or no entries in a sector of zeros.  What
\* another sector looks like is not said.
partition_table(d, lba) ==
    CASE Sector(d, lba).kind = "boot" -> Sector(d, lba).partition_table
      [] Sector(d, lba).kind = "zero" -> [i \in 1 .. PRIM_PARTS |-> Unused]

\* The tables of a disk partitioned as g says: the first one, that of logical partition
\* i, and where they are.
master_table(g) ==
    LET prims == [i \in 1 .. Len(g.prims) |-> Entry(131, g.prims[i].start, g.prims[i].cnt)]
    IN  IF g.at = 0 THEN prims
        ELSE SubSeq(prims, 1, g.at - 1) \o << Entry(5, g.ext, 0) >> \o SubSeq(prims, g.at, Len(prims))
extended_table(g, i) ==
    << Entry(131, g.logics[i].start, g.logics[i].cnt) >>
        \o (IF i = Len(g.logics) THEN << >> ELSE << Entry(5, g.logics[i + 1].ebr, 0) >>)

boot_sector(table) ==
    [kind |-> "boot",
     partition_table |-> [i \in 1 .. PRIM_PARTS |-> IF i <= Len(table) THEN table[i] ELSE Unused]]
boot_sectors(g) ==
    [lba \in {0} \cup {g.ext + g.logics[i].ebr : i \in 1 .. Len(g.logics)} |->
        boot_sector(IF lba = 0 THEN master_table(g)
                    ELSE extended_table(g, CHOOSE i \in 1 .. Len(g.logics) :
                                              g.ext + g.logics[i].ebr = lba))]

\* The globals of a machine that has just been switched on.
NoPart == [name |-> << >>, start_lba |-> 0, sector_counter |-> 0]
ide_globals ==
    [extra_lba_base |-> 0, primary_idx |-> 0, logic_idx |-> 0,
     prim_parts |-> [d \in DOMAIN geometry |-> [i \in 0 .. PRIM_PARTS - 1 |-> NoPart]],
     logic_parts |-> [d \in DOMAIN geometry |-> [i \in 0 .. LOGIC_PARTS - 1 |-> NoPart]],
     partition_list |-> << >>, stack |-> << >>]

BootInit ==
    /\ geometry \in Geometries
    /\ sectors = [d \in DOMAIN geometry |-> boot_sectors(geometry[d])]
    /\ ide = ide_globals
    /\ curr_part = NoMount
    /\ hd = 0 /\ part_idx = 0
    /\ todo = << >>
    /\ pc = "ide_init"
    /\ cuts = 0 /\ whole = {}

-----------------------------------------------------------------------------
(* ide_init and partition_scan.                                            *)

Call(ext_lba) == [ext_lba |-> ext_lba, entries |-> partition_table(hd, ext_lba)]

\* ide_init's loop: the next channel's second disk, or filesys_init.
ide_init ==
    /\ pc = "ide_init"
    /\ \/ /\ hd < channel_cnt
          /\ ide' = [ide EXCEPT !.stack = << Call(0) >>]
          /\ pc' = "scan"
          /\ UNCHANGED hd
       \/ /\ hd = channel_cnt
          /\ hd' = 0
          /\ pc' = "filesys_init"
          /\ UNCHANGED ide
    /\ UNCHANGED << geometry, sectors, curr_part, part_idx, todo, cuts, whole >>

\* Mutant: a second extended table is looked up from the start of the disk.
extended_absolute(stack, p) ==
    [ide EXCEPT !.stack = Append(stack, Call(p.start_lba)),
                !.extra_lba_base = IF @ = 0 THEN p.start_lba ELSE @]

\* Entry p is an extended partition: scan its table, which is found from the first
\* extended partition's start.
extended(stack, p) ==
    IF ide.extra_lba_base # 0
    THEN [ide EXCEPT !.stack = Append(stack, Call(p.start_lba + ide.extra_lba_base))]
    ELSE [ide EXCEPT !.stack = Append(stack, Call(p.start_lba)),
                     !.extra_lba_base = p.start_lba]

Part(n, ext_lba, p) ==
    [name |-> << hd, n >>, start_lba |-> ext_lba + p.start_lba, sector_counter |-> p.sec_cnt]

primary(stack, p) ==
    LET part == Part(ide.primary_idx + 1, 0, p)
    IN  [ide EXCEPT !.prim_parts[hd][ide.primary_idx] = part,
                    !.partition_list = Append(@, part),
                    !.primary_idx = @ + 1,
                    !.stack = stack]

\* The call that finds the last logical partition there is room for returns.
logical(stack, ext_lba, p) ==
    LET part == Part(ide.logic_idx + 5, ext_lba, p)
    IN  [ide EXCEPT !.logic_parts[hd][ide.logic_idx] = part,
                    !.partition_list = Append(@, part),
                    !.logic_idx = @ + 1,
                    !.stack = IF ide.logic_idx + 1 >= LOGIC_PARTS
                              THEN SubSeq(stack, 1, Len(stack) - 1) ELSE stack]

\* Mutant: p++ is skipped for an unused entry.
advance_used(stack) ==
    LET n == Len(stack)
    IN  IF stack[n].entries[1].fs_type = 0 THEN stack
        ELSE [stack EXCEPT ![n].entries = Tail(@)]

\* p++ in the innermost call.
advance(stack) == [stack EXCEPT ![Len(stack)].entries = Tail(@)]

\* One turn of the innermost call's loop, or its return.
partition_scan ==
    LET n == Len(ide.stack)
        top == ide.stack[n]
        p == Head(top.entries)
        stack == advance(ide.stack)
    IN  /\ pc = "scan" /\ n > 0
        /\ \/ /\ top.entries = << >>
              /\ ide' = [ide EXCEPT !.stack = SubSeq(@, 1, n - 1)]
           \/ /\ top.entries # << >>
              /\ ide' = IF p.fs_type = 5 THEN extended(stack, p)
                        ELSE IF p.fs_type = 0 THEN [ide EXCEPT !.stack = stack]
                        ELSE IF top.ext_lba = 0 THEN primary(stack, p)
                        ELSE logical(stack, top.ext_lba, p)
        /\ pc' = IF ide'.primary_idx < PRIM_PARTS THEN "scan" ELSE "halt"    \* ASSERT
        /\ UNCHANGED << geometry, sectors, curr_part, hd, part_idx, todo, cuts, whole >>

\* Back in ide_init.
scan_done ==
    /\ pc = "scan" /\ ide.stack = << >>
    /\ ide' = [ide EXCEPT !.primary_idx = 0, !.logic_idx = 0]
    /\ hd' = hd + 1
    /\ pc' = "ide_init"
    /\ UNCHANGED << geometry, sectors, curr_part, part_idx, todo, cuts, whole >>

-----------------------------------------------------------------------------
(* filesys_init, partition_format and mount_partition.                     *)

\* What partition_format writes, sector by sector, in its order.
SectorBits(part, k) ==
    {i \in 0 .. BITS_PER_SECTOR - 1 : block_bitmap_bit(part, k * BITS_PER_SECTOR + i)}
Bits(set) == [kind |-> "bits", set |-> set]
partition_format(part) ==
    LET sb == super_block(part)
        Run(lba, n, content(_)) == [k \in 1 .. n |-> [lba |-> lba + k - 1, is |-> content(k - 1)]]
        bitmap(k) == Bits(SectorBits(part, k))
        inodes(k) == IF k = 0 THEN [kind |-> "root_inode", i_size |-> 2 * sb.dir_entry_size,
                                    i_sectors_0 |-> sb.data_start_lba]
                     ELSE Zero
    IN  << [lba |-> part.start_lba + 1, is |-> sb] >>
          \o Run(sb.block_bitmap_lba, sb.block_bitmap_sects, bitmap)
          \o Run(sb.inode_bitmap_lba, sb.inode_bitmap_sects, LAMBDA k : Bits({}))
          \o Run(sb.inode_table_lba, sb.inode_table_sects, inodes)
          \o << [lba |-> sb.data_start_lba, is |-> [kind |-> "root_dir", i_no |-> 0]] >>

\* The partition filesys_init is at.
this_part ==
    IF part_idx < PRIM_PARTS THEN ide.prim_parts[hd][part_idx]
    ELSE ide.logic_parts[hd][part_idx - PRIM_PARTS]

\* Mutant: a partition with a file system is formatted again.
has_filesystem_never(part) == part.sector_counter = 0

\* Nothing to do: no partition, or one that holds a super block.
has_filesystem(part) ==
    part.sector_counter = 0 \/ Sector(hd, part.start_lba + 1).kind = "super_block"

\* filesys_init's loops: the next partition, the next channel, the mount.
filesys_init ==
    /\ pc = "filesys_init"
    /\ \/ /\ hd < channel_cnt /\ part_idx < PRIM_PARTS + LOGIC_PARTS
          /\ \/ has_filesystem(this_part) /\ part_idx' = part_idx + 1 /\ UNCHANGED << todo, pc >>
             \/ /\ ~has_filesystem(this_part)
                /\ todo' = partition_format(this_part)
                /\ pc' = "format"
                /\ UNCHANGED part_idx
          /\ UNCHANGED hd
       \/ /\ hd < channel_cnt /\ part_idx = PRIM_PARTS + LOGIC_PARTS
          /\ hd' = hd + 1 /\ part_idx' = 0
          /\ UNCHANGED << todo, pc >>
       \/ hd = channel_cnt /\ pc' = "mount" /\ UNCHANGED << hd, part_idx, todo >>
    /\ UNCHANGED << geometry, sectors, ide, curr_part, cuts, whole >>

\* The next sector of partition_format's ide_writes.
format_write ==
    /\ pc = "format"
    /\ sectors' = [sectors EXCEPT ![hd] =
                        [lba \in DOMAIN sectors[hd] \cup {Head(todo).lba} |->
                            IF lba = Head(todo).lba THEN Head(todo).is ELSE sectors[hd][lba]]]
    /\ todo' = Tail(todo)
    /\ IF Tail(todo) = << >>
       THEN /\ pc' = "filesys_init"
            /\ part_idx' = part_idx + 1
            /\ whole' = whole \union {this_part}
       ELSE UNCHANGED << pc, part_idx, whole >>
    /\ UNCHANGED << geometry, ide, curr_part, hd, cuts >>

\* ide_read of n sectors of bits.
read_bits(d, lba, n) ==
    {i \in 0 .. n * BITS_PER_SECTOR - 1 :
        LET s == Sector(d, lba + i \div BITS_PER_SECTOR)
        IN  s.kind = "bits" /\ i % BITS_PER_SECTOR \in s.set}

\* The list's first partition called sdb1.  The inode bitmap gets the block bitmap's length.
mount_partition ==
    LET found == {i \in 1 .. Len(ide.partition_list) : ide.partition_list[i].name = << 0, 1 >>}
        part == ide.partition_list[CHOOSE i \in found : \A j \in found : i <= j]
        sb == Sector(0, part.start_lba + 1)
    IN  /\ pc = "mount"
        /\ curr_part' =
            IF found = {} THEN NoMount
            ELSE [part |-> part, sb |-> sb,
                  block_bitmap |-> read_bits(0, sb.block_bitmap_lba, sb.block_bitmap_sects),
                  block_bitmap_len |-> sb.block_bitmap_sects * SECTOR_SIZE,
                  inode_bitmap |-> read_bits(0, sb.inode_bitmap_lba, sb.inode_bitmap_sects),
                  inode_bitmap_len |-> sb.block_bitmap_sects * SECTOR_SIZE]
        /\ pc' = "up"
        /\ UNCHANGED << geometry, sectors, ide, hd, part_idx, todo, cuts, whole >>

\* The machine is in use: the root directory has grown by an entry, and inode_sync
\* writes its inode, in the first sector of the inode table.  As it is, sync_dir_entry
\* stops at its ASSERT on the root directory's size (FirstEntryOnly of FileStore): the
\* step stands for whatever stores the inode.
inode_sync_root ==
    LET lba == curr_part.sb.inode_table_lba
        size == Sector(0, lba).i_size + DIR_ENTRY_SIZE
    IN  /\ pc = "up" /\ curr_part # NoMount
        /\ Sector(0, lba).kind = "root_inode"
        /\ size <= MaxEntries * DIR_ENTRY_SIZE
        /\ sectors' = [sectors EXCEPT ![0][lba].i_size = size]
        /\ UNCHANGED << geometry, ide, curr_part, hd, part_idx, todo, pc, cuts, whole >>

\* The power fails, and comes back: memory is lost, the disks are not.
power_off ==
    /\ cuts < MaxCuts
    /\ cuts' = cuts + 1
    /\ ide' = ide_globals
    /\ curr_part' = NoMount
    /\ hd' = 0 /\ part_idx' = 0
    /\ todo' = << >>
    /\ pc' = "ide_init"
    /\ UNCHANGED << geometry, sectors, whole >>

Boot ==
    \/ ide_init \/ partition_scan \/ scan_done
    \/ filesys_init \/ format_write \/ mount_partition

BootNext ==
    \/ Boot
    \/ inode_sync_root
    \/ power_off
    \/ pc \in {"up", "halt"} /\ UNCHANGED boot_vars

BootSpec == BootInit /\ [][BootNext]_boot_vars

\* Main runs on; the power need not fail.
FairBootSpec == BootSpec /\ WF_boot_vars(Boot)

-----------------------------------------------------------------------------
(* Properties.                                                             *)

\* The partitions of a disk as they were laid out, by name.
Primaries(d) ==
    {[name |-> << d, i >>, start_lba |-> geometry[d].prims[i].start,
      sector_counter |-> geometry[d].prims[i].cnt] : i \in 1 .. Len(geometry[d].prims)}
Logicals(d) ==
    LET g == geometry[d]
    IN  {[name |-> << d, i + 4 >>, start_lba |-> g.ext + g.logics[i].ebr + g.logics[i].start,
          sector_counter |-> g.logics[i].cnt]
            : i \in {j \in 1 .. Len(g.logics) : j <= LOGIC_PARTS}}
Partitions(d) == Primaries(d) \union Logicals(d)

\* partition_scan finds every partition of a disk, each once, under its own name and
\* at its own place, through any chain of tables: as long as no earlier disk has left
\* its extended partition's address behind.  It never takes for a partition what is
\* none.
ScanExact ==
    \A d \in 0 .. (IF pc \in {"ide_init", "scan"} THEN hd ELSE channel_cnt) - 1 :
        LET found == SelectSeq(ide.partition_list, LAMBDA p : p.name[1] = d)
            set == {found[i] : i \in 1 .. Len(found)}
        IN  /\ Len(found) = Cardinality(set)
            /\ Primaries(d) \subseteq set /\ set \subseteq Partitions(d)
            /\ (\A e \in 0 .. d - 1 : geometry[e].at = 0) => set = Partitions(d)

\* Whatever the order of the partitions and of the power cuts, a partition that was
\* formatted to the end holds what partition_format writes, from then on (its root
\* inode as later stored): formatting another one, whose root directory goes to the
\* same sector, or booting again does not disturb it.
FormattedWhole ==
    \A p \in whole :
        LET d == p.name[1]
            writes == partition_format(p)
        IN  \A i \in DOMAIN writes :
                \/ Sector(d, writes[i].lba) = writes[i].is
                \/ Sector(d, writes[i].lba).kind = "root_inode" /\ writes[i].is.kind = "root_inode"

\* A mounted file system is sdb1's, and its super block describes that partition.
\* Unless a power cut ended its formatting, no bit from the partition's number of blocks
\* on is clear, up to the end of the bitmap: block_bitmap_alloc finds numbers of blocks
\* the partition has.  The sector it returns for a number is another matter: it adds the
\* number to data_start_lba, which is the same sector of the disk for every partition.
MountSound ==
    curr_part # NoMount =>
        /\ curr_part.part.name = << 0, 1 >>
        /\ curr_part.sb = super_block(curr_part.part)
        /\ \/ cuts > 0 /\ curr_part.part \notin whole
           \/ \A i \in 0 .. 8 * curr_part.block_bitmap_len - 1 :
                i >= block_bitmap_bit_len(curr_part.part) => i \in curr_part.block_bitmap

\* What was stored stays: after any power cut no step of the boot changes a sector,
\* metadata or data, of a partition that was formatted to the end (a root directory in
\* its data area is written again, with what is there).
KeepsFormatted ==
    [][Boot => \A p \in whole :
        LET d == p.name[1]
        IN  \A lba \in DOMAIN sectors'[d] :
                lba \in p.start_lba .. p.start_lba + p.sector_counter - 1 =>
                    sectors'[d][lba] = Sector(d, lba)]_boot_vars

\* Once the power stays on the machine comes up, with sdb1 mounted if there is one;
\* a disk with PRIM_PARTS primary partitions stops it at the ASSERT after the last,
\* although prim_parts has room for all of them and the ASSERT's comment counts four.
ComesUp ==
    <>[]\/ pc = "up" /\ (geometry[0].prims # << >> => curr_part # NoMount)
        \/ pc = "halt" /\ \E d \in DOMAIN geometry : Len(geometry[d].prims) = PRIM_PARTS
=============================================================================
