------------------------------ MODULE FileStore ------------------------------
(***************************************************************************)
(* A mounted partition: fs/inode.c, the directories of fs/dir.c and the    *)
(* bitmaps of fs/file.c, with the inode table and the blocks on disk, and  *)
(* a power cut at any time.  Nothing locks these functions, so calls are   *)
(* taken to come one after the other; a call that writes several sectors   *)
(* is cut between any two of them.                                         *)
(*                                                                         *)
(* The inode table is modelled byte by byte.  Of an inode's fields three   *)
(* are kept, one byte each: i_no, i_size and i_sectors[0]; the rest is     *)
(* constant here, or reset by inode_sync and inode_open.                   *)
(***************************************************************************)
EXTENDS Layout, List, Bitmap, TLC

CONSTANTS
    DIR_SIZE,       \* sizeof(struct dir), 520
    Inodes,         \* the inodes used, 0 (the root directory) among them
    Handles,        \* who can hold an open file or directory
    Addrs,          \* where sys_malloc can put an inode, the lowest free one first
    FreeBlocks,     \* free in the block bitmap at first; its length is one byte
    PartLbaBase,    \* where the partition starts
    MaxOpen,        \* bound: i_open_cnts
    MaxCrashes,     \* bound: power cuts
    NULL

\* struct inode with its three fields, what is kept of it in memory, and an opener's
\* pointer to that.
InodeSet == [i_no : Nat, i_size : Nat, i_sectors_0 : Nat]
OpenInode == [inode : InodeSet, cnt : Nat]
OpenHandle == [addr : Addrs, no : Inodes, kind : {"file", "dir"}]

\* An entry has 24 bytes and a struct dir 520.
ASSUME FileStoreAssumption ==
    /\ INODE_SIZE = 3
    /\ DIR_SIZE \in Nat /\ DIR_ENTRY_SIZE < DIR_SIZE /\ (2 * DIR_ENTRY_SIZE) % DIR_SIZE # 0
    /\ Inodes \subseteq 0 .. MAX_FILES_PER_PART - 1 /\ 0 \in Inodes
    /\ FreeBlocks \subseteq 0 .. 7
    /\ MaxOpen \in Nat /\ MaxCrashes \in Nat
    /\ Addrs \subseteq Nat
    /\ IsFiniteSet(Handles)
    /\ NULL \notin Nat \cup InodeSet \cup OpenInode \cup OpenHandle

VARIABLES
    table,          \* on disk: the inode table and the sector after it, by byte
    block_sector,   \* on disk: the block bitmap
    blocks,         \* on disk: whose directory entry a data block holds
    block_bitmap, inode_bitmap,
    heap,           \* the inodes in memory, by address
    open_inodes,    \* the list, of addresses
    handle,         \* what each of Handles has open
    call,           \* the call that is going on
    crashes,
    stored,         \* history: each inode as last stored
    torn,           \* history: inodes whose inode_sync was cut half way
    dirty           \* history: inodes changed in memory since they were stored

disk == << table, block_sector, blocks >>
memory == << block_bitmap, inode_bitmap, heap, open_inodes, handle >>
history == << stored, torn, dirty >>
vars == << disk, memory, call, crashes, history >>

Idle == [kind |-> "none"]
data_start_lba == inode_table_sects + inode_table_sects

\* block_bitmap_alloc's blocks are sectors counted from data_start_lba, the same on every
\* partition.  Here none of them is a sector of the partition's own metadata (with one
\* sector for the block bitmap) or the one after it, so that entries and inodes are on
\* different sectors.  In a partition that starts behind data_start_lba this ends when
\* enough blocks are taken: the next entry is written over a bitmap or an inode.
ASSUME BlocksAssumption ==
    /\ PartLbaBase \in Nat
    /\ \A i \in FreeBlocks :
        data_start_lba + i \notin PartLbaBase .. PartLbaBase + used_sects + 1

-----------------------------------------------------------------------------
(* Inodes as bytes.                                                        *)

Inode(i_no, i_size, i_sectors_0) ==
    [i_no |-> i_no, i_size |-> i_size, i_sectors_0 |-> i_sectors_0]

\* memcpy of a struct inode into buf at a position, and from it.
put(buf, at, inode) ==
    [b \in DOMAIN buf |-> CASE b = at -> inode.i_no
                            [] b = at + 1 -> inode.i_size
                            [] b = at + 2 -> inode.i_sectors_0
                            [] OTHER -> buf[b]]
get(buf, at) == Inode(buf[at], buf[at + 1], buf[at + 2])

OnDisk(n) == get(table, n * INODE_SIZE)

\* As partition_format leaves it: the root's inode, the others zero; 255 stands for
\* whatever is in the sector after the table.
RootInode == Inode(0, 2 * DIR_ENTRY_SIZE, data_start_lba)
FormattedTable ==
    put([b \in 0 .. (inode_table_sects + 1) * SECTOR_SIZE - 1 |->
            IF b < inode_table_sects * SECTOR_SIZE THEN 0 ELSE 255], 0, RootInode)

Init ==
    /\ table = FormattedTable
    /\ block_sector = [i \in 0 .. 8 |-> IF i \in FreeBlocks THEN 0 ELSE 1]
    /\ blocks = [i \in FreeBlocks \union {0} |-> IF i = 0 THEN 0 ELSE NULL]
    /\ block_bitmap = block_sector
    /\ inode_bitmap = [i \in 0 .. 8 |-> 0]
    /\ heap = [a \in Addrs |-> NULL]
    /\ open_inodes = << >>
    /\ handle = [h \in Handles |-> NULL]
    /\ call = Idle
    /\ crashes = 0
    /\ stored = [n \in Inodes |-> IF n = 0 THEN RootInode ELSE NULL]
    /\ torn = {} /\ dirty = {}

-----------------------------------------------------------------------------
(* Opening and closing.                                                    *)

\* Mutant: an inode found in the list is returned as it is.
found_uncounted(a) == heap

\* An inode found in the list is opened once more.
found(a) == [heap EXCEPT ![a].cnt = @ + 1]

\* Mutant: the walk stops before the list's last inode.
search_short(n) ==
    {i \in DOMAIN open_inodes : i < Len(open_inodes) /\ heap[open_inodes[i]].inode.i_no = n}

\* The places of inode n in the list.
search(n) == {i \in DOMAIN open_inodes : heap[open_inodes[i]].inode.i_no = n}

\* inode_open, as inode_open and dir_open give its result to h.
open(h, n, kind) ==
    LET hits == search(n)
        first == open_inodes[CHOOSE i \in hits : \A j \in hits : i <= j]
    IN  /\ call = Idle /\ handle[h] = NULL
        /\ stored[n] # NULL
        /\ \/ /\ hits # {}
              /\ heap[first].cnt < MaxOpen
              /\ heap' = found(first)
              /\ handle' = [handle EXCEPT ![h] = [addr |-> first, no |-> n, kind |-> kind]]
              /\ UNCHANGED open_inodes
           \/ /\ hits = {}
              /\ \E a \in Addrs :
                    /\ heap[a] = NULL /\ \A b \in Addrs : heap[b] = NULL => a <= b
                    /\ heap' = [heap EXCEPT ![a] = [inode |-> OnDisk(n), cnt |-> 1]]
                    /\ open_inodes' = list_append(open_inodes, a)
                    /\ handle' = [handle EXCEPT ![h] = [addr |-> a, no |-> n, kind |-> kind]]
        /\ UNCHANGED << disk, block_bitmap, inode_bitmap, call, crashes, history >>

inode_open(h, n) == open(h, n, "file")
dir_open(h, n) == open(h, n, "dir")

\* inode_close of a file: the last one takes the inode out of the list and frees it.
inode_close(h) ==
    LET a == handle[h].addr
    IN  /\ call = Idle /\ handle[h] # NULL
        /\ handle[h].kind = "file"
        /\ handle' = [handle EXCEPT ![h] = NULL]
        /\ IF heap[a].cnt = 1
           THEN /\ heap' = [heap EXCEPT ![a] = NULL]
                /\ open_inodes' = list_remove(open_inodes, {a})
                /\ dirty' = dirty \ {heap[a].inode.i_no}
           ELSE heap' = [heap EXCEPT ![a].cnt = @ - 1] /\ UNCHANGED << open_inodes, dirty >>
        /\ UNCHANGED << disk, block_bitmap, inode_bitmap, call, crashes, stored, torn >>

\* dir_close passes inode_close the struct dir, whose bytes at i_open_cnts are the
\* zeros of dir_buf: they become -1, and the inode stays open.
dir_close(h) ==
    /\ call = Idle /\ handle[h] # NULL
    /\ handle[h].kind = "dir"
    /\ handle' = [handle EXCEPT ![h] = NULL]
    /\ UNCHANGED << disk, block_bitmap, inode_bitmap, heap, open_inodes, call, crashes, history >>

-----------------------------------------------------------------------------
(* inode_sync.                                                             *)

\* Mutant: the sectors are not read before they are written.
inode_sync_read_blank(inode) ==
    LET pos == inode_locate(inode.i_no)
        secs == IF pos.two_sec THEN 2 ELSE 1
        buf == [b \in 0 .. secs * SECTOR_SIZE - 1 |-> 0]
    IN  [kind |-> "sync", inode |-> inode, buf |-> put(buf, pos.off_size, inode),
         sec |-> pos.sec, secs |-> secs, done |-> 0]

\* Its read, and its memcpy into the one or two sectors read.
inode_sync_read(inode) ==
    LET pos == inode_locate(inode.i_no)
        secs == IF pos.two_sec THEN 2 ELSE 1
        buf == [b \in 0 .. secs * SECTOR_SIZE - 1 |-> table[pos.sec * SECTOR_SIZE + b]]
    IN  [kind |-> "sync", inode |-> inode, buf |-> put(buf, pos.off_size, inode),
         sec |-> pos.sec, secs |-> secs, done |-> 0]

\* A new inode: inode_init, inode_sync.
inode_init(n) ==
    /\ call = Idle
    /\ stored[n] = NULL /\ n \notin torn
    /\ call' = inode_sync_read(Inode(n, 0, 0))
    /\ UNCHANGED << disk, memory, crashes, history >>

inode_sync(h) ==
    /\ call = Idle /\ handle[h] # NULL
    /\ call' = inode_sync_read(heap[handle[h].addr].inode)
    /\ UNCHANGED << disk, memory, crashes, history >>

\* Its write, a sector at a time.
inode_sync_write ==
    LET n == call.inode.i_no
        base == (call.sec + call.done) * SECTOR_SIZE
        sector == base .. base + SECTOR_SIZE - 1
    IN  /\ call.kind = "sync"
        /\ table' = [b \in DOMAIN table |->
                        IF b \in sector THEN call.buf[b - call.sec * SECTOR_SIZE] ELSE table[b]]
        /\ \/ /\ call.done + 1 < call.secs
              /\ call' = [call EXCEPT !.done = @ + 1]
              /\ UNCHANGED history
           \/ /\ call.done + 1 = call.secs
              /\ call' = Idle
              /\ stored' = [stored EXCEPT ![n] = call.inode]
              /\ torn' = torn \ {n}
              /\ dirty' = dirty \ {n}
        /\ UNCHANGED << block_sector, blocks, memory, crashes >>

-----------------------------------------------------------------------------
(* sync_dir_entry: the first entry of an empty directory.  Once a directory *)
(* has entries its size is no multiple of DIR_SIZE and the ASSERT fails.    *)

\* Mutant: the bit of the block is not set.
block_bitmap_alloc_unset(idx) == block_bitmap

block_bitmap_alloc(idx) == bitmap_set(block_bitmap, idx, 1)

\* The ASSERT, and block_bitmap_alloc; with a full bitmap the call returns false and
\* has changed nothing.
sync_dir_entry(h) ==
    LET a == handle[h].addr
        idx == bitmap_scan(block_bitmap, 1, 1)
    IN  /\ call = Idle /\ handle[h] # NULL
        /\ handle[h].kind = "dir"
        /\ \/ /\ heap[a].inode.i_size % DIR_SIZE # 0
              /\ call' = [kind |-> "halt"]
              /\ UNCHANGED << block_bitmap, dirty >>
           \/ /\ heap[a].inode.i_size % DIR_SIZE = 0
              /\ idx # -1
              /\ block_bitmap' = block_bitmap_alloc(idx)
              /\ call' = [kind |-> "bitmap_sync", addr |-> a, idx |-> idx]
              /\ dirty' = dirty \union {heap[a].inode.i_no}
        /\ UNCHANGED << disk, inode_bitmap, heap, open_inodes, handle, crashes, stored, torn >>

\* bitmap_sync of the block bitmap writes the inode bitmap's bits; then the block gets
\* its place in the inode.  (No code calls it for the inode bitmap.)
bitmap_sync ==
    /\ call.kind = "bitmap_sync"
    /\ block_sector' = inode_bitmap
    /\ heap' = [heap EXCEPT ![call.addr].inode.i_sectors_0 = data_start_lba + call.idx]
    /\ call' = [call EXCEPT !.kind = "write_entry"]
    /\ UNCHANGED << table, blocks, block_bitmap, inode_bitmap, open_inodes, handle,
                    crashes, history >>

\* Mutant: i_open_cnts is raised instead of i_size.
grown_cnts(inode) == [inode EXCEPT !.cnt = @ + DIR_ENTRY_SIZE]

grown(inode) == [inode EXCEPT !.inode.i_size = @ + DIR_ENTRY_SIZE]

\* The block with the entry is written, and the directory has grown.
write_entry ==
    /\ call.kind = "write_entry"
    /\ blocks' = [blocks EXCEPT ![call.idx] = heap[call.addr].inode.i_no]
    /\ heap' = [heap EXCEPT ![call.addr] = grown(@)]
    /\ call' = Idle
    /\ UNCHANGED << table, block_sector, block_bitmap, inode_bitmap, open_inodes, handle,
                    crashes, history >>

-----------------------------------------------------------------------------
\* All of an inode's bytes are in one sector.
Fits(n) == (n * INODE_SIZE) \div SECTOR_SIZE = (n * INODE_SIZE + INODE_SIZE - 1) \div SECTOR_SIZE

\* The power fails; mount_partition reads the bitmaps again.  An inode whose first
\* sector had been written is stored, if that sector is all of it.
power_cut ==
    LET half == call.kind = "sync" /\ call.done > 0
        n == call.inode.i_no
    IN  /\ crashes < MaxCrashes
        /\ crashes' = crashes + 1
        /\ stored' = IF half THEN [stored EXCEPT ![n] = call.inode] ELSE stored
        /\ torn' = IF half /\ ~Fits(n) THEN torn \union {n} ELSE torn
        /\ dirty' = {}
        /\ block_bitmap' = block_sector
        /\ heap' = [a \in Addrs |-> NULL]
        /\ open_inodes' = << >>
        /\ handle' = [h \in Handles |-> NULL]
        /\ call' = Idle
        /\ UNCHANGED << disk, inode_bitmap >>

Next ==
    \/ \E h \in Handles, n \in Inodes : inode_open(h, n) \/ dir_open(h, n)
    \/ \E h \in Handles : inode_close(h) \/ dir_close(h) \/ inode_sync(h) \/ sync_dir_entry(h)
    \/ \E n \in Inodes : inode_init(n)
    \/ inode_sync_write \/ bitmap_sync \/ write_entry
    \/ power_cut
    \/ call.kind = "halt" /\ UNCHANGED vars

Spec == Init /\ [][Next]_vars

Symmetry == Permutations(Handles)

-----------------------------------------------------------------------------
(* Properties.                                                             *)

Syncing(n) == call.kind = "sync" /\ call.inode.i_no = n

\* The inode table holds every inode as it was last stored: an inode_sync, whole or
\* cut off by a power failure between two sectors, changes no other inode of the
\* sectors it rewrites, nor the sector after the table, which it also rewrites for the
\* table's last inode.  An inode that lies in one sector is never half written.
DiskCurrent ==
    /\ \A n \in Inodes \ torn :
        \/ OnDisk(n) = IF stored[n] = NULL THEN Inode(0, 0, 0) ELSE stored[n]
        \/ Syncing(n) /\ (Fits(n) => OnDisk(n) = call.inode)
    /\ \A n \in (0 .. MAX_FILES_PER_PART - 1) \ Inodes : OnDisk(n) = Inode(0, 0, 0)
    /\ \A b \in DOMAIN table : b >= inode_table_sects * SECTOR_SIZE => table[b] = 255

\* The list of open inodes holds an inode once, and as it was last stored, or changed
\* since: opening finds what was stored before, whoever else has it open or had.
CacheCoherent ==
    \A i \in DOMAIN open_inodes :
        LET inode == heap[open_inodes[i]].inode
        IN  /\ \A j \in DOMAIN open_inodes : i # j => heap[open_inodes[j]].inode.i_no # inode.i_no
            /\ inode.i_no \notin dirty \union torn => inode = stored[inode.i_no]

\* An inode that somebody has open is in the list, is the one that was asked for, and
\* counts as many openers as it has: no order of opening and closing frees it early.
HandlesLive ==
    \A h \in Handles :
        handle[h] # NULL =>
            LET a == handle[h].addr
            IN  /\ \E i \in DOMAIN open_inodes : open_inodes[i] = a
                /\ heap[a].inode.i_no = handle[h].no
                /\ heap[a].cnt >= Cardinality({g \in Handles : handle[g] # NULL /\ handle[g].addr = a})

\* A directory's block holds its own entries, and no other's, in memory and as stored:
\* until the first power cut, after which the bitmap that bitmap_sync has overwritten
\* hands out blocks a second time.
EntryKept ==
    LET live == {stored[n] : n \in {m \in Inodes : stored[m] # NULL}}
                \union {heap[a].inode : a \in {b \in Addrs : heap[b] # NULL}}
        Owned(inode) == blocks[inode.i_sectors_0 - data_start_lba] = inode.i_no
    IN  crashes = 0 /\ call.kind # "write_entry" =>
            \A inode \in live : inode.i_sectors_0 # 0 => Owned(inode)

\* sync_dir_entry passes its ASSERT only for a directory that has no block yet, also
\* when the directory's inode was left half written: the branches for further entries
\* are never reached.
FirstEntryOnly ==
    \A a \in Addrs :
        /\ heap[a] # NULL
        /\ call.kind = "write_entry" => call.addr # a
        /\ heap[a].inode.i_size % DIR_SIZE = 0
        => heap[a].inode.i_sectors_0 = 0
=============================================================================
