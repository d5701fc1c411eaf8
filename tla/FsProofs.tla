------------------------------ MODULE FsProofs ------------------------------
(***************************************************************************)
(* The file system: what the arithmetic of module Layout yields for every  *)
(* size of sectors, inodes and partitions; the invariants of module        *)
(* FileStore, for any inodes, handles and addresses and any number of      *)
(* power cuts; and those of module FsBoot, for any disks and any number of *)
(* power cuts.                                                             *)
(***************************************************************************)
EXTENDS FileStore, FsBoot, LibProofs, SequenceTheorems

Partition == [start_lba : Nat, sector_counter : Nat]

-----------------------------------------------------------------------------
(* Division.                                                               *)

\* Quotient and remainder.
LEMMA DivMod ==
    ASSUME NEW a \in Nat, NEW b \in Nat \ {0}
    PROVE  /\ a \div b \in Nat
           /\ a % b \in 0 .. b - 1
           /\ a = b * (a \div b) + (a % b)
  OBVIOUS

\* A product bounds a quotient.
LEMMA DivLe ==
    ASSUME NEW a \in Nat, NEW b \in Nat \ {0}, NEW q \in Nat, a < b * (q + 1)
    PROVE  a \div b <= q
  BY DivMod

\* DIV_ROUND_UP(x, b) is the number of pieces of size b that hold x.
LEMMA RoundUp ==
    ASSUME NEW x \in Nat, NEW b \in Nat \ {0}
    PROVE  /\ DIV_ROUND_UP(x, b) \in Nat
           /\ x <= b * DIV_ROUND_UP(x, b)
           /\ b * DIV_ROUND_UP(x, b) <= x + b - 1
  <1> DEFINE y == x + b - 1
  <1>1. y \in Nat
    OBVIOUS
  <1>2. y \div b \in Nat /\ y % b \in 0 .. b - 1 /\ y = b * (y \div b) + (y % b)
    BY <1>1, DivMod
  <1>3. b * (y \div b) \in Nat
    BY <1>2
  <1> QED
    BY <1>2, <1>3 DEF DIV_ROUND_UP

\* As few of them as that takes.
LEMMA RoundUpLeast ==
    ASSUME NEW x \in Nat, NEW b \in Nat \ {0}, NEW q \in Nat, x <= b * q
    PROVE  DIV_ROUND_UP(x, b) <= q
  <1>1. b * q \in Nat /\ b * (q + 1) = b * q + b
    OBVIOUS
  <1>2. x + b - 1 \in Nat /\ x + b - 1 < b * (q + 1)
    BY <1>1
  <1> QED
    BY <1>2, DivLe DEF DIV_ROUND_UP

-----------------------------------------------------------------------------
(* The regions of a partition.                                             *)

LEMMA Sizes ==
    /\ BITS_PER_SECTOR \in Nat \ {0}
    /\ inode_bitmap_sects \in Nat /\ inode_table_sects \in Nat /\ used_sects \in Nat
  <1>1. BITS_PER_SECTOR \in Nat \ {0}
    BY LayoutAssumption DEF BITS_PER_SECTOR
  <1>2. INODE_SIZE * MAX_FILES_PER_PART \in Nat
    BY LayoutAssumption
  <1>3. inode_bitmap_sects \in Nat
    BY <1>1, LayoutAssumption, RoundUp DEF inode_bitmap_sects
  <1>4. inode_table_sects \in Nat
    BY <1>2, LayoutAssumption, RoundUp DEF inode_table_sects
  <1> QED
    BY <1>1, <1>3, <1>4 DEF used_sects

\* The block bitmap is at most as long as the space that was set aside for it, and has
\* a bit for every block.
LEMMA BitmapSize ==
    ASSUME NEW part \in Partition, part.sector_counter > used_sects
    PROVE  /\ block_bitmap_bit_len(part) \in Nat
           /\ block_bitmap_sects(part) \in Nat
           /\ block_bitmap_bit_len(part) <= BITS_PER_SECTOR * block_bitmap_sects(part)
           /\ block_bitmap_bit_len(part) + block_bitmap_sects(part) <= free_sects(part)
  <1> DEFINE free == free_sects(part)
             first == DIV_ROUND_UP(free, BITS_PER_SECTOR)
             len == block_bitmap_bit_len(part)
  <1>1. free \in Nat /\ free > 0
    BY Sizes DEF free_sects, Partition
  <1>2. first \in Nat /\ free <= BITS_PER_SECTOR * first
    BY <1>1, Sizes, RoundUp
  <1>3. first <= free
    <2>1. free <= BITS_PER_SECTOR * free
      BY <1>1, Sizes
    <2> QED
      BY <1>1, <2>1, Sizes, RoundUpLeast
  <1>4. len = free - first /\ len \in Nat
    BY <1>1, <1>2, <1>3 DEF block_bitmap_bit_len
  <1>5. /\ DIV_ROUND_UP(len, BITS_PER_SECTOR) \in Nat
        /\ len <= BITS_PER_SECTOR * DIV_ROUND_UP(len, BITS_PER_SECTOR)
    BY <1>4, Sizes, RoundUp
  <1>6. len <= BITS_PER_SECTOR * first
    BY <1>1, <1>2, <1>4, Sizes
  <1>7. DIV_ROUND_UP(len, BITS_PER_SECTOR) <= first
    BY <1>2, <1>4, <1>6, Sizes, RoundUpLeast
  <1> QED
    BY <1>1, <1>2, <1>4, <1>5, <1>7 DEF block_bitmap_sects

\* partition_format's regions follow each other without a gap or an overlap: boot
\* block, super block, block bitmap, inode bitmap, inode table; and behind them the
\* partition has room for as many blocks as the bitmap has bits for.
THEOREM RegionsFit ==
    ASSUME NEW part \in Partition, part.sector_counter > used_sects
    PROVE  LET sb == super_block(part)
               table_end == sb.inode_table_lba + sb.inode_table_sects
           IN  /\ sb.block_bitmap_lba = part.start_lba + 2
               /\ sb.inode_bitmap_lba = sb.block_bitmap_lba + sb.block_bitmap_sects
               /\ sb.inode_table_lba = sb.inode_bitmap_lba + sb.inode_bitmap_sects
               /\ table_end + block_bitmap_bit_len(part) <= part.start_lba + part.sector_counter
  <1>1. part.start_lba \in Nat /\ part.sector_counter \in Nat
    BY DEF Partition
  <1>2. block_bitmap_bit_len(part) + block_bitmap_sects(part)
            <= part.sector_counter - (2 + inode_bitmap_sects + inode_table_sects)
    BY BitmapSize DEF free_sects, used_sects
  <1> QED
    BY <1>1, <1>2, BitmapSize, Sizes DEF super_block

-----------------------------------------------------------------------------
(* The block bitmap.                                                       *)

\* In a partition of 64 blocks or more, no bit of the block bitmap's sectors that
\* stands for no block is clear: what block_bitmap_alloc finds free is the number of a
\* block.  (In a smaller one the loop that clears bits of byte bit_len % 8 reaches the
\* tail.)
THEOREM TailUsed ==
    ASSUME NEW part \in Partition, part.sector_counter > used_sects,
           block_bitmap_bit_len(part) >= 64,
           NEW i \in Nat,
           block_bitmap_bit_len(part) <= i,
           i < BITS_PER_SECTOR * block_bitmap_sects(part)
    PROVE  block_bitmap_bit(part, i)
  <1> DEFINE len == block_bitmap_bit_len(part)
             bytes == len \div 8
             odd == len % 8
             q == bytes \div SECTOR_SIZE
             r == bytes % SECTOR_SIZE
             byte == i \div 8
  <1>1. len \in Nat /\ SECTOR_SIZE \in Nat \ {0}
    BY BitmapSize, LayoutAssumption
  <1>2. bytes \in Nat /\ odd \in 0 .. 7 /\ len = 8 * bytes + odd
    BY <1>1
  <1>3. byte \in Nat /\ i % 8 \in 0 .. 7 /\ i = 8 * byte + (i % 8)
    OBVIOUS
  <1>4. q \in Nat /\ r \in 0 .. SECTOR_SIZE - 1 /\ bytes = SECTOR_SIZE * q + r
    BY <1>1, <1>2, DivMod
  <1> HIDE DEF len, bytes, odd, q, r, byte
  <1>5. SECTOR_SIZE * (q + 1) \in Nat /\ SECTOR_SIZE * (q + 1) = bytes + (SECTOR_SIZE - r)
    <2>1. SECTOR_SIZE * (q + 1) = SECTOR_SIZE * q + SECTOR_SIZE
      BY <1>1, <1>4
    <2> QED
      BY <2>1, <1>1, <1>2, <1>4
  <1>6. len <= BITS_PER_SECTOR * (q + 1)
    <2>1. BITS_PER_SECTOR * (q + 1) = 8 * (SECTOR_SIZE * (q + 1))
      BY <1>1, <1>4 DEF BITS_PER_SECTOR
    <2> QED
      BY <2>1, <1>1, <1>2, <1>4, <1>5
  <1>7. block_bitmap_sects(part) <= q + 1
    BY <1>1, <1>4, <1>6, Sizes, RoundUpLeast DEF block_bitmap_sects, len
  <1>8. i < 8 * (SECTOR_SIZE * (q + 1))
    <2>1. BITS_PER_SECTOR * block_bitmap_sects(part) <= BITS_PER_SECTOR * (q + 1)
      BY <1>4, <1>7, Sizes, BitmapSize
    <2>2. BITS_PER_SECTOR * (q + 1) = 8 * (SECTOR_SIZE * (q + 1))
      BY <1>1, <1>4 DEF BITS_PER_SECTOR
    <2>3. BITS_PER_SECTOR * block_bitmap_sects(part) \in Nat
      BY Sizes, BitmapSize
    <2> QED
      BY <2>1, <2>2, <2>3, <1>5
  <1>9. byte >= bytes /\ byte <= bytes + (SECTOR_SIZE - r) - 1
    <2>1. len <= i
      BY DEF len
    <2>2. byte < SECTOR_SIZE * (q + 1)
      BY <1>3, <1>5, <1>8
    <2> QED
      BY <2>1, <2>2, <1>1, <1>2, <1>3, <1>4, <1>5
  <1>10. byte >= 8
    <2>1. len >= 64 /\ len <= i
      BY DEF len
    <2> QED
      BY <2>1, <1>1, <1>2, <1>3
  <1>11. byte \in bytes .. bytes + (SECTOR_SIZE - r) - 1 /\ byte # odd
    BY <1>1, <1>2, <1>3, <1>4, <1>9, <1>10
  <1> QED
    BY <1>11 DEF block_bitmap_bit, len, bytes, odd, r, byte

\* Bit 0, the root directory's block, is marked used if the number of blocks is no
\* multiple of 8: if it is, the loop that clears the lowest bits of byte bit_len % 8
\* clears it again, and block_bitmap_alloc gives the block away.
THEOREM RootBlockUsed ==
    ASSUME NEW part \in Partition, part.sector_counter > used_sects
    PROVE  block_bitmap_bit(part, 0) <=> block_bitmap_bit_len(part) % 8 # 0
  <1>1. 0 \div 8 = 0 /\ 0 % 8 = 0
    OBVIOUS
  <1>2. block_bitmap_bit_len(part) % 8 \in Nat
    BY BitmapSize
  <1> QED
    BY <1>1, <1>2 DEF block_bitmap_bit

-----------------------------------------------------------------------------
(* Inodes.                                                                 *)

\* inode_open and inode_sync reach all of an inode's bytes and stay in their buffer:
\* it starts in a sector of the table and ends in the one or two sectors read.  An
\* inode read as one sector ends in that sector, so its write cannot be cut in two.
THEOREM InodeReached ==
    ASSUME NEW n \in 0 .. MAX_FILES_PER_PART - 1
    PROVE  LET pos == inode_locate(n)
           IN  /\ pos.sec \in 0 .. inode_table_sects - 1
               /\ pos.sec * SECTOR_SIZE + pos.off_size = n * INODE_SIZE
               /\ pos.off_size + INODE_SIZE <= (IF pos.two_sec THEN 2 ELSE 1) * SECTOR_SIZE
  <1> DEFINE sum == n * INODE_SIZE
             sec == sum \div SECTOR_SIZE
             off == sum % SECTOR_SIZE
  <1>1. /\ n \in Nat /\ INODE_SIZE \in Nat \ {0} /\ SECTOR_SIZE \in Nat \ {0}
        /\ INODE_SIZE <= SECTOR_SIZE /\ MAX_FILES_PER_PART \in Nat \ {0}
    BY LayoutAssumption
  <1>2. sum \in Nat
    BY <1>1
  <1>3. sec \in Nat /\ off \in 0 .. SECTOR_SIZE - 1 /\ sum = SECTOR_SIZE * sec + off
    BY <1>1, <1>2, DivMod
  <1>4. sum < INODE_SIZE * MAX_FILES_PER_PART
    BY <1>1
  <1>5. INODE_SIZE * MAX_FILES_PER_PART <= SECTOR_SIZE * inode_table_sects
    <2>1. INODE_SIZE * MAX_FILES_PER_PART \in Nat
      BY <1>1
    <2> QED
      BY <1>1, <2>1, RoundUp DEF inode_table_sects
  <1>6. SECTOR_SIZE * sec < SECTOR_SIZE * inode_table_sects
    <2>1. SECTOR_SIZE * sec \in Nat /\ SECTOR_SIZE * inode_table_sects \in Nat
      BY <1>1, <1>3, Sizes
    <2>2. INODE_SIZE * MAX_FILES_PER_PART \in Nat
      BY <1>1
    <2> QED
      BY <1>2, <1>3, <1>4, <1>5, <2>1, <2>2
  <1>7. sec < inode_table_sects
    BY <1>1, <1>3, <1>6, Sizes
  <1>8. sec * SECTOR_SIZE + off = sum
    BY <1>1, <1>3
  <1>9. off + INODE_SIZE <= (IF ~(SECTOR_SIZE - off > INODE_SIZE) THEN 2 ELSE 1) * SECTOR_SIZE
    BY <1>1, <1>3
  <1>10. /\ inode_locate(n).sec = sec
         /\ inode_locate(n).off_size = off
         /\ inode_locate(n).two_sec = ~(SECTOR_SIZE - off > INODE_SIZE)
    BY DEF inode_locate
  <1>11. sec \in 0 .. inode_table_sects - 1
    BY <1>3, <1>7, Sizes
  <1> HIDE DEF sum, sec, off
  <1> QED
    BY <1>8, <1>9, <1>10, <1>11 DEF sum

-----------------------------------------------------------------------------
(* The inductive invariant.                                                *)

Bits8 == [0 .. 8 -> {0, 1}]
TableBytes == 0 .. (inode_table_sects + 1) * SECTOR_SIZE - 1

StoreTypes ==
  /\ table \in [TableBytes -> Nat]
  /\ block_sector \in Bits8 /\ block_bitmap \in Bits8 /\ inode_bitmap \in Bits8
  /\ blocks \in [FreeBlocks \cup {0} -> Nat \cup {NULL}]
  /\ heap \in [Addrs -> OpenInode \cup {NULL}]
  /\ open_inodes \in Seq(Addrs)
  /\ handle \in [Handles -> OpenHandle \cup {NULL}]
  /\ crashes \in Nat
  /\ stored \in [Inodes -> InodeSet \cup {NULL}]
  /\ torn \subseteq Inodes /\ dirty \subseteq Inodes

\* The list of open inodes: what is in memory, each inode once.
OpenOK ==
  /\ NoDup(open_inodes)
  /\ \A a \in Addrs : elem_find(open_inodes, a) <=> heap[a] # NULL
  /\ \A a, b \in Addrs :
        heap[a] # NULL /\ heap[b] # NULL /\ heap[a].inode.i_no = heap[b].inode.i_no => a = b
  /\ \A a \in Addrs :
        heap[a] # NULL =>
            /\ heap[a].inode.i_no \in Inodes
            /\ stored[heap[a].inode.i_no] # NULL
            /\ \/ heap[a].inode.i_no \in dirty \cup torn
               \/ heap[a].inode = stored[heap[a].inode.i_no]

\* Who has the inode at address a open.
Openers(f, a) == {g \in Handles : f[g] # NULL /\ f[g].addr = a}

HandlesOK ==
  \A h \in Handles :
    handle[h] # NULL =>
        /\ heap[handle[h].addr] # NULL
        /\ heap[handle[h].addr].inode.i_no = handle[h].no
        /\ heap[handle[h].addr].cnt >= Cardinality(Openers(handle, handle[h].addr))

\* The bytes of inode n in the table, and what they are for an inode.
Own(n) == 3 * n .. 3 * n + 2
Byte(inode, k) == IF k = 0 THEN inode.i_no ELSE IF k = 1 THEN inode.i_size ELSE inode.i_sectors_0

\* A directory without an entry, as far as sync_dir_entry's ASSERT can tell.
Empty(inode) == inode.i_size % DIR_SIZE = 0

\* inode_sync's buffer holds its own inode's bytes and, of the others, what is on disk;
\* the sectors already written hold the inode's own bytes.
SyncOK ==
  LET inode == call.inode
      n == inode.i_no
      at == call.sec * SECTOR_SIZE
  IN  /\ call = [kind |-> "sync", inode |-> inode, buf |-> call.buf, sec |-> call.sec,
                 secs |-> call.secs, done |-> call.done]
      /\ inode \in InodeSet /\ n \in Inodes
      /\ call.sec = inode_locate(n).sec
      /\ call.secs = IF inode_locate(n).two_sec THEN 2 ELSE 1
      /\ call.done \in 0 .. call.secs - 1
      /\ \A b \in 0 .. call.secs * SECTOR_SIZE - 1 :
            call.buf[b] = IF at + b \in Own(n) THEN Byte(inode, at + b - 3 * n) ELSE table[at + b]
      /\ \A k \in 0 .. 2 :
            3 * n + k < at + call.done * SECTOR_SIZE => table[3 * n + k] = Byte(inode, k)
      /\ \A a \in Addrs : heap[a] # NULL /\ heap[a].inode.i_no = n => heap[a].inode = inode
      /\ Empty(inode) => /\ inode.i_sectors_0 = 0
                         /\ Empty(OnDisk(n)) /\ OnDisk(n).i_sectors_0 = 0

\* The directory that gets its first entry.
EntryOK ==
  /\ call = [kind |-> call.kind, addr |-> call.addr, idx |-> call.idx]
  /\ call.addr \in Addrs /\ heap[call.addr] # NULL
  /\ call.idx \in 0 .. 7
  /\ heap[call.addr].inode.i_no \in dirty
  /\ Empty(heap[call.addr].inode)

CallOK ==
  \/ call.kind \in {"none", "halt"}
  \/ call.kind = "sync" /\ SyncOK
  \/ call.kind \in {"bitmap_sync", "write_entry"} /\ EntryOK

\* The inode table.
DiskOK ==
  /\ \A n \in Inodes :
        /\ \/ n \in torn \/ (Syncing(n) /\ call.done > 0)
           \/ OnDisk(n) = IF stored[n] = NULL THEN Inode(0, 0, 0) ELSE stored[n]
        /\ stored[n] # NULL => stored[n].i_no = n /\ OnDisk(n).i_no = n
        /\ n \in torn => stored[n] # NULL
        /\ Empty(OnDisk(n)) => OnDisk(n).i_sectors_0 = 0
  /\ \A n \in (0 .. MAX_FILES_PER_PART - 1) \ Inodes : OnDisk(n) = Inode(0, 0, 0)
  /\ \A b \in TableBytes : b >= inode_table_sects * SECTOR_SIZE => table[b] = 255

\* An empty directory that is open has no block, in memory and on disk.
EmptyOK ==
  \A a \in Addrs :
    heap[a] # NULL /\ Empty(heap[a].inode) =>
        /\ Empty(OnDisk(heap[a].inode.i_no)) /\ OnDisk(heap[a].inode.i_no).i_sectors_0 = 0
        /\ (call.kind = "write_entry" /\ call.addr = a) \/ heap[a].inode.i_sectors_0 = 0

StoreInv == StoreTypes /\ OpenOK /\ HandlesOK /\ CallOK /\ DiskOK /\ EmptyOK

\* The block of an inode is its own.
Owns(f, inode) ==
  inode.i_sectors_0 # 0 =>
    \E i \in DOMAIN f : inode.i_sectors_0 = data_start_lba + i /\ f[i] = inode.i_no

\* Before the first power cut: blocks that are free hold nothing, an inode's block is
\* used and holds the inode's entries, and the block of the entry that is being written
\* held nothing before.
BlockOK ==
  crashes = 0 =>
    /\ torn = {}
    /\ \A i \in 0 .. 7 : block_bitmap[i] = 0 => i \in DOMAIN blocks /\ blocks[i] = NULL
    /\ \A n \in Inodes : stored[n] # NULL => Owns(blocks, stored[n])
    /\ \A a \in Addrs :
        \/ heap[a] = NULL \/ Owns(blocks, heap[a].inode)
        \/ call.kind = "write_entry" /\ call.addr = a
    /\ call.kind = "sync" => Owns(blocks, call.inode)
    /\ call.kind \in {"bitmap_sync", "write_entry"} =>
        /\ call.idx \in DOMAIN blocks /\ blocks[call.idx] = NULL
        /\ block_bitmap[call.idx] # 0
    /\ call.kind = "write_entry" =>
        heap[call.addr].inode.i_sectors_0 = data_start_lba + call.idx

-----------------------------------------------------------------------------
(* Sizes and places.                                                       *)

LEMMA StoreSizes ==
  /\ SECTOR_SIZE \in Nat /\ SECTOR_SIZE > 0 /\ INODE_SIZE = 3
  /\ DIR_SIZE \in Nat /\ DIR_ENTRY_SIZE \in Nat /\ 0 < DIR_ENTRY_SIZE /\ DIR_ENTRY_SIZE < DIR_SIZE
  /\ MAX_FILES_PER_PART \in Nat /\ inode_table_sects \in Nat /\ inode_table_sects > 0
  /\ data_start_lba \in Nat /\ data_start_lba > 0
  /\ 3 * MAX_FILES_PER_PART <= inode_table_sects * SECTOR_SIZE
  /\ inode_table_sects * SECTOR_SIZE \in Nat
  /\ (inode_table_sects + 1) * SECTOR_SIZE = inode_table_sects * SECTOR_SIZE + SECTOR_SIZE
  <1>1. /\ SECTOR_SIZE \in Nat /\ SECTOR_SIZE > 0 /\ INODE_SIZE = 3
        /\ DIR_SIZE \in Nat /\ DIR_ENTRY_SIZE \in Nat /\ 0 < DIR_ENTRY_SIZE
        /\ DIR_ENTRY_SIZE < DIR_SIZE /\ MAX_FILES_PER_PART \in Nat /\ MAX_FILES_PER_PART > 0
    BY LayoutAssumption, FileStoreAssumption
  <1>2. PICK x : x = INODE_SIZE * MAX_FILES_PER_PART
    OBVIOUS
  <1>3. x \in Nat /\ x = 3 * MAX_FILES_PER_PART /\ x > 0
    BY <1>1, <1>2
  <1>4. inode_table_sects \in Nat /\ x <= SECTOR_SIZE * inode_table_sects
    BY <1>1, <1>2, <1>3, RoundUp DEF inode_table_sects
  <1>5. inode_table_sects > 0
    BY <1>1, <1>3, <1>4
  <1>6. /\ inode_table_sects * SECTOR_SIZE \in Nat
        /\ SECTOR_SIZE * inode_table_sects = inode_table_sects * SECTOR_SIZE
        /\ (inode_table_sects + 1) * SECTOR_SIZE = inode_table_sects * SECTOR_SIZE + SECTOR_SIZE
    BY <1>1, <1>4
  <1> QED BY <1>1, <1>3, <1>4, <1>5, <1>6 DEF data_start_lba

\* The bytes of an inode are in the table, and those of two inodes apart.
LEMMA OwnLemma ==
  ASSUME NEW n \in 0 .. MAX_FILES_PER_PART - 1
  PROVE  /\ n \in Nat /\ Own(n) = {3 * n, 3 * n + 1, 3 * n + 2}
         /\ \A p \in Own(n) : p \in TableBytes /\ p < inode_table_sects * SECTOR_SIZE
         /\ \A m \in 0 .. MAX_FILES_PER_PART - 1 : m # n => Own(m) \cap Own(n) = {}
  <1>1. n \in Nat /\ Own(n) = {3 * n, 3 * n + 1, 3 * n + 2}
    BY StoreSizes DEF Own
  <1>2. 3 * n + 2 < inode_table_sects * SECTOR_SIZE
    BY StoreSizes
  <1>3. \A p \in Own(n) : p \in TableBytes /\ p < inode_table_sects * SECTOR_SIZE
    <2>1. PICK t : t = inode_table_sects * SECTOR_SIZE
      OBVIOUS
    <2>2. t \in Nat /\ SECTOR_SIZE \in Nat /\ TableBytes = 0 .. t + SECTOR_SIZE - 1
      BY <2>1, StoreSizes DEF TableBytes
    <2> QED BY <1>1, <1>2, <2>1, <2>2
  <1>4. \A m \in 0 .. MAX_FILES_PER_PART - 1 : m # n => Own(m) \cap Own(n) = {}
    BY StoreSizes DEF Own
  <1> QED BY <1>1, <1>3, <1>4

\* An inode of the table by its bytes.
LEMMA OnDiskLemma ==
  ASSUME NEW n \in 0 .. MAX_FILES_PER_PART - 1
  PROVE  /\ OnDisk(n) = Inode(table[3 * n], table[3 * n + 1], table[3 * n + 2])
         /\ OnDisk(n)' = Inode(table'[3 * n], table'[3 * n + 1], table'[3 * n + 2])
  <1>1. n * INODE_SIZE = 3 * n
    BY StoreSizes
  <1> QED BY <1>1 DEF OnDisk, get

LEMMA InodesLemma ==
  ASSUME NEW n \in Inodes
  PROVE  n \in 0 .. MAX_FILES_PER_PART - 1 /\ n \in Nat
  BY FileStoreAssumption, StoreSizes

LEMMA InodeLemma ==
  ASSUME NEW x, NEW y, NEW z
  PROVE  /\ Inode(x, y, z).i_no = x /\ Inode(x, y, z).i_size = y
         /\ Inode(x, y, z).i_sectors_0 = z
         /\ x \in Nat /\ y \in Nat /\ z \in Nat => Inode(x, y, z) \in InodeSet
  BY DEF Inode, InodeSet

\* Where inode_locate says an inode is.
LEMMA PlaceLemma ==
  ASSUME NEW n \in 0 .. MAX_FILES_PER_PART - 1,
         NEW sec, sec = inode_locate(n).sec,
         NEW secs, secs = (IF inode_locate(n).two_sec THEN 2 ELSE 1),
         NEW at, at = sec * SECTOR_SIZE
  PROVE  /\ sec \in Nat /\ at \in Nat /\ secs \in {1, 2}
         /\ at <= 3 * n /\ 3 * n + 2 < at + secs * SECTOR_SIZE /\ 3 * n < at + SECTOR_SIZE
         /\ at + SECTOR_SIZE <= inode_table_sects * SECTOR_SIZE
         /\ Fits(n) => 3 * n + 2 < at + SECTOR_SIZE
         /\ at + inode_locate(n).off_size = 3 * n /\ inode_locate(n).off_size \in Nat
  <1> DEFINE off == inode_locate(n).off_size
  <1>1. /\ sec \in 0 .. inode_table_sects - 1 /\ at + off = n * INODE_SIZE
        /\ off + INODE_SIZE <= secs * SECTOR_SIZE /\ secs \in {1, 2}
    BY InodeReached
  <1>2. n \in Nat /\ n * INODE_SIZE = 3 * n /\ 3 * n \in Nat
    BY StoreSizes
  <1>3. sec = (3 * n) \div SECTOR_SIZE /\ off = (3 * n) % SECTOR_SIZE
    BY <1>2 DEF inode_locate
  <1>4. off \in Nat /\ off < SECTOR_SIZE /\ sec \in Nat
    BY <1>1, <1>2, <1>3, StoreSizes
  <1>5. at \in Nat
    BY <1>4, StoreSizes
  <1>6. (sec + 1) * SECTOR_SIZE = at + SECTOR_SIZE
    BY <1>4, StoreSizes
  <1>7. at + SECTOR_SIZE <= inode_table_sects * SECTOR_SIZE
    <2>1. sec + 1 <= inode_table_sects
      BY <1>1, StoreSizes
    <2>2. (sec + 1) * SECTOR_SIZE <= inode_table_sects * SECTOR_SIZE
      BY <1>4, <2>1, StoreSizes
    <2> QED BY <1>6, <2>2
  <1>8. ASSUME Fits(n) PROVE 3 * n + 2 < at + SECTOR_SIZE
    <2>1. PICK y : y = 3 * n + 2
      OBVIOUS
    <2>2. y \in Nat /\ n * INODE_SIZE + INODE_SIZE - 1 = y
      BY <1>2, <2>1, StoreSizes
    <2>3. sec = y \div SECTOR_SIZE
      BY <1>2, <1>3, <1>8, <2>2 DEF Fits
    <2>4. y = SECTOR_SIZE * sec + (y % SECTOR_SIZE) /\ y % SECTOR_SIZE \in 0 .. SECTOR_SIZE - 1
      BY <2>2, <2>3, DivMod, StoreSizes
    <2>5. SECTOR_SIZE * sec = at
      BY <1>4, StoreSizes
    <2> QED BY <1>5, <2>1, <2>2, <2>4, <2>5, StoreSizes
  <1>9. at + off = 3 * n /\ off + 3 <= secs * SECTOR_SIZE
    BY <1>1, <1>2, StoreSizes
  <1> HIDE DEF off
  <1>10. at <= 3 * n /\ 3 * n + 2 < at + secs * SECTOR_SIZE /\ 3 * n < at + SECTOR_SIZE
    <2>1. secs * SECTOR_SIZE \in Nat
      BY <1>1, StoreSizes
    <2> QED BY <1>2, <1>4, <1>5, <1>9, <2>1, StoreSizes
  <1> QED BY <1>1, <1>4, <1>5, <1>7, <1>8, <1>9, <1>10 DEF off

\* Adding an entry to an empty directory.
LEMMA GrowLemma ==
  ASSUME NEW x \in Nat, x % DIR_SIZE = 0
  PROVE  (x + DIR_ENTRY_SIZE) % DIR_SIZE # 0
  <1>1. x = DIR_SIZE * (x \div DIR_SIZE) + 0 /\ x \div DIR_SIZE \in Nat
    BY DivMod, StoreSizes
  <1>2. PICK y, q, r : /\ y = x + DIR_ENTRY_SIZE /\ q = y \div DIR_SIZE /\ r = y % DIR_SIZE
    OBVIOUS
  <1>3. q \in Nat /\ y = DIR_SIZE * q + r /\ r \in 0 .. DIR_SIZE - 1
    <2>1. y \in Nat /\ DIR_SIZE \in Nat \ {0}
      BY <1>2, StoreSizes
    <2> QED BY <1>2, <2>1, DivMod
  <1>4. PICK d : d = q - (x \div DIR_SIZE)
    OBVIOUS
  <1>5. d \in Int /\ DIR_SIZE * d = DIR_SIZE * q - DIR_SIZE * (x \div DIR_SIZE)
    BY <1>1, <1>3, <1>4, StoreSizes
  <1>6. r = 0 => DIR_SIZE * d = DIR_ENTRY_SIZE
    BY <1>1, <1>2, <1>3, <1>5, StoreSizes
  <1>7. d <= 0 => DIR_SIZE * d <= 0
    BY <1>5, StoreSizes
  <1>8. d >= 1 => DIR_SIZE * d >= DIR_SIZE
    BY <1>5, StoreSizes
  <1>9. r # 0
    BY <1>5, <1>6, <1>7, <1>8, StoreSizes
  <1> QED BY <1>2, <1>9

-----------------------------------------------------------------------------
(* inode_sync.                                                             *)

\* What is in its buffer when it starts.
LEMMA ReadLemma ==
  ASSUME NEW n \in Inodes, NEW inode, inode.i_no = n,
         NEW c, c = inode_sync_read(inode)
  PROVE  /\ c.kind = "sync" /\ c.inode = inode /\ c.done = 0
         /\ c.sec = inode_locate(n).sec
         /\ c.secs = IF inode_locate(n).two_sec THEN 2 ELSE 1
         /\ \A b \in 0 .. c.secs * SECTOR_SIZE - 1 :
              LET at == c.sec * SECTOR_SIZE
              IN  c.buf[b] = IF at + b \in Own(n) THEN Byte(inode, at + b - 3 * n) ELSE table[at + b]
  <1> DEFINE pos == inode_locate(n)
             secs == IF pos.two_sec THEN 2 ELSE 1
             buf == [b \in 0 .. secs * SECTOR_SIZE - 1 |-> table[pos.sec * SECTOR_SIZE + b]]
  <1>1. c = [kind |-> "sync", inode |-> inode, buf |-> put(buf, pos.off_size, inode),
             sec |-> pos.sec, secs |-> secs, done |-> 0]
    BY DEF inode_sync_read
  <1>2. /\ c.kind = "sync" /\ c.inode = inode /\ c.done = 0
        /\ c.sec = pos.sec /\ c.secs = secs /\ c.buf = put(buf, pos.off_size, inode)
    BY <1>1
  <1>3. PICK at, off : at = pos.sec * SECTOR_SIZE /\ off = pos.off_size
    OBVIOUS
  <1>4. n \in 0 .. MAX_FILES_PER_PART - 1
    BY InodesLemma
  <1>5. at \in Nat /\ off \in Nat /\ at + off = 3 * n /\ n \in Nat
    BY <1>3, <1>4, PlaceLemma
  <1>6. PICK len : len = secs * SECTOR_SIZE
    OBVIOUS
  <1>7. ASSUME NEW b \in 0 .. len - 1
        PROVE  c.buf[b] = IF at + b \in Own(n) THEN Byte(inode, at + b - 3 * n) ELSE table[at + b]
    <2>1. DOMAIN buf = 0 .. len - 1 /\ buf[b] = table[at + b]
      BY <1>3, <1>6, <1>7
    <2> HIDE DEF buf
    <2>2. c.buf = put(buf, off, inode)
      BY <1>2, <1>3
    <2>3. c.buf[b] = CASE b = off -> inode.i_no
                       [] b = off + 1 -> inode.i_size
                       [] b = off + 2 -> inode.i_sectors_0
                       [] OTHER -> buf[b]
      BY <2>1, <2>2 DEF put
    <2>4. b \in Int /\ (at + b \in Own(n) <=> b \in {off, off + 1, off + 2})
      BY <1>5, <1>6 DEF Own
    <2>5. CASE b = off
      BY <1>5, <2>3, <2>4, <2>5 DEF Byte
    <2>6. CASE b = off + 1
      BY <1>5, <2>3, <2>4, <2>6 DEF Byte
    <2>7. CASE b = off + 2
      BY <1>5, <2>3, <2>4, <2>7 DEF Byte
    <2>8. CASE b \notin {off, off + 1, off + 2}
      BY <2>1, <2>3, <2>4, <2>8
    <2> QED BY <2>5, <2>6, <2>7, <2>8
  <1> QED BY <1>2, <1>3, <1>6, <1>7

\* What a write of one sector does to the table: nothing but put the inode's own bytes,
\* those that are in the sector, in their places.
LEMMA WriteLemma ==
  ASSUME StoreTypes, SyncOK, inode_sync_write,
         NEW n, n = call.inode.i_no,
         NEW end, end = call.sec * SECTOR_SIZE + (call.done + 1) * SECTOR_SIZE
  PROVE  /\ table' \in [TableBytes -> Nat]
         /\ \A p \in TableBytes : p \notin Own(n) => table'[p] = table[p]
         /\ \A k \in 0 .. 2 : table'[3 * n + k] = IF 3 * n + k < end THEN Byte(call.inode, k)
                                                 ELSE table[3 * n + k]
         /\ call.done + 1 = call.secs => \A k \in 0 .. 2 : 3 * n + k < end
         /\ Fits(n) => \A k \in 0 .. 2 : 3 * n + k < end
  <1>1. n \in Inodes /\ n \in 0 .. MAX_FILES_PER_PART - 1 /\ n \in Nat
    BY InodesLemma DEF SyncOK
  <1>2. PICK sec, secs, done, at : /\ sec = call.sec /\ secs = call.secs /\ done = call.done
                                   /\ at = sec * SECTOR_SIZE
    OBVIOUS
  <1>3. /\ sec \in Nat /\ at \in Nat /\ secs \in {1, 2}
        /\ at <= 3 * n /\ 3 * n + 2 < at + secs * SECTOR_SIZE
        /\ at + SECTOR_SIZE <= inode_table_sects * SECTOR_SIZE
        /\ Fits(n) => 3 * n + 2 < at + SECTOR_SIZE
    BY <1>1, <1>2, PlaceLemma DEF SyncOK
  <1>4. done \in {0, 1} /\ done < secs
    BY <1>2, <1>3 DEF SyncOK
  <1>5. PICK base, len : base = (sec + done) * SECTOR_SIZE /\ len = secs * SECTOR_SIZE
    OBVIOUS
  <1>6. /\ base = at + done * SECTOR_SIZE /\ end = base + SECTOR_SIZE
        /\ len = IF secs = 1 THEN SECTOR_SIZE ELSE SECTOR_SIZE + SECTOR_SIZE
        /\ base = IF done = 0 THEN at ELSE at + SECTOR_SIZE
    BY <1>2, <1>3, <1>4, <1>5, StoreSizes
  <1>7. table' = [p \in DOMAIN table |-> IF p \in base .. base + SECTOR_SIZE - 1
                                        THEN call.buf[p - at] ELSE table[p]]
    BY <1>2, <1>5 DEF inode_sync_write
  <1>8. DOMAIN table = TableBytes /\ \A p \in TableBytes : table[p] \in Nat
    BY DEF StoreTypes
  <1>9. \A b \in 0 .. len - 1 :
          call.buf[b] = IF at + b \in Own(n) THEN Byte(call.inode, at + b - 3 * n) ELSE table[at + b]
    BY <1>2, <1>5 DEF SyncOK
  <1>10. ASSUME NEW p \in TableBytes
         PROVE  table'[p] = IF p \in base .. base + SECTOR_SIZE - 1 /\ p \in Own(n)
                            THEN Byte(call.inode, p - 3 * n) ELSE table[p]
    <2>1. CASE p \in base .. base + SECTOR_SIZE - 1
      <3>1. p - at \in 0 .. len - 1 /\ at + (p - at) = p
        <4>1. at \in Nat /\ SECTOR_SIZE \in Nat /\ base \in Nat /\ len \in Nat
          BY <1>3, <1>4, <1>6, StoreSizes
        <4>2. at <= base /\ base + SECTOR_SIZE <= at + len
          <5>1. CASE secs = 1
            BY <1>4, <1>6, <4>1, <5>1
          <5>2. CASE secs = 2
            BY <1>4, <1>6, <4>1, <5>2
          <5> QED BY <1>3, <5>1, <5>2
        <4>3. p \in Nat /\ base <= p /\ p < base + SECTOR_SIZE
          BY <2>1, <4>1
        <4> QED BY <4>1, <4>2, <4>3
      <3>2. PICK b : b = p - at
        OBVIOUS
      <3>3. b \in 0 .. len - 1 /\ at + b = p
        BY <3>1, <3>2
      <3>4. call.buf[b] = IF at + b \in Own(n) THEN Byte(call.inode, at + b - 3 * n) ELSE table[at + b]
        BY <1>9, <3>3
      <3>5. table'[p] = call.buf[b]
        BY <1>7, <1>8, <2>1, <3>2
      <3>6. at + b - 3 * n = p - 3 * n
        BY <1>1, <1>3, <3>2, <3>3
      <3> QED BY <2>1, <3>3, <3>4, <3>5, <3>6
    <2>2. CASE p \notin base .. base + SECTOR_SIZE - 1
      BY <1>7, <1>8, <2>2
    <2> QED BY <2>1, <2>2
  <1>11. \A k \in 0 .. 2 : 3 * n + k \in Own(n) /\ 3 * n + k \in TableBytes /\ (3 * n + k) - 3 * n = k
    BY <1>1, OwnLemma DEF Own
  <1>12. ASSUME NEW k \in 0 .. 2
         PROVE  table'[3 * n + k] = IF 3 * n + k < end THEN Byte(call.inode, k)
                                    ELSE table[3 * n + k]
    <2>1. PICK p : p = 3 * n + k
      OBVIOUS
    <2>2. p \in Int /\ p \in Own(n) /\ p \in TableBytes /\ p - 3 * n = k /\ at <= p
      BY <1>1, <1>3, <1>11, <2>1
    <2>3. CASE p < base
      <3>1. table[p] = Byte(call.inode, k)
        BY <1>2, <1>6, <2>1, <2>3 DEF SyncOK
      <3>2. p < end /\ p \notin base .. base + SECTOR_SIZE - 1
        BY <1>3, <1>4, <1>6, <2>2, <2>3, StoreSizes
      <3> QED BY <1>10, <2>1, <2>2, <3>1, <3>2
    <2>4. CASE base <= p /\ p < end
      <3>1. p \in base .. base + SECTOR_SIZE - 1
        BY <1>3, <1>6, <2>2, <2>4, StoreSizes
      <3> QED BY <1>10, <2>1, <2>2, <2>4, <3>1
    <2>5. CASE end <= p
      <3>1. p \notin base .. base + SECTOR_SIZE - 1 /\ ~(p < end)
        BY <1>3, <1>4, <1>6, <2>2, <2>5, StoreSizes
      <3> QED BY <1>10, <2>1, <2>2, <3>1
    <2>6. base \in Int /\ end \in Int
      BY <1>3, <1>4, <1>6, StoreSizes
    <2> QED BY <2>2, <2>3, <2>4, <2>5, <2>6
  <1>13. \A k \in 0 .. 2 : Byte(call.inode, k) \in Nat
    BY DEF SyncOK, InodeSet, Byte
  <1>14. \A p \in TableBytes : table'[p] \in Nat
    <2>1. ASSUME NEW p \in TableBytes, p \in Own(n) PROVE Byte(call.inode, p - 3 * n) \in Nat
      <3>1. p - 3 * n \in 0 .. 2
        BY <1>1, <2>1 DEF Own
      <3> QED BY <1>13, <3>1
    <2> QED BY <1>8, <1>10, <2>1
  <1>15. table' \in [TableBytes -> Nat]
    BY <1>7, <1>8, <1>14
  <1>16. done + 1 = secs => 3 * n + 2 < end
    BY <1>3, <1>4, <1>6, StoreSizes
  <1>17. Fits(n) => 3 * n + 2 < end
    BY <1>1, <1>3, <1>4, <1>6, StoreSizes
  <1>18. 3 * n + 2 < end => \A k \in 0 .. 2 : 3 * n + k < end
    BY <1>1, <1>3, <1>4, <1>6, StoreSizes
  <1> QED BY <1>2, <1>10, <1>12, <1>15, <1>16, <1>17, <1>18

-----------------------------------------------------------------------------
(* What is in memory.                                                      *)

LEMMA MemoryLemma ==
  ASSUME StoreTypes
  PROVE  /\ \A a \in Addrs : heap[a] # NULL =>
                heap[a] \in OpenInode /\ heap[a].inode \in InodeSet /\ heap[a].cnt \in Nat
         /\ \A h \in Handles : handle[h] # NULL =>
                /\ handle[h] \in OpenHandle /\ handle[h].addr \in Addrs
                /\ handle[h].no \in Inodes
         /\ \A n \in Inodes : stored[n] # NULL => stored[n] \in InodeSet
  BY DEF StoreTypes, OpenInode, OpenHandle

LEMMA NullLemma ==
  /\ \A x \in Nat : x # NULL
  /\ \A x \in InodeSet : x # NULL
  /\ \A x \in OpenInode : x # NULL
  /\ \A x \in OpenHandle : x # NULL
  BY FileStoreAssumption

LEMMA FieldsLemma ==
  /\ \A x \in InodeSet : x = Inode(x.i_no, x.i_size, x.i_sectors_0) /\ x.i_no \in Nat
                         /\ x.i_size \in Nat /\ x.i_sectors_0 \in Nat
  /\ \A x \in OpenInode, c \in Nat :
        [x EXCEPT !.cnt = c] \in OpenInode /\ [x EXCEPT !.cnt = c].inode = x.inode
        /\ [x EXCEPT !.cnt = c].cnt = c
  /\ \A x \in InodeSet, c \in Nat :
        [inode |-> x, cnt |-> c] \in OpenInode
  BY DEF InodeSet, OpenInode, Inode

\* An inode read from the table.
LEMMA DiskTypes ==
  ASSUME StoreTypes, NEW n \in 0 .. MAX_FILES_PER_PART - 1
  PROVE  OnDisk(n) \in InodeSet
  <1>1. Own(n) = {3 * n, 3 * n + 1, 3 * n + 2} /\ \A p \in Own(n) : p \in TableBytes
    BY OwnLemma
  <1>2. table[3 * n] \in Nat /\ table[3 * n + 1] \in Nat /\ table[3 * n + 2] \in Nat
    BY <1>1 DEF StoreTypes
  <1> QED BY <1>2, OnDiskLemma, InodeLemma

\* As long as no inode_sync is going on, the table stays as it is.
LEMMA DiskFrame ==
  ASSUME DiskOK, UNCHANGED << table, stored, torn >>, call.kind # "sync"
  PROVE  DiskOK'
  BY DEF DiskOK, Syncing, OnDisk, get, Empty

LEMMA NoOpeners ==
  ASSUME NEW S, S \in SUBSET Handles
  PROVE  IsFiniteSet(S) /\ Cardinality(S) \in Nat
  BY FileStoreAssumption, FS_Subset, FS_CardinalityType

\* One handle more or less.
LEMMA HandleGain ==
  ASSUME NEW f, NEW g, NEW h \in Handles, f[h] = NULL, NEW r \in OpenHandle,
         g[h] = r, \A k \in Handles : k # h => g[k] = f[k]
  PROVE  /\ \A a : a # r.addr => Openers(g, a) = Openers(f, a)
         /\ Cardinality(Openers(g, r.addr)) = Cardinality(Openers(f, r.addr)) + 1
         /\ Cardinality(Openers(f, r.addr)) \in Nat
  <1>1. \A k \in Handles : g[k] = IF k = h THEN r ELSE f[k]
    OBVIOUS
  <1>2. r # NULL
    BY NullLemma
  <1>3. \A a : a # r.addr => Openers(g, a) = Openers(f, a)
    BY <1>1, <1>2 DEF Openers
  <1>4. Openers(g, r.addr) = Openers(f, r.addr) \cup {h} /\ h \notin Openers(f, r.addr)
    BY <1>1, <1>2 DEF Openers
  <1>5. IsFiniteSet(Openers(f, r.addr)) /\ Cardinality(Openers(f, r.addr)) \in Nat
    BY NoOpeners DEF Openers
  <1>6. PICK S : S = Openers(f, r.addr)
    OBVIOUS
  <1>7. Cardinality(S \cup {h}) = Cardinality(S) + 1
    BY <1>4, <1>5, <1>6, FS_AddElement
  <1> QED BY <1>1, <1>3, <1>4, <1>5, <1>6, <1>7

LEMMA HandleLoss ==
  ASSUME NEW f, NEW g, NEW h \in Handles, f[h] # NULL, NEW a, a = f[h].addr,
         g[h] = NULL, \A k \in Handles : k # h => g[k] = f[k]
  PROVE  /\ \A b : b # a => Openers(g, b) = Openers(f, b)
         /\ Cardinality(Openers(g, a)) = Cardinality(Openers(f, a)) - 1
         /\ Cardinality(Openers(f, a)) \in Nat \ {0}
         /\ Cardinality(Openers(f, a)) = 1 => \A k \in Openers(f, a) : k = h
  <1>1. \A k \in Handles : g[k] = IF k = h THEN NULL ELSE f[k]
    OBVIOUS
  <1>2. \A b : b # a => Openers(g, b) = Openers(f, b)
    BY <1>1 DEF Openers
  <1>3. Openers(g, a) = Openers(f, a) \ {h} /\ h \in Openers(f, a)
    BY <1>1 DEF Openers
  <1>4. IsFiniteSet(Openers(f, a)) /\ Cardinality(Openers(f, a)) \in Nat
    BY NoOpeners DEF Openers
  <1>5. Cardinality(Openers(g, a)) = Cardinality(Openers(f, a)) - 1
    BY <1>3, <1>4, FS_RemoveElement
  <1>6. IsFiniteSet(Openers(g, a)) /\ Cardinality(Openers(g, a)) \in Nat
    BY <1>3, <1>4, FS_Subset, FS_CardinalityType
  <1>7. Cardinality(Openers(f, a)) = 1 => Openers(g, a) = {}
    BY <1>5, <1>6, FS_EmptySet
  <1>8. Cardinality(Openers(f, a)) = 1 => \A k \in Openers(f, a) : k = h
    BY <1>3, <1>7
  <1>9. Cardinality(Openers(f, a)) # 0
    BY <1>4, <1>5, <1>6
  <1> QED BY <1>1, <1>2, <1>4, <1>5, <1>8, <1>9

-----------------------------------------------------------------------------
(* Steps that leave the inodes in memory and on disk as they are.          *)

\* The same inodes are in memory, whatever their counters.
SameInodes ==
  \A a \in Addrs : /\ heap'[a] = NULL <=> heap[a] = NULL
                   /\ heap[a] # NULL => heap'[a].inode = heap[a].inode

LEMMA OpenFrame ==
  ASSUME OpenOK, SameInodes, UNCHANGED << open_inodes, stored, torn >>,
         dirty \subseteq dirty'
  PROVE  OpenOK'
  BY DEF OpenOK, SameInodes

LEMMA EmptyFrame ==
  ASSUME EmptyOK, SameInodes, UNCHANGED table, call.kind # "write_entry"
  PROVE  EmptyOK'
  BY DEF EmptyOK, SameInodes, OnDisk, get, Empty

LEMMA IdleLemma ==
  ASSUME call = Idle
  PROVE  call.kind = "none"
  BY DEF Idle

LEMMA IdleAfter ==
  ASSUME call' = Idle
  PROVE  CallOK' /\ call'.kind = "none"
  BY DEF CallOK, Idle

LEMMA CloseStep ==
  ASSUME StoreInv, NEW h \in Handles, dir_close(h)
  PROVE  StoreInv'
  <1>1. /\ call = Idle /\ handle[h] # NULL /\ handle' = [handle EXCEPT ![h] = NULL]
        /\ UNCHANGED << table, block_sector, blocks, block_bitmap, inode_bitmap, heap,
                        open_inodes, call, crashes, stored, torn, dirty >>
    BY DEF dir_close, disk, history
  <1>2. PICK a : a = handle[h].addr
    OBVIOUS
  <1>3. /\ \A b : b # a => Openers(handle', b) = Openers(handle, b)
        /\ Cardinality(Openers(handle', a)) = Cardinality(Openers(handle, a)) - 1
        /\ Cardinality(Openers(handle, a)) \in Nat \ {0}
        /\ \A g \in Handles : handle'[g] = IF g = h THEN NULL ELSE handle[g]
        /\ handle' \in [Handles -> OpenHandle \cup {NULL}]
    <2>1. StoreTypes
      BY DEF StoreInv
    <2>2. /\ \A g \in Handles : handle'[g] = IF g = h THEN NULL ELSE handle[g]
          /\ handle' \in [Handles -> OpenHandle \cup {NULL}]
      BY <1>1, <1>2, <2>1 DEF StoreTypes
    <2>3. handle[h] # NULL /\ a = handle[h].addr
      BY <1>1, <1>2
    <2>4. /\ \A b : b # a => Openers(handle', b) = Openers(handle, b)
          /\ Cardinality(Openers(handle', a)) = Cardinality(Openers(handle, a)) - 1
          /\ Cardinality(Openers(handle, a)) \in Nat \ {0}
          /\ Cardinality(Openers(handle, a)) = 1 => \A g \in Openers(handle, a) : g = h
      <3>1. handle'[h] = NULL /\ \A k \in Handles : k # h => handle'[k] = handle[k]
        BY <2>2
      <3> QED BY <2>3, <3>1, HandleLoss
    <2> QED BY <2>2, <2>4
  <1>4. StoreTypes'
    BY <1>1, <1>3 DEF StoreInv, StoreTypes
  <1>5. SameInodes
    BY <1>1 DEF SameInodes
  <1>6. OpenOK' /\ EmptyOK'
    BY <1>1, <1>5, OpenFrame, EmptyFrame, IdleLemma DEF StoreInv
  <1>7. CallOK' /\ DiskOK'
    BY <1>1, IdleLemma, IdleAfter, DiskFrame DEF StoreInv
  <1>8. ASSUME NEW g \in Handles, handle'[g] # NULL
        PROVE  /\ heap[handle'[g].addr] # NULL
               /\ heap[handle'[g].addr].inode.i_no = handle'[g].no
               /\ heap[handle'[g].addr].cnt >= Cardinality(Openers(handle', handle'[g].addr))
    <2>1. handle'[g] = handle[g] /\ handle[g] # NULL
      BY <1>3, <1>8
    <2>2. PICK b : b = handle[g].addr
      OBVIOUS
    <2>3. /\ heap[b] # NULL /\ heap[b].inode.i_no = handle[g].no
          /\ heap[b].cnt >= Cardinality(Openers(handle, b)) /\ heap[b].cnt \in Nat
      BY <2>1, <2>2, MemoryLemma DEF StoreInv, HandlesOK
    <2>4. heap[b].cnt >= Cardinality(Openers(handle', b))
      BY <1>3, <2>3
    <2> QED BY <2>1, <2>2, <2>3, <2>4
  <1>9. HandlesOK'
    BY <1>1, <1>8 DEF HandlesOK
  <1> QED BY <1>4, <1>6, <1>7, <1>9 DEF StoreInv

\* The last opener of a file frees its inode, an earlier one is counted off.
LEMMA InodeCloseStep ==
  ASSUME StoreInv, NEW h \in Handles, inode_close(h)
  PROVE  StoreInv'
  <1>1. PICK a : a = handle[h].addr
    OBVIOUS
  <1>2. /\ call = Idle /\ handle[h] # NULL /\ handle' = [handle EXCEPT ![h] = NULL]
        /\ UNCHANGED << table, block_sector, blocks, block_bitmap, inode_bitmap, call,
                        crashes, stored, torn >>
    BY DEF inode_close, disk
  <1>3. /\ \A b : b # a => Openers(handle', b) = Openers(handle, b)
        /\ Cardinality(Openers(handle', a)) = Cardinality(Openers(handle, a)) - 1
        /\ Cardinality(Openers(handle, a)) \in Nat \ {0}
        /\ Cardinality(Openers(handle, a)) = 1 => \A g \in Openers(handle, a) : g = h
        /\ \A g \in Handles : handle'[g] = IF g = h THEN NULL ELSE handle[g]
        /\ handle' \in [Handles -> OpenHandle \cup {NULL}]
    <2>1. StoreTypes
      BY DEF StoreInv
    <2>2. /\ \A g \in Handles : handle'[g] = IF g = h THEN NULL ELSE handle[g]
          /\ handle' \in [Handles -> OpenHandle \cup {NULL}]
      BY <1>1, <1>2, <2>1 DEF StoreTypes
    <2>3. handle[h] # NULL /\ a = handle[h].addr
      BY <1>1, <1>2
    <2>4. /\ \A b : b # a => Openers(handle', b) = Openers(handle, b)
          /\ Cardinality(Openers(handle', a)) = Cardinality(Openers(handle, a)) - 1
          /\ Cardinality(Openers(handle, a)) \in Nat \ {0}
          /\ Cardinality(Openers(handle, a)) = 1 => \A g \in Openers(handle, a) : g = h
      <3>1. handle'[h] = NULL /\ \A k \in Handles : k # h => handle'[k] = handle[k]
        BY <2>2
      <3> QED BY <2>3, <3>1, HandleLoss
    <2> QED BY <2>2, <2>4
  <1>4. /\ a \in Addrs /\ heap[a] # NULL /\ heap[a] \in OpenInode /\ heap[a].cnt \in Nat
        /\ heap[a].cnt >= Cardinality(Openers(handle, a))
    BY <1>1, <1>2, MemoryLemma DEF StoreInv, HandlesOK
  <1>5. CallOK' /\ DiskOK'
    BY <1>2, IdleLemma, IdleAfter, DiskFrame DEF StoreInv
  <1>6. \A g \in Handles : handle'[g] # NULL =>
            /\ handle'[g] = handle[g] /\ handle[g].addr \in Addrs /\ heap[handle[g].addr] # NULL
            /\ heap[handle[g].addr].inode.i_no = handle[g].no
            /\ heap[handle[g].addr].cnt >= Cardinality(Openers(handle, handle[g].addr))
            /\ g \in Openers(handle, handle[g].addr) /\ g # h
    BY <1>3, MemoryLemma DEF StoreInv, HandlesOK, Openers
  <1>7. CASE heap[a].cnt = 1
    <2>1. /\ heap' = [heap EXCEPT ![a] = NULL] /\ open_inodes' = list_remove(open_inodes, {a})
          /\ dirty' = dirty \ {heap[a].inode.i_no}
      BY <1>1, <1>7 DEF inode_close
    <2>2. /\ heap' \in [Addrs -> OpenInode \cup {NULL}]
          /\ \A b \in Addrs : heap'[b] = IF b = a THEN NULL ELSE heap[b]
      BY <1>4, <2>1 DEF StoreInv, StoreTypes
    <2>3. /\ open_inodes' \in Seq(Addrs) /\ NoDup(open_inodes')
          /\ \A x : elem_find(open_inodes', x) <=> elem_find(open_inodes, x) /\ x # a
      BY <2>1, RemoveLemma DEF StoreInv, StoreTypes, OpenOK
    <2>4. StoreTypes'
      BY <1>2, <1>3, <2>1, <2>2, <2>3 DEF StoreInv, StoreTypes
    <2>5. OpenOK'
      BY <1>2, <1>4, <2>1, <2>2, <2>3 DEF StoreInv, OpenOK
    <2>6. \A g \in Handles : handle'[g] # NULL => handle[g].addr # a
      BY <1>3, <1>4, <1>6, <1>7
    <2>7. HandlesOK'
      BY <1>3, <1>6, <2>2, <2>6 DEF HandlesOK
    <2>8. EmptyOK'
      BY <1>2, <2>2, IdleLemma DEF StoreInv, EmptyOK, OnDisk, get, Empty
    <2> QED BY <1>5, <2>4, <2>5, <2>7, <2>8 DEF StoreInv
  <1>8. CASE heap[a].cnt # 1
    <2>1. heap' = [heap EXCEPT ![a].cnt = @ - 1] /\ UNCHANGED << open_inodes, dirty >>
      BY <1>1, <1>8 DEF inode_close
    <2>2. PICK x : x = [heap[a] EXCEPT !.cnt = heap[a].cnt - 1]
      OBVIOUS
    <2>3. heap[a].cnt - 1 \in Nat
      BY <1>3, <1>4
    <2>4. x \in OpenInode /\ x.inode = heap[a].inode /\ x.cnt = heap[a].cnt - 1 /\ x # NULL
      BY <1>4, <2>2, <2>3, FieldsLemma, NullLemma
    <2>5. /\ heap' \in [Addrs -> OpenInode \cup {NULL}]
          /\ \A b \in Addrs : heap'[b] = IF b = a THEN x ELSE heap[b]
      BY <1>4, <2>1, <2>2, <2>4 DEF StoreInv, StoreTypes
    <2>6. StoreTypes'
      BY <1>2, <1>3, <2>1, <2>5 DEF StoreInv, StoreTypes
    <2>7. SameInodes
      BY <1>4, <2>4, <2>5 DEF SameInodes
    <2>8. OpenOK' /\ EmptyOK'
      BY <1>2, <2>1, <2>7, OpenFrame, EmptyFrame, IdleLemma DEF StoreInv
    <2>9. HandlesOK'
      <3>1. ASSUME NEW g \in Handles, handle'[g] # NULL, NEW b, b = handle[g].addr
            PROVE  /\ handle'[g].addr = b /\ heap'[b] # NULL /\ heap'[b].inode.i_no = handle'[g].no
                   /\ heap'[b].cnt >= Cardinality(Openers(handle', b))
        BY <1>3, <1>4, <1>6, <2>3, <2>4, <2>5, <3>1
      <3> QED BY <3>1 DEF HandlesOK
    <2> QED BY <1>5, <2>6, <2>8, <2>9 DEF StoreInv
  <1> QED BY <1>7, <1>8

-----------------------------------------------------------------------------
(* Opening.                                                                *)

\* What the search of the list finds.
LEMMA SearchLemma ==
  ASSUME StoreTypes, OpenOK, NEW n
  PROVE  /\ search(n) = {} => \A a \in Addrs : heap[a] # NULL => heap[a].inode.i_no # n
         /\ search(n) # {} =>
                LET a == open_inodes[CHOOSE i \in search(n) : \A j \in search(n) : i <= j]
                IN  a \in Addrs /\ heap[a] # NULL /\ heap[a].inode.i_no = n
  <1>1. /\ DOMAIN open_inodes = 1 .. Len(open_inodes) /\ Len(open_inodes) \in Nat
        /\ \A i \in 1 .. Len(open_inodes) : open_inodes[i] \in Addrs /\ heap[open_inodes[i]] # NULL
    BY DEF StoreTypes, OpenOK, elem_find
  <1>2. ASSUME search(n) = {}, NEW a \in Addrs, heap[a] # NULL PROVE heap[a].inode.i_no # n
    <2>1. PICK i \in 1 .. Len(open_inodes) : open_inodes[i] = a
      BY <1>2 DEF OpenOK, elem_find
    <2> QED BY <1>1, <1>2, <2>1 DEF search
  <1>3. ASSUME search(n) # {}
        PROVE  LET a == open_inodes[CHOOSE i \in search(n) : \A j \in search(n) : i <= j]
               IN  a \in Addrs /\ heap[a] # NULL /\ heap[a].inode.i_no = n
    <2>1. PICK hits : hits = search(n)
      OBVIOUS
    <2>2. hits \subseteq Int /\ hits # {} /\ \A i \in hits : 1 <= i
      BY <1>1, <1>3, <2>1 DEF search
    <2>3. \E i \in hits : \A j \in hits : i <= j
      <3>1. PICK m \in Int : \A i \in hits : m <= i
        BY <2>2
      <3> QED BY <2>2, <3>1, LeastInt
    <2>4. PICK i : i = CHOOSE k \in hits : \A j \in hits : k <= j
      OBVIOUS
    <2>5. i \in search(n)
      BY <2>1, <2>3, <2>4
    <2>6. open_inodes[i] \in Addrs /\ heap[open_inodes[i]] # NULL /\ heap[open_inodes[i]].inode.i_no = n
      BY <1>1, <2>5 DEF search
    <2> QED BY <2>1, <2>4, <2>6
  <1> QED BY <1>2, <1>3

\* An inode found in the list gets one opener more, another one is read from the table.
LEMMA OpenStep ==
  ASSUME StoreInv, NEW h \in Handles, NEW n \in Inodes, NEW kind \in {"file", "dir"},
         open(h, n, kind)
  PROVE  StoreInv'
  <1>1. /\ call = Idle /\ handle[h] = NULL /\ stored[n] # NULL
        /\ UNCHANGED << table, block_sector, blocks, block_bitmap, inode_bitmap, call,
                        crashes, stored, torn, dirty >>
    BY DEF open, disk, history
  <1>2. CallOK' /\ DiskOK' /\ call.kind = "none"
    BY <1>1, IdleLemma, IdleAfter, DiskFrame DEF StoreInv
  <1>3. StoreTypes /\ OpenOK /\ HandlesOK /\ EmptyOK /\ DiskOK
    BY DEF StoreInv
  <1>4. \A g \in Handles : handle[g] # NULL =>
            /\ handle[g].addr \in Addrs /\ heap[handle[g].addr] # NULL
            /\ heap[handle[g].addr].inode.i_no = handle[g].no
            /\ heap[handle[g].addr].cnt >= Cardinality(Openers(handle, handle[g].addr))
    BY <1>3, MemoryLemma DEF HandlesOK
  <1>5. ASSUME NEW a \in Addrs, NEW r, r = [addr |-> a, no |-> n, kind |-> kind],
               handle' = [handle EXCEPT ![h] = r]
        PROVE  /\ r \in OpenHandle /\ r # NULL /\ r.addr = a /\ r.no = n
               /\ handle' \in [Handles -> OpenHandle \cup {NULL}]
               /\ \A g \in Handles : handle'[g] = IF g = h THEN r ELSE handle[g]
               /\ \A b : b # a => Openers(handle', b) = Openers(handle, b)
               /\ Cardinality(Openers(handle', a)) = Cardinality(Openers(handle, a)) + 1
               /\ Cardinality(Openers(handle, a)) \in Nat
    <2>1. r \in OpenHandle /\ r.addr = a /\ r.no = n
      BY <1>5 DEF OpenHandle
    <2>2. r # NULL
      BY <2>1, NullLemma
    <2>3. /\ handle' \in [Handles -> OpenHandle \cup {NULL}]
          /\ \A g \in Handles : handle'[g] = IF g = h THEN r ELSE handle[g]
      BY <1>3, <1>5, <2>1 DEF StoreTypes
    <2>4. handle'[h] = r /\ \A k \in Handles : k # h => handle'[k] = handle[k]
      BY <2>3
    <2>5. /\ \A b : b # r.addr => Openers(handle', b) = Openers(handle, b)
          /\ Cardinality(Openers(handle', r.addr)) = Cardinality(Openers(handle, r.addr)) + 1
          /\ Cardinality(Openers(handle, r.addr)) \in Nat
      BY <1>1, <2>1, <2>4, HandleGain
    <2> QED BY <2>1, <2>2, <2>3, <2>5
  <1>6. CASE search(n) # {}
    <2>1. PICK a : a = open_inodes[CHOOSE i \in search(n) : \A j \in search(n) : i <= j]
      OBVIOUS
    <2>2. a \in Addrs /\ heap[a] # NULL /\ heap[a].inode.i_no = n
      BY <1>3, <1>6, <2>1, SearchLemma
    <2>3. PICK r : r = [addr |-> a, no |-> n, kind |-> kind]
      OBVIOUS
    <2>4. /\ heap' = [heap EXCEPT ![a].cnt = @ + 1] /\ UNCHANGED open_inodes
          /\ handle' = [handle EXCEPT ![h] = r]
      BY <1>6, <2>1, <2>3 DEF open, found
    <2>5. heap[a] \in OpenInode /\ heap[a].cnt \in Nat
      BY <1>3, <2>2, MemoryLemma
    <2>6. PICK x : x = [heap[a] EXCEPT !.cnt = heap[a].cnt + 1]
      OBVIOUS
    <2>7. x \in OpenInode /\ x.inode = heap[a].inode /\ x.cnt = heap[a].cnt + 1 /\ x # NULL
      BY <2>5, <2>6, FieldsLemma, NullLemma
    <2>8. /\ heap' \in [Addrs -> OpenInode \cup {NULL}]
          /\ \A b \in Addrs : heap'[b] = IF b = a THEN x ELSE heap[b]
      BY <1>3, <2>2, <2>4, <2>6, <2>7 DEF StoreTypes
    <2>9. /\ r \in OpenHandle /\ r # NULL /\ r.addr = a /\ r.no = n
          /\ handle' \in [Handles -> OpenHandle \cup {NULL}]
          /\ \A g \in Handles : handle'[g] = IF g = h THEN r ELSE handle[g]
          /\ \A b : b # a => Openers(handle', b) = Openers(handle, b)
          /\ Cardinality(Openers(handle', a)) = Cardinality(Openers(handle, a)) + 1
          /\ Cardinality(Openers(handle, a)) \in Nat
      BY <1>5, <2>2, <2>3, <2>4
    <2>10. StoreTypes'
      BY <1>1, <1>3, <2>4, <2>8, <2>9 DEF StoreTypes
    <2>11. SameInodes
      BY <2>2, <2>7, <2>8 DEF SameInodes
    <2>12. OpenOK' /\ EmptyOK'
      BY <1>1, <1>2, <1>3, <2>4, <2>11, OpenFrame, EmptyFrame
    <2>13. ASSUME NEW g \in Handles, handle'[g] # NULL, NEW b, b = handle'[g].addr
           PROVE  /\ heap'[b] # NULL /\ heap'[b].inode.i_no = handle'[g].no
                  /\ heap'[b].cnt >= Cardinality(Openers(handle', b))
      <3>1. CASE g # h
        BY <1>4, <2>2, <2>5, <2>7, <2>8, <2>9, <2>13, <3>1
      <3>2. CASE g = h
        <4>1. heap[a].cnt >= Cardinality(Openers(handle, a))
          <5>1. CASE Openers(handle, a) = {}
            BY <2>5, <5>1, FS_EmptySet
          <5>2. CASE Openers(handle, a) # {}
            BY <1>4, <5>2 DEF Openers
          <5> QED BY <5>1, <5>2
        <4> QED BY <2>2, <2>5, <2>7, <2>8, <2>9, <2>13, <3>2, <4>1
      <3> QED BY <3>1, <3>2
    <2>14. HandlesOK'
      BY <2>13 DEF HandlesOK
    <2> QED BY <1>2, <2>10, <2>12, <2>14 DEF StoreInv
  <1>7. CASE search(n) = {}
    <2>1. PICK a \in Addrs :
            /\ heap[a] = NULL
            /\ heap' = [heap EXCEPT ![a] = [inode |-> OnDisk(n), cnt |-> 1]]
            /\ open_inodes' = list_append(open_inodes, a)
            /\ handle' = [handle EXCEPT ![h] = [addr |-> a, no |-> n, kind |-> kind]]
      BY <1>7 DEF open
    <2>2. PICK x, r : /\ x = [inode |-> OnDisk(n), cnt |-> 1]
                      /\ r = [addr |-> a, no |-> n, kind |-> kind]
      OBVIOUS
    <2>3. /\ OnDisk(n) \in InodeSet /\ OnDisk(n).i_no = n
          /\ n \in torn \/ OnDisk(n) = stored[n]
          /\ Empty(OnDisk(n)) => OnDisk(n).i_sectors_0 = 0
      BY <1>1, <1>2, <1>3, DiskTypes, InodesLemma DEF DiskOK, Syncing
    <2>4. x \in OpenInode /\ x.inode = OnDisk(n) /\ x.cnt = 1 /\ x # NULL
      BY <2>2, <2>3, FieldsLemma, NullLemma
    <2>5. /\ heap' \in [Addrs -> OpenInode \cup {NULL}]
          /\ \A b \in Addrs : heap'[b] = IF b = a THEN x ELSE heap[b]
      BY <1>3, <2>1, <2>2, <2>4 DEF StoreTypes
    <2>6. ~elem_find(open_inodes, a)
      BY <1>3, <2>1 DEF OpenOK
    <2>7. /\ open_inodes' \in Seq(Addrs) /\ NoDup(open_inodes')
          /\ \A y : elem_find(open_inodes', y) <=> elem_find(open_inodes, y) \/ y = a
      BY <1>3, <2>1, <2>6, AppendLemma DEF StoreTypes, OpenOK
    <2>8. /\ r \in OpenHandle /\ r # NULL /\ r.addr = a /\ r.no = n
          /\ handle' \in [Handles -> OpenHandle \cup {NULL}]
          /\ \A g \in Handles : handle'[g] = IF g = h THEN r ELSE handle[g]
          /\ \A b : b # a => Openers(handle', b) = Openers(handle, b)
          /\ Cardinality(Openers(handle', a)) = Cardinality(Openers(handle, a)) + 1
      BY <1>5, <2>1, <2>2
    <2>9. Openers(handle, a) = {} /\ Cardinality(Openers(handle, a)) = 0
      BY <1>4, <2>1, FS_EmptySet DEF Openers
    <2>10. StoreTypes'
      BY <1>1, <1>3, <2>5, <2>7, <2>8 DEF StoreTypes
    <2>11. \A b \in Addrs : heap[b] # NULL => heap[b].inode.i_no # n
      BY <1>3, <1>7, SearchLemma
    <2>12. OpenOK'
      <3>1. \A b \in Addrs : elem_find(open_inodes', b) <=> heap'[b] # NULL
        BY <1>3, <2>4, <2>5, <2>7 DEF OpenOK
      <3>2. \A b, c \in Addrs : heap'[b] # NULL /\ heap'[c] # NULL
                                /\ heap'[b].inode.i_no = heap'[c].inode.i_no => b = c
        BY <1>3, <2>3, <2>4, <2>5, <2>11 DEF OpenOK
      <3>3. \A b \in Addrs :
              heap'[b] # NULL =>
                  /\ heap'[b].inode.i_no \in Inodes
                  /\ stored[heap'[b].inode.i_no] # NULL
                  /\ \/ heap'[b].inode.i_no \in dirty \cup torn
                     \/ heap'[b].inode = stored[heap'[b].inode.i_no]
        BY <1>1, <1>3, <2>3, <2>4, <2>5 DEF OpenOK
      <3> QED BY <1>1, <2>7, <3>1, <3>2, <3>3 DEF OpenOK
    <2>13. ASSUME NEW g \in Handles, handle'[g] # NULL, NEW b, b = handle'[g].addr
           PROVE  /\ heap'[b] # NULL /\ heap'[b].inode.i_no = handle'[g].no
                  /\ heap'[b].cnt >= Cardinality(Openers(handle', b))
      <3>1. CASE g # h
        <4>1. handle'[g] = handle[g] /\ b \in Addrs /\ heap[b] # NULL /\ b # a
          BY <1>4, <2>1, <2>8, <2>13, <3>1
        <4> QED BY <1>4, <2>5, <2>8, <2>13, <4>1
      <3>2. CASE g = h
        BY <2>3, <2>4, <2>5, <2>8, <2>9, <2>13, <3>2
      <3> QED BY <3>1, <3>2
    <2>14. HandlesOK'
      BY <2>13 DEF HandlesOK
    <2>15. EmptyOK'
      <3>1. \A m \in Inodes : OnDisk(m)' = OnDisk(m)
        BY <1>1 DEF OnDisk, get
      <3>2. ASSUME NEW b \in Addrs, heap'[b] # NULL, Empty(heap'[b].inode), NEW m, m = heap'[b].inode.i_no
            PROVE  Empty(OnDisk(m)) /\ OnDisk(m).i_sectors_0 = 0 /\ heap'[b].inode.i_sectors_0 = 0
        BY <1>2, <1>3, <2>3, <2>4, <2>5, <3>2 DEF EmptyOK
      <3> QED BY <1>1, <1>2, <3>2 DEF EmptyOK, Empty, OnDisk, get
    <2> QED BY <1>2, <2>10, <2>12, <2>14, <2>15 DEF StoreInv
  <1> QED BY <1>6, <1>7

-----------------------------------------------------------------------------
(* The steps of inode_sync.                                                *)

\* inode_sync may start on an inode that memory has as it is, and that is empty only
\* if what is on disk is.
LEMMA SyncStart ==
  ASSUME StoreInv, call = Idle, NEW inode \in InodeSet, NEW n \in Inodes, inode.i_no = n,
         call' = inode_sync_read(inode),
         UNCHANGED << disk, memory, crashes, history >>,
         \A a \in Addrs : heap[a] # NULL /\ heap[a].inode.i_no = n => heap[a].inode = inode,
         Empty(inode) => /\ inode.i_sectors_0 = 0
                         /\ Empty(OnDisk(n)) /\ OnDisk(n).i_sectors_0 = 0
  PROVE  StoreInv'
  <1>1. UNCHANGED << table, block_sector, blocks, block_bitmap, inode_bitmap, heap,
                     open_inodes, handle, crashes, stored, torn, dirty >>
    BY DEF disk, memory, history
  <1>2. SameInodes /\ call.kind = "none"
    BY <1>1, IdleLemma DEF SameInodes
  <1>3. StoreTypes' /\ HandlesOK'
    BY <1>1 DEF StoreInv, StoreTypes, HandlesOK
  <1>4. OpenOK' /\ EmptyOK' /\ DiskOK'
    BY <1>1, <1>2, OpenFrame, EmptyFrame, DiskFrame DEF StoreInv
  <1>5. PICK c : c = inode_sync_read(inode)
    OBVIOUS
  <1>6. /\ c.kind = "sync" /\ c.inode = inode /\ c.done = 0
        /\ c.sec = inode_locate(n).sec
        /\ c.secs = IF inode_locate(n).two_sec THEN 2 ELSE 1
        /\ \A b \in 0 .. c.secs * SECTOR_SIZE - 1 :
              LET at == c.sec * SECTOR_SIZE
              IN  c.buf[b] = IF at + b \in Own(n) THEN Byte(inode, at + b - 3 * n) ELSE table[at + b]
    BY <1>5, ReadLemma
  <1>7. c = [kind |-> "sync", inode |-> c.inode, buf |-> c.buf, sec |-> c.sec,
             secs |-> c.secs, done |-> c.done]
    BY <1>5 DEF inode_sync_read
  <1>8. PICK at : at = c.sec * SECTOR_SIZE
    OBVIOUS
  <1>9. at <= 3 * n /\ at \in Nat /\ n \in Nat /\ c.secs \in {1, 2}
    BY <1>6, <1>8, PlaceLemma, InodesLemma
  <1>10. \A k \in 0 .. 2 : ~(3 * n + k < at + 0 * SECTOR_SIZE)
    BY <1>9, StoreSizes
  <1>11. OnDisk(n)' = OnDisk(n)
    BY <1>1 DEF OnDisk, get
  <1>12. call' = c
    BY <1>5
  <1>13. SyncOK'
    BY <1>1, <1>6, <1>7, <1>8, <1>9, <1>10, <1>11, <1>12 DEF SyncOK, Empty
  <1> QED BY <1>3, <1>4, <1>6, <1>12, <1>13 DEF StoreInv, CallOK

LEMMA InodeInitStep ==
  ASSUME StoreInv, NEW n \in Inodes, inode_init(n)
  PROVE  StoreInv'
  <1>1. PICK inode : inode = Inode(n, 0, 0)
    OBVIOUS
  <1>2. /\ inode \in InodeSet /\ inode.i_no = n /\ inode.i_size = 0 /\ inode.i_sectors_0 = 0
    BY <1>1, InodeLemma, InodesLemma
  <1>3. /\ call = Idle /\ stored[n] = NULL /\ n \notin torn /\ call' = inode_sync_read(inode)
        /\ UNCHANGED << disk, memory, crashes, history >>
    BY <1>1 DEF inode_init
  <1>4. \A a \in Addrs : heap[a] # NULL => heap[a].inode.i_no # n
    BY <1>3 DEF StoreInv, OpenOK
  <1>5. OnDisk(n) = Inode(0, 0, 0)
    BY <1>3, IdleLemma DEF StoreInv, DiskOK, Syncing
  <1>6. 0 % DIR_SIZE = 0
    BY StoreSizes
  <1>7. Empty(OnDisk(n)) /\ OnDisk(n).i_sectors_0 = 0
    BY <1>5, <1>6, InodeLemma DEF Empty
  <1> QED BY <1>2, <1>3, <1>4, <1>7, SyncStart

LEMMA InodeSyncStep ==
  ASSUME StoreInv, NEW h \in Handles, inode_sync(h)
  PROVE  StoreInv'
  <1>1. PICK a : a = handle[h].addr
    OBVIOUS
  <1>2. /\ call = Idle /\ handle[h] # NULL /\ call' = inode_sync_read(heap[a].inode)
        /\ UNCHANGED << disk, memory, crashes, history >>
    BY <1>1 DEF inode_sync
  <1>3. /\ a \in Addrs /\ heap[a] # NULL /\ heap[a].inode \in InodeSet
        /\ heap[a].inode.i_no \in Inodes
    BY <1>1, <1>2, MemoryLemma DEF StoreInv, HandlesOK, OpenOK
  <1>4. PICK inode, n : inode = heap[a].inode /\ n = inode.i_no
    OBVIOUS
  <1>5. \A b \in Addrs : heap[b] # NULL /\ heap[b].inode.i_no = n => heap[b].inode = inode
    BY <1>3, <1>4 DEF StoreInv, OpenOK
  <1>6. Empty(inode) => /\ inode.i_sectors_0 = 0
                        /\ Empty(OnDisk(n)) /\ OnDisk(n).i_sectors_0 = 0
    BY <1>2, <1>3, <1>4, IdleLemma DEF StoreInv, EmptyOK
  <1> QED BY <1>2, <1>3, <1>4, <1>5, <1>6, SyncStart

\* A sector of an inode is written: no other inode changes, and this one is on disk as
\* a mixture of what was there and what is stored, until its last sector is written.
LEMMA WriteStep ==
  ASSUME StoreInv, inode_sync_write
  PROVE  StoreInv'
  <1>1. /\ call.kind = "sync" /\ SyncOK /\ StoreTypes /\ OpenOK /\ HandlesOK /\ DiskOK /\ EmptyOK
        /\ UNCHANGED << block_sector, blocks, block_bitmap, inode_bitmap, heap, open_inodes,
                        handle, crashes >>
    BY DEF StoreInv, CallOK, inode_sync_write, memory
  <1>2. PICK inode, n, at, done, secs :
            /\ inode = call.inode /\ n = inode.i_no /\ at = call.sec * SECTOR_SIZE
            /\ done = call.done /\ secs = call.secs
    OBVIOUS
  <1>3. PICK end : end = at + (done + 1) * SECTOR_SIZE
    OBVIOUS
  <1>4. n \in Inodes /\ n \in 0 .. MAX_FILES_PER_PART - 1 /\ n \in Nat /\ inode \in InodeSet
    BY <1>1, <1>2, InodesLemma DEF SyncOK
  <1>5. /\ table' \in [TableBytes -> Nat]
        /\ \A p \in TableBytes : p \notin Own(n) => table'[p] = table[p]
        /\ \A k \in 0 .. 2 : table'[3 * n + k] = IF 3 * n + k < end THEN Byte(inode, k)
                                                ELSE table[3 * n + k]
        /\ done + 1 = secs => \A k \in 0 .. 2 : 3 * n + k < end
    BY <1>1, <1>2, <1>3, WriteLemma
  <1>6. /\ at \in Nat /\ secs \in {1, 2} /\ done \in 0 .. secs - 1 /\ at <= 3 * n
        /\ 3 * n < at + SECTOR_SIZE
        /\ done + 1 \in Nat /\ end \in Nat /\ end >= at + SECTOR_SIZE
    <2>1. /\ at \in Nat /\ secs \in {1, 2} /\ done \in 0 .. secs - 1 /\ at <= 3 * n
          /\ 3 * n < at + SECTOR_SIZE
      BY <1>1, <1>2, <1>4, PlaceLemma DEF SyncOK
    <2>2. done = 0 \/ done = 1
      BY <2>1
    <2>3. end = at + SECTOR_SIZE \/ end = at + SECTOR_SIZE + SECTOR_SIZE
      BY <1>3, <2>1, <2>2, StoreSizes
    <2> QED BY <2>1, <2>2, <2>3, StoreSizes
  <1>7. \A m \in 0 .. MAX_FILES_PER_PART - 1 : m # n => OnDisk(m)' = OnDisk(m)
    <2>1. ASSUME NEW m \in 0 .. MAX_FILES_PER_PART - 1, m # n PROVE OnDisk(m)' = OnDisk(m)
      <3>1. /\ Own(m) = {3 * m, 3 * m + 1, 3 * m + 2} /\ Own(m) \cap Own(n) = {}
            /\ \A p \in Own(m) : p \in TableBytes
        BY <1>4, <2>1, OwnLemma
      <3>2. /\ table'[3 * m] = table[3 * m] /\ table'[3 * m + 1] = table[3 * m + 1]
            /\ table'[3 * m + 2] = table[3 * m + 2]
        BY <1>5, <3>1
      <3> QED BY <3>2, OnDiskLemma
    <2> QED BY <2>1
  <1>8. PICK old, new : /\ old = OnDisk(n)
                        /\ new = Inode(table'[3 * n], table'[3 * n + 1], table'[3 * n + 2])
    OBVIOUS
  <1>9. new = OnDisk(n)'
    BY <1>4, <1>8, OnDiskLemma
  <1>10. /\ new.i_no = inode.i_no /\ new.i_no = n
         /\ new.i_size = IF 3 * n + 1 < end THEN inode.i_size ELSE old.i_size
         /\ new.i_sectors_0 = IF 3 * n + 2 < end THEN inode.i_sectors_0 ELSE old.i_sectors_0
    <2>1. /\ table'[3 * n] = inode.i_no
          /\ table'[3 * n + 1] = IF 3 * n + 1 < end THEN inode.i_size ELSE table[3 * n + 1]
          /\ table'[3 * n + 2] = IF 3 * n + 2 < end THEN inode.i_sectors_0 ELSE table[3 * n + 2]
      <3>1. 3 * n + 0 = 3 * n /\ 3 * n < end /\ 0 \in 0 .. 2 /\ 1 \in 0 .. 2 /\ 2 \in 0 .. 2
        BY <1>4, <1>6, StoreSizes
      <3>2. Byte(inode, 0) = inode.i_no /\ Byte(inode, 1) = inode.i_size
            /\ Byte(inode, 2) = inode.i_sectors_0
        BY DEF Byte
      <3> QED BY <1>5, <3>1, <3>2
    <2>2. old.i_size = table[3 * n + 1] /\ old.i_sectors_0 = table[3 * n + 2]
      BY <1>4, <1>8, OnDiskLemma, InodeLemma
    <2> QED BY <1>2, <1>8, <2>1, <2>2, InodeLemma
  <1>11. Empty(inode) => inode.i_sectors_0 = 0 /\ Empty(old) /\ old.i_sectors_0 = 0
    BY <1>1, <1>2, <1>8 DEF SyncOK
  <1>12. Empty(old) => old.i_sectors_0 = 0
    BY <1>1, <1>4, <1>8 DEF DiskOK
  <1>13. Empty(new) => new.i_sectors_0 = 0
    <2>1. 3 * n + 2 < end => 3 * n + 1 < end
      BY <1>4, <1>6
    <2> QED BY <1>10, <1>11, <1>12, <2>1 DEF Empty
  <1>14. Empty(inode) => Empty(new) /\ new.i_sectors_0 = 0
    BY <1>10, <1>11 DEF Empty
  <1>15. \A b \in TableBytes : b >= inode_table_sects * SECTOR_SIZE => table'[b] = 255
    <2>1. \A b \in TableBytes : b >= inode_table_sects * SECTOR_SIZE => b \notin Own(n)
      <3>1. PICK t : t = inode_table_sects * SECTOR_SIZE
        OBVIOUS
      <3>2. t \in Nat /\ \A p \in Own(n) : p < t
        BY <1>4, <3>1, OwnLemma, StoreSizes
      <3>3. \A b \in TableBytes : b \in Int
        BY StoreSizes DEF TableBytes
      <3> QED BY <3>1, <3>2, <3>3
    <2> QED BY <1>1, <1>5, <2>1 DEF DiskOK
  <1>16. \A a \in Addrs : heap[a] # NULL /\ heap[a].inode.i_no = n => heap[a].inode = inode
    BY <1>1, <1>2 DEF SyncOK
  <1>17. \A m \in (0 .. MAX_FILES_PER_PART - 1) \ Inodes : OnDisk(m)' = Inode(0, 0, 0)
    BY <1>1, <1>4, <1>7 DEF DiskOK
  <1>18. ASSUME NEW a \in Addrs, heap[a] # NULL, Empty(heap[a].inode),
                NEW m, m = heap[a].inode.i_no
         PROVE  /\ Empty(OnDisk(m)') /\ OnDisk(m)'.i_sectors_0 = 0
                /\ heap[a].inode.i_sectors_0 = 0
    <2>1. m \in Inodes /\ m \in 0 .. MAX_FILES_PER_PART - 1
      BY <1>1, <1>18, InodesLemma DEF OpenOK
    <2>2. CASE m = n
      BY <1>9, <1>11, <1>14, <1>16, <1>18, <2>2
    <2>3. CASE m # n
      BY <1>1, <1>7, <1>18, <2>1, <2>3 DEF EmptyOK
    <2> QED BY <2>2, <2>3
  <1>19. EmptyOK'
    <2>1. ASSUME NEW a \in Addrs, heap'[a] # NULL, Empty(heap'[a].inode),
                 NEW m, m = heap'[a].inode.i_no
          PROVE  /\ Empty(OnDisk(m)') /\ OnDisk(m)'.i_sectors_0 = 0
                 /\ heap'[a].inode.i_sectors_0 = 0
      BY <1>1, <1>18, <2>1
    <2> QED BY <2>1 DEF EmptyOK, Empty, OnDisk, get
  <1>20. HandlesOK'
    BY <1>1 DEF HandlesOK
  <1>21. CASE done + 1 < secs
    <2>1. call' = [call EXCEPT !.done = @ + 1] /\ UNCHANGED << stored, torn, dirty >>
      BY <1>2, <1>6, <1>21 DEF inode_sync_write, history
    <2>2. call = [kind |-> "sync", inode |-> inode, buf |-> call.buf, sec |-> call.sec,
                  secs |-> secs, done |-> done]
      BY <1>1, <1>2 DEF SyncOK
    <2>3. PICK c : c = [kind |-> "sync", inode |-> inode, buf |-> call.buf, sec |-> call.sec,
                        secs |-> secs, done |-> done + 1]
      OBVIOUS
    <2>4. call' = c
      BY <2>1, <2>2, <2>3
    <2>5. /\ c.kind = "sync" /\ c.inode = inode /\ c.buf = call.buf /\ c.sec = call.sec
          /\ c.secs = secs /\ c.done = done + 1
          /\ c = [kind |-> "sync", inode |-> c.inode, buf |-> c.buf, sec |-> c.sec,
                  secs |-> c.secs, done |-> c.done]
      BY <2>3
    <2>6. StoreTypes'
      BY <1>1, <1>5, <2>1 DEF StoreTypes
    <2>7. OpenOK'
      BY <1>1, <2>1 DEF OpenOK
    <2>8. DiskOK'
      <3>1. ASSUME NEW m \in Inodes
            PROVE  /\ \/ m \in torn \/ (c.inode.i_no = m /\ c.done > 0)
                      \/ OnDisk(m)' = IF stored[m] = NULL THEN Inode(0, 0, 0) ELSE stored[m]
                   /\ stored[m] # NULL => stored[m].i_no = m /\ OnDisk(m)'.i_no = m
                   /\ m \in torn => stored[m] # NULL
                   /\ Empty(OnDisk(m)') => OnDisk(m)'.i_sectors_0 = 0
        <4>1. CASE m = n
          BY <1>1, <1>2, <1>4, <1>6, <1>9, <1>10, <1>13, <2>5, <4>1 DEF DiskOK
        <4>2. CASE m # n
          <5>1. OnDisk(m)' = OnDisk(m) /\ ~Syncing(m)
            BY <1>1, <1>2, <1>7, <4>2, InodesLemma DEF Syncing
          <5> QED BY <1>1, <5>1 DEF DiskOK
        <4> QED BY <4>1, <4>2
      <3> QED BY <1>15, <1>17, <2>1, <2>4, <2>5, <3>1 DEF DiskOK, Syncing, Empty
    <2>9. \A b \in 0 .. secs * SECTOR_SIZE - 1 :
            call.buf[b] = IF at + b \in Own(n) THEN Byte(inode, at + b - 3 * n) ELSE table'[at + b]
      <3>1. ASSUME NEW b \in 0 .. secs * SECTOR_SIZE - 1 PROVE at + b \in TableBytes
        <4>1. at + SECTOR_SIZE <= inode_table_sects * SECTOR_SIZE
          BY <1>1, <1>2, <1>4, PlaceLemma DEF SyncOK
        <4>2. b \in Nat /\ b < SECTOR_SIZE + SECTOR_SIZE
          BY <1>6, StoreSizes
        <4>3. PICK t : t = inode_table_sects * SECTOR_SIZE
          OBVIOUS
        <4>4. t \in Nat /\ TableBytes = 0 .. t + SECTOR_SIZE - 1
          BY <4>3, StoreSizes DEF TableBytes
        <4> QED BY <1>6, <4>1, <4>2, <4>3, <4>4, StoreSizes
      <3> QED BY <1>1, <1>2, <1>5, <3>1 DEF SyncOK
    <2>10. \A k \in 0 .. 2 : 3 * n + k < end => table'[3 * n + k] = Byte(inode, k)
      BY <1>5
    <2>11. c.done \in 0 .. c.secs - 1
      BY <1>6, <1>21, <2>5
    <2>12. SyncOK'
      <3>1. inode.i_no = n /\ c.sec = inode_locate(n).sec
            /\ c.secs = (IF inode_locate(n).two_sec THEN 2 ELSE 1)
            /\ at = c.sec * SECTOR_SIZE
        BY <1>1, <1>2, <2>5 DEF SyncOK
      <3>2. Empty(inode) => inode.i_sectors_0 = 0 /\ Empty(OnDisk(n)') /\ OnDisk(n)'.i_sectors_0 = 0
        BY <1>9, <1>11, <1>14
      <3> QED BY <1>1, <1>3, <1>4, <1>16, <2>4, <2>5, <2>9, <2>10, <2>11, <3>1, <3>2
              DEF SyncOK, Empty
    <2>13. CallOK'
      BY <2>4, <2>5, <2>12 DEF CallOK
    <2> QED BY <1>19, <1>20, <2>6, <2>7, <2>8, <2>13 DEF StoreInv
  <1>22. CASE done + 1 = secs
    <2>1. /\ call' = Idle /\ stored' = [stored EXCEPT ![n] = inode]
          /\ torn' = torn \ {n} /\ dirty' = dirty \ {n}
      BY <1>2, <1>6, <1>22 DEF inode_sync_write
    <2>2. /\ stored' \in [Inodes -> InodeSet \cup {NULL}]
          /\ \A m \in Inodes : stored'[m] = IF m = n THEN inode ELSE stored[m]
      BY <1>1, <1>4, <2>1 DEF StoreTypes
    <2>3. StoreTypes'
      BY <1>1, <1>5, <2>1, <2>2 DEF StoreTypes
    <2>4. inode # NULL
      BY <1>4, NullLemma
    <2>5. OpenOK'
      BY <1>1, <1>4, <1>16, <2>1, <2>2, <2>4 DEF OpenOK
    <2>6. new = inode
      <3>1. 3 * n + 1 < end /\ 3 * n + 2 < end
        BY <1>5, <1>22
      <3>2. new.i_no = inode.i_no /\ new.i_size = inode.i_size /\ new.i_sectors_0 = inode.i_sectors_0
        BY <1>10, <3>1
      <3>3. inode = Inode(inode.i_no, inode.i_size, inode.i_sectors_0)
        BY <1>4, FieldsLemma
      <3>4. new = Inode(new.i_no, new.i_size, new.i_sectors_0)
        BY <1>8, InodeLemma
      <3> QED BY <3>2, <3>3, <3>4
    <2>7. DiskOK'
      <3>1. ASSUME NEW m \in Inodes
            PROVE  /\ \/ m \in torn'
                      \/ OnDisk(m)' = IF stored'[m] = NULL THEN Inode(0, 0, 0) ELSE stored'[m]
                   /\ stored'[m] # NULL => stored'[m].i_no = m /\ OnDisk(m)'.i_no = m
                   /\ m \in torn' => stored'[m] # NULL
                   /\ Empty(OnDisk(m)') => OnDisk(m)'.i_sectors_0 = 0
        <4>1. CASE m = n
          BY <1>9, <1>10, <1>13, <2>1, <2>2, <2>4, <2>6, <4>1
        <4>2. CASE m # n
          <5>1. OnDisk(m)' = OnDisk(m) /\ ~Syncing(m)
            BY <1>1, <1>2, <1>7, <4>2, InodesLemma DEF Syncing
          <5>2. stored'[m] = stored[m] /\ (m \in torn' <=> m \in torn)
            BY <2>1, <2>2, <4>2
          <5> QED BY <1>1, <5>1, <5>2 DEF DiskOK
        <4> QED BY <4>1, <4>2
      <3> QED BY <1>15, <1>17, <3>1 DEF DiskOK, Empty
    <2>8. CallOK'
      BY <2>1, IdleAfter
    <2> QED BY <1>19, <1>20, <2>3, <2>5, <2>7, <2>8 DEF StoreInv
  <1> QED BY <1>6, <1>21, <1>22

-----------------------------------------------------------------------------
(* The steps of sync_dir_entry.                                            *)

\* A free block is found in the bitmap's one byte.
LEMMA AllocLemma ==
  ASSUME NEW btmp \in Bits8, NEW idx, idx = bitmap_scan(btmp, 1, 1), idx # -1
  PROVE  /\ idx \in 0 .. 7 /\ btmp[idx] = 0
         /\ bitmap_set(btmp, idx, 1) \in Bits8
         /\ \A i \in 0 .. 8 : bitmap_set(btmp, idx, 1)[i] = IF i = idx THEN 1 ELSE btmp[i]
  <1>1. IsBitmap(btmp, 1)
    BY DEF IsBitmap, Bits8
  <1>2. idx \in 0 .. 8 * 1 - 1 /\ Run(btmp, idx, 1)
    BY <1>1, ScanFirstFit
  <1>3. idx \in 0 .. 7 /\ btmp[idx] = 0
    BY <1>2 DEF Run
  <1> QED BY <1>3 DEF bitmap_set, Bits8

LEMMA SyncDirEntryStep ==
  ASSUME StoreInv, NEW h \in Handles, sync_dir_entry(h)
  PROVE  StoreInv'
  <1>1. PICK a, idx : a = handle[h].addr /\ idx = bitmap_scan(block_bitmap, 1, 1)
    OBVIOUS
  <1>2. /\ call = Idle /\ handle[h] # NULL
        /\ UNCHANGED << table, block_sector, blocks, inode_bitmap, heap, open_inodes, handle,
                        crashes, stored, torn >>
    BY DEF sync_dir_entry, disk
  <1>3. /\ a \in Addrs /\ heap[a] # NULL /\ heap[a].inode.i_no \in Inodes
    BY <1>1, <1>2, MemoryLemma DEF StoreInv, HandlesOK, OpenOK
  <1>4. SameInodes /\ call.kind = "none"
    BY <1>2, IdleLemma DEF SameInodes
  <1>5. HandlesOK' /\ EmptyOK' /\ DiskOK'
    <2>1. HandlesOK'
      BY <1>2 DEF StoreInv, HandlesOK
    <2> QED BY <1>2, <1>4, <2>1, EmptyFrame, DiskFrame DEF StoreInv
  <1>6. CASE heap[a].inode.i_size % DIR_SIZE # 0
    <2>1. call' = [kind |-> "halt"] /\ UNCHANGED << block_bitmap, dirty >>
      BY <1>1, <1>6 DEF sync_dir_entry
    <2>2. CallOK'
      BY <2>1 DEF CallOK
    <2>3. OpenOK' /\ StoreTypes'
      BY <1>2, <1>4, <2>1, OpenFrame DEF StoreInv, StoreTypes
    <2> QED BY <1>5, <2>2, <2>3 DEF StoreInv
  <1>7. CASE heap[a].inode.i_size % DIR_SIZE = 0
    <2>1. /\ idx # -1 /\ block_bitmap' = bitmap_set(block_bitmap, idx, 1)
          /\ call' = [kind |-> "bitmap_sync", addr |-> a, idx |-> idx]
          /\ dirty' = dirty \union {heap[a].inode.i_no}
      BY <1>1, <1>7 DEF sync_dir_entry, block_bitmap_alloc
    <2>2. idx \in 0 .. 7 /\ block_bitmap' \in Bits8
      BY <1>1, <2>1, AllocLemma DEF StoreInv, StoreTypes
    <2>3. OpenOK'
      BY <1>2, <1>4, <2>1, OpenFrame DEF StoreInv
    <2>4. StoreTypes'
      BY <1>2, <1>3, <2>1, <2>2 DEF StoreInv, StoreTypes
    <2>5. PICK c : c = [kind |-> "bitmap_sync", addr |-> a, idx |-> idx]
      OBVIOUS
    <2>6. /\ call' = c /\ c.kind = "bitmap_sync" /\ c.addr = a /\ c.idx = idx
          /\ c = [kind |-> c.kind, addr |-> c.addr, idx |-> c.idx]
      BY <2>1, <2>5
    <2>7. EntryOK'
      BY <1>2, <1>3, <1>7, <2>1, <2>2, <2>6 DEF EntryOK, Empty
    <2>8. CallOK'
      BY <2>6, <2>7 DEF CallOK
    <2> QED BY <1>5, <2>3, <2>4, <2>8 DEF StoreInv
  <1> QED BY <1>6, <1>7

\* The inode at an address changes, and keeps its number; it has been dirty.
LEMMA ChangeLemma ==
  ASSUME StoreInv, NEW a \in Addrs, heap[a] # NULL, NEW x \in OpenInode,
         heap' = [heap EXCEPT ![a] = x],
         x.inode.i_no = heap[a].inode.i_no, x.cnt = heap[a].cnt, x.inode.i_no \in dirty,
         UNCHANGED << open_inodes, handle, stored, torn, dirty >>
  PROVE  /\ heap' \in [Addrs -> OpenInode \cup {NULL}]
         /\ \A b \in Addrs : heap'[b] = IF b = a THEN x ELSE heap[b]
         /\ OpenOK' /\ HandlesOK' /\ x # NULL
  <1>1. /\ heap' \in [Addrs -> OpenInode \cup {NULL}]
        /\ \A b \in Addrs : heap'[b] = IF b = a THEN x ELSE heap[b]
    BY DEF StoreInv, StoreTypes
  <1>2. x # NULL
    BY NullLemma
  <1>3. OpenOK'
    BY <1>1, <1>2 DEF StoreInv, OpenOK
  <1>4. HandlesOK'
    BY <1>1, <1>2, MemoryLemma DEF StoreInv, HandlesOK
  <1> QED BY <1>1, <1>2, <1>3, <1>4

LEMMA BitmapSyncStep ==
  ASSUME StoreInv, bitmap_sync
  PROVE  StoreInv'
  <1>1. /\ call.kind = "bitmap_sync" /\ EntryOK
        /\ block_sector' = inode_bitmap
        /\ heap' = [heap EXCEPT ![call.addr].inode.i_sectors_0 = data_start_lba + call.idx]
        /\ call' = [call EXCEPT !.kind = "write_entry"]
        /\ UNCHANGED << table, blocks, block_bitmap, inode_bitmap, open_inodes, handle,
                        crashes, stored, torn, dirty >>
    BY DEF bitmap_sync, history, StoreInv, CallOK
  <1>2. PICK a, idx : a = call.addr /\ idx = call.idx
    OBVIOUS
  <1>3. /\ a \in Addrs /\ heap[a] # NULL /\ idx \in 0 .. 7 /\ heap[a].inode.i_no \in dirty
        /\ Empty(heap[a].inode) /\ heap[a] \in OpenInode /\ heap[a].inode \in InodeSet
        /\ heap[a].cnt \in Nat
    BY <1>1, <1>2, MemoryLemma DEF EntryOK, StoreInv
  <1>4. PICK x : x = [heap[a] EXCEPT !.inode.i_sectors_0 = data_start_lba + idx]
    OBVIOUS
  <1>5. /\ x \in OpenInode /\ x.inode.i_no = heap[a].inode.i_no /\ x.cnt = heap[a].cnt
        /\ x.inode.i_size = heap[a].inode.i_size
    <2>1. data_start_lba + idx \in Nat
      BY <1>3, StoreSizes
    <2> QED BY <1>3, <1>4, <2>1 DEF OpenInode, InodeSet
  <1>6. heap' = [heap EXCEPT ![a] = x]
    BY <1>1, <1>2, <1>4
  <1>7. /\ heap' \in [Addrs -> OpenInode \cup {NULL}]
        /\ \A b \in Addrs : heap'[b] = IF b = a THEN x ELSE heap[b]
        /\ OpenOK' /\ HandlesOK' /\ x # NULL
    BY <1>1, <1>3, <1>5, <1>6, ChangeLemma
  <1>8. StoreTypes'
    BY <1>1, <1>7 DEF StoreInv, StoreTypes
  <1>9. DiskOK'
    BY <1>1, DiskFrame DEF StoreInv
  <1>10. PICK c : c = [kind |-> "write_entry", addr |-> a, idx |-> idx]
    OBVIOUS
  <1>11. call' = c
    BY <1>1, <1>2, <1>10 DEF EntryOK
  <1>12. /\ c.kind = "write_entry" /\ c.addr = a /\ c.idx = idx
         /\ c = [kind |-> c.kind, addr |-> c.addr, idx |-> c.idx]
    BY <1>10
  <1>13. EntryOK'
    BY <1>1, <1>3, <1>5, <1>7, <1>11, <1>12 DEF EntryOK, Empty
  <1>14. EmptyOK'
    <2>1. ASSUME NEW b \in Addrs, heap'[b] # NULL, Empty(heap'[b].inode), NEW m,
                 m = heap'[b].inode.i_no
          PROVE  /\ Empty(OnDisk(m)) /\ OnDisk(m).i_sectors_0 = 0
                 /\ b = a \/ heap'[b].inode.i_sectors_0 = 0
      <3>1. /\ heap[b] # NULL /\ heap[b].inode.i_no = m
            /\ heap[b].inode.i_size = heap'[b].inode.i_size
            /\ b = a \/ heap'[b] = heap[b]
        BY <1>3, <1>5, <1>7, <2>1
      <3>2. Empty(heap[b].inode)
        BY <2>1, <3>1 DEF Empty
      <3>3. /\ Empty(OnDisk(heap[b].inode.i_no)) /\ OnDisk(heap[b].inode.i_no).i_sectors_0 = 0
            /\ heap[b].inode.i_sectors_0 = 0
        BY <1>1, <3>1, <3>2 DEF StoreInv, EmptyOK
      <3> QED BY <3>1, <3>3
    <2>2. ASSUME NEW m PROVE OnDisk(m)' = OnDisk(m)
      BY <1>1 DEF OnDisk, get
    <2>3. call'.kind = "write_entry" /\ call'.addr = a
      BY <1>11, <1>12
    <2>4. ASSUME NEW b \in Addrs, heap'[b] # NULL, Empty(heap'[b].inode)
          PROVE  /\ Empty(OnDisk(heap[b].inode.i_no)') /\ OnDisk(heap[b].inode.i_no)'.i_sectors_0 = 0
                 /\ (call'.kind = "write_entry" /\ call'.addr = b) \/ heap'[b].inode.i_sectors_0 = 0
      <3>1. PICK m : m = heap'[b].inode.i_no
        OBVIOUS
      <3>2. /\ Empty(OnDisk(m)) /\ OnDisk(m).i_sectors_0 = 0
            /\ b = a \/ heap'[b].inode.i_sectors_0 = 0
        BY <2>1, <2>4, <3>1
      <3>3. OnDisk(heap[b].inode.i_no)' = OnDisk(m)
        BY <2>2, <3>1 DEF OnDisk, get
      <3> QED BY <2>3, <3>2, <3>3
    <2> QED BY <2>4 DEF EmptyOK, Empty
  <1>15. CallOK'
    BY <1>11, <1>12, <1>13 DEF CallOK
  <1> QED BY <1>7, <1>8, <1>9, <1>14, <1>15 DEF StoreInv

LEMMA WriteEntryStep ==
  ASSUME StoreInv, write_entry
  PROVE  StoreInv'
  <1>1. /\ call.kind = "write_entry" /\ EntryOK
        /\ blocks' = [blocks EXCEPT ![call.idx] = heap[call.addr].inode.i_no]
        /\ heap' = [heap EXCEPT ![call.addr] = grown(heap[call.addr])]
        /\ call' = Idle
        /\ UNCHANGED << table, block_sector, block_bitmap, inode_bitmap, open_inodes, handle,
                        crashes, stored, torn, dirty >>
    BY DEF write_entry, history, StoreInv, CallOK
  <1>2. PICK a, x : a = call.addr /\ x = grown(heap[a])
    OBVIOUS
  <1>3. /\ a \in Addrs /\ heap[a] # NULL /\ heap[a].inode.i_no \in dirty
        /\ Empty(heap[a].inode) /\ heap[a] \in OpenInode /\ heap[a].inode \in InodeSet
    BY <1>1, <1>2, MemoryLemma DEF EntryOK, StoreInv
  <1>4. heap[a].inode.i_size \in Nat /\ heap[a].inode.i_no \in Nat
    BY <1>3, FieldsLemma
  <1>5. /\ x \in OpenInode /\ x.inode.i_no = heap[a].inode.i_no /\ x.cnt = heap[a].cnt
        /\ x.inode.i_size = heap[a].inode.i_size + DIR_ENTRY_SIZE
    <2>1. heap[a].inode.i_size + DIR_ENTRY_SIZE \in Nat
      BY <1>4, StoreSizes
    <2> QED BY <1>2, <1>3, <2>1 DEF OpenInode, InodeSet, grown
  <1>6. ~Empty(x.inode)
    BY <1>3, <1>4, <1>5, GrowLemma DEF Empty
  <1>7. heap' = [heap EXCEPT ![a] = x]
    BY <1>1, <1>2
  <1>8. /\ heap' \in [Addrs -> OpenInode \cup {NULL}]
        /\ \A b \in Addrs : heap'[b] = IF b = a THEN x ELSE heap[b]
        /\ OpenOK' /\ HandlesOK' /\ x # NULL
    BY <1>1, <1>3, <1>5, <1>7, ChangeLemma
  <1>9. blocks' \in [FreeBlocks \cup {0} -> Nat \cup {NULL}]
    BY <1>1, <1>2, <1>4 DEF StoreInv, StoreTypes
  <1>10. StoreTypes'
    BY <1>1, <1>8, <1>9 DEF StoreInv, StoreTypes
  <1>11. DiskOK' /\ CallOK'
    BY <1>1, DiskFrame, IdleAfter DEF StoreInv
  <1>12. EmptyOK'
    BY <1>1, <1>2, <1>3, <1>6, <1>8 DEF StoreInv, EmptyOK, OnDisk, get, Empty
  <1> QED BY <1>8, <1>10, <1>11, <1>12 DEF StoreInv

-----------------------------------------------------------------------------
(* Power cuts, and the first state.                                        *)

\* An inode with a sector written: its number is on disk, and all of it if it fits.
LEMMA HalfLemma ==
  ASSUME SyncOK, call.done > 0, NEW inode, inode = call.inode, NEW n, n = inode.i_no
  PROVE  OnDisk(n).i_no = n /\ (Fits(n) => OnDisk(n) = inode)
  <1>1. n \in Inodes /\ n \in 0 .. MAX_FILES_PER_PART - 1 /\ n \in Nat /\ inode \in InodeSet
    BY InodesLemma DEF SyncOK
  <1>2. PICK at, done, lim : at = call.sec * SECTOR_SIZE /\ done = call.done
                             /\ lim = at + done * SECTOR_SIZE
    OBVIOUS
  <1>3. /\ at \in Nat /\ 3 * n < at + SECTOR_SIZE /\ call.secs \in {1, 2}
        /\ Fits(n) => 3 * n + 2 < at + SECTOR_SIZE
    BY <1>1, <1>2, PlaceLemma DEF SyncOK
  <1>4. done = 1
    BY <1>2, <1>3 DEF SyncOK
  <1>5. lim = at + SECTOR_SIZE
    BY <1>2, <1>3, <1>4, StoreSizes
  <1>6. \A k \in 0 .. 2 : 3 * n + k < lim => table[3 * n + k] = Byte(inode, k)
    BY <1>2 DEF SyncOK
  <1>7. 3 * n + 0 = 3 * n /\ 0 \in 0 .. 2 /\ 1 \in 0 .. 2 /\ 2 \in 0 .. 2
    BY <1>1
  <1>8. table[3 * n] = inode.i_no
    BY <1>3, <1>5, <1>6, <1>7 DEF Byte
  <1>9. ASSUME Fits(n)
        PROVE  table[3 * n + 1] = inode.i_size /\ table[3 * n + 2] = inode.i_sectors_0
    <2>1. 3 * n + 1 < lim /\ 3 * n + 2 < lim
      BY <1>1, <1>3, <1>5, <1>9, StoreSizes
    <2> QED BY <1>6, <1>7, <2>1 DEF Byte
  <1>10. inode = Inode(inode.i_no, inode.i_size, inode.i_sectors_0)
    BY <1>1, FieldsLemma
  <1> QED BY <1>1, <1>8, <1>9, <1>10, OnDiskLemma, InodeLemma

\* A power cut leaves an inode's first sector on disk: all of the inode if it fits.
LEMMA PowerCutStep ==
  ASSUME StoreInv, power_cut
  PROVE  StoreInv'
  <1>1. PICK half \in BOOLEAN : half <=> call.kind = "sync" /\ call.done > 0
    OBVIOUS
  <1>2. PICK inode, n : inode = call.inode /\ n = inode.i_no
    OBVIOUS
  <1>3. /\ crashes' = crashes + 1
        /\ stored' = IF half THEN [stored EXCEPT ![n] = inode] ELSE stored
        /\ torn' = IF half /\ ~Fits(n) THEN torn \union {n} ELSE torn
        /\ dirty' = {} /\ block_bitmap' = block_sector
        /\ heap' = [a \in Addrs |-> NULL] /\ open_inodes' = << >>
        /\ handle' = [h \in Handles |-> NULL] /\ call' = Idle
        /\ UNCHANGED << table, block_sector, blocks, inode_bitmap >>
    BY <1>1, <1>2 DEF power_cut, disk
  <1>4. half => SyncOK /\ n \in Inodes /\ n \in 0 .. MAX_FILES_PER_PART - 1 /\ inode \in InodeSet
                /\ inode # NULL /\ n \in Nat
    BY <1>1, <1>2, InodesLemma, NullLemma DEF StoreInv, CallOK, SyncOK
  <1>5. /\ stored' \in [Inodes -> InodeSet \cup {NULL}]
        /\ \A m \in Inodes : stored'[m] = IF half /\ m = n THEN inode ELSE stored[m]
    BY <1>3, <1>4 DEF StoreInv, StoreTypes
  <1>6. torn' \subseteq Inodes
    BY <1>3, <1>4 DEF StoreInv, StoreTypes
  <1>7. StoreTypes'
    BY <1>3, <1>5, <1>6 DEF StoreInv, StoreTypes
  <1>8. OpenOK' /\ HandlesOK' /\ EmptyOK'
    BY <1>3 DEF OpenOK, HandlesOK, EmptyOK, NoDup, elem_find
  <1>9. CallOK' /\ call'.kind = "none"
    BY <1>3, IdleAfter
  <1>10. ASSUME half PROVE OnDisk(n).i_no = n /\ (Fits(n) => OnDisk(n) = inode)
    BY <1>1, <1>2, <1>4, <1>10, HalfLemma
  <1>11. \A m \in 0 .. MAX_FILES_PER_PART - 1 : OnDisk(m)' = OnDisk(m)
    BY <1>3 DEF OnDisk, get
  <1>12. ASSUME NEW m \in Inodes
         PROVE  /\ \/ m \in torn'
                   \/ OnDisk(m)' = IF stored'[m] = NULL THEN Inode(0, 0, 0) ELSE stored'[m]
                /\ stored'[m] # NULL => stored'[m].i_no = m /\ OnDisk(m)'.i_no = m
                /\ m \in torn' => stored'[m] # NULL
                /\ Empty(OnDisk(m)') => OnDisk(m)'.i_sectors_0 = 0
    <2>1. OnDisk(m)' = OnDisk(m)
      BY <1>11, InodesLemma
    <2>2. CASE half /\ m = n
      <3>1. stored'[m] = inode
        BY <1>5, <2>2
      <3>2. Empty(OnDisk(m)) => OnDisk(m).i_sectors_0 = 0
        BY DEF StoreInv, DiskOK
      <3> QED BY <1>2, <1>3, <1>4, <1>10, <2>1, <2>2, <3>1, <3>2
    <2>3. CASE ~(half /\ m = n)
      <3>1. stored'[m] = stored[m] /\ (m \in torn' <=> m \in torn)
        BY <1>3, <1>5, <2>3
      <3>2. ~(Syncing(m) /\ call.done > 0)
        BY <1>1, <1>2, <2>3 DEF Syncing
      <3> QED BY <2>1, <3>1, <3>2 DEF StoreInv, DiskOK
    <2> QED BY <2>2, <2>3
  <1>13. DiskOK'
    BY <1>3, <1>11, <1>12 DEF StoreInv, DiskOK, Empty
  <1> QED BY <1>7, <1>8, <1>9, <1>13 DEF StoreInv

\* The formatted table.
LEMMA FormattedLemma ==
  /\ FormattedTable \in [TableBytes -> Nat]
  /\ FormattedTable[0] = 0 /\ FormattedTable[1] = 2 * DIR_ENTRY_SIZE
  /\ FormattedTable[2] = data_start_lba
  /\ \A p \in TableBytes : p > 2 =>
        FormattedTable[p] = IF p < inode_table_sects * SECTOR_SIZE THEN 0 ELSE 255
  <1> DEFINE t == inode_table_sects * SECTOR_SIZE
             blank == [b \in TableBytes |-> IF b < t THEN 0 ELSE 255]
  <1>1. FormattedTable = put(blank, 0, RootInode)
    BY DEF FormattedTable, TableBytes
  <1>2. /\ RootInode.i_no = 0 /\ RootInode.i_size = 2 * DIR_ENTRY_SIZE
        /\ RootInode.i_sectors_0 = data_start_lba
    BY InodeLemma DEF RootInode
  <1>3. 2 * DIR_ENTRY_SIZE \in Nat /\ data_start_lba \in Nat
    BY StoreSizes
  <1>4. \A p \in TableBytes : p \in Nat
    BY StoreSizes DEF TableBytes
  <1>5. 0 \in TableBytes /\ 1 \in TableBytes /\ 2 \in TableBytes
    <2>1. 0 \in 0 .. MAX_FILES_PER_PART - 1
      BY LayoutAssumption
    <2>2. Own(0) = {0, 1, 2}
      BY <2>1, OwnLemma
    <2> QED BY <2>1, <2>2, OwnLemma
  <1>6. /\ DOMAIN blank = TableBytes
        /\ \A p \in TableBytes : blank[p] = IF p < t THEN 0 ELSE 255
    OBVIOUS
  <1> HIDE DEF blank
  <1>7. FormattedTable = [p \in TableBytes |-> CASE p = 0 -> RootInode.i_no
                                                 [] p = 0 + 1 -> RootInode.i_size
                                                 [] p = 0 + 2 -> RootInode.i_sectors_0
                                                 [] OTHER -> blank[p]]
    BY <1>1, <1>6 DEF put
  <1>8. \A p \in TableBytes : FormattedTable[p] =
            IF p = 0 THEN 0 ELSE IF p = 1 THEN 2 * DIR_ENTRY_SIZE
            ELSE IF p = 2 THEN data_start_lba ELSE blank[p]
    BY <1>2, <1>4, <1>7
  <1>9. FormattedTable \in [TableBytes -> Nat]
    BY <1>3, <1>6, <1>7, <1>8
  <1> QED BY <1>4, <1>5, <1>6, <1>8, <1>9

LEMMA InitStore ==
  ASSUME Init
  PROVE  StoreInv
  <1>1. RootInode \in InodeSet /\ ~Empty(RootInode) /\ RootInode.i_no = 0
    <2>1. 2 * DIR_ENTRY_SIZE \in Nat /\ data_start_lba \in Nat
      BY StoreSizes
    <2>2. RootInode.i_size = 2 * DIR_ENTRY_SIZE /\ RootInode \in InodeSet /\ RootInode.i_no = 0
      BY <2>1, InodeLemma DEF RootInode
    <2> QED BY <2>2, FileStoreAssumption DEF Empty
  <1>2. 0 \in Inodes /\ FreeBlocks \subseteq 0 .. 7
    BY FileStoreAssumption
  <1>3. StoreTypes
    BY <1>1, FormattedLemma DEF Init, StoreTypes, Bits8
  <1>4. OpenOK /\ HandlesOK /\ EmptyOK /\ CallOK /\ call.kind = "none"
    BY IdleLemma DEF Init, OpenOK, HandlesOK, EmptyOK, CallOK, NoDup, elem_find
  <1>5. OnDisk(0) = RootInode
    <2>1. 0 \in 0 .. MAX_FILES_PER_PART - 1 /\ 3 * 0 = 0 /\ 3 * 0 + 1 = 1 /\ 3 * 0 + 2 = 2
      BY LayoutAssumption
    <2>2. OnDisk(0) = Inode(table[0], table[1], table[2])
      BY <2>1, OnDiskLemma
    <2> QED BY <2>2, FormattedLemma DEF Init, RootInode
  <1>6. ASSUME NEW n \in 0 .. MAX_FILES_PER_PART - 1, n # 0
        PROVE  OnDisk(n) = Inode(0, 0, 0)
    <2>1. /\ n \in Nat /\ Own(n) = {3 * n, 3 * n + 1, 3 * n + 2}
          /\ \A p \in Own(n) : p \in TableBytes /\ p < inode_table_sects * SECTOR_SIZE
      BY OwnLemma
    <2>2. 3 * n > 2 /\ 3 * n + 1 > 2 /\ 3 * n + 2 > 2
      BY <1>6, <2>1
    <2>3. table[3 * n] = 0 /\ table[3 * n + 1] = 0 /\ table[3 * n + 2] = 0
      BY <2>1, <2>2, FormattedLemma DEF Init
    <2> QED BY <2>3, OnDiskLemma
  <1>7. DiskOK
    <2>1. ASSUME NEW n \in Inodes
          PROVE  /\ OnDisk(n) = IF stored[n] = NULL THEN Inode(0, 0, 0) ELSE stored[n]
                 /\ stored[n] # NULL => stored[n].i_no = n /\ OnDisk(n).i_no = n
                 /\ Empty(OnDisk(n)) => OnDisk(n).i_sectors_0 = 0
      <3>1. CASE n = 0
        BY <1>1, <1>2, <1>5, <3>1, NullLemma DEF Init
      <3>2. CASE n # 0
        BY <1>6, <3>2, InodesLemma, InodeLemma DEF Init
      <3> QED BY <3>1, <3>2
    <2>2. \A n \in (0 .. MAX_FILES_PER_PART - 1) \ Inodes : OnDisk(n) = Inode(0, 0, 0)
      BY <1>2, <1>6
    <2>3. \A b \in TableBytes : b >= inode_table_sects * SECTOR_SIZE => table[b] = 255
      <3>1. PICK t : t = inode_table_sects * SECTOR_SIZE
        OBVIOUS
      <3>2. t \in Nat /\ t > 2 /\ TableBytes = 0 .. t + SECTOR_SIZE - 1
        BY <3>1, StoreSizes, LayoutAssumption DEF TableBytes
      <3>3. ASSUME NEW b \in TableBytes, b >= t PROVE b > 2 /\ ~(b < t)
        BY <3>2, <3>3, StoreSizes
      <3> QED BY <3>1, <3>3, FormattedLemma DEF Init
    <2>4. torn = {}
      BY DEF Init
    <2> QED BY <2>1, <2>2, <2>3, <2>4 DEF DiskOK
  <1> QED BY <1>3, <1>4, <1>7 DEF StoreInv

\* Every step.
LEMMA StoreStep ==
  ASSUME StoreInv, [Next]_vars
  PROVE  StoreInv'
  <1>1. ASSUME NEW h \in Handles, NEW n \in Inodes, inode_open(h, n) \/ dir_open(h, n)
        PROVE  StoreInv'
    BY <1>1, OpenStep DEF inode_open, dir_open
  <1>2. ASSUME NEW h \in Handles,
               inode_close(h) \/ dir_close(h) \/ inode_sync(h) \/ sync_dir_entry(h)
        PROVE  StoreInv'
    BY <1>2, InodeCloseStep, CloseStep, InodeSyncStep, SyncDirEntryStep
  <1>3. ASSUME NEW n \in Inodes, inode_init(n) PROVE StoreInv'
    BY <1>3, InodeInitStep
  <1>4. CASE inode_sync_write \/ bitmap_sync \/ write_entry \/ power_cut
    BY <1>4, WriteStep, BitmapSyncStep, WriteEntryStep, PowerCutStep
  <1>5. CASE UNCHANGED vars
    <2>1. UNCHANGED << table, block_sector, blocks, block_bitmap, inode_bitmap, heap,
                       open_inodes, handle, call, crashes, stored, torn, dirty >>
      BY <1>5 DEF vars, disk, memory, history
    <2>2. OpenOK' /\ HandlesOK' /\ StoreTypes'
      BY <2>1 DEF StoreInv, OpenOK, HandlesOK, StoreTypes
    <2>3. CallOK'
      BY <2>1 DEF StoreInv, CallOK, SyncOK, EntryOK, OnDisk, get, Empty
    <2>4. DiskOK'
      BY <2>1 DEF StoreInv, DiskOK, OnDisk, get, Empty, Syncing
    <2>5. EmptyOK'
      BY <2>1 DEF StoreInv, EmptyOK, OnDisk, get, Empty, Syncing
    <2> QED BY <2>2, <2>3, <2>4, <2>5 DEF StoreInv
  <1> QED BY <1>1, <1>2, <1>3, <1>4, <1>5 DEF Next

-----------------------------------------------------------------------------
(* Theorems.                                                               *)

\* Everything below rests on this invariant of inode_open, inode_close, inode_sync,
\* sync_dir_entry and the power cuts.
THEOREM StoreInvariance == Spec => []StoreInv
  BY InitStore, StoreStep, PTL DEF Spec

\* Whatever inode_sync was doing when the power failed, the inode table holds every
\* other inode as it was last stored, and an inode that lies in one sector whole.
THEOREM DiskCurrentSafe == Spec => []DiskCurrent
  <1>1. StoreInv => DiskCurrent
    <2> SUFFICES ASSUME StoreInv PROVE DiskCurrent
      OBVIOUS
    <2>1. ASSUME NEW n \in Inodes \ torn
          PROVE  \/ OnDisk(n) = IF stored[n] = NULL THEN Inode(0, 0, 0) ELSE stored[n]
                 \/ Syncing(n) /\ (Fits(n) => OnDisk(n) = call.inode)
      <3>1. CASE Syncing(n) /\ call.done > 0
        <4>1. SyncOK
          BY <3>1 DEF StoreInv, CallOK, Syncing
        <4> QED BY <3>1, <4>1, HalfLemma DEF Syncing
      <3>2. CASE ~(Syncing(n) /\ call.done > 0)
        BY <2>1, <3>2 DEF StoreInv, DiskOK
      <3> QED BY <3>1, <3>2
    <2>2. DOMAIN table = TableBytes
      BY DEF StoreInv, StoreTypes
    <2> QED BY <2>1, <2>2 DEF StoreInv, DiskOK, DiskCurrent
  <1> QED BY <1>1, StoreInvariance, PTL

\* inode_open finds every inode as it was last stored, or as an opener has changed it
\* since: the list of open inodes never holds two copies of one.
THEOREM CacheCoherentSafe == Spec => []CacheCoherent
  <1>1. StoreInv => CacheCoherent
    <2> SUFFICES ASSUME StoreInv PROVE CacheCoherent
      OBVIOUS
    <2>1. /\ DOMAIN open_inodes = 1 .. Len(open_inodes)
          /\ \A i \in 1 .. Len(open_inodes) : open_inodes[i] \in Addrs /\ heap[open_inodes[i]] # NULL
      BY DEF StoreInv, StoreTypes, OpenOK, elem_find
    <2>2. ASSUME NEW i \in DOMAIN open_inodes, NEW j \in DOMAIN open_inodes, i # j
          PROVE  heap[open_inodes[j]].inode.i_no # heap[open_inodes[i]].inode.i_no
      <3>1. open_inodes[i] # open_inodes[j]
        BY <2>1, <2>2 DEF StoreInv, OpenOK, NoDup
      <3> QED BY <2>1, <3>1 DEF StoreInv, OpenOK
    <2>3. ASSUME NEW i \in DOMAIN open_inodes, NEW inode, inode = heap[open_inodes[i]].inode,
                 inode.i_no \notin dirty \union torn
          PROVE  inode = stored[inode.i_no]
      BY <2>1, <2>3 DEF StoreInv, OpenOK
    <2> QED BY <2>2, <2>3 DEF CacheCoherent
  <1> QED BY <1>1, StoreInvariance, PTL

\* No order of inode_open, dir_open, inode_close and dir_close frees an inode that
\* somebody has open.
THEOREM HandlesLiveSafe == Spec => []HandlesLive
  <1>1. StoreInv => HandlesLive
    <2> SUFFICES ASSUME StoreInv, NEW h \in Handles, handle[h] # NULL, NEW a, a = handle[h].addr
                 PROVE  /\ \E i \in DOMAIN open_inodes : open_inodes[i] = a
                        /\ heap[a].inode.i_no = handle[h].no
                        /\ heap[a].cnt >= Cardinality({g \in Handles : handle[g] # NULL /\ handle[g].addr = a})
      BY DEF HandlesLive
    <2>1. a \in Addrs /\ DOMAIN open_inodes = 1 .. Len(open_inodes)
      BY MemoryLemma DEF StoreInv, StoreTypes
    <2>2. /\ heap[a] # NULL /\ heap[a].inode.i_no = handle[h].no
          /\ heap[a].cnt >= Cardinality(Openers(handle, a))
      BY DEF StoreInv, HandlesOK
    <2>3. elem_find(open_inodes, a)
      BY <2>1, <2>2 DEF StoreInv, OpenOK
    <2> QED BY <2>1, <2>2, <2>3 DEF elem_find, Openers
  <1> QED BY <1>1, StoreInvariance, PTL

\* sync_dir_entry gets past its ASSERT for directories without a block only.
THEOREM FirstEntryOnlySafe == Spec => []FirstEntryOnly
  <1>1. StoreInv => FirstEntryOnly
    BY DEF StoreInv, EmptyOK, FirstEntryOnly, Empty
  <1> QED BY <1>1, StoreInvariance, PTL

-----------------------------------------------------------------------------
(* Blocks, up to the first power cut.                                      *)

\* Steps that leave the blocks, what is stored, and the openers' inodes alone.
LEMMA BlockFrame ==
  ASSUME BlockOK, UNCHANGED << blocks, block_bitmap, stored, torn, crashes >>,
         call.kind = "none", call'.kind = "none" \/ call'.kind = "halt",
         \A a \in Addrs : heap'[a] = NULL \/ (heap[a] # NULL /\ heap'[a].inode = heap[a].inode)
                          \/ \E n \in Inodes : stored[n] # NULL /\ heap'[a].inode = stored[n]
  PROVE  BlockOK'
  BY DEF BlockOK

\* inode_open brings in what is stored.
LEMMA OpenBlock ==
  ASSUME StoreInv, BlockOK, crashes = 0, NEW h \in Handles, NEW n \in Inodes,
         NEW kind \in {"file", "dir"}, open(h, n, kind)
  PROVE  BlockOK'
  <1>1. /\ call = Idle /\ stored[n] # NULL
        /\ UNCHANGED << blocks, block_bitmap, call, crashes, stored, torn >>
    BY DEF open, disk, history
  <1>2. call.kind = "none" /\ call'.kind = "none"
    BY <1>1, IdleLemma
  <1>3. CASE search(n) # {}
    <2>1. PICK a : a = open_inodes[CHOOSE i \in search(n) : \A j \in search(n) : i <= j]
      OBVIOUS
    <2>2. a \in Addrs /\ heap[a] # NULL /\ heap[a] \in OpenInode /\ heap[a].cnt \in Nat
      BY <1>3, <2>1, SearchLemma, MemoryLemma DEF StoreInv
    <2>3. heap' = [heap EXCEPT ![a].cnt = @ + 1]
      BY <1>3, <2>1 DEF open, found
    <2>4. PICK x : x = [heap[a] EXCEPT !.cnt = heap[a].cnt + 1]
      OBVIOUS
    <2>5. x.inode = heap[a].inode
      BY <2>2, <2>4, FieldsLemma
    <2>6. \A b \in Addrs : heap'[b] = IF b = a THEN x ELSE heap[b]
      BY <2>2, <2>3, <2>4 DEF StoreInv, StoreTypes
    <2> QED BY <1>1, <1>2, <2>2, <2>5, <2>6, BlockFrame
  <1>4. CASE search(n) = {}
    <2>1. PICK a \in Addrs : heap' = [heap EXCEPT ![a] = [inode |-> OnDisk(n), cnt |-> 1]]
      BY <1>4 DEF open
    <2>2. OnDisk(n) = stored[n]
      BY <1>1, <1>2 DEF StoreInv, DiskOK, BlockOK, Syncing
    <2>3. \A b \in Addrs : IF b = a THEN heap'[b].inode = stored[n] ELSE heap'[b] = heap[b]
      BY <2>1, <2>2 DEF StoreInv, StoreTypes
    <2> QED BY <1>1, <1>2, <2>3, BlockFrame
  <1> QED BY <1>3, <1>4

LEMMA CloseBlock ==
  ASSUME StoreInv, BlockOK, NEW h \in Handles, inode_close(h) \/ dir_close(h)
  PROVE  BlockOK'
  <1>1. /\ call = Idle /\ handle[h] # NULL
        /\ UNCHANGED << blocks, block_bitmap, call, crashes, stored, torn >>
    BY DEF inode_close, dir_close, disk, history
  <1>2. call.kind = "none" /\ call'.kind = "none"
    BY <1>1, IdleLemma
  <1>3. \A b \in Addrs : heap'[b] = NULL \/ (heap[b] # NULL /\ heap'[b].inode = heap[b].inode)
    <2>1. PICK a : a = handle[h].addr
      OBVIOUS
    <2>2. a \in Addrs /\ heap[a] # NULL /\ heap[a] \in OpenInode
      BY <1>1, <2>1, MemoryLemma DEF StoreInv, HandlesOK
    <2>3. CASE heap' = heap
      BY <2>3
    <2>4. CASE heap' = [heap EXCEPT ![a] = NULL]
      BY <2>2, <2>4 DEF StoreInv, StoreTypes
    <2>5. CASE heap' = [heap EXCEPT ![a].cnt = @ - 1]
      BY <2>2, <2>5 DEF StoreInv, StoreTypes, OpenInode
    <2> QED BY <2>1, <2>3, <2>4, <2>5 DEF inode_close, dir_close
  <1> QED BY <1>1, <1>2, <1>3, BlockFrame

\* inode_sync starts with an inode whose block is its own.
LEMMA SyncBlock ==
  ASSUME BlockOK, call = Idle, NEW inode, call' = inode_sync_read(inode),
         UNCHANGED << disk, memory, crashes, history >>,
         crashes = 0 => Owns(blocks, inode)
  PROVE  BlockOK'
  <1>1. call'.kind = "sync" /\ call'.inode = inode
    BY DEF inode_sync_read
  <1>2. call.kind = "none"
    BY IdleLemma
  <1> QED BY <1>1, <1>2 DEF BlockOK, disk, memory, history

LEMMA StartBlock ==
  ASSUME StoreInv, BlockOK,
         \/ \E h \in Handles : inode_sync(h)
         \/ \E n \in Inodes : inode_init(n)
  PROVE  BlockOK'
  <1>1. ASSUME NEW n \in Inodes, inode_init(n) PROVE BlockOK'
    <2>1. Owns(blocks, Inode(n, 0, 0))
      BY InodeLemma DEF Owns
    <2> QED BY <1>1, <2>1, SyncBlock DEF inode_init
  <1>2. ASSUME NEW h \in Handles, inode_sync(h) PROVE BlockOK'
    <2>1. PICK inode : inode = heap[handle[h].addr].inode
      OBVIOUS
    <2>2. /\ call = Idle /\ handle[h] # NULL /\ call' = inode_sync_read(inode)
          /\ UNCHANGED << disk, memory, crashes, history >>
      BY <1>2, <2>1 DEF inode_sync
    <2>3. handle[h].addr \in Addrs /\ heap[handle[h].addr] # NULL
      BY <2>2, MemoryLemma DEF StoreInv, HandlesOK
    <2>4. crashes = 0 => Owns(blocks, inode)
      BY <2>1, <2>2, <2>3, IdleLemma DEF BlockOK
    <2> QED BY <2>2, <2>4, SyncBlock
  <1> QED BY <1>1, <1>2

LEMMA WriteBlock ==
  ASSUME StoreInv, BlockOK, inode_sync_write
  PROVE  BlockOK'
  <1>1. /\ call.kind = "sync" /\ SyncOK
        /\ UNCHANGED << blocks, block_bitmap, heap, crashes >>
    BY DEF StoreInv, CallOK, inode_sync_write, memory
  <1>2. CASE call' = [call EXCEPT !.done = @ + 1] /\ UNCHANGED history
    <2>1. call'.kind = "sync" /\ call'.inode = call.inode
      <3>1. PICK b, s, t, d, i : call = [kind |-> "sync", inode |-> i, buf |-> b, sec |-> s,
                                         secs |-> t, done |-> d]
        BY <1>1 DEF SyncOK
      <3>2. call' = [kind |-> "sync", inode |-> i, buf |-> b, sec |-> s, secs |-> t, done |-> d + 1]
        BY <1>2, <3>1
      <3> QED BY <3>1, <3>2
    <2> QED BY <1>1, <1>2, <2>1 DEF BlockOK, history
  <1>3. CASE /\ call' = Idle /\ stored' = [stored EXCEPT ![call.inode.i_no] = call.inode]
             /\ torn' = torn \ {call.inode.i_no}
    <2>1. call'.kind = "none"
      BY <1>3 DEF Idle
    <2>2. \A m \in Inodes : stored'[m] = stored[m] \/ stored'[m] = call.inode
      BY <1>3 DEF StoreInv, StoreTypes
    <2> QED BY <1>1, <1>3, <2>1, <2>2 DEF BlockOK
  <1> QED BY <1>2, <1>3 DEF inode_sync_write

\* block_bitmap_alloc gives out a block that holds nothing, and marks it used.
LEMMA SyncDirEntryBlock ==
  ASSUME StoreInv, BlockOK, NEW h \in Handles, sync_dir_entry(h)
  PROVE  BlockOK'
  <1>1. PICK a, idx : a = handle[h].addr /\ idx = bitmap_scan(block_bitmap, 1, 1)
    OBVIOUS
  <1>2. /\ call = Idle /\ UNCHANGED << blocks, heap, crashes, stored, torn >>
    BY DEF sync_dir_entry, disk
  <1>3. call.kind = "none"
    BY <1>2, IdleLemma
  <1>4. CASE call' = [kind |-> "halt"] /\ UNCHANGED block_bitmap
    <2>1. call'.kind = "halt"
      BY <1>4
    <2> QED BY <1>2, <1>3, <1>4, <2>1 DEF BlockOK
  <1>5. CASE /\ idx # -1 /\ block_bitmap' = bitmap_set(block_bitmap, idx, 1)
             /\ call' = [kind |-> "bitmap_sync", addr |-> a, idx |-> idx]
    <2>1. /\ idx \in 0 .. 7 /\ block_bitmap[idx] = 0
          /\ \A i \in 0 .. 8 : block_bitmap'[i] = IF i = idx THEN 1 ELSE block_bitmap[i]
      BY <1>1, <1>5, AllocLemma DEF StoreInv, StoreTypes
    <2>2. call'.kind = "bitmap_sync" /\ call'.addr = a /\ call'.idx = idx
      BY <1>5
    <2> QED BY <1>2, <1>3, <2>1, <2>2 DEF BlockOK
  <1> QED BY <1>1, <1>4, <1>5 DEF sync_dir_entry, block_bitmap_alloc

LEMMA BitmapSyncBlock ==
  ASSUME StoreInv, BlockOK, bitmap_sync
  PROVE  BlockOK'
  <1>1. /\ call.kind = "bitmap_sync" /\ EntryOK
        /\ heap' = [heap EXCEPT ![call.addr].inode.i_sectors_0 = data_start_lba + call.idx]
        /\ call' = [call EXCEPT !.kind = "write_entry"]
        /\ UNCHANGED << blocks, block_bitmap, crashes, stored, torn >>
    BY DEF bitmap_sync, history, StoreInv, CallOK
  <1>2. PICK a, idx : a = call.addr /\ idx = call.idx
    OBVIOUS
  <1>3. a \in Addrs /\ heap[a] \in OpenInode
    BY <1>1, <1>2, MemoryLemma DEF StoreInv, EntryOK
  <1>4. PICK x : x = [heap[a] EXCEPT !.inode.i_sectors_0 = data_start_lba + idx]
    OBVIOUS
  <1>5. x.inode.i_sectors_0 = data_start_lba + idx
    BY <1>3, <1>4 DEF OpenInode, InodeSet
  <1>6. \A b \in Addrs : heap'[b] = IF b = a THEN x ELSE heap[b]
    BY <1>1, <1>2, <1>3, <1>4 DEF StoreInv, StoreTypes
  <1>7. call' = [kind |-> "write_entry", addr |-> a, idx |-> idx]
    BY <1>1, <1>2 DEF EntryOK
  <1>8. call'.kind = "write_entry" /\ call'.addr = a /\ call'.idx = idx
    BY <1>7
  <1> QED BY <1>1, <1>2, <1>3, <1>5, <1>6, <1>8 DEF BlockOK

\* The entry's block held nothing, so no other inode loses its own.
LEMMA WriteEntryBlock ==
  ASSUME StoreInv, BlockOK, write_entry
  PROVE  BlockOK'
  <1>1. /\ call.kind = "write_entry" /\ EntryOK
        /\ blocks' = [blocks EXCEPT ![call.idx] = heap[call.addr].inode.i_no]
        /\ heap' = [heap EXCEPT ![call.addr] = grown(heap[call.addr])]
        /\ call' = Idle
        /\ UNCHANGED << block_bitmap, crashes, stored, torn >>
    BY DEF write_entry, history, StoreInv, CallOK
  <1>2. PICK a, idx, x, no : /\ a = call.addr /\ idx = call.idx /\ x = grown(heap[a])
                             /\ no = heap[a].inode.i_no
    OBVIOUS
  <1>3. /\ a \in Addrs /\ heap[a] # NULL /\ heap[a] \in OpenInode /\ heap[a].inode \in InodeSet
        /\ call'.kind = "none"
    BY <1>1, <1>2, MemoryLemma DEF StoreInv, EntryOK, Idle
  <1>4. x.inode.i_no = no /\ x.inode.i_sectors_0 = heap[a].inode.i_sectors_0
    BY <1>2, <1>3 DEF OpenInode, InodeSet, grown
  <1>5. \A b \in Addrs : heap'[b] = IF b = a THEN x ELSE heap[b]
    BY <1>1, <1>2, <1>3 DEF StoreInv, StoreTypes
  <1>6. DOMAIN blocks' = DOMAIN blocks
        /\ \A i \in DOMAIN blocks : blocks'[i] = IF i = idx THEN no ELSE blocks[i]
    BY <1>1, <1>2 DEF StoreInv, StoreTypes
  <1> SUFFICES ASSUME crashes = 0 PROVE BlockOK'
    BY <1>1 DEF BlockOK
  <1>7. /\ idx \in DOMAIN blocks /\ blocks[idx] = NULL /\ block_bitmap[idx] # 0
        /\ heap[a].inode.i_sectors_0 = data_start_lba + idx
    BY <1>1, <1>2 DEF BlockOK
  <1>8. ASSUME NEW inode \in InodeSet, Owns(blocks, inode) PROVE Owns(blocks', inode)
    <2>1. inode.i_no \in Nat /\ inode.i_no # NULL
      BY FieldsLemma, NullLemma
    <2> QED BY <1>6, <1>7, <1>8, <2>1 DEF Owns
  <1>9. Owns(blocks', x.inode)
    BY <1>4, <1>6, <1>7 DEF Owns
  <1>10. \A n \in Inodes : stored[n] # NULL => Owns(blocks', stored[n])
    BY <1>8, MemoryLemma DEF StoreInv, BlockOK
  <1>11. \A b \in Addrs : heap'[b] = NULL \/ Owns(blocks', heap'[b].inode)
    <2>1. ASSUME NEW b \in Addrs, b # a PROVE heap[b] = NULL \/ Owns(blocks', heap[b].inode)
      BY <1>2, <1>8, <2>1, MemoryLemma DEF StoreInv, BlockOK
    <2> QED BY <1>5, <1>9, <2>1
  <1>12. \A i \in 0 .. 7 : block_bitmap[i] = 0 => i \in DOMAIN blocks' /\ blocks'[i] = NULL
    BY <1>6, <1>7 DEF BlockOK
  <1> QED BY <1>1, <1>3, <1>10, <1>11, <1>12 DEF BlockOK

LEMMA InitBlock ==
  ASSUME Init, 0 \notin FreeBlocks
  PROVE  BlockOK
  <1>1. /\ DOMAIN blocks = FreeBlocks \cup {0} /\ blocks[0] = 0 /\ torn = {}
        /\ \A i \in FreeBlocks : blocks[i] = NULL
        /\ \A i \in 0 .. 7 : block_bitmap[i] = 0 => i \in FreeBlocks
        /\ heap = [a \in Addrs |-> NULL] /\ call.kind = "none"
        /\ \A n \in Inodes : stored[n] = IF n = 0 THEN RootInode ELSE NULL
    BY IdleLemma DEF Init
  <1>2. RootInode.i_no = 0 /\ RootInode.i_sectors_0 = data_start_lba + 0
    BY InodeLemma, StoreSizes DEF RootInode
  <1>3. Owns(blocks, RootInode)
    BY <1>1, <1>2 DEF Owns
  <1> QED BY <1>1, <1>3 DEF BlockOK

LEMMA BlockStep ==
  ASSUME StoreInv, BlockOK, [Next]_vars
  PROVE  BlockOK'
  <1>1. CASE crashes # 0
    <2>1. crashes' = crashes \/ crashes' = crashes + 1
      BY DEF Next, inode_open, dir_open, open, inode_close, dir_close, inode_sync, sync_dir_entry,
             inode_init, inode_sync_write, bitmap_sync, write_entry, power_cut, vars
    <2>2. crashes' # 0
      BY <1>1, <2>1 DEF StoreInv, StoreTypes
    <2> QED BY <2>2 DEF BlockOK
  <1>2. CASE crashes = 0
    <2>1. ASSUME NEW h \in Handles, NEW n \in Inodes, inode_open(h, n) \/ dir_open(h, n)
          PROVE  BlockOK'
      BY <1>2, <2>1, OpenBlock DEF inode_open, dir_open
    <2>2. ASSUME NEW h \in Handles,
                 inode_close(h) \/ dir_close(h) \/ inode_sync(h) \/ sync_dir_entry(h)
          PROVE  BlockOK'
      BY <2>2, CloseBlock, StartBlock, SyncDirEntryBlock
    <2>3. ASSUME NEW n \in Inodes, inode_init(n) PROVE BlockOK'
      BY <2>3, StartBlock
    <2>4. CASE inode_sync_write \/ bitmap_sync \/ write_entry
      BY <2>4, WriteBlock, BitmapSyncBlock, WriteEntryBlock
    <2>5. CASE power_cut
      BY <1>2, <2>5 DEF power_cut, BlockOK
    <2>6. CASE UNCHANGED vars
      BY <2>6 DEF vars, disk, memory, history, BlockOK
    <2> QED BY <2>1, <2>2, <2>3, <2>4, <2>5, <2>6 DEF Next
  <1> QED BY <1>1, <1>2

\* Until the first power cut sync_dir_entry gives no directory a block that another one
\* has its entries in, if partition_format has marked the root directory's block used
\* (theorem RootBlockUsed says when it has).
THEOREM EntryKeptSafe == 0 \notin FreeBlocks => (Spec => []EntryKept)
  <1>1. Init /\ 0 \notin FreeBlocks => StoreInv /\ BlockOK
    BY InitStore, InitBlock
  <1>2. (StoreInv /\ BlockOK) /\ [Next]_vars => (StoreInv /\ BlockOK)'
    BY StoreStep, BlockStep
  <1>3. StoreInv /\ BlockOK => EntryKept
    <2> SUFFICES ASSUME StoreInv, BlockOK, crashes = 0, call.kind # "write_entry"
                 PROVE  EntryKept
      BY DEF EntryKept
    <2>1. ASSUME NEW inode \in InodeSet, Owns(blocks, inode), inode.i_sectors_0 # 0
          PROVE  blocks[inode.i_sectors_0 - data_start_lba] = inode.i_no
      <3>1. PICK i \in DOMAIN blocks :
                inode.i_sectors_0 = data_start_lba + i /\ blocks[i] = inode.i_no
        BY <2>1 DEF Owns
      <3>2. i \in Int
        BY FileStoreAssumption DEF StoreInv, StoreTypes
      <3>3. inode.i_sectors_0 - data_start_lba = i
        BY <3>1, <3>2, StoreSizes
      <3> QED BY <3>1, <3>3
    <2>2. \A n \in Inodes : stored[n] # NULL => stored[n] \in InodeSet /\ Owns(blocks, stored[n])
      BY MemoryLemma DEF StoreInv, BlockOK
    <2>3. \A a \in Addrs :
            heap[a] # NULL => heap[a].inode \in InodeSet /\ Owns(blocks, heap[a].inode)
      BY MemoryLemma DEF StoreInv, BlockOK
    <2> QED BY <2>1, <2>2, <2>3 DEF EntryKept
  <1> QED BY <1>1, <1>2, <1>3, PTL DEF Spec

-----------------------------------------------------------------------------
(* The boot of the file system: the inductive invariant.                   *)

EntrySet == [fs_type : Nat, start_lba : Nat, sec_cnt : Nat]
PartSet == [name : Seq(Nat), start_lba : Nat, sector_counter : Nat]
Extent(part) == [start_lba |-> part.start_lba, sector_counter |-> part.sector_counter]

\* The entries of a table at sector lba of a disk g: those of partitions are where one is,
\* that of an extended partition in the first table is g's, and in the others leads on.
TableEntries(g, lba) ==
  {e \in EntrySet :
      IF e.fs_type = 0 THEN TRUE
      ELSE IF e.fs_type # 5
        THEN [start_lba |-> lba + e.start_lba, sector_counter |-> e.sec_cnt] \in Areas(g)
      ELSE /\ g.at > 0
           /\ IF lba = 0 THEN e.start_lba = g.ext
              ELSE \E i \in 1 .. Len(g.logics) : e.start_lba = g.logics[i].ebr}

\* A table has at most one extended partition.
Single(entries) ==
  \A i, j \in 1 .. Len(entries) : entries[i].fs_type = 5 /\ entries[j].fs_type = 5 => i = j

\* What partition_scan may record of disk d.
Found(d) == {part \in PartSet : /\ part # NoPart /\ Len(part.name) = 2 /\ part.name[1] = d
                                /\ Extent(part) \in Areas(geometry[d])}

\* The sectors partition_format writes, and what it writes to each.
Written(part) ==
  (part.start_lba + 1 .. part.start_lba + used_sects + block_bitmap_sects(part) - 1) \cup {root_dir_lba}
RootDir == [kind |-> "root_dir", i_no |-> 0]
RootInodeSector ==
  [kind |-> "root_inode", i_size |-> 2 * DIR_ENTRY_SIZE, i_sectors_0 |-> root_dir_lba]
Content(part, lba) ==
  LET bitmap_lba == part.start_lba + 2
      inodes_lba == bitmap_lba + block_bitmap_sects(part)
      table_lba == inodes_lba + inode_bitmap_sects
  IN  IF lba = root_dir_lba THEN RootDir
      ELSE IF lba = part.start_lba + 1 THEN super_block(part)
      ELSE IF lba < inodes_lba THEN Bits(SectorBits(part, lba - bitmap_lba))
      ELSE IF lba < table_lba THEN Bits({})
      ELSE IF lba = table_lba THEN RootInodeSector
      ELSE Zero
Writes(part) == {[lba |-> lba, is |-> Content(part, lba)] : lba \in Written(part)}

\* A table is in its place, and everything else in a partition or the root directories'
\* sector.  A super block is where a partition has it, and describes that partition.
SectorOK(d, lba, s) ==
  /\ s.kind = "boot" => /\ lba \in tables(geometry[d])
                        /\ s.partition_table \in Seq(TableEntries(geometry[d], lba))
                        /\ Single(s.partition_table)
  /\ s.kind # "boot" =>
        \/ lba = root_dir_lba
        \/ \E a \in Areas(geometry[d]) : lba \in a.start_lba .. a.start_lba + a.sector_counter - 1
  /\ s.kind = "super_block" =>
        \E a \in Areas(geometry[d]) : lba = a.start_lba + 1 /\ s = super_block(a)
  /\ s.kind = "root_inode" => s \in [kind : {"root_inode"}, i_size : Nat, i_sectors_0 : Nat]

DisksOK ==
  /\ geometry \in Geometries /\ DOMAIN sectors = DOMAIN geometry
  /\ \A d \in DOMAIN geometry : \A lba \in DOMAIN sectors[d] : SectorOK(d, lba, sectors[d][lba])

\* A call of partition_scan.
FrameSet == [ext_lba : Nat, entries : Seq(EntrySet)]
Frames(g) == {f \in FrameSet : /\ f.entries \in Seq(TableEntries(g, f.ext_lba))
                               /\ Single(f.entries)}

IdeSet ==
  [extra_lba_base : Nat, primary_idx : Nat, logic_idx : Nat,
   prim_parts : [DOMAIN geometry -> [0 .. PRIM_PARTS - 1 -> PartSet]],
   logic_parts : [DOMAIN geometry -> [0 .. LOGIC_PARTS - 1 -> PartSet]],
   partition_list : Seq(PartSet),
   stack : Seq(FrameSet)]

BootTypes ==
  /\ ide \in IdeSet
  /\ hd \in 0 .. channel_cnt /\ part_idx \in 0 .. PRIM_PARTS + LOGIC_PARTS
  /\ cuts \in Nat
  /\ pc \in {"ide_init", "scan", "halt", "filesys_init", "format", "mount", "up"}
  /\ pc \in {"ide_init", "scan"} => part_idx = 0
  /\ pc \in {"scan", "format"} => hd < channel_cnt
  /\ pc = "format" => part_idx < PRIM_PARTS + LOGIC_PARTS
  /\ pc \in {"mount", "up"} => hd = channel_cnt

\* The calls of partition_scan still have entries of tables to see.
StackOK == pc = "scan" => ide.stack \in Seq(Frames(geometry[hd]))

\* What the disks before d may have left in extra_lba_base.
Bases(d) == {0} \cup {geometry[c].ext : c \in {c \in 0 .. d - 1 : geometry[c].at > 0}}

\* While the entry of the extended partition is still to be seen, extra_lba_base has not
\* been set for this disk; the calls that have found another one have set it.
ScanCallOK(f, base) ==
  \A j \in 1 .. Len(f.entries) :
      f.entries[j].fs_type = 5 => IF f.ext_lba = 0 THEN base \in Bases(hd)
                                  ELSE base = geometry[hd].ext
Calls(stack, base) ==
  \A i \in 1 .. Len(stack) : (i > 1 => stack[i].ext_lba # 0) /\ ScanCallOK(stack[i], base)
CallsOK ==
  /\ pc = "ide_init" => ide.extra_lba_base \in Bases(hd)
  /\ pc = "scan" => /\ ide.extra_lba_base \in Bases(hd + 1)
                    /\ Calls(ide.stack, ide.extra_lba_base)

\* What partition_scan has recorded are partitions; the one called sdb1 is in the first
\* place of its disk.
PartsOK ==
  /\ \A d \in DOMAIN geometry :
      /\ \A i \in 0 .. PRIM_PARTS - 1 : ide.prim_parts[d][i] \in Found(d) \cup {NoPart}
      /\ \A i \in 0 .. LOGIC_PARTS - 1 : ide.logic_parts[d][i] \in Found(d) \cup {NoPart}
  /\ \A i \in 1 .. Len(ide.partition_list) :
      ide.partition_list[i].name = << 0, 1 >> =>
          /\ 0 \in DOMAIN geometry /\ ide.partition_list[i] = ide.prim_parts[0][0]
          /\ pc \in {"ide_init", "scan"} => hd > 0 \/ ide.primary_idx > 0

\* The first sectors that partition_format writes are written, the others to do; and no
\* partition in the same place has been formatted to the end.
FormatOK ==
  pc = "format" =>
      /\ this_part \in Found(hd)
      /\ \A part \in whole : part.name[1] = hd => Extent(part) # Extent(this_part)
      /\ \E k \in 0 .. Len(partition_format(this_part)) - 1 :
            /\ todo \in Seq(Writes(this_part))
            /\ Len(todo) = Len(partition_format(this_part)) - k
            /\ \A i \in 1 .. Len(todo) : todo[i] = partition_format(this_part)[k + i]
            /\ \A i \in 1 .. k : Sector(hd, partition_format(this_part)[i].lba)
                                    = partition_format(this_part)[i].is

WholeOK ==
  /\ \A part \in whole : part.name[1] \in DOMAIN geometry /\ part \in Found(part.name[1])
  /\ FormattedWhole

\* filesys_init has passed sdb's first partition.
Passed == pc \in {"mount", "up"} \/ (pc \in {"filesys_init", "format"} /\ (hd > 0 \/ part_idx > 0))

\* From then on it has a super block, and without a power cut all of its metadata;
\* before, and without a power cut, there is no super block.
PassedOK ==
  /\ Passed /\ 0 \in DOMAIN geometry /\ ide.prim_parts[0][0] # NoPart =>
        /\ Sector(0, ide.prim_parts[0][0].start_lba + 1) = super_block(ide.prim_parts[0][0])
        /\ cuts = 0 => ide.prim_parts[0][0] \in whole
  /\ cuts = 0 /\ ~Passed /\ pc # "format" =>
        \A d \in DOMAIN geometry : \A lba \in DOMAIN sectors[d] : sectors[d][lba].kind # "super_block"

\* Partitions for which TailUsed holds.
LargePartitions ==
  \A g \in Geometries : \A d \in DOMAIN g : \A a \in Areas(g[d]) : block_bitmap_bit_len(a) >= 64

MountOK ==
  /\ curr_part # NoMount => pc = "up" /\ 0 \in DOMAIN geometry
  /\ LargePartitions => MountSound

BootInv == DisksOK /\ BootTypes /\ StackOK /\ CallsOK /\ PartsOK /\ FormatOK /\ WholeOK /\ PassedOK /\ MountOK

-----------------------------------------------------------------------------
(* Partitions and what partition_format writes.                            *)

\* A partition as partition_scan records it has the layout of its extent.
LEMMA ExtentLemma ==
  ASSUME NEW part \in PartSet
  PROVE  /\ Extent(part) \in Partition
         /\ Extent(part).start_lba = part.start_lba
         /\ Extent(part).sector_counter = part.sector_counter
         /\ block_bitmap_bit_len(Extent(part)) = block_bitmap_bit_len(part)
         /\ block_bitmap_sects(Extent(part)) = block_bitmap_sects(part)
         /\ super_block(Extent(part)) = super_block(part)
         /\ metadata(Extent(part)) = metadata(part)
  <1>1. /\ Extent(part) \in Partition
        /\ Extent(part).start_lba = part.start_lba
        /\ Extent(part).sector_counter = part.sector_counter
    BY DEF PartSet, Extent, Partition
  <1>2. free_sects(Extent(part)) = free_sects(part)
    BY <1>1 DEF free_sects
  <1>3. block_bitmap_bit_len(Extent(part)) = block_bitmap_bit_len(part)
    BY <1>2 DEF block_bitmap_bit_len
  <1>4. block_bitmap_sects(Extent(part)) = block_bitmap_sects(part)
    BY <1>3 DEF block_bitmap_sects
  <1>5. super_block(Extent(part)) = super_block(part)
    BY <1>1, <1>4 DEF super_block
  <1>6. metadata(Extent(part)) = metadata(part)
    BY <1>1, <1>4 DEF metadata
  <1> QED BY <1>1, <1>3, <1>4, <1>5, <1>6

\* The partitions of a disk: their metadata is in them, and away from the sector of the
\* root directories.
LEMMA AreaLemma ==
  ASSUME NEW g \in Geometries, NEW d \in DOMAIN g, NEW a \in Areas(g[d])
  PROVE  /\ a \in Partition /\ a.start_lba \in Nat /\ a.sector_counter \in Nat
         /\ a.sector_counter > used_sects
         /\ root_dir_lba \in Nat /\ root_dir_lba \notin metadata(a)
         /\ block_bitmap_sects(a) \in Nat
         /\ used_sects + block_bitmap_sects(a) <= a.sector_counter
  <1>1. /\ g[d].prims \in Seq([start : Nat, cnt : Nat])
        /\ g[d].logics \in Seq([ebr : Nat, start : Nat, cnt : Nat])
        /\ g[d].ext \in Nat
        /\ a.sector_counter > used_sects /\ root_dir_lba \notin metadata(a)
    BY GeometryAssumption
  <1>2. a \in Partition
    <2>1. CASE \E i \in 1 .. Len(g[d].prims) :
                 a = [start_lba |-> g[d].prims[i].start, sector_counter |-> g[d].prims[i].cnt]
      <3>1. PICK i \in 1 .. Len(g[d].prims) :
              a = [start_lba |-> g[d].prims[i].start, sector_counter |-> g[d].prims[i].cnt]
        BY <2>1
      <3>2. g[d].prims[i] \in [start : Nat, cnt : Nat]
        BY <1>1, ElementOfSeq
      <3> QED BY <3>1, <3>2 DEF Partition
    <2>2. CASE \E i \in 1 .. Len(g[d].logics) :
                 a = [start_lba |-> g[d].ext + g[d].logics[i].ebr + g[d].logics[i].start,
                      sector_counter |-> g[d].logics[i].cnt]
      <3>1. PICK i \in 1 .. Len(g[d].logics) :
              a = [start_lba |-> g[d].ext + g[d].logics[i].ebr + g[d].logics[i].start,
                   sector_counter |-> g[d].logics[i].cnt]
        BY <2>2
      <3>2. g[d].logics[i] \in [ebr : Nat, start : Nat, cnt : Nat]
        BY <1>1, ElementOfSeq
      <3>3. PICK x, y : /\ x = g[d].ext + g[d].logics[i].ebr + g[d].logics[i].start
                        /\ y = g[d].logics[i].cnt
        OBVIOUS
      <3>4. x \in Nat /\ y \in Nat
        <4>1. PICK e, l : e = g[d].ext /\ l = g[d].logics[i]
          OBVIOUS
        <4>2. e \in Nat /\ l.ebr \in Nat /\ l.start \in Nat /\ l.cnt \in Nat
          BY <1>1, <3>2, <4>1
        <4>3. x = e + l.ebr + l.start /\ y = l.cnt
          BY <3>3, <4>1
        <4> QED BY <4>2, <4>3
      <3>5. a = [start_lba |-> x, sector_counter |-> y]
        BY <3>1, <3>3
      <3> QED BY <3>4, <3>5 DEF Partition
    <2> QED BY <2>1, <2>2 DEF Areas
  <1>3. a.start_lba \in Nat /\ a.sector_counter \in Nat
    BY <1>2 DEF Partition
  <1>4. /\ block_bitmap_bit_len(a) \in Nat /\ block_bitmap_sects(a) \in Nat
        /\ block_bitmap_bit_len(a) + block_bitmap_sects(a) <= free_sects(a)
    BY <1>1, <1>2, BitmapSize
  <1>5. used_sects + block_bitmap_sects(a) <= a.sector_counter
    BY <1>3, <1>4, Sizes DEF free_sects
  <1>6. root_dir_lba \in Nat
    BY Sizes DEF root_dir_lba
  <1> QED BY <1>1, <1>2, <1>3, <1>4, <1>5, <1>6

\* A run of n sectors is a sequence of what is written to each.
LEMMA RunLemma ==
  ASSUME NEW n \in Nat, NEW S, NEW f, DOMAIN f = 1 .. n, f = [k \in 1 .. n |-> f[k]],
         \A k \in 1 .. n : f[k] \in S
  PROVE  f \in Seq(S) /\ Len(f) = n
  OBVIOUS

\* The parts of a concatenation.
LEMMA ConcatLemma ==
  ASSUME NEW S, NEW s, s \in Seq(S), NEW t, t \in Seq(S), NEW v, v = s \o t
  PROVE  /\ v \in Seq(S) /\ Len(v) = Len(s) + Len(t) /\ Len(s) \in Nat /\ Len(t) \in Nat
         /\ \A i \in 1 .. Len(s) : v[i] = s[i]
         /\ \A j \in 1 .. Len(t) : v[Len(s) + j] = t[j]
  OBVIOUS

\* partition_format begins with the super block, ends with the root directory, writes
\* the block bitmap, and writes to its own metadata or to the root directory only.
LEMMA FormatLemma ==
  ASSUME NEW part \in PartSet, part.sector_counter > used_sects, root_dir_lba \notin metadata(part),
         NEW w, w = partition_format(part)
  PROVE  /\ w \in Seq(Writes(part)) /\ Len(w) \in Nat /\ Len(w) > 0
         /\ w[1] = [lba |-> part.start_lba + 1, is |-> super_block(part)]
         /\ w[Len(w)] = [lba |-> root_dir_lba, is |-> RootDir]
         /\ \A k \in 0 .. block_bitmap_sects(part) - 1 :
                /\ k + 2 \in 1 .. Len(w)
                /\ w[k + 2] = [lba |-> part.start_lba + 2 + k, is |-> Bits(SectorBits(part, k))]
  <1>1. /\ part.start_lba \in Nat /\ part.sector_counter \in Nat
        /\ block_bitmap_sects(part) \in Nat
        /\ inode_bitmap_sects \in Nat /\ inode_table_sects \in Nat
    BY ExtentLemma, BitmapSize, Sizes DEF PartSet
  <1>2. PICK start, nb, ni, nt, root : /\ start = part.start_lba /\ nb = block_bitmap_sects(part)
                                       /\ ni = inode_bitmap_sects /\ nt = inode_table_sects
                                       /\ root = root_dir_lba
    OBVIOUS
  <1>3. /\ start \in Nat /\ nb \in Nat /\ ni \in Nat /\ nt \in Nat /\ root = nt + nt
    BY <1>1, <1>2 DEF root_dir_lba
  <1>4. Written(part) = (start + 1 .. start + 2 + ni + nt + nb - 1) \cup {root}
    BY <1>1, <1>2, <1>3 DEF Written, used_sects
  <1>5. root \notin start .. start + 2 + ni + nt + nb - 1
    BY <1>1, <1>2, <1>3 DEF metadata, used_sects
  <1> DEFINE R1 == [k \in 1 .. nb |-> [lba |-> start + 2 + k - 1, is |-> Bits(SectorBits(part, k - 1))]]
             R2 == [k \in 1 .. ni |-> [lba |-> start + 2 + nb + k - 1, is |-> Bits({})]]
             R3 == [k \in 1 .. nt |-> [lba |-> start + 2 + nb + ni + k - 1,
                                       is |-> IF k - 1 = 0 THEN RootInodeSector ELSE Zero]]
             W0 == << [lba |-> start + 1, is |-> super_block(part)] >>
             W4 == << [lba |-> root, is |-> RootDir] >>
  <1>6. /\ super_block(part).block_bitmap_lba = start + 2
        /\ super_block(part).block_bitmap_sects = nb
        /\ super_block(part).inode_bitmap_lba = start + 2 + nb
        /\ super_block(part).inode_bitmap_sects = ni
        /\ super_block(part).inode_table_lba = start + 2 + nb + ni
        /\ super_block(part).inode_table_sects = nt
        /\ super_block(part).data_start_lba = root
        /\ super_block(part).dir_entry_size = DIR_ENTRY_SIZE
    BY <1>2 DEF super_block, root_dir_lba
  <1>7. w = W0 \o R1 \o R2 \o R3 \o W4
    BY <1>2, <1>6 DEF partition_format, RootInodeSector, RootDir
  <1>8. Content(part, root) = RootDir
    BY <1>2 DEF Content
  <1>9. Content(part, start + 1) = super_block(part)
    BY <1>2, <1>3, <1>5 DEF Content
  <1>10. \A k \in 1 .. nb : Content(part, start + 2 + k - 1) = Bits(SectorBits(part, k - 1))
    <2>1. ASSUME NEW k \in 1 .. nb
          PROVE  Content(part, start + 2 + k - 1) = Bits(SectorBits(part, k - 1))
      <3>1. PICK lba : lba = start + 2 + k - 1
        OBVIOUS
      <3>2. /\ lba # root /\ lba # start + 1 /\ lba < start + 2 + nb /\ lba - (start + 2) = k - 1
        BY <1>3, <1>5, <3>1
      <3>3. Content(part, lba) = Bits(SectorBits(part, lba - (start + 2)))
        BY <1>2, <3>2 DEF Content
      <3> QED BY <3>1, <3>2, <3>3
    <2> QED BY <2>1
  <1>11. \A k \in 1 .. ni : Content(part, start + 2 + nb + k - 1) = Bits({})
    <2>1. ASSUME NEW k \in 1 .. ni
          PROVE  Content(part, start + 2 + nb + k - 1) = Bits({})
      <3>1. PICK lba : lba = start + 2 + nb + k - 1
        OBVIOUS
      <3>2. /\ lba # root /\ lba # start + 1 /\ ~(lba < start + 2 + nb) /\ lba < start + 2 + nb + ni
        BY <1>3, <1>5, <3>1
      <3> QED BY <1>2, <3>1, <3>2 DEF Content
    <2> QED BY <2>1
  <1>12. ASSUME NEW k \in 1 .. nt, NEW lba, lba = start + 2 + nb + ni + k - 1
         PROVE  Content(part, lba) = IF k = 1 THEN RootInodeSector ELSE Zero
    <2>1. /\ lba # root /\ lba # start + 1 /\ ~(lba < start + 2 + nb) /\ ~(lba < start + 2 + nb + ni)
          /\ lba = start + 2 + nb + ni <=> k = 1
      BY <1>3, <1>5, <1>12
    <2> QED BY <1>2, <2>1 DEF Content
  <1> DEFINE S == Writes(part)
  <1>13. \A lba \in Written(part) : [lba |-> lba, is |-> Content(part, lba)] \in S
    BY DEF Writes
  <1>14. /\ start + 1 \in Written(part) /\ root \in Written(part)
         /\ \A k \in 1 .. nb : start + 2 + k - 1 \in Written(part)
         /\ \A k \in 1 .. ni : start + 2 + nb + k - 1 \in Written(part)
         /\ \A k \in 1 .. nt : start + 2 + nb + ni + k - 1 \in Written(part)
    BY <1>3, <1>4
  <1>15. W0 \in Seq(S) /\ Len(W0) = 1 /\ W4 \in Seq(S) /\ Len(W4) = 1
    <2>1. /\ [lba |-> start + 1, is |-> super_block(part)] \in S
          /\ [lba |-> root, is |-> RootDir] \in S
      BY <1>8, <1>9, <1>13, <1>14
    <2> HIDE DEF S
    <2> QED BY <2>1
  <1>16. R1 \in Seq(S) /\ Len(R1) = nb
    <2>1. \A k \in 1 .. nb : R1[k] \in S
      BY <1>10, <1>13, <1>14
    <2> HIDE DEF S
    <2> QED BY <1>3, <2>1, RunLemma
  <1>17. R2 \in Seq(S) /\ Len(R2) = ni
    <2>1. \A k \in 1 .. ni : R2[k] \in S
      BY <1>11, <1>13, <1>14
    <2> HIDE DEF S
    <2> QED BY <1>3, <2>1, RunLemma
  <1>18. R3 \in Seq(S) /\ Len(R3) = nt
    <2>1. \A k \in 1 .. nt : R3[k] \in S
      <3>1. ASSUME NEW k \in 1 .. nt PROVE R3[k] \in S
        <4>1. PICK lba : lba = start + 2 + nb + ni + k - 1
          OBVIOUS
        <4>2. k - 1 = 0 <=> k = 1
          BY <1>3
        <4>3. R3[k] = [lba |-> lba, is |-> IF k = 1 THEN RootInodeSector ELSE Zero]
          BY <4>1, <4>2
        <4>4. Content(part, lba) = IF k = 1 THEN RootInodeSector ELSE Zero
          BY <1>12, <4>1
        <4>5. R3[k] = [lba |-> lba, is |-> Content(part, lba)]
          BY <4>3, <4>4
        <4>6. lba \in Written(part)
          <5>1. lba \in start + 1 .. start + 2 + ni + nt + nb - 1
            BY <1>3, <4>1
          <5> QED BY <1>4, <5>1
        <4> HIDE DEF S, R3
        <4> QED BY <1>13, <4>5, <4>6
      <3> QED BY <3>1
    <2>2. DOMAIN R3 = 1 .. nt /\ R3 = [k \in 1 .. nt |-> R3[k]]
      OBVIOUS
    <2> HIDE DEF S, R3
    <2> QED BY <1>3, <2>1, <2>2, RunLemma
  <1>19. /\ W0[1] = [lba |-> start + 1, is |-> super_block(part)]
         /\ W4[1] = [lba |-> root, is |-> RootDir]
         /\ \A k \in 1 .. nb : R1[k] = [lba |-> start + 2 + k - 1, is |-> Bits(SectorBits(part, k - 1))]
    OBVIOUS
  <1> HIDE DEF S, W0, W4, R1, R2, R3
  <1>20. W0 \in Seq(S) /\ W4 \in Seq(S) /\ R1 \in Seq(S) /\ R2 \in Seq(S) /\ R3 \in Seq(S)
    BY <1>15, <1>16, <1>17, <1>18
  <1>21. PICK v1, v2, v3 : v1 = W0 \o R1 /\ v2 = v1 \o R2 /\ v3 = v2 \o R3
    OBVIOUS
  <1>22. PICK v4 : v4 = w /\ v4 = v3 \o W4
    BY <1>7, <1>21
  <1>23. /\ w \in Seq(S) /\ Len(w) \in Nat /\ Len(w) >= Len(W0) + Len(R1) + Len(W4)
         /\ \A k \in 1 .. Len(W0) : w[k] = W0[k]
         /\ \A k \in 1 .. Len(R1) : w[Len(W0) + k] = R1[k]
         /\ \A k \in 1 .. Len(W4) : w[Len(w) - Len(W4) + k] = W4[k]
    <2>1. /\ v1 \in Seq(S) /\ Len(v1) = Len(W0) + Len(R1) /\ Len(W0) \in Nat /\ Len(R1) \in Nat
          /\ \A i \in 1 .. Len(W0) : v1[i] = W0[i]
          /\ \A k \in 1 .. Len(R1) : v1[Len(W0) + k] = R1[k]
      BY <1>20, <1>21, ConcatLemma
    <2>2. /\ v2 \in Seq(S) /\ Len(v2) = Len(v1) + Len(R2) /\ Len(v1) \in Nat /\ Len(R2) \in Nat
          /\ \A i \in 1 .. Len(v1) : v2[i] = v1[i]
      BY <1>20, <1>21, <2>1, ConcatLemma
    <2>3. /\ v3 \in Seq(S) /\ Len(v3) = Len(v2) + Len(R3) /\ Len(v2) \in Nat /\ Len(R3) \in Nat
          /\ \A i \in 1 .. Len(v2) : v3[i] = v2[i]
      BY <1>20, <1>21, <2>2, ConcatLemma
    <2>4. /\ v4 \in Seq(S) /\ Len(v4) = Len(v3) + Len(W4) /\ Len(v3) \in Nat /\ Len(W4) \in Nat
          /\ \A i \in 1 .. Len(v3) : v4[i] = v3[i]
          /\ \A k \in 1 .. Len(W4) : v4[Len(v3) + k] = W4[k]
      <3>1. v3 \in Seq(S) /\ W4 \in Seq(S) /\ v4 = v3 \o W4
        BY <1>20, <1>22, <2>3
      <3> QED BY <3>1, ConcatLemma
    <2>5. \A k \in 1 .. Len(W4) : w[Len(w) - Len(W4) + k] = W4[k]
      BY <1>22, <2>4
    <2>6. Len(w) \in Nat /\ Len(w) >= Len(W0) + Len(R1) + Len(W4)
      BY <2>1, <2>2, <2>3, <1>22, <2>4
    <2>7. \A i \in 1 .. Len(W0) + Len(R1) : w[i] = v1[i]
      <3>1. ASSUME NEW i \in 1 .. Len(W0) + Len(R1) PROVE w[i] = v1[i]
        <4>1. i \in 1 .. Len(v1) /\ i \in 1 .. Len(v2) /\ i \in 1 .. Len(v3)
          BY <2>1, <2>2, <2>3, <1>22, <2>4
        <4> QED BY <2>2, <2>3, <1>22, <2>4, <4>1
      <3> QED BY <3>1
    <2>8. \A k \in 1 .. Len(W0) : k \in 1 .. Len(W0) + Len(R1)
      BY <2>1
    <2>9. \A k \in 1 .. Len(R1) : Len(W0) + k \in 1 .. Len(W0) + Len(R1)
      BY <2>1
    <2>10. \A k \in 1 .. Len(W0) : w[k] = W0[k]
      BY <2>1, <2>7, <2>8
    <2>11. \A k \in 1 .. Len(R1) : w[Len(W0) + k] = R1[k]
      BY <2>1, <2>7, <2>9
    <2>12. w \in Seq(S)
      BY <1>22, <2>4
    <2> QED BY <2>5, <2>6, <2>10, <2>11, <2>12
  <1>24. w \in Seq(S) /\ Len(w) \in Nat /\ Len(w) > 0 /\ w[1] = W0[1] /\ w[Len(w)] = W4[1]
    <2>1. Len(w) - 1 + 1 = Len(w)
      BY <1>23
    <2> QED BY <1>3, <1>15, <1>16, <1>23, <2>1
  <1>25. Len(w) >= 2 + nb /\ \A k \in 1 .. nb : w[1 + k] = R1[k]
    BY <1>3, <1>15, <1>16, <1>23
  <1>26. ASSUME NEW k \in 0 .. nb - 1
         PROVE  /\ k + 2 \in 1 .. Len(w)
                /\ w[k + 2] = [lba |-> start + 2 + k, is |-> Bits(SectorBits(part, k))]
    <2>1. k + 1 \in 1 .. nb /\ 1 + (k + 1) = k + 2 /\ (k + 1) - 1 = k /\ start + 2 + (k + 1) - 1 = start + 2 + k
      BY <1>3
    <2>2. w[1 + (k + 1)] = R1[k + 1]
      BY <1>25, <2>1
    <2>3. R1[k + 1] = [lba |-> start + 2 + (k + 1) - 1, is |-> Bits(SectorBits(part, (k + 1) - 1))]
      BY <1>19, <2>1
    <2> QED BY <1>3, <1>24, <1>25, <2>1, <2>2, <2>3
  <1> QED BY <1>2, <1>3, <1>19, <1>24, <1>25, <1>26 DEF S

-----------------------------------------------------------------------------
(* Partition tables.                                                       *)

\* A sequence of S is one of a larger set.
LEMMA SeqMono ==
  ASSUME NEW S, NEW T, S \subseteq T, NEW s \in Seq(S)
  PROVE  s \in Seq(T)
  <1>1. /\ Len(s) \in Nat /\ DOMAIN s = 1 .. Len(s) /\ \A i \in 1 .. Len(s) : s[i] \in T
        /\ s = [i \in 1 .. Len(s) |-> s[i]]
    BY ElementOfSeq
  <1> QED BY <1>1, RunLemma

\* The disks are numbered from 0.
LEMMA ChannelLemma ==
  ASSUME geometry \in Geometries
  PROVE  channel_cnt \in Nat /\ DOMAIN geometry = 0 .. channel_cnt - 1
  <1>1. IsFiniteSet(DOMAIN geometry) /\ DOMAIN geometry = 0 .. Cardinality(DOMAIN geometry) - 1
    BY GeometryAssumption
  <1> QED BY <1>1, FS_CardinalityType DEF channel_cnt

\* A table padded with unused entries.
LEMMA PaddedLemma ==
  ASSUME NEW S, Unused \in S, NEW s, s \in Seq(S), NEW v,
         v = [i \in 1 .. PRIM_PARTS |-> IF i <= Len(s) THEN s[i] ELSE Unused]
  PROVE  v \in Seq(S)
  <1>1. PRIM_PARTS \in Nat /\ Len(s) \in Nat
    BY FsBootAssumption
  <1>2. ASSUME NEW i \in 1 .. PRIM_PARTS PROVE v[i] \in S
    <2>1. CASE i <= Len(s)
      <3>1. i \in 1 .. Len(s) /\ v[i] = s[i]
        BY <1>1, <2>1
      <3> QED BY <3>1, ElementOfSeq
    <2>2. CASE ~(i <= Len(s))
      BY <2>2
    <2> QED BY <2>1, <2>2
  <1>3. DOMAIN v = 1 .. PRIM_PARTS /\ v = [i \in 1 .. PRIM_PARTS |-> v[i]]
    OBVIOUS
  <1> QED BY <1>1, <1>2, <1>3, RunLemma

\* An unused entry is in any table.
LEMMA EntryLemma ==
  ASSUME NEW g, NEW lba
  PROVE  /\ Unused \in TableEntries(g, lba) /\ Unused.fs_type = 0
         /\ TableEntries(g, lba) \subseteq EntrySet
  BY DEF Unused, Entry, TableEntries, EntrySet

\* The entry of an extended partition.
LEMMA ExtendedEntry ==
  ASSUME NEW g, NEW lba, NEW x \in Nat, g.at > 0,
         IF lba = 0 THEN x = g.ext ELSE \E i \in 1 .. Len(g.logics) : x = g.logics[i].ebr
  PROVE  Entry(5, x, 0) \in TableEntries(g, lba)
  <1>1. PICK e : e = Entry(5, x, 0)
    OBVIOUS
  <1>2. e \in EntrySet /\ e.fs_type = 5 /\ e.start_lba = x
    BY <1>1 DEF Entry, EntrySet
  <1> QED BY <1>1, <1>2 DEF TableEntries

\* A table in which only entry k may be an extended partition has at most one.
LEMMA SingleLemma ==
  ASSUME NEW s, NEW k, \A i \in 1 .. Len(s) : s[i].fs_type = 5 => i = k
  PROVE  Single(s)
  BY DEF Single

\* The tables that boot_sectors puts on a disk.
LEMMA TablesLemma ==
  ASSUME NEW g, g \in Geometries, NEW d, d \in DOMAIN g, NEW G, G = g[d],
         NEW lba, lba \in DOMAIN boot_sectors(G)
  PROVE  /\ lba \in Nat
         /\ boot_sectors(G)[lba].kind = "boot"
         /\ lba \in tables(G)
         /\ boot_sectors(G)[lba].partition_table \in Seq(TableEntries(G, lba))
         /\ Single(boot_sectors(G)[lba].partition_table)
  <1>1. /\ G.prims \in Seq([start : Nat, cnt : Nat])
        /\ G.logics \in Seq([ebr : Nat, start : Nat, cnt : Nat])
        /\ G.ext \in Nat /\ G.at \in 0 .. Len(G.prims) + 1 /\ (G.at = 0 => G.logics = << >>)
    BY GeometryAssumption
  <1>2. PICK prims, logics, ext, at : prims = G.prims /\ logics = G.logics /\ ext = G.ext /\ at = G.at
    OBVIOUS
  <1>3. /\ prims \in Seq([start : Nat, cnt : Nat]) /\ Len(prims) \in Nat
        /\ \A i \in 1 .. Len(prims) : prims[i].start \in Nat /\ prims[i].cnt \in Nat
        /\ logics \in Seq([ebr : Nat, start : Nat, cnt : Nat]) /\ Len(logics) \in Nat
        /\ \A i \in 1 .. Len(logics) : /\ logics[i].ebr \in Nat /\ logics[i].start \in Nat
                                       /\ logics[i].cnt \in Nat
        /\ ext \in Nat /\ at \in 0 .. Len(prims) + 1
    <2>1. /\ prims \in Seq([start : Nat, cnt : Nat]) /\ Len(prims) \in Nat
          /\ logics \in Seq([ebr : Nat, start : Nat, cnt : Nat]) /\ Len(logics) \in Nat
          /\ ext \in Nat /\ at \in 0 .. Len(prims) + 1
      BY <1>1, <1>2
    <2>2. ASSUME NEW i \in 1 .. Len(prims) PROVE prims[i].start \in Nat /\ prims[i].cnt \in Nat
      <3>1. prims[i] \in [start : Nat, cnt : Nat]
        BY <2>1, ElementOfSeq
      <3> QED BY <3>1
    <2>3. ASSUME NEW i \in 1 .. Len(logics)
          PROVE  logics[i].ebr \in Nat /\ logics[i].start \in Nat /\ logics[i].cnt \in Nat
      <3>1. logics[i] \in [ebr : Nat, start : Nat, cnt : Nat]
        BY <2>1, ElementOfSeq
      <3> QED BY <3>1
    <2> QED BY <2>1, <2>2, <2>3
  <1> DEFINE S == TableEntries(G, lba)
             P == [i \in 1 .. Len(prims) |-> Entry(131, prims[i].start, prims[i].cnt)]
  <1>4. PICK r : r = CHOOSE j \in 1 .. Len(logics) : ext + logics[j].ebr = lba
    OBVIOUS
  <1>5. PICK t : t = IF lba = 0 THEN master_table(G) ELSE extended_table(G, r)
    OBVIOUS
  <1>6. /\ lba \in {0} \cup {ext + logics[i].ebr : i \in 1 .. Len(logics)}
        /\ boot_sectors(G)[lba] = boot_sector(t)
    BY <1>2, <1>5, <1>4 DEF boot_sectors
  <1>7. SUFFICES /\ lba \in Nat /\ t \in Seq(S)
                 /\ \E k : \A i \in 1 .. Len(t) : t[i].fs_type = 5 => i = k
    <2>1. Unused \in S /\ Unused.fs_type = 0
      BY EntryLemma
    <2>2. PICK v : v = [i \in 1 .. PRIM_PARTS |-> IF i <= Len(t) THEN t[i] ELSE Unused]
      OBVIOUS
    <2>3. boot_sector(t) = [kind |-> "boot", partition_table |-> v]
      BY <2>2 DEF boot_sector
    <2> HIDE DEF S
    <2>4. t \in Seq(S) => v \in Seq(S)
      BY <2>1, <2>2, PaddedLemma
    <2>5. PICK k : \A i \in 1 .. Len(t) : t[i].fs_type = 5 => i = k
      BY <1>7
    <2>6. \A i \in 1 .. Len(v) : v[i].fs_type = 5 => i = k
      <3>1. PRIM_PARTS \in Nat /\ Len(t) \in Nat
        BY <1>7, FsBootAssumption
      <3>2. Len(v) = PRIM_PARTS
        BY <2>2, <3>1
      <3>3. ASSUME NEW i \in 1 .. PRIM_PARTS, v[i].fs_type = 5 PROVE i = k
        <4>1. i <= Len(t) /\ v[i] = t[i]
          BY <2>1, <2>2, <3>3
        <4>2. i \in 1 .. Len(t)
          BY <3>1, <4>1
        <4> QED BY <2>5, <3>3, <4>1, <4>2
      <3> QED BY <3>2, <3>3
    <2>7. Single(v)
      BY <2>6, SingleLemma
    <2>8. lba \in tables(G)
      BY <1>2, <1>6 DEF tables
    <2> QED BY <1>6, <1>7, <2>3, <2>4, <2>7, <2>8 DEF S
  <1>8. CASE lba = 0
    <2>1. \A i \in 1 .. Len(prims) : P[i] \in S
      <3>1. ASSUME NEW i \in 1 .. Len(prims) PROVE P[i] \in S
        <4>1. PICK a, b : a = prims[i].start /\ b = prims[i].cnt
          OBVIOUS
        <4>2. [start_lba |-> a, sector_counter |-> b] \in Areas(G)
          BY <1>2, <4>1 DEF Areas
        <4>3. a \in Nat /\ b \in Nat /\ 0 + a = a
          BY <1>3, <4>1
        <4>4. P[i] = [fs_type |-> 131, start_lba |-> a, sec_cnt |-> b]
          BY <4>1 DEF Entry
        <4>5. /\ P[i] \in EntrySet /\ P[i].start_lba = a /\ P[i].sec_cnt = b
              /\ P[i].fs_type = 131
          BY <4>3, <4>4 DEF EntrySet
        <4> HIDE DEF P
        <4> QED BY <1>8, <4>2, <4>3, <4>5 DEF TableEntries
      <3> QED BY <3>1
    <2>2. DOMAIN P = 1 .. Len(prims) /\ P = [i \in 1 .. Len(prims) |-> P[i]]
      OBVIOUS
    <2>3. t = IF at = 0 THEN P
              ELSE SubSeq(P, 1, at - 1) \o << Entry(5, ext, 0) >> \o SubSeq(P, at, Len(P))
      BY <1>2, <1>5, <1>8 DEF master_table
    <2>4. \A i \in 1 .. Len(prims) : P[i].fs_type = 131
      BY DEF Entry
    <2> HIDE DEF S, P
    <2>5. P \in Seq(S) /\ Len(P) = Len(prims)
      BY <1>3, <2>1, <2>2, RunLemma
    <2>6. at # 0 => Entry(5, ext, 0) \in S
      <3>1. at # 0 => G.at > 0 /\ ext \in Nat
        BY <1>2, <1>3
      <3> QED BY <1>2, <1>8, <3>1, ExtendedEntry DEF S
    <2>7. t \in Seq(S)
      <3>1. CASE at = 0
        BY <2>3, <2>5, <3>1
      <3>2. CASE at # 0
        <4>1. SubSeq(P, 1, at - 1) \in Seq(S) /\ SubSeq(P, at, Len(P)) \in Seq(S)
          <5>1. at \in 1 .. Len(P) + 1 /\ at - 1 \in 0 .. Len(P) /\ Len(P) \in Nat
            BY <1>3, <2>5, <3>2
          <5> QED BY <2>5, <5>1, SubSeqProperties
        <4>2. << Entry(5, ext, 0) >> \in Seq(S)
          BY <2>6, <3>2
        <4>3. PICK s1, s2, s3 : /\ s1 = SubSeq(P, 1, at - 1) /\ s2 = << Entry(5, ext, 0) >>
                                /\ s3 = SubSeq(P, at, Len(P))
          OBVIOUS
        <4>4. (s1 \o s2) \o s3 \in Seq(S)
          BY <4>1, <4>2, <4>3, ConcatProperties
        <4> QED BY <2>3, <3>2, <4>3, <4>4
      <3> QED BY <3>1, <3>2
    <2>8. \A i \in 1 .. Len(t) : t[i].fs_type = 5 => i = at
      <3>1. CASE at = 0
        BY <2>3, <2>4, <2>5, <3>1
      <3>2. CASE at # 0
        <4>1. PICK n, s1, s2, s3 : /\ n = Len(P)
                                   /\ s1 = SubSeq(P, 1, at - 1) /\ s2 = << Entry(5, ext, 0) >>
                                   /\ s3 = SubSeq(P, at, n)
          OBVIOUS
        <4>2. n \in Nat /\ at \in 1 .. n + 1 /\ at - 1 \in 0 .. n
          BY <1>3, <2>5, <3>2, <4>1
        <4>3. /\ s1 \in Seq(S) /\ Len(s1) = at - 1 /\ \A i \in 1 .. at - 1 : s1[i] = P[i]
          BY <2>5, <4>1, <4>2
        <4>4. /\ s3 \in Seq(S) /\ Len(s3) = n - at + 1
              /\ \A i \in 1 .. n - at + 1 : s3[i] = P[at + i - 1]
          BY <2>5, <4>1, <4>2
        <4>5. s2 \in Seq(S) /\ Len(s2) = 1
          BY <2>6, <3>2, <4>1
        <4>6. PICK u : u = s1 \o s2 /\ t = u \o s3
          BY <2>3, <3>2, <4>1
        <4>7. ASSUME NEW i \in 1 .. Len(t), t[i].fs_type = 5 PROVE i = at
          <5>1. u \in Seq(S) /\ Len(u) = at /\ \A h \in 1 .. at - 1 : u[h] = s1[h]
            <6>1. /\ u \in Seq(S) /\ Len(u) = Len(s1) + Len(s2)
                  /\ \A h \in 1 .. Len(s1) : u[h] = s1[h]
              <7>1. s1 \in Seq(S) /\ s2 \in Seq(S) /\ u = s1 \o s2
                BY <4>3, <4>5, <4>6
              <7> QED BY <7>1, ConcatLemma
            <6>2. (at - 1) + 1 = at
              BY <4>2
            <6> QED BY <4>3, <4>5, <6>1, <6>2
          <5>2. /\ Len(t) = n + 1 /\ \A h \in 1 .. at : t[h] = u[h]
                /\ \A h \in 1 .. n - at + 1 : t[at + h] = s3[h]
            <6>1. /\ Len(t) = Len(u) + Len(s3) /\ \A h \in 1 .. Len(u) : t[h] = u[h]
                  /\ \A h \in 1 .. Len(s3) : t[Len(u) + h] = s3[h]
              <7>1. u \in Seq(S) /\ s3 \in Seq(S) /\ t = u \o s3
                BY <4>4, <4>6, <5>1
              <7> QED BY <7>1, ConcatLemma
            <6>2. at + (n - at + 1) = n + 1
              BY <4>2
            <6> QED BY <4>4, <5>1, <6>1, <6>2
          <5>3. CASE i < at
            <6>1. i \in 1 .. at - 1 /\ i \in 1 .. at /\ i \in 1 .. Len(prims)
              BY <2>5, <4>1, <4>2, <5>2, <5>3
            <6>2. t[i] = s1[i]
              BY <5>1, <5>2, <6>1
            <6>3. t[i].fs_type = 131
              BY <2>4, <4>3, <6>1, <6>2
            <6> QED BY <4>7, <6>3
          <5>4. CASE i > at
            <6>1. /\ i - at \in 1 .. n - at + 1 /\ at + (i - at) = i
                  /\ at + (i - at) - 1 = i - 1 /\ i - 1 \in 1 .. Len(prims)
              BY <2>5, <4>1, <4>2, <5>2, <5>4
            <6>2. t[i] = s3[i - at]
              BY <5>2, <6>1
            <6>3. t[i].fs_type = 131
              BY <2>4, <4>4, <6>1, <6>2
            <6> QED BY <4>7, <6>3
          <5> QED BY <4>2, <5>2, <5>3, <5>4
        <4> QED BY <4>7
      <3> QED BY <3>1, <3>2
    <2> QED BY <1>8, <2>7, <2>8
  <1>9. CASE lba # 0
    <2>1. \E i \in 1 .. Len(logics) : ext + logics[i].ebr = lba
      BY <1>6, <1>9
    <2>2. r \in 1 .. Len(logics) /\ ext + logics[r].ebr = lba
      BY <1>4, <2>1
    <2>3. PICK a, b : a = logics[r].start /\ b = logics[r].cnt
      OBVIOUS
    <2>4. a \in Nat /\ b \in Nat /\ lba \in Nat
      <3>1. logics[r].ebr \in Nat /\ a \in Nat /\ b \in Nat /\ ext \in Nat
        BY <1>3, <2>2, <2>3
      <3> QED BY <2>2, <3>1
    <2>5. [start_lba |-> lba + a, sector_counter |-> b] \in Areas(G)
      <3>1. r \in 1 .. Len(G.logics) /\ G.logics = logics /\ G.ext = ext
        BY <1>2, <2>2
      <3>2. [start_lba |-> G.ext + G.logics[r].ebr + G.logics[r].start,
             sector_counter |-> G.logics[r].cnt] \in Areas(G)
        BY <3>1 DEF Areas
      <3> QED BY <2>2, <2>3, <3>1, <3>2
    <2>6. PICK e : e = Entry(131, a, b)
      OBVIOUS
    <2>7. e \in EntrySet /\ e.start_lba = a /\ e.sec_cnt = b /\ e.fs_type = 131
      BY <2>4, <2>6 DEF EntrySet, Entry
    <2>8. e \in S
      BY <2>5, <2>7 DEF TableEntries
    <2> HIDE DEF S
    <2>9. t = << e >> \o (IF r = Len(logics) THEN << >> ELSE << Entry(5, logics[r + 1].ebr, 0) >>)
      BY <1>2, <1>5, <1>9, <2>3, <2>6 DEF extended_table
    <2>10. t \in Seq(S)
      <3>1. << e >> \in Seq(S)
        BY <2>8
      <3>2. CASE r = Len(logics)
        <4>1. << >> \in Seq(S)
          OBVIOUS
        <4>2. << e >> \o << >> \in Seq(S)
          BY <3>1, <4>1, ConcatProperties
        <4> QED BY <2>9, <3>2, <4>2
      <3>3. CASE r # Len(logics)
        <4>1. r + 1 \in 1 .. Len(logics)
          <5>1. PICK n : n = Len(logics) /\ n \in Nat
            BY <1>3
          <5> QED BY <2>2, <3>3, <5>1
        <4>2. PICK f : f = Entry(5, logics[r + 1].ebr, 0)
          OBVIOUS
        <4>3. f \in S
          <5>1. G.at > 0
            <6>1. logics # << >>
              BY <4>1
            <6> QED BY <1>1, <1>2, <6>1
          <5>2. PICK x : x = logics[r + 1].ebr
            OBVIOUS
          <5>3. x \in Nat /\ \E i \in 1 .. Len(G.logics) : x = G.logics[i].ebr
            BY <1>2, <1>3, <4>1, <5>2
          <5> QED BY <1>9, <4>2, <5>1, <5>2, <5>3, ExtendedEntry DEF S
        <4>4. << f >> \in Seq(S)
          BY <4>3
        <4>5. << e >> \o << f >> \in Seq(S)
          BY <3>1, <4>4, ConcatProperties
        <4> QED BY <2>9, <3>3, <4>2, <4>5
      <3> QED BY <3>2, <3>3
    <2>11. \A i \in 1 .. Len(t) : t[i].fs_type = 5 => i = 2
      <3>1. CASE r = Len(logics)
        <4>1. t = << e >>
          BY <2>9, <3>1
        <4> QED BY <2>7, <4>1
      <3>2. CASE r # Len(logics)
        <4>1. PICK f : t = << e >> \o << f >>
          BY <2>9, <3>2
        <4>2. << e >> \in Seq({e, f}) /\ << f >> \in Seq({e, f}) /\ Len(<< e >>) = 1 /\ Len(<< f >>) = 1
          OBVIOUS
        <4>3. Len(t) = 2 /\ t[1] = e
          BY <4>1, <4>2, ConcatLemma
        <4> QED BY <2>7, <4>3
      <3> QED BY <3>1, <3>2
    <2> QED BY <2>4, <2>10, <2>11
  <1> QED BY <1>8, <1>9

\* The sectors where partition_scan looks for a table.
LEMMA TableNat ==
  ASSUME NEW g, g \in Geometries, NEW d, d \in DOMAIN g
  PROVE  /\ tables(g[d]) \subseteq Nat /\ strays(g, d) \subseteq Nat
         /\ \A c \in DOMAIN g : g[c].ext \in Nat /\ (g[c].at > 0 => g[c].ext > 0)
         /\ \A i \in 1 .. Len(g[d].logics) : g[d].logics[i].ebr \in Nat
  <1>1. ASSUME NEW c \in DOMAIN g PROVE g[c].ext \in Nat /\ (g[c].at > 0 => g[c].ext > 0)
    <2>1. g[c].ext \in Nat /\ (g[c].at = 0 <=> g[c].ext = 0)
      BY GeometryAssumption
    <2> QED BY <2>1
  <1>2. ASSUME NEW i \in 1 .. Len(g[d].logics) PROVE g[d].logics[i].ebr \in Nat
    <2>1. g[d].logics \in Seq([ebr : Nat, start : Nat, cnt : Nat])
      BY GeometryAssumption
    <2>2. g[d].logics[i] \in [ebr : Nat, start : Nat, cnt : Nat]
      BY <2>1, ElementOfSeq
    <2> QED BY <2>2
  <1>3. tables(g[d]) \subseteq Nat
    BY <1>1, <1>2 DEF tables
  <1>4. strays(g, d) \subseteq Nat
    <2>1. PICK n \in Nat : DOMAIN g = 0 .. n - 1
      <3>1. IsFiniteSet(DOMAIN g) /\ DOMAIN g = 0 .. Cardinality(DOMAIN g) - 1
        BY GeometryAssumption
      <3> QED BY <3>1, FS_CardinalityType
    <2>2. \A c \in 0 .. d - 1 : c \in DOMAIN g
      BY <2>1
    <2> QED BY <1>1, <2>2 DEF strays
  <1> QED BY <1>1, <1>2, <1>3, <1>4

\* Where partition_scan looks it finds a table or zeros: no entry that points elsewhere.
LEMMA CallLemma ==
  ASSUME DisksOK, hd \in DOMAIN geometry,
         NEW x, x \in tables(geometry[hd]) \cup strays(geometry, hd)
  PROVE  /\ Call(x) \in Frames(geometry[hd]) /\ Call(x).ext_lba = x
         /\ x \in strays(geometry, hd) =>
                \A j \in 1 .. Len(Call(x).entries) : Call(x).entries[j].fs_type # 5
  <1>1. PICK G, t : G = geometry[hd] /\ t = partition_table(hd, x)
    OBVIOUS
  <1>2. /\ geometry \in Geometries
        /\ strays(geometry, hd) \cap tables(G) = {} /\ x # root_dir_lba
        /\ \A a \in Areas(G) : x \notin a.start_lba .. a.start_lba + a.sector_counter - 1
    BY <1>1, GeometryAssumption DEF DisksOK
  <1>3. x \in Nat
    BY <1>1, <1>2, TableNat
  <1>4. \/ /\ Sector(hd, x).kind = "boot" /\ x \in tables(G)
           /\ t \in Seq(TableEntries(G, x)) /\ Single(t)
        \/ t = [i \in 1 .. PRIM_PARTS |-> Unused]
    <2>1. CASE x \in DOMAIN sectors[hd]
      <3>1. Sector(hd, x) = sectors[hd][x] /\ SectorOK(hd, x, sectors[hd][x])
        BY <2>1 DEF Sector, DisksOK
      <3>2. Sector(hd, x).kind = "boot"
        BY <1>1, <1>2, <3>1 DEF SectorOK
      <3>3. t = Sector(hd, x).partition_table
        BY <1>1, <3>2 DEF partition_table
      <3> QED BY <1>1, <3>1, <3>2, <3>3 DEF SectorOK
    <2>2. CASE x \notin DOMAIN sectors[hd]
      BY <1>1, <2>2 DEF partition_table, Sector, Zero
    <2> QED BY <2>1, <2>2
  <1>5. /\ t \in Seq(TableEntries(G, x)) /\ Single(t)
        /\ x \in strays(geometry, hd) => \A j \in 1 .. Len(t) : t[j].fs_type # 5
    <2>1. CASE t = [i \in 1 .. PRIM_PARTS |-> Unused]
      <3>1. Unused \in TableEntries(G, x) /\ PRIM_PARTS \in Nat /\ Unused.fs_type = 0
        BY EntryLemma, FsBootAssumption
      <3>2. t \in Seq(TableEntries(G, x)) /\ Len(t) = PRIM_PARTS
        BY <2>1, <3>1, RunLemma
      <3>3. \A j \in 1 .. Len(t) : t[j].fs_type = 0
        BY <2>1, <3>1, <3>2
      <3> QED BY <3>2, <3>3 DEF Single
    <2>2. CASE t # [i \in 1 .. PRIM_PARTS |-> Unused]
      BY <1>2, <1>4, <2>2
    <2> QED BY <2>1, <2>2
  <1>6. t \in Seq(EntrySet)
    BY <1>5, EntryLemma, SeqMono
  <1>7. PICK c : c = [ext_lba |-> x, entries |-> t]
    OBVIOUS
  <1>8. c \in FrameSet /\ c.entries = t /\ c.ext_lba = x
    BY <1>3, <1>6, <1>7 DEF FrameSet
  <1>9. c \in Frames(G)
    BY <1>5, <1>8 DEF Frames
  <1> QED BY <1>1, <1>5, <1>7, <1>8, <1>9 DEF Call

\* The addresses the scan of a disk may find in extra_lba_base.
LEMMA BasesLemma ==
  ASSUME geometry \in Geometries, NEW d \in DOMAIN geometry
  PROVE  /\ d \in Nat /\ Bases(d) \subseteq Bases(d + 1)
         /\ geometry[d].at > 0 =>
              /\ geometry[d].ext \in Bases(d + 1)
              /\ \A base \in Bases(d) : base # 0 => geometry[d].ext + base \in strays(geometry, d)
  <1>1. /\ channel_cnt \in Nat /\ DOMAIN geometry = 0 .. channel_cnt - 1
    BY ChannelLemma
  <1>2. d \in Nat /\ 0 .. d - 1 \subseteq 0 .. (d + 1) - 1 /\ d \in 0 .. (d + 1) - 1
    BY <1>1
  <1>3. Bases(d) \subseteq Bases(d + 1)
    BY <1>2 DEF Bases
  <1>4. geometry[d].at > 0 => geometry[d].ext \in Bases(d + 1)
    BY <1>2 DEF Bases
  <1>5. ASSUME geometry[d].at > 0, NEW base \in Bases(d), base # 0
        PROVE  geometry[d].ext + base \in strays(geometry, d)
    <2>1. PICK c \in 0 .. d - 1 : geometry[c].at > 0 /\ base = geometry[c].ext
      BY <1>5 DEF Bases
    <2>2. c \in DOMAIN geometry
      BY <1>1, <1>2
    <2>3. geometry[c].ext \in Nat /\ geometry[d].ext \in Nat
      BY <2>2, TableNat
    <2>4. PICK x, y : x = geometry[c].ext /\ y = geometry[d].ext
      OBVIOUS
    <2>5. x + y \in strays(geometry, d)
      BY <1>5, <2>1, <2>4 DEF strays
    <2>6. x + y = y + x
      BY <2>3, <2>4
    <2> QED BY <2>1, <2>4, <2>5, <2>6
  <1> QED BY <1>2, <1>3, <1>4, <1>5

-----------------------------------------------------------------------------
(* The boot begins, and the power comes back.                              *)

\* A machine that has just been switched on has recorded nothing.
LEMMA SwitchedOn ==
  ASSUME geometry \in Geometries
  PROVE  /\ ide_globals \in IdeSet /\ ide_globals.partition_list = << >>
         /\ ide_globals.extra_lba_base = 0
         /\ \A d \in DOMAIN geometry :
              /\ \A i \in 0 .. PRIM_PARTS - 1 : ide_globals.prim_parts[d][i] = NoPart
              /\ \A i \in 0 .. LOGIC_PARTS - 1 : ide_globals.logic_parts[d][i] = NoPart
  <1>1. NoPart \in PartSet
    BY DEF NoPart, PartSet
  <1>2. << >> \in Seq(FrameSet) /\ << >> \in Seq(PartSet)
    OBVIOUS
  <1> QED BY <1>1, <1>2 DEF ide_globals, IdeSet

\* The disks as they were partitioned satisfy the invariant.
LEMMA BootInitInv ==
  ASSUME BootInit
  PROVE  BootInv
  <1>1. /\ geometry \in Geometries /\ sectors = [d \in DOMAIN geometry |-> boot_sectors(geometry[d])]
        /\ ide = ide_globals /\ curr_part = NoMount /\ hd = 0 /\ part_idx = 0
        /\ pc = "ide_init" /\ cuts = 0 /\ whole = {}
    BY DEF BootInit
  <1>2. channel_cnt \in Nat /\ PRIM_PARTS \in Nat /\ LOGIC_PARTS \in Nat
    BY <1>1, ChannelLemma, FsBootAssumption
  <1>3. ASSUME NEW d \in DOMAIN geometry, NEW lba \in DOMAIN sectors[d]
        PROVE  /\ sectors[d][lba].kind = "boot"
               /\ lba \in tables(geometry[d])
               /\ sectors[d][lba].partition_table \in Seq(TableEntries(geometry[d], lba))
               /\ Single(sectors[d][lba].partition_table)
    <2>1. sectors[d] = boot_sectors(geometry[d])
      BY <1>1
    <2> QED BY <1>1, <2>1, TablesLemma
  <1>4. DisksOK
    BY <1>1, <1>3 DEF DisksOK, SectorOK
  <1>5. BootTypes
    BY <1>1, <1>2, SwitchedOn DEF BootTypes
  <1>6. StackOK /\ FormatOK /\ CallsOK
    BY <1>1, SwitchedOn DEF StackOK, FormatOK, CallsOK, Bases
  <1>7. PartsOK
    BY <1>1, SwitchedOn DEF PartsOK
  <1>8. WholeOK
    BY <1>1 DEF WholeOK, FormattedWhole
  <1>9. PassedOK
    <2>1. ~Passed
      BY <1>1 DEF Passed
    <2> QED BY <1>3, <2>1 DEF PassedOK
  <1>10. MountOK
    BY <1>1 DEF MountOK, MountSound
  <1> QED BY <1>4, <1>5, <1>6, <1>7, <1>8, <1>9, <1>10 DEF BootInv

\* Steps that write nothing leave the disks as they are.
LEMMA SectorsFrame ==
  ASSUME BootInv, UNCHANGED << geometry, sectors, whole >>
  PROVE  /\ DisksOK' /\ WholeOK' /\ \A d, lba : Sector(d, lba)' = Sector(d, lba)
         /\ \A d : Found(d)' = Found(d)
         /\ channel_cnt' = channel_cnt /\ IdeSet' = IdeSet
  <1>1. \A d, lba : Sector(d, lba)' = Sector(d, lba)
    BY DEF Sector
  <1>2. \A d : Found(d)' = Found(d)
    BY DEF Found
  <1>3. DisksOK'
    BY DEF BootInv, DisksOK, SectorOK
  <1>4. FormattedWhole'
    <2>1. FormattedWhole
      BY DEF BootInv, WholeOK
    <2> QED BY <2>1 DEF FormattedWhole, Sector
  <1>5. WholeOK'
    BY <1>2, <1>4 DEF BootInv, WholeOK
  <1> QED BY <1>1, <1>2, <1>3, <1>5 DEF channel_cnt, IdeSet

\* The power may fail at any time.
LEMMA PowerOffStep ==
  ASSUME BootInv, power_off
  PROVE  BootInv'
  <1>1. /\ cuts' = cuts + 1 /\ ide' = ide_globals /\ curr_part' = NoMount /\ hd' = 0
        /\ part_idx' = 0 /\ pc' = "ide_init" /\ UNCHANGED << geometry, sectors, whole >>
    BY DEF power_off
  <1>2. DisksOK' /\ WholeOK' /\ channel_cnt' = channel_cnt /\ IdeSet' = IdeSet
    BY <1>1, SectorsFrame
  <1>3. channel_cnt \in Nat /\ PRIM_PARTS \in Nat /\ LOGIC_PARTS \in Nat /\ geometry \in Geometries
    BY ChannelLemma, FsBootAssumption DEF BootInv, DisksOK
  <1>4. cuts' \in Nat /\ cuts' # 0
    BY <1>1 DEF BootInv, BootTypes
  <1>5. BootTypes'
    BY <1>1, <1>2, <1>3, <1>4, SwitchedOn DEF BootTypes
  <1>6. StackOK' /\ FormatOK' /\ CallsOK'
    BY <1>1, <1>3, SwitchedOn DEF StackOK, FormatOK, CallsOK, Bases
  <1>7. PartsOK'
    BY <1>1, <1>3, SwitchedOn DEF PartsOK
  <1>8. PassedOK'
    BY <1>1, <1>4 DEF PassedOK, Passed
  <1>9. MountOK'
    BY <1>1 DEF MountOK, MountSound
  <1> QED BY <1>2, <1>5, <1>6, <1>7, <1>8, <1>9 DEF BootInv

-----------------------------------------------------------------------------
(* The scan of the partition tables.                                       *)

\* The loop of ide_init.
LEMMA IdeInitStep ==
  ASSUME BootInv, ide_init
  PROVE  BootInv'
  <1>1. /\ pc = "ide_init"
        /\ UNCHANGED << geometry, sectors, curr_part, part_idx, todo, cuts, whole >>
    BY DEF ide_init
  <1>2. /\ DisksOK' /\ WholeOK' /\ \A d : Found(d)' = Found(d)
        /\ channel_cnt' = channel_cnt /\ IdeSet' = IdeSet
    BY <1>1, SectorsFrame
  <1>3. /\ channel_cnt \in Nat /\ DOMAIN geometry = 0 .. channel_cnt - 1
        /\ DisksOK /\ geometry \in Geometries
    BY ChannelLemma DEF BootInv, DisksOK
  <1>4. curr_part = NoMount /\ part_idx = 0 /\ ide \in IdeSet
    BY <1>1 DEF BootInv, MountOK, BootTypes
  <1>5. MountOK'
    BY <1>1, <1>4 DEF MountOK, MountSound
  <1>6. cuts = 0 => \A d \in DOMAIN geometry : \A lba \in DOMAIN sectors[d] :
                        sectors[d][lba].kind # "super_block"
    BY <1>1 DEF BootInv, PassedOK, Passed
  <1>7. CASE hd < channel_cnt /\ ide' = [ide EXCEPT !.stack = << Call(0) >>] /\ pc' = "scan" /\ hd' = hd
    <2>1. hd \in DOMAIN geometry
      BY <1>3, <1>7 DEF BootInv, BootTypes
    <2>2. PICK c : c = Call(0) /\ c \in Frames(geometry[hd]) /\ c.ext_lba = 0
      <3>1. 0 \in tables(geometry[hd])
        BY DEF tables
      <3> QED BY <1>3, <2>1, <3>1, CallLemma
    <2>3. << c >> \in Seq(Frames(geometry[hd])) /\ << c >> \in Seq(FrameSet)
      BY <2>2 DEF Frames
    <2>4. /\ ide' \in IdeSet /\ ide'.stack = << c >>
          /\ ide'.prim_parts = ide.prim_parts /\ ide'.logic_parts = ide.logic_parts
          /\ ide'.partition_list = ide.partition_list /\ ide'.primary_idx = ide.primary_idx
          /\ ide'.extra_lba_base = ide.extra_lba_base
      BY <1>4, <1>7, <2>2, <2>3 DEF IdeSet
    <2>5. BootTypes'
      BY <1>1, <1>2, <1>7, <2>4 DEF BootInv, BootTypes
    <2>6. StackOK' /\ FormatOK'
      BY <1>1, <1>7, <2>3, <2>4 DEF StackOK, FormatOK
    <2>7. PartsOK'
      BY <1>1, <1>2, <1>7, <2>4 DEF BootInv, PartsOK
    <2>8. PassedOK'
      BY <1>1, <1>6, <1>7 DEF PassedOK, Passed
    <2>9. CallsOK'
      <3>1. ide.extra_lba_base \in Bases(hd) /\ ide.extra_lba_base \in Bases(hd + 1)
        BY <1>1, <1>3, <2>1, BasesLemma DEF BootInv, CallsOK
      <3>2. Calls(<< c >>, ide.extra_lba_base)
        BY <2>2, <3>1 DEF Calls, ScanCallOK
      <3>3. Calls(<< c >>, ide.extra_lba_base)' /\ Bases(hd + 1)' = Bases(hd + 1)
        BY <1>1, <1>7, <2>4, <3>2 DEF Calls, ScanCallOK, Bases
      <3> QED BY <1>7, <2>4, <3>1, <3>3 DEF CallsOK
    <2> QED BY <1>2, <1>5, <2>5, <2>6, <2>7, <2>8, <2>9 DEF BootInv
  <1>8. CASE hd = channel_cnt /\ hd' = 0 /\ pc' = "filesys_init" /\ ide' = ide
    <2>1. BootTypes'
      BY <1>1, <1>2, <1>3, <1>4, <1>8 DEF BootInv, BootTypes
    <2>2. StackOK' /\ FormatOK' /\ CallsOK'
      BY <1>8 DEF StackOK, FormatOK, CallsOK
    <2>3. PartsOK'
      BY <1>1, <1>2, <1>8 DEF BootInv, PartsOK
    <2>4. PassedOK'
      <3>1. ~Passed'
        BY <1>1, <1>4, <1>8 DEF Passed
      <3> QED BY <1>1, <1>6, <3>1 DEF PassedOK
    <2> QED BY <1>2, <1>5, <2>1, <2>2, <2>3, <2>4 DEF BootInv
  <1> QED BY <1>7, <1>8 DEF ide_init

\* Back from partition_scan.
LEMMA ScanDoneStep ==
  ASSUME BootInv, scan_done
  PROVE  BootInv'
  <1>1. /\ pc = "scan" /\ ide' = [ide EXCEPT !.primary_idx = 0, !.logic_idx = 0]
        /\ hd' = hd + 1 /\ pc' = "ide_init"
        /\ UNCHANGED << geometry, sectors, curr_part, part_idx, todo, cuts, whole >>
    BY DEF scan_done
  <1>2. /\ DisksOK' /\ WholeOK' /\ \A d : Found(d)' = Found(d)
        /\ channel_cnt' = channel_cnt /\ IdeSet' = IdeSet
    BY <1>1, SectorsFrame
  <1>3. /\ channel_cnt \in Nat /\ hd \in 0 .. channel_cnt /\ hd < channel_cnt
        /\ ide \in IdeSet /\ curr_part = NoMount /\ part_idx = 0
    BY <1>1, ChannelLemma DEF BootInv, DisksOK, BootTypes, MountOK
  <1>4. /\ ide' \in IdeSet
        /\ ide'.prim_parts = ide.prim_parts /\ ide'.logic_parts = ide.logic_parts
        /\ ide'.partition_list = ide.partition_list
        /\ ide'.extra_lba_base = ide.extra_lba_base
    BY <1>1, <1>3 DEF IdeSet
  <1>5. hd' \in 0 .. channel_cnt /\ hd' > 0
    BY <1>1, <1>3
  <1>6. BootTypes'
    BY <1>1, <1>2, <1>3, <1>4, <1>5 DEF BootInv, BootTypes
  <1>7. StackOK' /\ FormatOK' /\ MountOK'
    BY <1>1, <1>3 DEF StackOK, FormatOK, MountOK, MountSound
  <1>8. PartsOK'
    BY <1>1, <1>2, <1>4, <1>5 DEF BootInv, PartsOK
  <1>9. PassedOK'
    BY <1>1 DEF BootInv, PassedOK, Passed
  <1>10. CallsOK'
    <2>1. ide.extra_lba_base \in Bases(hd + 1)
      BY <1>1 DEF BootInv, CallsOK
    <2>2. Bases(hd)' = Bases(hd + 1)
      BY <1>1 DEF Bases
    <2> QED BY <1>1, <1>4, <2>1, <2>2 DEF CallsOK
  <1> QED BY <1>2, <1>6, <1>7, <1>8, <1>9, <1>10 DEF BootInv

\* The rest of a table has at most one extended partition, and none after it was seen.
LEMMA TailLemma ==
  ASSUME NEW t \in Seq(EntrySet), t # << >>, Single(t)
  PROVE  /\ Single(Tail(t)) /\ Len(Tail(t)) = Len(t) - 1 /\ Len(t) \in Nat
         /\ \A i \in 1 .. Len(Tail(t)) : Tail(t)[i] = t[i + 1]
         /\ Head(t) = t[1]
         /\ Head(t).fs_type = 5 => \A i \in 1 .. Len(Tail(t)) : Tail(t)[i].fs_type # 5
  <1>1. PICK v, n : v = Tail(t) /\ n = Len(t)
    OBVIOUS
  <1>2. n \in Nat /\ n > 0 /\ Len(v) = n - 1 /\ Head(t) = t[1]
    BY <1>1
  <1>3. \A i \in 1 .. n - 1 : v[i] = t[i + 1]
    BY <1>1, <1>2
  <1>4. \A i, j \in 1 .. n : t[i].fs_type = 5 /\ t[j].fs_type = 5 => i = j
    BY <1>1 DEF Single
  <1>5. \A i \in 1 .. n - 1 : i + 1 \in 1 .. n /\ i + 1 # 1
    BY <1>2
  <1>6. Single(v)
    <2>1. ASSUME NEW i \in 1 .. n - 1, NEW j \in 1 .. n - 1, v[i].fs_type = 5, v[j].fs_type = 5
          PROVE  i = j
      <3>1. i + 1 = j + 1
        BY <1>3, <1>4, <1>5, <2>1
      <3> QED BY <1>2, <3>1
    <2> QED BY <1>2, <2>1 DEF Single
  <1>7. ASSUME Head(t).fs_type = 5, NEW i \in 1 .. n - 1, v[i].fs_type = 5 PROVE FALSE
    <2>1. 1 \in 1 .. n
      BY <1>2
    <2> QED BY <1>2, <1>3, <1>4, <1>5, <1>7, <2>1
  <1> QED BY <1>1, <1>2, <1>3, <1>6, <1>7

\* The innermost call goes on to its next entry.
Advanced(g, s, n) ==
  /\ advance(s) \in Seq(Frames(g)) /\ Len(advance(s)) = n
  /\ s[n] \in Frames(g) /\ s[n].entries \in Seq(EntrySet)
  /\ Head(s[n].entries) \in TableEntries(g, s[n].ext_lba)
  /\ \A i \in 1 .. n : i # n => advance(s)[i] = s[i]
  /\ advance(s)[n].ext_lba = s[n].ext_lba
  /\ advance(s)[n].entries = Tail(s[n].entries)

\* That is what advance does.
LEMMA AdvanceLemma ==
  ASSUME NEW g, NEW s, s \in Seq(Frames(g)), NEW n, n = Len(s), n > 0, s[n].entries # << >>
  PROVE  Advanced(g, s, n)
  <1>1. PICK top, t : top = s[n] /\ t = top.entries
    OBVIOUS
  <1>2. n \in Nat /\ n \in 1 .. Len(s) /\ top \in Frames(g)
    BY <1>1, ElementOfSeq
  <1>3. /\ top \in FrameSet /\ t \in Seq(TableEntries(g, top.ext_lba)) /\ t # << >>
        /\ t \in Seq(EntrySet) /\ Single(t)
    BY <1>1, <1>2 DEF Frames, FrameSet
  <1>4. Tail(t) \in Seq(TableEntries(g, top.ext_lba)) /\ Tail(t) \in Seq(EntrySet)
    BY <1>3
  <1>5. Head(t) \in TableEntries(g, top.ext_lba)
    BY <1>3
  <1>6. PICK f : f = [top EXCEPT !.entries = Tail(t)]
    OBVIOUS
  <1>7. f \in FrameSet /\ f.entries = Tail(t) /\ f.ext_lba = top.ext_lba
    BY <1>3, <1>4, <1>6 DEF FrameSet
  <1>8. f \in Frames(g)
    <2>1. Single(Tail(t))
      BY <1>3, TailLemma
    <2> QED BY <1>4, <1>7, <2>1 DEF Frames
  <1>9. advance(s) = [s EXCEPT ![n] = f]
    BY <1>1, <1>6 DEF advance
  <1>10. PICK v : v = [s EXCEPT ![n] = f]
    OBVIOUS
  <1>11. /\ v \in Seq(Frames(g)) /\ Len(v) = n /\ v[n] = f
         /\ \A i \in 1 .. n : i # n => v[i] = s[i]
    BY <1>2, <1>8, <1>10
  <1> QED BY <1>1, <1>2, <1>3, <1>5, <1>7, <1>9, <1>10, <1>11 DEF Advanced

\* Calls that return, or go on to their next entry, keep to extra_lba_base.
LEMMA CallsLemma ==
  ASSUME NEW g, NEW base, NEW s, s \in Seq(Frames(g)), Calls(s, base), Len(s) > 0
  PROVE  /\ SubSeq(s, 1, Len(s) - 1) \in Seq(Frames(g)) /\ Calls(SubSeq(s, 1, Len(s) - 1), base)
         /\ s[Len(s)].entries # << >> => Calls(advance(s), base)
  <1>1. PICK n, t : n = Len(s) /\ t = SubSeq(s, 1, n - 1)
    OBVIOUS
  <1>2. n \in Nat /\ n - 1 \in 0 .. n
    BY <1>1
  <1>3. t \in Seq(Frames(g)) /\ Len(t) = n - 1 /\ \A i \in 1 .. n - 1 : t[i] = s[i]
    BY <1>1, <1>2, SubSeqProperties
  <1>4. Calls(t, base)
    BY <1>1, <1>2, <1>3 DEF Calls
  <1>5. ASSUME s[n].entries # << >> PROVE Calls(advance(s), base)
    <2>1. PICK v, e : v = advance(s) /\ e = s[n].entries
      OBVIOUS
    <2>2. /\ Len(v) = n /\ s[n] \in Frames(g) /\ e \in Seq(EntrySet)
          /\ \A i \in 1 .. n : i # n => v[i] = s[i]
          /\ v[n].ext_lba = s[n].ext_lba /\ v[n].entries = Tail(e)
      <3>1. Advanced(g, s, n)
        BY <1>1, <1>5, AdvanceLemma
      <3> QED BY <2>1, <3>1 DEF Advanced
    <2>3. /\ Len(Tail(e)) = Len(e) - 1 /\ Len(e) \in Nat
          /\ \A i \in 1 .. Len(Tail(e)) : Tail(e)[i] = e[i + 1]
      BY <1>5, <2>1, <2>2, TailLemma DEF Frames
    <2>4. ScanCallOK(s[n], base) /\ (n > 1 => s[n].ext_lba # 0)
      BY <1>1, <1>2 DEF Calls
    <2>5. \A i \in 1 .. Len(Tail(e)) : i + 1 \in 1 .. Len(e)
      BY <2>3
    <2>6. ScanCallOK(v[n], base)
      BY <2>1, <2>2, <2>3, <2>4, <2>5 DEF ScanCallOK
    <2>7. ASSUME NEW i \in 1 .. n PROVE (i > 1 => v[i].ext_lba # 0) /\ ScanCallOK(v[i], base)
      <3>1. CASE i = n
        BY <2>2, <2>4, <2>6, <3>1
      <3>2. CASE i # n
        BY <1>1, <2>2, <3>2 DEF Calls
      <3> QED BY <3>1, <3>2
    <2> QED BY <2>1, <2>2, <2>7 DEF Calls
  <1> QED BY <1>1, <1>3, <1>4, <1>5

\* The call for an extended partition reads a table, or the sector of zeros that an address
\* left in extra_lba_base leads to.
LEMMA ExtendedLemma ==
  ASSUME BootInv, pc = "scan", NEW s, s = ide.stack, NEW n, n = Len(s), n > 0,
         NEW e, e = s[n].entries, e # << >>, NEW p, p = Head(e), p.fs_type = 5,
         NEW base, base = ide.extra_lba_base,
         NEW x, x = (IF base # 0 THEN p.start_lba + base ELSE p.start_lba),
         NEW b, b = (IF base # 0 THEN base ELSE p.start_lba)
  PROVE  /\ Append(advance(s), Call(x)) \in Seq(Frames(geometry[hd]))
         /\ b \in Nat /\ b \in Bases(hd + 1) /\ Calls(Append(advance(s), Call(x)), b)
  <1>1. PICK G, lba, v : G = geometry[hd] /\ lba = s[n].ext_lba /\ v = advance(s)
    OBVIOUS
  <1>2. /\ s \in Seq(Frames(G)) /\ base \in Nat /\ base \in Bases(hd + 1) /\ Calls(s, base)
        /\ DisksOK /\ geometry \in Geometries /\ hd \in DOMAIN geometry /\ n \in Nat
        /\ n = Len(s) /\ n > 0 /\ s[n].entries = e /\ e # << >> /\ Head(e) = p /\ p.fs_type = 5
    BY <1>1, ChannelLemma DEF BootInv, StackOK, CallsOK, DisksOK, BootTypes, IdeSet
  <1>3. /\ v \in Seq(Frames(G)) /\ Len(v) = n /\ s[n] \in Frames(G) /\ e \in Seq(EntrySet)
        /\ p \in TableEntries(G, lba)
        /\ \A i \in 1 .. n : i # n => v[i] = s[i]
        /\ v[n].ext_lba = lba /\ v[n].entries = Tail(e)
    <2>1. /\ s \in Seq(Frames(G)) /\ n = Len(s) /\ n > 0 /\ s[n].entries # << >>
      BY ONLY <1>2
    <2>2. Advanced(G, s, n)
      BY ONLY <2>1, AdvanceLemma
    <2> QED BY ONLY <1>1, <1>2, <2>2 DEF Advanced
  <1>4. /\ Head(e) = e[1] /\ Len(e) \in Nat /\ Len(e) > 0
        /\ \A i \in 1 .. Len(Tail(e)) : Tail(e)[i].fs_type # 5
    <2>1. Single(e)
      BY ONLY <1>2, <1>3 DEF Frames
    <2>2. Len(e) \in Nat /\ Len(e) > 0
      BY ONLY <1>2, <1>3
    <2> QED BY ONLY <1>2, <1>3, <2>1, <2>2, TailLemma
  <1>5. /\ G.at > 0 /\ p.start_lba \in Nat
        /\ IF lba = 0 THEN p.start_lba = G.ext
           ELSE \E i \in 1 .. Len(G.logics) : p.start_lba = G.logics[i].ebr
    BY ONLY <1>2, <1>3 DEF TableEntries, EntrySet
  <1>6. G.ext \in Nat /\ G.ext > 0 /\ G.ext # 0
    BY <1>1, <1>2, <1>5, TableNat
  <1>7. IF lba = 0 THEN base \in Bases(hd) ELSE base = G.ext
    <2>1. ScanCallOK(s[n], base) /\ 1 \in 1 .. Len(e)
      BY <1>2, <1>4 DEF Calls
    <2> QED BY <1>1, <1>4, <2>1 DEF ScanCallOK
  <1>8. G.ext \in Bases(hd + 1) /\ \A a \in Bases(hd) : a # 0 => G.ext + a \in strays(geometry, hd)
    BY <1>1, <1>2, <1>5, BasesLemma
  <1>9. /\ b \in Nat /\ b \in Bases(hd + 1) /\ x \in Nat /\ x # 0
        /\ x \in strays(geometry, hd) \/ (x \in tables(G) /\ b = G.ext)
        /\ lba # 0 => b = base
    <2>1. CASE lba = 0 /\ base = 0
      <3>1. G.ext \in tables(G)
        BY DEF tables
      <3> QED BY <1>5, <1>6, <1>8, <2>1, <3>1
    <2>2. CASE lba = 0 /\ base # 0
      <3>1. x = G.ext + base /\ b = base
        BY <1>5, <2>2
      <3> QED BY <1>2, <1>6, <1>7, <1>8, <2>2, <3>1
    <2>3. CASE lba # 0
      <3>1. PICK i \in 1 .. Len(G.logics) : p.start_lba = G.logics[i].ebr
        BY <1>5, <2>3
      <3>2. base = G.ext /\ x = p.start_lba + G.ext /\ b = base
        BY <1>6, <1>7, <2>3
      <3>3. G.ext + G.logics[i].ebr \in tables(G)
        BY DEF tables
      <3>4. x = G.ext + p.start_lba
        BY ONLY <1>5, <1>6, <3>2
      <3>5. x \in tables(G)
        BY <3>1, <3>3, <3>4
      <3>6. x \in Nat /\ x # 0
        BY ONLY <1>5, <1>6, <3>4
      <3>7. b = G.ext /\ b \in Nat /\ b \in Bases(hd + 1)
        BY ONLY <1>6, <1>8, <3>2
      <3> QED BY ONLY <3>2, <3>5, <3>6, <3>7
    <2> QED BY <2>1, <2>2, <2>3
  <1>10. PICK c, w : c = Call(x) /\ w = Append(v, c)
    OBVIOUS
  <1>11. /\ c \in Frames(G) /\ c.ext_lba = x
         /\ x \in strays(geometry, hd) => \A j \in 1 .. Len(c.entries) : c.entries[j].fs_type # 5
    <2>1. x \in tables(geometry[hd]) \cup strays(geometry, hd)
      BY <1>1, <1>9
    <2>2. /\ Call(x) \in Frames(geometry[hd]) /\ Call(x).ext_lba = x
          /\ x \in strays(geometry, hd) =>
                 \A j \in 1 .. Len(Call(x).entries) : Call(x).entries[j].fs_type # 5
      BY ONLY <1>2, <2>1, CallLemma
    <2> QED BY <1>1, <1>10, <2>2
  <1>12. /\ w \in Seq(Frames(G)) /\ Len(w) = n + 1 /\ w[n + 1] = c
         /\ \A i \in 1 .. n : w[i] = v[i]
    <2>1. PICK F : F = Frames(G)
      OBVIOUS
    <2>2. v \in Seq(F) /\ c \in F /\ Len(v) = n /\ n \in Nat
      BY <1>2, <1>3, <1>11, <2>1
    <2>3. /\ w \in Seq(F) /\ Len(w) = n + 1 /\ w[n + 1] = c /\ \A i \in 1 .. n : w[i] = v[i]
      BY ONLY <1>10, <2>2, AppendProperties
    <2> QED BY <2>1, <2>3
  <1>13. ScanCallOK(c, b)
    BY <1>1, <1>9, <1>11 DEF ScanCallOK
  <1>14. ASSUME NEW i \in 1 .. n + 1 PROVE (i > 1 => w[i].ext_lba # 0) /\ ScanCallOK(w[i], b)
    <2>1. CASE i = n + 1
      BY <1>9, <1>11, <1>12, <1>13, <2>1
    <2>2. CASE i = n
      <3>1. w[i].ext_lba = lba /\ w[i].entries = Tail(e)
        BY <1>2, <1>3, <1>12, <2>2
      <3>2. n > 1 => lba # 0
        BY <1>1, <1>2 DEF Calls
      <3> QED BY <1>4, <2>2, <3>1, <3>2 DEF ScanCallOK
    <2>3. CASE i < n
      <3>1. i \in 1 .. n /\ n > 1 /\ n \in 1 .. n
        BY <1>2, <2>3
      <3>2. w[i] = s[i]
        BY <1>3, <1>12, <2>3, <3>1
      <3>3. lba # 0 /\ (i > 1 => s[i].ext_lba # 0) /\ ScanCallOK(s[i], base)
        BY <1>1, <1>2, <3>1 DEF Calls
      <3> QED BY <1>9, <3>2, <3>3
    <2> QED BY <1>2, <2>1, <2>2, <2>3
  <1>15. Calls(w, b)
    BY <1>12, <1>14 DEF Calls
  <1> QED BY <1>1, <1>9, <1>10, <1>12, <1>15

\* A turn of partition_scan that records nothing.
LEMMA ScanOnly ==
  ASSUME BootInv, partition_scan, NEW stack, stack \in Seq(Frames(geometry[hd])), NEW base \in Nat,
         ide' = [ide EXCEPT !.stack = stack, !.extra_lba_base = base]
  PROVE  /\ ide' \in IdeSet /\ PartsOK' /\ ide'.stack = stack /\ ide'.extra_lba_base = base
  <1>1. /\ pc = "scan" /\ pc' \in {"scan", "halt"}
        /\ UNCHANGED << geometry, sectors, curr_part, hd, part_idx, todo, cuts, whole >>
    BY DEF partition_scan
  <1>2. \A d : Found(d)' = Found(d)
    BY <1>1, SectorsFrame
  <1>3. ide \in IdeSet
    BY DEF BootInv, BootTypes
  <1>4. stack \in Seq(FrameSet)
    BY SeqMono DEF Frames
  <1>5. /\ ide' \in IdeSet /\ ide'.stack = stack
        /\ ide'.prim_parts = ide.prim_parts /\ ide'.logic_parts = ide.logic_parts
        /\ ide'.partition_list = ide.partition_list /\ ide'.primary_idx = ide.primary_idx
        /\ ide'.extra_lba_base = base
    BY <1>3, <1>4 DEF IdeSet
  <1>6. PartsOK'
    BY <1>1, <1>2, <1>5 DEF BootInv, PartsOK
  <1> QED BY <1>5, <1>6

\* What partition_scan records of an entry is a partition of the disk.
LEMMA PartLemma ==
  ASSUME NEW g, g = geometry[hd], hd \in Nat, NEW lba \in Nat, NEW n \in Nat,
         NEW p, p \in TableEntries(g, lba), p.fs_type \notin {0, 5}
  PROVE  Part(n, lba, p) \in Found(hd) /\ Part(n, lba, p).name = << hd, n >>
  <1>1. /\ p.start_lba \in Nat /\ p.sec_cnt \in Nat
        /\ [start_lba |-> lba + p.start_lba, sector_counter |-> p.sec_cnt] \in Areas(g)
    BY DEF TableEntries, EntrySet
  <1>2. PICK part : part = Part(n, lba, p)
    OBVIOUS
  <1>3. /\ part.name = << hd, n >> /\ part.start_lba = lba + p.start_lba
        /\ part.sector_counter = p.sec_cnt
        /\ part = [name |-> << hd, n >>, start_lba |-> lba + p.start_lba, sector_counter |-> p.sec_cnt]
    BY <1>2 DEF Part
  <1>4. << hd, n >> \in Seq(Nat) /\ lba + p.start_lba \in Nat
    BY <1>1
  <1>5. part \in PartSet
    BY <1>1, <1>3, <1>4 DEF PartSet
  <1>6. Extent(part) \in Areas(geometry[hd])
    BY <1>1, <1>3 DEF Extent
  <1>7. part # NoPart
    <2>1. << hd, n >> # << >>
      OBVIOUS
    <2>2. NoPart.name = << >>
      BY DEF NoPart
    <2> QED BY <1>3, <2>1, <2>2
  <1>8. Len(part.name) = 2 /\ part.name[1] = hd
    BY <1>3
  <1> QED BY <1>2, <1>3, <1>5, <1>6, <1>7, <1>8 DEF Found

\* A primary partition is recorded.
LEMMA ScanPrimary ==
  ASSUME BootInv, partition_scan, NEW stack, stack \in Seq(Frames(geometry[hd])),
         NEW p, p \in TableEntries(geometry[hd], 0), p.fs_type \notin {0, 5},
         ide' = primary(stack, p)
  PROVE  /\ ide' \in IdeSet /\ PartsOK'
         /\ ide'.stack = stack /\ ide'.extra_lba_base = ide.extra_lba_base
  <1>1. /\ pc = "scan" /\ pc' \in {"scan", "halt"}
        /\ UNCHANGED << geometry, sectors, curr_part, hd, part_idx, todo, cuts, whole >>
    BY DEF partition_scan
  <1>2. \A d : Found(d)' = Found(d)
    BY <1>1, SectorsFrame
  <1>3. /\ ide \in IdeSet /\ hd \in Nat /\ hd \in DOMAIN geometry
        /\ ide.primary_idx \in Nat /\ PRIM_PARTS \in Nat \ {0}
    BY <1>1, ChannelLemma, FsBootAssumption DEF BootInv, BootTypes, DisksOK, IdeSet
  <1>4. PICK n, part : n = ide.primary_idx /\ part = Part(n + 1, 0, p)
    OBVIOUS
  <1>5. part \in Found(hd) /\ part.name = << hd, n + 1 >> /\ part \in PartSet
    BY <1>3, <1>4, PartLemma DEF Found
  <1>6. stack \in Seq(FrameSet)
    BY SeqMono DEF Frames
  <1>7. PICK pp, list : /\ pp = [ide.prim_parts EXCEPT ![hd][n] = part]
                        /\ list = Append(ide.partition_list, part)
    OBVIOUS
  <1>8. /\ ide.prim_parts \in [DOMAIN geometry -> [0 .. PRIM_PARTS - 1 -> PartSet]]
        /\ ide.partition_list \in Seq(PartSet)
    BY <1>3 DEF IdeSet
  <1>9. /\ pp \in [DOMAIN geometry -> [0 .. PRIM_PARTS - 1 -> PartSet]]
        /\ list \in Seq(PartSet)
    <2>1. PICK old, row : old = ide.prim_parts[hd] /\ row = [old EXCEPT ![n] = part]
      OBVIOUS
    <2>2. old \in [0 .. PRIM_PARTS - 1 -> PartSet]
      BY <1>3, <1>8, <2>1
    <2>3. row \in [0 .. PRIM_PARTS - 1 -> PartSet]
      BY <1>5, <2>1, <2>2
    <2>4. pp = [ide.prim_parts EXCEPT ![hd] = row]
      BY <1>7, <2>1
    <2>5. pp \in [DOMAIN geometry -> [0 .. PRIM_PARTS - 1 -> PartSet]]
      BY <1>8, <2>3, <2>4
    <2> QED BY <1>5, <1>7, <1>8, <2>5
  <1>10. ide' = [ide EXCEPT !.prim_parts = pp, !.partition_list = list, !.primary_idx = n + 1,
                            !.stack = stack]
    BY <1>4, <1>7 DEF primary
  <1>11. /\ ide' \in IdeSet /\ ide'.stack = stack /\ ide'.prim_parts = pp
         /\ ide'.logic_parts = ide.logic_parts /\ ide'.partition_list = list
         /\ ide'.primary_idx = n + 1 /\ ide'.extra_lba_base = ide.extra_lba_base
    <2>1. n + 1 \in Nat
      BY <1>3, <1>4
    <2>2. PICK A, B, C, D : /\ A = [DOMAIN geometry -> [0 .. PRIM_PARTS - 1 -> PartSet]]
                            /\ B = [DOMAIN geometry -> [0 .. LOGIC_PARTS - 1 -> PartSet]]
                            /\ C = Seq(PartSet) /\ D = Seq(FrameSet)
      OBVIOUS
    <2>3. IdeSet = [extra_lba_base : Nat, primary_idx : Nat, logic_idx : Nat, prim_parts : A,
                    logic_parts : B, partition_list : C, stack : D]
      BY <2>2 DEF IdeSet
    <2>4. pp \in A /\ list \in C /\ stack \in D
      BY <1>6, <1>9, <2>2
    <2> QED BY <1>3, <1>10, <2>1, <2>3, <2>4
  <1>12. ASSUME NEW d \in DOMAIN geometry, NEW i \in 0 .. PRIM_PARTS - 1
         PROVE  /\ pp[d][i] = IF d = hd /\ i = n THEN part ELSE ide.prim_parts[d][i]
                /\ pp[d][i] \in Found(d) \cup {NoPart}
    <2>1. pp[d][i] = IF d = hd /\ i = n THEN part ELSE ide.prim_parts[d][i]
      BY <1>7, <1>8
    <2> QED BY <1>5, <2>1 DEF BootInv, PartsOK
  <1>13. ASSUME NEW i \in 1 .. Len(list), list[i].name = << 0, 1 >>
         PROVE  0 \in DOMAIN geometry /\ list[i] = pp[0][0]
    <2>1. 0 \in 0 .. PRIM_PARTS - 1
      BY <1>3
    <2>2. CASE i \in 1 .. Len(ide.partition_list)
      <3>1. list[i] = ide.partition_list[i]
        BY <1>7, <1>8, <2>2
      <3>2. /\ 0 \in DOMAIN geometry /\ list[i] = ide.prim_parts[0][0] /\ (hd > 0 \/ n > 0)
        BY <1>1, <1>4, <1>13, <2>2, <3>1 DEF BootInv, PartsOK
      <3> QED BY <1>3, <1>4, <1>12, <2>1, <3>2
    <2>3. CASE i \notin 1 .. Len(ide.partition_list)
      <3>1. list[i] = part
        BY <1>7, <1>8, <2>3
      <3>2. << hd, n + 1 >> = << 0, 1 >>
        BY <1>5, <1>13, <3>1
      <3>3. hd = 0 /\ n + 1 = 1
        BY <3>2
      <3>4. n = 0
        BY <1>3, <1>4, <3>3
      <3> QED BY <1>3, <1>12, <2>1, <3>1, <3>3, <3>4
    <2> QED BY <2>2, <2>3
  <1>14. n + 1 > 0
    BY <1>3, <1>4
  <1>15. PartsOK'
    BY <1>1, <1>2, <1>11, <1>12, <1>13, <1>14 DEF BootInv, PartsOK
  <1> QED BY <1>11, <1>15

\* A logical partition is recorded.
LEMMA ScanLogical ==
  ASSUME BootInv, partition_scan, NEW stack, stack \in Seq(Frames(geometry[hd])), Len(stack) > 0,
         NEW lba \in Nat, NEW p, p \in TableEntries(geometry[hd], lba), p.fs_type \notin {0, 5},
         ide' = logical(stack, lba, p)
  PROVE  /\ ide' \in IdeSet /\ PartsOK' /\ ide'.extra_lba_base = ide.extra_lba_base
         /\ ide'.stack \in {stack, SubSeq(stack, 1, Len(stack) - 1)}
  <1>1. /\ pc = "scan" /\ pc' \in {"scan", "halt"}
        /\ UNCHANGED << geometry, sectors, curr_part, hd, part_idx, todo, cuts, whole >>
    BY DEF partition_scan
  <1>2. \A d : Found(d)' = Found(d)
    BY <1>1, SectorsFrame
  <1>3. /\ ide \in IdeSet /\ hd \in Nat /\ hd \in DOMAIN geometry
        /\ ide.logic_idx \in Nat /\ LOGIC_PARTS \in Nat \ {0}
    BY <1>1, ChannelLemma, FsBootAssumption DEF BootInv, BootTypes, DisksOK, IdeSet
  <1>4. PICK n, part : n = ide.logic_idx /\ part = Part(n + 5, lba, p)
    OBVIOUS
  <1>5. part \in Found(hd) /\ part.name = << hd, n + 5 >> /\ part \in PartSet
    BY <1>3, <1>4, PartLemma DEF Found
  <1>6. PICK st : st = IF n + 1 >= LOGIC_PARTS THEN SubSeq(stack, 1, Len(stack) - 1) ELSE stack
    OBVIOUS
  <1>7. st \in Seq(Frames(geometry[hd]))
    <2>1. Len(stack) - 1 \in 0 .. Len(stack) /\ Len(stack) \in Nat
      OBVIOUS
    <2>2. SubSeq(stack, 1, Len(stack) - 1) \in Seq(Frames(geometry[hd]))
      BY <2>1, SubSeqProperties
    <2> QED BY <1>6, <2>2
  <1>8. st \in Seq(FrameSet)
    BY <1>7, SeqMono DEF Frames
  <1>9. PICK lp, list : /\ lp = [ide.logic_parts EXCEPT ![hd][n] = part]
                        /\ list = Append(ide.partition_list, part)
    OBVIOUS
  <1>10. /\ ide.logic_parts \in [DOMAIN geometry -> [0 .. LOGIC_PARTS - 1 -> PartSet]]
         /\ ide.partition_list \in Seq(PartSet)
    BY <1>3 DEF IdeSet
  <1>11. /\ lp \in [DOMAIN geometry -> [0 .. LOGIC_PARTS - 1 -> PartSet]]
         /\ list \in Seq(PartSet)
    <2>1. PICK old, row : old = ide.logic_parts[hd] /\ row = [old EXCEPT ![n] = part]
      OBVIOUS
    <2>2. old \in [0 .. LOGIC_PARTS - 1 -> PartSet]
      BY <1>3, <1>10, <2>1
    <2>3. row \in [0 .. LOGIC_PARTS - 1 -> PartSet]
      BY <1>5, <2>1, <2>2
    <2>4. lp = [ide.logic_parts EXCEPT ![hd] = row]
      BY <1>9, <2>1
    <2>5. lp \in [DOMAIN geometry -> [0 .. LOGIC_PARTS - 1 -> PartSet]]
      BY <1>10, <2>3, <2>4
    <2> QED BY <1>5, <1>9, <1>10, <2>5
  <1>12. ide' = [ide EXCEPT !.logic_parts = lp, !.partition_list = list, !.logic_idx = n + 1,
                            !.stack = st]
    BY <1>4, <1>6, <1>9 DEF logical
  <1>13. /\ ide' \in IdeSet /\ ide'.stack = st /\ ide'.prim_parts = ide.prim_parts
         /\ ide'.logic_parts = lp /\ ide'.partition_list = list
         /\ ide'.primary_idx = ide.primary_idx /\ ide'.extra_lba_base = ide.extra_lba_base
    <2>1. n + 1 \in Nat
      BY <1>3, <1>4
    <2>2. PICK A, B, C, D : /\ A = [DOMAIN geometry -> [0 .. PRIM_PARTS - 1 -> PartSet]]
                            /\ B = [DOMAIN geometry -> [0 .. LOGIC_PARTS - 1 -> PartSet]]
                            /\ C = Seq(PartSet) /\ D = Seq(FrameSet)
      OBVIOUS
    <2>3. IdeSet = [extra_lba_base : Nat, primary_idx : Nat, logic_idx : Nat, prim_parts : A,
                    logic_parts : B, partition_list : C, stack : D]
      BY <2>2 DEF IdeSet
    <2>4. lp \in B /\ list \in C /\ st \in D
      BY <1>8, <1>11, <2>2
    <2> QED BY <1>3, <1>12, <2>1, <2>3, <2>4
  <1>14. ASSUME NEW d \in DOMAIN geometry, NEW i \in 0 .. LOGIC_PARTS - 1
         PROVE  lp[d][i] \in Found(d) \cup {NoPart}
    <2>1. lp[d][i] = IF d = hd /\ i = n THEN part ELSE ide.logic_parts[d][i]
      BY <1>9, <1>10
    <2> QED BY <1>5, <2>1 DEF BootInv, PartsOK
  <1>15. ASSUME NEW i \in 1 .. Len(list), list[i].name = << 0, 1 >>
         PROVE  i \in 1 .. Len(ide.partition_list) /\ list[i] = ide.partition_list[i]
    <2>1. CASE i \in 1 .. Len(ide.partition_list)
      BY <1>9, <1>10, <2>1
    <2>2. CASE i \notin 1 .. Len(ide.partition_list)
      <3>1. list[i] = part
        BY <1>9, <1>10, <2>2
      <3>2. << hd, n + 5 >> = << 0, 1 >>
        BY <1>5, <1>15, <3>1
      <3>3. n + 5 = 1
        BY <3>2
      <3> QED BY <1>3, <1>4, <3>3
    <2> QED BY <2>1, <2>2
  <1>16. PartsOK'
    BY <1>1, <1>2, <1>13, <1>14, <1>15 DEF BootInv, PartsOK
  <1> QED BY <1>6, <1>13, <1>16

\* One turn of partition_scan's loop.
LEMMA ScanStep ==
  ASSUME BootInv, partition_scan
  PROVE  BootInv'
  <1>1. /\ pc = "scan" /\ pc' \in {"scan", "halt"}
        /\ UNCHANGED << geometry, sectors, curr_part, hd, part_idx, todo, cuts, whole >>
    BY DEF partition_scan
  <1>2. /\ DisksOK' /\ WholeOK' /\ channel_cnt' = channel_cnt /\ IdeSet' = IdeSet
    BY <1>1, SectorsFrame
  <1>3. /\ channel_cnt \in Nat /\ hd \in 0 .. channel_cnt /\ hd < channel_cnt
        /\ hd \in DOMAIN geometry /\ ide \in IdeSet /\ curr_part = NoMount /\ part_idx = 0
        /\ DisksOK /\ ide.extra_lba_base \in Nat
    BY <1>1, ChannelLemma DEF BootInv, DisksOK, BootTypes, MountOK, IdeSet
  <1>4. PICK s, n, top : s = ide.stack /\ n = Len(s) /\ top = s[n]
    OBVIOUS
  <1>5. s \in Seq(Frames(geometry[hd])) /\ n > 0 /\ n \in Nat
    BY <1>1, <1>4 DEF BootInv, StackOK, partition_scan
  <1>6. Calls(s, ide.extra_lba_base) /\ ide.extra_lba_base \in Bases(hd + 1)
    BY <1>1, <1>4 DEF BootInv, CallsOK
  <1>7. /\ ide' \in IdeSet /\ PartsOK'
        /\ ide'.stack \in Seq(Frames(geometry[hd]))
        /\ ide'.extra_lba_base \in Bases(hd + 1) /\ Calls(ide'.stack, ide'.extra_lba_base)
    <2>1. CASE top.entries = << >> /\ ide' = [ide EXCEPT !.stack = SubSeq(@, 1, n - 1)]
      <3>1. PICK t : t = SubSeq(s, 1, n - 1)
        OBVIOUS
      <3>2. t \in Seq(Frames(geometry[hd])) /\ Calls(t, ide.extra_lba_base)
        BY <1>4, <1>5, <1>6, <3>1, CallsLemma
      <3>3. ide' = [ide EXCEPT !.stack = t, !.extra_lba_base = ide.extra_lba_base]
        BY <1>3, <1>4, <2>1, <3>1 DEF IdeSet
      <3> QED BY <1>3, <1>6, <3>2, <3>3, ScanOnly
    <2>2. CASE top.entries # << >>
      <3>1. PICK stack, p, lba : stack = advance(s) /\ p = Head(top.entries) /\ lba = top.ext_lba
        OBVIOUS
      <3>2. /\ stack \in Seq(Frames(geometry[hd])) /\ Len(stack) = n
            /\ top \in Frames(geometry[hd]) /\ p \in TableEntries(geometry[hd], lba)
        <4>1. Advanced(geometry[hd], s, n)
          BY <1>4, <1>5, <2>2, AdvanceLemma
        <4> QED BY <1>4, <3>1, <4>1 DEF Advanced
      <3>3. lba \in Nat
        BY <3>1, <3>2 DEF Frames, FrameSet
      <3>4. ide' = IF p.fs_type = 5 THEN extended(stack, p)
                   ELSE IF p.fs_type = 0 THEN [ide EXCEPT !.stack = stack]
                   ELSE IF lba = 0 THEN primary(stack, p)
                   ELSE logical(stack, lba, p)
        BY <1>4, <2>2, <3>1 DEF partition_scan
      <3>5. Calls(stack, ide.extra_lba_base)
        BY <1>4, <1>5, <1>6, <2>2, <3>1, CallsLemma
      <3>6. CASE p.fs_type = 5
        <4>1. PICK base, x, b, t :
                /\ base = ide.extra_lba_base
                /\ x = (IF base # 0 THEN p.start_lba + base ELSE p.start_lba)
                /\ b = (IF base # 0 THEN base ELSE p.start_lba)
                /\ t = Append(stack, Call(x))
          OBVIOUS
        <4>2. /\ t \in Seq(Frames(geometry[hd])) /\ b \in Nat
              /\ b \in Bases(hd + 1) /\ Calls(t, b)
          BY <1>1, <1>4, <1>5, <2>2, <3>1, <3>6, <4>1, ExtendedLemma
        <4>3. ide' = [ide EXCEPT !.stack = t, !.extra_lba_base = b]
          <5>1. ide' = extended(stack, p)
            BY <3>4, <3>6
          <5>2. CASE base # 0
            <6>1. ide' = [ide EXCEPT !.stack = t] /\ b = ide.extra_lba_base
              BY <4>1, <5>1, <5>2 DEF extended
            <6> QED BY <1>3, <6>1 DEF IdeSet
          <5>3. CASE base = 0
            BY <4>1, <5>1, <5>3 DEF extended
          <5> QED BY <5>2, <5>3
        <4> QED BY <4>2, <4>3, ScanOnly
      <3>7. CASE p.fs_type = 0
        <4>1. ide' = [ide EXCEPT !.stack = stack]
          BY <3>4, <3>7
        <4>2. ide' = [ide EXCEPT !.stack = stack, !.extra_lba_base = ide.extra_lba_base]
          BY <1>3, <4>1 DEF IdeSet
        <4> QED BY <1>3, <1>6, <3>2, <3>5, <4>2, ScanOnly
      <3>8. CASE p.fs_type \notin {0, 5} /\ lba = 0
        <4>1. ide' = primary(stack, p)
          BY <3>4, <3>8
        <4> QED BY <1>6, <3>2, <3>5, <3>8, <4>1, ScanPrimary
      <3>9. CASE p.fs_type \notin {0, 5} /\ lba # 0
        <4>1. ide' = logical(stack, lba, p)
          BY <3>4, <3>9
        <4>2. /\ ide' \in IdeSet /\ PartsOK' /\ ide'.extra_lba_base = ide.extra_lba_base
              /\ ide'.stack \in {stack, SubSeq(stack, 1, Len(stack) - 1)}
          BY <1>5, <3>2, <3>3, <3>9, <4>1, ScanLogical
        <4>3. /\ SubSeq(stack, 1, Len(stack) - 1) \in Seq(Frames(geometry[hd]))
              /\ Calls(SubSeq(stack, 1, Len(stack) - 1), ide.extra_lba_base)
          BY <1>5, <3>2, <3>5, CallsLemma
        <4> QED BY <1>6, <3>2, <3>5, <4>2, <4>3
      <3> QED BY <3>6, <3>7, <3>8, <3>9
    <2> QED BY <1>4, <2>1, <2>2 DEF partition_scan
  <1>8. BootTypes'
    BY <1>1, <1>2, <1>3, <1>7 DEF BootInv, BootTypes
  <1>9. StackOK' /\ FormatOK' /\ MountOK'
    BY <1>1, <1>3, <1>7 DEF StackOK, FormatOK, MountOK, MountSound
  <1>10. CallsOK'
    <2>1. Bases(hd + 1)' = Bases(hd + 1)
      BY <1>1 DEF Bases
    <2>2. Calls(ide.stack, ide.extra_lba_base)'
      BY <1>1, <1>7 DEF Calls, ScanCallOK, Bases
    <2> QED BY <1>1, <1>7, <2>1, <2>2 DEF CallsOK
  <1>11. PassedOK'
    BY <1>1 DEF BootInv, PassedOK, Passed
  <1> QED BY <1>2, <1>7, <1>8, <1>9, <1>10, <1>11 DEF BootInv
-----------------------------------------------------------------------------
(* Partitions do not overlap.                                              *)

\* A recorded partition is large enough, and holds its metadata.
LEMMA FoundLemma ==
  ASSUME geometry \in Geometries, NEW d \in DOMAIN geometry, NEW part, part \in Found(d)
  PROVE  /\ part \in PartSet /\ part # NoPart /\ part.name[1] = d
         /\ part.start_lba \in Nat /\ part.sector_counter \in Nat /\ part.sector_counter # 0
         /\ part.sector_counter > used_sects
         /\ used_sects \in Nat /\ used_sects >= 2 /\ block_bitmap_sects(part) \in Nat
         /\ used_sects + block_bitmap_sects(part) <= part.sector_counter
         /\ root_dir_lba \in Nat /\ root_dir_lba \notin metadata(part)
         /\ Extent(part) \in Areas(geometry[d])
         /\ Extent(part) \in Partition
         /\ Extent(part).start_lba = part.start_lba
         /\ Extent(part).sector_counter = part.sector_counter
         /\ super_block(Extent(part)) = super_block(part)
  <1>1. /\ part \in PartSet /\ part # NoPart /\ part.name[1] = d
        /\ Extent(part) \in Areas(geometry[d])
    BY DEF Found
  <1>2. /\ Extent(part) \in Partition
        /\ Extent(part).start_lba = part.start_lba
        /\ Extent(part).sector_counter = part.sector_counter
        /\ block_bitmap_sects(Extent(part)) = block_bitmap_sects(part)
        /\ super_block(Extent(part)) = super_block(part)
        /\ metadata(Extent(part)) = metadata(part)
    BY <1>1, ExtentLemma
  <1>3. PICK a : a = Extent(part)
    OBVIOUS
  <1>4. /\ a.start_lba \in Nat /\ a.sector_counter \in Nat /\ a.sector_counter > used_sects
        /\ root_dir_lba \in Nat /\ root_dir_lba \notin metadata(a)
        /\ block_bitmap_sects(a) \in Nat
        /\ used_sects + block_bitmap_sects(a) <= a.sector_counter
    BY <1>1, <1>3, AreaLemma
  <1>5. used_sects \in Nat /\ used_sects >= 2
    BY Sizes DEF used_sects
  <1> QED BY <1>1, <1>2, <1>3, <1>4, <1>5

\* Two partitions are one or apart.
LEMMA ApartLemma ==
  ASSUME geometry \in Geometries, NEW d \in DOMAIN geometry,
         NEW a, a \in Areas(geometry[d]), NEW b, b \in Areas(geometry[d])
  PROVE  \/ a = b
         \/ a.start_lba + a.sector_counter <= b.start_lba
         \/ b.start_lba + b.sector_counter <= a.start_lba
  BY GeometryAssumption

\* Partitions that start at the same sector are the same.
LEMMA SameStart ==
  ASSUME geometry \in Geometries, NEW d \in DOMAIN geometry,
         NEW a, a \in Areas(geometry[d]), NEW b, b \in Areas(geometry[d]),
         a.start_lba = b.start_lba
  PROVE  a = b
  <1>1. /\ a.start_lba \in Nat /\ a.sector_counter \in Nat /\ b.sector_counter \in Nat
        /\ a.sector_counter > used_sects /\ b.sector_counter > used_sects /\ used_sects \in Nat
    BY AreaLemma, Sizes
  <1> QED BY <1>1, ApartLemma

\* What partition_format writes for one partition is outside of any other, but for the
\* root directory.
LEMMA WrittenApart ==
  ASSUME geometry \in Geometries, NEW d \in DOMAIN geometry, NEW q, q \in Found(d),
         NEW r, r \in Found(d), Extent(q) # Extent(r), NEW x, x \in Written(q), x # root_dir_lba
  PROVE  /\ x \notin r.start_lba .. r.start_lba + r.sector_counter - 1
         /\ x \notin Written(r)
  <1>1. /\ q.start_lba \in Nat /\ q.sector_counter \in Nat /\ block_bitmap_sects(q) \in Nat
        /\ used_sects \in Nat /\ used_sects + block_bitmap_sects(q) <= q.sector_counter
        /\ Extent(q) \in Areas(geometry[d])
        /\ Extent(q).start_lba = q.start_lba /\ Extent(q).sector_counter = q.sector_counter
    BY FoundLemma
  <1>2. /\ r.start_lba \in Nat /\ r.sector_counter \in Nat /\ block_bitmap_sects(r) \in Nat
        /\ used_sects + block_bitmap_sects(r) <= r.sector_counter
        /\ Extent(r) \in Areas(geometry[d])
        /\ Extent(r).start_lba = r.start_lba /\ Extent(r).sector_counter = r.sector_counter
    BY FoundLemma
  <1>3. \/ q.start_lba + q.sector_counter <= r.start_lba
        \/ r.start_lba + r.sector_counter <= q.start_lba
    BY <1>1, <1>2, ApartLemma
  <1>4. x \in q.start_lba + 1 .. q.start_lba + used_sects + block_bitmap_sects(q) - 1
    BY DEF Written
  <1>5. x \in Int /\ q.start_lba <= x /\ x < q.start_lba + q.sector_counter
    BY <1>1, <1>4
  <1>6. x \notin r.start_lba .. r.start_lba + r.sector_counter - 1
    BY <1>1, <1>2, <1>3, <1>5
  <1>7. x \notin r.start_lba + 1 .. r.start_lba + used_sects + block_bitmap_sects(r) - 1
    BY <1>1, <1>2, <1>6
  <1> QED BY <1>6, <1>7 DEF Written

\* The kinds of sectors that partition_format writes.
LEMMA ContentLemma ==
  ASSUME geometry \in Geometries, NEW d \in DOMAIN geometry, NEW q, q \in Found(d), NEW x
  PROVE  /\ x \in Written(q) => SectorOK(d, x, Content(q, x))
         /\ Content(q, q.start_lba + 1) = super_block(q)
         /\ Content(q, root_dir_lba) = RootDir
         /\ q.start_lba + 1 # root_dir_lba
         /\ super_block(q).kind = "super_block"
  <1>1. /\ q.start_lba \in Nat /\ used_sects \in Nat /\ used_sects >= 2
        /\ block_bitmap_sects(q) \in Nat
        /\ root_dir_lba \in Nat /\ root_dir_lba \notin metadata(q)
        /\ Extent(q) \in Areas(geometry[d]) /\ Extent(q).start_lba = q.start_lba
        /\ super_block(Extent(q)) = super_block(q)
        /\ Extent(q).sector_counter = q.sector_counter /\ q.sector_counter \in Nat
        /\ used_sects + block_bitmap_sects(q) <= q.sector_counter
    BY FoundLemma
  <1>2. q.start_lba + 1 # root_dir_lba
    BY <1>1 DEF metadata
  <1>3. super_block(q).kind = "super_block"
    BY DEF super_block
  <1>4. Content(q, q.start_lba + 1) = super_block(q) /\ Content(q, root_dir_lba) = RootDir
    BY <1>2 DEF Content
  <1>5. \/ Content(q, x) = RootDir
        \/ x = q.start_lba + 1 /\ Content(q, x) = super_block(q)
        \/ \E set : Content(q, x) = Bits(set)
        \/ Content(q, x) = RootInodeSector
        \/ Content(q, x) = Zero
    BY DEF Content
  <1>6. ASSUME x \in Written(q) PROVE SectorOK(d, x, Content(q, x))
    <2>0. \/ x = root_dir_lba
          \/ \E a \in Areas(geometry[d]) : x \in a.start_lba .. a.start_lba + a.sector_counter - 1
      <3>1. CASE x \in q.start_lba + 1 .. q.start_lba + used_sects + block_bitmap_sects(q) - 1
        <4>1. x \in Extent(q).start_lba .. Extent(q).start_lba + Extent(q).sector_counter - 1
          BY <1>1, <3>1
        <4> QED BY <1>1, <4>1
      <3> QED BY <1>6, <3>1 DEF Written
    <2>1. CASE Content(q, x) = RootDir
      BY <2>0, <2>1 DEF SectorOK, RootDir
    <2>2. CASE x = q.start_lba + 1 /\ Content(q, x) = super_block(q)
      BY <1>1, <1>3, <2>0, <2>2 DEF SectorOK
    <2>3. CASE \E set : Content(q, x) = Bits(set)
      BY <2>0, <2>3 DEF SectorOK, Bits
    <2>4. CASE Content(q, x) = RootInodeSector
      <3>1. 2 * DIR_ENTRY_SIZE \in Nat
        BY LayoutAssumption
      <3> QED BY <1>1, <2>0, <2>4, <3>1 DEF SectorOK, RootInodeSector
    <2>5. CASE Content(q, x) = Zero
      BY <2>0, <2>5 DEF SectorOK, Zero
    <2> QED BY <1>5, <2>1, <2>2, <2>3, <2>4, <2>5
  <1> QED BY <1>2, <1>3, <1>4, <1>6

\* A super block in a partition's place is that partition's.
LEMMA SuperLemma ==
  ASSUME DisksOK, NEW d \in DOMAIN geometry, NEW part, part \in Found(d),
         Sector(d, part.start_lba + 1).kind = "super_block"
  PROVE  Sector(d, part.start_lba + 1) = super_block(part)
  <1>1. /\ part.start_lba \in Nat /\ Extent(part) \in Areas(geometry[d])
        /\ Extent(part).start_lba = part.start_lba /\ super_block(Extent(part)) = super_block(part)
    BY FoundLemma DEF DisksOK
  <1>2. PICK x, s : x = part.start_lba + 1 /\ s = Sector(d, x)
    OBVIOUS
  <1>3. x \in DOMAIN sectors[d] /\ s = sectors[d][x]
    BY <1>2 DEF Sector, Zero
  <1>4. PICK a \in Areas(geometry[d]) : x = a.start_lba + 1 /\ s = super_block(a)
    BY <1>2, <1>3 DEF DisksOK, SectorOK
  <1>5. a.start_lba \in Nat
    BY AreaLemma DEF DisksOK
  <1>6. a.start_lba = Extent(part).start_lba
    BY <1>1, <1>2, <1>4, <1>5
  <1>7. a = Extent(part)
    BY <1>1, <1>6, SameStart DEF DisksOK
  <1> QED BY <1>1, <1>2, <1>4, <1>7

\* What a partition formatted to the end has on disk.
LEMMA WholeLemma ==
  ASSUME BootInv, NEW part, part \in whole, NEW d, d = part.name[1]
  PROVE  /\ d \in DOMAIN geometry /\ part \in Found(d)
         /\ Sector(d, part.start_lba + 1) = super_block(part)
         /\ Sector(d, part.start_lba + 1).kind = "super_block"
         /\ Sector(d, root_dir_lba) = RootDir
         /\ \A k \in 0 .. block_bitmap_sects(part) - 1 :
                Sector(d, part.start_lba + 2 + k) = Bits(SectorBits(part, k))
  <1>1. d \in DOMAIN geometry /\ part \in Found(d) /\ geometry \in Geometries
    BY DEF BootInv, WholeOK, DisksOK
  <1>2. PICK w : w = partition_format(part)
    OBVIOUS
  <1>3. /\ part \in PartSet /\ part.sector_counter > used_sects /\ root_dir_lba \notin metadata(part)
    BY <1>1, FoundLemma
  <1>4. /\ w \in Seq(Writes(part)) /\ Len(w) \in Nat /\ Len(w) > 0
        /\ w[1] = [lba |-> part.start_lba + 1, is |-> super_block(part)]
        /\ w[Len(w)] = [lba |-> root_dir_lba, is |-> RootDir]
        /\ \A k \in 0 .. block_bitmap_sects(part) - 1 :
                /\ k + 2 \in 1 .. Len(w)
                /\ w[k + 2] = [lba |-> part.start_lba + 2 + k, is |-> Bits(SectorBits(part, k))]
    BY <1>2, <1>3, FormatLemma
  <1>5. \A i \in 1 .. Len(w) : \/ Sector(d, w[i].lba) = w[i].is
                               \/ w[i].is.kind = "root_inode"
    <2>1. FormattedWhole /\ DOMAIN w = 1 .. Len(w)
      BY <1>4 DEF BootInv, WholeOK
    <2> QED BY <1>2, <2>1 DEF FormattedWhole
  <1>6. super_block(part).kind = "super_block" /\ RootDir.kind = "root_dir"
    BY DEF super_block, RootDir
  <1>7. \A set : Bits(set).kind = "bits"
    BY DEF Bits
  <1>8. Sector(d, part.start_lba + 1) = super_block(part)
    <2>1. 1 \in 1 .. Len(w)
      BY <1>4
    <2>2. w[1].lba = part.start_lba + 1 /\ w[1].is = super_block(part)
      BY <1>4
    <2> QED BY <1>5, <1>6, <2>1, <2>2
  <1>9. Sector(d, root_dir_lba) = RootDir
    <2>1. Len(w) \in 1 .. Len(w)
      BY <1>4
    <2>2. w[Len(w)].lba = root_dir_lba /\ w[Len(w)].is = RootDir
      BY <1>4
    <2> QED BY <1>5, <1>6, <2>1, <2>2
  <1>10. ASSUME NEW k \in 0 .. block_bitmap_sects(part) - 1
         PROVE  Sector(d, part.start_lba + 2 + k) = Bits(SectorBits(part, k))
    <2>1. k + 2 \in 1 .. Len(w)
      BY <1>4
    <2>2. PICK i, bits : i = k + 2 /\ bits = Bits(SectorBits(part, k))
      OBVIOUS
    <2>3. w[i] = [lba |-> part.start_lba + 2 + k, is |-> bits] /\ bits.kind = "bits"
      BY <1>4, <1>7, <2>2
    <2>4. w[i].lba = part.start_lba + 2 + k /\ w[i].is = bits
      BY <2>3
    <2>5. Sector(d, w[i].lba) = w[i].is \/ w[i].is.kind = "root_inode"
      BY <1>5, <2>1, <2>2
    <2> QED BY <2>2, <2>3, <2>4, <2>5
  <1> QED BY <1>1, <1>6, <1>8, <1>9, <1>10

-----------------------------------------------------------------------------
(* Formatting.                                                             *)

\* The partition filesys_init is at is one partition_scan recorded, or none.
LEMMA ThisPart ==
  ASSUME BootInv, hd < channel_cnt, part_idx < PRIM_PARTS + LOGIC_PARTS
  PROVE  /\ hd \in DOMAIN geometry /\ geometry \in Geometries
         /\ this_part \in Found(hd) \cup {NoPart}
         /\ hd = 0 /\ part_idx = 0 => this_part = ide.prim_parts[0][0]
  <1>1. /\ geometry \in Geometries /\ hd \in 0 .. channel_cnt
        /\ part_idx \in 0 .. PRIM_PARTS + LOGIC_PARTS
    BY DEF BootInv, DisksOK, BootTypes
  <1>2. /\ hd \in DOMAIN geometry /\ PRIM_PARTS \in Nat \ {0} /\ LOGIC_PARTS \in Nat
    BY <1>1, ChannelLemma, FsBootAssumption
  <1>3. CASE part_idx < PRIM_PARTS
    <2>1. part_idx \in 0 .. PRIM_PARTS - 1 /\ this_part = ide.prim_parts[hd][part_idx]
      BY <1>1, <1>2, <1>3 DEF this_part
    <2> QED BY <1>1, <1>2, <2>1 DEF BootInv, PartsOK
  <1>4. CASE ~(part_idx < PRIM_PARTS)
    <2>1. /\ part_idx - PRIM_PARTS \in 0 .. LOGIC_PARTS - 1
          /\ this_part = ide.logic_parts[hd][part_idx - PRIM_PARTS] /\ part_idx # 0
      BY <1>1, <1>2, <1>4 DEF this_part
    <2> QED BY <1>1, <1>2, <2>1 DEF BootInv, PartsOK
  <1> QED BY <1>3, <1>4

\* The loops of filesys_init.
LEMMA FilesysStep ==
  ASSUME BootInv, filesys_init
  PROVE  BootInv'
  <1>1. /\ pc = "filesys_init"
        /\ UNCHANGED << geometry, sectors, ide, curr_part, cuts, whole >>
    BY DEF filesys_init
  <1>2. /\ DisksOK' /\ WholeOK' /\ \A d, lba : Sector(d, lba)' = Sector(d, lba)
        /\ \A d : Found(d)' = Found(d)
        /\ channel_cnt' = channel_cnt /\ IdeSet' = IdeSet
    BY <1>1, SectorsFrame
  <1>3. /\ channel_cnt \in Nat /\ DOMAIN geometry = 0 .. channel_cnt - 1 /\ geometry \in Geometries
        /\ hd \in 0 .. channel_cnt /\ part_idx \in 0 .. PRIM_PARTS + LOGIC_PARTS
        /\ ide \in IdeSet /\ cuts \in Nat /\ DisksOK
        /\ PRIM_PARTS \in Nat \ {0} /\ LOGIC_PARTS \in Nat \ {0}
    BY ChannelLemma, FsBootAssumption DEF BootInv, DisksOK, BootTypes
  <1>4. curr_part = NoMount
    BY <1>1 DEF BootInv, MountOK
  <1>5. PICK slot : slot = ide.prim_parts[0][0]
    OBVIOUS
  <1>6. 0 \in DOMAIN geometry => slot \in Found(0) \cup {NoPart}
    BY <1>3, <1>5 DEF BootInv, PartsOK
  <1>7. ASSUME pc' \in {"filesys_init", "format", "mount"}
        PROVE  StackOK' /\ CallsOK' /\ PartsOK' /\ MountOK'
    BY <1>1, <1>2, <1>4, <1>7 DEF BootInv, StackOK, CallsOK, PartsOK, MountOK, MountSound
  <1>8. ASSUME Passed, Passed' PROVE PassedOK'
    BY <1>1, <1>2, <1>8 DEF BootInv, PassedOK
  <1>9. CASE hd < channel_cnt /\ part_idx < PRIM_PARTS + LOGIC_PARTS
    <2>1. /\ hd \in DOMAIN geometry /\ this_part \in Found(hd) \cup {NoPart}
          /\ hd = 0 /\ part_idx = 0 => this_part = slot
      BY <1>5, <1>9, ThisPart
    <2>2. CASE has_filesystem(this_part) /\ part_idx' = part_idx + 1 /\ UNCHANGED << hd, todo, pc >>
      <3>1. BootTypes'
        BY <1>1, <1>2, <1>3, <1>9, <2>2 DEF BootInv, BootTypes
      <3>2. FormatOK' /\ StackOK' /\ CallsOK' /\ PartsOK' /\ MountOK'
        BY <1>1, <1>7, <2>2 DEF FormatOK
      <3>3. Passed'
        BY <1>1, <1>3, <2>2 DEF Passed
      <3>4. PassedOK'
        <4>1. CASE Passed
          BY <1>8, <3>3, <4>1
        <4>2. CASE ~Passed
          <5>1. hd = 0 /\ part_idx = 0 /\ this_part = slot /\ 0 \in DOMAIN geometry
            BY <1>1, <1>3, <2>1, <4>2 DEF Passed
          <5>2. ASSUME slot # NoPart
                PROVE  Sector(0, slot.start_lba + 1) = super_block(slot) /\ cuts # 0
            <6>1. slot \in Found(0)
              BY <1>6, <5>1, <5>2
            <6>2. slot.sector_counter # 0
              BY <1>3, <5>1, <6>1, FoundLemma
            <6>3. Sector(0, slot.start_lba + 1).kind = "super_block"
              BY <2>2, <5>1, <6>2 DEF has_filesystem
            <6>4. Sector(0, slot.start_lba + 1) = super_block(slot)
              BY <1>3, <5>1, <6>1, <6>3, SuperLemma
            <6>5. cuts # 0
              BY <1>1, <4>2, <5>1, <6>3 DEF BootInv, PassedOK, Sector, Zero
            <6> QED BY <6>4, <6>5
          <5> QED BY <1>1, <1>2, <1>5, <3>3, <5>2 DEF PassedOK
        <4> QED BY <4>1, <4>2
      <3> QED BY <1>2, <3>1, <3>2, <3>4 DEF BootInv
    <2>3. CASE /\ ~has_filesystem(this_part) /\ todo' = partition_format(this_part)
               /\ pc' = "format" /\ UNCHANGED << part_idx, hd >>
      <3>1. PICK q, w : q = this_part /\ w = partition_format(q)
        OBVIOUS
      <3>2. q \in Found(hd)
        <4>1. NoPart.sector_counter = 0
          BY DEF NoPart
        <4> QED BY <2>1, <2>3, <3>1, <4>1 DEF has_filesystem
      <3>3. /\ q \in PartSet /\ q.sector_counter > used_sects /\ root_dir_lba \notin metadata(q)
            /\ Extent(q).start_lba = q.start_lba
        BY <1>3, <2>1, <3>2, FoundLemma
      <3>4. w \in Seq(Writes(q)) /\ Len(w) \in Nat /\ Len(w) > 0
        BY <3>1, <3>3, FormatLemma
      <3>5. this_part' = q /\ todo' = w
        BY <1>1, <2>3, <3>1 DEF this_part
      <3>6. ASSUME NEW part \in whole, part.name[1] = hd, Extent(part) = Extent(q) PROVE FALSE
        <4>1. /\ part \in Found(hd) /\ Sector(hd, part.start_lba + 1).kind = "super_block"
          BY <3>6, WholeLemma
        <4>2. part.start_lba = q.start_lba
          BY <1>3, <2>1, <3>3, <3>6, <4>1, FoundLemma
        <4> QED BY <2>3, <3>1, <4>1, <4>2 DEF has_filesystem
      <3>7. FormatOK'
        <4>1. 0 \in 0 .. Len(w) - 1
          BY <3>4
        <4>2. /\ w \in Seq(Writes(q)) /\ Len(w) = Len(w) - 0
              /\ \A i \in 1 .. Len(w) : w[i] = w[0 + i]
              /\ \A i \in 1 .. 0 : Sector(hd, w[i].lba)' = w[i].is
          BY <3>4
        <4>3. q \in Found(hd)' /\ partition_format(this_part') = w /\ hd' = hd /\ whole' = whole
          BY <1>1, <1>2, <2>3, <3>1, <3>2, <3>5
        <4>4. \E k \in 0 .. Len(w) - 1 :
                /\ todo' \in Seq(Writes(q)) /\ Len(todo') = Len(w) - k
                /\ \A i \in 1 .. Len(todo') : todo'[i] = w[k + i]
                /\ \A i \in 1 .. k : Sector(hd, w[i].lba)' = w[i].is
          BY <2>3, <3>5, <4>1, <4>2
        <4> QED BY <3>5, <3>6, <4>3, <4>4 DEF FormatOK
      <3>8. BootTypes'
        BY <1>1, <1>2, <1>3, <1>9, <2>3 DEF BootInv, BootTypes
      <3>9. StackOK' /\ CallsOK' /\ PartsOK' /\ MountOK'
        BY <1>7, <2>3
      <3>10. PassedOK'
        <4>1. Passed' <=> Passed
          BY <1>1, <2>3 DEF Passed
        <4>2. CASE Passed
          BY <1>8, <4>1, <4>2
        <4>3. CASE ~Passed
          BY <2>3, <4>1, <4>3 DEF PassedOK
        <4> QED BY <4>2, <4>3
      <3> QED BY <1>2, <3>7, <3>8, <3>9, <3>10 DEF BootInv
    <2> QED BY <1>3, <1>9, <2>2, <2>3 DEF filesys_init
  <1>10. CASE /\ hd < channel_cnt /\ part_idx = PRIM_PARTS + LOGIC_PARTS
              /\ hd' = hd + 1 /\ part_idx' = 0 /\ UNCHANGED << todo, pc >>
    <2>1. hd' \in 0 .. channel_cnt /\ hd' > 0 /\ part_idx > 0
      BY <1>3, <1>10
    <2>2. BootTypes'
      BY <1>1, <1>2, <1>3, <1>10, <2>1 DEF BootInv, BootTypes
    <2>3. FormatOK' /\ StackOK' /\ CallsOK' /\ PartsOK' /\ MountOK'
      BY <1>1, <1>7, <1>10 DEF FormatOK
    <2>4. PassedOK'
      BY <1>1, <1>8, <1>10, <2>1 DEF Passed
    <2> QED BY <1>2, <2>2, <2>3, <2>4 DEF BootInv
  <1>11. CASE hd = channel_cnt /\ pc' = "mount" /\ UNCHANGED << hd, part_idx, todo >>
    <2>1. BootTypes'
      BY <1>1, <1>2, <1>3, <1>11 DEF BootInv, BootTypes
    <2>2. FormatOK' /\ StackOK' /\ CallsOK' /\ PartsOK' /\ MountOK'
      BY <1>7, <1>11 DEF FormatOK
    <2>3. Passed'
      BY <1>11 DEF Passed
    <2>4. PassedOK'
      <3>1. CASE Passed
        BY <1>8, <2>3, <3>1
      <3>2. CASE ~Passed
        <4>1. 0 \notin DOMAIN geometry
          BY <1>1, <1>3, <1>11, <3>2 DEF Passed
        <4> QED BY <1>1, <2>3, <4>1 DEF PassedOK
      <3> QED BY <3>1, <3>2
    <2> QED BY <1>2, <2>1, <2>2, <2>4 DEF BootInv
  <1> QED BY <1>9, <1>10, <1>11 DEF filesys_init

\* What a write of partition_format changes on the disks: it is at sector k + 1 of the
\* sequence w it writes to partition q, which is sector x of the disk.
Writing(q, w, k, x) ==
  /\ q = this_part /\ w = partition_format(q) /\ x = Head(todo).lba
  /\ hd \in DOMAIN geometry /\ geometry \in Geometries /\ q \in Found(hd)
  /\ w \in Seq(Writes(q)) /\ Len(w) \in Nat
  /\ k \in 0 .. Len(w) - 1 /\ Len(todo) = Len(w) - k
  /\ todo \in Seq(Writes(q))
  /\ \A i \in 1 .. Len(todo) : todo[i] = w[k + i]
  /\ \A i \in 1 .. k : Sector(hd, w[i].lba) = w[i].is
  /\ w[k + 1] = Head(todo)
  /\ x \in Written(q) /\ Head(todo).is = Content(q, x)
  /\ DOMAIN sectors' = DOMAIN sectors
  /\ \A d \in DOMAIN geometry : d # hd => sectors'[d] = sectors[d]
  /\ DOMAIN sectors'[hd] = DOMAIN sectors[hd] \cup {x}
  /\ \A d \in DOMAIN geometry : \A lba :
        Sector(d, lba)' = IF d = hd /\ lba = x THEN Content(q, x) ELSE Sector(d, lba)

\* A format_write is such a write.
LEMMA FormatWrite ==
  ASSUME BootInv, format_write
  PROVE  \E q, w, k, x : Writing(q, w, k, x)
  <1>1. /\ pc = "format"
        /\ sectors' = [sectors EXCEPT ![hd] =
                          [lba \in DOMAIN sectors[hd] \cup {Head(todo).lba} |->
                              IF lba = Head(todo).lba THEN Head(todo).is ELSE sectors[hd][lba]]]
    BY DEF format_write
  <1>2. hd < channel_cnt /\ part_idx < PRIM_PARTS + LOGIC_PARTS
    BY <1>1 DEF BootInv, BootTypes
  <1>3. hd \in DOMAIN geometry /\ geometry \in Geometries
    BY <1>2, ThisPart
  <1>4. PICK q, w, t : q = this_part /\ w = partition_format(q) /\ t = Head(todo)
    OBVIOUS
  <1>5. q \in Found(hd)
    BY <1>1, <1>4 DEF BootInv, FormatOK
  <1>6. PICK k \in 0 .. Len(w) - 1 :
            /\ todo \in Seq(Writes(q)) /\ Len(todo) = Len(w) - k
            /\ \A i \in 1 .. Len(todo) : todo[i] = w[k + i]
            /\ \A i \in 1 .. k : Sector(hd, w[i].lba) = w[i].is
    BY <1>1, <1>4 DEF BootInv, FormatOK
  <1>7. /\ q \in PartSet /\ q.sector_counter > used_sects /\ root_dir_lba \notin metadata(q)
    BY <1>3, <1>5, FoundLemma
  <1>8. w \in Seq(Writes(q)) /\ Len(w) \in Nat
    BY <1>4, <1>7, FormatLemma
  <1>9. Len(todo) > 0 /\ 1 \in 1 .. Len(todo) /\ k + 1 \in 1 .. Len(w) /\ todo # << >>
    BY <1>6, <1>8
  <1>10. t = todo[1] /\ t = w[k + 1] /\ t \in Writes(q)
    <2>1. t = todo[1] /\ todo[1] \in Writes(q)
      BY <1>4, <1>6, <1>9
    <2> QED BY <1>6, <1>9, <2>1
  <1>11. PICK x \in Written(q) : t = [lba |-> x, is |-> Content(q, x)]
    BY <1>10 DEF Writes
  <1>12. t.lba = x /\ t.is = Content(q, x)
    BY <1>11
  <1>13. PICK f : f = [lba \in DOMAIN sectors[hd] \cup {x} |->
                          IF lba = x THEN Content(q, x) ELSE sectors[hd][lba]]
    OBVIOUS
  <1>14. sectors' = [sectors EXCEPT ![hd] = f]
    BY <1>1, <1>4, <1>12, <1>13
  <1>15. DOMAIN sectors = DOMAIN geometry
    BY DEF BootInv, DisksOK
  <1>16. /\ DOMAIN sectors' = DOMAIN sectors /\ sectors'[hd] = f
         /\ \A d \in DOMAIN geometry : d # hd => sectors'[d] = sectors[d]
    BY <1>3, <1>14, <1>15
  <1>17. /\ DOMAIN f = DOMAIN sectors[hd] \cup {x}
         /\ \A lba \in DOMAIN f : f[lba] = IF lba = x THEN Content(q, x) ELSE sectors[hd][lba]
    BY <1>13
  <1>18. ASSUME NEW d \in DOMAIN geometry, NEW lba
         PROVE  Sector(d, lba)' = IF d = hd /\ lba = x THEN Content(q, x) ELSE Sector(d, lba)
    <2>1. CASE d = hd
      BY <1>16, <1>17, <2>1 DEF Sector
    <2>2. CASE d # hd
      BY <1>16, <2>2 DEF Sector
    <2> QED BY <2>1, <2>2
  <1>19. DOMAIN sectors'[hd] = DOMAIN sectors[hd] \cup {x}
    BY <1>16, <1>17
  <1>20. \A d \in DOMAIN geometry : \A lba :
            Sector(d, lba)' = IF d = hd /\ lba = x THEN Content(q, x) ELSE Sector(d, lba)
    BY <1>18
  <1>21. /\ x = Head(todo).lba /\ Head(todo).is = Content(q, x) /\ w[k + 1] = Head(todo)
    BY <1>4, <1>10, <1>12
  <1>22. Writing(q, w, k, x)
    BY <1>3, <1>4, <1>5, <1>6, <1>8, <1>11, <1>16, <1>19, <1>20, <1>21 DEF Writing
  <1> QED BY <1>22

\* One more sector is written.
LEMMA FormatStep ==
  ASSUME BootInv, format_write
  PROVE  BootInv'
  <1>1. /\ pc = "format" /\ todo' = Tail(todo)
        /\ UNCHANGED << geometry, ide, curr_part, hd, cuts >>
    BY DEF format_write
  <1>2. PICK q, w, k, x : Writing(q, w, k, x)
    BY FormatWrite
  <1> USE DEF Writing
  <1>3. /\ channel_cnt' = channel_cnt /\ IdeSet' = IdeSet /\ \A d : Found(d)' = Found(d)
    BY <1>1 DEF channel_cnt, IdeSet, Found
  <1>4. /\ channel_cnt \in Nat /\ DOMAIN geometry = 0 .. channel_cnt - 1
        /\ hd \in 0 .. channel_cnt /\ hd < channel_cnt
        /\ part_idx \in 0 .. PRIM_PARTS + LOGIC_PARTS /\ part_idx < PRIM_PARTS + LOGIC_PARTS
        /\ ide \in IdeSet /\ cuts \in Nat /\ DisksOK /\ curr_part = NoMount
        /\ PRIM_PARTS \in Nat \ {0} /\ LOGIC_PARTS \in Nat \ {0}
    BY <1>1, <1>2, ChannelLemma, FsBootAssumption DEF BootInv, DisksOK, BootTypes, MountOK
  <1>5. \A i \in 1 .. Len(w) : w[i].lba \in Written(q) /\ w[i].is = Content(q, w[i].lba)
    <2>1. ASSUME NEW i \in 1 .. Len(w)
          PROVE  w[i].lba \in Written(q) /\ w[i].is = Content(q, w[i].lba)
      <3>1. w[i] \in Writes(q)
        BY <1>2, ElementOfSeq
      <3>2. PICK y \in Written(q) : w[i] = [lba |-> y, is |-> Content(q, y)]
        BY <3>1 DEF Writes
      <3> QED BY <3>2
    <2> QED BY <2>1
  <1>6. DisksOK'
    <2>1. ASSUME NEW d \in DOMAIN geometry, NEW lba \in DOMAIN sectors'[d]
          PROVE  SectorOK(d, lba, sectors'[d][lba])
      <3>1. sectors'[d][lba] = Sector(d, lba)'
        BY <2>1 DEF Sector
      <3>2. CASE d = hd /\ lba = x
        <4>1. sectors'[d][lba] = Content(q, x)
          BY <1>2, <3>1, <3>2
        <4> QED BY <1>2, <3>2, <4>1, ContentLemma
      <3>3. CASE ~(d = hd /\ lba = x)
        <4>1. sectors'[d][lba] = Sector(d, lba) /\ lba \in DOMAIN sectors[d]
          BY <1>2, <2>1, <3>1, <3>3
        <4>2. sectors'[d][lba] = sectors[d][lba]
          BY <4>1 DEF Sector
        <4> QED BY <1>4, <4>1, <4>2 DEF DisksOK
      <3> QED BY <3>2, <3>3
    <2>2. \A d, lba, s : SectorOK(d, lba, s)' <=> SectorOK(d, lba, s)
      BY <1>1 DEF SectorOK
    <2>3. geometry' = geometry /\ DOMAIN sectors' = DOMAIN geometry
      BY <1>1, <1>2, <1>4 DEF DisksOK
    <2> QED BY <1>2, <2>1, <2>2, <2>3 DEF DisksOK, SectorOK
  <1>7. ASSUME NEW part, part \in whole, NEW d, d = part.name[1],
               NEW y, y \in Written(part), d = hd, y = x
        PROVE  y = root_dir_lba /\ Sector(d, y) = Content(q, x)
    <2>1. part \in Found(hd) /\ Sector(d, root_dir_lba) = RootDir
      BY <1>7, WholeLemma
    <2>2. Extent(part) # Extent(q)
      BY <1>1, <1>2, <1>7 DEF BootInv, FormatOK
    <2>3. x = root_dir_lba
      BY <1>2, <1>7, <2>1, <2>2, WrittenApart
    <2> QED BY <1>2, <1>7, <2>1, <2>3, ContentLemma
  <1>8. ASSUME NEW part, part \in whole, NEW d, d = part.name[1], NEW y, y \in Written(part)
        PROVE  Sector(d, y)' = Sector(d, y)
    <2>1. d \in DOMAIN geometry
      BY <1>8, WholeLemma
    <2> QED BY <1>2, <1>7, <1>8, <2>1
  <1>9. ASSUME NEW part \in whole, NEW d, d = part.name[1], NEW v, v = partition_format(part),
               NEW i \in DOMAIN v
        PROVE  \/ Sector(d, v[i].lba)' = v[i].is
               \/ Sector(d, v[i].lba)'.kind = "root_inode" /\ v[i].is.kind = "root_inode"
    <2>1. d \in DOMAIN geometry /\ part \in Found(d)
      BY <1>9, WholeLemma
    <2>2. /\ part \in PartSet /\ part.sector_counter > used_sects /\ root_dir_lba \notin metadata(part)
      BY <1>2, <2>1, FoundLemma
    <2>3. v \in Seq(Writes(part))
      BY <1>9, <2>2, FormatLemma
    <2>4. v[i] \in Writes(part)
      BY <2>3, ElementOfSeq
    <2>5. v[i].lba \in Written(part)
      BY <2>4 DEF Writes
    <2>6. Sector(d, v[i].lba)' = Sector(d, v[i].lba)
      BY <1>8, <1>9, <2>5
    <2>7. \/ Sector(d, v[i].lba) = v[i].is
          \/ Sector(d, v[i].lba).kind = "root_inode" /\ v[i].is.kind = "root_inode"
      BY <1>9 DEF BootInv, WholeOK, FormattedWhole
    <2> QED BY <2>6, <2>7
  <1>10. ASSUME NEW i \in 1 .. k + 1 PROVE Sector(hd, w[i].lba)' = w[i].is
    <2>1. i \in 1 .. Len(w)
      BY <1>2
    <2>2. CASE w[i].lba = x
      <3>1. w[i].is = Content(q, x)
        BY <1>5, <2>1, <2>2
      <3>2. Sector(hd, x)' = Content(q, x)
        BY <1>1, <1>2
      <3> QED BY <2>2, <3>1, <3>2
    <2>3. CASE w[i].lba # x
      <3>1. i # k + 1
        BY <1>2, <2>3
      <3>2. i \in 1 .. k
        BY <1>2, <3>1
      <3>3. Sector(hd, w[i].lba)' = Sector(hd, w[i].lba)
        BY <1>1, <1>2, <2>3
      <3> QED BY <1>2, <3>2, <3>3
    <2> QED BY <2>2, <2>3
  <1>11. 0 \in DOMAIN geometry /\ ide.prim_parts[0][0] # NoPart /\ Passed =>
            Sector(0, ide.prim_parts[0][0].start_lba + 1)' = super_block(ide.prim_parts[0][0])
    <2>1. SUFFICES ASSUME 0 \in DOMAIN geometry, ide.prim_parts[0][0] # NoPart, Passed
                   PROVE  Sector(0, ide.prim_parts[0][0].start_lba + 1)'
                              = super_block(ide.prim_parts[0][0])
      OBVIOUS
    <2>2. PICK slot, y : slot = ide.prim_parts[0][0] /\ y = slot.start_lba + 1
      OBVIOUS
    <2>3. slot \in Found(0) /\ Sector(0, y) = super_block(slot)
      <3>1. 0 \in 0 .. PRIM_PARTS - 1
        BY <1>4
      <3> QED BY <2>1, <2>2, <3>1 DEF BootInv, PartsOK, PassedOK
    <2>4. ASSUME hd = 0, y = x PROVE Content(q, x) = super_block(slot)
      <3>1. /\ slot.start_lba \in Nat /\ block_bitmap_sects(slot) \in Nat
            /\ used_sects \in Nat /\ used_sects >= 2
            /\ super_block(Extent(slot)) = super_block(slot)
            /\ Extent(slot).start_lba = slot.start_lba
        BY <1>2, <2>1, <2>3, FoundLemma
      <3>2. y \in Written(slot) /\ y # root_dir_lba
        <4>1. y \in slot.start_lba + 1 .. slot.start_lba + used_sects + block_bitmap_sects(slot) - 1
          BY <2>2, <3>1
        <4> QED BY <1>2, <2>1, <2>2, <2>3, <4>1, ContentLemma DEF Written
      <3>3. Extent(q) = Extent(slot)
        BY <1>2, <2>1, <2>3, <2>4, <3>2, WrittenApart
      <3>4. /\ super_block(Extent(q)) = super_block(q) /\ Extent(q).start_lba = q.start_lba
        BY <1>2, FoundLemma
      <3>5. x = q.start_lba + 1
        BY <2>2, <2>4, <3>1, <3>3, <3>4
      <3>6. Content(q, x) = super_block(q)
        BY <1>2, <3>5, ContentLemma
      <3> QED BY <3>1, <3>3, <3>4, <3>6
    <2>5. Sector(0, y)' = super_block(slot)
      BY <1>2, <2>1, <2>3, <2>4
    <2>6. ide' = ide
      BY <1>1
    <2> QED BY <2>2, <2>5, <2>6
  <1>12. this_part' = q \/ part_idx' # part_idx
    BY <1>1, <1>2 DEF this_part
  <1>13. StackOK' /\ CallsOK' /\ MountOK'
    <2>1. pc' \in {"format", "filesys_init"}
      BY <1>1 DEF format_write
    <2> QED BY <1>1, <1>4, <2>1 DEF StackOK, CallsOK, MountOK, MountSound
  <1>14. PartsOK'
    <2>1. pc' \in {"format", "filesys_init"}
      BY <1>1 DEF format_write
    <2> QED BY <1>1, <1>3, <2>1 DEF BootInv, PartsOK
  <1>15. CASE Tail(todo) # << >>
    <2>1. UNCHANGED << pc, part_idx, whole >>
      BY <1>15 DEF format_write
    <2>2. BootTypes'
      BY <1>1, <1>3, <2>1 DEF BootInv, BootTypes
    <2>3. WholeOK'
      BY <1>1, <1>3, <1>9, <2>1 DEF BootInv, WholeOK, FormattedWhole
    <2>4. /\ Len(todo) \in Nat /\ Len(todo) > 1
          /\ todo' \in Seq(Writes(q)) /\ Len(todo') = Len(todo) - 1
          /\ \A i \in 1 .. Len(todo') : todo'[i] = todo[i + 1]
      BY <1>1, <1>2, <1>15
    <2>5. k + 1 \in 0 .. Len(w) - 1 /\ Len(todo') = Len(w) - (k + 1)
      BY <1>2, <2>4
    <2>6. ASSUME NEW i \in 1 .. Len(todo') PROVE todo'[i] = w[(k + 1) + i]
      <3>1. i + 1 \in 1 .. Len(todo) /\ k + (i + 1) = (k + 1) + i
        BY <1>2, <2>4
      <3> QED BY <1>2, <2>4, <3>1
    <2>7. FormatOK'
      <3>1. this_part' = q /\ q \in Found(hd)' /\ hd' = hd /\ whole' = whole
        BY <1>1, <1>2, <1>3, <1>12, <2>1
      <3>2. \A part \in whole : part.name[1] = hd => Extent(part) # Extent(q)
        BY <1>1, <1>2 DEF BootInv, FormatOK
      <3>3. \E j \in 0 .. Len(w) - 1 :
              /\ todo' \in Seq(Writes(q)) /\ Len(todo') = Len(w) - j
              /\ \A i \in 1 .. Len(todo') : todo'[i] = w[j + i]
              /\ \A i \in 1 .. j : Sector(hd, w[i].lba)' = w[i].is
        BY <1>1, <1>10, <2>4, <2>5, <2>6
      <3>4. partition_format(this_part') = w
        BY <1>2, <3>1
      <3> QED BY <3>1, <3>2, <3>3, <3>4 DEF FormatOK
    <2>8. PassedOK'
      <3>1. Passed' <=> Passed
        BY <1>1, <2>1 DEF Passed
      <3>2. ~(pc' # "format")
        BY <1>1, <2>1
      <3>3. Passed /\ 0 \in DOMAIN geometry /\ ide.prim_parts[0][0] # NoPart /\ cuts = 0
              => ide.prim_parts[0][0] \in whole
        BY DEF BootInv, PassedOK
      <3> QED BY <1>1, <1>11, <2>1, <3>1, <3>2, <3>3 DEF PassedOK
    <2> QED BY <1>6, <1>13, <1>14, <2>2, <2>3, <2>7, <2>8 DEF BootInv
  <1>16. CASE Tail(todo) = << >>
    <2>1. /\ pc' = "filesys_init" /\ part_idx' = part_idx + 1 /\ whole' = whole \cup {q}
      BY <1>2, <1>16 DEF format_write
    <2>2. BootTypes'
      BY <1>1, <1>3, <1>4, <2>1 DEF BootInv, BootTypes
    <2>3. Len(todo) = 1 /\ k + 1 = Len(w)
      <3>1. Len(todo) \in Nat /\ Len(todo) > 0 /\ Len(Tail(todo)) = Len(todo) - 1
        BY <1>2
      <3>2. Len(Tail(todo)) = 0
        BY <1>16
      <3> QED BY <1>2, <3>1, <3>2
    <2>4. q.name[1] = hd
      BY <1>2, FoundLemma
    <2>5. ASSUME NEW i \in DOMAIN w PROVE Sector(hd, w[i].lba)' = w[i].is
      <3>1. i \in 1 .. k + 1
        BY <1>2, <2>3
      <3> QED BY <1>10, <3>1
    <2>6. FormattedWhole'
      <3>1. ASSUME NEW part \in whole', NEW i \in DOMAIN partition_format(part)
            PROVE  \/ Sector(part.name[1], partition_format(part)[i].lba)'
                            = partition_format(part)[i].is
                   \/ /\ Sector(part.name[1], partition_format(part)[i].lba)'.kind = "root_inode"
                      /\ partition_format(part)[i].is.kind = "root_inode"
        <4>1. CASE part \in whole
          BY <1>9, <4>1
        <4>2. CASE part = q
          BY <1>1, <1>2, <2>4, <2>5, <4>2
        <4> QED BY <2>1, <4>1, <4>2
      <3> QED BY <3>1 DEF FormattedWhole
    <2>7. WholeOK'
      <3>1. \A part \in whole' : part.name[1] \in DOMAIN geometry /\ part \in Found(part.name[1])
        BY <1>2, <2>1, <2>4 DEF BootInv, WholeOK
      <3> QED BY <1>1, <1>3, <2>6, <3>1 DEF WholeOK
    <2>8. FormatOK'
      BY <2>1 DEF FormatOK
    <2>9. PassedOK'
      <3>1. Passed'
        BY <1>1, <1>4, <2>1 DEF Passed
      <3>2. CASE Passed
        <4>1. Passed /\ 0 \in DOMAIN geometry /\ ide.prim_parts[0][0] # NoPart /\ cuts = 0
              => ide.prim_parts[0][0] \in whole
          BY DEF BootInv, PassedOK
        <4> QED BY <1>1, <1>11, <2>1, <3>1, <3>2, <4>1 DEF PassedOK
      <3>3. CASE ~Passed
        <4>1. hd = 0 /\ part_idx = 0
          BY <1>1, <1>4, <3>3 DEF Passed
        <4>2. q = ide.prim_parts[0][0]
          BY <1>2, <1>4, <4>1, ThisPart
        <4>3. q \in whole'
          BY <2>1
        <4>4. Sector(0, q.start_lba + 1)' = super_block(q)
          <5>1. /\ q \in PartSet /\ q.sector_counter > used_sects
                /\ root_dir_lba \notin metadata(q)
            BY <1>2, FoundLemma
          <5>2. 1 \in DOMAIN w /\ w[1] = [lba |-> q.start_lba + 1, is |-> super_block(q)]
            BY <1>2, <5>1, FormatLemma
          <5>3. w[1].lba = q.start_lba + 1 /\ w[1].is = super_block(q)
            BY <5>2
          <5> QED BY <1>1, <2>5, <4>1, <5>2, <5>3
        <4> QED BY <1>1, <3>1, <4>2, <4>3, <4>4 DEF PassedOK
      <3> QED BY <3>2, <3>3
    <2> QED BY <1>6, <1>13, <1>14, <2>2, <2>7, <2>8, <2>9 DEF BootInv
  <1> QED BY <1>15, <1>16

-----------------------------------------------------------------------------
(* Mounting, and the machine in use.                                       *)

\* What is read of the block bitmap of a partition that was formatted to the end.
LEMMA BitmapRead ==
  ASSUME BootInv, LargePartitions, NEW part, part \in whole, NEW d, d = part.name[1],
         NEW i \in Nat, i < BITS_PER_SECTOR * block_bitmap_sects(part),
         block_bitmap_bit_len(part) <= i
  PROVE  i \in read_bits(d, part.start_lba + 2, block_bitmap_sects(part))
  <1>1. d \in DOMAIN geometry /\ part \in Found(d) /\ geometry \in Geometries
    BY WholeLemma DEF BootInv, DisksOK
  <1>2. /\ part \in PartSet /\ part.start_lba \in Nat /\ part.sector_counter > used_sects
        /\ Extent(part) \in Areas(geometry[d]) /\ Extent(part) \in Partition
        /\ Extent(part).sector_counter = part.sector_counter
        /\ block_bitmap_sects(part) \in Nat
    BY <1>1, FoundLemma
  <1>3. /\ block_bitmap_bit_len(Extent(part)) = block_bitmap_bit_len(part)
        /\ block_bitmap_sects(Extent(part)) = block_bitmap_sects(part)
    BY <1>2, ExtentLemma
  <1>4. block_bitmap_bit_len(part) >= 64
    BY <1>1, <1>2, <1>3 DEF LargePartitions
  <1>5. block_bitmap_bit(part, i)
    <2>1. block_bitmap_bit(Extent(part), i)
      BY <1>2, <1>3, <1>4, TailUsed
    <2> QED BY <1>3, <2>1 DEF block_bitmap_bit
  <1>6. BITS_PER_SECTOR \in Nat \ {0}
    BY Sizes
  <1>7. PICK k, r : k = i \div BITS_PER_SECTOR /\ r = i % BITS_PER_SECTOR
    OBVIOUS
  <1>8. k \in Nat /\ r \in 0 .. BITS_PER_SECTOR - 1 /\ i = BITS_PER_SECTOR * k + r
    BY <1>6, <1>7, DivMod
  <1>9. k \in 0 .. block_bitmap_sects(part) - 1
    <2>1. ASSUME k >= block_bitmap_sects(part) PROVE FALSE
      <3>1. BITS_PER_SECTOR * k >= BITS_PER_SECTOR * block_bitmap_sects(part)
        BY <1>2, <1>6, <1>8, <2>1
      <3>2. BITS_PER_SECTOR * k \in Nat /\ BITS_PER_SECTOR * block_bitmap_sects(part) \in Nat
        BY <1>2, <1>6, <1>8
      <3> QED BY <1>8, <3>1, <3>2
    <2> QED BY <1>2, <1>8, <2>1
  <1>10. Sector(d, part.start_lba + 2 + k) = Bits(SectorBits(part, k))
    BY <1>9, WholeLemma
  <1>11. r \in SectorBits(part, k)
    <2>1. k * BITS_PER_SECTOR + r = i
      BY <1>6, <1>8
    <2> QED BY <1>5, <1>8, <2>1 DEF SectorBits
  <1>12. PICK s : s = Sector(d, part.start_lba + 2 + k)
    OBVIOUS
  <1>13. s.kind = "bits" /\ r \in s.set
    BY <1>10, <1>11, <1>12 DEF Bits
  <1>14. i \in 0 .. block_bitmap_sects(part) * BITS_PER_SECTOR - 1
    BY <1>2, <1>6
  <1> QED BY <1>7, <1>12, <1>13, <1>14 DEF read_bits

\* mount_partition takes the partition in the first place of sdb, which filesys_init has
\* passed.
LEMMA MountStep ==
  ASSUME BootInv, mount_partition
  PROVE  BootInv'
  <1>1. /\ pc = "mount" /\ pc' = "up"
        /\ UNCHANGED << geometry, sectors, ide, hd, part_idx, todo, cuts, whole >>
    BY DEF mount_partition
  <1>2. /\ DisksOK' /\ WholeOK' /\ \A d, lba : Sector(d, lba)' = Sector(d, lba)
        /\ \A d : Found(d)' = Found(d)
        /\ channel_cnt' = channel_cnt /\ IdeSet' = IdeSet
    BY <1>1, SectorsFrame
  <1>3. BootTypes'
    BY <1>1, <1>2 DEF BootInv, BootTypes
  <1>4. StackOK' /\ CallsOK' /\ FormatOK'
    BY <1>1 DEF StackOK, CallsOK, FormatOK
  <1>5. PartsOK'
    BY <1>1, <1>2 DEF BootInv, PartsOK
  <1>6. PassedOK'
    <2>1. Passed /\ Passed'
      BY <1>1 DEF Passed
    <2> QED BY <1>1, <1>2, <2>1 DEF BootInv, PassedOK
  <1>7. PICK hits, part, sb :
            /\ hits = {i \in 1 .. Len(ide.partition_list) : ide.partition_list[i].name = << 0, 1 >>}
            /\ part = ide.partition_list[CHOOSE i \in hits : \A j \in hits : i <= j]
            /\ sb = Sector(0, part.start_lba + 1)
    OBVIOUS
  <1>8. CASE hits = {}
    <2>1. curr_part' = NoMount
      BY <1>7, <1>8 DEF mount_partition
    <2> QED BY <1>2, <1>3, <1>4, <1>5, <1>6, <2>1 DEF BootInv, MountOK, MountSound
  <1>9. CASE hits # {}
    <2>1. PICK n \in hits : part = ide.partition_list[n]
      <3>1. hits \subseteq 1 .. Len(ide.partition_list)
        BY <1>7
      <3>2. hits \subseteq Int /\ \A i \in hits : 1 <= i
        BY <3>1
      <3>3. \E i \in hits : \A j \in hits : i <= j
        <4>1. 1 \in Int
          OBVIOUS
        <4> QED BY ONLY <1>9, <3>2, <4>1, LeastInt
      <3>4. (CHOOSE i \in hits : \A j \in hits : i <= j) \in hits
        BY <3>3
      <3> QED BY <1>7, <3>4
    <2>2. /\ part.name = << 0, 1 >> /\ 0 \in DOMAIN geometry /\ part = ide.prim_parts[0][0]
      BY <1>7, <2>1 DEF BootInv, PartsOK
    <2>3. part \in Found(0) /\ part # NoPart /\ part.name[1] = 0 /\ geometry \in Geometries
      <3>1. 0 \in 0 .. PRIM_PARTS - 1
        BY FsBootAssumption
      <3>2. part \in Found(0) \cup {NoPart}
        BY <2>2, <3>1 DEF BootInv, PartsOK
      <3>3. NoPart.name # << 0, 1 >>
        BY DEF NoPart
      <3> QED BY <2>2, <3>2, <3>3 DEF BootInv, DisksOK
    <2>4. sb = super_block(part) /\ (cuts = 0 => part \in whole)
      BY <1>1, <1>7, <2>2, <2>3 DEF BootInv, PassedOK, Passed
    <2>5. /\ sb.block_bitmap_lba = part.start_lba + 2
          /\ sb.block_bitmap_sects = block_bitmap_sects(part)
      BY <2>4 DEF super_block
    <2>6. PICK inode_bits :
            curr_part' = [part |-> part, sb |-> sb,
                  block_bitmap |-> read_bits(0, part.start_lba + 2, block_bitmap_sects(part)),
                  block_bitmap_len |-> block_bitmap_sects(part) * SECTOR_SIZE,
                  inode_bitmap |-> inode_bits,
                  inode_bitmap_len |-> block_bitmap_sects(part) * SECTOR_SIZE]
      BY <1>7, <1>9, <2>5 DEF mount_partition
    <2>7. /\ curr_part'.part = part /\ curr_part'.sb = sb
          /\ curr_part'.block_bitmap = read_bits(0, part.start_lba + 2, block_bitmap_sects(part))
          /\ curr_part'.block_bitmap_len = block_bitmap_sects(part) * SECTOR_SIZE
      BY <2>6
    <2>8. ASSUME LargePartitions, part \in whole, NEW i \in 0 .. 8 * curr_part'.block_bitmap_len - 1,
                 i >= block_bitmap_bit_len(part)
          PROVE  i \in curr_part'.block_bitmap
      <3>1. block_bitmap_sects(part) \in Nat /\ SECTOR_SIZE \in Nat
        BY <2>2, <2>3, FoundLemma, LayoutAssumption
      <3>2. BITS_PER_SECTOR * block_bitmap_sects(part) = 8 * (block_bitmap_sects(part) * SECTOR_SIZE)
        BY <3>1 DEF BITS_PER_SECTOR
      <3>3. 8 * (block_bitmap_sects(part) * SECTOR_SIZE) \in Nat
        BY <3>1
      <3>4. i \in Nat /\ i < BITS_PER_SECTOR * block_bitmap_sects(part)
        BY <2>7, <2>8, <3>2, <3>3
      <3>5. block_bitmap_bit_len(part) <= i
        <4>1. /\ part \in PartSet /\ part.sector_counter > used_sects
              /\ Extent(part) \in Partition /\ Extent(part).sector_counter = part.sector_counter
          BY <2>2, <2>3, FoundLemma
        <4>2. block_bitmap_bit_len(part) \in Nat
          BY <4>1, ExtentLemma, BitmapSize
        <4> QED BY <2>8, <3>4, <4>2
      <3> QED BY <2>3, <2>7, <2>8, <3>4, <3>5, BitmapRead
    <2>9. MountOK'
      <3>1. cuts' = cuts /\ whole' = whole /\ cuts \in Nat
        BY <1>1 DEF BootInv, BootTypes
      <3>2. LargePartitions => MountSound'
        BY <2>2, <2>4, <2>7, <2>8, <3>1 DEF MountSound
      <3> QED BY <1>1, <2>2, <3>2 DEF MountOK
    <2> QED BY <1>2, <1>3, <1>4, <1>5, <1>6, <2>9 DEF BootInv
  <1> QED BY <1>8, <1>9

\* Only the root inode is changed while the machine is in use.
LEMMA InodeSyncRootStep ==
  ASSUME BootInv, inode_sync_root
  PROVE  BootInv'
  <1>1. PICK x, size :
            /\ x = curr_part.sb.inode_table_lba /\ size = Sector(0, x).i_size + DIR_ENTRY_SIZE
            /\ Sector(0, x).kind = "root_inode"
            /\ sectors' = [sectors EXCEPT ![0][x].i_size = size]
    BY DEF inode_sync_root
  <1>2. /\ pc = "up" /\ curr_part # NoMount
        /\ UNCHANGED << geometry, ide, curr_part, hd, part_idx, todo, pc, cuts, whole >>
    BY DEF inode_sync_root
  <1>3. /\ 0 \in DOMAIN geometry /\ DOMAIN sectors = DOMAIN geometry /\ geometry \in Geometries
    BY <1>2 DEF BootInv, MountOK, DisksOK
  <1>4. x \in DOMAIN sectors[0] /\ Sector(0, x) = sectors[0][x]
    BY <1>1 DEF Sector, Zero
  <1>5. sectors[0][x] \in [kind : {"root_inode"}, i_size : Nat, i_sectors_0 : Nat]
    BY <1>1, <1>3, <1>4 DEF BootInv, DisksOK, SectorOK
  <1>6. PICK s : s = [sectors[0][x] EXCEPT !.i_size = size]
    OBVIOUS
  <1>7. s \in [kind : {"root_inode"}, i_size : Nat, i_sectors_0 : Nat] /\ s.kind = "root_inode"
    <2>1. size \in Nat
      BY <1>1, <1>4, <1>5, LayoutAssumption
    <2> QED BY <1>5, <1>6, <2>1
  <1>8. /\ DOMAIN sectors' = DOMAIN sectors
        /\ \A d \in DOMAIN geometry : d # 0 => sectors'[d] = sectors[d]
        /\ DOMAIN sectors'[0] = DOMAIN sectors[0]
        /\ sectors'[0][x] = s
        /\ \A lba \in DOMAIN sectors[0] : lba # x => sectors'[0][lba] = sectors[0][lba]
    BY <1>1, <1>3, <1>4, <1>6
  <1>9. ASSUME NEW d \in DOMAIN geometry, NEW lba
        PROVE  Sector(d, lba)' = IF d = 0 /\ lba = x THEN s ELSE Sector(d, lba)
    <2>1. CASE d = 0
      BY <1>4, <1>8, <2>1 DEF Sector
    <2>2. CASE d # 0
      BY <1>8, <2>2 DEF Sector
    <2> QED BY <2>1, <2>2
  <1>10. DisksOK'
    <2>1. ASSUME NEW d \in DOMAIN geometry, NEW lba \in DOMAIN sectors'[d]
          PROVE  SectorOK(d, lba, sectors'[d][lba])
      <3>1. CASE d = 0 /\ lba = x
        <4>1. SectorOK(d, lba, sectors[0][x])
          BY <1>3, <1>4, <3>1 DEF BootInv, DisksOK
        <4>2. sectors[0][x].kind = "root_inode"
          BY <1>5
        <4> QED BY <1>7, <1>8, <3>1, <4>1, <4>2 DEF SectorOK
      <3>2. CASE ~(d = 0 /\ lba = x)
        <4>1. lba \in DOMAIN sectors[d] /\ sectors'[d][lba] = sectors[d][lba]
          BY <1>8, <2>1, <3>2
        <4> QED BY <4>1 DEF BootInv, DisksOK
      <3> QED BY <3>1, <3>2
    <2>2. \A d, lba, t : SectorOK(d, lba, t)' <=> SectorOK(d, lba, t)
      BY <1>2 DEF SectorOK
    <2> QED BY <1>2, <1>3, <1>8, <2>1, <2>2 DEF DisksOK, SectorOK
  <1>11. channel_cnt' = channel_cnt /\ IdeSet' = IdeSet /\ \A d : Found(d)' = Found(d)
    BY <1>2 DEF channel_cnt, IdeSet, Found
  <1>12. BootTypes' /\ StackOK' /\ CallsOK' /\ FormatOK' /\ PartsOK'
    <2>1. BootTypes'
      BY <1>2, <1>11 DEF BootInv, BootTypes
    <2>2. StackOK' /\ CallsOK' /\ FormatOK'
      BY <1>2 DEF StackOK, CallsOK, FormatOK
    <2>3. PartsOK'
      BY <1>2, <1>11 DEF BootInv, PartsOK
    <2> QED BY <2>1, <2>2, <2>3
  <1>13. WholeOK'
    <2>1. FormattedWhole /\ \A part \in whole : part.name[1] \in DOMAIN geometry
      BY DEF BootInv, WholeOK
    <2>2. ASSUME NEW part \in whole, NEW v, v = partition_format(part), NEW i \in DOMAIN v
          PROVE  \/ Sector(part.name[1], v[i].lba)' = v[i].is
                 \/ Sector(part.name[1], v[i].lba)'.kind = "root_inode" /\ v[i].is.kind = "root_inode"
      <3>1. \/ Sector(part.name[1], v[i].lba) = v[i].is
            \/ Sector(part.name[1], v[i].lba).kind = "root_inode" /\ v[i].is.kind = "root_inode"
        BY <2>1, <2>2 DEF FormattedWhole
      <3>2. CASE part.name[1] = 0 /\ v[i].lba = x
        <4>1. Sector(part.name[1], v[i].lba)' = s /\ Sector(part.name[1], v[i].lba).kind = "root_inode"
          BY <1>1, <1>3, <1>9, <3>2
        <4> QED BY <1>7, <3>1, <4>1
      <3>3. CASE ~(part.name[1] = 0 /\ v[i].lba = x)
        <4>1. Sector(part.name[1], v[i].lba)' = Sector(part.name[1], v[i].lba)
          BY <1>9, <2>1, <3>3
        <4> QED BY <3>1, <4>1
      <3> QED BY <3>2, <3>3
    <2>3. FormattedWhole'
      BY <1>2, <2>2 DEF FormattedWhole
    <2> QED BY <1>2, <1>11, <2>3 DEF BootInv, WholeOK
  <1>14. PassedOK'
    <2>1. Passed /\ Passed'
      BY <1>2 DEF Passed
    <2>2. PICK slot, y : slot = ide.prim_parts[0][0] /\ y = slot.start_lba + 1
      OBVIOUS
    <2>3. ASSUME slot # NoPart
          PROVE  Sector(0, y)' = super_block(slot) /\ (cuts = 0 => slot \in whole)
      <3>1. Sector(0, y) = super_block(slot) /\ (cuts = 0 => slot \in whole)
        BY <1>3, <2>1, <2>2, <2>3 DEF BootInv, PassedOK
      <3>2. super_block(slot).kind = "super_block"
        BY DEF super_block
      <3>3. y # x
        BY <1>1, <3>1, <3>2
      <3> QED BY <1>3, <1>9, <3>1, <3>3
    <2> QED BY <1>2, <2>1, <2>2, <2>3 DEF PassedOK
  <1>15. MountOK'
    BY <1>2 DEF BootInv, MountOK, MountSound
  <1> QED BY <1>10, <1>12, <1>13, <1>14, <1>15 DEF BootInv

\* A step that changes nothing.
LEMMA BootStutter ==
  ASSUME BootInv, UNCHANGED boot_vars
  PROVE  BootInv'
  <1>1. UNCHANGED << geometry, sectors, ide, curr_part, hd, part_idx, todo, pc, cuts, whole >>
    BY DEF boot_vars
  <1>2. /\ DisksOK' /\ WholeOK' /\ \A d, lba : Sector(d, lba)' = Sector(d, lba)
        /\ \A d : Found(d)' = Found(d)
        /\ channel_cnt' = channel_cnt /\ IdeSet' = IdeSet
    BY <1>1, SectorsFrame
  <1>3. BootTypes'
    BY <1>1, <1>2 DEF BootInv, BootTypes
  <1>4. StackOK' /\ CallsOK'
    <2>1. StackOK'
      BY <1>1 DEF BootInv, StackOK, Frames, TableEntries
    <2>2. CallsOK'
      BY <1>1 DEF BootInv, CallsOK, Calls, ScanCallOK, Bases
    <2> QED BY <2>1, <2>2
  <1>5. PartsOK'
    BY <1>1, <1>2 DEF BootInv, PartsOK
  <1>6. FormatOK'
    BY <1>1, <1>2 DEF BootInv, FormatOK, this_part
  <1>7. PassedOK'
    BY <1>1, <1>2 DEF BootInv, PassedOK, Passed
  <1>8. MountOK'
    BY <1>1 DEF BootInv, MountOK, MountSound
  <1> QED BY <1>2, <1>3, <1>4, <1>5, <1>6, <1>7, <1>8 DEF BootInv
-----------------------------------------------------------------------------
(* The theorems.                                                           *)

\* What every state of the boot satisfies, whatever the disks and the power cuts.
THEOREM BootInvariance == BootSpec => []BootInv
  <1>1. BootInit => BootInv
    BY BootInitInv
  <1>2. BootInv /\ [BootNext]_boot_vars => BootInv'
    <2>1. SUFFICES ASSUME BootInv, [BootNext]_boot_vars PROVE BootInv'
      OBVIOUS
    <2> QED BY <2>1, IdeInitStep, ScanStep, ScanDoneStep, FilesysStep, FormatStep, MountStep,
               InodeSyncRootStep, PowerOffStep, BootStutter DEF BootNext, Boot
  <1> QED BY <1>1, <1>2, PTL DEF BootSpec

\* On any disks and through any power cuts, a partition that partition_format finished
\* holds what it wrote: formatting the others, whose root directories go to the same
\* sector, and booting again leave it whole.
THEOREM FormattedWholeSafe == BootSpec => []FormattedWhole
  <1>1. BootInv => FormattedWhole
    BY DEF BootInv, WholeOK
  <1> QED BY <1>1, BootInvariance, PTL

\* If every partition has 64 blocks or more, mount_partition mounts sdb1, with the super
\* block that describes it, and with a block bitmap in which no bit from its number of
\* blocks on is clear, unless a power cut ended its formatting.
THEOREM MountSoundSafe ==
  ASSUME LargePartitions
  PROVE  BootSpec => []MountSound
  <1>1. BootInv => MountSound
    BY DEF BootInv, MountOK
  <1> QED BY <1>1, BootInvariance, PTL

\* Only format_write changes the disks during the boot, and to a partition that was
\* formatted to the end it writes what is there.
LEMMA KeepsStep ==
  ASSUME BootInv, Boot, NEW p, p \in whole, NEW d, d = p.name[1],
         NEW lba, lba \in DOMAIN sectors'[d],
         lba \in p.start_lba .. p.start_lba + p.sector_counter - 1
  PROVE  sectors'[d][lba] = Sector(d, lba)
  <1>1. CASE sectors' = sectors
    BY <1>1 DEF Sector
  <1>2. CASE format_write
    <2>1. PICK q, w, k, x : Writing(q, w, k, x)
      BY <1>2, FormatWrite
    <2>2. d \in DOMAIN geometry /\ p \in Found(d) /\ Sector(d, root_dir_lba) = RootDir
      BY WholeLemma
    <2>3. sectors'[d][lba] = Sector(d, lba)'
      BY DEF Sector
    <2>4. Sector(d, lba)' = IF d = hd /\ lba = x THEN Content(q, x) ELSE Sector(d, lba)
      BY <2>1, <2>2 DEF Writing
    <2>5. CASE d = hd /\ lba = x
      <3>1. /\ geometry \in Geometries /\ q = this_part /\ q \in Found(d) /\ x \in Written(q)
        BY <2>1, <2>5 DEF Writing
      <3>2. Extent(p) # Extent(q)
        BY <1>2, <2>5, <3>1 DEF format_write, BootInv, FormatOK
      <3>3. x = root_dir_lba
        BY <2>2, <2>5, <3>1, <3>2, WrittenApart
      <3>4. Content(q, x) = RootDir
        BY <2>2, <3>1, <3>3, ContentLemma
      <3> QED BY <2>2, <2>3, <2>4, <2>5, <3>3, <3>4
    <2>6. CASE ~(d = hd /\ lba = x)
      BY <2>3, <2>4, <2>6
    <2> QED BY <2>5, <2>6
  <1> QED BY <1>1, <1>2 DEF Boot, ide_init, partition_scan, scan_done, filesys_init, mount_partition

\* No step of a boot changes a sector of a partition that was formatted to the end,
\* whichever power cuts came before.
THEOREM KeepsFormattedSafe == BootSpec => KeepsFormatted
  <1>1. BootInv /\ [BootNext]_boot_vars =>
          [Boot => \A p \in whole :
              LET d == p.name[1]
              IN  \A lba \in DOMAIN sectors'[d] :
                    lba \in p.start_lba .. p.start_lba + p.sector_counter - 1 =>
                        sectors'[d][lba] = Sector(d, lba)]_boot_vars
    BY KeepsStep
  <1> QED BY <1>1, BootInvariance, PTL DEF BootSpec, KeepsFormatted
=============================================================================
