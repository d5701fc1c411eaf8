------------------------------- MODULE Layout -------------------------------
(***************************************************************************)
(* The arithmetic of fs/fs.c and fs/inode.c: where partition_format puts    *)
(* the parts of a file system, the block bitmap it writes, and the sectors  *)
(* and the offset at which inode_locate finds an inode.  A partition is a   *)
(* record with start_lba and sector_counter.                                *)
(***************************************************************************)
EXTENDS Integers

CONSTANTS
    MAX_FILES_PER_PART,     \* 4096
    SECTOR_SIZE,            \* 512 bytes
    INODE_SIZE,             \* sizeof(struct inode), 76
    DIR_ENTRY_SIZE          \* sizeof(struct dir_entry), 24

ASSUME LayoutAssumption ==
    /\ MAX_FILES_PER_PART \in Nat \ {0}
    /\ SECTOR_SIZE \in Nat \ {0}
    /\ INODE_SIZE \in 1 .. SECTOR_SIZE
    /\ DIR_ENTRY_SIZE \in 1 .. SECTOR_SIZE

BITS_PER_SECTOR == 8 * SECTOR_SIZE

DIV_ROUND_UP(x, step) == (x + step - 1) \div step

inode_bitmap_sects == DIV_ROUND_UP(MAX_FILES_PER_PART, BITS_PER_SECTOR)
inode_table_sects == DIV_ROUND_UP(INODE_SIZE * MAX_FILES_PER_PART, SECTOR_SIZE)
used_sects == 2 + inode_bitmap_sects + inode_table_sects

free_sects(part) == part.sector_counter - used_sects
block_bitmap_bit_len(part) ==
    free_sects(part) - DIV_ROUND_UP(free_sects(part), BITS_PER_SECTOR)

block_bitmap_sects(part) == DIV_ROUND_UP(block_bitmap_bit_len(part), BITS_PER_SECTOR)

\* Mutant: the block bitmap is taken to fill one sector.
super_block_overlap(part) ==
    LET block_bitmap_lba == part.start_lba + 2
        inode_bitmap_lba == block_bitmap_lba + 1
    IN  [kind |-> "super_block", sec_cnt |-> part.sector_counter,
         inode_cnt |-> MAX_FILES_PER_PART, part_lba_base |-> part.start_lba,
         block_bitmap_lba |-> block_bitmap_lba, block_bitmap_sects |-> block_bitmap_sects(part),
         inode_bitmap_lba |-> inode_bitmap_lba, inode_bitmap_sects |-> inode_bitmap_sects,
         inode_table_lba |-> inode_bitmap_lba + inode_bitmap_sects,
         inode_table_sects |-> inode_table_sects,
         data_start_lba |-> 2 * inode_table_sects,
         root_inode_no |-> 0, dir_entry_size |-> DIR_ENTRY_SIZE]

\* The super block.  data_start_lba is twice the length of the inode table.
super_block(part) ==
    LET block_bitmap_lba == part.start_lba + 2
        inode_bitmap_lba == block_bitmap_lba + block_bitmap_sects(part)
    IN  [kind |-> "super_block",                \* magic
         sec_cnt |-> part.sector_counter,
         inode_cnt |-> MAX_FILES_PER_PART,
         part_lba_base |-> part.start_lba,
         block_bitmap_lba |-> block_bitmap_lba,
         block_bitmap_sects |-> block_bitmap_sects(part),
         inode_bitmap_lba |-> inode_bitmap_lba,
         inode_bitmap_sects |-> inode_bitmap_sects,
         inode_table_lba |-> inode_bitmap_lba + inode_bitmap_sects,
         inode_table_sects |-> inode_table_sects,
         data_start_lba |-> inode_table_sects + inode_table_sects,
         root_inode_no |-> 0,
         dir_entry_size |-> DIR_ENTRY_SIZE]

\* Mutant: the fill stops at the bitmap's first unused bit, not at the sector's end.
block_bitmap_bit_short(part, i) ==
    LET bit_len == block_bitmap_bit_len(part)
    IN  i = 0 \/ i = bit_len

\* Bit i of the block bitmap: the root directory's block, and 0xff from the byte of
\* the last block to the end of its sector; then the lowest bits of byte number
\* bit_len % 8 (not of that last byte) are cleared again.
block_bitmap_bit(part, i) ==
    LET block_bitmap_bytes_len == block_bitmap_bit_len(part) \div 8
        block_bitmap_odd_idx == block_bitmap_bit_len(part) % 8
        last_size == SECTOR_SIZE - (block_bitmap_bytes_len % SECTOR_SIZE)
        byte == i \div 8
    IN  /\ \/ i = 0
           \/ byte \in block_bitmap_bytes_len .. block_bitmap_bytes_len + last_size - 1
        /\ ~(byte = block_bitmap_odd_idx /\ i % 8 <= block_bitmap_odd_idx)

\* Where an inode lies in the table: the sector, the offset in it, and whether the
\* next sector is used too (also for an inode that ends just where its sector does).
inode_locate(inode_no) ==
    LET inode_sum_size == inode_no * INODE_SIZE
        left_inode_size == inode_sum_size % SECTOR_SIZE
    IN  [two_sec |-> ~(SECTOR_SIZE - left_inode_size > INODE_SIZE),
         sec |-> inode_sum_size \div SECTOR_SIZE,
         off_size |-> left_inode_size]
=============================================================================
