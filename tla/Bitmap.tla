------------------------------- MODULE Bitmap -------------------------------
(***************************************************************************)
(* lib/bitmap.c: the bitmaps behind the memory pools, the virtual address  *)
(* pools and the file system.  A bitmap of bitmap_len bytes is a function  *)
(* on 0 .. 8 * bitmap_len: bit i of the bitmap, and at the last index the  *)
(* first bit of whatever memory comes after it.                            *)
(***************************************************************************)
EXTENDS Integers

bitmap_scan_test(btmp, index) == btmp[index] # 0

\* Mutant: the run counter is not reset at a used bit.
scan_walk_sticky(btmp, bitmap_len, cnt, first) ==
    LET walk[p \in (0 .. 8 * bitmap_len + 1) \X (0 .. cnt - 1)] ==
            IF p[1] > 8 * bitmap_len THEN -1
            ELSE IF bitmap_scan_test(btmp, p[1]) THEN walk[<< p[1] + 1, p[2] >>]
            ELSE IF p[2] + 1 = cnt THEN p[1] + 1 - cnt
            ELSE walk[<< p[1] + 1, p[2] + 1 >>]
    IN  walk[<< first + 1, 1 >>]

\* The second loop of bitmap_scan: count clear bits in a row from bit `first' on,
\* starting over at every set one, as long as bit_left > 0.
scan_walk(btmp, bitmap_len, cnt, first) ==
    LET walk[p \in (0 .. 8 * bitmap_len + 1) \X (0 .. cnt - 1)] ==
            LET bit_index == p[1]
                counter == p[2]
                bit_left == 8 * bitmap_len + 1 - bit_index
            IN  IF bit_left <= 0 THEN -1
                ELSE IF bitmap_scan_test(btmp, bit_index) THEN walk[<< bit_index + 1, 0 >>]
                ELSE IF counter + 1 = cnt THEN bit_index + 1 - cnt
                ELSE walk[<< bit_index + 1, counter + 1 >>]
    IN  walk[<< first + 1, 1 >>]

\* The first loop: the first byte that is not 0xff.
byte_full(btmp, i) == \A o \in 0 .. 7 : bitmap_scan_test(btmp, 8 * i + o)
first_byte(btmp, bitmap_len) ==
    CHOOSE i \in 0 .. bitmap_len :
        /\ i = bitmap_len \/ ~byte_full(btmp, i)
        /\ \A j \in 0 .. i - 1 : byte_full(btmp, j)

\* The first clear bit of byte index.
first_offset(btmp, index) ==
    CHOOSE o \in 0 .. 7 :
        /\ ~bitmap_scan_test(btmp, 8 * index + o)
        /\ \A p \in 0 .. o - 1 : bitmap_scan_test(btmp, 8 * index + p)

bitmap_scan(btmp, bitmap_len, cnt) ==
    LET index == first_byte(btmp, bitmap_len)
        bit_index == 8 * index + first_offset(btmp, index)
    IN  IF index = bitmap_len THEN -1
        ELSE IF cnt = 1 THEN bit_index
        ELSE scan_walk(btmp, bitmap_len, cnt, bit_index)

bitmap_set(btmp, index, value) == [btmp EXCEPT ![index] = value]

\* bitmap_set of cnt bits in a row, as its callers do it.
bitmap_set_run(btmp, index, cnt, value) ==
    [i \in DOMAIN btmp |-> IF i \in index .. index + cnt - 1 THEN value ELSE btmp[i]]
=============================================================================
