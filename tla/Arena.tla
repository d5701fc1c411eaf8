-------------------------------- MODULE Arena --------------------------------
(***************************************************************************)
(* sys_malloc and sys_free of kernel/memory.c for the kernel's threads:    *)
(* the block descriptors, the arenas, the address bitmap and what has been *)
(* handed out.  Both run under the pool's lock, so each is one step.  A    *)
(* process's calls run the same code on descriptors of its own, but its    *)
(* addresses do not come back as they were taken: see UserMemory.          *)
(*                                                                         *)
(* The frames of kernel_pool have other users too (page tables, thread     *)
(* stacks), so any call of malloc_pages may run out of them half way.      *)
(***************************************************************************)
EXTENDS List, Integers

CONSTANTS
    NPages,     \* pages of kernel_vaddr
    MaxCnt,     \* malloc_pages' ASSERT allows fewer pages than this: 3840
    PageSize,   \* PAGE_SIZE
    Header,     \* sizeof(struct arena)
    MinBlock,   \* block_size of the first descriptor: 16
    NDesc,      \* MEM_BLOCK_DES_INT
    Sizes,      \* the sizes callers ask for
    NULL

Pages == 0 .. NPages - 1
Descs == 0 .. NDesc - 1

\* block_des_init: every descriptor's blocks are twice as large as the last one's.
block_size(d) == MinBlock * 2 ^ d
blocks_per_arena(d) == (PageSize - Header) \div block_size(d)

\* struct arena; desc is NULL in a large one.
Arenas == [large : BOOLEAN, desc : Descs \cup {NULL}, cnt : Nat]

ASSUME ArenaAssumption ==
    /\ NPages \in Nat /\ NDesc \in Nat \ {0} /\ MaxCnt \in Nat \ {0, 1}
    /\ Header \in Nat /\ PageSize \in Nat \ {0}
    /\ \A d \in Descs : block_size(d) \in Nat \ {0} /\ blocks_per_arena(d) \in Nat \ {0}
    /\ Sizes \subseteq Nat
    /\ NULL \notin Descs \cup Arenas

VARIABLES
    arena,      \* page |-> the struct arena at its start, NULL if there is none
    free_list,  \* descriptor |-> free_list; a block is << page, index >>
    live,       \* what callers hold: [page, index, size]
    taken,      \* the pages marked in kernel_vaddr's bitmap
    lost,       \* history: the pages that failed calls have left marked
    halted      \* an ASSERT has failed

vars == << arena, free_list, live, taken, lost, halted >>

Init ==
    /\ arena = [p \in Pages |-> NULL]
    /\ free_list = [d \in Descs |-> << >>]
    /\ live = {}
    /\ taken = {}
    /\ lost = {}
    /\ halted = FALSE

\* cnt pages from p on.
PageRun(p, cnt) == p .. p + cnt - 1

\* The pages of the arena that starts at p.
Extent(p) ==
    IF arena[p] = NULL THEN {}
    ELSE IF arena[p].large THEN PageRun(p, arena[p].cnt) ELSE {p}

Used == UNION {Extent(p) : p \in Pages}

\* The starts vaddr_get_pages(cnt) can return: of the lowest run that is free, or none.
vaddr_get_pages(cnt) ==
    LET fits == {s \in 0 .. NPages - cnt : \A p \in PageRun(s, cnt) : p \notin taken}
    IN  {s \in fits : \A r \in fits : s <= r}

\* malloc_pages returns page p.
malloc_pages(cnt, p) ==
    /\ p \in vaddr_get_pages(cnt)
    /\ taken' = taken \cup PageRun(p, cnt)
    /\ UNCHANGED << lost, halted >>

\* malloc_pages returns 0: there are no addresses, or no frame for one of them.  In the
\* second case the addresses stay marked, and the frames for those before it taken.
malloc_pages_fails(cnt) ==
    /\ \/ vaddr_get_pages(cnt) = {} /\ UNCHANGED << taken, lost >>
       \/ \E p \in vaddr_get_pages(cnt) :
            /\ taken' = taken \cup PageRun(p, cnt)
            /\ lost' = lost \cup PageRun(p, cnt)
    /\ UNCHANGED << arena, free_list, live, halted >>

\* DIV_ROUND_UP(size, PAGE_SIZE)
page_count(size) == (size + PageSize - 1) \div PageSize

\* size > 1024, the largest block size.
IsLarge(size) == size > block_size(NDesc - 1)

\* Mutant: the descriptor before the first one that is large enough.
des_idx_small(size) ==
    CHOOSE d \in Descs : /\ size <= 2 * block_size(d)
                         /\ \A e \in 0 .. d - 1 : size > 2 * block_size(e)

\* The first descriptor whose blocks are large enough.
des_idx(size) ==
    CHOOSE d \in Descs : /\ size <= block_size(d)
                         /\ \A e \in 0 .. d - 1 : size > block_size(e)

\* Blocks 0 .. blocks_per_arena - 1 of the arena at p, in address order.
arena_blocks(p, d) == [k \in 1 .. blocks_per_arena(d) |-> << p, k - 1 >>]
BlocksOf(p, d) == {<< p, k >> : k \in 0 .. blocks_per_arena(d) - 1}

\* sys_malloc of a large block; malloc_pages' ASSERT stops the machine if it asks for
\* too many pages.
sys_malloc_large(size) ==
    LET cnt == page_count(size)
    IN  /\ IsLarge(size)
        /\ \/ /\ cnt >= MaxCnt
              /\ halted' = TRUE
              /\ UNCHANGED << arena, free_list, live, taken, lost >>
           \/ cnt < MaxCnt /\ malloc_pages_fails(cnt)
           \/ /\ cnt < MaxCnt
              /\ \E p \in Pages :
                    /\ malloc_pages(cnt, p)
                    /\ arena' = [arena EXCEPT ![p] = [large |-> TRUE, desc |-> NULL, cnt |-> cnt]]
                    /\ live' = live \cup {[page |-> p, index |-> 0, size |-> size]}
              /\ UNCHANGED free_list

\* The arena sys_malloc makes of a page.
new_arena(d) == [large |-> FALSE, desc |-> d, cnt |-> blocks_per_arena(d)]

\* Mutant: the arena's count is not decremented.
pop_block_uncounted(size, a, fl) ==
    LET b == list_first(fl)
    IN  /\ arena' = a
        /\ free_list' = [free_list EXCEPT ![des_idx(size)] = list_pop(fl)]
        /\ live' = live \cup {[page |-> b[1], index |-> b[2], size |-> size]}

\* The first free block is taken off the list fl of its descriptor, with the arenas a.
pop_block(size, a, fl) ==
    LET b == list_first(fl)
    IN  /\ arena' = [a EXCEPT ![b[1]].cnt = @ - 1]
        /\ free_list' = [free_list EXCEPT ![des_idx(size)] = list_pop(fl)]
        /\ live' = live \cup {[page |-> b[1], index |-> b[2], size |-> size]}

\* sys_malloc of a small block: a new arena when the free list is empty, then the first
\* free block.
sys_malloc_small(size) ==
    LET d == des_idx(size)
    IN  /\ ~IsLarge(size)
        /\ \/ /\ ~list_empty(free_list[d])
              /\ pop_block(size, arena, free_list[d])
              /\ UNCHANGED << taken, lost, halted >>
           \/ list_empty(free_list[d]) /\ malloc_pages_fails(1)
           \/ /\ list_empty(free_list[d])
              /\ \E p \in Pages :
                    /\ malloc_pages(1, p)
                    /\ pop_block(size, [arena EXCEPT ![p] = new_arena(d)], arena_blocks(p, d))

\* free_pages of the arena at p.
free_pages(p) ==
    /\ arena' = [arena EXCEPT ![p] = NULL]
    /\ taken' = taken \ Extent(p)

\* sys_free of a large block: its pages go back.
sys_free_large(b) ==
    /\ arena[b.page].desc = NULL
    /\ free_pages(b.page)
    /\ live' = live \ {b}
    /\ UNCHANGED << free_list, lost, halted >>

\* Mutant: the arena is taken to be complete one block too early.
completes_early(b, d) == arena[b.page].cnt + 1 >= blocks_per_arena(d) - 1

\* Mutant: a complete arena is kept.
completes_never(b, d) == FALSE

\* b is the last block of its arena to be freed.
completes(b, d) == arena[b.page].cnt + 1 = blocks_per_arena(d)

\* sys_free of a small block: it joins the free list; when that completes its
\* arena, the arena's blocks leave the list and the page goes back.
sys_free_small(b) ==
    LET d == arena[b.page].desc
        fl == list_append(free_list[d], << b.page, b.index >>)
    IN  /\ d # NULL
        /\ live' = live \ {b}
        /\ \/ /\ completes(b, d)
              /\ free_list' = [free_list EXCEPT ![d] = list_remove(fl, BlocksOf(b.page, d))]
              /\ free_pages(b.page)
           \/ /\ ~completes(b, d)
              /\ free_list' = [free_list EXCEPT ![d] = fl]
              /\ arena' = [arena EXCEPT ![b.page].cnt = @ + 1]
              /\ UNCHANGED taken
        /\ UNCHANGED << lost, halted >>

Next ==
    \/ /\ ~halted
       /\ \/ \E size \in Sizes : sys_malloc_large(size) \/ sys_malloc_small(size)
          \/ \E b \in live : sys_free_large(b) \/ sys_free_small(b)
    \/ halted /\ UNCHANGED vars

Spec == Init /\ [][Next]_vars

-----------------------------------------------------------------------------
(* Properties.                                                             *)

\* The address arena_to_block or sys_malloc computes for b, and the bytes from it.
Start(b) ==
    b.page * PageSize + Header +
        (IF arena[b.page].large THEN 0 ELSE b.index * block_size(arena[b.page].desc))

Bytes(b) == Start(b) .. Start(b) + b.size - 1

\* Every block of every arena is on its descriptor's free list or in a caller's
\* hands, never both and never twice, and the arena's cnt counts the free ones,
\* after any order of allocations and frees: an arena is given back only when
\* nobody holds a block of it, and the ASSERTs on elem_find hold.
Partition ==
    \A p \in Pages :
        (arena[p] # NULL /\ ~arena[p].large) =>
            LET d == arena[p].desc
                free == {i \in 1 .. Len(free_list[d]) : free_list[d][i][1] = p}
                held == {b \in live : b.page = p}
            IN  /\ \A i, j \in free : free_list[d][i] = free_list[d][j] => i = j
                /\ \A i \in free : \A b \in held : free_list[d][i][2] # b.index
                /\ \A b, c \in held : b.index = c.index => b = c
                /\ \A k \in 0 .. blocks_per_arena(d) - 1 :
                    \/ \E i \in free : free_list[d][i][2] = k
                    \/ \E b \in held : b.index = k
                /\ arena[p].cnt = Cardinality(free)

\* Nothing on a free list and nothing a caller holds is in a page that was given
\* back, or has become part of an arena of another kind.
NoDangling ==
    /\ \A d \in Descs : \A i \in 1 .. Len(free_list[d]) :
        LET p == free_list[d][i][1]
        IN  arena[p] # NULL /\ ~arena[p].large /\ arena[p].desc = d
    /\ \A b \in live : arena[b.page] # NULL

\* A page is marked in the address bitmap as long as it is part of an arena, and after
\* that only if a call that ran out of frames has left it marked; such a page is never
\* part of an arena again.  So when everything has been freed, all pages are back but
\* those, in whichever order blocks of whichever sizes were freed.
AllReturned ==
    /\ taken = Used \cup lost /\ Used \cap lost = {}
    /\ live = {} => taken = lost

\* The page count leaves room for the arena's header.  It does not when a large
\* size is a whole number of pages, or less than a header short of it.
Roomy(size) == IsLarge(size) => Header + size <= page_count(size) * PageSize

\* Two blocks in use never share a byte, whatever was allocated and freed before,
\* unless sys_malloc has counted too few pages for one of them.
Disjoint ==
    \A b, c \in {b \in live : Roomy(b.size)} : b # c => Bytes(b) \cap Bytes(c) = {}
=============================================================================
