------------------------------- MODULE Memory -------------------------------
(***************************************************************************)
(* The kernel half of kernel/memory.c: kernel_vaddr, kernel_pool, the page *)
(* table and the pool's lock, used by several threads at once.             *)
(*                                                                         *)
(* sys_malloc and sys_free hold kernel_pool.lock.  Two other callers reach *)
(* the same bitmaps without it: malloc_kernel_pages (from thread_start and *)
(* process_execute), and page_table_add when it needs a page table for a   *)
(* user page (get_a_page and malloc_user_pages hold user_pool.lock only).  *)
(* All of them run with interrupts on, so a step is what happens between   *)
(* two accesses to shared state.  The lock is the abstract one that Sched  *)
(* is shown to implement.                                                  *)
(***************************************************************************)
EXTENDS Bitmap, FiniteSets

CONSTANTS
    Threads,
    Overlap,        \* whether calls without the lock overlap with other calls
    NULL,
    BitmapLen,      \* bytes of kernel_pool's and of kernel_vaddr's bitmap
    BootPages,      \* the pages that start-up has left allocated and mapped
    BootFrames,     \* the frames in use by then, page tables included
    Cnts            \* page counts asked for

NPages == 8 * BitmapLen
Pages == 0 .. NPages - 1

ASSUME MemAssumption ==
    /\ BitmapLen \in Nat \ {0}
    /\ Overlap \in BOOLEAN
    /\ BootPages \subseteq BootFrames /\ BootFrames \subseteq Pages
    /\ Cnts \subseteq 1 .. NPages
    /\ NULL \notin Threads \cup Pages

VARIABLES
    vaddr_bits,     \* kernel_vaddr.vaddr_bitmap
    pool_bits,      \* kernel_pool.pool_bitmap
    pte,            \* page table: page |-> frame, NULL when not present
    holder,         \* kernel_pool.lock
    tables,         \* frames in use as page tables of user processes, NULL: frame 0
    live,           \* what sys_malloc has returned and nobody has freed
    pc,             \* where a thread is, "idle" outside these calls
    loc             \* the locals of its call: cnt, bitstart, i, bit_index

shared == << vaddr_bits, pool_bits, pte, tables >>
vars == << shared, holder, live, pc, loc >>

NoCall == [op |-> "none", cnt |-> 0, start |-> 0, i |-> 0, frame |-> 0]

\* The bit after a bitmap reads as used here; FirstFit says what a scan does when
\* it does not.
Init ==
    /\ vaddr_bits = [b \in 0 .. NPages |-> IF b \in BootPages \cup {NPages} THEN 1 ELSE 0]
    /\ pool_bits = [b \in 0 .. NPages |-> IF b \in BootFrames \cup {NPages} THEN 1 ELSE 0]
    /\ pte = [p \in Pages |-> IF p \in BootPages THEN p ELSE NULL]
    /\ holder = NULL
    /\ tables = {}
    /\ live = {}
    /\ pc = [t \in Threads |-> "idle"]
    /\ loc = [t \in Threads |-> NoCall]

Goto(t, label) == pc' = [pc EXCEPT ![t] = label]

\* Return from the call, lock_release included.
Return(t) ==
    /\ Goto(t, "idle")
    /\ loc' = [loc EXCEPT ![t] = NoCall]
    /\ holder' = IF holder = t THEN NULL ELSE holder

\* A call begins, for n pages from `first' on.
Enter(t, name, label, n, first) ==
    /\ pc[t] = "idle"
    /\ loc' = [loc EXCEPT ![t] = [op |-> name, cnt |-> n, start |-> first, i |-> 0, frame |-> 0]]
    /\ Goto(t, label)

\* The page the loop of malloc_pages or free_pages is at.
page(t) == loc[t].start + loc[t].i

-----------------------------------------------------------------------------
(* The calls.                                                              *)

\* Mutant: no lock_acquire.
sys_malloc_unlocked(t, n) ==
    /\ Enter(t, "sys_malloc", "vscan", n, 0)
    /\ UNCHANGED << shared, holder, live >>

\* sys_malloc of n pages (or of a new arena, n = 1): lock_acquire first.
sys_malloc(t, n) ==
    /\ holder = NULL
    /\ holder' = t
    /\ Enter(t, "sys_malloc", "vscan", n, 0)
    /\ UNCHANGED << shared, live >>

malloc_kernel_pages(t, n) ==
    /\ Enter(t, "malloc_kernel_pages", "vscan", n, 0)
    /\ UNCHANGED << shared, holder, live >>

\* get_a_page(PF_USER, ...) of a process whose page directory has no entry yet:
\* the page table comes from kernel_pool.
get_a_page(t) ==
    /\ Enter(t, "get_a_page", "pscan", 1, 0)
    /\ UNCHANGED << shared, holder, live >>

\* sys_free of what sys_malloc returned: lock_acquire, then free_pages.
sys_free(t, a) ==
    /\ holder = NULL
    /\ holder' = t
    /\ Enter(t, "sys_free", "pfree", a.cnt, a.start)
    /\ live' = live \ {a}
    /\ UNCHANGED shared

-----------------------------------------------------------------------------
(* malloc_pages.                                                           *)

\* vaddr_get_pages: the scan.
vaddr_scan(t) ==
    LET bitstart == bitmap_scan(vaddr_bits, BitmapLen, loc[t].cnt)
    IN  /\ pc[t] = "vscan"
        /\ \/ bitstart = -1 /\ Return(t)
           \/ /\ bitstart # -1
              /\ loc' = [loc EXCEPT ![t].start = bitstart]
              /\ Goto(t, "vset")
              /\ UNCHANGED holder
        /\ UNCHANGED << shared, live >>

\* vaddr_get_pages: the bits.
vaddr_set(t) ==
    /\ pc[t] = "vset"
    /\ vaddr_bits' = bitmap_set_run(vaddr_bits, loc[t].start, loc[t].cnt, 1)
    /\ Goto(t, "pscan")
    /\ UNCHANGED << pool_bits, pte, holder, live, loc, tables >>

\* Mutant: bit_index is not compared with -1.
palloc_scan_unchecked(t) ==
    /\ pc[t] = "pscan"
    /\ loc' = [loc EXCEPT ![t].frame = bitmap_scan(pool_bits, BitmapLen, 1)]
    /\ Goto(t, "pset")
    /\ UNCHANGED << shared, holder, live >>

\* palloc: the scan.  When it fails, malloc_pages returns 0 and leaves everything
\* as it is; page_table_add does not look, and makes frame 0, which no pool owns,
\* the process's page table.
palloc_scan(t) ==
    LET bit_index == bitmap_scan(pool_bits, BitmapLen, 1)
    IN  /\ pc[t] = "pscan"
        /\ \/ /\ bit_index = -1
              /\ tables' = IF loc[t].op = "get_a_page" THEN tables \cup {NULL} ELSE tables
              /\ Return(t)
           \/ /\ bit_index # -1
              /\ loc' = [loc EXCEPT ![t].frame = bit_index]
              /\ Goto(t, "pset")
              /\ UNCHANGED << holder, tables >>
        /\ UNCHANGED << vaddr_bits, pool_bits, pte, live >>

\* Mutant: the bit is never set.
palloc_set_forgotten(t) ==
    /\ pc[t] = "pset"
    /\ \/ loc[t].op = "get_a_page" /\ Return(t)
       \/ loc[t].op # "get_a_page" /\ Goto(t, "map") /\ UNCHANGED << holder, loc >>
    /\ UNCHANGED << shared, live >>

\* palloc: the bit.  The frame for a page table is not mapped in the kernel's heap.
palloc_set(t) ==
    /\ pc[t] = "pset"
    /\ pool_bits' = bitmap_set(pool_bits, loc[t].frame, 1)
    /\ \/ /\ loc[t].op = "get_a_page"
          /\ tables' = tables \cup {loc[t].frame}
          /\ Return(t)
       \/ /\ loc[t].op # "get_a_page"
          /\ Goto(t, "map")
          /\ UNCHANGED << holder, loc, tables >>
    /\ UNCHANGED << vaddr_bits, pte, live >>

\* page_table_add(start + i, frame), and the rest of the loop.  Its ASSERT stops
\* the machine when the entry is present.  What malloc_kernel_pages returns is a
\* pcb, a page directory or a bitmap, and nobody frees those.
page_table_add(t) ==
    LET c == loc[t]
    IN  /\ pc[t] = "map"
        /\ pte[page(t)] = NULL
        /\ pte' = [pte EXCEPT ![page(t)] = c.frame]
        /\ \/ /\ c.i + 1 < c.cnt
              /\ loc' = [loc EXCEPT ![t].i = @ + 1]
              /\ Goto(t, "pscan")
              /\ UNCHANGED << holder, live >>
           \/ /\ c.i + 1 = c.cnt
              /\ live' = IF c.op = "sys_malloc"
                         THEN live \cup {[start |-> c.start, cnt |-> c.cnt]}
                         ELSE live
              /\ Return(t)
        /\ UNCHANGED << vaddr_bits, pool_bits, tables >>

-----------------------------------------------------------------------------
(* free_pages.                                                             *)

\* Mutant: counter <= cnt_pages.
free_a_page_more(t) ==
    /\ pc[t] = "pfree"
    /\ pool_bits' = bitmap_set(pool_bits, pte[page(t)], 0)
    /\ pte' = [pte EXCEPT ![page(t)] = NULL]
    /\ loc' = [loc EXCEPT ![t].i = @ + 1]
    /\ Goto(t, IF /\ loc[t].i < loc[t].cnt
                  /\ page(t) + 1 \in Pages /\ pte[page(t) + 1] # NULL
               THEN "pfree" ELSE "vfree")
    /\ UNCHANGED << vaddr_bits, holder, live, tables >>

\* One turn of the loop: pfree and page_table_pte_remove.
free_a_page(t) ==
    /\ pc[t] = "pfree"
    /\ pool_bits' = bitmap_set(pool_bits, pte[page(t)], 0)
    /\ pte' = [pte EXCEPT ![page(t)] = NULL]
    /\ loc' = [loc EXCEPT ![t].i = @ + 1]
    /\ Goto(t, IF loc[t].i + 1 < loc[t].cnt THEN "pfree" ELSE "vfree")
    /\ UNCHANGED << vaddr_bits, holder, live, tables >>

vaddr_remove_pages(t) ==
    /\ pc[t] = "vfree"
    /\ vaddr_bits' = bitmap_set_run(vaddr_bits, loc[t].start, loc[t].cnt, 0)
    /\ Return(t)
    /\ UNCHANGED << pool_bits, pte, live, tables >>

-----------------------------------------------------------------------------
(* Who calls when.       Without Overlap, a call that takes no lock has the *)
(* allocator to itself from its beginning to its end, as main's calls have  *)
(* while it is the only thread; with it, any thread may call at any time.   *)

Unlocked == {t \in Threads : loc[t].op \in {"malloc_kernel_pages", "get_a_page"}}

LockedCall(t) ==
    /\ Overlap \/ Unlocked = {}
    /\ \/ \E n \in Cnts : sys_malloc(t, n)
       \/ \E a \in live : sys_free(t, a)

UnlockedCall(t) ==
    /\ Overlap \/ \A u \in Threads : pc[u] = "idle"
    /\ \/ \E n \in Cnts : malloc_kernel_pages(t, n)
       \/ get_a_page(t)

Next ==
    \E t \in Threads :
        \/ LockedCall(t) \/ UnlockedCall(t)
        \/ vaddr_scan(t) \/ vaddr_set(t)
        \/ palloc_scan(t) \/ palloc_set(t) \/ page_table_add(t)
        \/ free_a_page(t) \/ vaddr_remove_pages(t)

Spec == Init /\ [][Next]_vars

-----------------------------------------------------------------------------
(* Properties.                                                             *)

\* Types of all the variables.
TypeOK ==
    /\ vaddr_bits \in [0 .. NPages -> {0, 1}]
    /\ pool_bits \in [0 .. NPages -> {0, 1}]
    /\ pte \in [Pages -> Pages \cup {NULL}]
    /\ holder \in Threads \cup {NULL}
    /\ tables \subseteq Pages \cup {NULL}
    /\ live \subseteq [start : Pages, cnt : Cnts]
    /\ pc \in [Threads -> {"idle", "vscan", "vset", "pscan", "pset", "map",
                           "pfree", "vfree"}]
    /\ loc \in [Threads ->
                [op : {"none", "sys_malloc", "malloc_kernel_pages", "get_a_page",
                       "sys_free"},
                 cnt : 0 .. NPages, start : Pages, i : 0 .. NPages, frame : Pages]]

\* The ASSERT of page_table_add: the entry about to be written is not present.
PteAbsent ==
    \A t \in Threads : pc[t] = "map" => pte[page(t)] = NULL

\* A mapped page and its frame are marked in use, so neither is handed out again,
\* and no frame backs two pages or a page and a page table, through any
\* interleaving of allocations, frees and allocations that fail half way.
Backed ==
    /\ \A p \in Pages : pte[p] # NULL => vaddr_bits[p] = 1 /\ pool_bits[pte[p]] = 1
    /\ \A p, q \in Pages : pte[p] # NULL /\ pte[p] = pte[q] => p = q
    /\ \A f \in tables \ {NULL} : pool_bits[f] = 1 /\ \A p \in Pages : pte[p] # f

\* What sys_malloc has returned is mapped, all of it, and no two blocks overlap.
LiveMapped ==
    /\ \A a \in live : \A p \in a.start .. a.start + a.cnt - 1 : pte[p] # NULL
    /\ \A a, b \in live :
        a # b => a.start + a.cnt <= b.start \/ b.start + b.cnt <= a.start

\* Whenever a thread is about to scan for addresses, in any bitmap that allocations,
\* failures and frees have left behind, bitmap_scan is first fit: the lowest run of
\* free pages if there is one, across byte boundaries and after any number of
\* interrupted runs.  If there is none it says so, except that it takes the bit after
\* the bitmap, about which nothing is known, for a page when it is clear.
FirstFit ==
    \A t \in Threads, after \in {0, 1} :
        pc[t] = "vscan" =>
            LET cnt == loc[t].cnt
                r == bitmap_scan([vaddr_bits EXCEPT ![NPages] = after], BitmapLen, cnt)
                free == {s \in 0 .. NPages - cnt :
                            \A i \in s .. s + cnt - 1 : vaddr_bits[i] = 0}
            IN  IF free # {} THEN r \in free /\ \A s \in free : r <= s
                ELSE r = -1 \/ (cnt > 1 /\ after = 0 /\ r + cnt = NPages + 1)
=============================================================================
