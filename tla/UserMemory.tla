----------------------------- MODULE UserMemory -----------------------------
(***************************************************************************)
(* The user half of kernel/memory.c: the pages of the user processes, each *)
(* with its own address bitmap and page directory, and the pool of frames  *)
(* they share.  A process's pages are numbered from its vaddr_start; the   *)
(* last one is its stack.  vaddr_start is a uint32_t pointer, and a block  *)
(* of addresses found at bit s is not at page s but at page 4 * s, since   *)
(* vaddr_get_pages adds to the pointer without a cast; get_a_page and      *)
(* vaddr_remove_pages, which cast it, take bit and page to be the same.    *)
(*                                                                         *)
(* sys_malloc, sys_free and get_a_page of a process hold user_pool.lock    *)
(* from beginning to end, and nothing else uses these variables, so each   *)
(* call is one step.  The frames for page tables come from kernel_pool;    *)
(* what happens when that overlaps with the kernel's calls is in Memory.   *)
(***************************************************************************)
EXTENDS Memory, TLC

CONSTANTS
    Procs,          \* the user processes
    UserLen,        \* bytes of a process's userprog_vaddr bitmap
    UserPoolLen,    \* bytes of user_pool's bitmap
    PagesPerTable,  \* 1024
    FirstEntry,     \* where vaddr_start is in its page table: 72
    KernelRest,     \* kernel_mem_page % 8: kernel frames without a bit
    MaxBlocks,      \* bound: blocks a process has at a time
    Callers         \* who calls: sets of "kernel" and "user"

NUser == 8 * UserLen
StackPage == NUser - 1              \* USER_STACK3_VADDR
UserFrames == 0 .. 8 * UserPoolLen - 1
Frame0 == -1                        \* physical address 0, which no pool owns

ASSUME UserAssumption ==
    /\ UserLen \in Nat \ {0} /\ UserPoolLen \in Nat \ {0}
    /\ PagesPerTable \in Nat \ {0} /\ FirstEntry \in Nat
    /\ KernelRest \in 0 .. 7 /\ MaxBlocks \in Nat
    /\ Callers \subseteq SUBSET {"kernel", "user"}
    /\ NULL \notin UserFrames \cup {Frame0}

VARIABLES
    callers,        \* which of Callers, fixed
    user_vaddr,     \* each process's userprog_vaddr.vaddr_bitmap
    user_bits,      \* user_pool.pool_bitmap
    user_pte,       \* each process's page tables: page |-> frame, NULL: not present
    user_pde,       \* the page tables each process has
    blocks,         \* what sys_malloc has returned to a process, and it has not freed
    halted          \* "no", or what has stopped the machine: the ASSERT of vaddr_get_pages
                    \* ("range"), of page_table_add ("present") or of free_pages ("first"),
                    \* no frame for a page table ("table"), or a page fault ("fault")

user_vars == << callers, user_vaddr, user_bits, user_pte, user_pde, blocks, halted >>
all_vars == << vars, user_vars >>

\* After mem_pool_init and create_user_vaddr_bitmap.  Each bitmap of a process is
\* followed by a byte of zeros, in the last of the pages allocated for it.
UserInit ==
    /\ Init
    /\ callers \in Callers
    /\ user_vaddr = [p \in Procs |-> [i \in 0 .. NUser |-> 0]]
    /\ user_bits = [f \in UserFrames |-> 0]
    /\ user_pte = [p \in Procs |-> [pg \in 0 .. NUser |-> NULL]]
    /\ user_pde = [p \in Procs |-> {}]
    /\ blocks = [p \in Procs |-> {}]
    /\ halted = "no"

-----------------------------------------------------------------------------
(* Allocation.                                                             *)

\* palloc, up to n times: the lowest free frames of a pool of `len' bytes.
palloc(bits, len, n) ==
    LET free == {f \in 0 .. 8 * len - 1 : ~bitmap_scan_test(bits, f)}
    IN  {f \in free : Cardinality({g \in free : g < f}) < n}

\* The i-th of a set of frames, from 0 on, in the order palloc returned them.
Nth(frames, i) == CHOOSE f \in frames : Cardinality({g \in frames : g < f}) = i

Set(bits, indexes, value) == [i \in DOMAIN bits |-> IF i \in indexes THEN value ELSE bits[i]]

table(pg) == (FirstEntry + pg) \div PagesPerTable

\* page_table_add of a process's pages, to `frames', a frame for each, and a page table
\* from kernel_pool for each part of the address space that has none.  Without a frame
\* for it the code takes frame 0 and clears it, the GDT in it included: that stops the
\* machine, like the ASSERT that no page is present.
map_pages(p, frames) ==
    LET pages == DOMAIN frames
        new == {table(pg) : pg \in pages} \ user_pde[p]
        kernel == palloc(pool_bits, BitmapLen, Cardinality(new))
    IN  IF Cardinality(kernel) < Cardinality(new)
        THEN halted' = "table" /\ UNCHANGED << user_pte, user_pde, pool_bits, tables >>
        ELSE IF \E pg \in pages : user_pte[p][pg] # NULL
        THEN halted' = "present" /\ UNCHANGED << user_pte, user_pde, pool_bits, tables >>
        ELSE /\ user_pte' = [user_pte EXCEPT ![p] =
                                [pg \in DOMAIN @ |-> IF pg \in pages THEN frames[pg] ELSE @[pg]]]
             /\ user_pde' = [user_pde EXCEPT ![p] = @ \cup new]
             /\ pool_bits' = Set(pool_bits, kernel, 1)
             /\ tables' = tables \cup kernel
             /\ UNCHANGED halted

\* The process has got its stack.
Running(p) == halted = "no" /\ user_pte[p][StackPage] # NULL

\* Mutant: the stack's page is mapped without a frame of its own.
start_process_late(p) ==
    /\ halted = "no" /\ user_pte[p][StackPage] = NULL
    /\ user_vaddr' = [user_vaddr EXCEPT ![p] = bitmap_set(@, StackPage, 1)]
    /\ map_pages(p, [pg \in {StackPage} |-> Frame0])
    /\ UNCHANGED << user_bits, vaddr_bits, pte, holder, live, pc, loc, callers, blocks >>

\* A process's first step: get_a_page for its stack.  The result of palloc is not
\* checked: with the pool empty, the stack is at frame 0.
start_process(p) ==
    LET taken == palloc(user_bits, UserPoolLen, 1)
    IN  /\ halted = "no" /\ user_pte[p][StackPage] = NULL
        /\ user_vaddr' = [user_vaddr EXCEPT ![p] = bitmap_set(@, StackPage, 1)]
        /\ user_bits' = Set(user_bits, taken, 1)
        /\ map_pages(p, [pg \in {StackPage} |-> IF taken = {} THEN Frame0 ELSE Nth(taken, 0)])
        /\ UNCHANGED << vaddr_bits, pte, holder, live, pc, loc, callers, blocks >>

\* Mutant: the pages mapped before the frames ran out are returned as a block.
malloc_result_short(start, n, mapped) ==
    IF mapped = 0 THEN {} ELSE {[start |-> start, cnt |-> n]}

\* What malloc_pages returns: the block, or nothing if the frames ran out.
malloc_result(start, n, mapped) ==
    IF mapped < n THEN {} ELSE {[start |-> start, cnt |-> n]}

\* The page at vaddr_start + PAGE_SIZE * bitstart, the sum of a pointer to four bytes
\* and a number.  It does not wrap: the ASSERT that the page is below the stack fails
\* long before that, and no block begins beyond the bits for which it does.
vaddr_page(bitstart) == 4 * bitstart

\* sys_malloc of n pages in a process: addresses, then frames one by one.  When these
\* run out it returns 0, with the addresses and the frames it has taken still taken.
user_malloc(p, n) ==
    LET bitstart == bitmap_scan(user_vaddr[p], UserLen, n)
        first == vaddr_page(bitstart)
        taken == palloc(user_bits, UserPoolLen, n)
        mapped == Cardinality(taken)
    IN  /\ Running(p) /\ Cardinality(blocks[p]) < MaxBlocks
        /\ IF bitstart = -1 THEN UNCHANGED all_vars
           ELSE IF first >= StackPage
           THEN halted' = "range" /\ UNCHANGED << vars, callers, user_vaddr, user_bits,
                                                  user_pte, user_pde, blocks >>
           ELSE /\ user_vaddr' = [user_vaddr EXCEPT ![p] = bitmap_set_run(@, bitstart, n, 1)]
                /\ user_bits' = Set(user_bits, taken, 1)
                /\ map_pages(p, [pg \in first .. first + mapped - 1 |-> Nth(taken, pg - first)])
                /\ blocks' = [blocks EXCEPT ![p] = @ \cup malloc_result(first, n, mapped)]
                /\ UNCHANGED << vaddr_bits, pte, holder, live, pc, loc, callers >>

-----------------------------------------------------------------------------
(* Freeing.                                                                *)

\* Mutant: the comparison leaves two frames to the kernel pool.
pfree_more(f) == IF f > 1 THEN f ELSE KernelRest + f

\* The bit of user_pool that pfree of frame f clears.  The first frame of the pool is
\* taken for one of the kernel's (the test is >): its index there is kernel_mem_page,
\* and user_pool's bitmap begins where the kernel's ends.
pfree(f) == IF f > 0 THEN f ELSE KernelRest

\* sys_free of a block of a process, with free_pages.  A block that begins with the
\* pool's first frame fails an ASSERT.  The loop looks up one page more than it frees,
\* and faults if that page has no page table.  The bits that vaddr_remove_pages clears
\* are those with the numbers of the pages, not those vaddr_get_pages has set.
user_free(p, b) ==
    LET pages == b.start .. b.start + b.cnt - 1
        faults == table(b.start + b.cnt) \notin user_pde[p]
    IN  /\ Running(p)
        /\ IF user_pte[p][b.start] = 0
           THEN halted' = "first" /\ UNCHANGED << user_bits, user_pte, user_vaddr, blocks >>
           ELSE /\ user_bits' = Set(user_bits, {pfree(user_pte[p][pg]) : pg \in pages}, 0)
                /\ user_pte' = [user_pte EXCEPT ![p] = Set(@, pages, NULL)]
                /\ user_vaddr' = IF faults THEN user_vaddr
                                 ELSE [user_vaddr EXCEPT ![p] = bitmap_set_run(@, b.start, b.cnt, 0)]
                /\ blocks' = [blocks EXCEPT ![p] = @ \ {b}]
                /\ halted' = IF faults THEN "fault" ELSE "no"
        /\ UNCHANGED << vars, callers, user_pde >>

-----------------------------------------------------------------------------
User ==
    \E p \in Procs :
        \/ start_process(p)
        \/ \E n \in Cnts : user_malloc(p, n)
        \/ \E b \in blocks[p] : user_free(p, b)

AllNext ==
    \/ "kernel" \in callers /\ halted = "no" /\ Next /\ UNCHANGED user_vars
    \/ "user" \in callers /\ (Overlap \/ \A t \in Threads : pc[t] = "idle") /\ User
    \/ halted # "no" /\ UNCHANGED all_vars

AllSpec == UserInit /\ [][AllNext]_all_vars

\* No definition tells one thread or one process from another.
CallerSymmetry == Permutations(Threads) \cup Permutations(Procs)

-----------------------------------------------------------------------------
(* Properties.                                                             *)

\* The ASSERT of page_table_add in a process's call: the page it maps is not present.
\* It can fail: a free clears the bits that have the numbers of its pages, another
\* block's, so a later malloc finds that block's first bit free and its pages present.
UserAbsent == halted # "present"

\* The ASSERT of free_pages never fails in a process's call: it leaves the pool's first
\* frame to the kernel pool, but no block ever has that frame, since the stack of the
\* process that started first has it, and keeps it whatever is allocated and freed.
FreeAsserts == halted # "first"

\* A user frame backs one page of one process and is marked in use in the pool, and what
\* sys_malloc returned is mapped, all of it, whatever blocks were allocated, not
\* allocated for want of frames, and freed before by whichever process, and although a
\* free clears the wrong bits of the process's address bitmap.  Those never include
\* the one of its stack.
FramesApart ==
    LET mapped == {m \in Procs \X (0 .. NUser) : user_pte[m[1]][m[2]] # NULL}
        frame(m) == user_pte[m[1]][m[2]]
    IN  halted \in {"no", "fault"} =>
            /\ \A m \in mapped : frame(m) # Frame0 => user_bits[frame(m)] = 1
            /\ \A m, k \in mapped : frame(m) = frame(k) /\ frame(m) # Frame0 => m = k
            /\ \A p \in Procs : \A b \in blocks[p] :
                    \A pg \in b.start .. b.start + b.cnt - 1 : << p, pg >> \in mapped
            /\ \A p \in Procs : << p, StackPage >> \in mapped => user_vaddr[p][StackPage] = 1

\* A process's free returns to the user pool the frames of its own block and no other,
\* although pfree would clear another frame's bit for the pool's first one.
FreesOwn ==
    [][\A p \in Procs : \A b \in blocks[p] \ blocks'[p] :
        {f \in UserFrames : user_bits'[f] # user_bits[f]}
            = {user_pte[p][pg] : pg \in b.start .. b.start + b.cnt - 1}]_all_vars
=============================================================================
