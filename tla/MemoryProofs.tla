---------------------------- MODULE MemoryProofs ----------------------------
(***************************************************************************)
(* The page allocator, for any number of threads and processes, any sizes  *)
(* of the pools and any requests: what holds as long as the calls that     *)
(* take no lock do not overlap with other calls.                           *)
(***************************************************************************)
EXTENDS UserMemory, LibProofs

Span(c) == c.start .. c.start + c.cnt - 1
Apart(a, b) == a.start + a.cnt <= b.start \/ b.start + b.cnt <= a.start

\* One call at a time.
Exclusive ==
    /\ \A t, u \in Threads : pc[t] # "idle" /\ pc[u] # "idle" => t = u
    /\ \A t \in Threads : pc[t] # "idle" => holder = t \/ t \in Unlocked
    /\ \A t \in Threads : pc[t] = "idle" => loc[t] = NoCall

\* The bits after the bitmaps, and the blocks in them.
Bounds ==
    /\ vaddr_bits[NPages] = 1 /\ pool_bits[NPages] = 1
    /\ \A a \in live : a.start + a.cnt <= NPages

Labels == {"idle", "vscan", "vset", "pscan", "pset", "map", "pfree", "vfree"}
Ops == {"none", "sys_malloc", "malloc_kernel_pages", "get_a_page", "sys_free"}
Calls == [op : Ops, cnt : 0 .. NPages, start : Pages, i : 0 .. NPages, frame : Pages]

Mallocs == {"sys_malloc", "malloc_kernel_pages"}

\* A call's pages: its own, the first i of them mapped (or, by free, unmapped).
Owns(c) ==
    /\ c.cnt \in Cnts /\ c.start + c.cnt <= NPages
    /\ \A p \in Span(c) : vaddr_bits[p] = 1
    /\ \A a \in live : Apart(a, c)

Progress(t) ==
    LET c == loc[t]
    IN  /\ pc[t] \in {"vscan", "vset"} => c.op \in Mallocs /\ c.cnt \in Cnts /\ c.i = 0
        /\ pc[t] = "vset" =>
            c.start + c.cnt <= NPages /\ \A p \in Span(c) : vaddr_bits[p] = 0
        /\ pc[t] \in {"pscan", "pset", "map"} =>
            \/ c.op = "get_a_page" /\ pc[t] # "map"
            \/ /\ c.op \in Mallocs /\ c.i < c.cnt /\ Owns(c)
               /\ \A p \in Span(c) : pte[p] # NULL <=> p < c.start + c.i
        /\ pc[t] = "pset" => pool_bits[c.frame] = 0
        /\ pc[t] = "map" =>
            /\ pool_bits[c.frame] = 1 /\ c.frame \notin tables
            /\ \A p \in Pages : pte[p] # c.frame
        /\ pc[t] \in {"pfree", "vfree"} =>
            /\ c.op = "sys_free" /\ Owns(c)
            /\ \A p \in Span(c) : pte[p] = NULL <=> p < c.start + c.i
            /\ IF pc[t] = "pfree" THEN c.i < c.cnt ELSE c.i = c.cnt

KernelInv ==
    /\ TypeOK
    /\ Exclusive
    /\ Bounds
    /\ Backed
    /\ LiveMapped
    /\ \A t \in Threads : Progress(t)

\* What the assumptions say of the numbers of pages.
LEMMA Constants ==
    /\ NPages \in Nat \ {0} /\ NPages = 8 * BitmapLen /\ Pages = 0 .. NPages - 1
    /\ Cnts \subseteq 1 .. NPages /\ NULL \notin Threads /\ NULL \notin Pages
BY MemAssumption DEF NPages, Pages

\* A request is for at least one page.
LEMMA CntsLemma == \A n \in Cnts : n \in Int /\ 1 <= n /\ n <= NPages
BY Constants

\* TypeOK with the sets named.
LEMMA TypeOKDef ==
    TypeOK <=>
        /\ vaddr_bits \in [0 .. NPages -> {0, 1}]
        /\ pool_bits \in [0 .. NPages -> {0, 1}]
        /\ pte \in [Pages -> Pages \cup {NULL}]
        /\ holder \in Threads \cup {NULL}
        /\ tables \subseteq Pages \cup {NULL}
        /\ live \subseteq [start : Pages, cnt : Cnts]
        /\ pc \in [Threads -> Labels]
        /\ loc \in [Threads -> Calls]
BY DEF TypeOK, Labels, Calls, Ops

\* While a call is under way, all other threads are elsewhere.
LEMMA OneCall ==
    ASSUME KernelInv, NEW t \in Threads, pc[t] # "idle"
    PROVE  \A u \in Threads : u # t => pc[u] = "idle" /\ loc[u] = NoCall
BY DEF KernelInv, Exclusive

\* The end of a call.
LEMMA ReturnLemma ==
    ASSUME KernelInv, NEW t \in Threads, pc[t] # "idle", Return(t)
    PROVE  /\ pc' \in [Threads -> Labels] /\ loc' \in [Threads -> Calls]
           /\ holder' \in Threads \cup {NULL}
           /\ Exclusive'
           /\ \A u \in Threads : pc'[u] = "idle" /\ Progress(u)'
<1>1. /\ pc' = [pc EXCEPT ![t] = "idle"] /\ loc' = [loc EXCEPT ![t] = NoCall]
      /\ holder' = IF holder = t THEN NULL ELSE holder
    BY DEF Return, Goto
<1>2. pc \in [Threads -> Labels] /\ loc \in [Threads -> Calls] /\ holder \in Threads \cup {NULL}
    BY TypeOKDef DEF KernelInv
<1>3. NoCall \in Calls
    BY Constants DEF NoCall, Calls, Ops
<1>4. pc' \in [Threads -> Labels] /\ loc' \in [Threads -> Calls]
    BY <1>1, <1>2, <1>3 DEF Labels
<1>5. \A u \in Threads : pc'[u] = "idle" /\ loc'[u] = NoCall
    BY <1>1, <1>2, OneCall
<1>6. Exclusive'
    BY <1>5 DEF Exclusive
<1>7. \A u \in Threads : Progress(u)'
    BY <1>5 DEF Progress
<1>8. QED
    BY <1>1, <1>2, <1>4, <1>5, <1>6, <1>7

\* A step within a call.
LEMMA GotoLemma ==
    ASSUME KernelInv, NEW t \in Threads, pc[t] # "idle",
           NEW label \in Labels \ {"idle"}, Goto(t, label), UNCHANGED holder,
           NEW c \in Calls, c.op = loc[t].op, loc' = [loc EXCEPT ![t] = c]
    PROVE  /\ pc' \in [Threads -> Labels] /\ loc' \in [Threads -> Calls]
           /\ holder' \in Threads \cup {NULL}
           /\ Exclusive'
           /\ pc'[t] = label /\ loc'[t] = c
           /\ \A u \in Threads : u # t => pc'[u] = "idle" /\ Progress(u)'
<1>1. pc \in [Threads -> Labels] /\ loc \in [Threads -> Calls] /\ holder \in Threads \cup {NULL}
    BY TypeOKDef DEF KernelInv
<1>2. pc' = [pc EXCEPT ![t] = label]
    BY DEF Goto
<1>3. pc' \in [Threads -> Labels] /\ loc' \in [Threads -> Calls] /\ pc'[t] = label /\ loc'[t] = c
    BY <1>1, <1>2
<1>4. \A u \in Threads : u # t => pc'[u] = "idle" /\ loc'[u] = NoCall
    BY <1>1, <1>2, OneCall
<1>5. holder' = t \/ t \in Unlocked'
    BY <1>3 DEF KernelInv, Exclusive, Unlocked
<1>6. Exclusive'
    BY <1>3, <1>4, <1>5 DEF Exclusive
<1>7. \A u \in Threads : u # t => Progress(u)'
    BY <1>4 DEF Progress
<1>8. QED
    BY <1>1, <1>3, <1>4, <1>6, <1>7

\* The beginning of a call.
LEMMA EnterLemma ==
    ASSUME KernelInv, NEW t \in Threads, \A u \in Threads : pc[u] = "idle",
           NEW name \in Ops, NEW label \in Labels \ {"idle"},
           NEW n \in 0 .. NPages, NEW first \in Pages,
           Enter(t, name, label, n, first),
           holder' = t \/ (UNCHANGED holder /\ name \in {"malloc_kernel_pages", "get_a_page"})
    PROVE  /\ pc' \in [Threads -> Labels] /\ loc' \in [Threads -> Calls]
           /\ holder' \in Threads \cup {NULL}
           /\ Exclusive'
           /\ pc'[t] = label
           /\ loc'[t] = [op |-> name, cnt |-> n, start |-> first, i |-> 0, frame |-> 0]
           /\ \A u \in Threads : u # t => pc'[u] = "idle" /\ Progress(u)'
<1> DEFINE c == [op |-> name, cnt |-> n, start |-> first, i |-> 0, frame |-> 0]
<1>1. pc \in [Threads -> Labels] /\ loc \in [Threads -> Calls] /\ holder \in Threads \cup {NULL}
    BY TypeOKDef DEF KernelInv
<1>2. pc' = [pc EXCEPT ![t] = label] /\ loc' = [loc EXCEPT ![t] = c]
    BY DEF Enter, Goto
<1>3. c \in Calls
    BY Constants DEF Calls
<1>4. pc' \in [Threads -> Labels] /\ loc' \in [Threads -> Calls] /\ pc'[t] = label /\ loc'[t] = c
    BY <1>1, <1>2, <1>3
<1>5. \A u \in Threads : u # t => pc'[u] = "idle" /\ loc'[u] = NoCall
    BY <1>1, <1>2 DEF KernelInv, Exclusive
<1>6. holder' = t \/ t \in Unlocked'
    BY <1>4 DEF Unlocked
<1>7. Exclusive'
    BY <1>4, <1>5, <1>6 DEF Exclusive
<1>8. \A u \in Threads : u # t => Progress(u)'
    BY <1>5 DEF Progress
<1>9. QED
    BY <1>1, <1>4, <1>5, <1>7, <1>8

\* The pool's lock keeps the calls apart that take it.
LEMMA LockFree ==
    ASSUME KernelInv, holder = NULL, Unlocked = {}
    PROVE  \A u \in Threads : pc[u] = "idle"
BY Constants DEF KernelInv, Exclusive

-----------------------------------------------------------------------------
(* The calls.                                                              *)

\* sys_malloc takes the lock and keeps the invariant.
LEMMA SysMallocKernel ==
    ASSUME KernelInv, NEW t \in Threads, NEW n \in Cnts, Unlocked = {}, sys_malloc(t, n)
    PROVE  KernelInv'
<1>1. Enter(t, "sys_malloc", "vscan", n, 0) /\ holder' = t /\ UNCHANGED << shared, live >>
    BY DEF sys_malloc
<1>2. \A u \in Threads : pc[u] = "idle"
    BY LockFree DEF sys_malloc
<1>3. n \in 0 .. NPages /\ 0 \in Pages /\ "sys_malloc" \in Ops /\ "vscan" \in Labels \ {"idle"}
    BY Constants DEF Ops, Labels
<1>4. /\ pc' \in [Threads -> Labels] /\ loc' \in [Threads -> Calls]
      /\ holder' \in Threads \cup {NULL} /\ Exclusive' /\ pc'[t] = "vscan"
      /\ loc'[t] = [op |-> "sys_malloc", cnt |-> n, start |-> 0, i |-> 0, frame |-> 0]
      /\ \A u \in Threads : u # t => Progress(u)'
    BY <1>1, <1>2, <1>3, EnterLemma
<1>5. TypeOK'
    BY <1>1, <1>4 DEF KernelInv, TypeOK, Labels, Calls, Ops, shared
<1>6. Bounds' /\ Backed' /\ LiveMapped'
    BY <1>1 DEF KernelInv, Bounds, Backed, LiveMapped, shared
<1>7. Progress(t)'
    BY <1>4 DEF Progress, Mallocs
<1>8. QED
    BY <1>4, <1>5, <1>6, <1>7 DEF KernelInv

\* So does malloc_kernel_pages without the lock, while no other call is under way.
LEMMA MallocKernelPagesKernel ==
    ASSUME KernelInv, NEW t \in Threads, NEW n \in Cnts,
           \A u \in Threads : pc[u] = "idle", malloc_kernel_pages(t, n)
    PROVE  KernelInv'
<1>1. /\ Enter(t, "malloc_kernel_pages", "vscan", n, 0)
      /\ UNCHANGED << shared, holder, live >>
    BY DEF malloc_kernel_pages
<1>2. /\ n \in 0 .. NPages /\ 0 \in Pages
      /\ "malloc_kernel_pages" \in Ops /\ "vscan" \in Labels \ {"idle"}
    BY Constants DEF Ops, Labels
<1>3. /\ pc' \in [Threads -> Labels] /\ loc' \in [Threads -> Calls]
      /\ holder' \in Threads \cup {NULL} /\ Exclusive' /\ pc'[t] = "vscan"
      /\ loc'[t] = [op |-> "malloc_kernel_pages", cnt |-> n, start |-> 0, i |-> 0, frame |-> 0]
      /\ \A u \in Threads : u # t => Progress(u)'
    BY <1>1, <1>2, EnterLemma
<1>4. TypeOK'
    BY <1>1, <1>3 DEF KernelInv, TypeOK, Labels, Calls, Ops, shared
<1>5. Bounds' /\ Backed' /\ LiveMapped'
    BY <1>1 DEF KernelInv, Bounds, Backed, LiveMapped, shared
<1>6. Progress(t)'
    BY <1>3 DEF Progress, Mallocs
<1>7. QED
    BY <1>3, <1>4, <1>5, <1>6 DEF KernelInv

\* And get_a_page, for a page table.
LEMMA GetAPageKernel ==
    ASSUME KernelInv, NEW t \in Threads, \A u \in Threads : pc[u] = "idle", get_a_page(t)
    PROVE  KernelInv'
<1>1. Enter(t, "get_a_page", "pscan", 1, 0) /\ UNCHANGED << shared, holder, live >>
    BY DEF get_a_page
<1>2. /\ 1 \in 0 .. NPages /\ 0 \in Pages
      /\ "get_a_page" \in Ops /\ "pscan" \in Labels \ {"idle"}
    BY Constants DEF Ops, Labels
<1>3. /\ pc' \in [Threads -> Labels] /\ loc' \in [Threads -> Calls]
      /\ holder' \in Threads \cup {NULL} /\ Exclusive' /\ pc'[t] = "pscan"
      /\ loc'[t] = [op |-> "get_a_page", cnt |-> 1, start |-> 0, i |-> 0, frame |-> 0]
      /\ \A u \in Threads : u # t => Progress(u)'
    BY <1>1, <1>2, EnterLemma
<1>4. TypeOK'
    BY <1>1, <1>3 DEF KernelInv, TypeOK, Labels, Calls, Ops, shared
<1>5. Bounds' /\ Backed' /\ LiveMapped'
    BY <1>1 DEF KernelInv, Bounds, Backed, LiveMapped, shared
<1>6. Progress(t)'
    BY <1>3 DEF Progress
<1>7. QED
    BY <1>3, <1>4, <1>5, <1>6 DEF KernelInv

\* sys_free takes a block that is mapped, and that no other overlaps.
LEMMA SysFreeKernel ==
    ASSUME KernelInv, NEW t \in Threads, NEW a \in live, Unlocked = {}, sys_free(t, a)
    PROVE  KernelInv'
<1>1. /\ Enter(t, "sys_free", "pfree", a.cnt, a.start) /\ holder' = t
      /\ live' = live \ {a} /\ UNCHANGED shared
    BY DEF sys_free
<1>2. \A u \in Threads : pc[u] = "idle"
    BY LockFree DEF sys_free
<1>3. /\ live \subseteq [start : Pages, cnt : Cnts]
      /\ a.cnt \in Cnts /\ a.cnt \in 1 .. NPages /\ a.start \in Pages
      /\ "sys_free" \in Ops /\ "pfree" \in Labels \ {"idle"}
    BY Constants DEF KernelInv, TypeOK, Ops, Labels
<1>4. /\ pc' \in [Threads -> Labels] /\ loc' \in [Threads -> Calls]
      /\ holder' \in Threads \cup {NULL} /\ Exclusive' /\ pc'[t] = "pfree"
      /\ loc'[t] = [op |-> "sys_free", cnt |-> a.cnt, start |-> a.start, i |-> 0, frame |-> 0]
      /\ \A u \in Threads : u # t => Progress(u)'
    BY <1>1, <1>2, <1>3, EnterLemma
<1>5. TypeOK'
    BY <1>1, <1>4 DEF KernelInv, TypeOK, Labels, Calls, Ops, shared
<1>6. Bounds' /\ Backed' /\ LiveMapped'
    BY <1>1 DEF KernelInv, Bounds, Backed, LiveMapped, shared
<1>7. Progress(t)'
  <2>1. a.start + a.cnt <= NPages
    BY DEF KernelInv, Bounds
  <2>2. \A p \in a.start .. a.start + a.cnt - 1 : p \in Pages /\ pte[p] # NULL
    BY <1>3, <2>1, Constants DEF KernelInv, LiveMapped
  <2>3. \A p \in a.start .. a.start + a.cnt - 1 : vaddr_bits[p] = 1
    BY <2>2 DEF KernelInv, Backed
  <2>4. \A b \in live' : Apart(b, a)
    BY <1>1 DEF KernelInv, LiveMapped, Apart
  <2>5. Owns(loc[t])'
    BY <1>1, <1>3, <1>4, <2>1, <2>3, <2>4 DEF Owns, Span, Apart, shared
  <2>6. \A p \in Span(loc'[t]) : pte'[p] = NULL <=> p < loc'[t].start + loc'[t].i
    BY <1>1, <1>3, <1>4, <2>2, Constants DEF Span, shared
  <2>7. QED
    BY <1>3, <1>4, <2>5, <2>6 DEF Progress
<1>8. QED
    BY <1>4, <1>5, <1>6, <1>7 DEF KernelInv

-----------------------------------------------------------------------------
(* malloc_pages.                                                           *)

\* The variables' types, with the locals of one thread.
LEMMA Typed ==
    ASSUME KernelInv, NEW t \in Threads
    PROVE  /\ vaddr_bits \in [0 .. NPages -> {0, 1}]
           /\ pool_bits \in [0 .. NPages -> {0, 1}]
           /\ pte \in [Pages -> Pages \cup {NULL}]
           /\ tables \subseteq Pages \cup {NULL}
           /\ live \subseteq [start : Pages, cnt : Cnts]
           /\ loc \in [Threads -> Calls]
           /\ loc[t] \in Calls /\ loc[t].op \in Ops /\ loc[t].frame \in Pages
           /\ loc[t].cnt \in 0 .. NPages /\ loc[t].i \in 0 .. NPages /\ loc[t].start \in Pages
BY TypeOKDef DEF KernelInv, Calls

\* A block lies in the pages there are.
LEMMA LiveBlock ==
    ASSUME KernelInv, NEW a \in live
    PROVE  /\ a.start \in Int /\ 0 <= a.start /\ a.cnt \in Int /\ 1 <= a.cnt
           /\ a.start + a.cnt <= NPages
<1>1. a.start \in Pages /\ a.cnt \in Cnts
    BY TypeOKDef DEF KernelInv
<1>2. \A p \in Pages : p \in Int /\ 0 <= p
    BY Constants
<1>3. a.start + a.cnt <= NPages
    BY DEF KernelInv, Bounds
<1>4. QED
    BY <1>1, <1>2, <1>3, CntsLemma

\* What bitmap_scan finds in a bitmap of the kernel's is a run of clear bits inside it,
\* since the bit after it is set.
LEMMA KernelScan ==
    ASSUME NEW bits \in [0 .. NPages -> {0, 1}], bits[NPages] = 1, NEW n \in 1 .. NPages,
           NEW r, r = bitmap_scan(bits, BitmapLen, n), r # -1
    PROVE  r \in Pages /\ r + n <= NPages /\ \A p \in r .. r + n - 1 : bits[p] = 0
<1>1. BitmapLen \in Nat /\ n \in Nat \ {0} /\ IsBitmap(bits, BitmapLen)
    BY Constants, MemAssumption DEF IsBitmap
<1>2. r \in 0 .. NPages - 1 /\ r + n <= NPages + 1 /\ Run(bits, r, n)
    BY <1>1, ScanFirstFit, Constants
<1>3. \A p \in r .. r + n - 1 : bits[p] = 0
    BY <1>2 DEF Run
<1>4. r + n # NPages + 1
    BY <1>2, <1>3, Constants
<1>5. QED
    BY <1>2, <1>3, <1>4, Constants

\* A call returns and leaves the bitmaps, the page table and the blocks alone.
LEMMA GiveUp ==
    ASSUME KernelInv, NEW t \in Threads, pc[t] # "idle", Return(t),
           UNCHANGED << vaddr_bits, pool_bits, pte, live >>,
           tables' \in {tables, tables \cup {NULL}}
    PROVE  KernelInv'
<1>1. /\ pc' \in [Threads -> Labels] /\ loc' \in [Threads -> Calls]
      /\ holder' \in Threads \cup {NULL} /\ Exclusive'
      /\ \A u \in Threads : Progress(u)'
    BY ReturnLemma
<1>2. TypeOK'
    BY <1>1 DEF KernelInv, TypeOK, Labels, Calls, Ops
<1>3. tables' \ {NULL} = tables \ {NULL}
    OBVIOUS
<1>4. Bounds' /\ LiveMapped'
    BY DEF KernelInv, Bounds, LiveMapped
<1>5. Backed'
    BY <1>3 DEF KernelInv, Backed
<1>6. QED
    BY <1>1, <1>2, <1>4, <1>5 DEF KernelInv

\* vaddr_get_pages finds addresses that are free and inside the bitmap, or gives up.
LEMMA VaddrScanKernel ==
    ASSUME KernelInv, NEW t \in Threads, vaddr_scan(t)
    PROVE  KernelInv'
<1> DEFINE r == bitmap_scan(vaddr_bits, BitmapLen, loc[t].cnt)
           c == [loc[t] EXCEPT !.start = r]
<1>1. pc[t] = "vscan" /\ UNCHANGED << shared, live >>
    BY DEF vaddr_scan
<1>2. loc[t].op \in Mallocs /\ loc[t].cnt \in Cnts /\ loc[t].i = 0 /\ vaddr_bits[NPages] = 1
    BY <1>1 DEF KernelInv, Progress, Bounds
<1>3. CASE r = -1
    BY <1>1, <1>3, GiveUp DEF vaddr_scan, shared
<1>4. CASE r # -1
  <2>1. r \in Pages /\ r + loc[t].cnt <= NPages /\ \A p \in r .. r + loc[t].cnt - 1 : vaddr_bits[p] = 0
    BY <1>2, <1>4, KernelScan, Typed, Constants
  <2>2. loc' = [loc EXCEPT ![t].start = r] /\ Goto(t, "vset") /\ UNCHANGED holder
    BY <1>4 DEF vaddr_scan
  <2>3. c \in Calls /\ c.op = loc[t].op /\ c.cnt = loc[t].cnt /\ c.start = r /\ c.i = loc[t].i
    BY <2>1, Typed DEF Calls
  <2>4. loc' = [loc EXCEPT ![t] = c]
    BY <2>2, Typed
  <2>5. "vset" \in Labels \ {"idle"}
    BY DEF Labels
  <2>6. /\ pc' \in [Threads -> Labels] /\ loc' \in [Threads -> Calls]
        /\ holder' \in Threads \cup {NULL} /\ Exclusive' /\ pc'[t] = "vset" /\ loc'[t] = c
        /\ \A u \in Threads : u # t => Progress(u)'
    <3> HIDE DEF c, r
    <3>1. pc[t] # "idle" /\ Goto(t, "vset") /\ UNCHANGED holder
      BY <1>1, <2>2
    <3>2. QED
      BY <3>1, <2>3, <2>4, <2>5, GotoLemma
  <2>7. TypeOK'
    BY <1>1, <2>6 DEF KernelInv, TypeOK, Labels, Calls, Ops, shared
  <2>8. Bounds' /\ Backed' /\ LiveMapped'
    BY <1>1 DEF KernelInv, Bounds, Backed, LiveMapped, shared
  <2>9. Progress(t)'
    <3> HIDE DEF c, r
    <3> QED BY <1>1, <1>2, <2>1, <2>3, <2>6 DEF Progress, Span, shared
  <2>10. QED
    BY <2>6, <2>7, <2>8, <2>9 DEF KernelInv
<1>5. QED
    BY <1>3, <1>4

\* Marking them makes them the call's own: none was mapped, so no block has one.
LEMMA VaddrSetKernel ==
    ASSUME KernelInv, NEW t \in Threads, vaddr_set(t)
    PROVE  KernelInv'
<1> DEFINE c == loc[t]
<1>1. /\ pc[t] = "vset" /\ Goto(t, "pscan")
      /\ vaddr_bits' = bitmap_set_run(vaddr_bits, c.start, c.cnt, 1)
      /\ UNCHANGED << pool_bits, pte, holder, live, loc, tables >>
    BY DEF vaddr_set
<1>2. /\ c.op \in Mallocs /\ c.cnt \in Cnts /\ c.i = 0 /\ c.start + c.cnt <= NPages
      /\ \A p \in Span(c) : vaddr_bits[p] = 0
    BY <1>1 DEF KernelInv, Progress
<1>3. c \in Calls /\ loc' = [loc EXCEPT ![t] = c] /\ "pscan" \in Labels \ {"idle"}
    BY <1>1, Typed DEF Labels
<1>4. /\ pc' \in [Threads -> Labels] /\ loc' \in [Threads -> Calls]
      /\ holder' \in Threads \cup {NULL} /\ Exclusive' /\ pc'[t] = "pscan" /\ loc'[t] = c
      /\ \A u \in Threads : u # t => Progress(u)'
    BY <1>1, <1>3, GotoLemma
<1>5. /\ vaddr_bits' \in [0 .. NPages -> {0, 1}]
      /\ \A p \in 0 .. NPages : vaddr_bits[p] = 1 => vaddr_bits'[p] = 1
      /\ \A p \in Span(c) : p \in Pages /\ vaddr_bits'[p] = 1
    BY <1>1, <1>2, Typed, Constants DEF bitmap_set_run, Span
<1>6. TypeOK'
    BY <1>1, <1>4, <1>5 DEF KernelInv, TypeOK, Labels, Calls, Ops
<1>7. Bounds' /\ LiveMapped'
    BY <1>1, <1>5, Constants DEF KernelInv, Bounds, LiveMapped
<1>8. Backed'
    BY <1>1, <1>5, Constants DEF KernelInv, Backed
<1>9. Progress(t)'
  <2>1. \A p \in Span(c) : pte[p] = NULL
    BY <1>2, <1>5 DEF KernelInv, Backed
  <2>2. ASSUME NEW a \in live PROVE Apart(a, c)
    <3>1. \A p \in a.start .. a.start + a.cnt - 1 : p \notin Span(c)
      BY <2>1 DEF KernelInv, LiveMapped
    <3>2. /\ a.start \in Int /\ a.cnt \in Int /\ 1 <= a.cnt
          /\ c.start \in Int /\ c.cnt \in Int /\ 1 <= c.cnt
      <4>1. c.start \in Int
        BY Typed, Constants
      <4>2. QED
        BY <1>2, <4>1, LiveBlock, CntsLemma
    <3>3. a.start \notin Span(c) /\ (c.start \in a.start .. a.start + a.cnt - 1 => c.start \notin Span(c))
      BY <3>1, <3>2
    <3>4. QED
      BY <3>2, <3>3 DEF Apart, Span
  <2>3. Owns(loc[t])'
    BY <1>1, <1>2, <1>4, <1>5, <2>2 DEF Owns, Span, Apart
  <2>4. \A p \in Span(c) : ~(p < c.start + c.i)
    BY <1>2, Typed, Constants DEF Span
  <2>5. 0 < c.cnt
    BY <1>2, CntsLemma
  <2>6. QED
    BY <1>1, <1>2, <1>4, <2>1, <2>3, <2>4, <2>5 DEF Progress, Span
<1>10. QED
    BY <1>4, <1>6, <1>7, <1>8, <1>9 DEF KernelInv

\* palloc finds a free frame, or malloc_pages gives up with what it has.
LEMMA PallocScanKernel ==
    ASSUME KernelInv, NEW t \in Threads, palloc_scan(t)
    PROVE  KernelInv'
<1> DEFINE r == bitmap_scan(pool_bits, BitmapLen, 1)
           c == [loc[t] EXCEPT !.frame = r]
<1>1. pc[t] = "pscan" /\ UNCHANGED << vaddr_bits, pool_bits, pte, live >>
    BY DEF palloc_scan
<1>2. CASE r = -1
    BY <1>1, <1>2, GiveUp DEF palloc_scan
<1>3. CASE r # -1
  <2>1. r \in Pages /\ pool_bits[r] = 0
    <3>1. r \in Pages /\ \A p \in r .. r + 1 - 1 : pool_bits[p] = 0
      BY <1>3, KernelScan, Typed, Constants DEF KernelInv, Bounds
    <3>2. QED
      BY <3>1, Constants
  <2>2. loc' = [loc EXCEPT ![t].frame = r] /\ Goto(t, "pset") /\ UNCHANGED << holder, tables >>
    BY <1>3 DEF palloc_scan
  <2>3. /\ c \in Calls /\ c.op = loc[t].op /\ c.cnt = loc[t].cnt /\ c.start = loc[t].start
        /\ c.i = loc[t].i /\ c.frame = r
    BY <2>1, Typed DEF Calls
  <2>4. loc' = [loc EXCEPT ![t] = c]
    BY <2>2, Typed
  <2> HIDE DEF c, r
  <2>5. /\ pc' \in [Threads -> Labels] /\ loc' \in [Threads -> Calls]
        /\ holder' \in Threads \cup {NULL} /\ Exclusive' /\ pc'[t] = "pset" /\ loc'[t] = c
        /\ \A u \in Threads : u # t => Progress(u)'
    <3>1. pc[t] # "idle" /\ Goto(t, "pset") /\ UNCHANGED holder /\ "pset" \in Labels \ {"idle"}
      BY <1>1, <2>2 DEF Labels
    <3>2. QED
      BY <3>1, <2>3, <2>4, GotoLemma
  <2>6. TypeOK'
    BY <1>1, <2>2, <2>5 DEF KernelInv, TypeOK, Labels, Calls, Ops
  <2>7. Bounds' /\ Backed' /\ LiveMapped'
    BY <1>1, <2>2 DEF KernelInv, Bounds, Backed, LiveMapped
  <2>8. Progress(t)'
    <3>1. \/ loc[t].op = "get_a_page"
          \/ /\ loc[t].op \in Mallocs /\ loc[t].i < loc[t].cnt /\ Owns(loc[t])
             /\ \A p \in Span(loc[t]) : pte[p] # NULL <=> p < loc[t].start + loc[t].i
      BY <1>1 DEF KernelInv, Progress
    <3>2. CASE loc[t].op = "get_a_page"
      BY <1>1, <2>1, <2>3, <2>5, <3>2 DEF Progress
    <3>3. CASE /\ loc[t].op \in Mallocs /\ loc[t].i < loc[t].cnt /\ Owns(loc[t])
               /\ \A p \in Span(loc[t]) : pte[p] # NULL <=> p < loc[t].start + loc[t].i
      <4>1. Owns(loc[t])'
        BY <1>1, <2>3, <2>5, <3>3 DEF Owns, Span, Apart
      <4>2. QED
        BY <1>1, <2>1, <2>3, <2>5, <3>3, <4>1 DEF Progress, Span
    <3>4. QED
      BY <3>1, <3>2, <3>3
  <2>9. QED
    BY <2>5, <2>6, <2>7, <2>8 DEF KernelInv
<1>4. QED
    BY <1>2, <1>3

\* Marking the frame: nothing had it before.
LEMMA PallocSetKernel ==
    ASSUME KernelInv, NEW t \in Threads, palloc_set(t)
    PROVE  KernelInv'
<1> DEFINE f == loc[t].frame
<1>1. /\ pc[t] = "pset" /\ pool_bits' = [pool_bits EXCEPT ![f] = 1]
      /\ UNCHANGED << vaddr_bits, pte, live >>
    BY DEF palloc_set, bitmap_set
<1>2. f \in Pages /\ pool_bits[f] = 0
    BY <1>1, Typed DEF KernelInv, Progress
<1>3. /\ pool_bits' \in [0 .. NPages -> {0, 1}]
      /\ \A g \in 0 .. NPages : pool_bits[g] = 1 => pool_bits'[g] = 1
      /\ pool_bits'[f] = 1
    BY <1>1, <1>2, Typed, Constants
\* Nothing had the frame.
<1>4. f \notin tables /\ \A p \in Pages : pte[p] # f
    BY <1>2, Constants DEF KernelInv, Backed
<1>5. Bounds' /\ LiveMapped'
    BY <1>1, <1>3, Constants DEF KernelInv, Bounds, LiveMapped
<1>6. ASSUME tables' \in {tables, tables \cup {f}}
      PROVE  Backed'
  <2>1. ASSUME NEW p \in Pages, pte[p] # NULL
        PROVE  vaddr_bits'[p] = 1 /\ pool_bits'[pte[p]] = 1
    BY <1>1, <1>3, <2>1, Typed, Constants DEF KernelInv, Backed
  <2>2. ASSUME NEW g \in tables' \ {NULL}
        PROVE  pool_bits'[g] = 1 /\ \A p \in Pages : pte[p] # g
    <3>1. CASE g = f
      BY <1>3, <1>4, <3>1
    <3>2. CASE g # f
      <4>1. g \in tables \ {NULL} /\ g \in 0 .. NPages
        BY <1>6, <3>2, Typed, Constants
      <4>2. QED
        BY <4>1, <1>3 DEF KernelInv, Backed
    <3>3. QED
      BY <3>1, <3>2
  <2>3. QED
    BY <1>1, <2>1, <2>2 DEF KernelInv, Backed
<1>7. CASE loc[t].op = "get_a_page"
  <2>1. tables' = tables \cup {f} /\ Return(t)
    BY <1>7 DEF palloc_set
  <2>2. /\ pc' \in [Threads -> Labels] /\ loc' \in [Threads -> Calls]
        /\ holder' \in Threads \cup {NULL} /\ Exclusive' /\ \A u \in Threads : Progress(u)'
    BY <1>1, <2>1, ReturnLemma
  <2>3. TypeOK'
    BY <1>1, <1>2, <1>3, <2>1, <2>2 DEF KernelInv, TypeOK, Labels, Calls, Ops
  <2>4. QED
    BY <1>5, <1>6, <2>1, <2>2, <2>3 DEF KernelInv
<1>8. CASE loc[t].op # "get_a_page"
  <2>1. Goto(t, "map") /\ UNCHANGED << holder, loc, tables >>
    BY <1>8 DEF palloc_set
  <2>2. loc' = [loc EXCEPT ![t] = loc[t]] /\ loc[t] \in Calls /\ "map" \in Labels \ {"idle"}
    BY <2>1, Typed DEF Labels
  <2>3. /\ pc' \in [Threads -> Labels] /\ loc' \in [Threads -> Calls]
        /\ holder' \in Threads \cup {NULL} /\ Exclusive' /\ pc'[t] = "map" /\ loc'[t] = loc[t]
        /\ \A u \in Threads : u # t => Progress(u)'
    BY <1>1, <2>1, <2>2, GotoLemma
  <2>4. TypeOK'
    BY <1>1, <1>3, <2>1, <2>3 DEF KernelInv, TypeOK, Labels, Calls, Ops
  <2>5. Progress(t)'
    <3>1. /\ loc[t].op \in Mallocs /\ loc[t].i < loc[t].cnt /\ Owns(loc[t])
          /\ \A p \in Span(loc[t]) : pte[p] # NULL <=> p < loc[t].start + loc[t].i
      BY <1>1, <1>8 DEF KernelInv, Progress
    <3>2. Owns(loc[t])'
      BY <1>1, <2>3, <3>1 DEF Owns, Span, Apart
    <3>3. QED
      BY <1>1, <1>3, <1>4, <2>1, <2>3, <3>1, <3>2 DEF Progress, Span
  <2>6. QED
    BY <1>5, <1>6, <2>1, <2>3, <2>4, <2>5 DEF KernelInv
<1>9. QED
    BY <1>7, <1>8

\* The page a malloc is at: the first one of its span that is not mapped.
LEMMA AtPage ==
    ASSUME KernelInv, NEW t \in Threads, pc[t] \in {"map", "pfree"}
    PROVE  /\ page(t) \in Pages /\ page(t) \in Span(loc[t]) /\ page(t) = loc[t].start + loc[t].i
           /\ loc[t].i < loc[t].cnt /\ Owns(loc[t]) /\ Span(loc[t]) \subseteq Pages
           /\ loc[t].start + loc[t].cnt <= NPages
<1>1. loc[t].i < loc[t].cnt /\ Owns(loc[t])
    BY DEF KernelInv, Progress
<1>2. loc[t].start + loc[t].cnt <= NPages
    BY <1>1 DEF Owns
<1>3. QED
    BY <1>1, <1>2, Typed, Constants DEF Span, page

\* The ASSERT of page_table_add holds.
LEMMA PteAbsentLemma ==
    ASSUME KernelInv, NEW t \in Threads, pc[t] = "map"
    PROVE  pte[page(t)] = NULL
<1>1. \A p \in Span(loc[t]) : pte[p] # NULL <=> p < loc[t].start + loc[t].i
    BY DEF KernelInv, Progress
<1>2. page(t) \in Span(loc[t]) /\ page(t) = loc[t].start + loc[t].i
    BY AtPage
<1>3. ~(loc[t].start + loc[t].i < loc[t].start + loc[t].i)
    BY Typed, Constants
<1>4. QED
    BY <1>1, <1>2, <1>3

\* One page more is mapped, or the last one and the block is returned.
LEMMA PageTableAddKernel ==
    ASSUME KernelInv, NEW t \in Threads, page_table_add(t)
    PROVE  KernelInv'
<1> DEFINE c == loc[t]
           d == [c EXCEPT !.i = @ + 1]
<1>1. /\ pc[t] = "map" /\ pte' = [pte EXCEPT ![page(t)] = c.frame]
      /\ UNCHANGED << vaddr_bits, pool_bits, tables >>
    BY DEF page_table_add
<1>2. /\ page(t) \in Pages /\ page(t) \in Span(c) /\ page(t) = c.start + c.i
      /\ c.i < c.cnt /\ Owns(c) /\ Span(c) \subseteq Pages /\ pte[page(t)] = NULL
      /\ c.start + c.cnt <= NPages
    BY <1>1, AtPage, PteAbsentLemma
<1>3. /\ c.op \in Mallocs
      /\ \A p \in Span(c) : pte[p] # NULL <=> p < c.start + c.i
      /\ pool_bits[c.frame] = 1 /\ c.frame \notin tables
      /\ \A p \in Pages : pte[p] # c.frame
    BY <1>1 DEF KernelInv, Progress
<1>4. c.frame \in Pages /\ c.frame # NULL
    BY Typed, Constants
<1>5. /\ pte' \in [Pages -> Pages \cup {NULL}] /\ pte'[page(t)] = c.frame
      /\ \A p \in Pages : p # page(t) => pte'[p] = pte[p]
    BY <1>1, <1>2, <1>4, Typed
<1>6. Backed'
  <2>1. vaddr_bits[page(t)] = 1
    BY <1>2 DEF Owns
  <2>2. \A p \in Pages : pte'[p] # NULL => vaddr_bits[p] = 1 /\ pool_bits[pte'[p]] = 1
    BY <1>3, <1>5, <2>1 DEF KernelInv, Backed
  <2>3. \A p, q \in Pages : pte'[p] # NULL /\ pte'[p] = pte'[q] => p = q
    BY <1>3, <1>5 DEF KernelInv, Backed
  <2>4. \A f \in tables \ {NULL} : pool_bits[f] = 1 /\ \A p \in Pages : pte'[p] # f
    BY <1>3, <1>5 DEF KernelInv, Backed
  <2>5. QED
    BY <1>1, <2>2, <2>3, <2>4 DEF Backed
<1>7. /\ \A a \in live : a.start + a.cnt <= NPages
      /\ \A a \in live : \A p \in a.start .. a.start + a.cnt - 1 : p \in Pages /\ pte'[p] # NULL
  <2>1. \A a \in live : a.start + a.cnt <= NPages
    BY DEF KernelInv, Bounds
  <2>2. ASSUME NEW a \in live, NEW p \in a.start .. a.start + a.cnt - 1
        PROVE  p \in Pages /\ pte'[p] # NULL
    <3>1. p \in Pages
      BY LiveBlock, Constants
    <3>2. pte[p] # NULL
      BY DEF KernelInv, LiveMapped
    <3>3. QED
      BY <1>4, <1>5, <3>1, <3>2
  <2>3. QED
    BY <2>1, <2>2
<1>8. CASE c.i + 1 < c.cnt
  <2>1. loc' = [loc EXCEPT ![t].i = @ + 1] /\ Goto(t, "pscan") /\ UNCHANGED << holder, live >>
    <3>1. ~(c.i + 1 = c.cnt)
      BY <1>8, Typed, Constants
    <3>2. QED
      BY <3>1 DEF page_table_add
  <2>2. /\ d \in Calls /\ d.op = c.op /\ d.cnt = c.cnt /\ d.start = c.start
        /\ d.i = c.i + 1 /\ d.frame = c.frame
    BY <1>8, Typed, Constants DEF Calls
  <2>3. loc' = [loc EXCEPT ![t] = d]
    BY <2>1, Typed
  <2> HIDE DEF d
  <2>4. /\ pc' \in [Threads -> Labels] /\ loc' \in [Threads -> Calls]
        /\ holder' \in Threads \cup {NULL} /\ Exclusive' /\ pc'[t] = "pscan" /\ loc'[t] = d
        /\ \A u \in Threads : u # t => Progress(u)'
    <3>1. pc[t] # "idle" /\ Goto(t, "pscan") /\ UNCHANGED holder /\ "pscan" \in Labels \ {"idle"}
      BY <1>1, <2>1 DEF Labels
    <3>2. QED
      BY <3>1, <2>2, <2>3, GotoLemma
  <2>5. TypeOK'
    BY <1>1, <1>5, <2>1, <2>4 DEF KernelInv, TypeOK, Labels, Calls, Ops
  <2>6. Bounds' /\ LiveMapped'
    BY <1>1, <1>7, <2>1 DEF KernelInv, Bounds, LiveMapped
  <2>7. Progress(t)'
    <3>1. Owns(loc[t])'
      BY <1>1, <1>2, <2>1, <2>2, <2>4 DEF Owns, Span, Apart
    <3>2. ASSUME NEW p \in Span(c) PROVE pte'[p] # NULL <=> p < c.start + (c.i + 1)
      <4>1. p \in Int /\ c.start \in Int /\ c.i \in Int
        BY <1>2, Typed, Constants DEF Span
      <4>2. CASE p = page(t)
        BY <1>2, <1>4, <1>5, <4>1, <4>2
      <4>3. CASE p # page(t)
        BY <1>2, <1>3, <1>5, <4>1, <4>3
      <4>4. QED
        BY <4>2, <4>3
    <3>3. Span(d) = Span(c)
      BY <2>2 DEF Span
    <3>4. QED
      BY <1>3, <1>8, <2>2, <2>4, <3>1, <3>2, <3>3 DEF Progress
  <2>8. QED
    BY <1>6, <2>4, <2>5, <2>6, <2>7 DEF KernelInv
<1>9. CASE c.i + 1 = c.cnt
  <2> DEFINE b == [start |-> c.start, cnt |-> c.cnt]
  <2>1. Return(t) /\ live' = IF c.op = "sys_malloc" THEN live \cup {b} ELSE live
    <3>1. ~(c.i + 1 < c.cnt)
      BY <1>9, Typed, Constants
    <3>2. QED
      BY <3>1 DEF page_table_add
  <2>2. b \in [start : Pages, cnt : Cnts] /\ b.start = c.start /\ b.cnt = c.cnt
    BY <1>2, Typed DEF Owns
  <2> HIDE DEF b
  <2>3. /\ pc' \in [Threads -> Labels] /\ loc' \in [Threads -> Calls]
        /\ holder' \in Threads \cup {NULL} /\ Exclusive' /\ \A u \in Threads : Progress(u)'
    BY <1>1, <2>1, ReturnLemma
  <2>4. TypeOK'
    BY <1>1, <1>5, <2>1, <2>2, <2>3 DEF KernelInv, TypeOK, Labels, Calls, Ops
  <2>5. Bounds'
    BY <1>1, <1>2, <1>7, <2>1, <2>2 DEF KernelInv, Bounds
  <2>6. \A p \in b.start .. b.start + b.cnt - 1 : pte'[p] # NULL
    <3>1. ASSUME NEW p \in Span(c) PROVE pte'[p] # NULL
      <4>1. p \in Int /\ c.start \in Int /\ c.i \in Int /\ p <= c.start + c.i
        BY <1>2, <1>9, Typed, Constants DEF Span
      <4>2. CASE p = page(t)
        BY <1>4, <1>5, <4>2
      <4>3. CASE p # page(t)
        BY <1>2, <1>3, <1>5, <4>1, <4>3
      <4>4. QED
        BY <4>2, <4>3
    <3>2. QED
      BY <2>2, <3>1 DEF Span
  <2>7. \A a \in live : Apart(a, b) /\ Apart(b, a)
    BY <1>2, <2>2 DEF Owns, Apart
  <2>8. LiveMapped'
    BY <1>7, <2>1, <2>6, <2>7 DEF KernelInv, LiveMapped, Apart
  <2>9. QED
    BY <1>6, <2>3, <2>4, <2>5, <2>8 DEF KernelInv
<1>10. QED
    BY <1>8, <1>9 DEF page_table_add

-----------------------------------------------------------------------------
(* free_pages.                                                             *)

\* One page less is mapped, and its frame is free.
LEMMA FreeAPageKernel ==
    ASSUME KernelInv, NEW t \in Threads, free_a_page(t)
    PROVE  KernelInv'
<1> DEFINE c == loc[t]
           d == [c EXCEPT !.i = @ + 1]
           f == pte[page(t)]
           label == IF c.i + 1 < c.cnt THEN "pfree" ELSE "vfree"
<1>1. /\ pc[t] = "pfree" /\ pte' = [pte EXCEPT ![page(t)] = NULL]
      /\ pool_bits' = [pool_bits EXCEPT ![f] = 0]
      /\ loc' = [loc EXCEPT ![t].i = @ + 1] /\ Goto(t, label)
      /\ UNCHANGED << vaddr_bits, holder, live, tables >>
    BY DEF free_a_page, bitmap_set
<1>2. /\ page(t) \in Pages /\ page(t) \in Span(c) /\ page(t) = c.start + c.i
      /\ c.i < c.cnt /\ Owns(c) /\ Span(c) \subseteq Pages
    BY <1>1, AtPage
<1>3. c.op = "sys_free" /\ \A p \in Span(c) : pte[p] = NULL <=> p < c.start + c.i
    BY <1>1 DEF KernelInv, Progress
<1>4. f \in Pages /\ f # NULL
  <2>1. ~(c.start + c.i < c.start + c.i)
    BY Typed, Constants
  <2>2. f # NULL
    BY <1>2, <1>3, <2>1
  <2>3. QED
    BY <1>2, <2>2, Typed
<1>5. /\ pte' \in [Pages -> Pages \cup {NULL}] /\ pte'[page(t)] = NULL
      /\ \A p \in Pages : p # page(t) => pte'[p] = pte[p]
    BY <1>1, <1>2, Typed
<1>6. /\ pool_bits' \in [0 .. NPages -> {0, 1}]
      /\ \A g \in 0 .. NPages : g # f => pool_bits'[g] = pool_bits[g]
    BY <1>1, <1>4, Typed, Constants
<1>7. /\ d \in Calls /\ d.op = c.op /\ d.cnt = c.cnt /\ d.start = c.start /\ d.i = c.i + 1
  <2>1. c.i + 1 \in 0 .. NPages
    BY <1>2, Typed, Constants
  <2>2. QED
    BY <2>1, Typed DEF Calls
<1>8. loc' = [loc EXCEPT ![t] = d]
    BY <1>1, Typed
<1>9. label \in Labels \ {"idle"}
    BY DEF Labels
<1> HIDE DEF d, f
<1>10. /\ pc' \in [Threads -> Labels] /\ loc' \in [Threads -> Calls]
       /\ holder' \in Threads \cup {NULL} /\ Exclusive' /\ pc'[t] = label /\ loc'[t] = d
       /\ \A u \in Threads : u # t => Progress(u)'
  <2> HIDE DEF label
  <2>1. pc[t] # "idle" /\ Goto(t, label) /\ UNCHANGED holder
    BY <1>1
  <2>2. QED
    BY <2>1, <1>7, <1>8, <1>9, GotoLemma
<1>11. TypeOK'
    BY <1>1, <1>5, <1>6, <1>10 DEF KernelInv, TypeOK, Labels, Calls, Ops
<1>12. Bounds'
    BY <1>1, <1>4, <1>6, Constants DEF KernelInv, Bounds
\* The frame backed this page only, so the other pages and the page tables keep theirs.
<1>13. Backed'
  <2>1. ASSUME NEW p \in Pages, pte'[p] # NULL
        PROVE  p # page(t) /\ pte'[p] = pte[p] /\ pte[p] # f /\ pte[p] \in Pages
    BY <1>2, <1>5, <2>1, Typed DEF KernelInv, Backed, f
  <2>2. ASSUME NEW p \in Pages, pte'[p] # NULL
        PROVE  vaddr_bits[p] = 1 /\ pool_bits'[pte'[p]] = 1
    BY <1>6, <2>1, <2>2, Constants DEF KernelInv, Backed
  <2>3. \A p, q \in Pages : pte'[p] # NULL /\ pte'[p] = pte'[q] => p = q
    BY <2>1 DEF KernelInv, Backed
  <2>4. ASSUME NEW g \in tables \ {NULL}
        PROVE  pool_bits'[g] = 1 /\ \A p \in Pages : pte'[p] # g
    <3>1. g # f /\ g \in Pages /\ g # NULL
      BY <1>2, Typed DEF KernelInv, Backed, f
    <3>2. QED
      BY <3>1, <1>5, <1>6, Constants DEF KernelInv, Backed
  <2>5. QED
    BY <1>1, <2>2, <2>3, <2>4 DEF Backed
<1>14. LiveMapped'
  <2>1. ASSUME NEW a \in live, NEW p \in a.start .. a.start + a.cnt - 1
        PROVE  pte'[p] # NULL
    <3>1. p \in Pages
      BY LiveBlock, Constants
    <3>2. Apart(a, c)
      BY <1>2 DEF Owns
    <3>3. p # page(t)
      <4>1. c.start \in Int /\ c.cnt \in Int /\ c.i \in Int /\ 0 <= c.i /\ c.i < c.cnt
        BY <1>2, Typed, Constants
      <4>2. a.start \in Int /\ a.cnt \in Int
        BY LiveBlock
      <4>3. page(t) = c.start + c.i
        BY <1>2
      <4> HIDE DEF c
      <4>4. QED
        BY <3>2, <4>1, <4>2, <4>3 DEF Apart
    <3>4. QED
      BY <1>5, <3>1, <3>3 DEF KernelInv, LiveMapped
  <2>2. QED
    BY <1>1, <2>1 DEF KernelInv, LiveMapped
<1>15. Progress(t)'
  <2>1. Owns(loc[t])'
    BY <1>1, <1>2, <1>7, <1>10 DEF Owns, Span, Apart
  <2>2. ASSUME NEW p \in Span(c) PROVE pte'[p] = NULL <=> p < c.start + (c.i + 1)
    <3>1. p \in Int /\ c.start \in Int /\ c.i \in Int
      BY <1>2, Typed, Constants DEF Span
    <3>2. CASE p = page(t)
      BY <1>2, <1>5, <3>1, <3>2
    <3>3. CASE p # page(t)
      BY <1>2, <1>3, <1>5, <3>1, <3>3
    <3>4. QED
      BY <3>2, <3>3
  <2>3. Span(d) = Span(c)
    BY <1>7 DEF Span
  <2>4. CASE c.i + 1 < c.cnt
    BY <1>3, <1>7, <1>10, <2>1, <2>2, <2>3, <2>4 DEF Progress
  <2>5. CASE ~(c.i + 1 < c.cnt)
    <3>1. c.i + 1 = c.cnt
      BY <1>2, <2>5, Typed, Constants
    <3>2. QED
      BY <1>3, <1>7, <1>10, <2>1, <2>2, <2>3, <2>5, <3>1 DEF Progress
  <2>6. QED
    BY <2>4, <2>5
<1>16. QED
    BY <1>10, <1>11, <1>12, <1>13, <1>14, <1>15 DEF KernelInv

\* The addresses are free again when all their pages are unmapped.
LEMMA VaddrRemovePagesKernel ==
    ASSUME KernelInv, NEW t \in Threads, vaddr_remove_pages(t)
    PROVE  KernelInv'
<1> DEFINE c == loc[t]
<1>1. /\ pc[t] = "vfree" /\ Return(t)
      /\ vaddr_bits' = bitmap_set_run(vaddr_bits, c.start, c.cnt, 0)
      /\ UNCHANGED << pool_bits, pte, live, tables >>
    BY DEF vaddr_remove_pages
<1>2. /\ Owns(c) /\ c.i = c.cnt
      /\ \A p \in Span(c) : pte[p] = NULL <=> p < c.start + c.i
    BY <1>1 DEF KernelInv, Progress
<1>3. c.cnt \in Cnts /\ c.start + c.cnt <= NPages
    BY <1>2 DEF Owns
\* All its pages are unmapped.
<1>4. \A p \in Span(c) : pte[p] = NULL
    BY <1>2, Typed, Constants DEF Span
<1>5. /\ vaddr_bits' \in [0 .. NPages -> {0, 1}]
      /\ \A p \in 0 .. NPages : p \notin Span(c) => vaddr_bits'[p] = vaddr_bits[p]
      /\ NPages \notin Span(c)
    BY <1>1, <1>3, Typed, Constants DEF bitmap_set_run, Span
<1>6. /\ pc' \in [Threads -> Labels] /\ loc' \in [Threads -> Calls]
      /\ holder' \in Threads \cup {NULL} /\ Exclusive' /\ \A u \in Threads : Progress(u)'
    BY <1>1, ReturnLemma
<1>7. TypeOK'
    BY <1>1, <1>5, <1>6 DEF KernelInv, TypeOK, Labels, Calls, Ops
<1>8. Bounds' /\ LiveMapped'
    BY <1>1, <1>5, Constants DEF KernelInv, Bounds, LiveMapped
<1>9. Backed'
  <2>1. \A p \in Pages : pte[p] # NULL => vaddr_bits'[p] = 1 /\ pool_bits[pte[p]] = 1
    BY <1>4, <1>5, Constants DEF KernelInv, Backed
  <2>2. QED
    BY <1>1, <2>1 DEF KernelInv, Backed
<1>10. QED
    BY <1>6, <1>7, <1>8, <1>9 DEF KernelInv

-----------------------------------------------------------------------------
(* All the steps of the kernel, and what the processes' steps do to it.    *)

\* Every step of the kernel's calls keeps the invariant.
LEMMA KernelStep ==
    ASSUME KernelInv, ~Overlap, Next
    PROVE  KernelInv'
<1>1. PICK t \in Threads :
        \/ LockedCall(t) \/ UnlockedCall(t)
        \/ vaddr_scan(t) \/ vaddr_set(t)
        \/ palloc_scan(t) \/ palloc_set(t) \/ page_table_add(t)
        \/ free_a_page(t) \/ vaddr_remove_pages(t)
    BY DEF Next
<1>2. CASE LockedCall(t)
    BY <1>2, SysMallocKernel, SysFreeKernel DEF LockedCall
<1>3. CASE UnlockedCall(t)
    BY <1>3, MallocKernelPagesKernel, GetAPageKernel DEF UnlockedCall
<1>4. CASE vaddr_scan(t) \/ vaddr_set(t)
    BY <1>4, VaddrScanKernel, VaddrSetKernel
<1>5. CASE palloc_scan(t) \/ palloc_set(t) \/ page_table_add(t)
    BY <1>5, PallocScanKernel, PallocSetKernel, PageTableAddKernel
<1>6. CASE free_a_page(t) \/ vaddr_remove_pages(t)
    BY <1>6, FreeAPageKernel, VaddrRemovePagesKernel
<1>7. QED
    BY <1>1, <1>2, <1>3, <1>4, <1>5, <1>6

\* Frames taken from kernel_pool for page tables, all of them free before.
LEMMA TablesKernel ==
    ASSUME KernelInv, \A t \in Threads : pc[t] = "idle",
           NEW kernel \in SUBSET Pages, \A f \in kernel : pool_bits[f] = 0,
           pool_bits' = Set(pool_bits, kernel, 1), tables' = tables \cup kernel,
           UNCHANGED << vaddr_bits, pte, holder, live, pc, loc >>
    PROVE  KernelInv'
<1>1. /\ vaddr_bits \in [0 .. NPages -> {0, 1}] /\ pool_bits \in [0 .. NPages -> {0, 1}]
      /\ pte \in [Pages -> Pages \cup {NULL}] /\ tables \subseteq Pages \cup {NULL}
    BY DEF KernelInv, TypeOK
<1>2. /\ pool_bits' \in [0 .. NPages -> {0, 1}]
      /\ \A f \in 0 .. NPages : pool_bits[f] = 1 => pool_bits'[f] = 1
      /\ \A f \in kernel : pool_bits'[f] = 1
    BY <1>1, Constants DEF Set
<1>3. TypeOK'
    BY <1>2 DEF KernelInv, TypeOK
<1>4. Exclusive' /\ LiveMapped'
    BY DEF KernelInv, Exclusive, LiveMapped, Unlocked
<1>5. Bounds'
    BY <1>2, Constants DEF KernelInv, Bounds
<1>6. Backed'
  <2>1. \A p \in Pages : pte[p] # NULL => vaddr_bits[p] = 1 /\ pool_bits'[pte[p]] = 1
    BY <1>1, <1>2, Constants DEF KernelInv, Backed
  <2>2. ASSUME NEW f \in tables' \ {NULL}
        PROVE  pool_bits'[f] = 1 /\ \A p \in Pages : pte[p] # f
    <3>1. CASE f \in kernel
      <4>1. pool_bits[f] # 1 /\ f # NULL
        BY <3>1, Constants
      <4>2. QED
        BY <3>1, <4>1, <1>2 DEF KernelInv, Backed
    <3>2. CASE f \notin kernel
      <4>1. f \in tables \ {NULL} /\ f \in 0 .. NPages
        BY <1>1, <3>2, Constants
      <4>2. QED
        BY <4>1, <1>2 DEF KernelInv, Backed
    <3>3. QED
      BY <3>1, <3>2
  <2>3. QED
    BY <2>1, <2>2 DEF KernelInv, Backed
<1>7. \A t \in Threads : Progress(t)'
    BY DEF Progress
<1>8. QED
    BY <1>3, <1>4, <1>5, <1>6, <1>7 DEF KernelInv

\* page_table_add of a process takes free frames, or none.
LEMMA MapPagesKernel ==
    ASSUME KernelInv, \A t \in Threads : pc[t] = "idle",
           NEW p \in Procs, NEW frames, map_pages(p, frames),
           UNCHANGED << vaddr_bits, pte, holder, live, pc, loc >>
    PROVE  KernelInv'
<1> DEFINE kernel == palloc(pool_bits, BitmapLen,
                            Cardinality({table(pg) : pg \in DOMAIN frames} \ user_pde[p]))
<1>1. pool_bits \in [0 .. NPages -> {0, 1}]
    BY DEF KernelInv, TypeOK
<1>2. kernel \subseteq Pages /\ \A f \in kernel : pool_bits[f] = 0
    BY <1>1, Constants DEF palloc, bitmap_scan_test
<1>3. CASE pool_bits' = Set(pool_bits, kernel, 1) /\ tables' = tables \cup kernel
  <2> HIDE DEF kernel
  <2> QED BY <1>2, <1>3, TablesKernel
<1>4. CASE UNCHANGED << pool_bits, tables >>
  <2>1. pool_bits' = Set(pool_bits, {}, 1)
    BY <1>1, <1>4 DEF Set
  <2>2. QED
    BY <2>1, <1>4, TablesKernel
<1>5. QED
    BY <1>3, <1>4 DEF map_pages

\* No variable of the kernel's changes.
LEMMA StutterKernel ==
    ASSUME KernelInv, UNCHANGED vars
    PROVE  KernelInv'
<1>1. UNCHANGED << vaddr_bits, pool_bits, pte, holder, tables, live, pc, loc >>
    BY DEF vars, shared
<1>2. TypeOK' /\ Exclusive' /\ Bounds' /\ Backed' /\ LiveMapped'
    BY <1>1 DEF KernelInv, TypeOK, Exclusive, Bounds, Backed, LiveMapped, Unlocked
<1>3. \A t \in Threads : Progress(t)'
    BY <1>1 DEF KernelInv, Progress, Owns, Span, Apart
<1>4. QED
    BY <1>2, <1>3 DEF KernelInv

\* So do the steps of the processes.
LEMMA UserKernel ==
    ASSUME KernelInv, \A t \in Threads : pc[t] = "idle", User
    PROVE  KernelInv'
<1>1. PICK p \in Procs : \/ start_process(p)
                         \/ \E n \in Cnts : user_malloc(p, n)
                         \/ \E b \in blocks[p] : user_free(p, b)
    BY DEF User
<1>2. CASE start_process(p)
    BY <1>2, MapPagesKernel DEF start_process
<1>3. ASSUME NEW n \in Cnts, user_malloc(p, n) PROVE KernelInv'
    BY <1>3, MapPagesKernel, StutterKernel DEF user_malloc, all_vars
<1>4. ASSUME NEW b \in blocks[p], user_free(p, b) PROVE KernelInv'
    BY <1>4, StutterKernel DEF user_free
<1>5. QED
    BY <1>1, <1>2, <1>3, <1>4

\* What start-up has allocated satisfies the invariant.
LEMMA InitKernel == Init => KernelInv
<1> SUFFICES ASSUME Init PROVE KernelInv
    OBVIOUS
<1>1. NoCall \in Calls /\ "idle" \in Labels
    BY Constants DEF NoCall, Calls, Ops, Labels
<1>2. BootPages \subseteq BootFrames /\ BootFrames \subseteq Pages
    BY MemAssumption
<1>3. TypeOK
    BY <1>1, <1>2, Constants, TypeOKDef DEF Init
<1>4. Exclusive
    BY DEF Init, Exclusive
<1>5. Bounds /\ LiveMapped
    BY Constants DEF Init, Bounds, LiveMapped
<1>6. Backed
    BY <1>2, Constants DEF Init, Backed
<1>7. \A t \in Threads : Progress(t)
    BY DEF Init, Progress
<1>8. QED
    BY <1>3, <1>4, <1>5, <1>6, <1>7 DEF KernelInv

\* As long as the calls without the lock do not overlap with others, the kernel's
\* allocator keeps its invariant, whatever threads and processes ask for.
THEOREM KernelInvariance ==
    ASSUME ~Overlap
    PROVE  AllSpec => []KernelInv
<1>1. UserInit => KernelInv
    BY InitKernel DEF UserInit
<1>2. ASSUME KernelInv, [AllNext]_all_vars PROVE KernelInv'
  <2>1. CASE Next
    BY <1>2, <2>1, KernelStep
  <2>2. CASE (\A t \in Threads : pc[t] = "idle") /\ User
    BY <1>2, <2>2, UserKernel
  <2>3. CASE UNCHANGED all_vars
    BY <1>2, <2>3, StutterKernel DEF all_vars
  <2>4. QED
    BY <1>2, <2>1, <2>2, <2>3 DEF AllNext
<1>3. QED
    BY <1>1, <1>2, PTL DEF AllSpec

\* Type correctness: no scan or palloc result that means failure is used as an index.
THEOREM TypeSafe ==
    ASSUME ~Overlap
    PROVE  AllSpec => []TypeOK
<1>1. KernelInv => TypeOK
    BY DEF KernelInv
<1>2. QED
    BY <1>1, KernelInvariance, PTL

\* page_table_add's ASSERT never fails.
THEOREM PteAbsentSafe ==
    ASSUME ~Overlap
    PROVE  AllSpec => []PteAbsent
<1>1. KernelInv => PteAbsent
    BY PteAbsentLemma DEF PteAbsent
<1>2. QED
    BY <1>1, KernelInvariance, PTL

\* Mapped pages and frames are in use, and no frame has two uses.
THEOREM BackedSafe ==
    ASSUME ~Overlap
    PROVE  AllSpec => []Backed
<1>1. KernelInv => Backed
    BY DEF KernelInv
<1>2. QED
    BY <1>1, KernelInvariance, PTL

\* The blocks that sys_malloc returned are mapped and apart.
THEOREM LiveMappedSafe ==
    ASSUME ~Overlap
    PROVE  AllSpec => []LiveMapped
<1>1. KernelInv => LiveMapped
    BY DEF KernelInv
<1>2. QED
    BY <1>1, KernelInvariance, PTL

\* Every scan for addresses is first fit, up to the bit after the bitmap.
THEOREM FirstFitSafe ==
    ASSUME ~Overlap
    PROVE  AllSpec => []FirstFit
<1>1. ASSUME KernelInv, NEW t \in Threads, NEW after \in {0, 1}, pc[t] = "vscan"
      PROVE  LET cnt == loc[t].cnt
                 r == bitmap_scan([vaddr_bits EXCEPT ![NPages] = after], BitmapLen, cnt)
                 free == {s \in 0 .. NPages - cnt :
                             \A i \in s .. s + cnt - 1 : vaddr_bits[i] = 0}
             IN  IF free # {} THEN r \in free /\ \A s \in free : r <= s
                 ELSE r = -1 \/ (cnt > 1 /\ after = 0 /\ r + cnt = NPages + 1)
  <2> DEFINE cnt == loc[t].cnt
             bits == [vaddr_bits EXCEPT ![NPages] = after]
             r == bitmap_scan(bits, BitmapLen, cnt)
             free == {s \in 0 .. NPages - cnt :
                         \A i \in s .. s + cnt - 1 : vaddr_bits[i] = 0}
  <2>1. cnt \in Nat \ {0} /\ cnt <= NPages
    <3>1. cnt \in Cnts
      BY <1>1 DEF KernelInv, Progress
    <3>2. QED
      BY <3>1, CntsLemma
  <2>2. /\ bits \in [0 .. NPages -> {0, 1}] /\ bits[NPages] = after
        /\ \A i \in Pages : bits[i] = vaddr_bits[i]
    BY <1>1, Typed, Constants
  <2>3. BitmapLen \in Nat /\ IsBitmap(bits, BitmapLen)
    BY <2>2, Constants, MemAssumption DEF IsBitmap
  <2> HIDE DEF bits, cnt, r
  <2>4. \/ r = -1 /\ \A s \in 0 .. NPages - cnt : ~Run(bits, s, cnt)
        \/ /\ r \in 0 .. NPages - 1
           /\ r + cnt <= (IF cnt = 1 THEN NPages ELSE NPages + 1)
           /\ Run(bits, r, cnt)
           /\ \A s \in 0 .. NPages - cnt : Run(bits, s, cnt) => r <= s
    BY <2>1, <2>3, ScanFirstFit, Constants DEF r
  <2>5. ASSUME NEW s \in 0 .. NPages - cnt
        PROVE  Run(bits, s, cnt) <=> s \in free
    <3>1. \A i \in s .. s + cnt - 1 : i \in Pages
      BY <2>1, Constants
    <3>2. QED
      BY <2>2, <3>1 DEF Run
  <2>6. free \subseteq 0 .. NPages - cnt
    OBVIOUS
  <2>7. CASE r = -1 /\ \A s \in 0 .. NPages - cnt : ~Run(bits, s, cnt)
    <3>1. free = {}
      BY <2>5, <2>6, <2>7
    <3>2. QED
      BY <2>7, <3>1 DEF r, bits, cnt
  <2>8. CASE /\ r \in 0 .. NPages - 1
             /\ r + cnt <= (IF cnt = 1 THEN NPages ELSE NPages + 1)
             /\ Run(bits, r, cnt)
             /\ \A s \in 0 .. NPages - cnt : Run(bits, s, cnt) => r <= s
    <3>1. \A s \in free : r <= s
      BY <2>5, <2>6, <2>8
    <3>2. CASE r + cnt <= NPages
      <4>1. r \in 0 .. NPages - cnt
        BY <2>1, <2>8, <3>2, Constants
      <4>2. r \in free
        BY <4>1, <2>5, <2>8
      <4>3. QED
        BY <3>1, <4>2 DEF r, bits, cnt
    <3>3. CASE ~(r + cnt <= NPages)
      <4>1. cnt > 1 /\ r + cnt = NPages + 1
        BY <2>1, <2>8, <3>3, Constants
      <4>2. after = 0
        <5>1. NPages \in r .. r + cnt - 1
          BY <2>1, <2>8, <4>1, Constants
        <5>2. QED
          BY <2>2, <2>8, <5>1 DEF Run
      <4>3. free = {}
        <5>1. SUFFICES ASSUME NEW s \in free PROVE FALSE
          OBVIOUS
        <5>2. r <= s /\ s \in 0 .. NPages - cnt
          BY <3>1, <2>6
        <5>3. QED
          BY <2>1, <2>8, <4>1, <5>2, Constants
      <4>4. QED
        BY <4>1, <4>2, <4>3 DEF r, bits, cnt
    <3>4. QED
      BY <3>2, <3>3
  <2>9. QED
    BY <2>4, <2>7, <2>8
<1>2. KernelInv => FirstFit
    BY <1>1 DEF FirstFit
<1>3. QED
    BY <1>2, KernelInvariance, PTL

-----------------------------------------------------------------------------
(* What palloc takes and Nth picks.                                        *)

\* Nth picks the member of a rank.
LEMMA NthLemma ==
    ASSUME NEW S \in SUBSET Int, IsFiniteSet(S), NEW i \in 0 .. Cardinality(S) - 1
    PROVE  Nth(S, i) \in S /\ Rank(S, Nth(S, i)) = i
<1>1. \E f \in S : Rank(S, f) = i
    BY OfRank
<1>2. QED
    BY <1>1 DEF Nth, Rank, Below

\* palloc takes frames that are free, no more than it is asked for.
LEMMA PallocLemma ==
    ASSUME NEW bits \in [UserFrames -> {0, 1}], NEW n \in Nat,
           NEW taken, taken = palloc(bits, UserPoolLen, n)
    PROVE  /\ taken \in SUBSET UserFrames /\ taken \in SUBSET Int /\ IsFiniteSet(taken)
           /\ \A f \in taken : bits[f] = 0
           /\ Cardinality(taken) \in Nat /\ Cardinality(taken) <= n
<1> DEFINE free == {f \in UserFrames : bits[f] = 0}
           T == 0 .. n - 1
           rank == [f \in taken |-> Rank(free, f)]
<1>1. taken = {f \in free : Rank(free, f) < n}
    BY DEF palloc, bitmap_scan_test, Rank, Below, UserFrames
<1>2. UserFrames \in SUBSET Int /\ IsFiniteSet(UserFrames)
  <2>1. 0 \in Int /\ 8 * UserPoolLen - 1 \in Int
    BY UserAssumption
  <2>2. QED
    BY <2>1, FS_Interval DEF UserFrames
<1>3. free \in SUBSET Int /\ IsFiniteSet(free) /\ taken \in SUBSET free
    BY <1>1, <1>2, FS_Subset
<1>4. IsFiniteSet(taken) /\ Cardinality(taken) \in Nat
    BY <1>3, FS_Subset, FS_CardinalityType
<1>5. IsFiniteSet(T) /\ Cardinality(T) = n
  <2>1. 0 \in Int /\ n - 1 \in Int
    OBVIOUS
  <2>2. IsFiniteSet(T) /\ Cardinality(T) = IF 0 > n - 1 THEN 0 ELSE n - 1 - 0 + 1
    BY <2>1, FS_Interval
  <2>3. QED
    BY <2>2
<1>6. rank \in Injection(taken, T)
  <2> HIDE DEF free
  <2>1. \A f \in free : Rank(free, f) \in Int /\ 0 <= Rank(free, f)
    BY <1>3, Ranks
  <2>2. rank \in [taken -> T]
    BY <1>1, <2>1
  <2>3. \A f, g \in taken : rank[f] = rank[g] => f = g
    BY <1>3, Ranks
  <2>4. QED
    BY <2>2, <2>3 DEF Injection, IsInjective
<1>7. Cardinality(taken) <= n
  <2> HIDE DEF rank, T
  <2> QED BY <1>5, <1>6, FS_Injection
<1>8. QED
    BY <1>2, <1>3, <1>4, <1>7

-----------------------------------------------------------------------------
(* The processes.                                                          *)

UserTypes ==
    /\ user_vaddr \in [Procs -> [0 .. NUser -> {0, 1}]]
    /\ user_bits \in [UserFrames -> {0, 1}]
    /\ user_pte \in [Procs -> [0 .. NUser -> UserFrames \cup {Frame0, NULL}]]
    /\ blocks \in [Procs -> SUBSET [start : 0 .. NUser, cnt : Cnts]]

\* The frame of a mapped page is marked, and so is the address of a stack.
Marked ==
    \A p \in Procs :
        /\ \A pg \in 0 .. NUser :
            user_pte[p][pg] \in UserFrames => user_bits[user_pte[p][pg]] = 1
        /\ user_pte[p][StackPage] # NULL => user_vaddr[p][StackPage] = 1

\* A frame has one page.
OnePage ==
    \A p, q \in Procs : \A pg, pk \in 0 .. NUser :
        user_pte[p][pg] \in UserFrames /\ user_pte[p][pg] = user_pte[q][pk] => p = q /\ pg = pk

\* Frame 0 is used for stacks only, the pool's first frame is the stack of the process
\* that started first, and before that no frame is in use.
Stacks ==
    /\ \A p \in Procs : \A pg \in 0 .. NUser : user_pte[p][pg] = Frame0 => pg = StackPage
    /\ \A p \in Procs :
        user_pte[p][StackPage] # NULL => \E q \in Procs : user_pte[q][StackPage] = 0
    /\ (\A p \in Procs : user_pte[p][StackPage] = NULL) => \A f \in UserFrames : user_bits[f] = 0

\* A process's blocks are mapped, apart from each other, and below its stack.
Blocks ==
    \A p \in Procs : \A a \in blocks[p] :
        /\ a.start + a.cnt <= StackPage
        /\ \A pg \in Span(a) : user_pte[p][pg] # NULL
        /\ \A b \in blocks[p] : a # b => Apart(a, b)

UserInv ==
    /\ UserTypes
    /\ FreeAsserts
    /\ halted \in {"no", "fault"} => Marked /\ OnePage /\ Stacks /\ Blocks

\* What the assumptions say of the numbers of pages and frames.
LEMMA UserConstants ==
    /\ NUser \in Nat \ {0} /\ NUser = 8 * UserLen /\ StackPage = NUser - 1
    /\ StackPage \in 0 .. NUser
    /\ 0 \in UserFrames /\ UserFrames \subseteq Nat /\ Frame0 = -1 /\ Frame0 \notin UserFrames
    /\ NULL \notin UserFrames /\ NULL # Frame0 /\ KernelRest \in UserFrames
BY UserAssumption DEF NUser, StackPage, UserFrames, Frame0

\* Intervals without a common member.
LEMMA ApartLemma ==
    ASSUME NEW a, NEW b, a.start \in Int, a.cnt \in Int, 1 <= a.cnt,
           b.start \in Int, b.cnt \in Int, 1 <= b.cnt,
           \A p \in Span(a) : p \notin Span(b)
    PROVE  Apart(a, b)
<1>1. a.start \in Span(a) /\ b.start \in Span(b)
    BY DEF Span
<1>2. a.start \notin Span(b) /\ b.start \notin Span(a)
    BY <1>1
<1>3. QED
    BY <1>2 DEF Span, Apart

\* What map_pages does.
LEMMA MapOutcome ==
    ASSUME UserTypes, halted = "no", NEW p \in Procs, NEW frames, map_pages(p, frames)
    PROVE  \/ halted' \in {"table", "present"} /\ user_pte' = user_pte
           \/ /\ halted' = "no"
              /\ \A pg \in DOMAIN frames : user_pte[p][pg] = NULL
              /\ user_pte' = [user_pte EXCEPT ![p] =
                    [pg \in 0 .. NUser |-> IF pg \in DOMAIN frames THEN frames[pg]
                                           ELSE user_pte[p][pg]]]
<1>1. DOMAIN user_pte[p] = 0 .. NUser
    BY DEF UserTypes
<1>2. QED
    BY <1>1 DEF map_pages

\* A step that maps pages of a process on free frames, and marks these.
Grown(p, pages, frames) ==
    /\ pages \in SUBSET (0 .. NUser)
    /\ frames \in [pages -> UserFrames \cup {Frame0}]
    /\ \A pg, pk \in pages : frames[pg] \in UserFrames /\ frames[pg] = frames[pk] => pg = pk
    /\ user_pte' = [user_pte EXCEPT ![p] =
            [pg \in 0 .. NUser |-> IF pg \in pages THEN frames[pg] ELSE user_pte[p][pg]]]
    /\ \A q \in Procs : \A pg \in 0 .. NUser : user_vaddr[q][pg] = 1 => user_vaddr'[q][pg] = 1
    /\ StackPage \in pages => user_vaddr'[p][StackPage] = 1
    /\ \A f \in UserFrames : user_bits[f] = 1 => user_bits'[f] = 1
    /\ \A pg \in pages : frames[pg] \in UserFrames =>
            user_bits[frames[pg]] = 0 /\ user_bits'[frames[pg]] = 1

\* Such a step keeps a frame on one page.
LEMMA MapStep ==
    ASSUME UserTypes, Marked, OnePage, NEW p \in Procs, NEW pages, NEW frames,
           Grown(p, pages, frames)
    PROVE  /\ user_pte' \in [Procs -> [0 .. NUser -> UserFrames \cup {Frame0, NULL}]]
           /\ \A q \in Procs : \A pg \in 0 .. NUser :
                user_pte'[q][pg] = IF q = p /\ pg \in pages THEN frames[pg] ELSE user_pte[q][pg]
           /\ Marked' /\ OnePage'
<1> USE DEF Grown
<1>1. user_pte \in [Procs -> [0 .. NUser -> UserFrames \cup {Frame0, NULL}]]
    BY DEF UserTypes
<1>2. /\ user_pte' \in [Procs -> [0 .. NUser -> UserFrames \cup {Frame0, NULL}]]
      /\ \A q \in Procs : \A pg \in 0 .. NUser :
            user_pte'[q][pg] = IF q = p /\ pg \in pages THEN frames[pg] ELSE user_pte[q][pg]
    BY <1>1
<1>3. Marked'
  <2>1. ASSUME NEW q \in Procs, NEW pg \in 0 .. NUser, user_pte'[q][pg] \in UserFrames
        PROVE  user_bits'[user_pte'[q][pg]] = 1
    <3>1. CASE q = p /\ pg \in pages
      BY <1>2, <2>1, <3>1
    <3>2. CASE ~(q = p /\ pg \in pages)
      <4>1. user_pte'[q][pg] = user_pte[q][pg]
        BY <1>2, <3>2
      <4>2. QED
        BY <2>1, <4>1 DEF Marked
    <3>3. QED
      BY <3>1, <3>2
  <2>2. ASSUME NEW q \in Procs, user_pte'[q][StackPage] # NULL
        PROVE  user_vaddr'[q][StackPage] = 1
    <3>1. CASE q = p /\ StackPage \in pages
      BY <3>1
    <3>2. CASE ~(q = p /\ StackPage \in pages)
      <4>1. user_pte'[q][StackPage] = user_pte[q][StackPage]
        BY <1>2, <3>2, UserConstants
      <4>2. QED
        BY <2>2, <4>1, UserConstants DEF Marked
    <3>3. QED
      BY <3>1, <3>2
  <2>3. QED
    BY <2>1, <2>2 DEF Marked
<1>4. OnePage'
  <2> SUFFICES ASSUME NEW q1 \in Procs, NEW q2 \in Procs, NEW g1 \in 0 .. NUser, NEW g2 \in 0 .. NUser,
                      user_pte'[q1][g1] \in UserFrames, user_pte'[q1][g1] = user_pte'[q2][g2]
               PROVE  q1 = q2 /\ g1 = g2
    BY DEF OnePage
  <2>1. ASSUME NEW q \in Procs, NEW pg \in 0 .. NUser, ~(q = p /\ pg \in pages),
               user_pte'[q][pg] \in UserFrames
        PROVE  user_pte[q][pg] = user_pte'[q][pg] /\ user_bits[user_pte[q][pg]] = 1
    BY <1>2, <2>1, UserConstants DEF Marked
  <2>2. ASSUME NEW q \in Procs, NEW pg \in 0 .. NUser, q = p /\ pg \in pages,
               user_pte'[q][pg] \in UserFrames
        PROVE  user_pte'[q][pg] = frames[pg] /\ user_bits[user_pte'[q][pg]] = 0
    BY <1>2, <2>2
  <2>3. CASE (q1 = p /\ g1 \in pages) /\ (q2 = p /\ g2 \in pages)
    BY <2>2, <2>3
  <2>4. CASE ~(q1 = p /\ g1 \in pages) /\ ~(q2 = p /\ g2 \in pages)
    BY <2>1, <2>4 DEF OnePage
  <2>5. CASE (q1 = p /\ g1 \in pages) # (q2 = p /\ g2 \in pages)
    BY <2>1, <2>2, <2>5
  <2>6. QED
    BY <2>3, <2>4, <2>5
<1>5. QED
    BY <1>2, <1>3, <1>4

\* bits with those of a set changed.
LEMMA SetLemma ==
    ASSUME NEW bits \in [UserFrames -> {0, 1}], NEW S, NEW v \in {0, 1}
    PROVE  /\ Set(bits, S, v) \in [UserFrames -> {0, 1}]
           /\ \A f \in UserFrames : Set(bits, S, v)[f] = IF f \in S THEN v ELSE bits[f]
BY DEF Set

\* A process's first step.
LEMMA StartProcessUser ==
    ASSUME UserInv, NEW p \in Procs, start_process(p)
    PROVE  UserInv'
<1> DEFINE taken == palloc(user_bits, UserPoolLen, 1)
           f == IF taken = {} THEN Frame0 ELSE Nth(taken, 0)
           pages == {StackPage}
           frames == [pg \in pages |-> f]
<1>1. /\ halted = "no" /\ user_pte[p][StackPage] = NULL /\ UNCHANGED blocks
      /\ user_vaddr' = [user_vaddr EXCEPT ![p] = [@ EXCEPT ![StackPage] = 1]]
      /\ user_bits' = Set(user_bits, taken, 1) /\ map_pages(p, frames)
    BY DEF start_process, bitmap_set
<1>2. UserTypes /\ Marked /\ OnePage /\ Stacks /\ Blocks
    BY <1>1 DEF UserInv
<1>3. /\ user_vaddr \in [Procs -> [0 .. NUser -> {0, 1}]] /\ user_bits \in [UserFrames -> {0, 1}]
      /\ user_pte \in [Procs -> [0 .. NUser -> UserFrames \cup {Frame0, NULL}]]
    BY <1>2 DEF UserTypes
<1>4. /\ taken \in SUBSET UserFrames /\ taken \in SUBSET Int /\ IsFiniteSet(taken)
      /\ \A g \in taken : user_bits[g] = 0
      /\ Cardinality(taken) \in Nat
    BY <1>3, PallocLemma
<1>5. taken # {} => f \in taken /\ Rank(taken, f) = 0
  <2> SUFFICES ASSUME taken # {} PROVE f \in taken /\ Rank(taken, f) = 0
    OBVIOUS
  <2>1. Cardinality(taken) # 0
    BY <1>4, FS_EmptySet
  <2>2. 0 \in 0 .. Cardinality(taken) - 1
    BY <1>4, <2>1
  <2> HIDE DEF taken
  <2>3. QED
    BY <1>4, <2>2, NthLemma
<1>6. DOMAIN frames = pages /\ frames[StackPage] = f
    OBVIOUS
<1>7. f \in UserFrames \cup {Frame0} /\ (f \in UserFrames => f \in taken)
    BY <1>4, <1>5, UserConstants
<1> HIDE DEF frames, f, taken
<1>8. /\ user_vaddr' \in [Procs -> [0 .. NUser -> {0, 1}]]
      /\ \A q \in Procs : \A pg \in 0 .. NUser : user_vaddr[q][pg] = 1 => user_vaddr'[q][pg] = 1
      /\ user_vaddr'[p][StackPage] = 1
    BY <1>1, <1>3, UserConstants
<1>9. /\ user_bits' \in [UserFrames -> {0, 1}]
      /\ \A g \in UserFrames : user_bits[g] = 1 => user_bits'[g] = 1
      /\ \A g \in taken : user_bits'[g] = 1
    BY <1>1, <1>3, <1>4, SetLemma
<1>10. CASE halted' \in {"table", "present"} /\ user_pte' = user_pte
    BY <1>1, <1>2, <1>8, <1>9, <1>10 DEF UserInv, UserTypes, FreeAsserts
<1>11. CASE /\ halted' = "no"
            /\ user_pte' = [user_pte EXCEPT ![p] =
                    [pg \in 0 .. NUser |-> IF pg \in pages THEN frames[pg]
                                           ELSE user_pte[p][pg]]]
  <2>1. /\ pages \in SUBSET (0 .. NUser)
        /\ frames \in [pages -> UserFrames \cup {Frame0}]
    <3>1. pages \in SUBSET (0 .. NUser)
      BY UserConstants
    <3>2. frames \in [pages -> UserFrames \cup {Frame0}]
      BY <1>7 DEF frames
    <3>3. QED
      BY <3>1, <3>2
  <2>2. /\ user_pte' \in [Procs -> [0 .. NUser -> UserFrames \cup {Frame0, NULL}]]
        /\ \A q \in Procs : \A pg \in 0 .. NUser :
                user_pte'[q][pg] = IF q = p /\ pg \in pages THEN frames[pg] ELSE user_pte[q][pg]
        /\ Marked' /\ OnePage'
    <3>1. \A pg \in pages : frames[pg] = f
      BY <1>6
    <3>2. \A pg \in pages : frames[pg] \in UserFrames =>
            user_bits[frames[pg]] = 0 /\ user_bits'[frames[pg]] = 1
      BY <1>4, <1>7, <1>9, <3>1
    <3>3. \A pg, pk \in pages : pg = pk
      OBVIOUS
    <3>4. StackPage \in pages => user_vaddr'[p][StackPage] = 1
      BY <1>8
    <3>5. Grown(p, pages, frames)
      BY <1>8, <1>9, <1>11, <2>1, <3>2, <3>3, <3>4 DEF Grown
    <3>6. QED
      BY <1>2, <3>5, MapStep
  <2>3. UserTypes'
    BY <1>1, <1>2, <1>8, <1>9, <2>2 DEF UserTypes
  <2>4. user_pte'[p][StackPage] = f /\ f # NULL
    BY <1>6, <1>7, <2>2, UserConstants
  <2>5. \A q \in Procs : \A pg \in 0 .. NUser : q # p \/ pg # StackPage => user_pte'[q][pg] = user_pte[q][pg]
    BY <2>2
  <2>6. \E q \in Procs : user_pte'[q][StackPage] = 0
    <3>1. CASE \E q \in Procs : user_pte[q][StackPage] # NULL
      <4>1. PICK q \in Procs : user_pte[q][StackPage] = 0
        BY <1>2, <3>1 DEF Stacks
      <4>2. q # p
        BY <1>1, <4>1, UserConstants
      <4>3. QED
        BY <4>1, <4>2, <2>5, UserConstants
    <3>2. CASE \A q \in Procs : user_pte[q][StackPage] = NULL
      <4>1. \A g \in UserFrames : user_bits[g] = 0
        BY <1>2, <3>2 DEF Stacks
      <4>2. 0 \in taken
        <5> DEFINE free == {g \in 0 .. 8 * UserPoolLen - 1 : ~bitmap_scan_test(user_bits, g)}
        <5>1. 0 \in free
          BY <4>1, UserConstants DEF UserFrames, bitmap_scan_test
        <5>2. {g \in free : g < 0} = {}
          BY UserAssumption
        <5>3. Cardinality({g \in free : g < 0}) = 0
          BY <5>2, FS_EmptySet
        <5>4. QED
          BY <5>1, <5>3 DEF palloc, taken
      <4>3. f \in taken /\ Rank(taken, f) = 0
        BY <1>5, <4>2
      <4>4. Below(taken, f) = {}
        <5>1. Below(taken, f) \in SUBSET taken
          BY DEF Below
        <5>2. QED
          BY <4>3, <5>1, <1>4, FS_Subset, FS_EmptySet DEF Rank
      <4>5. f = 0
        <5>1. f \in Int /\ 0 <= f
          BY <1>4, <4>3, UserConstants
        <5>2. ~(0 < f)
          BY <4>2, <4>4 DEF Below
        <5>3. QED
          BY <5>1, <5>2
      <4>6. QED
        BY <2>4, <4>5
    <3>3. QED
      BY <3>1, <3>2
  <2>7. Stacks'
    BY <1>2, <2>4, <2>5, <2>6 DEF Stacks
  <2>8. Blocks'
    <3> SUFFICES ASSUME NEW q \in Procs, NEW a \in blocks[q], NEW pg \in Span(a)
                 PROVE  user_pte'[q][pg] # NULL
      BY <1>1, <1>2 DEF Blocks, Span, Apart
    <3>1. user_pte[q][pg] # NULL /\ a.start + a.cnt <= StackPage
      BY <1>2 DEF Blocks
    <3>2. a.start \in 0 .. NUser /\ a.cnt \in Cnts
      BY <1>2 DEF UserTypes
    <3>3. pg \in 0 .. NUser
      BY <3>1, <3>2, UserConstants, CntsLemma DEF Span
    <3>4. QED
      BY <3>1, <3>3, <2>4, <2>5
  <2>9. QED
    BY <1>11, <2>2, <2>3, <2>7, <2>8 DEF UserInv, FreeAsserts
<1>12. QED
  <2>1. QED
    BY <1>1, <1>2, <1>6, <1>10, <1>11, MapOutcome

\* A block of a process is a run of pages below its stack.
LEMMA UserBlock ==
    ASSUME UserTypes, Blocks, NEW p \in Procs, NEW a \in blocks[p]
    PROVE  /\ a.start \in Int /\ 0 <= a.start /\ a.cnt \in Int /\ 1 <= a.cnt
           /\ a.start + a.cnt <= StackPage
           /\ \A pg \in Span(a) : pg \in 0 .. NUser /\ pg # StackPage /\ user_pte[p][pg] # NULL
<1>1. a.start \in 0 .. NUser /\ a.cnt \in Cnts
    BY DEF UserTypes
<1>2. a.start \in Int /\ 0 <= a.start /\ a.cnt \in Int /\ 1 <= a.cnt
    BY <1>1, CntsLemma, UserConstants
<1>3. a.start + a.cnt <= StackPage /\ \A pg \in Span(a) : user_pte[p][pg] # NULL
    BY DEF Blocks
<1>4. \A pg \in Span(a) : pg \in 0 .. NUser /\ pg # StackPage
    BY <1>2, <1>3, UserConstants DEF Span
<1>5. QED
    BY <1>2, <1>3, <1>4

\* What a scan of a process's addresses returns.
LEMMA UserScan ==
    ASSUME UserTypes, NEW p \in Procs, NEW n \in Cnts,
           NEW r, r = bitmap_scan(user_vaddr[p], UserLen, n), r # -1
    PROVE  r \in Int /\ 0 <= r
<1>1. n \in Nat \ {0} /\ UserLen \in Nat /\ IsBitmap(user_vaddr[p], UserLen)
    BY CntsLemma, UserAssumption, UserConstants DEF UserTypes, IsBitmap
<1>2. r \in 0 .. NUser - 1
    BY <1>1, ScanFirstFit, UserConstants
<1>3. QED
    BY <1>2

\* sys_malloc of a process.
LEMMA UserMallocUser ==
    ASSUME UserInv, NEW p \in Procs, NEW n \in Cnts, user_malloc(p, n)
    PROVE  UserInv'
<1> DEFINE bit == bitmap_scan(user_vaddr[p], UserLen, n)
           r == vaddr_page(bit)
           taken == palloc(user_bits, UserPoolLen, n)
           mapped == Cardinality(taken)
           pages == r .. r + mapped - 1
           frames == [pg \in pages |-> Nth(taken, pg - r)]
           new == malloc_result(r, n, mapped)
<1>1. halted = "no" /\ user_pte[p][StackPage] # NULL
    BY DEF user_malloc, Running
<1>2. UserTypes /\ Marked /\ OnePage /\ Stacks /\ Blocks
    BY <1>1 DEF UserInv
<1>3. /\ user_vaddr \in [Procs -> [0 .. NUser -> {0, 1}]] /\ user_bits \in [UserFrames -> {0, 1}]
      /\ user_pte \in [Procs -> [0 .. NUser -> UserFrames \cup {Frame0, NULL}]]
      /\ blocks \in [Procs -> SUBSET [start : 0 .. NUser, cnt : Cnts]]
    BY <1>2 DEF UserTypes
<1>4. n \in Nat /\ n \in Int /\ 1 <= n
    BY CntsLemma
<1>5. CASE bit = -1
  <2>1. UNCHANGED << user_vaddr, user_bits, user_pte, blocks, halted >>
    BY <1>5 DEF user_malloc, all_vars, user_vars
  <2>2. QED
    BY <1>1, <1>2, <2>1
       DEF UserInv, UserTypes, FreeAsserts, Marked, OnePage, Stacks, Blocks, Span, Apart
<1>6. CASE bit # -1 /\ r >= StackPage
  <2>1. UNCHANGED << user_vaddr, user_bits, user_pte, blocks >> /\ halted' = "range"
    BY <1>6 DEF user_malloc
  <2>2. QED
    BY <1>2, <2>1 DEF UserInv, UserTypes, FreeAsserts
<1>7. CASE bit # -1 /\ ~(r >= StackPage)
  <2>1. r \in Int /\ 0 <= r /\ r < StackPage
    <3>1. bit \in Int /\ 0 <= bit
      BY <1>2, <1>7, UserScan
    <3>2. r \in Int /\ 0 <= r
      BY <3>1 DEF vaddr_page
    <3>3. QED
      BY <1>7, <3>2, UserConstants
  <2>2. /\ user_vaddr' = [user_vaddr EXCEPT ![p] = bitmap_set_run(@, bit, n, 1)]
        /\ user_bits' = Set(user_bits, taken, 1) /\ map_pages(p, frames)
        /\ blocks' = [blocks EXCEPT ![p] = @ \cup new]
    BY <1>7 DEF user_malloc
  <2>3. /\ taken \in SUBSET UserFrames /\ taken \in SUBSET Int /\ IsFiniteSet(taken)
        /\ \A f \in taken : user_bits[f] = 0
        /\ mapped \in Nat /\ mapped <= n
    BY <1>3, <1>4, PallocLemma
  <2>4. \A i \in 0 .. mapped - 1 : Nth(taken, i) \in taken /\ Rank(taken, Nth(taken, i)) = i
    <3> HIDE DEF taken
    <3> QED BY <2>3, NthLemma
  <2>5. /\ \A pg \in pages : frames[pg] \in taken
        /\ \A pg, pk \in pages : frames[pg] = frames[pk] => pg = pk
    <3> HIDE DEF taken, mapped, r
    <3>1. \A pg \in pages : pg \in Int /\ pg - r \in 0 .. mapped - 1
      BY <2>1, <2>3
    <3>2. \A pg \in pages : frames[pg] \in taken /\ Rank(taken, frames[pg]) = pg - r
      BY <2>4, <3>1
    <3>3. \A pg, pk \in pages : pg - r = pk - r => pg = pk
      BY <2>1, <3>1
    <3>4. QED
      BY <3>2, <3>3
  <2>6. DOMAIN frames = pages
    OBVIOUS
  <2> HIDE DEF bit, r, taken, mapped, frames, new
  <2>9. /\ user_vaddr' \in [Procs -> [0 .. NUser -> {0, 1}]]
        /\ \A q \in Procs : \A pg \in 0 .. NUser : user_vaddr[q][pg] = 1 => user_vaddr'[q][pg] = 1
    BY <1>3, <2>2 DEF bitmap_set_run
  <2>10. /\ user_bits' \in [UserFrames -> {0, 1}]
         /\ \A f \in UserFrames : user_bits[f] = 1 => user_bits'[f] = 1
         /\ \A f \in taken : user_bits'[f] = 1
    BY <1>3, <2>2, <2>3, SetLemma
  <2>11. /\ blocks' \in [Procs -> SUBSET [start : 0 .. NUser, cnt : Cnts]]
         /\ \A q \in Procs : q # p => blocks'[q] = blocks[q]
         /\ blocks'[p] = blocks[p] \cup new
         /\ new = {} \/ (mapped = n /\ new = {[start |-> r, cnt |-> n]})
    <3>1. new = {} \/ (mapped = n /\ new = {[start |-> r, cnt |-> n]})
      BY <1>4, <2>3 DEF malloc_result, new
    <3>2. r \in 0 .. NUser
      BY <2>1, UserConstants
    <3>3. new \in SUBSET [start : 0 .. NUser, cnt : Cnts]
      BY <3>1, <3>2
    <3>4. QED
      BY <1>3, <2>2, <3>1, <3>3
  <2>12. CASE halted' \in {"table", "present"} /\ user_pte' = user_pte
    BY <1>2, <2>9, <2>10, <2>11, <2>12 DEF UserInv, UserTypes, FreeAsserts
  <2>13. CASE /\ halted' = "no"
              /\ \A pg \in pages : user_pte[p][pg] = NULL
              /\ user_pte' = [user_pte EXCEPT ![p] =
                    [pg \in 0 .. NUser |-> IF pg \in pages THEN frames[pg]
                                           ELSE user_pte[p][pg]]]
    \* The stack's page is present, so the pages end below it.
    <3>0. StackPage \notin pages /\ (mapped = 0 \/ r + mapped <= StackPage)
      <4>1. StackPage \notin pages
        BY <1>1, <2>13
      <4>2. QED
        BY <2>1, <2>3, <4>1, UserConstants
    <3>1. Grown(p, pages, frames)
      <4>1. pages \in SUBSET (0 .. NUser)
        BY <2>1, <2>3, <3>0, UserConstants
      <4>2. frames \in [pages -> UserFrames \cup {Frame0}]
        BY <2>3, <2>5 DEF frames
      <4>3. QED
        BY <2>3, <2>5, <2>9, <2>10, <2>13, <3>0, <4>1, <4>2 DEF Grown
    <3>2. /\ user_pte' \in [Procs -> [0 .. NUser -> UserFrames \cup {Frame0, NULL}]]
          /\ \A q \in Procs : \A pg \in 0 .. NUser :
                user_pte'[q][pg] = IF q = p /\ pg \in pages THEN frames[pg] ELSE user_pte[q][pg]
          /\ Marked' /\ OnePage'
      BY <1>2, <3>1, MapStep
    <3>3. UserTypes'
      BY <2>9, <2>10, <2>11, <3>2 DEF UserTypes
    <3>4. /\ \A q \in Procs : user_pte'[q][StackPage] = user_pte[q][StackPage]
          /\ \A q \in Procs : \A pg \in 0 .. NUser : user_pte'[q][pg] = Frame0 => user_pte[q][pg] = Frame0
      <4>1. StackPage \notin pages
        BY <3>0
      <4>2. \A pg \in pages : frames[pg] # Frame0
        BY <2>3, <2>5, UserConstants
      <4>3. QED
        BY <3>2, <4>1, <4>2, UserConstants
    <3>5. Stacks'
      BY <1>1, <1>2, <3>4 DEF Stacks
    <3>6. \A q \in Procs : \A pg \in 0 .. NUser : user_pte[q][pg] # NULL => user_pte'[q][pg] # NULL
      BY <2>3, <2>5, <3>2, UserConstants
    <3>7. ASSUME NEW a \in blocks[p], NEW b \in new PROVE Apart(a, b) /\ Apart(b, a)
      <4>1. b.start = r /\ b.cnt = n
        BY <2>11, <3>7
      <4>2. \A pg \in Span(a) : pg \notin Span(b)
        <5>1. mapped = n
          BY <2>11, <3>7
        <5>2. Span(b) = pages
          BY <4>1, <5>1 DEF Span
        <5>3. QED
          BY <1>2, <2>13, <5>2, UserBlock
      <4>3. a.start \in Int /\ a.cnt \in Int /\ 1 <= a.cnt
        BY <1>2, UserBlock
      <4>4. Apart(a, b)
        BY <1>4, <2>1, <4>1, <4>2, <4>3, ApartLemma
      <4>5. QED
        BY <4>4 DEF Apart
    <3>8. Blocks'
      <4> SUFFICES ASSUME NEW q \in Procs, NEW a \in blocks'[q]
                   PROVE  /\ a.start + a.cnt <= StackPage
                          /\ \A pg \in Span(a) : user_pte'[q][pg] # NULL
                          /\ \A b \in blocks'[q] : a # b => Apart(a, b)
        BY DEF Blocks, Span, Apart
      <4>1. CASE a \in blocks[q]
        <5>1. a.start + a.cnt <= StackPage /\ \A pg \in Span(a) : user_pte'[q][pg] # NULL
          BY <1>2, <3>6, <4>1, UserBlock
        <5>2. ASSUME NEW b \in blocks'[q], a # b PROVE Apart(a, b)
          <6>1. CASE b \in blocks[q]
            BY <1>2, <4>1, <5>2, <6>1 DEF Blocks
          <6>2. CASE b \notin blocks[q]
            <7>1. q = p /\ b \in new
              BY <2>11, <6>2
            <7>2. QED
              BY <3>7, <4>1, <7>1
          <6>3. QED
            BY <6>1, <6>2
        <5>3. QED
          BY <5>1, <5>2
      <4>2. CASE a \notin blocks[q]
        <5>1. q = p /\ a \in new /\ mapped = n /\ a.start = r /\ a.cnt = n
          BY <2>11, <4>2
        <5>2. \A b \in blocks'[q] : a # b => Apart(a, b)
          <6> SUFFICES ASSUME NEW b \in blocks'[q], a # b PROVE Apart(a, b)
            OBVIOUS
          <6>1. b \in blocks[p]
            BY <2>11, <5>1
          <6>2. QED
            BY <3>7, <5>1, <6>1
        <5>3. \A pg \in Span(a) : user_pte'[q][pg] # NULL
          <6>1. Span(a) = pages
            BY <5>1 DEF Span
          <6>2. \A pg \in pages : frames[pg] # NULL /\ pg \in 0 .. NUser
            BY <2>3, <2>5, <3>1, UserConstants DEF Grown
          <6>3. QED
            BY <3>2, <5>1, <6>1, <6>2
        <5>4. QED
          BY <1>4, <3>0, <5>1, <5>2, <5>3
      <4>3. QED
        BY <4>1, <4>2
    <3>9. QED
      BY <2>13, <3>2, <3>3, <3>5, <3>8 DEF UserInv, FreeAsserts
  <2>14. QED
    <3> HIDE DEF pages
    <3>1. QED
      BY <1>1, <1>2, <2>2, <2>6, <2>12, <2>13, MapOutcome
<1>8. QED
    BY <1>5, <1>6, <1>7

\* sys_free of a process's block: its frames are its own and not the pool's first one,
\* so pfree clears their bits and no others.
LEMMA UserFreeUser ==
    ASSUME UserInv, NEW p \in Procs, NEW b \in blocks[p], user_free(p, b)
    PROVE  /\ UserInv'
           /\ blocks' = [blocks EXCEPT ![p] = @ \ {b}]
           /\ {f \in UserFrames : user_bits'[f] # user_bits[f]}
                = {user_pte[p][pg] : pg \in Span(b)}
<1> DEFINE pages == Span(b)
           freed == {pfree(user_pte[p][pg]) : pg \in pages}
<1>1. halted = "no" /\ user_pte[p][StackPage] # NULL
    BY DEF user_free, Running
<1>2. UserTypes /\ Marked /\ OnePage /\ Stacks /\ Blocks
    BY <1>1 DEF UserInv
<1>3. /\ user_vaddr \in [Procs -> [0 .. NUser -> {0, 1}]] /\ user_bits \in [UserFrames -> {0, 1}]
      /\ user_pte \in [Procs -> [0 .. NUser -> UserFrames \cup {Frame0, NULL}]]
      /\ blocks \in [Procs -> SUBSET [start : 0 .. NUser, cnt : Cnts]]
    BY <1>2 DEF UserTypes
<1>4. /\ b.start \in Int /\ 0 <= b.start /\ b.cnt \in Int /\ 1 <= b.cnt
      /\ b.start + b.cnt <= StackPage
      /\ \A pg \in pages : pg \in 0 .. NUser /\ pg # StackPage /\ user_pte[p][pg] # NULL
    BY <1>2, UserBlock
<1>5. \A pg \in pages : user_pte[p][pg] \in UserFrames
  <2> SUFFICES ASSUME NEW pg \in pages PROVE user_pte[p][pg] \in UserFrames
    OBVIOUS
  <2>1. pg \in 0 .. NUser /\ user_pte[p][pg] \in UserFrames \cup {Frame0, NULL}
    BY <1>3, <1>4
  <2>2. user_pte[p][pg] # Frame0
    BY <1>2, <1>4, <2>1 DEF Stacks
  <2>3. QED
    BY <1>4, <2>1, <2>2
\* The pool's first frame is some process's stack.
<1>6. \A pg \in pages : user_pte[p][pg] # 0
  <2>1. PICK q \in Procs : user_pte[q][StackPage] = 0
    BY <1>1, <1>2 DEF Stacks
  <2>2. QED
    BY <1>2, <1>4, <2>1, UserConstants DEF OnePage
<1>7. \A pg \in pages : pfree(user_pte[p][pg]) = user_pte[p][pg]
  <2> SUFFICES ASSUME NEW pg \in pages PROVE user_pte[p][pg] > 0
    BY DEF pfree
  <2>1. user_pte[p][pg] \in Nat /\ user_pte[p][pg] # 0
    BY <1>5, <1>6, UserConstants
  <2>2. QED
    BY <2>1
<1>8. freed = {user_pte[p][pg] : pg \in pages} /\ freed \in SUBSET UserFrames
    BY <1>5, <1>7
<1>9. b.start \in pages
    BY <1>4 DEF Span
<1>10. /\ user_bits' = Set(user_bits, freed, 0)
       /\ user_pte' = [user_pte EXCEPT ![p] = Set(@, pages, NULL)]
       /\ \/ user_vaddr' = user_vaddr
          \/ user_vaddr' = [user_vaddr EXCEPT ![p] = bitmap_set_run(@, b.start, b.cnt, 0)]
       /\ blocks' = [blocks EXCEPT ![p] = @ \ {b}]
       /\ halted' \in {"no", "fault"}
    BY <1>6, <1>9 DEF user_free, Span
<1> HIDE DEF freed, pages
<1>11. /\ user_bits' \in [UserFrames -> {0, 1}]
       /\ \A f \in UserFrames : user_bits'[f] = IF f \in freed THEN 0 ELSE user_bits[f]
    BY <1>3, <1>10, SetLemma
<1>12. /\ user_pte' \in [Procs -> [0 .. NUser -> UserFrames \cup {Frame0, NULL}]]
       /\ \A q \in Procs : \A pg \in 0 .. NUser :
            user_pte'[q][pg] = IF q = p /\ pg \in pages THEN NULL ELSE user_pte[q][pg]
    BY <1>3, <1>10 DEF Set
<1>13. /\ user_vaddr' \in [Procs -> [0 .. NUser -> {0, 1}]]
       /\ \A q \in Procs : \A pg \in 0 .. NUser :
            ~(q = p /\ pg \in pages) => user_vaddr'[q][pg] = user_vaddr[q][pg]
  <2>1. CASE user_vaddr' = user_vaddr
    BY <1>3, <2>1
  <2>2. CASE user_vaddr' = [user_vaddr EXCEPT ![p] = bitmap_set_run(@, b.start, b.cnt, 0)]
    BY <1>3, <2>2 DEF bitmap_set_run, Span, pages
  <2>3. QED
    BY <1>10, <2>1, <2>2
<1>14. /\ blocks' \in [Procs -> SUBSET [start : 0 .. NUser, cnt : Cnts]]
       /\ \A q \in Procs : blocks'[q] \in SUBSET blocks[q]
       /\ b \notin blocks'[p]
    BY <1>3, <1>10
<1>15. UserTypes'
    BY <1>11, <1>12, <1>13, <1>14 DEF UserTypes
<1>16. Marked'
  <2>1. ASSUME NEW q \in Procs, NEW pg \in 0 .. NUser, user_pte'[q][pg] \in UserFrames
        PROVE  user_bits'[user_pte'[q][pg]] = 1
    <3>1. ~(q = p /\ pg \in pages) /\ user_pte'[q][pg] = user_pte[q][pg]
      BY <1>12, <2>1, UserConstants
    <3>2. user_bits[user_pte[q][pg]] = 1
      BY <1>2, <2>1, <3>1 DEF Marked
    <3>3. user_pte[q][pg] \notin freed
      <4> SUFFICES ASSUME NEW pk \in pages, user_pte[q][pg] = user_pte[p][pk] PROVE FALSE
        BY <1>8
      <4>1. QED
        BY <1>2, <1>4, <2>1, <3>1 DEF OnePage
    <3>4. QED
      BY <1>11, <2>1, <3>1, <3>2, <3>3
  <2>2. ASSUME NEW q \in Procs, user_pte'[q][StackPage] # NULL
        PROVE  user_vaddr'[q][StackPage] = 1
    <3>1. StackPage \notin pages
      BY <1>4
    <3>2. QED
      BY <1>2, <1>12, <1>13, <2>2, <3>1, UserConstants DEF Marked
  <2>3. QED
    BY <2>1, <2>2 DEF Marked
<1>17. OnePage'
  <2> SUFFICES ASSUME NEW q1 \in Procs, NEW q2 \in Procs, NEW g1 \in 0 .. NUser, NEW g2 \in 0 .. NUser,
                      user_pte'[q1][g1] \in UserFrames, user_pte'[q1][g1] = user_pte'[q2][g2]
               PROVE  q1 = q2 /\ g1 = g2
    BY DEF OnePage
  <2>1. user_pte'[q1][g1] = user_pte[q1][g1] /\ user_pte'[q2][g2] = user_pte[q2][g2]
    BY <1>12, UserConstants
  <2>2. QED
    BY <1>2, <2>1 DEF OnePage
<1>18. Stacks'
  <2>1. /\ \A q \in Procs : user_pte'[q][StackPage] = user_pte[q][StackPage]
        /\ \A q \in Procs : \A pg \in 0 .. NUser : user_pte'[q][pg] = Frame0 => user_pte[q][pg] = Frame0
    <3>1. StackPage \notin pages
      BY <1>4
    <3>2. QED
      BY <1>12, <3>1, UserConstants
  <2>2. QED
    BY <1>1, <1>2, <2>1 DEF Stacks
<1>19. Blocks'
  <2> SUFFICES ASSUME NEW q \in Procs, NEW a \in blocks'[q], NEW pg \in Span(a)
               PROVE  user_pte'[q][pg] # NULL
    BY <1>2, <1>14 DEF Blocks, Span, Apart
  <2>1. /\ a \in blocks[q] /\ a.start \in Int /\ a.cnt \in Int
        /\ pg \in 0 .. NUser /\ user_pte[q][pg] # NULL
    BY <1>2, <1>14, UserBlock
  <2>2. ~(q = p /\ pg \in pages)
    <3> SUFFICES ASSUME q = p, pg \in pages PROVE FALSE
      OBVIOUS
    <3>1. a # b
      BY <1>14
    <3>2. Apart(a, b)
      BY <1>2, <2>1, <3>1 DEF Blocks
    <3>3. QED
      BY <1>4, <2>1, <3>2 DEF Apart, Span, pages
  <2>3. QED
    BY <1>12, <2>1, <2>2
<1>20. UserInv'
    BY <1>10, <1>15, <1>16, <1>17, <1>18, <1>19 DEF UserInv, FreeAsserts
<1>21. {f \in UserFrames : user_bits'[f] # user_bits[f]} = freed
  <2>1. \A f \in freed : f \in UserFrames /\ user_bits[f] = 1
    BY <1>2, <1>4, <1>5, <1>8, UserConstants DEF Marked
  <2>2. QED
    BY <1>11, <2>1
<1>22. QED
    BY <1>8, <1>10, <1>20, <1>21 DEF pages

\* A step that leaves the processes' variables alone.
LEMMA StutterUser ==
    ASSUME UserInv, UNCHANGED user_vars
    PROVE  UserInv'
<1>1. UNCHANGED << user_vaddr, user_bits, user_pte, blocks, halted >>
    BY DEF user_vars
<1>2. QED
    BY <1>1 DEF UserInv, UserTypes, FreeAsserts, Marked, OnePage, Stacks, Blocks, Span, Apart

\* The invariant of the processes' half: frames on one page each and marked, stacks on
\* frames of their own, the pool's first frame under one of them, and blocks mapped,
\* apart and below the stack.  It holds between calls; each call is one step.
THEOREM UserInvariance == AllSpec => []UserInv
<1>1. UserInit => UserInv
  <2> SUFFICES ASSUME UserInit PROVE UserInv
    OBVIOUS
  <2>1. UserTypes
    BY DEF UserInit, UserTypes
  <2>2. Marked /\ OnePage /\ Stacks /\ Blocks
    BY UserConstants DEF UserInit, Marked, OnePage, Stacks, Blocks
  <2>3. QED
    BY <2>1, <2>2 DEF UserInit, UserInv, FreeAsserts
<1>2. ASSUME UserInv, [AllNext]_all_vars PROVE UserInv'
  <2>1. CASE UNCHANGED user_vars
    BY <1>2, <2>1, StutterUser
  <2>2. CASE User
    BY <1>2, <2>2, StartProcessUser, UserMallocUser, UserFreeUser DEF User
  <2>3. QED
    BY <1>2, <2>1, <2>2 DEF AllNext, all_vars
<1>3. QED
    BY <1>1, <1>2, PTL DEF AllSpec

\* No block of a process has the pool's first frame, which free_pages would refuse.
THEOREM FreeAssertsSafe == AllSpec => []FreeAsserts
<1>1. UserInv => FreeAsserts
    BY DEF UserInv
<1>2. QED
    BY <1>1, UserInvariance, PTL

\* A user frame backs one page of one process and is marked, blocks are mapped, and a
\* stack's address stays taken, though a free clears the wrong bits.
THEOREM FramesApartSafe == AllSpec => []FramesApart
<1>1. UserInv => FramesApart
  <2> SUFFICES ASSUME UserInv, halted \in {"no", "fault"}
               PROVE  FramesApart
    BY DEF FramesApart
  <2>0. \A p \in Procs : \A pg \in 0 .. NUser : user_pte[p][pg] \in UserFrames \cup {Frame0, NULL}
    BY DEF UserInv, UserTypes
  <2> DEFINE mapped == {m \in Procs \X (0 .. NUser) : user_pte[m[1]][m[2]] # NULL}
             frame(m) == user_pte[m[1]][m[2]]
  <2>1. UserTypes /\ Marked /\ OnePage /\ Blocks
    BY DEF UserInv
  <2>2. \A m \in mapped : /\ m[1] \in Procs /\ m[2] \in 0 .. NUser /\ m = << m[1], m[2] >>
                          /\ user_pte[m[1]][m[2]] # NULL
    OBVIOUS
  <2>3. ASSUME NEW m \in mapped, frame(m) # Frame0
        PROVE  frame(m) \in UserFrames /\ user_bits[frame(m)] = 1
    <3>1. PICK p \in Procs, pg \in 0 .. NUser : p = m[1] /\ pg = m[2] /\ user_pte[p][pg] # NULL
      BY <2>2
    <3>2. user_pte[p][pg] \in UserFrames
      BY <2>0, <2>3, <3>1
    <3>3. user_bits[user_pte[p][pg]] = 1
      BY <2>1, <3>2 DEF Marked
    <3>4. QED
      BY <3>1, <3>2, <3>3
  <2>4. ASSUME NEW m \in mapped, NEW k \in mapped, frame(m) = frame(k), frame(m) # Frame0
        PROVE  m = k
    <3>1. frame(m) \in UserFrames
      BY <2>3, <2>4
    <3>2. m[1] = k[1] /\ m[2] = k[2]
      BY <2>1, <2>2, <2>4, <3>1 DEF OnePage
    <3>3. QED
      BY <2>2, <3>2
  <2>5. ASSUME NEW p \in Procs, NEW b \in blocks[p], NEW pg \in b.start .. b.start + b.cnt - 1
        PROVE  << p, pg >> \in mapped
    <3>1. pg \in 0 .. NUser /\ user_pte[p][pg] # NULL
      BY <2>1, UserBlock DEF Span
    <3>2. QED
      BY <3>1
  <2>6. ASSUME NEW p \in Procs, << p, StackPage >> \in mapped PROVE user_vaddr[p][StackPage] = 1
    BY <2>1, <2>2, <2>6 DEF Marked
  <2>7. QED
    BY <2>3, <2>4, <2>5, <2>6 DEF FramesApart
<1>2. QED
    BY <1>1, UserInvariance, PTL

\* A process's free returns its own frames to the pool, all of them and no others.
THEOREM FreesOwnSafe == AllSpec => FreesOwn
<1> DEFINE Own == \A p \in Procs : \A b \in blocks[p] \ blocks'[p] :
                    {f \in UserFrames : user_bits'[f] # user_bits[f]}
                        = {user_pte[p][pg] : pg \in b.start .. b.start + b.cnt - 1}
<1>1. ASSUME UserInv, AllNext PROVE Own
  <2> SUFFICES ASSUME NEW p \in Procs, NEW b \in blocks[p] \ blocks'[p]
               PROVE  {f \in UserFrames : user_bits'[f] # user_bits[f]}
                        = {user_pte[p][pg] : pg \in b.start .. b.start + b.cnt - 1}
    OBVIOUS
  <2>1. blocks \in [Procs -> SUBSET [start : 0 .. NUser, cnt : Cnts]]
    BY <1>1 DEF UserInv, UserTypes
  <2>2. User
    BY <1>1 DEF AllNext, user_vars, all_vars
  <2>3. PICK q \in Procs : \/ start_process(q)
                           \/ \E n \in Cnts : user_malloc(q, n)
                           \/ \E a \in blocks[q] : user_free(q, a)
    BY <2>2 DEF User
  <2>4. ~start_process(q)
    BY DEF start_process
  <2>5. ASSUME NEW n \in Cnts, user_malloc(q, n) PROVE FALSE
    BY <2>1, <2>5 DEF user_malloc, all_vars, user_vars
  <2>6. PICK a \in blocks[q] : user_free(q, a)
    BY <2>3, <2>4, <2>5
  <2>7. /\ blocks' = [blocks EXCEPT ![q] = @ \ {a}]
        /\ {f \in UserFrames : user_bits'[f] # user_bits[f]} = {user_pte[q][pg] : pg \in Span(a)}
    BY <1>1, <2>6, UserFreeUser
  <2>8. p = q /\ b = a
    BY <2>1, <2>7
  <2>9. QED
    BY <2>7, <2>8 DEF Span
<1>2. QED
    BY <1>1, UserInvariance, PTL DEF AllSpec, FreesOwn
=============================================================================
