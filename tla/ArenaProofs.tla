---------------------------- MODULE ArenaProofs ----------------------------
(***************************************************************************)
(* The block allocator, for every number of pages, every arena layout and  *)
(* all requested sizes.  The invariant is stated page by page: an          *)
(* operation changes one arena, and what it must show is that arena's part *)
(* only.                                                                   *)
(***************************************************************************)
EXTENDS Arena, LibProofs

LargeArenas == [large : {TRUE}, desc : {NULL}, cnt : 1 .. NPages]
SmallArenas == [large : {FALSE}, desc : Descs, cnt : Nat]
Blocks == [page : Pages, index : Nat, size : Sizes]

TypeInv ==
    /\ arena \in [Pages -> {NULL} \cup LargeArenas \cup SmallArenas]
    /\ free_list \in [Descs -> Seq(Pages \X Nat)]
    /\ live \in SUBSET Blocks

Small(p) == arena[p] # NULL /\ ~arena[p].large
Large(p) == arena[p] # NULL /\ arena[p].large

\* The blocks of a small arena that are on its free list.
Free(p) ==
    {k \in 0 .. blocks_per_arena(arena[p].desc) - 1 :
        elem_find(free_list[arena[p].desc], << p, k >>)}

\* A free list links blocks of its own arenas only.
Listed(p) ==
    \A d \in Descs : \A k \in Nat :
        elem_find(free_list[d], << p, k >>) =>
            Small(p) /\ arena[p].desc = d /\ k < blocks_per_arena(d)

\* What a caller holds is in an arena, large enough, not free, and nobody else's.
HeldLarge(b) == b.index = 0 /\ IsLarge(b.size) /\ arena[b.page].cnt = page_count(b.size)
HeldSmall(b) ==
    /\ b.index < blocks_per_arena(arena[b.page].desc)
    /\ b.size <= block_size(arena[b.page].desc)
    /\ b.index \notin Free(b.page)
Held(p) ==
    /\ \A b \in live : b.page = p =>
        (Large(p) /\ HeldLarge(b)) \/ (Small(p) /\ HeldSmall(b))
    /\ \A b, c \in live : b.page = p /\ c.page = p /\ b.index = c.index => b = c

\* Each block of an arena is free or held, one at least is held, and cnt counts the
\* free ones.
WholeLarge(p) == p + arena[p].cnt <= NPages /\ \E b \in live : b.page = p
WholeSmall(p) ==
    /\ arena[p].cnt = Cardinality(Free(p))
    /\ arena[p].cnt < blocks_per_arena(arena[p].desc)
    /\ \A k \in 0 .. blocks_per_arena(arena[p].desc) - 1 :
        k \in Free(p) \/ \E b \in live : b.page = p /\ b.index = k
Whole(p) == (Large(p) => WholeLarge(p)) /\ (Small(p) => WholeSmall(p))

Local(p) == Listed(p) /\ Held(p) /\ Whole(p)

ArenaInv ==
    /\ TypeInv
    /\ \A d \in Descs : NoDup(free_list[d])
    /\ \A p \in Pages : Local(p)
    /\ \A p, q \in Pages : p # q => Extent(p) \cap Extent(q) = {}
    /\ taken = Used \cup lost /\ Used \cap lost = {}

-----------------------------------------------------------------------------
(* The constants.                                                          *)

\* What the assumptions say of them.
LEMMA ArenaConstants ==
    /\ NPages \in Nat /\ Pages = 0 .. NPages - 1 /\ Sizes \subseteq Nat
    /\ Header \in Nat /\ PageSize \in Nat \ {0}
    /\ NDesc - 1 \in Descs /\ Descs \subseteq Int /\ \A d \in Descs : 0 <= d
    /\ NULL \notin Descs /\ NULL \notin LargeArenas /\ NULL \notin SmallArenas
    /\ \A d \in Descs : block_size(d) \in Nat \ {0} /\ blocks_per_arena(d) \in Nat \ {0}
<1>1. ASSUME NEW a \in LargeArenas PROVE a \in Arenas
  <2>1. /\ a = [large |-> a.large, desc |-> a.desc, cnt |-> a.cnt]
        /\ a.large = TRUE /\ a.desc = NULL /\ a.cnt \in 1 .. NPages
    BY DEF LargeArenas
  <2>2. a.cnt \in Nat
    BY <2>1, ArenaAssumption
  <2>3. QED
    BY <2>1, <2>2 DEF Arenas
<1>2. \A a \in SmallArenas : a \in Arenas
    BY DEF SmallArenas, Arenas
<1>3. QED
    BY <1>1, <1>2, ArenaAssumption DEF Pages, Descs

\* Products keep the order.
LEMMA Multiply ==
    ASSUME NEW i \in Nat, NEW j \in Nat, NEW k \in Nat, i <= j
    PROVE  i * k <= j * k /\ i * k \in Nat /\ j * k \in Nat
OBVIOUS

\* An arena's blocks fit into its page, behind the header.
LEMMA BlocksFit ==
    ASSUME NEW d \in Descs
    PROVE  Header + blocks_per_arena(d) * block_size(d) <= PageSize
<1> DEFINE a == PageSize - Header
           s == block_size(d)
<1>1. a \in Int /\ s \in Nat \ {0} /\ blocks_per_arena(d) = a \div s
    BY ArenaConstants DEF blocks_per_arena
<1> HIDE DEF a, s
<1>2. (a \div s) * s <= a /\ a \div s \in Int
    BY <1>1
<1>3. QED
    BY <1>1, <1>2, ArenaConstants DEF a, s

\* The loop over the descriptors finds one whose blocks are large enough.
LEMMA DesIdx ==
    ASSUME NEW size \in Sizes, ~IsLarge(size)
    PROVE  des_idx(size) \in Descs /\ size <= block_size(des_idx(size))
<1> DEFINE T == {d \in Descs : size <= block_size(d)}
<1>1. size \in Nat /\ NDesc - 1 \in Descs /\ block_size(NDesc - 1) \in Nat
    BY ArenaConstants
<1>2. NDesc - 1 \in T
    BY <1>1 DEF IsLarge
<1>3. T \subseteq Int /\ T # {} /\ 0 \in Int /\ \A x \in T : 0 <= x
  <2>1. T \subseteq Descs
    OBVIOUS
  <2> HIDE DEF T
  <2>2. QED
    BY <1>2, <2>1, ArenaConstants
<1>4. PICK d \in T : \A e \in T : d <= e
  <2> HIDE DEF T
  <2> QED BY <1>3, LeastInt
<1>5. \A e \in 0 .. d - 1 : size > block_size(e)
  <2> SUFFICES ASSUME NEW e \in 0 .. d - 1 PROVE size > block_size(e)
    OBVIOUS
  <2>1. e \in Descs /\ e \notin T
    BY <1>3, <1>4, ArenaConstants DEF Descs
  <2>2. block_size(e) \in Nat
    BY <2>1, ArenaConstants
  <2>3. QED
    BY <1>1, <2>1, <2>2
<1>6. QED
    BY <1>4, <1>5 DEF des_idx

\* A large request is for a page at least.
LEMMA PageCount ==
    ASSUME NEW size \in Sizes, IsLarge(size)
    PROVE  page_count(size) \in Nat \ {0}
<1> DEFINE a == size + PageSize - 1
<1>1. size \in Nat /\ size >= 1
  <2>1. size \in Nat /\ block_size(NDesc - 1) \in Nat \ {0} /\ size > block_size(NDesc - 1)
    BY ArenaConstants DEF IsLarge
  <2>2. QED
    BY <2>1
<1>2. a \in Int /\ PageSize \in Nat \ {0} /\ a >= PageSize
    BY <1>1, ArenaConstants
<1> HIDE DEF a
<1>3. a \div PageSize \in Int /\ a \div PageSize >= 1
    BY <1>2
<1>4. QED
    BY <1>3 DEF page_count, a

-----------------------------------------------------------------------------
(* The state.                                                              *)

\* The arena at a page, and the pages it takes.
LEMMA ArenaAt ==
    ASSUME TypeInv, NEW p \in Pages
    PROVE  /\ arena[p] = NULL => Extent(p) = {}
           /\ Large(p) => /\ arena[p] \in LargeArenas /\ arena[p].desc = NULL
                          /\ arena[p].cnt \in 1 .. NPages
                          /\ p \in Extent(p) /\ Extent(p) = p .. p + arena[p].cnt - 1
           /\ Small(p) => /\ arena[p] \in SmallArenas /\ arena[p].desc \in Descs
                          /\ arena[p].cnt \in Nat
                          /\ p \in Extent(p) /\ Extent(p) = {p}
           /\ arena[p] = NULL \/ Large(p) \/ Small(p)
<1>1. arena[p] \in {NULL} \cup LargeArenas \cup SmallArenas
    BY DEF TypeInv
<1>2. ASSUME Large(p)
      PROVE  arena[p] \in LargeArenas /\ arena[p].desc = NULL /\ arena[p].cnt \in 1 .. NPages
    BY <1>1, <1>2 DEF Large, LargeArenas, SmallArenas
<1>3. ASSUME Small(p)
      PROVE  arena[p] \in SmallArenas /\ arena[p].desc \in Descs /\ arena[p].cnt \in Nat
    BY <1>1, <1>3 DEF Small, LargeArenas, SmallArenas
<1>4. ASSUME Large(p)
      PROVE  p \in Extent(p) /\ Extent(p) = p .. p + arena[p].cnt - 1
  <2>1. Extent(p) = p .. p + arena[p].cnt - 1
    BY <1>4 DEF Extent, Large, PageRun
  <2>2. QED
    BY <1>2, <1>4, <2>1, ArenaConstants
<1>5. Small(p) => p \in Extent(p) /\ Extent(p) = {p}
    BY DEF Extent, Small
<1>6. arena[p] = NULL => Extent(p) = {}
    BY DEF Extent
<1>7. arena[p] = NULL \/ Large(p) \/ Small(p)
    BY DEF Large, Small
<1>8. QED
    BY <1>2, <1>3, <1>4, <1>5, <1>6, <1>7

\* A small arena's count may be any number.
LEMMA SetCount ==
    ASSUME NEW r \in SmallArenas, NEW n \in Nat
    PROVE  LET a == [r EXCEPT !.cnt = n]
           IN  a \in SmallArenas /\ a.cnt = n /\ a.desc = r.desc /\ a.large = r.large
BY DEF SmallArenas

\* The pages of an arena are marked, and none of them is lost.
LEMMA InPool ==
    ASSUME ArenaInv, NEW p \in Pages
    PROVE  Extent(p) \subseteq taken /\ Extent(p) \cap lost = {}
BY DEF ArenaInv, Used

\* The pages malloc_pages returns are nobody's.
LEMMA MallocPages ==
    ASSUME ArenaInv, NEW n \in Nat \ {0}, NEW p \in vaddr_get_pages(n)
    PROVE  /\ p \in Pages /\ p + n <= NPages /\ arena[p] = NULL
           /\ \A q \in Pages : (p .. p + n - 1) \cap Extent(q) = {}
           /\ PageRun(p, n) = p .. p + n - 1 /\ PageRun(p, n) \cap taken = {}
           /\ PageRun(p, n) \cap lost = {} /\ PageRun(p, n) \cap Used = {}
<1>1. p \in 0 .. NPages - n /\ \A x \in p .. p + n - 1 : x \notin taken
    BY DEF vaddr_get_pages, PageRun
<1>2. p \in Pages /\ p + n <= NPages /\ p \in p .. p + n - 1
    BY <1>1, ArenaConstants
<1>3. \A q \in Pages : (p .. p + n - 1) \cap Extent(q) = {}
    BY <1>1, InPool
<1>4. p \notin Extent(p)
    BY <1>2, <1>3
<1>5. taken = Used \cup lost
    BY DEF ArenaInv
<1>6. /\ PageRun(p, n) = p .. p + n - 1 /\ PageRun(p, n) \cap taken = {}
      /\ PageRun(p, n) \cap lost = {} /\ PageRun(p, n) \cap Used = {}
    BY <1>1, <1>5 DEF PageRun
<1>7. QED
    BY <1>2, <1>3, <1>4, <1>6, ArenaAt DEF ArenaInv

\* A page without an arena has no blocks.
LEMMA NoArena ==
    ASSUME ArenaInv, NEW p \in Pages, arena[p] = NULL
    PROVE  /\ \A b \in live : b.page # p
           /\ \A d \in Descs : \A k \in Nat : ~elem_find(free_list[d], << p, k >>)
BY DEF ArenaInv, Local, Listed, Held, Large, Small

\* A step that changes the arena at p only, and marks the pages it takes.
Changes(p) ==
    /\ \A q \in Pages : q # p => arena'[q] = arena[q]
    /\ \A d \in Descs : \A q \in Pages : \A k \in Nat :
        q # p => (elem_find(free_list'[d], << q, k >>) <=> elem_find(free_list[d], << q, k >>))
    /\ \A b \in Blocks : b.page # p => (b \in live' <=> b \in live)
    /\ \A d \in Descs : NoDup(free_list'[d])
    /\ \A q \in Pages : q # p => Extent(p)' \cap Extent(q) = {}
    /\ taken' = (taken \ Extent(p)) \cup Extent(p)'
    /\ lost' = lost /\ Extent(p)' \cap lost = {}

\* What it must show is that arena's part of the invariant.
LEMMA StepLemma ==
    ASSUME ArenaInv, NEW p \in Pages, Changes(p), TypeInv', Local(p)'
    PROVE  ArenaInv'
<1>1. TypeInv /\ \A q \in Pages : Local(q)
    BY DEF ArenaInv
<1>2. ASSUME NEW q \in Pages, q # p PROVE Local(q)' /\ Extent(q)' = Extent(q)
  <2>1. arena'[q] = arena[q]
    BY <1>2 DEF Changes
  <2>2. (Large(q)' <=> Large(q)) /\ (Small(q)' <=> Small(q)) /\ Extent(q)' = Extent(q)
    BY <2>1 DEF Large, Small, Extent
  <2>3. \A d \in Descs : \A k \in Nat :
            elem_find(free_list'[d], << q, k >>) <=> elem_find(free_list[d], << q, k >>)
    BY <1>2 DEF Changes
  <2>4. \A b \in Blocks : b.page = q => (b \in live' <=> b \in live)
    BY <1>2 DEF Changes
  <2>5. live \in SUBSET Blocks /\ live' \in SUBSET Blocks
    BY <1>1 DEF TypeInv
  <2>6. ASSUME Small(q) PROVE Free(q)' = Free(q)
    <3>1. arena[q].desc \in Descs
      BY <1>1, <2>6, ArenaAt
    <3>2. blocks_per_arena(arena[q].desc) \in Nat
      BY <3>1, ArenaConstants
    <3>3. QED
      BY <2>1, <2>3, <3>1, <3>2 DEF Free
  <2>7. Listed(q)'
    BY <1>1, <2>1, <2>2, <2>3 DEF Local, Listed
  <2>8. Held(q)'
    <3>1. \A b \in live' : b.page = q => b \in live
      BY <2>4, <2>5
    <3>2. ASSUME NEW b \in live', b.page = q
          PROVE  (Large(q)' /\ HeldLarge(b)') \/ (Small(q)' /\ HeldSmall(b)')
      <4>1. (Large(q) /\ HeldLarge(b)) \/ (Small(q) /\ HeldSmall(b))
        BY <1>1, <3>1, <3>2 DEF Local, Held
      <4>2. CASE Large(q) /\ HeldLarge(b)
        BY <2>1, <2>2, <3>2, <4>2 DEF HeldLarge
      <4>3. CASE Small(q) /\ HeldSmall(b)
        BY <2>1, <2>2, <2>6, <3>2, <4>3 DEF HeldSmall
      <4>4. QED
        BY <4>1, <4>2, <4>3
    <3>3. \A b, c \in live' : b.page = q /\ c.page = q /\ b.index = c.index => b = c
      BY <1>1, <3>1 DEF Local, Held
    <3>4. QED
      BY <3>2, <3>3 DEF Held
  <2>9. Whole(q)'
    <3>1. \A b \in live : b.page = q => b \in live'
      BY <2>4, <2>5
    <3>2. Large(q) => WholeLarge(q)'
      BY <1>1, <2>1, <3>1 DEF Local, Whole, WholeLarge
    <3>3. ASSUME Small(q) PROVE WholeSmall(q)'
      <4>1. WholeSmall(q)
        BY <1>1, <3>3 DEF Local, Whole
      <4>2. QED
        BY <2>1, <2>6, <3>1, <3>3, <4>1 DEF WholeSmall
    <3>4. QED
      BY <2>2, <3>2, <3>3 DEF Whole
  <2>10. QED
    BY <2>2, <2>7, <2>8, <2>9 DEF Local
<1>3. \A q \in Pages : Local(q)'
    BY <1>2
<1>4. \A d \in Descs : NoDup(free_list'[d])
    BY DEF Changes
<1>5. \A q, r \in Pages : q # r => Extent(q)' \cap Extent(r)' = {}
  <2> SUFFICES ASSUME NEW q \in Pages, NEW r \in Pages, q # r
               PROVE  Extent(q)' \cap Extent(r)' = {}
    OBVIOUS
  <2>1. CASE q = p
    BY <1>2, <2>1 DEF Changes
  <2>2. CASE r = p
    BY <1>2, <2>2 DEF Changes
  <2>3. CASE q # p /\ r # p
    BY <1>2, <2>3 DEF ArenaInv
  <2>4. QED
    BY <2>1, <2>2, <2>3
<1>6. taken' = Used' \cup lost' /\ Used' \cap lost' = {}
  <2> DEFINE others == UNION {Extent(q) : q \in Pages \ {p}}
  <2>1. Used = Extent(p) \cup others
    BY DEF Used
  <2>2. Used' = Extent(p)' \cup others
    BY <1>2 DEF Used
  <2>3. Extent(p) \cap others = {}
    BY DEF ArenaInv
  <2>4. taken = Used \cup lost /\ Used \cap lost = {}
    BY DEF ArenaInv
  <2> HIDE DEF others
  <2>5. /\ taken' = (taken \ Extent(p)) \cup Extent(p)'
        /\ lost' = lost /\ Extent(p)' \cap lost = {}
    BY DEF Changes
  <2>6. QED
    BY <2>1, <2>2, <2>3, <2>4, <2>5
<1>7. QED
    BY <1>3, <1>4, <1>5, <1>6 DEF ArenaInv

\* A call that changes no arena: the pages S it leaves marked are lost.
LEMMA SameArena ==
    ASSUME ArenaInv, arena' = arena, free_list' = free_list, live' = live,
           NEW S, S \cap Used = {}, taken' = taken \cup S, lost' = lost \cup S
    PROVE  ArenaInv'
<1>1. \A p \in Pages : Extent(p)' = Extent(p) /\ Free(p)' = Free(p)
    BY DEF Extent, Free
<1>2. \A p \in Pages : (Large(p)' <=> Large(p)) /\ (Small(p)' <=> Small(p))
    BY DEF Large, Small
<1>3. TypeInv' /\ \A d \in Descs : NoDup(free_list'[d])
    BY DEF ArenaInv, TypeInv
<1>4. ASSUME NEW p \in Pages PROVE Local(p)'
  <2>1. Local(p)
    BY DEF ArenaInv
  <2>2. Listed(p)'
    BY <1>2, <2>1 DEF Local, Listed
  <2>3. \A b \in live : b.page = p =>
          (HeldLarge(b)' <=> HeldLarge(b)) /\ (HeldSmall(b)' <=> HeldSmall(b))
    BY <1>1 DEF HeldLarge, HeldSmall
  <2>4. Held(p)'
    BY <1>2, <2>1, <2>3 DEF Local, Held
  <2>5. (WholeLarge(p)' <=> WholeLarge(p)) /\ (WholeSmall(p)' <=> WholeSmall(p))
    BY <1>1 DEF WholeLarge, WholeSmall
  <2>6. QED
    BY <1>2, <2>1, <2>2, <2>4, <2>5 DEF Local, Whole
<1>5. taken' = Used' \cup lost' /\ Used' \cap lost' = {}
  <2>1. Used' = Used
    BY <1>1 DEF Used
  <2>2. QED
    BY <2>1 DEF ArenaInv
<1>6. QED
    BY <1>1, <1>3, <1>4, <1>5 DEF ArenaInv

\* A failing malloc_pages keeps its addresses, all of them nobody's.
LEMMA FailStep ==
    ASSUME ArenaInv, NEW n \in Nat \ {0}, malloc_pages_fails(n)
    PROVE  ArenaInv'
<1>1. arena' = arena /\ free_list' = free_list /\ live' = live
    BY DEF malloc_pages_fails
<1>2. \E S : S \cap Used = {} /\ taken' = taken \cup S /\ lost' = lost \cup S
  <2>1. CASE taken' = taken /\ lost' = lost
    <3>1. {} \cap Used = {} /\ taken' = taken \cup {} /\ lost' = lost \cup {}
      BY <2>1
    <3>2. QED
      BY <3>1
  <2>2. CASE \E p \in vaddr_get_pages(n) : /\ taken' = taken \cup PageRun(p, n)
                                          /\ lost' = lost \cup PageRun(p, n)
    BY <2>2, MallocPages
  <2>3. QED
    BY <2>1, <2>2 DEF malloc_pages_fails
<1>3. QED
    BY <1>1, <1>2, SameArena

-----------------------------------------------------------------------------
(* The operations.                                                         *)

\* sys_malloc of a large block: a new arena on pages that were nobody's.
LEMMA MallocNewLarge ==
    ASSUME ArenaInv, NEW size \in Sizes, IsLarge(size), NEW p, malloc_pages(page_count(size), p),
           arena' = [arena EXCEPT ![p] = [large |-> TRUE, desc |-> NULL, cnt |-> page_count(size)]],
           live' = live \cup {[page |-> p, index |-> 0, size |-> size]},
           free_list' = free_list
    PROVE  ArenaInv'
<1> DEFINE n == page_count(size)
<1>1. IsLarge(size) /\ n \in Nat \ {0}
    BY PageCount
<1>2. /\ p \in vaddr_get_pages(n)
      /\ arena' = [arena EXCEPT ![p] = [large |-> TRUE, desc |-> NULL, cnt |-> n]]
      /\ live' = live \cup {[page |-> p, index |-> 0, size |-> size]}
      /\ taken' = taken \cup PageRun(p, n)
      /\ free_list' = free_list /\ lost' = lost
    BY DEF malloc_pages
<1> DEFINE b == [page |-> p, index |-> 0, size |-> size]
           a == [large |-> TRUE, desc |-> NULL, cnt |-> n]
<1> HIDE DEF n
<1>3. /\ p \in Pages /\ p + n <= NPages /\ arena[p] = NULL
      /\ \A q \in Pages : (p .. p + n - 1) \cap Extent(q) = {}
      /\ PageRun(p, n) = p .. p + n - 1 /\ PageRun(p, n) \cap lost = {}
    BY <1>1, <1>2, MallocPages
<1>4. TypeInv /\ live \in SUBSET Blocks
    BY DEF ArenaInv, TypeInv
<1>5. a \in LargeArenas /\ a # NULL /\ a.large /\ a.cnt = n
  <2>1. n \in 1 .. NPages
    BY <1>1, <1>3, ArenaConstants
  <2>2. a \in LargeArenas /\ a.large /\ a.cnt = n
    BY <2>1 DEF LargeArenas
  <2> HIDE DEF a
  <2>3. QED
    BY <2>2, ArenaConstants
<1>6. b \in Blocks /\ b.page = p /\ b.index = 0 /\ b.size = size
    BY <1>3 DEF Blocks
<1> HIDE DEF a, b
<1>7. arena'[p] = a /\ \A q \in Pages : q # p => arena'[q] = arena[q]
    BY <1>2, <1>3, <1>4 DEF TypeInv, a
<1>8. live' = live \cup {b}
    BY <1>2 DEF b
<1>9. TypeInv'
  <2>1. arena' = [arena EXCEPT ![p] = a]
    BY <1>2 DEF a
  <2>2. arena' \in [Pages -> {NULL} \cup LargeArenas \cup SmallArenas]
    BY <1>3, <1>4, <1>5, <2>1 DEF TypeInv
  <2>3. QED
    BY <1>2, <1>4, <1>6, <1>8, <2>2 DEF TypeInv
<1>10. Large(p)' /\ ~Small(p)' /\ Extent(p)' = PageRun(p, n)
    BY <1>5, <1>7 DEF Large, Small, Extent
<1>11. Changes(p)
  <2>1. \A d \in Descs : NoDup(free_list'[d])
    BY <1>2 DEF ArenaInv
  <2>2. \A c \in Blocks : c.page # p => (c \in live' <=> c \in live)
    BY <1>6, <1>8
  <2>3. \A q \in Pages : q # p => Extent(p)' \cap Extent(q) = {}
    BY <1>3, <1>10
  <2>4. /\ taken' = (taken \ Extent(p)) \cup Extent(p)'
        /\ lost' = lost /\ Extent(p)' \cap lost = {}
    <3>1. Extent(p) = {}
      BY <1>3, <1>4, ArenaAt
    <3>2. QED
      BY <1>2, <1>3, <1>10, <3>1
  <2>5. QED
    BY <1>2, <1>7, <2>1, <2>2, <2>3, <2>4 DEF Changes
<1>12. Local(p)'
  <2>1. \A c \in live' : c.page = p => c = b
    BY <1>3, <1>8, NoArena
  <2>2. Listed(p)'
    BY <1>2, <1>3, NoArena DEF Listed
  <2>3. HeldLarge(b)'
    BY <1>1, <1>5, <1>6, <1>7 DEF HeldLarge, n
  <2>4. Held(p)'
    BY <1>10, <2>1, <2>3 DEF Held
  <2>5. Whole(p)'
    BY <1>3, <1>5, <1>6, <1>7, <1>8, <1>10 DEF Whole, WholeLarge
  <2>6. QED
    BY <2>2, <2>4, <2>5 DEF Local
<1>13. QED
    BY <1>3, <1>9, <1>11, <1>12, StepLemma

\* sys_malloc of a large block.
LEMMA MallocLargeStep ==
    ASSUME ArenaInv, NEW size \in Sizes, sys_malloc_large(size)
    PROVE  ArenaInv'
<1> DEFINE n == page_count(size)
<1>1. IsLarge(size) /\ n \in Nat \ {0}
    BY PageCount DEF sys_malloc_large
<1>2. CASE UNCHANGED << arena, free_list, live, taken, lost >>
  <2>1. {} \cap Used = {} /\ taken' = taken \cup {} /\ lost' = lost \cup {}
    BY <1>2
  <2>2. QED
    BY <1>2, <2>1, SameArena
<1>3. CASE malloc_pages_fails(n)
  <2> HIDE DEF n
  <2> QED BY <1>1, <1>3, FailStep
<1>4. CASE /\ \E p \in Pages :
                /\ malloc_pages(n, p)
                /\ arena' = [arena EXCEPT ![p] = [large |-> TRUE, desc |-> NULL, cnt |-> n]]
                /\ live' = live \cup {[page |-> p, index |-> 0, size |-> size]}
           /\ UNCHANGED free_list
    BY <1>1, <1>4, MallocNewLarge
<1>5. QED
    BY <1>2, <1>3, <1>4 DEF sys_malloc_large

\* sys_malloc of a small block, from the free list.
LEMMA MallocListedStep ==
    ASSUME ArenaInv, NEW size \in Sizes, ~IsLarge(size), NEW d, d = des_idx(size),
           free_list[d] # << >>, NEW b, b = list_first(free_list[d]),
           arena' = [arena EXCEPT ![b[1]].cnt = @ - 1],
           free_list' = [free_list EXCEPT ![d] = list_pop(free_list[d])],
           live' = live \cup {[page |-> b[1], index |-> b[2], size |-> size]},
           taken' = taken, lost' = lost
    PROVE  ArenaInv'
<1> DEFINE fl == free_list[d]
           p == b[1]
           k == b[2]
           c == [page |-> p, index |-> k, size |-> size]
<1>1. d \in Descs /\ size <= block_size(d)
    BY DesIdx
<1>2. /\ TypeInv /\ live \in SUBSET Blocks /\ fl \in Seq(Pages \X Nat) /\ NoDup(fl)
      /\ arena \in [Pages -> {NULL} \cup LargeArenas \cup SmallArenas]
      /\ free_list \in [Descs -> Seq(Pages \X Nat)]
    BY <1>1 DEF ArenaInv, TypeInv
<1>3. /\ b \in Pages \X Nat /\ elem_find(fl, b) /\ list_pop(fl) \in Seq(Pages \X Nat)
      /\ NoDup(list_pop(fl))
      /\ \A x : elem_find(list_pop(fl), x) <=> elem_find(fl, x) /\ x # b
  <2> DEFINE S == Pages \X Nat
  <2> HIDE DEF S, fl
  <2>1. fl \in Seq(S) /\ fl # << >> /\ NoDup(fl) /\ b = list_first(fl)
    BY <1>2 DEF S, fl
  <2>2. /\ b \in S /\ elem_find(fl, b) /\ list_pop(fl) \in Seq(S)
        /\ NoDup(list_pop(fl))
        /\ \A x : elem_find(list_pop(fl), x) <=> elem_find(fl, x) /\ x # b
    BY <2>1, PopLemma
  <2>3. QED
    BY <2>2 DEF S
<1>4. p \in Pages /\ k \in Nat /\ b = << p, k >>
    BY <1>3
<1>5. Local(p) /\ Small(p) /\ arena[p].desc = d /\ k < blocks_per_arena(d)
  <2>1. Local(p)
    BY <1>4 DEF ArenaInv
  <2>2. QED
    BY <1>1, <1>3, <1>4, <2>1 DEF Local, Listed
<1>6. /\ arena[p] \in SmallArenas /\ arena[p].cnt \in Nat /\ ~arena[p].large
      /\ blocks_per_arena(d) \in Nat \ {0}
    BY <1>1, <1>2, <1>4, <1>5, ArenaAt, ArenaConstants DEF Small
<1>7. k \in Free(p) /\ IsFiniteSet(Free(p)) /\ Free(p) \in SUBSET (0 .. blocks_per_arena(d) - 1)
  <2>1. k \in 0 .. blocks_per_arena(d) - 1
    BY <1>4, <1>5, <1>6
  <2>2. k \in Free(p) /\ Free(p) \in SUBSET (0 .. blocks_per_arena(d) - 1)
    BY <1>3, <1>4, <1>5, <2>1 DEF Free
  <2>3. IsFiniteSet(0 .. blocks_per_arena(d) - 1)
    <3>1. 0 \in Int /\ blocks_per_arena(d) - 1 \in Int
      BY <1>6
    <3>2. QED
      BY <3>1, FS_Interval
  <2>4. QED
    BY <2>2, <2>3, FS_Subset
<1>8. arena[p].cnt = Cardinality(Free(p)) /\ arena[p].cnt >= 1 /\ arena[p].cnt < blocks_per_arena(d)
  <2>1. arena[p].cnt = Cardinality(Free(p)) /\ arena[p].cnt < blocks_per_arena(d)
    BY <1>5 DEF Local, Whole, WholeSmall
  <2>2. Cardinality(Free(p)) # 0
    BY <1>7, FS_EmptySet
  <2>3. QED
    BY <1>6, <2>1, <2>2
<1>9. c \in Blocks /\ c.page = p /\ c.index = k /\ c.size = size
    BY <1>4 DEF Blocks
<1> HIDE DEF c, fl, p, k
<1>10. /\ arena' = [arena EXCEPT ![p].cnt = @ - 1] /\ live' = live \cup {c}
       /\ free_list' = [free_list EXCEPT ![d] = list_pop(fl)]
    BY DEF c, fl, p, k
<1>11. /\ arena'[p] \in SmallArenas /\ arena'[p].cnt = arena[p].cnt - 1
       /\ arena'[p].desc = d /\ ~arena'[p].large /\ arena'[p] # NULL
       /\ \A q \in Pages : q # p => arena'[q] = arena[q]
       /\ arena' \in [Pages -> {NULL} \cup LargeArenas \cup SmallArenas]
  <2> DEFINE a == [arena[p] EXCEPT !.cnt = @ - 1]
  <2>1. /\ a \in SmallArenas /\ a.cnt = arena[p].cnt - 1 /\ a.desc = arena[p].desc
        /\ a.large = arena[p].large
    <3>1. arena[p].cnt - 1 \in Nat
      BY <1>6, <1>8
    <3>2. QED
      BY <1>6, <3>1, SetCount
  <2>2. arena' = [arena EXCEPT ![p] = a]
    BY <1>2, <1>4, <1>10
  <2> HIDE DEF a
  <2>3. arena'[p] = a /\ a # NULL
    BY <1>2, <1>4, <2>1, <2>2, ArenaConstants
  <2>4. QED
    BY <1>2, <1>4, <1>5, <1>6, <2>1, <2>2, <2>3
<1>12. /\ free_list'[d] = list_pop(fl)
       /\ \A e \in Descs : e # d => free_list'[e] = free_list[e]
       /\ free_list' \in [Descs -> Seq(Pages \X Nat)]
    BY <1>1, <1>2, <1>3, <1>10
<1>13. TypeInv'
    BY <1>2, <1>9, <1>10, <1>11, <1>12 DEF TypeInv
<1>14. Small(p)' /\ ~Large(p)' /\ Extent(p)' = Extent(p)
    BY <1>5, <1>11 DEF Small, Large, Extent
<1>15. \A e \in Descs : \A x : elem_find(free_list'[e], x) <=>
                                elem_find(free_list[e], x) /\ ~(e = d /\ x = b)
    BY <1>3, <1>12 DEF fl
<1>16. Changes(p)
  <2>1. \A e \in Descs : NoDup(free_list'[e])
    BY <1>3, <1>12 DEF ArenaInv
  <2>2. \A x \in Blocks : x.page # p => (x \in live' <=> x \in live)
    BY <1>9, <1>10
  <2>3. \A q \in Pages : q # p => Extent(p)' \cap Extent(q) = {}
    BY <1>4, <1>14 DEF ArenaInv
  <2>4. \A e \in Descs : \A q \in Pages : \A i \in Nat :
        q # p => (elem_find(free_list'[e], << q, i >>) <=> elem_find(free_list[e], << q, i >>))
    BY <1>4, <1>15
  <2>5. /\ taken' = (taken \ Extent(p)) \cup Extent(p)'
        /\ lost' = lost /\ Extent(p)' \cap lost = {}
    BY <1>4, <1>14, InPool
  <2>6. QED
    BY <1>11, <2>1, <2>2, <2>3, <2>4, <2>5 DEF Changes
<1>17. Free(p)' = Free(p) \ {k}
    BY <1>1, <1>4, <1>5, <1>11, <1>15 DEF Free
<1>18. Local(p)'
  <2>1. Listed(p)'
    BY <1>5, <1>11, <1>14, <1>15 DEF Local, Listed
  <2>2. ASSUME NEW x \in live, x.page = p
        PROVE  HeldSmall(x) /\ x.index # k
    BY <1>5, <1>7, <2>2 DEF Local, Held, HeldSmall, Large, Small
  <2>3. ASSUME NEW x \in live', x.page = p PROVE HeldSmall(x)'
    <3>1. CASE x = c
      BY <1>1, <1>5, <1>9, <1>11, <1>17, <2>3, <3>1 DEF HeldSmall
    <3>2. CASE x \in live
      BY <1>5, <1>11, <1>17, <2>2, <2>3, <3>2 DEF HeldSmall
    <3>3. QED
      BY <1>10, <3>1, <3>2
  <2>4. Held(p)'
    <3>1. \A x, y \in live' : x.page = p /\ y.page = p /\ x.index = y.index => x = y
      BY <1>5, <1>9, <1>10, <2>2 DEF Local, Held
    <3>2. QED
      BY <1>14, <2>3, <3>1 DEF Held
  <2>5. WholeSmall(p)'
    <3>1. Cardinality(Free(p)') = arena'[p].cnt
      BY <1>7, <1>8, <1>11, <1>17, FS_RemoveElement
    <3>2. arena'[p].cnt < blocks_per_arena(d)
      BY <1>6, <1>8, <1>11
    <3>3. ASSUME NEW i \in 0 .. blocks_per_arena(d) - 1
          PROVE  i \in Free(p)' \/ \E x \in live' : x.page = p /\ x.index = i
      <4>1. i \in Free(p) \/ \E x \in live : x.page = p /\ x.index = i
        BY <1>5 DEF Local, Whole, WholeSmall
      <4>2. CASE i = k
        BY <1>9, <1>10, <4>2
      <4>3. CASE i # k
        BY <1>10, <1>17, <4>1, <4>3
      <4>4. QED
        BY <4>2, <4>3
    <3>4. QED
      BY <1>11, <3>1, <3>2, <3>3 DEF WholeSmall
  <2>6. QED
    BY <1>14, <2>1, <2>4, <2>5 DEF Local, Whole
<1>19. QED
    BY <1>4, <1>13, <1>16, <1>18, StepLemma

\* The blocks of a new arena, in address order.
LEMMA ArenaBlocks ==
    ASSUME NEW p \in Pages, NEW d \in Descs
    PROVE  LET bl == arena_blocks(p, d)
           IN  /\ bl \in Seq(Pages \X Nat) /\ bl # << >> /\ NoDup(bl)
               /\ list_first(bl) = << p, 0 >>
               /\ \A q \in Pages : \A k \in Nat :
                    elem_find(bl, << q, k >>) <=> q = p /\ k < blocks_per_arena(d)
<1> DEFINE n == blocks_per_arena(d)
           bl == arena_blocks(p, d)
<1>1. n \in Nat \ {0}
    BY ArenaConstants
<1> HIDE DEF n
<1>2. bl = [k \in 1 .. n |-> << p, k - 1 >>]
    BY DEF arena_blocks, n
<1> HIDE DEF bl
<1>3. \A k \in 1 .. n : << p, k - 1 >> \in Pages \X Nat
    BY <1>1
<1>4. bl \in Seq(Pages \X Nat) /\ Len(bl) = n
    BY <1>1, <1>2, <1>3
<1>5. NoDup(bl)
    BY <1>1, <1>2, <1>4 DEF NoDup
<1>6. bl # << >> /\ list_first(bl) = << p, 0 >>
  <2>1. bl # << >>
    BY <1>1, <1>4
  <2>2. list_first(bl) = bl[1]
    BY <1>4, <2>1 DEF list_first
  <2>3. QED
    BY <1>1, <1>2, <2>1, <2>2
<1>7. ASSUME NEW q \in Pages, NEW k \in Nat
      PROVE  elem_find(bl, << q, k >>) <=> q = p /\ k < n
  <2>1. ASSUME q = p, k < n PROVE elem_find(bl, << q, k >>)
    <3>1. k + 1 \in 1 .. n /\ bl[k + 1] = << p, k >>
      BY <1>1, <1>2, <2>1
    <3>2. QED
      BY <1>4, <2>1, <3>1 DEF elem_find
  <2>2. ASSUME elem_find(bl, << q, k >>) PROVE q = p /\ k < n
    <3>1. PICK i \in 1 .. n : bl[i] = << q, k >>
      BY <1>4, <2>2 DEF elem_find
    <3>2. << p, i - 1 >> = << q, k >>
      BY <1>2, <3>1
    <3>3. QED
      BY <1>1, <3>1, <3>2
  <2>3. QED
    BY <2>1, <2>2
<1>8. QED
    BY <1>4, <1>5, <1>6, <1>7 DEF bl, n

\* sys_malloc of a small block, from a new arena: the other blocks are the free list.
LEMMA MallocFreshStep ==
    ASSUME ArenaInv, NEW size \in Sizes, ~IsLarge(size), NEW d, d = des_idx(size),
           free_list[d] = << >>, NEW p \in vaddr_get_pages(1), NEW n, n = blocks_per_arena(d),
           NEW a \in SmallArenas, a.desc = d, a.cnt = n - 1,
           arena' = [arena EXCEPT ![p] = a],
           free_list' = [free_list EXCEPT ![d] = list_pop(arena_blocks(p, d))],
           live' = live \cup {[page |-> p, index |-> 0, size |-> size]},
           taken' = taken \cup PageRun(p, 1), lost' = lost
    PROVE  ArenaInv'
<1> DEFINE c == [page |-> p, index |-> 0, size |-> size]
           fl == list_pop(arena_blocks(p, d))
<1>1. d \in Descs /\ size <= block_size(d)
    BY DesIdx
<1>2. /\ TypeInv /\ live \in SUBSET Blocks
      /\ arena \in [Pages -> {NULL} \cup LargeArenas \cup SmallArenas]
      /\ free_list \in [Descs -> Seq(Pages \X Nat)]
    BY DEF ArenaInv, TypeInv
<1>3. /\ p \in Pages /\ arena[p] = NULL
      /\ \A q \in Pages : p \notin Extent(q)
      /\ PageRun(p, 1) = {p} /\ p \notin lost
  <2>1. 1 \in Nat \ {0} /\ p .. p + 1 - 1 = {p}
    BY ArenaConstants DEF vaddr_get_pages
  <2>2. QED
    BY <2>1, MallocPages
<1>4. n \in Nat \ {0}
    BY <1>1, ArenaConstants
<1>5. a \in SmallArenas /\ a # NULL /\ ~a.large /\ a.desc = d /\ a.cnt = n - 1
  <2>1. ~a.large
    BY DEF SmallArenas
  <2>2. QED
    BY <2>1, ArenaConstants
<1>6. /\ fl \in Seq(Pages \X Nat) /\ NoDup(fl)
      /\ \A q \in Pages : \A k \in Nat :
            elem_find(fl, << q, k >>) <=> q = p /\ k < n /\ k # 0
  <2> DEFINE S == Pages \X Nat
             bl == arena_blocks(p, d)
  <2>1. /\ bl \in Seq(S) /\ bl # << >> /\ NoDup(bl) /\ list_first(bl) = << p, 0 >>
        /\ \A q \in Pages : \A k \in Nat : elem_find(bl, << q, k >>) <=> q = p /\ k < n
    BY <1>1, <1>3, ArenaBlocks
  <2> HIDE DEF S, bl
  <2>2. /\ list_pop(bl) \in Seq(S) /\ NoDup(list_pop(bl))
        /\ \A x : elem_find(list_pop(bl), x) <=> elem_find(bl, x) /\ x # << p, 0 >>
    BY <2>1, PopLemma
  <2>3. QED
    BY <2>1, <2>2 DEF S, bl
<1>7. c \in Blocks /\ c.page = p /\ c.index = 0 /\ c.size = size
    BY <1>3 DEF Blocks
<1> HIDE DEF c, fl
<1>8. live' = live \cup {c} /\ free_list' = [free_list EXCEPT ![d] = fl]
    BY DEF c, fl
<1>9. arena'[p] = a /\ \A q \in Pages : q # p => arena'[q] = arena[q]
    BY <1>2, <1>3
<1>10. free_list'[d] = fl /\ \A e \in Descs : e # d => free_list'[e] = free_list[e]
    BY <1>1, <1>2, <1>8
<1>11. TypeInv'
  <2>1. arena' \in [Pages -> {NULL} \cup LargeArenas \cup SmallArenas]
    BY <1>2, <1>3, <1>5
  <2>2. free_list' \in [Descs -> Seq(Pages \X Nat)]
    BY <1>1, <1>2, <1>6, <1>8
  <2>3. QED
    BY <1>2, <1>7, <1>8, <2>1, <2>2 DEF TypeInv
<1>12. Small(p)' /\ ~Large(p)' /\ Extent(p)' = {p}
    BY <1>5, <1>9 DEF Small, Large, Extent
<1>13. \A x : ~elem_find(free_list[d], x)
  <2>1. Len(free_list[d]) = 0
    OBVIOUS
  <2>2. QED
    BY <2>1 DEF elem_find
<1>14. Changes(p)
  <2>1. \A e \in Descs : NoDup(free_list'[e])
    BY <1>6, <1>10 DEF ArenaInv
  <2>2. \A x \in Blocks : x.page # p => (x \in live' <=> x \in live)
    BY <1>7, <1>8
  <2>3. \A q \in Pages : q # p => Extent(p)' \cap Extent(q) = {}
    BY <1>3, <1>12
  <2>4. \A e \in Descs : \A q \in Pages : \A k \in Nat :
        q # p => (elem_find(free_list'[e], << q, k >>) <=> elem_find(free_list[e], << q, k >>))
    BY <1>6, <1>10, <1>13
  <2>5. /\ taken' = (taken \ Extent(p)) \cup Extent(p)'
        /\ lost' = lost /\ Extent(p)' \cap lost = {}
    <3>1. Extent(p) = {}
      BY <1>2, <1>3, ArenaAt
    <3>2. QED
      BY <1>3, <1>12, <3>1
  <2>6. QED
    BY <1>9, <2>1, <2>2, <2>3, <2>4, <2>5 DEF Changes
<1>15. Free(p)' = 1 .. n - 1
  <2>1. Free(p)' = {k \in 0 .. n - 1 : elem_find(fl, << p, k >>)}
    BY <1>5, <1>9, <1>10 DEF Free
  <2>2. \A k \in 0 .. n - 1 : elem_find(fl, << p, k >>) <=> k # 0
    <3> SUFFICES ASSUME NEW k \in 0 .. n - 1 PROVE elem_find(fl, << p, k >>) <=> k # 0
      OBVIOUS
    <3>1. k \in Nat /\ k < n
      BY <1>4
    <3>2. QED
      BY <1>3, <1>6, <3>1, Zenon
  <2>3. QED
    BY <1>4, <2>1, <2>2
<1>16. Local(p)'
  <2>1. \A x \in live' : x.page = p => x = c
    BY <1>3, <1>8, NoArena
  <2>2. Listed(p)'
    <3> SUFFICES ASSUME NEW e \in Descs, NEW k \in Nat, elem_find(free_list'[e], << p, k >>)
                 PROVE  e = d /\ k < n
      BY <1>5, <1>9, <1>12 DEF Listed
    <3>1. e = d
      BY <1>3, <1>10, NoArena
    <3>2. QED
      BY <1>3, <1>6, <1>10, <3>1
  <2>3. HeldSmall(c)'
    BY <1>1, <1>4, <1>5, <1>7, <1>9, <1>15 DEF HeldSmall
  <2>4. Held(p)'
    BY <1>12, <2>1, <2>3 DEF Held
  <2>5. WholeSmall(p)'
    <3>1. Cardinality(1 .. n - 1) = n - 1
      <4>1. 1 \in Int /\ n - 1 \in Int
        BY <1>4
      <4>2. Cardinality(1 .. n - 1) = IF 1 > n - 1 THEN 0 ELSE n - 1 - 1 + 1
        BY <4>1, FS_Interval
      <4>3. QED
        BY <1>4, <4>2
    <3>2. \A k \in 0 .. n - 1 : k \in 1 .. n - 1 \/ \E x \in live' : x.page = p /\ x.index = k
      BY <1>4, <1>7, <1>8
    <3>3. QED
      BY <1>4, <1>5, <1>9, <1>15, <3>1, <3>2 DEF WholeSmall
  <2>6. QED
    BY <1>12, <2>2, <2>4, <2>5 DEF Local, Whole
<1>17. QED
    BY <1>3, <1>11, <1>14, <1>16, StepLemma

\* sys_malloc of a small block.
LEMMA MallocSmallStep ==
    ASSUME ArenaInv, NEW size \in Sizes, sys_malloc_small(size)
    PROVE  ArenaInv'
<1> DEFINE d == des_idx(size)
           n == blocks_per_arena(d)
           new == new_arena(d)
<1>1. /\ ~IsLarge(size)
      /\ \/ /\ free_list[d] # << >> /\ pop_block(size, arena, free_list[d])
            /\ taken' = taken /\ lost' = lost
         \/ malloc_pages_fails(1)
         \/ /\ free_list[d] = << >>
            /\ \E p \in Pages : /\ malloc_pages(1, p)
                                /\ pop_block(size, [arena EXCEPT ![p] = new], arena_blocks(p, d))
    BY DEF sys_malloc_small, list_empty
<1>2. CASE /\ free_list[d] # << >> /\ pop_block(size, arena, free_list[d])
           /\ taken' = taken /\ lost' = lost
    BY <1>1, <1>2, MallocListedStep DEF pop_block
<1>3. CASE malloc_pages_fails(1)
  <2>1. 1 \in Nat \ {0}
    OBVIOUS
  <2>2. QED
    BY <1>3, <2>1, FailStep
<1>4. CASE /\ free_list[d] = << >>
           /\ \E p \in Pages : /\ malloc_pages(1, p)
                               /\ pop_block(size, [arena EXCEPT ![p] = new], arena_blocks(p, d))
  <2>1. PICK p \in Pages : /\ malloc_pages(1, p)
                           /\ pop_block(size, [arena EXCEPT ![p] = new], arena_blocks(p, d))
    BY <1>4
  <2>2. d \in Descs /\ p \in Pages
    BY <1>1, DesIdx
  <2> DEFINE b == list_first(arena_blocks(p, d))
  <2>3. b = << p, 0 >> /\ b[1] = p /\ b[2] = 0
    <3>1. b = << p, 0 >>
      BY <2>2, ArenaBlocks
    <3> HIDE DEF b
    <3>2. QED
      BY <3>1
  <2>4. /\ arena' = [[arena EXCEPT ![p] = new] EXCEPT ![p].cnt = @ - 1]
        /\ free_list' = [free_list EXCEPT ![d] = list_pop(arena_blocks(p, d))]
        /\ live' = live \cup {[page |-> p, index |-> 0, size |-> size]}
    <3>1. /\ arena' = [[arena EXCEPT ![p] = new] EXCEPT ![b[1]].cnt = @ - 1]
          /\ free_list' = [free_list EXCEPT ![d] = list_pop(arena_blocks(p, d))]
          /\ live' = live \cup {[page |-> b[1], index |-> b[2], size |-> size]}
      BY <2>1, Zenon DEF pop_block
    <3> HIDE DEF b, d, n, new
    <3>2. QED
      BY <2>3, <3>1, Zenon
  <2> DEFINE a == [new EXCEPT !.cnt = n - 1]
  <2>5. a \in SmallArenas /\ a.desc = d /\ a.cnt = n - 1
    <3>1. n \in Nat \ {0}
      BY <2>2, ArenaConstants
    <3>2. new = [large |-> FALSE, desc |-> d, cnt |-> n]
      BY DEF new_arena
    <3>3. new \in SmallArenas /\ new.desc = d /\ n - 1 \in Nat
      <4> HIDE DEF n, d, new
      <4> QED BY <2>2, <3>1, <3>2 DEF SmallArenas
    <3> HIDE DEF new, n
    <3>4. QED
      BY <3>3, SetCount
  <2>6. arena' = [arena EXCEPT ![p] = a]
    <3> DEFINE f == [arena EXCEPT ![p] = new]
    <3>1. arena \in [Pages -> {NULL} \cup LargeArenas \cup SmallArenas]
      BY DEF ArenaInv, TypeInv
    <3>2. new.cnt = n
      BY DEF new_arena
    <3> HIDE DEF new, n, d
    <3>3. f[p] = new /\ DOMAIN f = Pages /\ \A q \in Pages : q # p => f[q] = arena[q]
      BY <2>2, <3>1
    <3>4. arena' = [f EXCEPT ![p] = [f[p] EXCEPT !.cnt = f[p].cnt - 1]]
      BY <2>4
    <3> HIDE DEF f
    <3>5. arena' = [f EXCEPT ![p] = a]
      BY <3>2, <3>3, <3>4
    <3> HIDE DEF a
    <3>6. QED
      BY <3>1, <3>3, <3>5
  <2> HIDE DEF a, n, d
  <2>7. p \in vaddr_get_pages(1) /\ taken' = taken \cup PageRun(p, 1) /\ lost' = lost
    BY <2>1 DEF malloc_pages
  <2>8. QED
    BY <1>1, <1>4, <2>4, <2>5, <2>6, <2>7, MallocFreshStep DEF n, d
<1>5. QED
    BY <1>1, <1>2, <1>3, <1>4

\* sys_free of a large block: it is the only one of its arena.
LEMMA FreeLargeStep ==
    ASSUME ArenaInv, NEW b \in live, sys_free_large(b)
    PROVE  ArenaInv'
<1> DEFINE p == b.page
<1>1. /\ TypeInv /\ live \in SUBSET Blocks
      /\ arena \in [Pages -> {NULL} \cup LargeArenas \cup SmallArenas]
    BY DEF ArenaInv, TypeInv
<1>2. p \in Pages
    BY <1>1 DEF Blocks
<1>3. /\ arena[p].desc = NULL /\ arena' = [arena EXCEPT ![p] = NULL]
      /\ live' = live \ {b} /\ free_list' = free_list
      /\ taken' = taken \ Extent(p) /\ lost' = lost
    BY DEF sys_free_large, free_pages
<1>4. Local(p)
    BY <1>2 DEF ArenaInv
<1> HIDE DEF p
<1>5. Large(p)
    BY <1>1, <1>2, <1>3, <1>4, ArenaAt, ArenaConstants DEF Local, Held, p
<1>6. \A c \in live : c.page = p => c = b
    BY <1>4, <1>5 DEF Local, Held, HeldLarge, Large, Small, p
<1>7. arena'[p] = NULL /\ \A q \in Pages : q # p => arena'[q] = arena[q]
    BY <1>1, <1>2, <1>3
<1>8. TypeInv'
    BY <1>1, <1>2, <1>3 DEF TypeInv
<1>9. ~Large(p)' /\ ~Small(p)' /\ Extent(p)' = {}
    BY <1>7 DEF Large, Small, Extent
<1>10. Changes(p)
  <2>1. \A d \in Descs : NoDup(free_list'[d])
    BY <1>3 DEF ArenaInv
  <2>2. \A c \in Blocks : c.page # p => (c \in live' <=> c \in live)
    BY <1>3 DEF p
  <2>3. /\ taken' = (taken \ Extent(p)) \cup Extent(p)'
        /\ lost' = lost /\ Extent(p)' \cap lost = {}
    BY <1>3, <1>9
  <2>4. QED
    BY <1>3, <1>7, <1>9, <2>1, <2>2, <2>3 DEF Changes
<1>11. Local(p)'
  <2>1. \A c \in live' : c.page # p
    BY <1>3, <1>6
  <2>2. Listed(p)'
    BY <1>3, <1>4, <1>5 DEF Local, Listed, Large, Small
  <2>3. Held(p)'
    BY <2>1 DEF Held
  <2>4. QED
    BY <1>9, <2>2, <2>3 DEF Local, Whole
<1>12. QED
    BY <1>2, <1>8, <1>10, <1>11, StepLemma

\* A held block of a small arena, and the arena's free blocks together with it.
LEMMA HeldBlock ==
    ASSUME ArenaInv, NEW b \in live, arena[b.page].desc # NULL
    PROVE  LET p == b.page
               k == b.index
               d == arena[p].desc
               n == blocks_per_arena(d)
           IN  /\ p \in Pages /\ Small(p) /\ d \in Descs /\ n \in Nat \ {0} /\ k \in 0 .. n - 1
               /\ arena[p] \in SmallArenas /\ arena[p].cnt \in Nat /\ arena[p].cnt < n
               /\ k \notin Free(p) /\ ~elem_find(free_list[d], << p, k >>)
               /\ Free(p) \in SUBSET (0 .. n - 1)
               /\ Cardinality(Free(p) \cup {k}) = arena[p].cnt + 1
               /\ \A c \in live : c.page = p =>
                    HeldSmall(c) /\ c.index \notin Free(p) /\ (c.index = k => c = b)
               /\ arena[p].cnt + 1 = n => \A c \in live : c.page = p => c = b
<1> SUFFICES ASSUME NEW p, p = b.page, NEW k, k = b.index, NEW d, d = arena[p].desc,
                    NEW n, n = blocks_per_arena(d)
    PROVE  /\ p \in Pages /\ Small(p) /\ d \in Descs /\ n \in Nat \ {0} /\ k \in 0 .. n - 1
           /\ arena[p] \in SmallArenas /\ arena[p].cnt \in Nat /\ arena[p].cnt < n
           /\ k \notin Free(p) /\ ~elem_find(free_list[d], << p, k >>)
           /\ Free(p) \in SUBSET (0 .. n - 1)
           /\ Cardinality(Free(p) \cup {k}) = arena[p].cnt + 1
           /\ \A c \in live : c.page = p =>
                HeldSmall(c) /\ c.index \notin Free(p) /\ (c.index = k => c = b)
           /\ arena[p].cnt + 1 = n => \A c \in live : c.page = p => c = b
    BY Zenon
<1>1. TypeInv /\ live \in SUBSET Blocks /\ free_list \in [Descs -> Seq(Pages \X Nat)]
    BY DEF ArenaInv, TypeInv
<1>2. p \in Pages /\ k \in Nat
    BY <1>1 DEF Blocks
<1>3. Local(p)
    BY <1>2 DEF ArenaInv
<1>4. Small(p)
    BY <1>1, <1>2, <1>3, ArenaAt DEF Local, Held
<1>5. d \in Descs /\ arena[p] \in SmallArenas /\ arena[p].cnt \in Nat /\ n \in Nat \ {0}
    BY <1>1, <1>2, <1>4, ArenaAt, ArenaConstants
<1>6. \A c \in live : c.page = p =>
            HeldSmall(c) /\ c.index \notin Free(p) /\ (c.index = k => c = b)
    BY <1>3, <1>4 DEF Local, Held, HeldSmall, Large, Small
<1>7. k \in 0 .. n - 1 /\ k \notin Free(p)
    BY <1>2, <1>5, <1>6 DEF HeldSmall
<1>8. Free(p) = {i \in 0 .. n - 1 : elem_find(free_list[d], << p, i >>)}
    BY DEF Free
<1>9. Free(p) \in SUBSET (0 .. n - 1) /\ ~elem_find(free_list[d], << p, k >>)
    BY <1>7, <1>8
<1>10. IsFiniteSet(0 .. n - 1) /\ Cardinality(0 .. n - 1) = n
  <2>1. 0 \in Int /\ n - 1 \in Int
    BY <1>5
  <2>2. /\ IsFiniteSet(0 .. n - 1)
        /\ Cardinality(0 .. n - 1) = IF 0 > n - 1 THEN 0 ELSE n - 1 - 0 + 1
    BY <2>1, FS_Interval
  <2>3. QED
    BY <1>5, <2>2
<1>11. arena[p].cnt = Cardinality(Free(p)) /\ arena[p].cnt < n
    BY <1>3, <1>4 DEF Local, Whole, WholeSmall
<1>12. Cardinality(Free(p) \cup {k}) = arena[p].cnt + 1
  <2>1. IsFiniteSet(Free(p))
    BY <1>9, <1>10, FS_Subset
  <2> DEFINE F == Free(p)
  <2>2. IsFiniteSet(F) /\ k \notin F /\ arena[p].cnt = Cardinality(F)
    BY <1>7, <1>11, <2>1
  <2> HIDE DEF F
  <2>3. Cardinality(F \cup {k}) = Cardinality(F) + 1
    BY <2>2, FS_AddElement
  <2>4. QED
    BY <2>2, <2>3 DEF F
<1>13. ASSUME arena[p].cnt + 1 = n, NEW c \in live, c.page = p PROVE c = b
  <2>1. Free(p) \cup {k} \in SUBSET (0 .. n - 1)
    BY <1>7, <1>9
  <2>2. Free(p) \cup {k} = 0 .. n - 1
    BY <1>10, <1>12, <1>13, <2>1, FS_Subset
  <2>3. c.index \in 0 .. n - 1
    <3>1. c.index \in Nat
      BY <1>1 DEF Blocks
    <3>2. c.index < n
      BY <1>6, <1>13 DEF HeldSmall
    <3>3. QED
      BY <1>5, <3>1, <3>2
  <2>4. QED
    BY <1>6, <1>13, <2>2, <2>3
<1>14. QED
    BY <1>2, <1>4, <1>5, <1>6, <1>7, <1>9, <1>11, <1>12, <1>13

\* The free list with the block that is being freed.
LEMMA FreedList ==
    ASSUME ArenaInv, NEW b \in live, arena[b.page].desc # NULL,
           NEW d, d = arena[b.page].desc,
           NEW fl, fl = list_append(free_list[d], << b.page, b.index >>)
    PROVE  /\ fl \in Seq(Pages \X Nat) /\ NoDup(fl)
           /\ \A x : elem_find(fl, x) <=> elem_find(free_list[d], x) \/ x = << b.page, b.index >>
<1> DEFINE S == Pages \X Nat
           s == free_list[d]
           e == << b.page, b.index >>
<1>1. d \in Descs /\ b.page \in Pages /\ b.index \in Nat /\ ~elem_find(s, e)
  <2>1. /\ d \in Descs /\ b.page \in Pages /\ b.index \in 0 .. blocks_per_arena(d) - 1
        /\ ~elem_find(s, e)
    BY HeldBlock, Zenon
  <2>2. QED
    BY <2>1, ArenaConstants
<1>2. s \in Seq(S) /\ NoDup(s)
    BY <1>1 DEF ArenaInv, TypeInv
<1>3. e \in S /\ ~elem_find(s, e) /\ fl = list_append(s, e)
    BY <1>1
<1> HIDE DEF S, s, e
<1> DEFINE r == list_append(s, e)
<1>4. r \in Seq(S) /\ NoDup(r) /\ \A x : elem_find(r, x) <=> elem_find(s, x) \/ x = e
    BY <1>2, <1>3, AppendLemma
<1> HIDE DEF r
<1>5. fl = r
    BY DEF r, s, e
<1>6. QED
    BY <1>4, <1>5 DEF S, s, e

\* sys_free of a small block whose arena still has others in use.
LEMMA FreeSmallStep ==
    ASSUME ArenaInv, NEW b \in live, arena[b.page].desc # NULL,
           NEW d, d = arena[b.page].desc,
           NEW fl, fl = list_append(free_list[d], << b.page, b.index >>),
           arena[b.page].cnt + 1 # blocks_per_arena(d),
           live' = live \ {b}, free_list' = [free_list EXCEPT ![d] = fl],
           taken' = taken, lost' = lost,
           NEW a, a = [arena[b.page] EXCEPT !.cnt = @ + 1],
           arena' = [arena EXCEPT ![b.page] = a]
    PROVE  ArenaInv'
<1> DEFINE p == b.page
           k == b.index
           n == blocks_per_arena(d)
<1>1. /\ TypeInv /\ live \in SUBSET Blocks
      /\ arena \in [Pages -> {NULL} \cup LargeArenas \cup SmallArenas]
      /\ free_list \in [Descs -> Seq(Pages \X Nat)]
    BY DEF ArenaInv, TypeInv
<1>2. /\ p \in Pages /\ Small(p) /\ d \in Descs /\ n \in Nat \ {0} /\ k \in 0 .. n - 1
      /\ arena[p] \in SmallArenas /\ arena[p].cnt \in Nat /\ arena[p].cnt < n
      /\ Free(p) \in SUBSET (0 .. n - 1)
      /\ Cardinality(Free(p) \cup {k}) = arena[p].cnt + 1
      /\ \A c \in live : c.page = p =>
            HeldSmall(c) /\ c.index \notin Free(p) /\ (c.index = k => c = b)
    BY HeldBlock
<1>3. /\ fl \in Seq(Pages \X Nat) /\ NoDup(fl)
      /\ \A x : elem_find(fl, x) <=> elem_find(free_list[d], x) \/ x = << p, k >>
    BY FreedList
<1>4. Local(p)
    BY <1>2 DEF ArenaInv
<1>5. a \in SmallArenas /\ a # NULL /\ ~a.large /\ a.desc = d /\ a.cnt = arena[p].cnt + 1
  <2>1. arena[p].cnt + 1 \in Nat /\ ~arena[p].large
    BY <1>2 DEF Small
  <2>2. a \in SmallArenas /\ ~a.large /\ a.desc = d /\ a.cnt = arena[p].cnt + 1
    BY <1>2, <2>1, SetCount
  <2>3. QED
    BY <2>2, ArenaConstants
<1>6. arena'[p] = a /\ \A q \in Pages : q # p => arena'[q] = arena[q]
    BY <1>1, <1>2
<1>7. free_list'[d] = fl /\ \A e \in Descs : e # d => free_list'[e] = free_list[e]
    BY <1>1, <1>2
<1>8. TypeInv'
  <2>1. arena' \in [Pages -> {NULL} \cup LargeArenas \cup SmallArenas]
    BY <1>1, <1>2, <1>5
  <2>2. free_list' \in [Descs -> Seq(Pages \X Nat)]
    BY <1>1, <1>2, <1>3
  <2>3. QED
    BY <1>1, <2>1, <2>2 DEF TypeInv
<1>9. Small(p)' /\ ~Large(p)' /\ Extent(p)' = Extent(p)
    BY <1>2, <1>5, <1>6 DEF Small, Large, Extent
<1>10. \A e \in Descs : \A x : elem_find(free_list'[e], x) <=>
                                elem_find(free_list[e], x) \/ (e = d /\ x = << p, k >>)
    BY <1>3, <1>7
<1>11. Changes(p)
  <2>1. \A e \in Descs : NoDup(free_list'[e])
    BY <1>3, <1>7 DEF ArenaInv
  <2>2. \A x \in Blocks : x.page # p => (x \in live' <=> x \in live)
    OBVIOUS
  <2>3. \A q \in Pages : q # p => Extent(p)' \cap Extent(q) = {}
    BY <1>2, <1>9 DEF ArenaInv
  <2>4. \A e \in Descs : \A q \in Pages : \A i \in Nat :
        q # p => (elem_find(free_list'[e], << q, i >>) <=> elem_find(free_list[e], << q, i >>))
    BY <1>10
  <2>5. /\ taken' = (taken \ Extent(p)) \cup Extent(p)'
        /\ lost' = lost /\ Extent(p)' \cap lost = {}
    BY <1>2, <1>9, InPool
  <2>6. QED
    BY <1>6, <2>1, <2>2, <2>3, <2>4, <2>5 DEF Changes
<1>12. Free(p)' = Free(p) \cup {k}
  <2>1. Free(p)' = {i \in 0 .. n - 1 : elem_find(fl, << p, i >>)}
    BY <1>5, <1>6, <1>7 DEF Free
  <2>2. Free(p) = {i \in 0 .. n - 1 : elem_find(free_list[d], << p, i >>)}
    BY DEF Free
  <2>3. \A i \in 0 .. n - 1 : elem_find(fl, << p, i >>) <=>
                                elem_find(free_list[d], << p, i >>) \/ i = k
    BY <1>3
  <2> HIDE DEF k, n, p
  <2>4. QED
    BY <1>2, <2>1, <2>2, <2>3
<1>13. Local(p)'
  <2>1. Listed(p)'
    <3> SUFFICES ASSUME NEW e \in Descs, NEW i \in Nat, elem_find(free_list'[e], << p, i >>)
                 PROVE  e = d /\ i < n
      BY <1>5, <1>6, <1>9 DEF Listed
    <3>1. CASE elem_find(free_list[e], << p, i >>)
      BY <1>4, <3>1 DEF Local, Listed
    <3>2. CASE e = d /\ i = k
      BY <1>2, <3>2
    <3>3. QED
      BY <1>10, <3>1, <3>2
  <2>2. ASSUME NEW x \in live', x.page = p PROVE HeldSmall(x)'
    <3>1. x \in live /\ x.index # k /\ HeldSmall(x) /\ x.index \notin Free(p)
      BY <1>2, <2>2
    <3>2. QED
      BY <1>5, <1>6, <1>12, <2>2, <3>1 DEF HeldSmall
  <2>3. Held(p)'
    <3>1. \A x, y \in live' : x.page = p /\ y.page = p /\ x.index = y.index => x = y
      BY <1>4 DEF Local, Held
    <3>2. QED
      BY <1>9, <2>2, <3>1 DEF Held
  <2>4. WholeSmall(p)'
    <3>1. arena'[p].cnt = Cardinality(Free(p)')
      BY <1>2, <1>5, <1>6, <1>12
    <3>2. arena'[p].cnt < n
      BY <1>2, <1>5, <1>6
    <3>3. ASSUME NEW i \in 0 .. n - 1
          PROVE  i \in Free(p)' \/ \E x \in live' : x.page = p /\ x.index = i
      <4>1. i \in Free(p) \/ \E x \in live : x.page = p /\ x.index = i
        BY <1>2, <1>4 DEF Local, Whole, WholeSmall
      <4>2. QED
        BY <1>12, <4>1
    <3>4. QED
      BY <1>5, <1>6, <3>1, <3>2, <3>3 DEF WholeSmall
  <2>5. QED
    BY <1>9, <2>1, <2>3, <2>4 DEF Local, Whole
<1>14. QED
    BY <1>2, <1>8, <1>11, <1>13, StepLemma

\* sys_free of the last block in use of a small arena: the arena is given back.
LEMMA FreeLastStep ==
    ASSUME ArenaInv, NEW b \in live, arena[b.page].desc # NULL,
           NEW d, d = arena[b.page].desc,
           NEW fl, fl = list_append(free_list[d], << b.page, b.index >>),
           arena[b.page].cnt + 1 = blocks_per_arena(d), live' = live \ {b},
           free_list' = [free_list EXCEPT ![d] = list_remove(fl, BlocksOf(b.page, d))],
           arena' = [arena EXCEPT ![b.page] = NULL],
           taken' = taken \ Extent(b.page), lost' = lost
    PROVE  ArenaInv'
<1> DEFINE p == b.page
           k == b.index
           n == blocks_per_arena(d)
           left == list_remove(fl, BlocksOf(p, d))
<1>1. /\ TypeInv /\ live \in SUBSET Blocks
      /\ arena \in [Pages -> {NULL} \cup LargeArenas \cup SmallArenas]
      /\ free_list \in [Descs -> Seq(Pages \X Nat)]
    BY DEF ArenaInv, TypeInv
<1>2. /\ p \in Pages /\ Small(p) /\ d \in Descs /\ n \in Nat \ {0} /\ k \in 0 .. n - 1
      /\ \A c \in live : c.page = p => c = b
    BY HeldBlock
<1>3. /\ fl \in Seq(Pages \X Nat) /\ NoDup(fl)
      /\ \A x : elem_find(fl, x) <=> elem_find(free_list[d], x) \/ x = << p, k >>
    BY FreedList
<1>4. Local(p)
    BY <1>2 DEF ArenaInv
<1>5. /\ left \in Seq(Pages \X Nat) /\ NoDup(left)
      /\ \A x : elem_find(left, x) <=> elem_find(fl, x) /\ x \notin BlocksOf(p, d)
  <2> DEFINE S == Pages \X Nat
             B == BlocksOf(p, d)
  <2>1. fl \in Seq(S) /\ NoDup(fl)
    BY <1>3
  <2> HIDE DEF S, B
  <2>2. /\ list_remove(fl, B) \in Seq(S) /\ NoDup(list_remove(fl, B))
        /\ \A x : elem_find(list_remove(fl, B), x) <=> elem_find(fl, x) /\ x \notin B
    <3>1. list_remove(fl, B) \in Seq(S)
      BY <2>1, RemoveLemma
    <3>2. NoDup(list_remove(fl, B))
      BY <2>1, RemoveLemma
    <3>3. \A x : elem_find(list_remove(fl, B), x) <=> elem_find(fl, x) /\ x \notin B
      BY <2>1, RemoveLemma
    <3>4. QED
      BY <3>1, <3>2, <3>3, Zenon
  <2>3. QED
    BY <2>2 DEF S, B
<1> HIDE DEF left
<1>6. arena'[p] = NULL /\ \A q \in Pages : q # p => arena'[q] = arena[q]
    BY <1>1, <1>2
<1>7. free_list'[d] = left /\ \A e \in Descs : e # d => free_list'[e] = free_list[e]
    BY <1>1, <1>2 DEF left
<1>8. TypeInv'
  <2>1. arena' \in [Pages -> {NULL} \cup LargeArenas \cup SmallArenas]
    BY <1>1, <1>2
  <2>2. free_list' \in [Descs -> Seq(Pages \X Nat)]
    BY <1>1, <1>2, <1>5 DEF left
  <2>3. QED
    BY <1>1, <2>1, <2>2 DEF TypeInv
<1>9. ~Small(p)' /\ ~Large(p)' /\ Extent(p)' = {}
    BY <1>6 DEF Small, Large, Extent
<1>10. \A q \in Pages : \A i \in Nat :
        elem_find(left, << q, i >>) <=> elem_find(free_list[d], << q, i >>) /\ q # p
  <2> SUFFICES ASSUME NEW q \in Pages, NEW i \in Nat
               PROVE  elem_find(left, << q, i >>) <=> elem_find(free_list[d], << q, i >>) /\ q # p
    OBVIOUS
  <2>1. CASE q = p
    <3>1. elem_find(fl, << p, i >>) => i < n
      <4>1. elem_find(free_list[d], << p, i >>) => i < n
        BY <1>2, <1>4 DEF Local, Listed
      <4>2. << p, i >> = << p, k >> => i = k
        OBVIOUS
      <4>3. elem_find(fl, << p, i >>) => elem_find(free_list[d], << p, i >>) \/ i = k
        BY <1>3, <4>2, Zenon
      <4>4. QED
        BY <1>2, <4>1, <4>3
    <3>2. i < n => << p, i >> \in BlocksOf(p, d)
      <4>1. i < n => i \in 0 .. n - 1
        BY <1>2
      <4>2. QED
        BY <4>1 DEF BlocksOf
    <3>3. QED
      BY <1>5, <2>1, <3>1, <3>2
  <2>2. CASE q # p
    <3>1. << q, i >> \notin BlocksOf(p, d) /\ << q, i >> # << p, k >>
      BY <2>2 DEF BlocksOf
    <3>2. QED
      BY <1>3, <1>5, <2>2, <3>1
  <2>3. QED
    BY <2>1, <2>2
<1>11. Changes(p)
  <2>1. \A e \in Descs : NoDup(free_list'[e])
    BY <1>5, <1>7 DEF ArenaInv
  <2>2. \A x \in Blocks : x.page # p => (x \in live' <=> x \in live)
    OBVIOUS
  <2>3. \A q \in Pages : q # p => Extent(p)' \cap Extent(q) = {}
    BY <1>9
  <2>4. \A e \in Descs : \A q \in Pages : \A i \in Nat :
        q # p => (elem_find(free_list'[e], << q, i >>) <=> elem_find(free_list[e], << q, i >>))
    BY <1>7, <1>10
  <2>5. /\ taken' = (taken \ Extent(p)) \cup Extent(p)'
        /\ lost' = lost /\ Extent(p)' \cap lost = {}
    BY <1>9
  <2>6. QED
    BY <1>6, <2>1, <2>2, <2>3, <2>4, <2>5 DEF Changes
<1>12. Local(p)'
  <2>1. \A x \in live' : x.page # p
    BY <1>2
  <2>2. Listed(p)'
    <3> SUFFICES ASSUME NEW e \in Descs, NEW i \in Nat, elem_find(free_list'[e], << p, i >>)
                 PROVE  FALSE
      BY DEF Listed
    <3>1. e # d
      BY <1>2, <1>7, <1>10
    <3>2. QED
      BY <1>4, <1>7, <3>1 DEF Local, Listed
  <2>3. Held(p)'
    BY <2>1 DEF Held
  <2>4. QED
    BY <1>9, <2>2, <2>3 DEF Local, Whole
<1>13. QED
    BY <1>2, <1>8, <1>11, <1>12, StepLemma

-----------------------------------------------------------------------------
(* The theorems.                                                           *)

\* At the start there is no arena.
LEMMA InitArena == Init => ArenaInv
<1> SUFFICES ASSUME Init PROVE ArenaInv
    OBVIOUS
<1>1. TypeInv
    BY DEF Init, TypeInv
<1>2. \A p \in Pages : Extent(p) = {} /\ ~Large(p) /\ ~Small(p)
    BY DEF Init, Extent, Large, Small
<1>3. \A d \in Descs : Len(free_list[d]) = 0
    BY DEF Init
<1>4. \A d \in Descs : NoDup(free_list[d])
    BY <1>3 DEF NoDup
<1>5. \A d \in Descs : \A x : ~elem_find(free_list[d], x)
    BY <1>3 DEF elem_find
<1>6. \A p \in Pages : Local(p)
    BY <1>2, <1>5 DEF Init, Local, Listed, Held, Whole
<1>7. Used = {} /\ taken = Used \cup lost /\ Used \cap lost = {}
    BY <1>2 DEF Init, Used
<1>8. QED
    BY <1>1, <1>2, <1>4, <1>6, <1>7 DEF ArenaInv

\* Every sys_malloc and every sys_free keeps the invariant.
LEMMA NextArena == ArenaInv /\ [Next]_vars => ArenaInv'
<1> SUFFICES ASSUME ArenaInv, [Next]_vars PROVE ArenaInv'
    OBVIOUS
<1>1. ASSUME NEW size \in Sizes, sys_malloc_large(size) PROVE ArenaInv'
    BY <1>1, MallocLargeStep
<1>2. ASSUME NEW size \in Sizes, sys_malloc_small(size) PROVE ArenaInv'
    BY <1>2, MallocSmallStep
<1>3. ASSUME NEW b \in live, sys_free_large(b) PROVE ArenaInv'
    BY <1>3, FreeLargeStep
<1>4. ASSUME NEW b \in live, sys_free_small(b) PROVE ArenaInv'
  <2> DEFINE d == arena[b.page].desc
             fl == list_append(free_list[d], << b.page, b.index >>)
  <2>1. /\ d # NULL /\ live' = live \ {b} /\ lost' = lost
        /\ \/ /\ arena[b.page].cnt + 1 = blocks_per_arena(d)
              /\ free_list' = [free_list EXCEPT ![d] = list_remove(fl, BlocksOf(b.page, d))]
              /\ arena' = [arena EXCEPT ![b.page] = NULL]
              /\ taken' = taken \ Extent(b.page)
           \/ /\ arena[b.page].cnt + 1 # blocks_per_arena(d)
              /\ free_list' = [free_list EXCEPT ![d] = fl]
              /\ arena' = [arena EXCEPT ![b.page] = [arena[b.page] EXCEPT !.cnt = @ + 1]]
              /\ taken' = taken
    BY <1>4 DEF sys_free_small, completes, free_pages
  <2>2. CASE arena[b.page].cnt + 1 = blocks_per_arena(d)
    BY <2>1, <2>2, FreeLastStep
  <2>3. CASE arena[b.page].cnt + 1 # blocks_per_arena(d)
    BY <2>1, <2>3, FreeSmallStep
  <2>4. QED
    BY <2>2, <2>3
<1>5. CASE UNCHANGED vars
  <2>1. /\ UNCHANGED << arena, free_list, live >>
        /\ {} \cap Used = {} /\ taken' = taken \cup {} /\ lost' = lost \cup {}
    BY <1>5 DEF vars
  <2>2. QED
    BY <2>1, SameArena
<1>6. QED
    BY <1>1, <1>2, <1>3, <1>4, <1>5 DEF Next

\* After any sequence of sys_malloc and sys_free: each free list links the free blocks
\* of its own arenas, each block of an arena is free or held by one caller, cnt counts
\* the free ones, no two arenas share a page, and the address bitmap marks the arenas'
\* pages and those that failed calls have lost.
THEOREM ArenaInvariance == Spec => []ArenaInv
    BY InitArena, NextArena, PTL DEF Spec

\* Nothing on a free list and nothing a caller holds is in a page that was given back.
THEOREM NoDanglingSafe == Spec => []NoDangling
<1>1. ASSUME ArenaInv PROVE NoDangling
  <2>1. ASSUME NEW d \in Descs, NEW i \in 1 .. Len(free_list[d])
        PROVE  LET p == free_list[d][i][1]
               IN  arena[p] # NULL /\ ~arena[p].large /\ arena[p].desc = d
    <3> DEFINE e == free_list[d][i]
    <3>1. e \in Pages \X Nat
      BY <1>1, <2>1 DEF ArenaInv, TypeInv
    <3>2. elem_find(free_list[d], e)
      BY DEF elem_find
    <3> HIDE DEF e
    <3>3. e[1] \in Pages /\ e[2] \in Nat /\ e = << e[1], e[2] >>
      BY <3>1
    <3>4. Listed(e[1])
      BY <1>1, <3>3 DEF ArenaInv, Local
    <3>5. Small(e[1]) /\ arena[e[1]].desc = d
      BY <3>2, <3>3, <3>4 DEF Listed
    <3>6. QED
      BY <3>5 DEF Small, e
  <2>2. ASSUME NEW b \in live PROVE arena[b.page] # NULL
    <3>1. b.page \in Pages
      BY <1>1 DEF ArenaInv, TypeInv, Blocks
    <3>2. QED
      BY <1>1, <3>1 DEF ArenaInv, Local, Held, Large, Small
  <2>3. QED
    BY <2>1, <2>2 DEF NoDangling
<1>2. QED
    BY <1>1, ArenaInvariance, PTL

\* The marked pages are those of the arenas and those that calls without a frame have
\* left marked, and no page is both; so when every block has been freed, every page
\* that was ever handed out is back in the address bitmap.
THEOREM AllReturnedSafe == Spec => []AllReturned
<1>1. ASSUME ArenaInv, live = {} PROVE Used = {}
  <2>1. ASSUME NEW p \in Pages PROVE arena[p] = NULL
    <3>1. Local(p) /\ TypeInv
      BY <1>1, <2>1 DEF ArenaInv
    <3>2. ~Large(p)
      BY <1>1, <3>1 DEF Local, Whole, WholeLarge
    <3>3. ~Small(p)
      <4> SUFFICES ASSUME Small(p) PROVE FALSE
        OBVIOUS
      <4> DEFINE n == blocks_per_arena(arena[p].desc)
      <4>1. n \in Nat \ {0}
        BY <3>1, ArenaAt, ArenaConstants
      <4>2. /\ arena[p].cnt = Cardinality(Free(p)) /\ arena[p].cnt < n
            /\ \A k \in 0 .. n - 1 : k \in Free(p)
        BY <1>1, <3>1 DEF Local, Whole, WholeSmall
      <4>3. Free(p) = 0 .. n - 1
        BY <4>2 DEF Free
      <4> HIDE DEF n
      <4>4. Cardinality(0 .. n - 1) = n
        <5>1. 0 \in Int /\ n - 1 \in Int
          BY <4>1
        <5>2. Cardinality(0 .. n - 1) = IF 0 > n - 1 THEN 0 ELSE n - 1 - 0 + 1
          BY <5>1, FS_Interval
        <5>3. QED
          BY <4>1, <5>2
      <4>5. QED
        BY <4>1, <4>2, <4>3, <4>4
    <3>4. QED
      BY <3>1, <3>2, <3>3, ArenaAt
  <2>2. QED
    BY <2>1 DEF Used, Extent
<1>2. ASSUME ArenaInv PROVE AllReturned
  <2>1. taken = Used \cup lost /\ Used \cap lost = {}
    BY <1>2 DEF ArenaInv
  <2>2. QED
    BY <1>1, <1>2, <2>1 DEF AllReturned
<1>3. QED
    BY <1>2, ArenaInvariance, PTL

\* Each block of each arena is on the free list or held, never both and never twice,
\* and the arena's cnt is the number of its list elements.
THEOREM PartitionSafe == Spec => []Partition
<1>1. ASSUME ArenaInv, NEW p \in Pages, Small(p)
      PROVE  LET d == arena[p].desc
                 free == {i \in 1 .. Len(free_list[d]) : free_list[d][i][1] = p}
                 held == {b \in live : b.page = p}
             IN  /\ \A i, j \in free : free_list[d][i] = free_list[d][j] => i = j
                 /\ \A i \in free : \A b \in held : free_list[d][i][2] # b.index
                 /\ \A b, c \in held : b.index = c.index => b = c
                 /\ \A k \in 0 .. blocks_per_arena(d) - 1 :
                     \/ \E i \in free : free_list[d][i][2] = k
                     \/ \E b \in held : b.index = k
                 /\ arena[p].cnt = Cardinality(free)
  <2> DEFINE d == arena[p].desc
             n == blocks_per_arena(d)
             fl == free_list[d]
             free == {i \in 1 .. Len(fl) : fl[i][1] = p}
             held == {b \in live : b.page = p}
  <2>1. Local(p) /\ TypeInv
    BY <1>1 DEF ArenaInv
  <2>2. d \in Descs /\ n \in Nat
    BY <1>1, <2>1, ArenaAt, ArenaConstants
  <2>3. fl \in Seq(Pages \X Nat) /\ NoDup(fl)
    BY <1>1, <2>1, <2>2 DEF ArenaInv, TypeInv
  <2>4. Free(p) = {k \in 0 .. n - 1 : elem_find(fl, << p, k >>)}
    BY DEF Free
  <2>5. /\ \A k \in Nat : elem_find(fl, << p, k >>) => k < n
        /\ \A b \in held : b.index \notin Free(p)
        /\ \A b, c \in held : b.index = c.index => b = c
    BY <1>1, <2>1, <2>2 DEF Local, Listed, Held, HeldSmall, Large, Small
  <2>6. /\ arena[p].cnt = Cardinality(Free(p))
        /\ \A k \in 0 .. n - 1 : k \in Free(p) \/ \E b \in held : b.index = k
    BY <1>1, <2>1 DEF Local, Whole, WholeSmall
  <2> HIDE DEF d, n, fl, held
  <2>7. ASSUME NEW i \in free PROVE fl[i] = << p, fl[i][2] >> /\ fl[i][2] \in Free(p)
    <3>1. i \in 1 .. Len(fl) /\ fl[i] \in Pages \X Nat /\ fl[i][1] = p
      BY <2>3, <2>7
    <3>2. fl[i] = << p, fl[i][2] >> /\ fl[i][2] \in Nat
      BY <3>1
    <3>3. elem_find(fl, << p, fl[i][2] >>)
      BY <3>1, <3>2 DEF elem_find
    <3>4. QED
      BY <2>2, <2>4, <2>5, <3>2, <3>3
  <2>8. ASSUME NEW k \in Free(p) PROVE \E i \in free : fl[i][2] = k
    <3>1. PICK i \in 1 .. Len(fl) : fl[i] = << p, k >>
      BY <2>4, <2>8 DEF elem_find
    <3>2. fl[i][1] = p /\ fl[i][2] = k
      BY <3>1
    <3>3. QED
      BY <3>2
  <2>9. \A i, j \in free : fl[i] = fl[j] => i = j
    BY <2>3 DEF NoDup
  <2>10. IsFiniteSet(free)
    <3>1. IsFiniteSet(1 .. Len(fl)) /\ free \in SUBSET (1 .. Len(fl))
      BY <2>3, FS_Interval
    <3>2. QED
      BY <3>1, FS_Subset
  <2> HIDE DEF free
  <2>11. Cardinality(Free(p)) = Cardinality(free)
    <3> DEFINE F == Free(p)
               f == [i \in free |-> fl[i][2]]
    <3> HIDE DEF F
    <3>1. f \in [free -> F]
      BY <2>7 DEF F
    <3>2. \A i, j \in free : f[i] = f[j] => i = j
      BY <2>7, <2>9
    <3>3. \A k \in F : \E i \in free : f[i] = k
      BY <2>8 DEF F
    <3>4. f \in Bijection(free, F)
      <4> HIDE DEF f
      <4> QED BY <3>1, <3>2, <3>3 DEF Bijection, Injection, Surjection, IsInjective
    <3>5. ExistsBijection(free, F)
      BY <3>4 DEF ExistsBijection
    <3>6. QED
      BY <2>10, <3>5, FS_Bijection DEF F
  <2>12. /\ \A i \in free : \A b \in held : fl[i][2] # b.index
         /\ \A k \in 0 .. n - 1 : (\E i \in free : fl[i][2] = k) \/ \E b \in held : b.index = k
    BY <2>5, <2>6, <2>7, <2>8
  <2>13. arena[p].cnt = Cardinality(free)
    BY <2>6, <2>11
  <2>14. QED
    BY <2>5, <2>9, <2>12, <2>13 DEF free, held, fl, n, d
<1>2. ASSUME ArenaInv PROVE Partition
    BY <1>1, <1>2 DEF Partition, Small
<1>3. QED
    BY <1>2, ArenaInvariance, PTL

\* A block in use lies within the pages of its arena.
LEMMA Within ==
    ASSUME ArenaInv, NEW b \in live, Roomy(b.size), NEW p, p = b.page,
           NEW ext, ext = IF arena[p].large THEN arena[p].cnt ELSE 1
    PROVE  /\ p \in Pages /\ ext \in Nat /\ b.size \in Nat /\ Start(b) \in Nat
           /\ Extent(p) = p .. p + ext - 1
           /\ p * PageSize <= Start(b)
           /\ Start(b) + b.size <= (p + ext) * PageSize
<1>1. TypeInv /\ live \in SUBSET Blocks
    BY DEF ArenaInv, TypeInv
<1>2. p \in Pages /\ b.index \in Nat /\ b.size \in Nat
    BY <1>1, ArenaConstants DEF Blocks
<1>3. p \in Nat /\ PageSize \in Nat \ {0} /\ Header \in Nat
    BY <1>2, ArenaConstants
<1>4. p * PageSize \in Nat
    BY <1>3
<1>5. (Large(p) /\ HeldLarge(b)) \/ (Small(p) /\ HeldSmall(b))
    BY <1>2 DEF ArenaInv, Local, Held
<1>6. CASE Large(p) /\ HeldLarge(b)
  <2> DEFINE m == page_count(b.size)
  <2>1. /\ ext \in Nat /\ Extent(p) = p .. p + ext - 1 /\ arena[p].large /\ ext = m
        /\ Header + b.size <= m * PageSize
    BY <1>1, <1>2, <1>6, ArenaAt, ArenaConstants DEF Large, HeldLarge, Roomy
  <2>2. Start(b) = p * PageSize + Header
    BY <1>3, <1>4, <2>1 DEF Start
  <2> HIDE DEF m
  <2>3. (p + ext) * PageSize = p * PageSize + m * PageSize
    BY <1>3, <2>1
  <2>4. m * PageSize \in Nat
    BY <1>3, <2>1
  <2> DEFINE A == p * PageSize
             M == m * PageSize
  <2>5. /\ A \in Nat /\ M \in Nat /\ Start(b) = A + Header /\ (p + ext) * PageSize = A + M
        /\ Header + b.size <= M
    BY <1>4, <2>1, <2>2, <2>3, <2>4
  <2>6. Start(b) \in Nat /\ A <= Start(b) /\ Start(b) + b.size <= A + M
    <3> HIDE DEF A, M
    <3> QED BY <1>2, <1>3, <2>5
  <2>7. QED
    BY <1>2, <2>1, <2>5, <2>6
<1>7. CASE Small(p) /\ HeldSmall(b)
  <2> DEFINE d == arena[p].desc
             s == block_size(d)
             n == blocks_per_arena(d)
             i == b.index
  <2>1. d \in Descs /\ ~arena[p].large /\ ext = 1 /\ Extent(p) = {p}
    BY <1>1, <1>2, <1>7, ArenaAt DEF Small
  <2>2. s \in Nat /\ n \in Nat /\ i < n /\ b.size <= s /\ Header + n * s <= PageSize
    BY <1>7, <2>1, ArenaConstants, BlocksFit DEF HeldSmall
  <2>3. Start(b) = p * PageSize + Header + i * s
    BY <2>1 DEF Start
  <2> HIDE DEF d, s, n, i
  <2>4. i \in Nat
    BY <1>2 DEF i
  <2>5. i * s \in Nat /\ i * s + s = (i + 1) * s /\ i + 1 \in Nat /\ i + 1 <= n
    BY <2>2, <2>4
  <2>6. (i + 1) * s <= n * s /\ n * s \in Nat
    BY <2>2, <2>5, Multiply
  <2>7. (p + 1) * PageSize = p * PageSize + PageSize
    BY <1>3
  <2>8. Extent(p) = p .. p + ext - 1
    BY <1>3, <2>1
  <2> DEFINE A == p * PageSize
             I == i * s
             N == n * s
  <2>9. /\ A \in Nat /\ I \in Nat /\ N \in Nat /\ Start(b) = A + Header + I
        /\ I + s <= N /\ Header + N <= PageSize /\ (p + 1) * PageSize = A + PageSize
    BY <1>4, <2>2, <2>3, <2>5, <2>6, <2>7
  <2>10. Start(b) \in Nat /\ A <= Start(b) /\ Start(b) + b.size <= A + PageSize
    <3> HIDE DEF A, I, N
    <3> QED BY <1>2, <1>3, <2>2, <2>9
  <2>11. (p + ext) * PageSize = A + PageSize
    BY <2>1, <2>9
  <2>12. QED
    <3>1. Start(b) + b.size <= (p + ext) * PageSize
      BY <2>10, <2>11
    <3>2. ext \in Nat /\ p * PageSize <= Start(b)
      BY <2>1, <2>10
    <3>3. QED
      BY <1>2, <2>8, <2>10, <3>1, <3>2, Zenon
<1>8. QED
    BY <1>5, <1>6, <1>7

\* Two blocks in use never share a byte.
THEOREM DisjointSafe == Spec => []Disjoint
<1>1. ASSUME ArenaInv, NEW b \in live, NEW c \in live, Roomy(b.size), Roomy(c.size), b # c
      PROVE  Bytes(b) \cap Bytes(c) = {}
  <2> DEFINE p == b.page
             q == c.page
             x == IF arena[p].large THEN arena[p].cnt ELSE 1
             y == IF arena[q].large THEN arena[q].cnt ELSE 1
  <2>1. /\ p \in Pages /\ x \in Nat /\ b.size \in Nat /\ Start(b) \in Nat
        /\ Extent(p) = p .. p + x - 1
        /\ p * PageSize <= Start(b) /\ Start(b) + b.size <= (p + x) * PageSize
    BY <1>1, Within
  <2>2. /\ q \in Pages /\ y \in Nat /\ c.size \in Nat /\ Start(c) \in Nat
        /\ Extent(q) = q .. q + y - 1
        /\ q * PageSize <= Start(c) /\ Start(c) + c.size <= (q + y) * PageSize
    BY <1>1, Within
  <2>3. p \in Nat /\ q \in Nat /\ PageSize \in Nat
    BY <2>1, <2>2, ArenaConstants
  <2> HIDE DEF x, y
  <2>4. \/ Start(b) + b.size <= Start(c)
        \/ Start(c) + c.size <= Start(b)
    <3>1. CASE p # q
      <4>1. p \in Extent(p) /\ q \in Extent(q) /\ Extent(p) \cap Extent(q) = {}
        <5>1. TypeInv /\ arena[p] # NULL /\ arena[q] # NULL
          BY <1>1, <2>1, <2>2 DEF ArenaInv, Local, Held, Large, Small
        <5>2. QED
          BY <1>1, <2>1, <2>2, <3>1, <5>1, ArenaAt DEF ArenaInv
      <4>2. q \notin p .. p + x - 1 /\ p \notin q .. q + y - 1
        BY <2>1, <2>2, <4>1
      <4> HIDE DEF p, q
      <4>3. p + x <= q \/ q + y <= p
        BY <2>1, <2>2, <2>3, <3>1, <4>2
      <4>4. CASE p + x <= q
        <5> DEFINE A == (p + x) * PageSize
                   B == q * PageSize
        <5>1. A <= B /\ A \in Nat /\ B \in Nat
          BY <2>1, <2>3, <4>4, Multiply
        <5>2. Start(b) + b.size <= A /\ B <= Start(c)
          BY <2>1, <2>2
        <5>3. QED
          <6> HIDE DEF A, B
          <6> QED BY <2>1, <2>2, <5>1, <5>2
      <4>5. CASE q + y <= p
        <5> DEFINE A == (q + y) * PageSize
                   B == p * PageSize
        <5>1. A <= B /\ A \in Nat /\ B \in Nat
          BY <2>2, <2>3, <4>5, Multiply
        <5>2. Start(c) + c.size <= A /\ B <= Start(b)
          BY <2>1, <2>2
        <5>3. QED
          <6> HIDE DEF A, B
          <6> QED BY <2>1, <2>2, <5>1, <5>2
      <4>6. QED
        BY <4>3, <4>4, <4>5
    <3>2. CASE p = q
      <4>1. b.index # c.index
        BY <1>1, <2>1, <3>2 DEF ArenaInv, Local, Held
      <4>2. Small(p) /\ HeldSmall(b) /\ HeldSmall(c)
        BY <1>1, <2>1, <3>2, <4>1 DEF ArenaInv, Local, Held, HeldLarge, Large, Small
      <4> DEFINE d == arena[p].desc
                 s == block_size(d)
                 i == b.index
                 j == c.index
      <4>3. d \in Descs /\ ~arena[p].large
        BY <1>1, <2>1, <4>2, ArenaAt DEF ArenaInv, Small
      <4>4. s \in Nat /\ b.size <= s /\ c.size <= s /\ i \in Nat /\ j \in Nat
        BY <1>1, <3>2, <4>2, <4>3, ArenaConstants DEF HeldSmall, ArenaInv, TypeInv, Blocks
      <4>5. /\ Start(b) = p * PageSize + Header + i * s
            /\ Start(c) = p * PageSize + Header + j * s
        BY <3>2, <4>3 DEF Start
      <4>6. p * PageSize + Header \in Nat
        BY <2>3, ArenaConstants
      <4> HIDE DEF s, i, j
      <4> DEFINE A == p * PageSize + Header
                 I == i * s
                 J == j * s
      <4>7. /\ A \in Nat /\ I \in Nat /\ J \in Nat /\ Start(b) = A + I /\ Start(c) = A + J
            /\ I + s = (i + 1) * s /\ J + s = (j + 1) * s
        BY <4>4, <4>5, <4>6
      <4>8. CASE i < j
        <5>1. (i + 1) * s <= J
          BY <4>4, <4>8, Multiply
        <5>2. I + s <= J
          BY <4>7, <5>1
        <5>3. QED
          <6> HIDE DEF A, I, J
          <6> QED BY <2>1, <4>4, <4>7, <5>2
      <4>9. CASE j < i
        <5>1. (j + 1) * s <= I
          BY <4>4, <4>9, Multiply
        <5>2. J + s <= I
          BY <4>7, <5>1
        <5>3. QED
          <6> HIDE DEF A, I, J
          <6> QED BY <2>2, <4>4, <4>7, <5>2
      <4>10. QED
        BY <4>1, <4>4, <4>8, <4>9 DEF i, j
    <3>3. QED
      BY <3>1, <3>2
  <2>5. QED
    BY <2>1, <2>2, <2>4 DEF Bytes
<1>2. ArenaInv => Disjoint
    BY <1>1 DEF Disjoint
<1>3. QED
    BY <1>2, ArenaInvariance, PTL
=============================================================================
