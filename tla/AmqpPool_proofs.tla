--------------------------- MODULE AmqpPool_proofs ---------------------------
(***************************************************************************)
(* What amqp_mem.c promises about the memory it hands out, for every size  *)
(* of page and every sequence of requests: a piece lies in a block that is *)
(* allocated, is as large as was asked for, and shares no byte with a      *)
(* piece handed out since the pool was last recycled.                      *)
(***************************************************************************)
EXTENDS AmqpPool, FiniteSetTheorems, TLAPS

BlockIds == Nat \ {0}
Regions == [block : BlockIds, off : Nat, len : BlockIds]

Pools ==
    [pagesize : BlockIds, pages : Seq(BlockIds), large_blocks : Seq(BlockIds),
     next_page : Nat, alloc_block : Nat, alloc_used : Nat]

HeapOK(h) ==
    /\ IsFiniteSet(DOMAIN h) /\ DOMAIN h \subseteq BlockIds
    /\ h \in [DOMAIN h -> Nat]

\* The blocks of a pool.
Owned(p) == Blocks(p.pages) \cup Blocks(p.large_blocks)

\* A pool on a heap: its blocks are allocated and no two of them are the same,
\* its pages have the size of a page, and the page in use is the last of those
\* taken since the pool was recycled.
PoolOK(h, p) ==
    /\ p \in Pools
    /\ Owned(p) \subseteq DOMAIN h
    /\ Blocks(p.pages) \cap Blocks(p.large_blocks) = {}
    /\ \A i, j \in 1..Len(p.pages) : p.pages[i] = p.pages[j] => i = j
    /\ \A i \in 1..Len(p.pages) : h[p.pages[i]] = p.pagesize
    /\ p.next_page <= Len(p.pages)
    /\ p.alloc_block = 0 => p.next_page = 0
    /\ p.alloc_block # 0 =>
         p.next_page > 0 /\ p.alloc_block = p.pages[p.next_page]
    /\ p.alloc_used <= p.pagesize

\* A piece of memory that was handed out since the pool was recycled: it lies in
\* a block of its own, or in the part of a page that has been used.
OnUsedPage(p, r) ==
    \E i \in 1..p.next_page :
        r.block = p.pages[i] /\ (i = p.next_page => r.off + r.len <= p.alloc_used)
Handed(h, p, r) ==
    /\ r \in Regions
    /\ r.block \in Owned(p)
    /\ r.off + r.len <= h[r.block]
    /\ r.block \in Blocks(p.large_blocks) \/ OnUsedPage(p, r)

-----------------------------------------------------------------------------
\* The heap.

\* malloc finds a block that is not allocated.
LEMMA NewBlockFacts ==
  ASSUME NEW h, HeapOK(h)
  PROVE  NewBlock(h) \in BlockIds \ DOMAIN h
  <1> DEFINE n == Cardinality(DOMAIN h)
  <1>1. n \in Nat
    BY FS_CardinalityType DEF HeapOK
  <1>2. \E b \in 1..(n + 1) : b \notin DOMAIN h
    <2> SUFFICES ASSUME 1..(n + 1) \subseteq DOMAIN h PROVE FALSE
      OBVIOUS
    <2>1. Cardinality(1..(n + 1)) = n + 1
      BY <1>1, FS_Interval
    <2>2. Cardinality(1..(n + 1)) <= n
      BY FS_Subset DEF HeapOK
    <2> QED BY <1>1, <2>1, <2>2
  <1>3. NewBlock(h) \in 1..(n + 1) /\ NewBlock(h) \notin DOMAIN h
    BY <1>2 DEF NewBlock
  <1> QED BY <1>1, <1>3 DEF BlockIds

\* A new block leaves the others as they are.
LEMMA CallocFacts ==
  ASSUME NEW h, HeapOK(h), NEW b \in BlockIds \ DOMAIN h, NEW n \in Nat
  PROVE  /\ HeapOK(Calloc(h, b, n))
         /\ DOMAIN Calloc(h, b, n) = DOMAIN h \cup {b}
         /\ Calloc(h, b, n)[b] = n
         /\ \A x \in DOMAIN h : Calloc(h, b, n)[x] = h[x]
  <1>1. DOMAIN Calloc(h, b, n) = DOMAIN h \cup {b}
    BY DEF Calloc
  <1>2. IsFiniteSet(DOMAIN h \cup {b})
    BY FS_AddElement DEF HeapOK
  <1>3. Calloc(h, b, n) \in [DOMAIN h \cup {b} -> Nat]
    BY DEF Calloc, HeapOK
  <1> QED BY <1>1, <1>2, <1>3 DEF HeapOK, Calloc

\* free takes blocks away and leaves the others as they are.
LEMMA FreeFacts ==
  ASSUME NEW h, HeapOK(h), NEW bs
  PROVE  /\ HeapOK(Free(h, bs))
         /\ DOMAIN Free(h, bs) = DOMAIN h \ bs
         /\ \A x \in DOMAIN Free(h, bs) : Free(h, bs)[x] = h[x]
  <1>1. DOMAIN Free(h, bs) = DOMAIN h \ bs
    BY DEF Free
  <1>2. IsFiniteSet(DOMAIN h \ bs)
    BY FS_Subset DEF HeapOK
  <1>3. Free(h, bs) \in [DOMAIN h \ bs -> Nat]
    BY DEF Free, HeapOK
  <1> QED BY <1>1, <1>2, <1>3 DEF HeapOK, Free

-----------------------------------------------------------------------------
\* Lists of blocks.

\* A block added to a list joins the blocks of the list.
LEMMA BlocksAppend ==
  ASSUME NEW s \in Seq(BlockIds), NEW b \in BlockIds
  PROVE  /\ Append(s, b) \in Seq(BlockIds)
         /\ Len(Append(s, b)) = Len(s) + 1
         /\ Append(s, b)[Len(s) + 1] = b
         /\ \A i \in 1..Len(s) : Append(s, b)[i] = s[i]
         /\ Blocks(Append(s, b)) = Blocks(s) \cup {b}
  BY DEF Blocks

\* A list of blocks contains blocks, and an empty one none.
LEMMA BlocksFacts ==
  /\ Blocks(<< >>) = {}
  /\ << >> \in Seq(BlockIds) /\ Len(<< >>) = 0
  /\ \A s \in Seq(BlockIds) : /\ Blocks(s) \subseteq BlockIds
                              /\ \A i \in 1..Len(s) : s[i] \in Blocks(s)
  BY DEF Blocks

-----------------------------------------------------------------------------
\* amqp_pool_alloc.

\* An allocation takes a pool p on a heap h to the pool and the heap of a and
\* hands out a.at: nothing allocated before is lost or changed, what is new
\* belongs to the pool, and a.at is apart from all that was handed out.
Grown(h, p, a) ==
    /\ HeapOK(a.heap) /\ PoolOK(a.heap, a.pool)
    /\ a.pool.pagesize = p.pagesize
    /\ Handed(a.heap, a.pool, a.at)
    /\ DOMAIN a.heap = DOMAIN h \cup Owned(a.pool)
    /\ \A x \in DOMAIN h : a.heap[x] = h[x]
    /\ Owned(p) \subseteq Owned(a.pool)
    /\ (Owned(a.pool) \ Owned(p)) \cap DOMAIN h = {}
    /\ \A r \in Regions :
         Handed(h, p, r) => Handed(a.heap, a.pool, r) /\ ~Overlap(a.at, r)

\* A request larger than a page gets a block of its own.
LEMMA OwnBlockGrows ==
  ASSUME NEW h, NEW p, HeapOK(h), PoolOK(h, p), NEW n \in BlockIds
  PROVE  Grown(h, p, OwnBlock(Mem(h, p), n)) /\ OwnBlock(Mem(h, p), n).at.len = n
  <1> DEFINE b == NewBlock(h)
             g == Calloc(h, b, n)
             q == [p EXCEPT !.large_blocks = Append(p.large_blocks, b)]
             a == OwnBlock(Mem(h, p), n)
  <1>1. b \in BlockIds \ DOMAIN h
    BY NewBlockFacts
  <1>2. a.heap = g /\ a.pool = q /\ a.at = Region(b, 0, n)
    BY DEF OwnBlock, Mem, Allocated
  <1>3. p.large_blocks \in Seq(BlockIds) /\ p.pages \in Seq(BlockIds)
    BY DEF PoolOK, Pools
  <1> DEFINE l == Append(p.large_blocks, b)
  <1>4. l \in Seq(BlockIds) /\ Blocks(l) = Blocks(p.large_blocks) \cup {b}
    BY <1>1, <1>3, BlocksAppend
  <1> HIDE DEF l
  <1>5. /\ q \in Pools
        /\ q.large_blocks = l /\ q.pages = p.pages /\ q.pagesize = p.pagesize
        /\ q.next_page = p.next_page /\ q.alloc_block = p.alloc_block
        /\ q.alloc_used = p.alloc_used
    BY <1>4 DEF PoolOK, Pools, l
  <1>6. Owned(q) = Owned(p) \cup {b}
    BY <1>4, <1>5 DEF Owned
  <1>7. /\ HeapOK(g) /\ DOMAIN g = DOMAIN h \cup {b} /\ g[b] = n
        /\ \A x \in DOMAIN h : g[x] = h[x]
    <2>1. n \in Nat
      BY DEF BlockIds
    <2> HIDE DEF b
    <2> QED BY <1>1, <2>1, CallocFacts
  <1> HIDE DEF q, g, b
  <1>8. PoolOK(g, q)
    <2>1. \A i \in 1..Len(p.pages) : p.pages[i] \in DOMAIN h
      BY <1>3, BlocksFacts DEF PoolOK, Owned
    <2>2. Blocks(q.pages) \cap Blocks(q.large_blocks) = {}
      BY <1>1, <1>4, <1>5 DEF PoolOK, Owned
    <2> QED BY <1>5, <1>6, <1>7, <2>1, <2>2 DEF PoolOK
  <1>9. /\ Region(b, 0, n) \in Regions
        /\ Region(b, 0, n).block = b /\ Region(b, 0, n).off = 0
        /\ Region(b, 0, n).len = n
    BY <1>1 DEF Region, Regions, BlockIds
  <1>10. Handed(g, q, Region(b, 0, n))
    BY <1>4, <1>5, <1>6, <1>7, <1>9 DEF Handed, BlockIds
  <1>11. ASSUME NEW r \in Regions, Handed(h, p, r)
         PROVE  Handed(g, q, r) /\ ~Overlap(Region(b, 0, n), r)
    <2>1. r.block \in Owned(p) /\ r.block \in DOMAIN h /\ r.block # b
      BY <1>1, <1>11 DEF Handed, PoolOK
    <2>2. Handed(g, q, r)
      BY <1>4, <1>5, <1>6, <1>7, <1>11, <2>1 DEF Handed, OnUsedPage
    <2> QED BY <1>9, <2>1, <2>2 DEF Overlap
  <1>12. DOMAIN g = DOMAIN h \cup Owned(q)
    BY <1>6, <1>7 DEF PoolOK
  <1>13. (Owned(q) \ Owned(p)) \cap DOMAIN h = {}
    BY <1>1, <1>6
  <1> QED BY <1>2, <1>5, <1>6, <1>7, <1>8, <1>9, <1>10, <1>11, <1>12, <1>13
          DEF Grown

\* What fits goes behind what was handed out of the page in use.
LEMMA SamePageGrows ==
  ASSUME NEW h, NEW p, HeapOK(h), PoolOK(h, p), NEW n \in BlockIds, OnPage(p, n)
  PROVE  Grown(h, p, SamePage(Mem(h, p), n)) /\ SamePage(Mem(h, p), n).at.len = n
  <1> DEFINE q == [p EXCEPT !.alloc_used = p.alloc_used + n]
             t == Region(p.alloc_block, p.alloc_used, n)
             a == SamePage(Mem(h, p), n)
  <1>1. a.heap = h /\ a.pool = q /\ a.at = t
    BY DEF SamePage, Mem, Allocated
  <1>2. /\ p.alloc_used \in Nat /\ p.pagesize \in Nat /\ p.next_page \in Nat
        /\ p.pages \in Seq(BlockIds) /\ p.large_blocks \in Seq(BlockIds)
        /\ p.alloc_used + n \in Nat /\ p.alloc_used + n <= p.pagesize
        /\ p.alloc_block # 0
    BY DEF PoolOK, Pools, OnPage, BlockIds
  <1>3. /\ q \in Pools
        /\ q.large_blocks = p.large_blocks /\ q.pages = p.pages
        /\ q.pagesize = p.pagesize /\ q.next_page = p.next_page
        /\ q.alloc_block = p.alloc_block /\ q.alloc_used = p.alloc_used + n
    BY <1>2 DEF PoolOK, Pools
  <1>4. Owned(q) = Owned(p)
    BY <1>3 DEF Owned
  <1>5. PoolOK(h, q)
    BY <1>2, <1>3, <1>4 DEF PoolOK
  <1>6. /\ p.next_page \in 1..Len(p.pages)
        /\ p.alloc_block = p.pages[p.next_page]
        /\ p.alloc_block \in Owned(p)
        /\ p.alloc_block \in BlockIds
        /\ p.alloc_block \notin Blocks(p.large_blocks)
        /\ h[p.alloc_block] = p.pagesize
    <2>1. p.next_page \in 1..Len(p.pages) /\ p.alloc_block = p.pages[p.next_page]
      BY <1>2 DEF PoolOK
    <2>2. p.alloc_block \in Blocks(p.pages)
      BY <1>2, <2>1, BlocksFacts
    <2> QED BY <1>2, <2>1, <2>2, BlocksFacts DEF PoolOK, Owned
  <1>7. /\ t \in Regions /\ t.block = p.alloc_block /\ t.off = p.alloc_used
        /\ t.len = n
    BY <1>2, <1>6 DEF Region, Regions
  <1> HIDE DEF t, q
  <1>8. Handed(h, q, t)
    BY <1>2, <1>3, <1>4, <1>6, <1>7 DEF Handed, OnUsedPage
  <1>9. ASSUME NEW r \in Regions, Handed(h, p, r)
        PROVE  Handed(h, q, r) /\ ~Overlap(t, r)
    <2>1. r.off \in Nat /\ r.len \in Nat /\ n \in Nat
      BY DEF Regions, BlockIds
    <2>2. Handed(h, q, r)
      BY <1>2, <1>3, <1>4, <1>9, <2>1 DEF Handed, OnUsedPage
    <2>3. CASE r.block # p.alloc_block
      BY <1>7, <2>2, <2>3 DEF Overlap
    <2>4. CASE r.block = p.alloc_block
      <3>1. PICK i \in 1..p.next_page :
              r.block = p.pages[i] /\ (i = p.next_page => r.off + r.len <= p.alloc_used)
        BY <1>6, <1>9, <2>4 DEF Handed, OnUsedPage
      <3>2. i = p.next_page
        <4>1. i \in 1..Len(p.pages)
          BY <1>2, <1>6, <3>1
        <4> QED BY <1>6, <2>4, <3>1, <4>1 DEF PoolOK
      <3> QED BY <1>2, <1>7, <2>1, <2>2, <3>1, <3>2 DEF Overlap
    <2> QED BY <2>3, <2>4
  <1>10. DOMAIN h = DOMAIN h \cup Owned(q)
    BY <1>4 DEF PoolOK
  <1> QED BY <1>1, <1>3, <1>4, <1>5, <1>7, <1>8, <1>9, <1>10 DEF Grown

\* A page, fresh from malloc or from before the pool was recycled.
LEMMA NewPageGrows ==
  ASSUME NEW h, NEW p, HeapOK(h), PoolOK(h, p), NEW n \in BlockIds,
         n <= p.pagesize, p.next_page >= Len(p.pages)
  PROVE  Grown(h, p, NewPage(Mem(h, p), n)) /\ NewPage(Mem(h, p), n).at.len = n
  <1> DEFINE b == NewBlock(h)
             g == Calloc(h, b, p.pagesize)
             l == Append(p.pages, b)
             q == [p EXCEPT !.pages = l, !.alloc_block = b,
                            !.next_page = Len(p.pages) + 1, !.alloc_used = n]
             t == Region(b, 0, n)
             a == NewPage(Mem(h, p), n)
  <1>1. b \in BlockIds \ DOMAIN h
    BY NewBlockFacts
  <1>2. a.heap = g /\ a.pool = q /\ a.at = t
    BY DEF NewPage, Mem, Allocated
  <1>3. /\ p.large_blocks \in Seq(BlockIds) /\ p.pages \in Seq(BlockIds)
        /\ p.pagesize \in BlockIds /\ p.pagesize \in Nat /\ n \in Nat
        /\ p.next_page = Len(p.pages) /\ Len(p.pages) \in Nat
    BY DEF PoolOK, Pools, BlockIds
  <1>4. /\ l \in Seq(BlockIds) /\ Blocks(l) = Blocks(p.pages) \cup {b}
        /\ Len(l) = Len(p.pages) + 1 /\ l[Len(p.pages) + 1] = b
        /\ \A i \in 1..Len(p.pages) : l[i] = p.pages[i]
    BY <1>1, <1>3, BlocksAppend
  <1> HIDE DEF l
  <1>5. /\ q \in Pools
        /\ q.large_blocks = p.large_blocks /\ q.pages = l
        /\ q.pagesize = p.pagesize /\ q.next_page = Len(p.pages) + 1
        /\ q.alloc_block = b /\ q.alloc_used = n
    <2>1. b \in Nat /\ Len(p.pages) + 1 \in Nat /\ n \in Nat
      BY <1>1, <1>3 DEF BlockIds
    <2> HIDE DEF b
    <2> QED BY <1>3, <1>4, <2>1 DEF PoolOK, Pools
  <1>6. Owned(q) = Owned(p) \cup {b}
    BY <1>4, <1>5 DEF Owned
  <1>7. /\ HeapOK(g) /\ DOMAIN g = DOMAIN h \cup {b} /\ g[b] = p.pagesize
        /\ \A x \in DOMAIN h : g[x] = h[x]
    <2> DEFINE z == p.pagesize
    <2>1. z \in Nat
      BY <1>3
    <2> HIDE DEF b, z
    <2>2. HeapOK(Calloc(h, b, z)) /\ DOMAIN Calloc(h, b, z) = DOMAIN h \cup {b}
      BY <1>1, <2>1, CallocFacts
    <2>3. Calloc(h, b, z)[b] = z
      BY DEF Calloc
    <2>4. \A x \in DOMAIN h : Calloc(h, b, z)[x] = h[x]
      BY ZenonT(60), <1>1, <2>1, CallocFacts
    <2> QED BY <2>2, <2>3, <2>4 DEF z
  <1> HIDE DEF q, g, b
  <1>8. \A i \in 1..Len(p.pages) : p.pages[i] \in DOMAIN h /\ p.pages[i] # b
    BY <1>1, <1>3, BlocksFacts DEF PoolOK, Owned
  <1>9. PoolOK(g, q)
    <2>1. Blocks(q.pages) \cap Blocks(q.large_blocks) = {}
      BY <1>1, <1>4, <1>5 DEF PoolOK, Owned
    <2>2. \A i \in 1..Len(l) : i \in 1..Len(p.pages) \/ i = Len(p.pages) + 1
      BY <1>3, <1>4
    <2>3. \A i, j \in 1..Len(l) : l[i] = l[j] => i = j
      BY <1>3, <1>4, <1>8, <2>2 DEF PoolOK
    <2>4. \A i \in 1..Len(l) : g[l[i]] = p.pagesize
      BY <1>3, <1>4, <1>7, <1>8, <2>2 DEF PoolOK
    <2>5. Owned(q) \subseteq DOMAIN g
      BY <1>6, <1>7 DEF PoolOK
    <2>6. /\ q.next_page <= Len(q.pages) /\ q.next_page > 0
          /\ q.alloc_block # 0 /\ q.alloc_block = q.pages[q.next_page]
          /\ q.alloc_used <= q.pagesize
      BY <1>1, <1>3, <1>4, <1>5 DEF BlockIds
    <2> QED BY <1>5, <2>1, <2>3, <2>4, <2>5, <2>6 DEF PoolOK
  <1>10. t \in Regions /\ t.block = b /\ t.off = 0 /\ t.len = n
    BY <1>1 DEF Region, Regions, BlockIds
  <1> HIDE DEF t
  <1>11. Handed(g, q, t)
    BY <1>3, <1>4, <1>5, <1>6, <1>7, <1>10 DEF Handed, OnUsedPage
  <1>12. ASSUME NEW r \in Regions, Handed(h, p, r)
         PROVE  Handed(g, q, r) /\ ~Overlap(t, r)
    <2>1. r.block \in DOMAIN h /\ r.block # b
      BY <1>1, <1>12 DEF Handed, PoolOK
    <2>2. OnUsedPage(p, r) => OnUsedPage(q, r)
      BY <1>3, <1>4, <1>5 DEF OnUsedPage
    <2>3. Handed(g, q, r)
      BY <1>5, <1>6, <1>7, <1>12, <2>1, <2>2 DEF Handed
    <2> QED BY <1>10, <2>1, <2>3 DEF Overlap
  <1>13. DOMAIN g = DOMAIN h \cup Owned(q)
    BY <1>6, <1>7 DEF PoolOK
  <1>14. (Owned(q) \ Owned(p)) \cap DOMAIN h = {}
    BY <1>1, <1>6
  <1> QED BY <1>2, <1>5, <1>6, <1>7, <1>9, <1>10, <1>11, <1>12, <1>13, <1>14
          DEF Grown


\* ... the next page that is left from before.
LEMMA NextPageGrows ==
  ASSUME NEW h, NEW p, HeapOK(h), PoolOK(h, p), NEW n \in BlockIds,
         n <= p.pagesize, p.next_page < Len(p.pages)
  PROVE  Grown(h, p, NextPage(Mem(h, p), n)) /\ NextPage(Mem(h, p), n).at.len = n
  <1> DEFINE k == p.next_page + 1
             b == p.pages[k]
             q == [p EXCEPT !.alloc_block = b, !.next_page = k, !.alloc_used = n]
             t == Region(b, 0, n)
             a == NextPage(Mem(h, p), n)
  <1>1. a.heap = h /\ a.pool = q /\ a.at = t
    BY DEF NextPage, Mem, Allocated
  <1>2. /\ p.large_blocks \in Seq(BlockIds) /\ p.pages \in Seq(BlockIds)
        /\ p.pagesize \in Nat /\ n \in Nat /\ n > 0
        /\ p.next_page \in Nat /\ Len(p.pages) \in Nat /\ k \in 1..Len(p.pages)
    BY DEF PoolOK, Pools, BlockIds
  <1>3. /\ b \in Blocks(p.pages) /\ b \in Owned(p) /\ b \in Nat /\ b # 0
        /\ b \notin Blocks(p.large_blocks) /\ h[b] = p.pagesize
    BY <1>2, BlocksFacts DEF PoolOK, Owned, BlockIds
  <1>4. /\ q \in Pools
        /\ q.large_blocks = p.large_blocks /\ q.pages = p.pages
        /\ q.pagesize = p.pagesize /\ q.next_page = k
        /\ q.alloc_block = b /\ q.alloc_used = n
    <2>1. b \in Nat /\ k \in Nat /\ n \in Nat
      BY <1>2, <1>3
    <2> HIDE DEF b, k
    <2> QED BY <2>1 DEF PoolOK, Pools
  <1>5. Owned(q) = Owned(p)
    BY <1>4 DEF Owned
  <1>6. t \in Regions /\ t.block = b /\ t.off = 0 /\ t.len = n
    BY <1>2, <1>3 DEF Region, Regions, BlockIds
  <1> HIDE DEF q, t
  <1>7. PoolOK(h, q)
    BY <1>2, <1>3, <1>4, <1>5 DEF PoolOK
  <1>8. Handed(h, q, t)
    BY <1>2, <1>3, <1>4, <1>5, <1>6 DEF Handed, OnUsedPage
  <1>9. ASSUME NEW r \in Regions, Handed(h, p, r)
        PROVE  Handed(h, q, r) /\ ~Overlap(t, r)
    <2>1. CASE r.block \in Blocks(p.large_blocks)
      BY <1>3, <1>4, <1>5, <1>6, <1>9, <2>1 DEF Handed, Overlap
    <2>2. CASE OnUsedPage(p, r)
      <3>1. PICK i \in 1..p.next_page : r.block = p.pages[i]
        BY <2>2 DEF OnUsedPage
      <3>2. i \in 1..Len(p.pages) /\ i # k /\ i \in 1..k
        BY <1>2
      <3>3. r.block # b
        BY <1>2, <3>1, <3>2 DEF PoolOK
      <3>4. OnUsedPage(q, r)
        BY <1>4, <3>1, <3>2 DEF OnUsedPage
      <3> QED BY <1>4, <1>5, <1>6, <1>9, <3>3, <3>4 DEF Handed, Overlap
    <2> QED BY <1>9, <2>1, <2>2 DEF Handed
  <1>10. DOMAIN h = DOMAIN h \cup Owned(q)
    BY <1>5 DEF PoolOK
  <1> QED BY <1>1, <1>4, <1>5, <1>6, <1>7, <1>8, <1>9, <1>10 DEF Grown

\* amqp_pool_alloc hands out memory that is allocated, as large as was asked
\* for and apart from everything it has handed out since the pool was
\* recycled, whatever the size of a page and whatever was asked for before.
THEOREM PoolAllocates ==
  ASSUME NEW h, NEW p, HeapOK(h), PoolOK(h, p), NEW amount \in Nat \ {0}
  PROVE  /\ Grown(h, p, amqp_pool_alloc(Mem(h, p), amount))
         /\ amqp_pool_alloc(Mem(h, p), amount).at.len >= amount
  <1> DEFINE n == RoundUp(amount)
             a == amqp_pool_alloc(Mem(h, p), amount)
  <1>1. n \in BlockIds /\ n >= amount
    BY DEF RoundUp, BlockIds
  <1>2. Mem(h, p).pool = p
    BY DEF Mem
  <1>3. p.pagesize \in Nat /\ n \in Nat /\ p.next_page \in Nat /\ Len(p.pages) \in Nat
    BY <1>1 DEF PoolOK, Pools, BlockIds
  <1> HIDE DEF n
  <1>4. a = IF n > p.pagesize THEN OwnBlock(Mem(h, p), n)
            ELSE IF OnPage(p, n) THEN SamePage(Mem(h, p), n)
            ELSE IF p.next_page >= Len(p.pages) THEN NewPage(Mem(h, p), n)
            ELSE NextPage(Mem(h, p), n)
    BY <1>2 DEF amqp_pool_alloc, n
  <1> HIDE DEF a
  <1>5. Grown(h, p, a) /\ a.at.len = n
    <2>1. CASE n > p.pagesize
      BY <1>1, <1>4, <2>1, OwnBlockGrows
    <2>2. CASE ~(n > p.pagesize) /\ OnPage(p, n)
      BY <1>1, <1>4, <2>2, SamePageGrows
    <2>3. CASE ~(n > p.pagesize) /\ ~OnPage(p, n) /\ p.next_page >= Len(p.pages)
      BY <1>1, <1>3, <1>4, <2>3, NewPageGrows
    <2>4. CASE ~(n > p.pagesize) /\ ~OnPage(p, n) /\ ~(p.next_page >= Len(p.pages))
      BY <1>1, <1>3, <1>4, <2>4, NextPageGrows
    <2> QED BY <2>1, <2>2, <2>3, <2>4
  <1> QED BY <1>1, <1>5 DEF a

-----------------------------------------------------------------------------
\* Recycling and freeing.

\* A pool that does not allocate is not disturbed by what happens elsewhere.
LEMMA PoolUndisturbed ==
  ASSUME NEW h, NEW g, NEW p, PoolOK(h, p), Owned(p) \subseteq DOMAIN g,
         \A x \in Owned(p) : g[x] = h[x]
  PROVE  /\ PoolOK(g, p)
         /\ \A r \in Regions : Handed(h, p, r) => Handed(g, p, r)
  <1>1. \A i \in 1..Len(p.pages) : p.pages[i] \in Owned(p)
    BY BlocksFacts DEF PoolOK, Pools, Owned
  <1>2. PoolOK(g, p)
    BY <1>1 DEF PoolOK
  <1>3. \A r \in Regions : Handed(h, p, r) => Handed(g, p, r)
    BY DEF Handed
  <1> QED BY <1>2, <1>3

\* A new pool owns nothing.
LEMMA InitPoolFacts ==
  ASSUME NEW h, NEW n \in Nat
  PROVE  /\ PoolOK(h, init_amqp_pool(n))
         /\ Owned(init_amqp_pool(n)) = {}
         /\ n # 0 => init_amqp_pool(n).pagesize = n
  <1> DEFINE p == init_amqp_pool(n)
  <1>1. /\ p.pages = << >> /\ p.large_blocks = << >> /\ p.next_page = 0
        /\ p.alloc_block = 0 /\ p.alloc_used = 0 /\ p.pagesize \in BlockIds
        /\ n # 0 => p.pagesize = n
        /\ p \in Pools
    BY BlocksFacts DEF init_amqp_pool, Pools, BlockIds
  <1> HIDE DEF p
  <1>2. Owned(p) = {}
    BY <1>1, BlocksFacts DEF Owned
  <1>3. PoolOK(h, p)
    BY <1>1, <1>2, BlocksFacts DEF PoolOK, BlockIds
  <1> QED BY <1>1, <1>2, <1>3 DEF p

\* recycle_amqp_pool frees the large blocks and keeps the pages.
LEMMA RecycleFacts ==
  ASSUME NEW h, NEW p, HeapOK(h), PoolOK(h, p)
  PROVE  LET r == recycle_amqp_pool(Mem(h, p))
         IN  /\ HeapOK(r.heap) /\ PoolOK(r.heap, r.pool)
             /\ r.pool.pagesize = p.pagesize
             /\ Owned(r.pool) = Blocks(p.pages)
             /\ Blocks(r.pool.pages) = Blocks(p.pages)
             /\ DOMAIN r.heap = DOMAIN h \ Blocks(p.large_blocks)
             /\ \A x \in DOMAIN r.heap : r.heap[x] = h[x]
  <1> DEFINE g == Free(h, Blocks(p.large_blocks))
             q == [p EXCEPT !.large_blocks = << >>, !.next_page = 0,
                            !.alloc_block = 0, !.alloc_used = 0]
             r == recycle_amqp_pool(Mem(h, p))
  <1>1. r.heap = g /\ r.pool = q
    BY DEF recycle_amqp_pool, Mem
  <1>2. /\ HeapOK(g) /\ DOMAIN g = DOMAIN h \ Blocks(p.large_blocks)
        /\ \A x \in DOMAIN g : g[x] = h[x]
    BY FreeFacts
  <1>3. /\ q \in Pools /\ q.pages = p.pages /\ q.pagesize = p.pagesize
        /\ q.large_blocks = << >> /\ q.next_page = 0 /\ q.alloc_block = 0
        /\ q.alloc_used = 0
    BY BlocksFacts DEF PoolOK, Pools
  <1> HIDE DEF g, q, r
  <1>4. Owned(q) = Blocks(p.pages)
    BY <1>3, BlocksFacts DEF Owned
  <1>5. Owned(q) \subseteq DOMAIN g
    BY <1>2, <1>4 DEF PoolOK, Owned
  <1>6. \A i \in 1..Len(p.pages) : p.pages[i] \in DOMAIN g
    BY <1>4, <1>5, BlocksFacts DEF PoolOK, Pools
  <1>7. p.pagesize \in Nat /\ Len(p.pages) \in Nat
    BY DEF PoolOK, Pools, BlockIds
  <1>8. PoolOK(g, q)
    BY <1>2, <1>3, <1>5, <1>6, <1>7, BlocksFacts DEF PoolOK
  <1> QED BY <1>1, <1>2, <1>3, <1>4, <1>8 DEF r

\* empty_amqp_pool frees everything the pool owns.
LEMMA EmptyFacts ==
  ASSUME NEW h, NEW p, HeapOK(h), PoolOK(h, p)
  PROVE  LET e == empty_amqp_pool(Mem(h, p))
         IN  /\ HeapOK(e.heap)
             /\ DOMAIN e.heap = DOMAIN h \ Owned(p)
             /\ \A x \in DOMAIN e.heap : e.heap[x] = h[x]
  <1> DEFINE r == recycle_amqp_pool(Mem(h, p))
             g == Free(r.heap, Blocks(r.pool.pages))
             e == empty_amqp_pool(Mem(h, p))
  <1>1. /\ HeapOK(r.heap) /\ Blocks(r.pool.pages) = Blocks(p.pages)
        /\ DOMAIN r.heap = DOMAIN h \ Blocks(p.large_blocks)
        /\ \A x \in DOMAIN r.heap : r.heap[x] = h[x]
    BY RecycleFacts
  <1>2. e.heap = g
    BY DEF empty_amqp_pool, Mem
  <1> HIDE DEF r, e
  <1>3. /\ HeapOK(g) /\ DOMAIN g = DOMAIN r.heap \ Blocks(r.pool.pages)
        /\ \A x \in DOMAIN g : g[x] = r.heap[x]
    BY ZenonT(60), <1>1, FreeFacts
  <1> HIDE DEF g
  <1> QED BY <1>1, <1>2, <1>3 DEF Owned, e
=============================================================================
