------------------------------ MODULE AmqpPool ------------------------------
(***************************************************************************)
(* The pools of src/librabbitmq/amqp_mem.c.  A pool hands out pieces of    *)
(* pages, and blocks of their own to requests larger than a page; nothing  *)
(* is given back before the pool is recycled as a whole.                   *)
(*                                                                         *)
(* The heap is a function from the blocks that are allocated to their      *)
(* sizes; a block that was freed may be handed out again.  A piece of      *)
(* memory is a region of a block.  malloc does not fail: no caller of a    *)
(* pool looks at the result.                                               *)
(***************************************************************************)
EXTENDS Integers, Sequences, FiniteSets

Region(b, o, n) == [block |-> b, off |-> o, len |-> n]
NULL == Region(0, 0, 0)
Overlap(a, b) ==
    a.block = b.block /\ a.off < b.off + b.len /\ b.off < a.off + a.len

NewBlock(heap) ==
    CHOOSE b \in 1..(Cardinality(DOMAIN heap) + 1) : b \notin DOMAIN heap
Calloc(heap, b, n) ==
    [x \in DOMAIN heap \cup {b} |-> IF x = b THEN n ELSE heap[x]]
Free(heap, bs) == [x \in DOMAIN heap \ bs |-> heap[x]]

Blocks(list) == {list[i] : i \in 1..Len(list)}

init_amqp_pool(pagesize) ==
    [pagesize |-> IF pagesize = 0 THEN 4096 ELSE pagesize,
     pages |-> << >>, large_blocks |-> << >>,
     next_page |-> 0, alloc_block |-> 0, alloc_used |-> 0]

\* Memory: a heap and a pool on it.
Mem(heap, pool) == [heap |-> heap, pool |-> pool]

recycle_amqp_pool(m) ==
    Mem(Free(m.heap, Blocks(m.pool.large_blocks)),
        [m.pool EXCEPT !.large_blocks = << >>, !.next_page = 0,
                       !.alloc_block = 0, !.alloc_used = 0])

empty_amqp_pool(m) ==
    LET r == recycle_amqp_pool(m)
    IN  Mem(Free(r.heap, Blocks(r.pool.pages)), [r.pool EXCEPT !.pages = << >>])

RoundUp(amount) == ((amount + 7) \div 8) * 8

\* The piece of memory, and heap and pool after the call.
Allocated(heap, pool, at) == [heap |-> heap, pool |-> pool, at |-> at]

OwnBlock(m, n) ==
    LET b == NewBlock(m.heap)
    IN  Allocated(Calloc(m.heap, b, n),
                  [m.pool EXCEPT !.large_blocks = Append(@, b)], Region(b, 0, n))

\* The rest of the page in use.
SamePage(m, n) ==
    Allocated(m.heap, [m.pool EXCEPT !.alloc_used = @ + n],
              Region(m.pool.alloc_block, m.pool.alloc_used, n))

NewPage(m, n) ==
    LET b == NewBlock(m.heap)
    IN  Allocated(Calloc(m.heap, b, m.pool.pagesize),
                  [m.pool EXCEPT !.pages = Append(@, b), !.alloc_block = b,
                                 !.next_page = Len(m.pool.pages) + 1,
                                 !.alloc_used = n],
                  Region(b, 0, n))

\* A page from before the pool was recycled.
NextPage(m, n) ==
    LET b == m.pool.pages[m.pool.next_page + 1]
    IN  Allocated(m.heap,
                  [m.pool EXCEPT !.alloc_block = b, !.next_page = @ + 1,
                                 !.alloc_used = n],
                  Region(b, 0, n))

OnPage(pool, n) ==
    pool.alloc_block # 0 /\ pool.alloc_used + n <= pool.pagesize

amqp_pool_alloc(m, amount) ==
    LET n == RoundUp(amount)
    IN  IF amount = 0 THEN Allocated(m.heap, m.pool, NULL)
        ELSE IF n > m.pool.pagesize THEN OwnBlock(m, n)
        ELSE IF OnPage(m.pool, n) THEN SamePage(m, n)
        ELSE IF m.pool.next_page >= Len(m.pool.pages) THEN NewPage(m, n)
        ELSE NextPage(m, n)
=============================================================================
