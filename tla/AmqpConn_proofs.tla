--------------------------- MODULE AmqpConn_proofs ---------------------------
(***************************************************************************)
(* The memory of a connection, for every chunking of the stream, every     *)
(* broker and every application: a frame is never overwritten or freed     *)
(* while somebody may look at it, and nothing leaks.  The argument does    *)
(* not look at the bytes of a frame: what is read, and whether it is an    *)
(* error, makes no difference to it.                                       *)
(***************************************************************************)
EXTENDS AmqpConn, AmqpPool_proofs

ConnFields ==
    {"state", "inbound", "buf", "target", "frame_max", "frame_pool",
     "decoding_pool", "queue", "sock", "outbound", "sock_inbound", "sockfd",
     "ssl"}
ReadFields ==
    {"conn", "heap", "used", "frame", "mem", "complete", "err", "more"}

\* Records with just these fields, whatever the values.
IsConn(c) == DOMAIN c = ConnFields /\ c = [f \in ConnFields |-> c[f]]
IsRead(r) == DOMAIN r = ReadFields /\ r = [f \in ReadFields |-> r[f]]

States == {IDLE, WAIT_HEADER, WAIT_BODY, WAIT_PROTOCOL}

Fixed(c) == {c.outbound, c.sock_inbound} \ {0}

\* The heap is the blocks of the two pools and the two buffers, and no block is
\* more than one of these.
ConnMem(c, h) ==
    /\ HeapOK(h)
    /\ PoolOK(h, c.frame_pool) /\ PoolOK(h, c.decoding_pool)
    /\ Owned(c.frame_pool) \cap Owned(c.decoding_pool) = {}
    /\ Fixed(c) \cap (Owned(c.frame_pool) \cup Owned(c.decoding_pool)) = {}
    /\ DOMAIN h = Owned(c.frame_pool) \cup Owned(c.decoding_pool) \cup Fixed(c)

\* Memory that a pool of the connection has handed out.
Issued(c, h, m) ==
    Handed(h, c.frame_pool, m) \/ Handed(h, c.decoding_pool, m)

\* Memory that shares nothing with what was handed out.
Fresh(c, h, m) == \A r \in Regions : Issued(c, h, r) => ~Overlap(m, r)

\* What reading and allocating leave alone.
Kept(c, d) ==
    /\ d.queue = c.queue /\ d.sock = c.sock /\ d.frame_max = c.frame_max
    /\ d.outbound = c.outbound /\ d.sock_inbound = c.sock_inbound
    /\ d.sockfd = c.sockfd /\ d.ssl = c.ssl

Grows(c, h, d, g) ==
    /\ IsConn(d) /\ ConnMem(d, g) /\ Kept(c, d)
    /\ \A r \in Regions : Issued(c, h, r) => Issued(d, g, r)

-----------------------------------------------------------------------------
\* Allocating.

\* Growth composes, and what is fresh later was fresh before.
LEMMA GrowsTwice ==
  ASSUME NEW c, NEW h, NEW d, NEW g, NEW e, NEW k,
         Grows(c, h, d, g), Grows(d, g, e, k)
  PROVE  /\ Grows(c, h, e, k)
         /\ \A m \in Regions : Fresh(d, g, m) => Fresh(c, h, m)
  BY DEF Grows, Kept, Fresh

\* An allocation from the frame pool.
LEMMA FramePoolGrows ==
  ASSUME NEW c, NEW h, ConnMem(c, h), NEW a, Grown(h, c.frame_pool, a),
         NEW d, IsConn(d), Kept(c, d),
         d.frame_pool = a.pool, d.decoding_pool = c.decoding_pool
  PROVE  /\ Grows(c, h, d, a.heap)
         /\ Fresh(c, h, a.at) /\ Handed(a.heap, d.frame_pool, a.at)
  <1> DEFINE F == Owned(c.frame_pool)
             D == Owned(c.decoding_pool)
             N == Owned(a.pool)
  <1>1. /\ HeapOK(a.heap) /\ PoolOK(a.heap, a.pool) /\ Handed(a.heap, a.pool, a.at)
        /\ DOMAIN a.heap = DOMAIN h \cup N
        /\ \A x \in DOMAIN h : a.heap[x] = h[x]
        /\ F \subseteq N /\ (N \ F) \cap DOMAIN h = {}
        /\ \A r \in Regions : Handed(h, c.frame_pool, r) =>
              Handed(a.heap, a.pool, r) /\ ~Overlap(a.at, r)
    BY DEF Grown
  <1>2. /\ PoolOK(h, c.decoding_pool) /\ D \subseteq DOMAIN h
        /\ F \cap D = {} /\ Fixed(c) \cap (F \cup D) = {}
        /\ DOMAIN h = F \cup D \cup Fixed(c)
    BY DEF ConnMem, PoolOK
  <1>3. Fixed(d) = Fixed(c)
    BY DEF Fixed, Kept
  <1>4. D \subseteq DOMAIN a.heap /\ \A x \in D : a.heap[x] = h[x]
    BY <1>1, <1>2
  <1>5. /\ PoolOK(a.heap, c.decoding_pool)
        /\ \A r \in Regions : Handed(h, c.decoding_pool, r) =>
                                Handed(a.heap, c.decoding_pool, r)
    BY <1>2, <1>4, PoolUndisturbed
  <1>6. N \cap D = {} /\ Fixed(d) \cap (N \cup D) = {}
    BY <1>1, <1>2, <1>3
  <1>7. ConnMem(d, a.heap)
    BY <1>1, <1>2, <1>3, <1>5, <1>6 DEF ConnMem
  <1>8. Grows(c, h, d, a.heap)
    BY <1>1, <1>5, <1>7 DEF Grows, Issued
  <1>9. a.at \in Regions /\ a.at.block \in N
    BY <1>1 DEF Handed
  <1>10. ASSUME NEW r \in Regions, Handed(h, c.decoding_pool, r)
         PROVE  ~Overlap(a.at, r)
    BY <1>6, <1>9, <1>10 DEF Handed, Overlap
  <1>11. Fresh(c, h, a.at)
    BY <1>1, <1>10 DEF Fresh, Issued
  <1> QED BY <1>1, <1>8, <1>11

\* An allocation from the decoding pool.
LEMMA DecodingPoolGrows ==
  ASSUME NEW c, NEW h, ConnMem(c, h), NEW a, Grown(h, c.decoding_pool, a),
         NEW d, IsConn(d), Kept(c, d),
         d.decoding_pool = a.pool, d.frame_pool = c.frame_pool
  PROVE  /\ Grows(c, h, d, a.heap)
         /\ Fresh(c, h, a.at) /\ Handed(a.heap, d.decoding_pool, a.at)
         /\ \A r \in Regions : Handed(h, c.frame_pool, r) =>
                                 Handed(a.heap, d.frame_pool, r)
  <1> DEFINE F == Owned(c.frame_pool)
             D == Owned(c.decoding_pool)
             N == Owned(a.pool)
  <1>1. /\ HeapOK(a.heap) /\ PoolOK(a.heap, a.pool) /\ Handed(a.heap, a.pool, a.at)
        /\ DOMAIN a.heap = DOMAIN h \cup N
        /\ \A x \in DOMAIN h : a.heap[x] = h[x]
        /\ D \subseteq N /\ (N \ D) \cap DOMAIN h = {}
        /\ \A r \in Regions : Handed(h, c.decoding_pool, r) =>
              Handed(a.heap, a.pool, r) /\ ~Overlap(a.at, r)
    BY DEF Grown
  <1>2. /\ PoolOK(h, c.frame_pool) /\ F \subseteq DOMAIN h
        /\ F \cap D = {} /\ Fixed(c) \cap (F \cup D) = {}
        /\ DOMAIN h = F \cup D \cup Fixed(c)
    BY DEF ConnMem, PoolOK
  <1>3. Fixed(d) = Fixed(c)
    BY DEF Fixed, Kept
  <1>4. F \subseteq DOMAIN a.heap /\ \A x \in F : a.heap[x] = h[x]
    BY <1>1, <1>2
  <1>5. /\ PoolOK(a.heap, c.frame_pool)
        /\ \A r \in Regions : Handed(h, c.frame_pool, r) =>
                                Handed(a.heap, c.frame_pool, r)
    BY <1>2, <1>4, PoolUndisturbed
  <1>6. N \cap F = {} /\ Fixed(d) \cap (F \cup N) = {}
    BY <1>1, <1>2, <1>3
  <1>7. ConnMem(d, a.heap)
    BY <1>1, <1>2, <1>3, <1>5, <1>6 DEF ConnMem
  <1>8. Grows(c, h, d, a.heap)
    BY <1>1, <1>5, <1>7 DEF Grows, Issued
  <1>9. a.at \in Regions /\ a.at.block \in N
    BY <1>1 DEF Handed
  <1>10. ASSUME NEW r \in Regions, Handed(h, c.frame_pool, r)
         PROVE  ~Overlap(a.at, r)
    BY <1>6, <1>9, <1>10 DEF Handed, Overlap
  <1>11. Fresh(c, h, a.at)
    BY <1>1, <1>10 DEF Fresh, Issued
  <1> QED BY <1>1, <1>5, <1>8, <1>11

\* A struct from the decoding pool.
LEMMA DecodingFacts ==
  ASSUME NEW c, NEW h, IsConn(c), ConnMem(c, h), NEW n \in Nat \ {0}
  PROVE  LET d == Decoding(c, h, n)
         IN  /\ Grows(c, h, d.conn, d.heap)
             /\ Fresh(c, h, d.at) /\ Handed(d.heap, d.conn.decoding_pool, d.at)
             /\ d.conn.state = c.state /\ d.conn.inbound = c.inbound
             /\ d.conn.buf = c.buf /\ d.conn.target = c.target
             /\ \A r \in Regions : Handed(h, c.frame_pool, r) =>
                                     Handed(d.heap, d.conn.frame_pool, r)
  <1> DEFINE a == amqp_pool_alloc(Mem(h, c.decoding_pool), n)
             b == [c EXCEPT !.decoding_pool = a.pool]
             d == Decoding(c, h, n)
  <1>1. Grown(h, c.decoding_pool, a)
    BY PoolAllocates DEF ConnMem
  <1>2. d.conn = b /\ d.heap = a.heap /\ d.at = a.at
    BY DEF Decoding, DecodingAt, DecodingPool
  <1> HIDE DEF a, d
  <1>3. /\ IsConn(b) /\ Kept(c, b)
        /\ b.decoding_pool = a.pool /\ b.frame_pool = c.frame_pool
        /\ b.state = c.state /\ b.inbound = c.inbound /\ b.buf = c.buf
        /\ b.target = c.target
    BY DEF IsConn, Kept, ConnFields
  <1> HIDE DEF b
  <1>4. /\ Grows(c, h, b, a.heap)
        /\ Fresh(c, h, a.at) /\ Handed(a.heap, b.decoding_pool, a.at)
        /\ \A r \in Regions : Handed(h, c.frame_pool, r) =>
                                Handed(a.heap, b.frame_pool, r)
    BY <1>1, <1>3, DecodingPoolGrows
  <1> QED BY <1>2, <1>3, <1>4 DEF d

-----------------------------------------------------------------------------
\* amqp_handle_input.

InboundOf(c) == IF c.state = IDLE THEN {} ELSE {c.inbound}

\* The reader is idle without a buffer, or has one from the frame pool that a
\* frame of frame_max fits into.
ReaderShape(c, h) ==
    /\ c.state \in States
    /\ c.state = IDLE => c.inbound = NULL /\ c.buf = << >> /\ c.target = HEADER_SIZE
    /\ c.state # IDLE =>
         Handed(h, c.frame_pool, c.inbound) /\ c.inbound.len >= c.frame_max

\* Memory a call may use: the buffer it found, or memory it got itself.
Mine(c, h, d, g, m) ==
    Issued(d, g, m) /\ (m \in InboundOf(c) \/ Fresh(c, h, m))

\* Where a call stands that began on the connection c and the heap h.
From(c, h, r) ==
    /\ IsRead(r) /\ Grows(c, h, r.conn, r.heap) /\ ReaderShape(r.conn, r.heap)
    /\ \A m \in InboundOf(r.conn) \cup r.mem : Mine(c, h, r.conn, r.heap, m)
    /\ \A m, n \in r.mem : m # n => ~Overlap(m, n)
    /\ r.frame # NoFrame => r.conn.state = IDLE
    /\ r.more => r.mem = {} /\ r.frame = NoFrame

\* A call that stops reading returns what it has.
LEMMA StopKeeps ==
  ASSUME NEW c, NEW h, NEW r, From(c, h, r)
  PROVE  From(c, h, [r EXCEPT !.more = FALSE])
  <1> DEFINE s == [r EXCEPT !.more = FALSE]
  <1>1. /\ IsRead(s) /\ s.conn = r.conn /\ s.heap = r.heap /\ s.mem = r.mem
        /\ s.frame = r.frame /\ s.more = FALSE
    BY DEF From, IsRead, ReadFields
  <1> HIDE DEF s
  <1> QED BY <1>1 DEF From, s

\* CHECK_LIMIT and the checks of a frame return an error and change nothing.
LEMMA ErrorKeeps ==
  ASSUME NEW c, NEW h, NEW r, NEW e, From(c, h, r)
  PROVE  From(c, h, Error(r, e))
  <1> DEFINE s == Error(r, e)
  <1>1. /\ IsRead(s) /\ s.conn = r.conn /\ s.heap = r.heap /\ s.mem = r.mem
        /\ s.frame = r.frame /\ s.more = FALSE
    BY DEF From, IsRead, ReadFields, Error
  <1> HIDE DEF s
  <1> QED BY <1>1 DEF From, s

\* A call begins with the buffer it finds.
LEMMA BeginFrom ==
  ASSUME NEW c, NEW h, IsConn(c), ConnMem(c, h), ReaderShape(c, h)
  PROVE  From(c, h, Begin(c, h))
  <1> DEFINE s == Begin(c, h)
  <1>1. /\ IsRead(s) /\ s.conn = c /\ s.heap = h /\ s.mem = {}
        /\ s.frame = NoFrame
    BY DEF IsRead, ReadFields, Begin
  <1> HIDE DEF s
  <1>2. Grows(c, h, c, h)
    BY DEF Grows, Kept
  <1>3. \A m \in InboundOf(c) : Mine(c, h, c, h, m)
    BY DEF Mine, InboundOf, ReaderShape, Issued
  <1> QED BY <1>1, <1>2, <1>3 DEF From, s

\* An idle reader gets a buffer of frame_max bytes.
LEMMA BufferedKeeps ==
  ASSUME NEW c, NEW h, NEW r, From(c, h, r), r.more, c.frame_max \in Nat \ {0}
  PROVE  From(c, h, Buffered(r)) /\ Buffered(r).conn.state # IDLE
  <1>1. CASE r.conn.state # IDLE
    BY <1>1 DEF Buffered
  <1>2. CASE r.conn.state = IDLE
    <2> DEFINE b == r.conn
               a == amqp_pool_alloc(Mem(r.heap, b.frame_pool), b.frame_max)
               s == BufferAt(r, a)
               d == s.conn
    <2>1. /\ IsConn(b) /\ ConnMem(b, r.heap) /\ IsRead(r) /\ r.mem = {}
          /\ r.frame = NoFrame /\ b.frame_max \in Nat \ {0}
          /\ Grows(c, h, b, r.heap)
      BY DEF From, Grows, Kept
    <2>2. Buffered(r) = s
      BY <1>2 DEF Buffered, FramePool
    <2>3. Grown(r.heap, b.frame_pool, a) /\ a.at.len >= b.frame_max
      BY <2>1, PoolAllocates DEF ConnMem
    <2> HIDE DEF a
    <2>4. /\ IsRead(s) /\ s.heap = a.heap /\ s.mem = r.mem /\ s.frame = r.frame
          /\ s.more = r.more
      BY <2>1 DEF IsRead, ReadFields, BufferAt
    <2>5. /\ IsConn(d) /\ Kept(b, d) /\ d.frame_pool = a.pool
          /\ d.decoding_pool = b.decoding_pool /\ d.state = WAIT_HEADER
          /\ d.inbound = a.at /\ d.frame_max = b.frame_max
      BY ZenonT(60), <2>1 DEF IsRead, ReadFields, IsConn, ConnFields, BufferAt, Kept
    <2> HIDE DEF s, d, b
    <2>6. /\ Grows(b, r.heap, d, a.heap)
          /\ Fresh(b, r.heap, a.at) /\ Handed(a.heap, d.frame_pool, a.at)
      BY <2>1, <2>3, <2>5, FramePoolGrows
    <2>7. a.at \in Regions
      BY <2>6 DEF Handed
    <2>8. Grows(c, h, d, a.heap) /\ Fresh(c, h, a.at)
      BY <2>1, <2>6, <2>7, GrowsTwice
    <2>9. WAIT_HEADER # IDLE /\ WAIT_HEADER \in States
      BY DEF WAIT_HEADER, IDLE, States
    <2>10. InboundOf(d) = {a.at} /\ Mine(c, h, d, a.heap, a.at)
      BY <2>5, <2>6, <2>8, <2>9 DEF InboundOf, Mine, Issued
    <2>11. ReaderShape(d, a.heap)
      BY <2>3, <2>5, <2>6, <2>9 DEF ReaderShape
    <2>12. From(c, h, s)
      BY <2>1, <2>4, <2>8, <2>10, <2>11 DEF From, d
    <2> QED BY <2>2, <2>5, <2>9, <2>12 DEF d
  <1> QED BY <1>1, <1>2

\* What is left of the claim that a step of the reader keeps From, when it only
\* moves bytes and changes what the reader waits for.
LEMMA MoveKeeps ==
  ASSUME NEW c, NEW h, NEW r, From(c, h, r), r.more, NEW s, IsRead(s),
         IsConn(s.conn), Kept(r.conn, s.conn), s.heap = r.heap, s.mem = r.mem,
         s.frame = r.frame, s.conn.frame_pool = r.conn.frame_pool,
         s.conn.decoding_pool = r.conn.decoding_pool,
         s.conn.inbound = r.conn.inbound, r.conn.state # IDLE,
         s.conn.state \in States \ {IDLE}
  PROVE  From(c, h, s)
  <1> DEFINE d == s.conn
             b == r.conn
  <1>1. ConnMem(d, s.heap)
    BY DEF From, Grows, ConnMem, Kept, Fixed
  <1>2. \A m : Issued(d, s.heap, m) <=> Issued(b, r.heap, m)
    BY DEF Issued
  <1>3. Grows(c, h, d, s.heap)
    BY <1>1, <1>2 DEF From, Grows, Kept
  <1>4. ReaderShape(d, s.heap)
    BY DEF From, ReaderShape, Kept
  <1>5. InboundOf(d) = InboundOf(b)
    BY DEF InboundOf
  <1> QED BY <1>2, <1>3, <1>4, <1>5 DEF From, Mine

\* Bytes go into the buffer.
LEMMA CopiedKeeps ==
  ASSUME NEW c, NEW h, NEW r, From(c, h, r), r.more, r.conn.state # IDLE, NEW n
  PROVE  /\ From(c, h, Copied(r, n)) /\ Copied(r, n).more
         /\ Copied(r, n).conn.state = r.conn.state
  <1> DEFINE s == Copied(r, n)
  <1>1. IsRead(r) /\ IsConn(r.conn) /\ r.conn.state \in States
    BY DEF From, Grows, ReaderShape
  <1>2. /\ IsRead(s) /\ s.heap = r.heap /\ s.mem = r.mem /\ s.frame = r.frame
        /\ s.more = r.more
    BY <1>1 DEF Copied, IsRead, ReadFields
  <1>3. /\ IsConn(s.conn) /\ Kept(r.conn, s.conn)
        /\ s.conn.frame_pool = r.conn.frame_pool
        /\ s.conn.decoding_pool = r.conn.decoding_pool
        /\ s.conn.inbound = r.conn.inbound /\ s.conn.state = r.conn.state
    BY <1>1 DEF Copied, IsRead, ReadFields, IsConn, ConnFields, Kept
  <1> HIDE DEF s
  <1>4. From(c, h, s)
    BY <1>1, <1>2, <1>3, MoveKeeps
  <1> QED BY <1>2, <1>3, <1>4 DEF s

\* A header announces a body or the rest of a protocol header.
LEMMA HeaderSeenKeeps ==
  ASSUME NEW c, NEW h, NEW r, From(c, h, r), r.more, r.conn.state # IDLE
  PROVE  From(c, h, HeaderSeen(r))
  <1> DEFINE t == [r EXCEPT !.conn.target = 8, !.conn.state = WAIT_PROTOCOL]
             u(n) == [r EXCEPT !.conn.target = n, !.conn.state = WAIT_BODY]
  <1>1. IsRead(r) /\ IsConn(r.conn)
    BY DEF From, Grows
  <1>2. {WAIT_PROTOCOL, WAIT_BODY} \subseteq States \ {IDLE}
    BY DEF States, WAIT_PROTOCOL, WAIT_BODY, IDLE
  <1>3. From(c, h, t)
    <2>1. /\ IsRead(t) /\ t.heap = r.heap /\ t.mem = r.mem /\ t.frame = r.frame
      BY <1>1 DEF IsRead, ReadFields
    <2>2. /\ IsConn(t.conn) /\ Kept(r.conn, t.conn)
          /\ t.conn.frame_pool = r.conn.frame_pool
          /\ t.conn.decoding_pool = r.conn.decoding_pool
          /\ t.conn.inbound = r.conn.inbound /\ t.conn.state = WAIT_PROTOCOL
      BY <1>1 DEF IsRead, ReadFields, IsConn, ConnFields, Kept
    <2> HIDE DEF t
    <2> QED BY <1>2, <2>1, <2>2, MoveKeeps
  <1>4. ASSUME NEW n PROVE From(c, h, u(n))
    <2> DEFINE s == u(n)
    <2>1. /\ IsRead(s) /\ s.heap = r.heap /\ s.mem = r.mem /\ s.frame = r.frame
      BY <1>1 DEF IsRead, ReadFields
    <2>2. /\ IsConn(s.conn) /\ Kept(r.conn, s.conn)
          /\ s.conn.frame_pool = r.conn.frame_pool
          /\ s.conn.decoding_pool = r.conn.decoding_pool
          /\ s.conn.inbound = r.conn.inbound /\ s.conn.state = WAIT_BODY
      BY <1>1 DEF IsRead, ReadFields, IsConn, ConnFields, Kept
    <2> HIDE DEF s
    <2>3. From(c, h, s)
      BY <1>2, <2>1, <2>2, MoveKeeps
    <2> QED BY <2>3 DEF s
  <1>5. HeaderSeen(r) = t \/ \E n : HeaderSeen(r) = u(n)
    BY DEF HeaderSeen
  <1> QED BY <1>3, <1>4, <1>5

\* The connection forgets its buffer; heap and pools stay.
LEMMA IdleFacts ==
  ASSUME NEW c, NEW h, IsConn(c), ConnMem(c, h)
  PROVE  /\ IsConn(Idle(c)) /\ ConnMem(Idle(c), h) /\ Kept(c, Idle(c))
         /\ Idle(c).frame_pool = c.frame_pool
         /\ Idle(c).decoding_pool = c.decoding_pool
         /\ \A m : Issued(Idle(c), h, m) <=> Issued(c, h, m)
         /\ Idle(c).state = IDLE /\ InboundOf(Idle(c)) = {}
         /\ ReaderShape(Idle(c), h)
  <1> DEFINE d == Idle(c)
  <1>1. /\ IsConn(d) /\ Kept(c, d)
        /\ d.frame_pool = c.frame_pool /\ d.decoding_pool = c.decoding_pool
        /\ d.state = IDLE /\ d.inbound = NULL /\ d.buf = << >>
        /\ d.target = HEADER_SIZE
    BY DEF Idle, IsConn, ConnFields, Kept
  <1> HIDE DEF d
  <1>2. ConnMem(d, h)
    BY <1>1 DEF ConnMem, Kept, Fixed
  <1>3. ReaderShape(d, h)
    BY <1>1 DEF ReaderShape, States
  <1> QED BY <1>1, <1>2, <1>3 DEF Issued, InboundOf, d

\* A complete frame lies in the buffer and in what was decoded from it.
LEMMA ReturnKeeps ==
  ASSUME NEW c, NEW h, NEW r, From(c, h, r), r.conn.state # IDLE, NEW f, NEW mem,
         \A m \in mem : Mine(c, h, r.conn, r.heap, m),
         \A m \in mem : m # r.conn.inbound =>
                          ~Overlap(m, r.conn.inbound) /\ ~Overlap(r.conn.inbound, m),
         \A m, n \in mem : m # n => ~Overlap(m, n)
  PROVE  From(c, h, return_to_idle(r, f, mem))
  <1> DEFINE b == r.conn
             d == Idle(b)
             s == return_to_idle(r, f, mem)
             M == mem \cup {b.inbound}
  <1>1. /\ IsRead(r) /\ IsConn(b) /\ ConnMem(b, r.heap) /\ Grows(c, h, b, r.heap)
        /\ Mine(c, h, b, r.heap, b.inbound)
    BY DEF From, Grows, InboundOf
  <1>2. /\ IsRead(s) /\ s.conn = d /\ s.heap = r.heap /\ s.mem = M
        /\ s.more = FALSE
    BY <1>1 DEF return_to_idle, IsRead, ReadFields
  <1>3. /\ IsConn(d) /\ ConnMem(d, r.heap) /\ Kept(b, d)
        /\ \A m : Issued(d, r.heap, m) <=> Issued(b, r.heap, m)
        /\ d.state = IDLE /\ InboundOf(d) = {} /\ ReaderShape(d, r.heap)
    BY <1>1, IdleFacts
  <1> HIDE DEF s, d
  <1>4. Grows(c, h, d, r.heap)
    BY <1>1, <1>3 DEF Grows, Kept
  <1>5. \A m \in M : Mine(c, h, d, r.heap, m)
    BY <1>1, <1>3 DEF Mine
  <1>6. \A m, n \in M : m # n => ~Overlap(m, n)
    OBVIOUS
  <1>7. From(c, h, s)
    BY <1>2, <1>3, <1>4, <1>5, <1>6 DEF From
  <1> QED BY <1>7 DEF s

\* A method or a header is decoded into a struct of its own.
LEMMA DecodedKeeps ==
  ASSUME NEW c, NEW h, NEW r, From(c, h, r), r.more, r.conn.state # IDLE, NEW f,
         NEW n \in Nat \ {0}
  PROVE  From(c, h, Decoded(r, f, Decoding(r.conn, r.heap, n)))
  <1> DEFINE b == r.conn
             d == Decoding(b, r.heap, n)
             s == [r EXCEPT !.conn = d.conn, !.heap = d.heap]
             i == b.inbound
  <1>1. /\ IsRead(r) /\ IsConn(b) /\ ConnMem(b, r.heap) /\ Grows(c, h, b, r.heap)
        /\ ReaderShape(b, r.heap) /\ r.mem = {} /\ r.frame = NoFrame
        /\ Mine(c, h, b, r.heap, i)
    BY DEF From, Grows, InboundOf
  <1>2. /\ Grows(b, r.heap, d.conn, d.heap)
        /\ Fresh(b, r.heap, d.at) /\ Handed(d.heap, d.conn.decoding_pool, d.at)
        /\ d.conn.state = b.state /\ d.conn.inbound = i
        /\ \A m \in Regions : Handed(r.heap, b.frame_pool, m) =>
                                Handed(d.heap, d.conn.frame_pool, m)
    BY <1>1, DecodingFacts
  <1> HIDE DEF d
  <1>3. /\ IsRead(s) /\ s.conn = d.conn /\ s.heap = d.heap /\ s.mem = r.mem
        /\ s.frame = r.frame /\ s.more = r.more
    BY <1>1 DEF IsRead, ReadFields
  <1> HIDE DEF s
  <1>4. d.at \in Regions /\ i \in Regions /\ Issued(b, r.heap, i)
    BY <1>1, <1>2 DEF Handed, ReaderShape, Issued
  <1>5. Grows(c, h, d.conn, d.heap) /\ Fresh(c, h, d.at)
    BY <1>1, <1>2, <1>4, GrowsTwice
  <1>6. Mine(c, h, d.conn, d.heap, d.at)
    BY <1>2, <1>5 DEF Mine, Issued
  <1>7. Mine(c, h, d.conn, d.heap, i)
    BY <1>1, <1>2, <1>4 DEF Mine, Grows
  <1>8. InboundOf(d.conn) = {i}
    BY <1>2 DEF InboundOf
  <1>9. ReaderShape(d.conn, d.heap)
    BY <1>1, <1>2, <1>4 DEF ReaderShape, Grows, Kept
  <1>10. From(c, h, s)
    BY <1>1, <1>3, <1>5, <1>7, <1>8, <1>9 DEF From
  <1>11. ~Overlap(d.at, i) /\ ~Overlap(i, d.at)
    <2>1. ~Overlap(d.at, i)
      BY <1>2, <1>4 DEF Fresh
    <2> QED BY <1>4, <2>1 DEF Overlap
  <1>12. /\ s.conn.state # IDLE
         /\ \A m \in {d.at} : Mine(c, h, s.conn, s.heap, m)
         /\ \A m \in {d.at} : m # s.conn.inbound =>
                ~Overlap(m, s.conn.inbound) /\ ~Overlap(s.conn.inbound, m)
         /\ \A m, k \in {d.at} : m # k => ~Overlap(m, k)
    BY <1>2, <1>3, <1>6, <1>11
  <1>13. From(c, h, return_to_idle(s, f, {d.at}))
    BY <1>10, <1>12, ReturnKeeps
  <1> QED BY <1>13 DEF Decoded, s, d

\* A frame without a struct.
LEMMA PlainKeeps ==
  ASSUME NEW c, NEW h, NEW r, From(c, h, r), r.conn.state # IDLE, NEW f
  PROVE  From(c, h, return_to_idle(r, f, {}))
  BY ReturnKeeps

\* A frame that is complete, whatever its type and contents.
LEMMA FrameReadKeeps ==
  ASSUME NEW c, NEW h, NEW r, From(c, h, r), r.more, r.conn.state # IDLE
  PROVE  From(c, h, FrameRead(r))
  <1>1. SizeOfStruct \in Nat \ {0}
    BY DEF SizeOfStruct
  <1>2. \A e : From(c, h, Error(r, e))
    BY ErrorKeeps
  <1>3. \A f : From(c, h, Decoded(r, f, Decoding(r.conn, r.heap, SizeOfStruct)))
    BY <1>1, DecodedKeeps
  <1>4. \A f : From(c, h, return_to_idle(r, f, {}))
    BY PlainKeeps
  <1>5. \/ \E e : FrameRead(r) = Error(r, e)
        \/ \E f : FrameRead(r) = Decoded(r, f, Decoding(r.conn, r.heap, SizeOfStruct))
        \/ \E f : FrameRead(r) = return_to_idle(r, f, {})
    BY DEF FrameRead
  <1> QED BY <1>2, <1>3, <1>4, <1>5

\* Whatever the reader waits for.
LEMMA SwitchKeeps ==
  ASSUME NEW c, NEW h, NEW r, From(c, h, r), r.more, r.conn.state # IDLE
  PROVE  From(c, h, Switch(r))
  <1>1. r.conn.state \in {WAIT_HEADER, WAIT_BODY, WAIT_PROTOCOL}
    BY DEF From, ReaderShape, States
  <1>2. From(c, h, ProtocolRead(r))
    BY PlainKeeps DEF ProtocolRead
  <1>3. From(c, h, HeaderSeen(r)) /\ From(c, h, FrameRead(r))
    BY HeaderSeenKeeps, FrameReadKeeps
  <1>4. Switch(r) \in {HeaderSeen(r), FrameRead(r), ProtocolRead(r)}
    BY <1>1 DEF Switch, WAIT_HEADER, WAIT_BODY, WAIT_PROTOCOL
  <1> QED BY <1>2, <1>3, <1>4

\* One trip from read_more.
LEMMA TripKeeps ==
  ASSUME NEW c, NEW h, NEW r, From(c, h, r), r.more, c.frame_max \in Nat \ {0}
  PROVE  From(c, h, Trip(r))
  <1> DEFINE b == Buffered(r)
  <1>1. From(c, h, b) /\ b.conn.state # IDLE /\ b.more
    <2>1. b.more
      <3>1. CASE r.conn.state # IDLE
        BY <3>1 DEF Buffered
      <3>2. CASE r.conn.state = IDLE
        BY <3>2 DEF Buffered, BufferAt, From, IsRead, ReadFields
      <3> QED BY <3>1, <3>2
    <2> QED BY <2>1, BufferedKeeps
  <1> HIDE DEF b
  <1>2. From(c, h, Fill(b))
    <2>1. \A n : /\ From(c, h, Copied(b, n)) /\ Copied(b, n).more
                 /\ Copied(b, n).conn.state # IDLE
      BY <1>1, CopiedKeeps
    <2>2. \A n : From(c, h, Switch(Copied(b, n)))
      BY <2>1, SwitchKeeps
    <2>3. \A n : From(c, h, [Copied(b, n) EXCEPT !.more = FALSE])
      BY <2>1, StopKeeps
    <2>4. \A e : From(c, h, Error(b, e))
      BY <1>1, ErrorKeeps
    <2>5. \/ \E e : Fill(b) = Error(b, e)
          \/ \E n : Fill(b) = [Copied(b, n) EXCEPT !.more = FALSE]
          \/ \E n : Fill(b) = Switch(Copied(b, n))
      BY DEF Fill
    <2> QED BY <2>2, <2>3, <2>4, <2>5
  <1>3. From(c, h, [r EXCEPT !.more = FALSE])
    BY StopKeeps
  <1>4. Trip(r) \in {Fill(b), [r EXCEPT !.more = FALSE]}
    BY DEF Trip, b
  <1> QED BY <1>2, <1>3, <1>4

\* amqp_handle_input uses the buffer it found and memory nobody else uses, on
\* every path and for every input.
THEOREM HandleInputFrom ==
  ASSUME NEW c, NEW h, IsConn(c), ConnMem(c, h), ReaderShape(c, h),
         c.frame_max \in Nat \ {0}
  PROVE  From(c, h, amqp_handle_input(c, h))
  <1> DEFINE b == Begin(c, h)
             t == Trip(b)
  <1>1. From(c, h, b) /\ b.more
    BY BeginFrom DEF Begin
  <1> HIDE DEF b
  <1>2. From(c, h, t)
    BY <1>1, TripKeeps
  <1> HIDE DEF t
  <1>3. From(c, h, ReadMore(t))
    BY <1>2, TripKeeps DEF ReadMore
  <1> QED BY <1>3 DEF amqp_handle_input, t, b

-----------------------------------------------------------------------------
\* Releasing, tuning, making and destroying.

\* The reader stands where it stood.
SameReader(c, d) ==
    /\ d.state = c.state /\ d.inbound = c.inbound /\ d.buf = c.buf
    /\ d.target = c.target

\* One pool of two is recycled.
LEMMA RecycleFrames ==
  ASSUME NEW c, NEW h, IsConn(c), ConnMem(c, h)
  PROVE  LET f == WithFramePool(c, recycle_amqp_pool(FramePool(c, h)))
         IN  /\ IsConn(f.conn) /\ ConnMem(f.conn, f.heap)
             /\ Kept(c, f.conn) /\ SameReader(c, f.conn)
  <1> DEFINE m == recycle_amqp_pool(Mem(h, c.frame_pool))
             d == [c EXCEPT !.frame_pool = m.pool]
             f == WithFramePool(c, recycle_amqp_pool(FramePool(c, h)))
             F == Owned(c.frame_pool)
             D == Owned(c.decoding_pool)
             L == Blocks(c.frame_pool.large_blocks)
  <1>1. f.conn = d /\ f.heap = m.heap
    BY DEF WithFramePool, FramePool
  <1>2. /\ HeapOK(m.heap) /\ PoolOK(m.heap, m.pool)
        /\ Owned(m.pool) = Blocks(c.frame_pool.pages)
        /\ DOMAIN m.heap = DOMAIN h \ L
        /\ \A x \in DOMAIN m.heap : m.heap[x] = h[x]
    BY RecycleFacts DEF ConnMem
  <1> HIDE DEF m, f
  <1>3. /\ IsConn(d) /\ Kept(c, d) /\ SameReader(c, d)
        /\ d.frame_pool = m.pool /\ d.decoding_pool = c.decoding_pool
    BY DEF IsConn, ConnFields, Kept, SameReader
  <1> HIDE DEF d
  <1>4. /\ PoolOK(h, c.decoding_pool) /\ F \cap D = {}
        /\ Fixed(c) \cap (F \cup D) = {} /\ DOMAIN h = F \cup D \cup Fixed(c)
        /\ F = Blocks(c.frame_pool.pages) \cup L
        /\ Blocks(c.frame_pool.pages) \cap L = {}
    BY DEF ConnMem, PoolOK, Owned
  <1>5. Fixed(d) = Fixed(c)
    BY <1>3 DEF Kept, Fixed
  <1>6. D \subseteq DOMAIN m.heap /\ \A x \in D : m.heap[x] = h[x]
    BY <1>2, <1>4
  <1>7. PoolOK(m.heap, c.decoding_pool)
    BY <1>4, <1>6, PoolUndisturbed
  <1>8. ConnMem(d, m.heap)
    BY <1>2, <1>3, <1>4, <1>5, <1>7 DEF ConnMem
  <1> QED BY <1>1, <1>3, <1>8 DEF f

\* And the other one.
LEMMA RecycleDecoded ==
  ASSUME NEW c, NEW h, IsConn(c), ConnMem(c, h)
  PROVE  LET f == WithDecodingPool(c, recycle_amqp_pool(DecodingPool(c, h)))
         IN  /\ IsConn(f.conn) /\ ConnMem(f.conn, f.heap)
             /\ Kept(c, f.conn) /\ SameReader(c, f.conn)
  <1> DEFINE m == recycle_amqp_pool(Mem(h, c.decoding_pool))
             d == [c EXCEPT !.decoding_pool = m.pool]
             f == WithDecodingPool(c, recycle_amqp_pool(DecodingPool(c, h)))
             F == Owned(c.frame_pool)
             D == Owned(c.decoding_pool)
             L == Blocks(c.decoding_pool.large_blocks)
  <1>1. f.conn = d /\ f.heap = m.heap
    BY DEF WithDecodingPool, DecodingPool
  <1>2. /\ HeapOK(m.heap) /\ PoolOK(m.heap, m.pool)
        /\ Owned(m.pool) = Blocks(c.decoding_pool.pages)
        /\ DOMAIN m.heap = DOMAIN h \ L
        /\ \A x \in DOMAIN m.heap : m.heap[x] = h[x]
    BY RecycleFacts DEF ConnMem
  <1> HIDE DEF m, f
  <1>3. /\ IsConn(d) /\ Kept(c, d) /\ SameReader(c, d)
        /\ d.decoding_pool = m.pool /\ d.frame_pool = c.frame_pool
    BY DEF IsConn, ConnFields, Kept, SameReader
  <1> HIDE DEF d
  <1>4. /\ PoolOK(h, c.frame_pool) /\ F \cap D = {}
        /\ Fixed(c) \cap (F \cup D) = {} /\ DOMAIN h = F \cup D \cup Fixed(c)
        /\ D = Blocks(c.decoding_pool.pages) \cup L
        /\ Blocks(c.decoding_pool.pages) \cap L = {}
    BY DEF ConnMem, PoolOK, Owned
  <1>5. Fixed(d) = Fixed(c)
    BY <1>3 DEF Kept, Fixed
  <1>6. F \subseteq DOMAIN m.heap /\ \A x \in F : m.heap[x] = h[x]
    BY <1>2, <1>4
  <1>7. PoolOK(m.heap, c.frame_pool)
    BY <1>4, <1>6, PoolUndisturbed
  <1>8. ConnMem(d, m.heap)
    BY <1>2, <1>3, <1>4, <1>5, <1>7 DEF ConnMem
  <1> QED BY <1>1, <1>3, <1>8 DEF f

\* amqp_release_buffers.
LEMMA RecycledFacts ==
  ASSUME NEW c, NEW h, IsConn(c), ConnMem(c, h)
  PROVE  /\ IsConn(Recycled(c, h).conn)
         /\ ConnMem(Recycled(c, h).conn, Recycled(c, h).heap)
         /\ Kept(c, Recycled(c, h).conn) /\ SameReader(c, Recycled(c, h).conn)
  <1> DEFINE f == WithFramePool(c, recycle_amqp_pool(FramePool(c, h)))
             d == WithDecodingPool(f.conn, recycle_amqp_pool(DecodingPool(f.conn, f.heap)))
  <1>1. /\ IsConn(f.conn) /\ ConnMem(f.conn, f.heap)
        /\ Kept(c, f.conn) /\ SameReader(c, f.conn)
    BY RecycleFrames
  <1>2. Recycled(c, h) = d
    BY DEF Recycled
  <1> HIDE DEF f
  <1>3. /\ IsConn(d.conn) /\ ConnMem(d.conn, d.heap)
        /\ Kept(f.conn, d.conn) /\ SameReader(f.conn, d.conn)
    BY <1>1, RecycleDecoded
  <1> HIDE DEF d
  <1> QED BY <1>1, <1>2, <1>3 DEF Kept, SameReader

\* amqp_tune_connection on an idle reader.
LEMMA TuneFacts ==
  ASSUME NEW c, NEW h, IsConn(c), ConnMem(c, h), NEW n \in Nat \ {0},
         c.outbound # 0
  PROVE  LET t == amqp_tune_connection(c, h, n)
         IN  /\ IsConn(t.conn) /\ ConnMem(t.conn, t.heap) /\ SameReader(c, t.conn)
             /\ t.conn.frame_max = n /\ t.conn.queue = c.queue
             /\ t.conn.sock = c.sock /\ t.conn.outbound = c.outbound
             /\ t.conn.sock_inbound = c.sock_inbound
             /\ t.conn.sockfd = c.sockfd /\ t.conn.ssl = c.ssl
  <1> DEFINE e == empty_amqp_pool(Mem(h, c.frame_pool)).heap
             p == init_amqp_pool(n)
             d == [c EXCEPT !.frame_max = n, !.frame_pool = p]
             g == [e EXCEPT ![c.outbound] = n]
             t == amqp_tune_connection(c, h, n)
             F == Owned(c.frame_pool)
             D == Owned(c.decoding_pool)
  <1>1. t.conn = d /\ t.heap = g
    BY DEF amqp_tune_connection, FramePool
  <1>2. /\ HeapOK(e) /\ DOMAIN e = DOMAIN h \ F /\ \A x \in DOMAIN e : e[x] = h[x]
    BY EmptyFacts DEF ConnMem
  <1>3. PoolOK(g, p) /\ Owned(p) = {}
    BY InitPoolFacts
  <1> HIDE DEF t, e, p
  <1>4. /\ IsConn(d) /\ SameReader(c, d)
        /\ d.frame_pool = p /\ d.decoding_pool = c.decoding_pool
        /\ d.frame_max = n /\ d.queue = c.queue /\ d.sock = c.sock
        /\ d.outbound = c.outbound /\ d.sock_inbound = c.sock_inbound
        /\ d.sockfd = c.sockfd /\ d.ssl = c.ssl
    BY DEF IsConn, ConnFields, SameReader
  <1> HIDE DEF d
  <1>5. /\ PoolOK(h, c.decoding_pool) /\ F \cap D = {}
        /\ Fixed(c) \cap (F \cup D) = {} /\ DOMAIN h = F \cup D \cup Fixed(c)
        /\ c.outbound \in Fixed(c)
    BY DEF ConnMem, Fixed
  <1>6. Fixed(d) = Fixed(c)
    BY <1>4 DEF Fixed
  <1>7. HeapOK(g) /\ DOMAIN g = DOMAIN e
    BY <1>2 DEF HeapOK
  <1>8. D \subseteq DOMAIN g /\ \A x \in D : g[x] = h[x]
    BY <1>2, <1>5, <1>7
  <1>9. PoolOK(g, c.decoding_pool)
    BY <1>5, <1>8, PoolUndisturbed
  <1>10. ConnMem(d, g)
    BY <1>2, <1>3, <1>4, <1>5, <1>6, <1>7, <1>9 DEF ConnMem
  <1> QED BY <1>1, <1>4, <1>10 DEF t

\* amqp_new_connection.
LEMMA NewFacts ==
  LET n == amqp_new_connection
  IN  /\ IsConn(n.conn) /\ ConnMem(n.conn, n.heap) /\ ReaderShape(n.conn, n.heap)
      /\ n.conn.state = IDLE /\ n.conn.queue = << >> /\ n.conn.sockfd = 0
      /\ n.conn.ssl = FALSE /\ n.conn.outbound = 1 /\ n.conn.sock_inbound = 2
      /\ n.conn.frame_max \in Nat \ {0} /\ n.conn.sock = << >>
  <1> DEFINE n == amqp_new_connection
             d == n.conn
             h1 == Calloc(<< >>, 1, FirstFrameMax)
             h2 == Calloc(h1, 2, DecodingPage)
  <1>1. FirstFrameMax \in Nat \ {0} /\ DecodingPage \in Nat \ {0}
    BY SMT, ConnAssumption DEF Sizes, Number, MinFrame
  <1>2. /\ n.heap = h2 /\ IsConn(d)
        /\ d.state = IDLE /\ d.queue = << >> /\ d.sockfd = 0 /\ d.ssl = FALSE
        /\ d.outbound = 1 /\ d.sock_inbound = 2 /\ d.frame_max = FirstFrameMax
        /\ d.inbound = NULL /\ d.buf = << >> /\ d.target = HEADER_SIZE
        /\ d.sock = << >>
        /\ d.frame_pool = init_amqp_pool(FirstFrameMax)
        /\ d.decoding_pool = init_amqp_pool(DecodingPage)
    BY DEF amqp_new_connection, NoConn, IsConn, ConnFields
  <1> HIDE DEF n
  <1>3. HeapOK(<< >>) /\ DOMAIN << >> = {}
    BY FS_EmptySet DEF HeapOK
  <1>4. HeapOK(h1) /\ DOMAIN h1 = {1}
    <2> DEFINE h0 == << >>
               one == 1
    <2>1. one \in BlockIds \ DOMAIN h0 /\ FirstFrameMax \in Nat /\ HeapOK(h0)
      BY <1>1, <1>3 DEF BlockIds
    <2>2. DOMAIN h0 = {}
      BY <1>3
    <2> HIDE DEF h0, one
    <2>3. /\ HeapOK(Calloc(h0, one, FirstFrameMax))
          /\ DOMAIN Calloc(h0, one, FirstFrameMax) = DOMAIN h0 \cup {one}
      BY <2>1, CallocFacts
    <2> QED BY <2>2, <2>3 DEF h0, one
  <1> HIDE DEF h1
  <1>5. HeapOK(h2) /\ DOMAIN h2 = {1, 2}
    <2> DEFINE two == 2
    <2>1. two \in BlockIds \ DOMAIN h1 /\ DecodingPage \in Nat /\ HeapOK(h1)
      BY <1>1, <1>4 DEF BlockIds
    <2> HIDE DEF two
    <2>2. /\ HeapOK(Calloc(h1, two, DecodingPage))
          /\ DOMAIN Calloc(h1, two, DecodingPage) = DOMAIN h1 \cup {two}
      BY <2>1, CallocFacts
    <2> QED BY <1>4, <2>2 DEF two
  <1> HIDE DEF h2
  <1>6. /\ PoolOK(h2, d.frame_pool) /\ Owned(d.frame_pool) = {}
        /\ PoolOK(h2, d.decoding_pool) /\ Owned(d.decoding_pool) = {}
    BY ZenonT(60), <1>1, <1>2, InitPoolFacts
  <1>7. Fixed(d) = {1, 2}
    BY <1>2 DEF Fixed
  <1>8. ConnMem(d, h2)
    BY <1>5, <1>6, <1>7 DEF ConnMem
  <1>9. ReaderShape(d, h2)
    BY <1>2 DEF ReaderShape, States
  <1> QED BY <1>1, <1>2, <1>8, <1>9 DEF n

\* amqp_destroy_connection frees every block.
LEMMA DestroyFacts ==
  ASSUME NEW c, NEW h, IsConn(c), ConnMem(c, h)
  PROVE  amqp_destroy_connection(c, h) = << >>
  <1> DEFINE e == empty_amqp_pool(DecodingPool(c, h)).heap
             f == empty_amqp_pool(FramePool(c, e)).heap
             F == Owned(c.frame_pool)
             D == Owned(c.decoding_pool)
  <1>1. /\ HeapOK(e) /\ DOMAIN e = DOMAIN h \ D /\ \A x \in DOMAIN e : e[x] = h[x]
    BY EmptyFacts DEF ConnMem, DecodingPool
  <1> HIDE DEF e
  <1>2. F \subseteq DOMAIN e /\ \A x \in F : e[x] = h[x]
    BY <1>1 DEF ConnMem
  <1>3. PoolOK(e, c.frame_pool)
    BY <1>2, PoolUndisturbed DEF ConnMem
  <1>4. HeapOK(f) /\ DOMAIN f = DOMAIN e \ F
    BY <1>1, <1>3, EmptyFacts DEF FramePool
  <1> HIDE DEF f
  <1>5. DOMAIN Free(f, {c.outbound, c.sock_inbound}) = {}
    BY <1>1, <1>4 DEF Free, ConnMem, Fixed
  <1>6. Free(f, {c.outbound, c.sock_inbound}) = << >>
    BY <1>5 DEF Free
  <1> QED BY <1>6 DEF amqp_destroy_connection, e, f

-----------------------------------------------------------------------------
\* Who uses the memory.

QueueMem(q) == UNION {q[i].mem : i \in 1..Len(q)}
IsQueue(q) == \E S : q \in Seq(S)

\* The memory of the frame being read, of the one just read (g), of those the
\* application holds (k) and of those put aside.
Claims(c, g, k) == InboundOf(c) \cup g \cup k \cup QueueMem(c.queue)

\* All of it has been handed out, no two pieces overlap, and no piece is claimed
\* twice.
ClaimsOK(c, h, g, k) ==
    /\ \A m \in Claims(c, g, k) : Issued(c, h, m)
    /\ \A m, n \in Claims(c, g, k) : m # n => ~Overlap(m, n)
    /\ InboundOf(c) \cap g = {} /\ InboundOf(c) \cap k = {} /\ g \cap k = {}
    /\ (InboundOf(c) \cup g \cup k) \cap QueueMem(c.queue) = {}
    /\ \A i, j \in 1..Len(c.queue) :
         i # j => c.queue[i].mem \cap c.queue[j].mem = {}

\* A region overlaps itself, and overlapping is symmetric.
LEMMA OverlapFacts ==
  /\ \A m \in Regions : Overlap(m, m)
  /\ \A m, n \in Regions : Overlap(m, n) => Overlap(n, m)
  BY DEF Overlap, Regions, BlockIds

\* Memory that was handed out is a region.
LEMMA IssuedRegion ==
  ASSUME NEW c, NEW h, NEW m, Issued(c, h, m)
  PROVE  m \in Regions
  BY DEF Issued, Handed

\* Allocating disturbs no claim.
LEMMA ClaimsGrow ==
  ASSUME NEW c, NEW h, NEW d, NEW e, NEW g, NEW k, ClaimsOK(c, h, g, k),
         Grows(c, h, d, e), InboundOf(d) = InboundOf(c)
  PROVE  ClaimsOK(d, e, g, k)
  <1>1. d.queue = c.queue /\ \A m \in Regions : Issued(c, h, m) => Issued(d, e, m)
    BY DEF Grows, Kept
  <1>2. Claims(d, g, k) = Claims(c, g, k)
    BY <1>1 DEF Claims
  <1>3. \A m \in Claims(c, g, k) : Issued(d, e, m)
    BY <1>1, IssuedRegion DEF ClaimsOK
  <1> QED BY <1>1, <1>2, <1>3 DEF ClaimsOK

\* What amqp_handle_input leaves: the frame it has read, if it tells of one, is
\* in memory that nobody else claims.
LEMMA ClaimsRead ==
  ASSUME NEW c, NEW h, NEW r, NEW k, ClaimsOK(c, h, {}, k), From(c, h, r)
  PROVE  ClaimsOK(r.conn, r.heap, IF r.frame = NoFrame THEN {} ELSE r.mem, k)
  <1> DEFINE d == r.conn
             g == IF r.frame = NoFrame THEN {} ELSE r.mem
             N == InboundOf(d) \cup g
             O == k \cup QueueMem(c.queue)
  <1>1. /\ d.queue = c.queue
        /\ \A m \in Regions : Issued(c, h, m) => Issued(d, r.heap, m)
        /\ \A m \in N : Mine(c, h, d, r.heap, m)
        /\ \A m, n \in r.mem : m # n => ~Overlap(m, n)
        /\ r.frame # NoFrame => InboundOf(d) = {}
        /\ \A m, n \in InboundOf(d) : m = n
    BY DEF From, Grows, Kept, InboundOf
  <1>2. Claims(d, g, k) = N \cup O /\ Claims(c, {}, k) = InboundOf(c) \cup O
    BY <1>1 DEF Claims
  <1>3. \A m, n \in N : m # n => ~Overlap(m, n)
    BY <1>1
  <1>4. /\ \A m \in InboundOf(c) \cup O : Issued(c, h, m)
        /\ \A m, n \in InboundOf(c) \cup O : m # n => ~Overlap(m, n)
        /\ InboundOf(c) \cap O = {} /\ k \cap QueueMem(c.queue) = {}
    BY <1>2 DEF ClaimsOK
  <1>5. \A m \in O : m \in Regions /\ Issued(d, r.heap, m)
    BY <1>1, <1>4, IssuedRegion
  <1>6. \A m \in N : m \in Regions /\ Issued(d, r.heap, m)
    BY <1>1, IssuedRegion DEF Mine
  <1> HIDE DEF N, O
  <1>7. ASSUME NEW m \in N, NEW n \in O
        PROVE  m # n /\ ~Overlap(m, n) /\ ~Overlap(n, m)
    <2>1. m \in Regions /\ n \in Regions /\ Issued(c, h, n)
      BY <1>4, <1>5, <1>6
    <2>2. CASE m \in InboundOf(c)
      BY <1>4, <2>1, <2>2, OverlapFacts
    <2>3. CASE Fresh(c, h, m)
      BY <2>1, <2>3, OverlapFacts DEF Fresh
    <2> QED BY <1>1, <2>2, <2>3 DEF Mine
  <1>8. \A m, n \in N \cup O : m # n => ~Overlap(m, n)
    BY <1>3, <1>4, <1>7
  <1>9. N \cap O = {}
    BY <1>7
  <1>10. /\ InboundOf(d) \cap g = {} /\ InboundOf(d) \cap k = {} /\ g \cap k = {}
         /\ (InboundOf(d) \cup g \cup k) \cap QueueMem(d.queue) = {}
    BY <1>1, <1>4, <1>9 DEF N, O
  <1>11. \A i, j \in 1..Len(d.queue) :
           i # j => d.queue[i].mem \cap d.queue[j].mem = {}
    BY <1>1 DEF ClaimsOK
  <1> QED BY <1>2, <1>5, <1>6, <1>8, <1>10, <1>11 DEF ClaimsOK

\* A frame just read becomes the application's, or is forgotten.
LEMMA ClaimsTaken ==
  ASSUME NEW c, NEW h, NEW g, NEW k, ClaimsOK(c, h, g, k)
  PROVE  ClaimsOK(c, h, {}, k \cup g) /\ ClaimsOK(c, h, {}, k)
  BY DEF ClaimsOK, Claims

\* No claim is left on an idle connection without a queue.
LEMMA NoClaims ==
  ASSUME NEW c, NEW h, c.state = IDLE, c.queue = << >>
  PROVE  ClaimsOK(c, h, {}, {})
  <1>1. QueueMem(c.queue) = {} /\ InboundOf(c) = {}
    BY DEF QueueMem, InboundOf
  <1> QED BY <1>1 DEF ClaimsOK, Claims

\* A frame just read is put aside, with two structs that are new.
LEMMA ClaimsQueued ==
  ASSUME NEW c, NEW h, NEW g, NEW k, ClaimsOK(c, h, g, k), IsQueue(c.queue),
         NEW d, NEW e, NEW x \in Regions, NEW y \in Regions,
         Grows(c, h, d, e), InboundOf(d) = InboundOf(c),
         Issued(d, e, x), Issued(d, e, y), Fresh(c, h, x), Fresh(c, h, y),
         ~Overlap(x, y), NEW q, NEW b, b.mem = g \cup {x, y},
         q.queue = Append(c.queue, b), InboundOf(q) = InboundOf(d),
         \A m : Issued(d, e, m) => Issued(q, e, m)
  PROVE  ClaimsOK(q, e, {}, k) /\ IsQueue(q.queue)
  <1> DEFINE C == Claims(c, g, k)
             l == Len(c.queue)
  <1>1. /\ \A m \in C : Issued(c, h, m) /\ m \in Regions
        /\ \A m, n \in C : m # n => ~Overlap(m, n)
    BY IssuedRegion DEF ClaimsOK
  <1>2. \A m \in C : Issued(q, e, m)
    BY <1>1 DEF Grows
  <1>3. \A m \in C : /\ ~Overlap(x, m) /\ ~Overlap(m, x) /\ m # x
                     /\ ~Overlap(y, m) /\ ~Overlap(m, y) /\ m # y
    BY <1>1, OverlapFacts DEF Fresh
  <1>4. ~Overlap(y, x)
    BY OverlapFacts
  <1>5. PICK S : c.queue \in Seq(S)
    BY DEF IsQueue
  <1>6. /\ l \in Nat /\ q.queue \in Seq(S \cup {b}) /\ Len(q.queue) = l + 1
        /\ q.queue[l + 1] = b /\ \A i \in 1..l : q.queue[i] = c.queue[i]
    BY <1>5
  <1>7. \A i \in 1..Len(q.queue) : i \in 1..l \/ i = l + 1
    BY <1>6
  <1>8. 1..l \subseteq 1..Len(q.queue) /\ l + 1 \in 1..Len(q.queue) /\ l + 1 \notin 1..l
    BY <1>6
  <1>9. QueueMem(q.queue) = QueueMem(c.queue) \cup g \cup {x, y}
    <2>1. \A i \in 1..l : q.queue[i].mem = c.queue[i].mem
      BY <1>6
    <2>2. q.queue[l + 1].mem = g \cup {x, y}
      BY <1>6
    <2> HIDE DEF l
    <2>3. \A m : m \in QueueMem(q.queue) <=>
                   \E i \in 1..Len(q.queue) : m \in q.queue[i].mem
      BY DEF QueueMem
    <2>4. \A m : m \in QueueMem(c.queue) <=> \E i \in 1..l : m \in c.queue[i].mem
      BY DEF QueueMem, l
    <2>5. \A m : m \in QueueMem(q.queue) <=>
                   m \in QueueMem(c.queue) \cup g \cup {x, y}
      BY <1>7, <1>8, <2>1, <2>2, <2>3, <2>4
    <2> QED BY <2>5
  <1>10. Claims(q, {}, k) = C \cup {x, y}
    BY <1>9 DEF Claims
  <1>11. \A m, n \in C \cup {x, y} : m # n => ~Overlap(m, n)
    BY <1>1, <1>3, <1>4
  <1>12. \A m \in C \cup {x, y} : Issued(q, e, m)
    BY <1>2
  <1>13. /\ InboundOf(q) \cap k = {}
         /\ (InboundOf(q) \cup k) \cap QueueMem(q.queue) = {}
    BY <1>3, <1>9 DEF ClaimsOK, Claims
  <1>14. ASSUME NEW i \in 1..l PROVE c.queue[i].mem \cap b.mem = {}
    <2>1. c.queue[i].mem \subseteq QueueMem(c.queue)
      BY DEF QueueMem
    <2>2. c.queue[i].mem \subseteq C /\ c.queue[i].mem \cap g = {}
      BY <2>1 DEF ClaimsOK, Claims
    <2> QED BY <1>3, <2>2
  <1>15. \A i, j \in 1..Len(q.queue) :
           i # j => q.queue[i].mem \cap q.queue[j].mem = {}
    <2> SUFFICES ASSUME NEW i \in 1..Len(q.queue), NEW j \in 1..Len(q.queue), i # j
                 PROVE  q.queue[i].mem \cap q.queue[j].mem = {}
      OBVIOUS
    <2>1. CASE i \in 1..l /\ j \in 1..l
      BY <1>6, <2>1 DEF ClaimsOK
    <2>2. CASE i \in 1..l /\ j = l + 1
      BY <1>6, <1>14, <2>2
    <2>3. CASE i = l + 1 /\ j \in 1..l
      BY <1>6, <1>14, <2>3
    <2> QED BY <1>7, <2>1, <2>2, <2>3
  <1>16. IsQueue(q.queue)
    BY <1>6 DEF IsQueue
  <1> QED BY <1>10, <1>11, <1>12, <1>13, <1>15, <1>16 DEF ClaimsOK

\* The oldest frame put aside becomes the application's.
LEMMA ClaimsDequeued ==
  ASSUME NEW c, NEW h, NEW k, ClaimsOK(c, h, {}, k), IsQueue(c.queue),
         c.queue # << >>, NEW d, d.queue = Tail(c.queue),
         InboundOf(d) = InboundOf(c), \A m : Issued(c, h, m) => Issued(d, h, m)
  PROVE  ClaimsOK(d, h, {}, k \cup Head(c.queue).mem) /\ IsQueue(d.queue)
  <1> DEFINE l == Len(c.queue)
             f == Head(c.queue)
  <1>1. PICK S : c.queue \in Seq(S)
    BY DEF IsQueue
  <1>2. /\ l \in Nat \ {0} /\ d.queue \in Seq(S) /\ Len(d.queue) = l - 1
        /\ f = c.queue[1]
        /\ \A i \in 1..Len(d.queue) : d.queue[i] = c.queue[i + 1]
    BY <1>1
  <1>3. /\ 1 \in 1..l
        /\ \A i \in 1..Len(d.queue) : i + 1 \in 1..l /\ i + 1 # 1
        /\ \A i \in 1..l : i = 1 \/ \E j \in 1..Len(d.queue) : i = j + 1
    <2>1. \A i \in 1..l : i = 1 \/ (i - 1 \in 1..Len(d.queue) /\ i = (i - 1) + 1)
      BY <1>2
    <2> QED BY <1>2, <2>1
  <1> HIDE DEF l, f
  <1>4. \A m : m \in QueueMem(c.queue) <=> \E i \in 1..l : m \in c.queue[i].mem
    BY DEF QueueMem, l
  <1>5. \A m : m \in QueueMem(d.queue) <=>
                 \E i \in 1..Len(d.queue) : m \in d.queue[i].mem
    BY DEF QueueMem
  <1>6. \A m : m \in QueueMem(c.queue) <=> m \in f.mem \/ m \in QueueMem(d.queue)
    <2>1. ASSUME NEW m, NEW i \in 1..l, m \in c.queue[i].mem
          PROVE  m \in f.mem \/ m \in QueueMem(d.queue)
      <3>1. CASE i = 1
        BY <1>2, <2>1, <3>1
      <3>2. ASSUME NEW j \in 1..Len(d.queue), i = j + 1
            PROVE  m \in QueueMem(d.queue)
        <4>1. d.queue[j] = c.queue[i]
          BY <1>2, <3>2
        <4> QED BY <1>5, <2>1, <4>1
      <3> QED BY <1>3, <3>1, <3>2
    <2>2. ASSUME NEW m, m \in f.mem PROVE m \in QueueMem(c.queue)
      BY <1>2, <1>3, <1>4, <2>2
    <2>3. ASSUME NEW m, NEW i \in 1..Len(d.queue), m \in d.queue[i].mem
          PROVE  m \in QueueMem(c.queue)
      <3>1. d.queue[i] = c.queue[i + 1] /\ i + 1 \in 1..l
        BY <1>2, <1>3
      <3> QED BY <1>4, <2>3, <3>1
    <2> QED BY <1>4, <1>5, <2>1, <2>2, <2>3
  <1>7. f.mem \cap QueueMem(d.queue) = {}
    <2>1. \A i \in 1..Len(d.queue) : f.mem \cap d.queue[i].mem = {}
      BY <1>2, <1>3 DEF ClaimsOK, l
    <2> QED BY <1>5, <2>1
  <1>8. Claims(d, {}, k \cup f.mem) = Claims(c, {}, k)
    BY <1>6 DEF Claims
  <1>9. \A i, j \in 1..Len(d.queue) :
          i # j => d.queue[i].mem \cap d.queue[j].mem = {}
    <2> SUFFICES ASSUME NEW i \in 1..Len(d.queue), NEW j \in 1..Len(d.queue), i # j
                 PROVE  d.queue[i].mem \cap d.queue[j].mem = {}
      OBVIOUS
    <2>1. i + 1 \in 1..l /\ j + 1 \in 1..l /\ i + 1 # j + 1
      BY <1>3
    <2> QED BY <1>2, <2>1 DEF ClaimsOK, l
  <1>10. IsQueue(d.queue)
    BY <1>2 DEF IsQueue
  <1>11. /\ InboundOf(d) \cap (k \cup f.mem) = {}
         /\ (InboundOf(d) \cup k \cup f.mem) \cap QueueMem(d.queue) = {}
    BY <1>6, <1>7 DEF ClaimsOK
  <1>12. ClaimsOK(d, h, {}, k \cup f.mem)
    BY <1>8, <1>9, <1>11 DEF ClaimsOK
  <1> QED BY <1>10, <1>12 DEF f

-----------------------------------------------------------------------------
\* The inductive invariant.

Places == {"none", "fresh", "connected", "start", "tune", "open", "rpc",
           "frame", "idle", "closed", "abort"}
Connecting == {"fresh", "connected", "start", "tune", "open"}

\* Heap, pools and reader fit, and so do all uses of memory.
MemorySound ==
    /\ IsConn(conn) /\ ConnMem(conn, heap) /\ ReaderShape(conn, heap)
    /\ IsQueue(conn.queue) /\ ClaimsOK(conn, heap, gotmem, held)

\* There are buffers as long as there is a connection.
ConnectionMade ==
    /\ pc \in Places
    /\ pc = "none" => conn.outbound = 0 /\ conn.sock_inbound = 0
    /\ pc # "none" =>
         /\ conn.outbound = 1 /\ conn.sock_inbound = 2
         /\ conn.frame_max \in Nat \ {0}

\* Before the login is over no frame is put aside and the application holds
\* none: amqp_login_inner may recycle the pools without asking.
LoginHoldsNothing ==
    /\ pc \in Connecting => conn.queue = << >>
    /\ pc \in Connecting \/ call.login => held = {}

\* A frame just read leaves the reader idle, until its caller has looked at it.
FrameSettled ==
    /\ got = NoFrame => gotmem = {}
    /\ got # NoFrame => Waiting /\ conn.state = IDLE

\* Descriptors and OpenSSL objects are known to the connection.
IsOs(o) == o = [fds |-> o.fds, tls |-> o.tls]
OsSound ==
    /\ IsOs(os)
    /\ os.fds = {conn.sockfd} \ {0}
    /\ os.tls = IF conn.ssl THEN {"SSL"} ELSE {}

\* Before amqp_new_connection there is nothing.
NothingYet == pc = "none" => held = {} /\ conn.sockfd = 0 /\ conn.ssl = FALSE

MInv == /\ MemorySound /\ ConnectionMade /\ LoginHoldsNothing
        /\ FrameSettled /\ OsSound /\ NothingYet

memVars == <<conn, heap, os, pc, call, got, gotmem, held>>

\* The broker does not touch the memory of the client.
LEMMA MInvUnchanged ==
  MInv /\ UNCHANGED memVars => MInv'
  BY DEF MInv, memVars, MemorySound, ConnectionMade, LoginHoldsNothing,
         FrameSettled, OsSound, NothingYet, IsOs, Waiting

\* A connection that does not exist has no memory.
LEMMA NoConnFacts ==
  /\ IsConn(NoConn) /\ ConnMem(NoConn, << >>) /\ ReaderShape(NoConn, << >>)
  /\ IsQueue(NoConn.queue) /\ ClaimsOK(NoConn, << >>, {}, {})
  /\ NoConn.outbound = 0 /\ NoConn.sock_inbound = 0 /\ NoConn.sockfd = 0
  /\ NoConn.ssl = FALSE /\ NoConn.state = IDLE /\ NoConn.queue = << >>
  /\ NoConn.sock = << >>
  <1> DEFINE d == NoConn
  <1>1. /\ IsConn(d)
        /\ d.state = IDLE /\ d.queue = << >> /\ d.sockfd = 0 /\ d.ssl = FALSE
        /\ d.outbound = 0 /\ d.sock_inbound = 0
        /\ d.inbound = NULL /\ d.buf = << >> /\ d.target = HEADER_SIZE
        /\ d.sock = << >>
        /\ d.frame_pool = init_amqp_pool(0) /\ d.decoding_pool = init_amqp_pool(0)
    BY DEF NoConn, IsConn, ConnFields
  <1> HIDE DEF d
  <1>2. HeapOK(<< >>) /\ DOMAIN << >> = {}
    BY FS_EmptySet DEF HeapOK
  <1>3. /\ PoolOK(<< >>, d.frame_pool) /\ Owned(d.frame_pool) = {}
        /\ PoolOK(<< >>, d.decoding_pool) /\ Owned(d.decoding_pool) = {}
    BY <1>1, InitPoolFacts
  <1>4. Fixed(d) = {}
    BY <1>1 DEF Fixed
  <1>5. ConnMem(d, << >>)
    BY <1>2, <1>3, <1>4 DEF ConnMem
  <1>6. ReaderShape(d, << >>)
    BY <1>1 DEF ReaderShape, States
  <1>7. ClaimsOK(d, << >>, {}, {})
    BY <1>1, NoClaims
  <1>8. << >> \in Seq({})
    OBVIOUS
  <1> QED BY <1>1, <1>5, <1>6, <1>7, <1>8 DEF d, IsQueue

\* Initially there is none.
LEMMA InitMInv == Init => MInv
  BY NoConnFacts DEF Init, MInv, MemorySound, ConnectionMade, LoginHoldsNothing,
     FrameSettled, OsSound, NothingYet, IsOs, Places,
     Connecting, NoOs, NoCall

\* After the end of a connection or of the process there is none again.
LEMMA GoneKeeps ==
  ASSUME Gone, heap' = << >>, os' = NoOs
  PROVE  MInv'
  BY NoConnFacts DEF Gone, MInv, MemorySound, ConnectionMade, LoginHoldsNothing,
     FrameSettled, OsSound, NothingYet, IsOs, Places,
     Connecting, NoOs, NoCall

\* How a call that fails, or a login that goes on, leaves its place.
LEMMA WaitFailsPlaces ==
  ASSUME MInv, Waiting, WaitFails
  PROVE  /\ pc' \in {"rpc", "idle", "closed"}
         /\ call'.login => held = {}
  <1>1. NoCall.login = FALSE /\ [NoCall EXCEPT !.login = TRUE,
                !.replies = {"connection_open_ok"}].login = TRUE
    BY DEF NoCall
  <1>2. pc \in {"start", "tune"} => held = {}
    BY DEF MInv, LoginHoldsNothing, Connecting
  <1> QED BY <1>1, <1>2 DEF WaitFails, Open, Return

\* amqp_handle_input in wait_frame_inner.
LEMMA HandleInputMInv ==
  ASSUME MInv, HandleInput
  PROVE  MInv'
  <1> DEFINE r == amqp_handle_input(conn, heap)
             d == [r.conn EXCEPT !.sock = SubSeq(r.conn.sock, r.used + 1, Len(r.conn.sock))]
             g == IF r.frame = NoFrame THEN {} ELSE r.mem
  <1>1. /\ Waiting /\ got = NoFrame /\ gotmem = {} /\ pc # "none"
        /\ IsConn(conn) /\ ConnMem(conn, heap) /\ ReaderShape(conn, heap)
        /\ conn.frame_max \in Nat \ {0} /\ IsQueue(conn.queue)
        /\ ClaimsOK(conn, heap, {}, held)
    BY DEF HandleInput, HasInput, Waiting, MInv, MemorySound, ConnectionMade,
           FrameSettled
  <1>2. From(conn, heap, r)
    BY <1>1, HandleInputFrom
  <1>3. ClaimsOK(r.conn, r.heap, g, held)
    BY <1>1, <1>2, ClaimsRead
  <1>4. /\ heap' = r.heap /\ UNCHANGED <<os, held>>
        /\ \/ conn' = r.conn /\ WaitFails /\ UNCHANGED <<got, gotmem>>
           \/ conn' = d /\ got' = r.frame /\ gotmem' = g /\ UNCHANGED <<pc, call>>
    BY DEF HandleInput, frameVars, callVars
  <1> HIDE DEF r
  <1>5. /\ IsConn(r.conn) /\ ConnMem(r.conn, r.heap) /\ Kept(conn, r.conn)
        /\ ReaderShape(r.conn, r.heap) /\ IsQueue(r.conn.queue)
        /\ r.frame # NoFrame => r.conn.state = IDLE
    BY <1>1, <1>2 DEF From, Grows, Kept
  <1>6. /\ IsConn(d) /\ d.state = r.conn.state /\ d.inbound = r.conn.inbound
        /\ d.buf = r.conn.buf /\ d.target = r.conn.target
        /\ d.frame_max = r.conn.frame_max /\ d.frame_pool = r.conn.frame_pool
        /\ d.decoding_pool = r.conn.decoding_pool /\ d.queue = r.conn.queue
        /\ d.outbound = r.conn.outbound /\ d.sock_inbound = r.conn.sock_inbound
        /\ d.sockfd = r.conn.sockfd /\ d.ssl = r.conn.ssl
    BY <1>5 DEF IsConn, ConnFields
  <1> HIDE DEF d
  <1>7. /\ ConnMem(d, r.heap) /\ ReaderShape(d, r.heap)
        /\ ClaimsOK(d, r.heap, g, held)
    BY <1>3, <1>5, <1>6 DEF ConnMem, ReaderShape, ClaimsOK, Claims, InboundOf,
                            Issued, Fixed
  <1>8. CASE conn' = r.conn /\ WaitFails /\ UNCHANGED <<got, gotmem>>
    <2>1. ClaimsOK(r.conn, r.heap, {}, held)
      BY <1>3, ClaimsTaken
    <2>2. pc' \in {"rpc", "idle", "closed"} /\ (call'.login => held = {})
      BY <1>1, <1>8, WaitFailsPlaces
    <2>3. MemorySound' /\ FrameSettled'
      BY <1>1, <1>4, <1>5, <1>8, <2>1 DEF MemorySound, FrameSettled
    <2>4. ConnectionMade' /\ LoginHoldsNothing' /\ OsSound' /\ NothingYet'
      BY <1>1, <1>4, <1>5, <1>8, <2>2 DEF MInv, ConnectionMade,
         LoginHoldsNothing, NothingYet, OsSound, Places, Connecting, Kept
    <2> QED BY <2>3, <2>4 DEF MInv
  <1>9. CASE conn' = d /\ got' = r.frame /\ gotmem' = g /\ UNCHANGED <<pc, call>>
    <2>1. MemorySound' /\ FrameSettled'
      BY <1>1, <1>4, <1>5, <1>6, <1>7, <1>9 DEF MemorySound, FrameSettled, Waiting
    <2>2. ConnectionMade' /\ LoginHoldsNothing' /\ OsSound' /\ NothingYet'
      BY <1>4, <1>5, <1>6, <1>9 DEF MInv, ConnectionMade,
         LoginHoldsNothing, NothingYet, OsSound, Kept
    <2> QED BY <2>1, <2>2 DEF MInv
  <1> QED BY <1>4, <1>8, <1>9

\* Reading from the socket, and not getting anything.
LEMMA ReceiveMInv ==
  ASSUME MInv, Receive
  PROVE  MInv'
  <1>1. ASSUME NEW n, Read(n) PROVE MInv'
    <2> DEFINE d == [conn EXCEPT !.sock = SubSeq(net, 1, n)]
    <2>1. /\ conn' = d /\ UNCHANGED <<heap, os, pc, call, got, gotmem, held>>
          /\ Waiting /\ IsConn(conn)
      BY <1>1 DEF Read, Reading, MInv, MemorySound, callVars, frameVars
    <2>2. /\ IsConn(d) /\ d.state = conn.state /\ d.inbound = conn.inbound
          /\ d.buf = conn.buf /\ d.target = conn.target
          /\ d.frame_max = conn.frame_max /\ d.frame_pool = conn.frame_pool
          /\ d.decoding_pool = conn.decoding_pool /\ d.queue = conn.queue
          /\ d.outbound = conn.outbound /\ d.sock_inbound = conn.sock_inbound
          /\ d.sockfd = conn.sockfd /\ d.ssl = conn.ssl
      BY <2>1 DEF IsConn, ConnFields
    <2> HIDE DEF d
    <2>3. /\ ConnMem(d, heap) /\ ReaderShape(d, heap)
          /\ ClaimsOK(d, heap, gotmem, held)
      BY <2>2 DEF MInv, MemorySound, ConnMem, ReaderShape, ClaimsOK, Claims,
                  InboundOf, Issued, Fixed
    <2>4. MemorySound' /\ FrameSettled'
      BY <2>1, <2>2, <2>3 DEF MInv, MemorySound, FrameSettled, Waiting
    <2>5. ConnectionMade' /\ LoginHoldsNothing' /\ OsSound' /\ NothingYet'
      BY <2>1, <2>2 DEF MInv, ConnectionMade, LoginHoldsNothing, NothingYet, OsSound
    <2> QED BY <2>4, <2>5 DEF MInv
  <1>2. CASE ReadEOF \/ ReadError
    <2>1. /\ UNCHANGED <<conn, heap, os, got, gotmem, held>>
          /\ Waiting /\ got = NoFrame /\ WaitFails
      BY <1>2 DEF ReadEOF, ReadError, Reading, frameVars
    <2>2. pc' \in {"rpc", "idle", "closed"} /\ (call'.login => held = {})
      BY <2>1, WaitFailsPlaces
    <2>3. MemorySound' /\ FrameSettled'
      BY <2>1 DEF MInv, MemorySound, FrameSettled
    <2>4. ConnectionMade' /\ LoginHoldsNothing' /\ OsSound' /\ NothingYet'
      BY <2>1, <2>2 DEF MInv, ConnectionMade, LoginHoldsNothing, NothingYet, OsSound,
                        Places, Connecting, Waiting
    <2> QED BY <2>3, <2>4 DEF MInv
  <1> QED BY <1>1, <1>2 DEF Receive

\* Where the login goes on or ends.
LEMMA OpenPlaces ==
  ASSUME Open
  PROVE  pc' \in {"rpc", "idle", "closed"}
  BY DEF Open, Return

\* The login looks at a frame: the pools may be recycled or made anew, because
\* nobody uses memory of theirs.
LEMMA AdvanceMInv ==
  ASSUME MInv, pc \in {"start", "tune"}, got # NoFrame, NEW m, Advance(m),
         IsConn(m.conn), ConnMem(m.conn, m.heap), SameReader(conn, m.conn),
         m.conn.queue = conn.queue, m.conn.outbound = conn.outbound,
         m.conn.sock_inbound = conn.sock_inbound, m.conn.sockfd = conn.sockfd,
         m.conn.ssl = conn.ssl, m.conn.frame_max \in Nat \ {0},
         pc' \in {"tune", "open", "rpc", "idle", "closed"}
  PROVE  MInv'
  <1>1. /\ conn.state = IDLE /\ conn.queue = << >> /\ held = {} /\ pc # "none"
        /\ ReaderShape(conn, heap) /\ IsQueue(conn.queue)
    BY DEF MInv, MemorySound, FrameSettled, LoginHoldsNothing, Connecting
  <1>2. /\ conn' = m.conn /\ heap' = m.heap /\ got' = NoFrame /\ gotmem' = {}
        /\ UNCHANGED <<os, held>>
    BY DEF Advance, Taken
  <1>3. ReaderShape(m.conn, m.heap)
    BY <1>1 DEF ReaderShape, SameReader
  <1>4. ClaimsOK(m.conn, m.heap, {}, {})
    BY <1>1, NoClaims DEF SameReader
  <1>5. MemorySound' /\ FrameSettled'
    BY <1>1, <1>2, <1>3, <1>4 DEF MemorySound, FrameSettled
  <1>6. ConnectionMade' /\ LoginHoldsNothing' /\ OsSound' /\ NothingYet'
    BY <1>1, <1>2 DEF MInv, ConnectionMade, LoginHoldsNothing, NothingYet, OsSound, Places
  <1> QED BY <1>5, <1>6 DEF MInv

\* connection.start and connection.tune.
LEMMA LoginMInv ==
  ASSUME MInv, LoginStart \/ LoginTune
  PROVE  MInv'
  <1>1. /\ IsConn(conn) /\ ConnMem(conn, heap) /\ conn.frame_max \in Nat \ {0}
        /\ conn.outbound # 0 /\ got # NoFrame /\ pc \in {"start", "tune"}
    <2>1. got # NoFrame /\ pc \in {"start", "tune"}
      BY DEF LoginStart, LoginTune
    <2> QED BY <2>1 DEF MInv, MemorySound, ConnectionMade
  <1>2. CASE LoginStart
    <2> DEFINE d == Decoding(conn, heap, SizeOfStruct)
               e == Recycled(d.conn, d.heap)
    <2>1. SizeOfStruct \in Nat \ {0}
      BY DEF SizeOfStruct
    <2>2. /\ IsConn(d.conn) /\ ConnMem(d.conn, d.heap)
          /\ Kept(conn, d.conn) /\ SameReader(conn, d.conn)
      BY <1>1, <2>1, DecodingFacts DEF Grows, SameReader
    <2>3. \/ Advance([conn |-> conn, heap |-> heap]) /\ Open
          \/ Advance(e) /\ pc' = "tune"
          \/ Advance(d) /\ Open
      BY <1>2 DEF LoginStart
    <2> HIDE DEF d
    <2>4. /\ IsConn(e.conn) /\ ConnMem(e.conn, e.heap)
          /\ Kept(conn, e.conn) /\ SameReader(conn, e.conn)
      BY <2>2, RecycledFacts DEF Kept, SameReader
    <2> HIDE DEF e
    <2>5. CASE Advance([conn |-> conn, heap |-> heap]) /\ Open
      <3> DEFINE m == [conn |-> conn, heap |-> heap]
      <3>1. m.conn = conn /\ m.heap = heap /\ SameReader(conn, conn)
        BY DEF SameReader
      <3>2. Advance(m) /\ pc' \in {"tune", "open", "rpc", "idle", "closed"}
        BY <2>5, OpenPlaces
      <3> HIDE DEF m
      <3> QED BY <1>1, <3>1, <3>2, AdvanceMInv
    <2>6. CASE Advance(e) /\ pc' = "tune"
      BY <1>1, <2>4, <2>6, AdvanceMInv DEF Kept
    <2>7. CASE Advance(d) /\ Open
      BY <1>1, <2>2, <2>7, OpenPlaces, AdvanceMInv DEF Kept
    <2> QED BY <2>3, <2>5, <2>6, <2>7
  <1>3. CASE LoginTune
    <2> DEFINE n == Negotiated(got.arg)
               t == amqp_tune_connection(conn, heap, n)
               e == Recycled(t.conn, t.heap)
    <2>1. n \in Nat \ {0}
      BY SMT, ConnAssumption DEF Negotiated, Sizes, Number, MinFrame
    <2>2. \/ Advance(e) /\ pc' = "open"
          \/ Advance(t) /\ Open
      BY <1>3 DEF LoginTune
    <2> HIDE DEF n
    <2>3. /\ IsConn(t.conn) /\ ConnMem(t.conn, t.heap) /\ SameReader(conn, t.conn)
          /\ t.conn.frame_max = n /\ t.conn.queue = conn.queue
          /\ t.conn.outbound = conn.outbound
          /\ t.conn.sock_inbound = conn.sock_inbound
          /\ t.conn.sockfd = conn.sockfd /\ t.conn.ssl = conn.ssl
      BY <1>1, <2>1, TuneFacts
    <2> HIDE DEF t
    <2>4. /\ IsConn(e.conn) /\ ConnMem(e.conn, e.heap)
          /\ Kept(t.conn, e.conn) /\ SameReader(t.conn, e.conn)
      BY <2>3, RecycledFacts
    <2> HIDE DEF e
    <2>5. SameReader(conn, e.conn)
      BY <2>3, <2>4 DEF SameReader
    <2>6. CASE Advance(e) /\ pc' = "open"
      BY <1>1, <2>1, <2>3, <2>4, <2>5, <2>6, AdvanceMInv DEF Kept
    <2>7. CASE Advance(t) /\ Open
      BY <1>1, <2>1, <2>3, <2>7, OpenPlaces, AdvanceMInv
    <2> QED BY <2>2, <2>6, <2>7
  <1> QED BY <1>2, <1>3

\* A call returns a frame to the application, which holds its memory then; or
\* the login is over and its last frame is forgotten.
LEMMA TakenMInv ==
  ASSUME MInv, got # NoFrame, pc \in {"rpc", "frame"}, UNCHANGED <<conn, heap>>,
         Taken, pc' \in {"idle", "closed"}, call' = NoCall,
         held' = held \/ held' = held \cup gotmem
  PROVE  MInv'
  <1>1. UNCHANGED os /\ got' = NoFrame /\ gotmem' = {} /\ call'.login = FALSE
    BY DEF Taken, NoCall
  <1>2. ClaimsOK(conn, heap, {}, held')
    BY ClaimsTaken DEF MInv, MemorySound
  <1>3. MemorySound' /\ FrameSettled'
    BY <1>1, <1>2 DEF MInv, MemorySound, FrameSettled
  <1>4. ConnectionMade' /\ LoginHoldsNothing' /\ OsSound' /\ NothingYet'
    BY <1>1 DEF MInv, ConnectionMade, LoginHoldsNothing, NothingYet, OsSound, Places, Connecting
  <1> QED BY <1>3, <1>4 DEF MInv

\* The buffers are released: nobody uses them.
LEMMA ReleasedMInv ==
  ASSUME MInv, pc \in {"rpc", "idle"}, amqp_release_buffers_ok(conn),
         conn' = Recycled(conn, heap).conn, heap' = Recycled(conn, heap).heap,
         got' = NoFrame, gotmem' = {}, held' = {}, UNCHANGED os,
         pc' \in {"idle", "closed"}
  PROVE  MInv'
  <1>1. conn.state = IDLE /\ conn.queue = << >>
    BY DEF amqp_release_buffers_ok
  <1>2. /\ IsConn(conn) /\ ConnMem(conn, heap) /\ ReaderShape(conn, heap)
        /\ IsQueue(conn.queue)
    BY DEF MInv, MemorySound
  <1>3. /\ IsConn(conn') /\ ConnMem(conn', heap')
        /\ Kept(conn, conn') /\ SameReader(conn, conn')
    BY <1>2, RecycledFacts
  <1>4. ReaderShape(conn', heap')
    BY <1>1, <1>2, <1>3 DEF ReaderShape, SameReader
  <1>5. ClaimsOK(conn', heap', {}, {})
    BY <1>1, <1>3, NoClaims DEF SameReader, Kept
  <1>6. MemorySound' /\ FrameSettled'
    BY <1>2, <1>3, <1>4, <1>5 DEF MemorySound, FrameSettled, Kept
  <1>7. ConnectionMade' /\ LoginHoldsNothing' /\ OsSound' /\ NothingYet'
    BY <1>3 DEF MInv, ConnectionMade, LoginHoldsNothing, NothingYet, OsSound, Places,
                Connecting, Kept
  <1> QED BY <1>6, <1>7 DEF MInv

\* amqp_simple_rpc ends with this frame.
LEMMA RpcEndsMInv ==
  ASSUME MInv, RpcEnds
  PROVE  MInv'
  <1>1. /\ pc = "rpc" /\ got # NoFrame /\ Taken /\ call' = NoCall
        /\ pc' \in {"idle", "closed"}
        /\ held' = IF call.login THEN held ELSE held \cup gotmem
        /\ \/ UNCHANGED <<conn, heap>>
           \/ call.login /\ amqp_maybe_release_buffers
    BY DEF RpcEnds, Return
  <1>2. CASE UNCHANGED <<conn, heap>>
    BY <1>1, <1>2, TakenMInv
  <1>3. CASE call.login /\ amqp_maybe_release_buffers /\ ~UNCHANGED <<conn, heap>>
    <2>1. held' = {} /\ got' = NoFrame /\ gotmem' = {} /\ UNCHANGED os
      BY <1>1, <1>3 DEF MInv, LoginHoldsNothing, Taken
    <2>2. /\ amqp_release_buffers_ok(conn)
          /\ conn' = Recycled(conn, heap).conn /\ heap' = Recycled(conn, heap).heap
      BY <1>3 DEF amqp_maybe_release_buffers
    <2> QED BY <1>1, <2>1, <2>2, ReleasedMInv
  <1> QED BY <1>1, <1>2, <1>3

\* amqp_simple_rpc puts a frame aside.
LEMMA RpcQueuesMInv ==
  ASSUME MInv, RpcQueues
  PROVE  MInv'
  <1> DEFINE f == Decoding(conn, heap, SizeOfFrame)
             l == Decoding(f.conn, f.heap, SizeOfLink)
             b == [frame |-> got, no |-> count.decoded, mem |-> gotmem \cup {f.at, l.at}]
             q == [l.conn EXCEPT !.queue = Append(l.conn.queue, b)]
  <1>1. /\ pc = "rpc" /\ got # NoFrame /\ got' = NoFrame /\ gotmem' = {}
        /\ conn' = q /\ heap' = l.heap /\ UNCHANGED <<os, pc, call, held>>
    BY DEF RpcQueues, Enqueue, Taken, callVars
  <1>2. SizeOfFrame \in Nat \ {0} /\ SizeOfLink \in Nat \ {0}
    BY DEF SizeOfFrame, SizeOfLink
  <1>3. /\ IsConn(conn) /\ ConnMem(conn, heap) /\ ReaderShape(conn, heap)
        /\ IsQueue(conn.queue) /\ ClaimsOK(conn, heap, gotmem, held)
        /\ conn.state = IDLE
    BY <1>1 DEF MInv, MemorySound, FrameSettled
  <1>4. /\ Grows(conn, heap, f.conn, f.heap) /\ Fresh(conn, heap, f.at)
        /\ Handed(f.heap, f.conn.decoding_pool, f.at)
        /\ SameReader(conn, f.conn)
    BY <1>2, <1>3, DecodingFacts DEF SameReader
  <1> HIDE DEF f
  <1>5. IsConn(f.conn) /\ ConnMem(f.conn, f.heap)
    BY <1>4 DEF Grows
  <1>6. /\ Grows(f.conn, f.heap, l.conn, l.heap) /\ Fresh(f.conn, f.heap, l.at)
        /\ Handed(l.heap, l.conn.decoding_pool, l.at)
        /\ SameReader(f.conn, l.conn)
    BY <1>2, <1>5, DecodingFacts DEF SameReader
  <1> HIDE DEF l
  <1>7. f.at \in Regions /\ l.at \in Regions /\ Issued(f.conn, f.heap, f.at)
    BY <1>4, <1>6 DEF Handed, Issued
  <1>8. Issued(l.conn, l.heap, f.at) /\ Issued(l.conn, l.heap, l.at)
    BY <1>6, <1>7 DEF Grows, Issued
  <1>9. ~Overlap(f.at, l.at)
    BY <1>6, <1>7, OverlapFacts DEF Fresh
  <1>10. Grows(conn, heap, l.conn, l.heap) /\ Fresh(conn, heap, l.at)
    BY <1>4, <1>6, <1>7, GrowsTwice
  <1>11. l.conn.queue = conn.queue /\ SameReader(conn, l.conn) /\ IsConn(l.conn)
    BY <1>4, <1>6, <1>10 DEF Grows, Kept, SameReader
  <1>12. b.mem = gotmem \cup {f.at, l.at}
    OBVIOUS
  <1> HIDE DEF b
  <1>13. /\ IsConn(q) /\ q.queue = Append(conn.queue, b) /\ SameReader(l.conn, q)
         /\ q.frame_pool = l.conn.frame_pool
         /\ q.decoding_pool = l.conn.decoding_pool
         /\ q.outbound = l.conn.outbound /\ q.sock_inbound = l.conn.sock_inbound
         /\ q.frame_max = l.conn.frame_max /\ q.sockfd = l.conn.sockfd
         /\ q.ssl = l.conn.ssl
    BY <1>11 DEF IsConn, ConnFields, SameReader
  <1> HIDE DEF q
  <1>14. /\ \A m : Issued(l.conn, l.heap, m) => Issued(q, l.heap, m)
         /\ InboundOf(l.conn) = InboundOf(conn) /\ InboundOf(q) = InboundOf(l.conn)
    BY <1>11, <1>13 DEF Issued, InboundOf, SameReader
  <1>15. ClaimsOK(q, l.heap, {}, held) /\ IsQueue(q.queue)
    <2> DEFINE x == f.at
               y == l.at
               d == l.conn
               e == l.heap
               k == held
               g == gotmem
               c == conn
               h == heap
    <2>1. /\ ClaimsOK(c, h, g, k) /\ IsQueue(c.queue) /\ x \in Regions
          /\ y \in Regions /\ Grows(c, h, d, e) /\ InboundOf(d) = InboundOf(c)
          /\ Issued(d, e, x) /\ Issued(d, e, y) /\ Fresh(c, h, x)
          /\ Fresh(c, h, y) /\ ~Overlap(x, y) /\ b.mem = g \cup {x, y}
          /\ q.queue = Append(c.queue, b) /\ InboundOf(q) = InboundOf(d)
          /\ \A m : Issued(d, e, m) => Issued(q, e, m)
      BY <1>3, <1>4, <1>7, <1>8, <1>9, <1>10, <1>12, <1>13, <1>14
    <2> HIDE DEF x, y, d, e, k, g, c, h
    <2>2. ClaimsOK(q, e, {}, k) /\ IsQueue(q.queue)
      BY <2>1, ClaimsQueued
    <2> QED BY <2>2 DEF e, k
  <1>16. ConnMem(q, l.heap)
    BY <1>10, <1>13 DEF Grows, ConnMem, Fixed
  <1>17. ReaderShape(q, l.heap)
    BY <1>3, <1>11, <1>13 DEF ReaderShape, SameReader
  <1>18. MemorySound' /\ FrameSettled'
    BY <1>1, <1>13, <1>15, <1>16, <1>17 DEF MemorySound, FrameSettled
  <1>19. ConnectionMade' /\ LoginHoldsNothing' /\ OsSound' /\ NothingYet'
    BY <1>1, <1>10, <1>13 DEF MInv, ConnectionMade, LoginHoldsNothing, NothingYet, OsSound,
                              Connecting, Grows, Kept
  <1> QED BY <1>18, <1>19 DEF MInv

\* What the callers of wait_frame_inner do.
LEMMA DispatchMInv ==
  ASSUME MInv, Dispatch
  PROVE  MInv'
  <1>1. CASE Abort
    <2>1. /\ pc' = "abort" /\ got' = NoFrame /\ gotmem' = {} /\ pc # "none"
          /\ UNCHANGED <<conn, heap, os, call, held>>
      BY <1>1 DEF Abort, Taken
    <2>2. ClaimsOK(conn, heap, {}, held)
      BY ClaimsTaken DEF MInv, MemorySound
    <2> QED BY <2>1, <2>2 DEF MInv, MemorySound, FrameSettled, ConnectionMade,
               LoginHoldsNothing, NothingYet, OsSound, Places, Connecting
  <1>2. CASE LoginOpen
    <2>1. /\ pc = "open" /\ pc' \in {"rpc", "idle", "closed"}
          /\ UNCHANGED <<conn, heap, os, got, gotmem, held>>
      BY <1>2, OpenPlaces DEF LoginOpen, frameVars
    <2>2. held = {} /\ got = NoFrame
      BY <2>1 DEF MInv, LoginHoldsNothing, FrameSettled, Connecting, Waiting
    <2> QED BY <2>1, <2>2 DEF MInv, MemorySound, FrameSettled, ConnectionMade,
               LoginHoldsNothing, NothingYet, OsSound, Places, Connecting
  <1>3. CASE FrameReturned
    BY <1>3, TakenMInv DEF FrameReturned, Return
  <1> QED BY <1>1, <1>2, <1>3, LoginMInv, RpcEndsMInv, RpcQueuesMInv DEF Dispatch

\* amqp_open_socket leaves one descriptor open if it returns it, and none
\* otherwise, unless the last step failed: then there is none either.
LEMMA OpenSocketFacts ==
  ASSUME NEW addrs \in Seq(Outcomes), NEW b \in BOOLEAN
  PROVE  amqp_open_socket(addrs, b).open = {amqp_open_socket(addrs, b).fd} \ {0}
  <1> DEFINE tried == {i \in 1..Len(addrs) : \A j \in 1..(i - 1) : addrs[j] \notin Good}
             good  == {i \in tried : addrs[i] \in Good}
             left  == {i \in tried : Opened(addrs[i]) /\ ~Closed(addrs[i])}
             n     == Cardinality(left)
             s     == amqp_open_socket(addrs, b)
  <1>1. \A i \in 1..Len(addrs) : addrs[i] \in Outcomes
    OBVIOUS
  <1>2. \A o \in Outcomes : Opened(o) /\ ~Closed(o) <=> o \in Good
    BY DEF Outcomes, Opened, Closed, Good
  <1>3. left = good
    BY <1>1, <1>2
  <1>4. s = IF good = {} THEN [fd |-> 0, open |-> 1..n]
            ELSE IF ~b THEN [fd |-> 0, open |-> 1..(n - 1)]
            ELSE [fd |-> n, open |-> 1..n]
    BY DEF amqp_open_socket
  <1>5. ASSUME NEW i \in good, NEW j \in good PROVE i = j
    <2>1. /\ i \in Nat /\ j \in Nat /\ i >= 1 /\ j >= 1
          /\ addrs[i] \in Good /\ addrs[j] \in Good
          /\ \A k \in 1..(i - 1) : addrs[k] \notin Good
          /\ \A k \in 1..(j - 1) : addrs[k] \notin Good
      BY <1>5
    <2> QED BY <2>1
  <1> HIDE DEF good, left, s
  <1>6. CASE good = {}
    <2>1. n = 0
      BY <1>3, <1>6, FS_EmptySet
    <2> QED BY <1>4, <1>6, <2>1 DEF s
  <1>7. CASE good # {}
    <2>0. PICK i : i \in good
      BY <1>7
    <2>1. good = {i}
      BY <1>5, <2>0
    <2>2. n = 1
      BY <1>3, <2>1, FS_Singleton
    <2>3. 1..1 = {1} /\ 1..0 = {}
      OBVIOUS
    <2>4. s = IF ~b THEN [fd |-> 0, open |-> 1..0] ELSE [fd |-> 1, open |-> 1..1]
      BY <1>4, <1>7, <2>2
    <2> QED BY <2>3, <2>4 DEF s
  <1> QED BY <1>6, <1>7

\* amqp_ssl_handshake leaves the SSL object if it succeeds and nothing if not.
LEMMA HandshakeFacts ==
  ASSUME NEW v \in BOOLEAN, NEW end \in TlsEnds(v)
  PROVE  /\ amqp_ssl_handshake(end).alive =
              IF amqp_ssl_handshake(end).ssl THEN {"SSL"} ELSE {}
         /\ amqp_ssl_handshake(end).ssl \in BOOLEAN
  <1>1. end \in {"ctx_new", "client_cert", "ssl_new", "connect", "done",
                 "verify_locations", "set1_host"}
    BY DEF TlsEnds
  <1> QED BY <1>1 DEF amqp_ssl_handshake, TlsMade, TlsFrees

\* New, Connect and Handshake, before there are any frames.
LEMMA MakeMInv ==
  ASSUME MInv,
         \/ New
         \/ \E addrs \in Addresses, b \in BOOLEAN : Connect(addrs, b)
         \/ \E v \in BOOLEAN : \E e \in TlsEnds(v) : Handshake(e)
  PROVE  MInv'
  <1>1. CASE New
    <2>1. /\ conn' = amqp_new_connection.conn /\ heap' = amqp_new_connection.heap
          /\ pc = "none" /\ pc' = "fresh" /\ UNCHANGED <<os, call, got, gotmem, held>>
      BY <1>1 DEF New, frameVars
    <2> DEFINE d == amqp_new_connection.conn
               h == amqp_new_connection.heap
    <2>2. /\ IsConn(d) /\ ConnMem(d, h) /\ ReaderShape(d, h)
          /\ d.state = IDLE /\ d.queue = << >> /\ d.sockfd = 0
          /\ d.ssl = FALSE /\ d.outbound = 1 /\ d.sock_inbound = 2
          /\ d.frame_max \in Nat \ {0}
      BY NewFacts
    <2>3. conn' = d /\ heap' = h
      BY <2>1
    <2> HIDE DEF d, h
    <2>4. got = NoFrame /\ gotmem = {}
      BY <2>1 DEF MInv, FrameSettled, Waiting
    <2>5. held = {} /\ conn.sockfd = 0 /\ conn.ssl = FALSE
      BY <2>1 DEF MInv, NothingYet
    <2>6. << >> \in Seq({})
      OBVIOUS
    <2>7. ClaimsOK(d, h, {}, {}) /\ IsQueue(d.queue)
      BY <2>2, <2>6, NoClaims DEF IsQueue
    <2>8. MemorySound' /\ FrameSettled' /\ NothingYet'
      BY <2>1, <2>2, <2>3, <2>4, <2>5, <2>7 DEF MemorySound, FrameSettled, NothingYet
    <2>9. ConnectionMade' /\ LoginHoldsNothing' /\ OsSound'
      BY <2>1, <2>2, <2>3, <2>5 DEF MInv, ConnectionMade, LoginHoldsNothing,
         OsSound, Places, Connecting
    <2> QED BY <2>8, <2>9 DEF MInv
  <1>2. ASSUME NEW d, conn' = d, IsConn(d), SameReader(conn, d),
               d.frame_pool = conn.frame_pool, d.decoding_pool = conn.decoding_pool,
               d.queue = conn.queue, d.outbound = conn.outbound,
               d.sock_inbound = conn.sock_inbound, d.frame_max = conn.frame_max,
               UNCHANGED <<heap, call, got, gotmem, held>>,
               pc \in {"fresh", "connected"}, pc' \in {"connected", "closed"},
               OsSound'
        PROVE  MInv'
    <2>1. /\ ConnMem(d, heap) /\ ReaderShape(d, heap)
          /\ ClaimsOK(d, heap, gotmem, held)
      BY <1>2 DEF MInv, MemorySound, ConnMem, ReaderShape, ClaimsOK, Claims,
                  InboundOf, Issued, Fixed, SameReader
    <2>2. got = NoFrame
      BY <1>2 DEF MInv, FrameSettled, Waiting
    <2>3. MemorySound' /\ FrameSettled' /\ NothingYet'
      BY <1>2, <2>1, <2>2 DEF MInv, MemorySound, FrameSettled, NothingYet
    <2>4. ConnectionMade' /\ LoginHoldsNothing'
      BY <1>2 DEF MInv, ConnectionMade, LoginHoldsNothing, Places, Connecting
    <2> QED BY <1>2, <2>3, <2>4 DEF MInv
  <1>3. ASSUME NEW addrs \in Addresses, NEW b \in BOOLEAN, Connect(addrs, b)
        PROVE  MInv'
    <2> DEFINE s == amqp_open_socket(addrs, b)
               d == [conn EXCEPT !.sockfd = s.fd]
    <2>1. s.open = {s.fd} \ {0}
      BY ConnAssumption, OpenSocketFacts
    <2>2. /\ os' = [os EXCEPT !.fds = s.open] /\ conn' = d
          /\ pc = "fresh" /\ pc' \in {"connected", "closed"}
          /\ UNCHANGED <<heap, call, got, gotmem, held>>
      BY <1>3 DEF Connect, frameVars
    <2> HIDE DEF s
    <2>3. IsConn(conn) /\ IsOs(os)
      BY DEF MInv, MemorySound, OsSound
    <2>4. /\ IsConn(d) /\ SameReader(conn, d) /\ d.frame_pool = conn.frame_pool
          /\ d.decoding_pool = conn.decoding_pool /\ d.queue = conn.queue
          /\ d.outbound = conn.outbound /\ d.sock_inbound = conn.sock_inbound
          /\ d.frame_max = conn.frame_max /\ d.sockfd = s.fd /\ d.ssl = conn.ssl
      BY <2>3 DEF IsConn, ConnFields, SameReader
    <2> HIDE DEF d
    <2>5. os'.fds = s.open /\ os'.tls = os.tls /\ IsOs(os')
      BY <2>2, <2>3 DEF IsOs
    <2>6. OsSound'
      BY <2>1, <2>2, <2>4, <2>5 DEF MInv, OsSound
    <2> QED BY <1>2, <2>2, <2>4, <2>6
  <1>4. ASSUME NEW v \in BOOLEAN, NEW e \in TlsEnds(v), Handshake(e)
        PROVE  MInv'
    <2> DEFINE t == amqp_ssl_handshake(e)
               d == [conn EXCEPT !.ssl = t.ssl]
    <2>1. t.alive = IF t.ssl THEN {"SSL"} ELSE {}
      BY HandshakeFacts
    <2>2. /\ os' = [os EXCEPT !.tls = t.alive] /\ conn' = d
          /\ pc = "connected" /\ pc' \in {"connected", "closed"}
          /\ UNCHANGED <<heap, call, got, gotmem, held>>
      BY <1>4 DEF Handshake, frameVars
    <2> HIDE DEF t
    <2>3. IsConn(conn) /\ IsOs(os)
      BY DEF MInv, MemorySound, OsSound
    <2>4. /\ IsConn(d) /\ SameReader(conn, d) /\ d.frame_pool = conn.frame_pool
          /\ d.decoding_pool = conn.decoding_pool /\ d.queue = conn.queue
          /\ d.outbound = conn.outbound /\ d.sock_inbound = conn.sock_inbound
          /\ d.frame_max = conn.frame_max /\ d.sockfd = conn.sockfd
          /\ d.ssl = t.ssl
      BY <2>3 DEF IsConn, ConnFields, SameReader
    <2> HIDE DEF d
    <2>5. os'.tls = t.alive /\ os'.fds = os.fds /\ IsOs(os')
      BY <2>2, <2>3 DEF IsOs
    <2>6. OsSound'
      BY <2>1, <2>2, <2>4, <2>5 DEF MInv, OsSound
    <2> QED BY <1>2, <2>2, <2>4, <2>6
  <1> QED BY <1>1, <1>3, <1>4

\* The calls of the application.
LEMMA ApplicationMInv ==
  ASSUME MInv, Application
  PROVE  MInv'
  <1> USE DEF frameVars, callVars
  <1>1. CASE Login
    <2>1. /\ pc = "connected" /\ pc' = "start"
          /\ UNCHANGED <<conn, heap, os, got, gotmem, held>>
      BY <1>1 DEF Login
    <2>2. held = {} /\ conn.queue = << >> /\ got = NoFrame
      BY <2>1 DEF MInv, LoginHoldsNothing, Connecting, FrameSettled, Waiting
    <2> QED BY <2>1, <2>2 DEF MInv, MemorySound, FrameSettled, ConnectionMade,
               LoginHoldsNothing, OsSound, Places, Connecting, NothingYet
  <1>2. CASE WaitFrame
    <2>1. /\ pc = "idle" /\ pc' = "frame"
          /\ UNCHANGED <<conn, heap, os, call, got, gotmem, held>>
      BY <1>2 DEF WaitFrame, Calling
    <2>2. got = NoFrame
      BY <2>1 DEF MInv, FrameSettled, Waiting
    <2> QED BY <2>1, <2>2 DEF MInv, MemorySound, FrameSettled, ConnectionMade,
               LoginHoldsNothing, OsSound, Places, Connecting, NothingYet
  <1>3. ASSUME NEW q \in Requests, SimpleRpc(q) PROVE MInv'
    <2>1. /\ pc = "idle" /\ pc' \in {"rpc", "idle", "closed"}
          /\ UNCHANGED <<conn, heap, os, got, gotmem, held>>
      BY <1>3 DEF SimpleRpc, Calling, Return
    <2>2. \A x, y, z : [NoCall EXCEPT !.channel = x, !.replies = y, !.no = z].login = FALSE
      BY DEF NoCall
    <2>3. call'.login = FALSE
      BY <1>3, <2>2 DEF SimpleRpc, Return, NoCall
    <2>4. got = NoFrame
      BY <2>1 DEF MInv, FrameSettled, Waiting
    <2> QED BY <2>1, <2>3, <2>4 DEF MInv, MemorySound, FrameSettled, ConnectionMade,
               LoginHoldsNothing, OsSound, Places, Connecting, NothingYet
  <1>4. CASE QueuedFrame
    <2> DEFINE d == [conn EXCEPT !.queue = Tail(conn.queue)]
    <2>1. /\ pc = "idle" /\ pc' \in {"idle", "closed"} /\ call' = NoCall
          /\ conn.queue # << >> /\ conn' = d
          /\ held' = held \cup Head(conn.queue).mem
          /\ UNCHANGED <<heap, os, got, gotmem>>
      BY <1>4 DEF QueuedFrame, Calling, Return, Dequeue
    <2>2. got = NoFrame /\ gotmem = {}
      BY <2>1 DEF MInv, FrameSettled, Waiting
    <2>3. /\ IsConn(conn) /\ ConnMem(conn, heap) /\ ReaderShape(conn, heap)
          /\ IsQueue(conn.queue) /\ ClaimsOK(conn, heap, {}, held)
      BY <2>2 DEF MInv, MemorySound
    <2>4. /\ IsConn(d) /\ SameReader(conn, d) /\ d.frame_pool = conn.frame_pool
          /\ d.decoding_pool = conn.decoding_pool /\ d.queue = Tail(conn.queue)
          /\ d.outbound = conn.outbound /\ d.sock_inbound = conn.sock_inbound
          /\ d.frame_max = conn.frame_max /\ d.sockfd = conn.sockfd
          /\ d.ssl = conn.ssl
      BY <2>3 DEF IsConn, ConnFields, SameReader
    <2> HIDE DEF d
    <2>5. InboundOf(d) = InboundOf(conn) /\ \A m : Issued(conn, heap, m) => Issued(d, heap, m)
      BY <2>4 DEF InboundOf, Issued, SameReader
    <2>6. ClaimsOK(d, heap, {}, held \cup Head(conn.queue).mem) /\ IsQueue(d.queue)
      BY <2>1, <2>3, <2>4, <2>5, ClaimsDequeued
    <2>7. ConnMem(d, heap) /\ ReaderShape(d, heap)
      BY <2>3, <2>4 DEF ConnMem, Fixed, ReaderShape, SameReader
    <2>8. MemorySound' /\ FrameSettled'
      BY <2>1, <2>2, <2>4, <2>6, <2>7 DEF MemorySound, FrameSettled
    <2>9. call'.login = FALSE
      BY <2>1 DEF NoCall
    <2>10. ConnectionMade' /\ LoginHoldsNothing' /\ OsSound' /\ NothingYet'
      BY <2>1, <2>4, <2>9 DEF MInv, ConnectionMade, LoginHoldsNothing, OsSound,
                              Places, Connecting, NothingYet
    <2> QED BY <2>8, <2>10 DEF MInv
  <1>5. CASE MaybeRelease
    <2>1. /\ pc = "idle" /\ UNCHANGED <<os, pc, call, got, gotmem>>
          /\ amqp_maybe_release_buffers
          /\ held' = IF amqp_release_buffers_ok(conn) THEN {} ELSE held
      BY <1>5 DEF MaybeRelease
    <2>2. got = NoFrame /\ gotmem = {}
      BY <2>1 DEF MInv, FrameSettled, Waiting
    <2>3. CASE amqp_release_buffers_ok(conn)
      BY <2>1, <2>2, <2>3, ReleasedMInv DEF amqp_maybe_release_buffers
    <2>4. CASE ~amqp_release_buffers_ok(conn)
      <3>1. UNCHANGED memVars
        BY <2>1, <2>4 DEF amqp_maybe_release_buffers, memVars
      <3> QED BY <3>1, MInvUnchanged
    <2> QED BY <2>3, <2>4
  <1>6. CASE Destroy
    <2>1. IsConn(conn) /\ ConnMem(conn, heap) /\ IsOs(os)
      BY DEF MInv, MemorySound, OsSound
    <2>2. heap' = << >>
      BY <1>6, <2>1, DestroyFacts DEF Destroy
    <2>3. os' = NoOs
      BY <1>6 DEF Destroy, MInv, OsSound, NoOs
    <2> QED BY <1>6, <2>2, <2>3, GoneKeeps DEF Destroy
  <1>7. CASE Restart
    BY <1>7, GoneKeeps DEF Restart
  <1> QED BY <1>1, <1>2, <1>3, <1>4, <1>5, <1>6, <1>7, MakeMInv DEF Application

\* The broker, and a step that changes nothing.
LEMMA BrokerMInv ==
  ASSUME MInv, Broker \/ UNCHANGED vars
  PROVE  MInv'
  <1>1. CASE Broker
    <2>1. UNCHANGED ToClient
      BY <1>1 DEF Broker, BrokerReads, BrokerPushes, BrokerCloses, BrokerErrs, Pushing
    <2>2. UNCHANGED memVars
      BY <2>1 DEF ToClient, memVars, frameVars
    <2> QED BY <2>2, MInvUnchanged
  <1>2. CASE UNCHANGED vars
    <2>1. UNCHANGED memVars
      BY <1>2 DEF vars, memVars, frameVars, callVars
    <2> QED BY <2>1, MInvUnchanged
  <1> QED BY <1>1, <1>2

\* The invariant is inductive.
LEMMA NextMInv ==
  ASSUME MInv, [Next]_vars
  PROVE  MInv'
  BY HandleInputMInv, ReceiveMInv, DispatchMInv, ApplicationMInv, BrokerMInv
     DEF Next, Client

\* Memory, reader, descriptors and places fit together, whatever the broker
\* sends, however the stream is cut and whatever the application calls.
THEOREM MemoryInvariance == Spec => []MInv
  BY InitMInv, NextMInv, PTL DEF Spec

-----------------------------------------------------------------------------
\* What follows from it.

\* The uses of memory one by one.
LEMMA UseCases ==
  ASSUME NEW u \in InUse
  PROVE  \/ conn.state # IDLE /\ u = <<"inbound", conn.inbound>>
         \/ \E m \in gotmem : u = <<"got", m>>
         \/ \E m \in held : u = <<"held", m>>
         \/ \E i \in 1..Len(conn.queue) : \E m \in conn.queue[i].mem : u = <<ToString(i), m>>
         \/ /\ conn.outbound # 0
            /\ u \in {<<"outbound", Region(conn.outbound, 0, heap[conn.outbound])>>,
                      <<"sock", Region(conn.sock_inbound, 0, heap[conn.sock_inbound])>>}
  <1> DEFINE A == IF conn.state = IDLE THEN {} ELSE {<<"inbound", conn.inbound>>}
             B == {<<"got", m>> : m \in gotmem}
             C == {<<"held", m>> : m \in held}
             T(i) == {<<ToString(i), m>> : m \in conn.queue[i].mem}
             D == UNION {T(i) : i \in 1..Len(conn.queue)}
             E == IF conn.outbound = 0 THEN {}
                  ELSE {<<"outbound", Region(conn.outbound, 0, heap[conn.outbound])>>,
                        <<"sock", Region(conn.sock_inbound, 0, heap[conn.sock_inbound])>>}
  <1>1. InUse = A \cup B \cup C \cup D \cup E
    BY DEF InUse
  <1>2. ASSUME u \in D
        PROVE  \E i \in 1..Len(conn.queue) : \E m \in conn.queue[i].mem : u = <<ToString(i), m>>
    <2> HIDE DEF T
    <2>1. PICK i \in 1..Len(conn.queue) : u \in T(i)
      BY <1>2
    <2>2. \E m \in conn.queue[i].mem : u = <<ToString(i), m>>
      BY <2>1, Zenon DEF T
    <2> QED BY <2>2
  <1>3. u \in A \/ u \in B \/ u \in C \/ u \in D \/ u \in E
    <2> HIDE DEF A, B, C, D, E
    <2> QED BY <1>1
  <1> HIDE DEF D
  <1> QED BY <1>2, <1>3

\* Who a claim belongs to is a matter of the memory alone.
LEMMA ClaimOwner ==
  ASSUME MInv, NEW t, NEW s, NEW m,
         <<t, m>> \in InUse, <<s, m>> \in InUse,
         m \in Claims(conn, gotmem, held)
  PROVE  t = s
  <1> DEFINE q == conn.queue
  <1>1. /\ ClaimsOK(conn, heap, gotmem, held) /\ ConnMem(conn, heap)
        /\ ConnectionMade
    BY DEF MInv, MemorySound
  <1>2. ASSUME conn.outbound # 0
        PROVE  m.block # conn.outbound /\ m.block # conn.sock_inbound
    <2>1. m.block \in Owned(conn.frame_pool) \cup Owned(conn.decoding_pool)
      BY <1>1 DEF ClaimsOK, Issued, Handed
    <2> QED BY <1>1, <1>2, <2>1 DEF ConnMem, Fixed, ConnectionMade
  <1>3. \A x, y, z : Region(x, y, z).block = x
    BY DEF Region
  <1>4. ASSUME NEW u, <<u, m>> \in InUse
        PROVE  \/ u = "inbound" /\ m \in InboundOf(conn)
               \/ u = "got" /\ m \in gotmem
               \/ u = "held" /\ m \in held
               \/ \E i \in 1..Len(q) : u = ToString(i) /\ m \in q[i].mem
    <2> DEFINE w == <<u, m>>
    <2>1. w[1] = u /\ w[2] = m /\ w \in InUse
      BY <1>4
    <2> HIDE DEF w
    <2> QED BY <1>2, <1>3, <2>1, UseCases DEF InboundOf
  <1>5. \A i \in 1..Len(q) : m \in q[i].mem => m \in QueueMem(q)
    BY DEF QueueMem
  <1>6. /\ InboundOf(conn) \cap gotmem = {} /\ InboundOf(conn) \cap held = {}
        /\ gotmem \cap held = {}
        /\ (InboundOf(conn) \cup gotmem \cup held) \cap QueueMem(q) = {}
        /\ \A i, j \in 1..Len(q) : i # j => q[i].mem \cap q[j].mem = {}
    BY <1>1 DEF ClaimsOK
  <1> HIDE DEF q
  <1> QED BY <1>4, <1>5, <1>6

\* Every use is a claim or one of the two buffers of the connection.
LEMMA UseFacts ==
  ASSUME MInv, NEW u \in InUse
  PROVE  \/ /\ u = <<u[1], u[2]>> /\ u[2] \in Claims(conn, gotmem, held)
         \/ /\ conn.outbound = 1
            /\ u = <<"outbound", Region(1, 0, heap[1])>>
         \/ /\ conn.outbound = 1
            /\ u = <<"sock", Region(2, 0, heap[2])>>
  <1>1. CASE conn.state # IDLE /\ u = <<"inbound", conn.inbound>>
    BY <1>1 DEF Claims, InboundOf
  <1>2. CASE \E m \in gotmem : u = <<"got", m>>
    BY <1>2 DEF Claims
  <1>3. CASE \E m \in held : u = <<"held", m>>
    BY <1>3 DEF Claims
  <1>4. CASE \E i \in 1..Len(conn.queue) : \E m \in conn.queue[i].mem : u = <<ToString(i), m>>
    BY <1>4 DEF Claims, QueueMem
  <1>5. CASE /\ conn.outbound # 0
             /\ u \in {<<"outbound", Region(conn.outbound, 0, heap[conn.outbound])>>,
                       <<"sock", Region(conn.sock_inbound, 0, heap[conn.sock_inbound])>>}
    <2>1. conn.outbound = 1 /\ conn.sock_inbound = 2
      BY <1>5 DEF MInv, ConnectionMade
    <2> QED BY <1>5, <2>1
  <1> QED BY <1>1, <1>2, <1>3, <1>4, <1>5, UseCases

\* The memory of the frame being read, of the one just read, of those put aside,
\* of those the application holds and of the two buffers is allocated, and no
\* byte of it has two uses: amqp_simple_rpc, wait_frame_inner,
\* amqp_maybe_release_buffers and amqp_tune_connection never overwrite or free a
\* frame somebody may still look at.
THEOREM MemoryExclusiveCorrect == Spec => []MemoryExclusive
  <1>1. ASSUME MInv PROVE MemoryExclusive
    <2> DEFINE C == Claims(conn, gotmem, held)
               a == Region(1, 0, heap[1])
               b == Region(2, 0, heap[2])
    <2>1. ConnMem(conn, heap) /\ ClaimsOK(conn, heap, gotmem, held) /\ ConnectionMade
      BY <1>1 DEF MInv, MemorySound
    <2>2. ASSUME NEW m \in C
          PROVE  /\ m \in Regions /\ m.block \in DOMAIN heap
                 /\ m.off + m.len <= heap[m.block] /\ m.block \notin Fixed(conn)
      <3>1. Issued(conn, heap, m)
        BY <2>1 DEF ClaimsOK
      <3>2. /\ m \in Regions /\ m.off + m.len <= heap[m.block]
            /\ m.block \in Owned(conn.frame_pool) \cup Owned(conn.decoding_pool)
        BY <3>1 DEF Issued, Handed
      <3> QED BY <2>1, <3>2 DEF ConnMem
    <2>3. ASSUME conn.outbound = 1
          PROVE  /\ Fixed(conn) = {1, 2} /\ 1 \in DOMAIN heap /\ 2 \in DOMAIN heap
                 /\ heap[1] \in Nat /\ heap[2] \in Nat
      <3>1. Fixed(conn) = {1, 2}
        BY <2>1, <2>3 DEF Fixed, ConnectionMade
      <3> QED BY <2>1, <3>1 DEF ConnMem, HeapOK
    <2>4. /\ a.block = 1 /\ a.off = 0 /\ a.len = heap[1]
          /\ b.block = 2 /\ b.off = 0 /\ b.len = heap[2]
      BY DEF Region
    <2> HIDE DEF a, b, C
    <2>5. ASSUME NEW u \in InUse
          PROVE  \/ u = <<u[1], u[2]>> /\ u[2] \in C
                 \/ conn.outbound = 1 /\ u = <<"outbound", a>>
                 \/ conn.outbound = 1 /\ u = <<"sock", b>>
      BY <1>1, UseFacts DEF a, b, C
    <2>6. ASSUME NEW u \in InUse
          PROVE  u[2].block \in DOMAIN heap /\ u[2].off + u[2].len <= heap[u[2].block]
      <3>1. CASE u[2] \in C
        BY <2>2, <3>1
      <3>2. CASE conn.outbound = 1 /\ u[2] \in {a, b}
        BY <2>3, <2>4, <3>2
      <3> QED BY <2>5, <3>1, <3>2
    <2>7. ASSUME NEW u \in InUse, NEW v \in InUse, u # v
          PROVE  ~Overlap(u[2], v[2])
      <3>1. CASE u[2] \in C /\ v[2] \in C /\ u[2] # v[2]
        BY <2>1, <3>1 DEF ClaimsOK, C
      <3>2. CASE u[2] \in C /\ u[2] = v[2] /\ u = <<u[1], u[2]>> /\ v = <<v[1], v[2]>>
        <4>1. u[1] = v[1]
          BY <1>1, <3>2, ClaimOwner DEF C
        <4> QED BY <2>7, <3>2, <4>1
      <3>3. CASE u[2] \in C /\ conn.outbound = 1 /\ v[2] \in {a, b}
        BY <2>2, <2>3, <2>4, <3>3 DEF Overlap
      <3>4. CASE v[2] \in C /\ conn.outbound = 1 /\ u[2] \in {a, b}
        BY <2>2, <2>3, <2>4, <3>4 DEF Overlap
      <3>5. CASE u \in {<<"outbound", a>>, <<"sock", b>>} /\ v \in {<<"outbound", a>>, <<"sock", b>>}
        <4>1. \/ u[2].block = 1 /\ v[2].block = 2
              \/ u[2].block = 2 /\ v[2].block = 1
          BY <2>4, <2>7, <3>5
        <4> QED BY <4>1 DEF Overlap
      <3>6. \/ u = <<u[1], u[2]>> /\ u[2] \in C
            \/ conn.outbound = 1 /\ u \in {<<"outbound", a>>, <<"sock", b>>}
        BY <2>5
      <3>7. \/ v = <<v[1], v[2]>> /\ v[2] \in C
            \/ conn.outbound = 1 /\ v \in {<<"outbound", a>>, <<"sock", b>>}
        BY <2>5
      <3>8. \A w \in {<<"outbound", a>>, <<"sock", b>>} : w[2] \in {a, b}
        OBVIOUS
      <3> QED BY <3>1, <3>2, <3>3, <3>4, <3>5, <3>6, <3>7, <3>8
    <2> QED BY <2>6, <2>7 DEF MemoryExclusive
  <1> QED BY <1>1, MemoryInvariance, PTL

\* Every block is known to a pool of the connection or is one of its buffers, no
\* descriptor and no OpenSSL object is left that the connection does not know;
\* after amqp_destroy_connection there are none at all.
THEOREM NothingLeaksCorrect == Spec => []NothingLeaks
  <1>1. ASSUME MInv PROVE NothingLeaks
    <2>1. /\ DOMAIN heap = Owned(conn.frame_pool) \cup Owned(conn.decoding_pool) \cup Fixed(conn)
          /\ 0 \notin DOMAIN heap
      BY <1>1 DEF MInv, MemorySound, ConnMem, HeapOK, BlockIds
    <2>2. DOMAIN heap = (Blocks(conn.frame_pool.pages) \cup Blocks(conn.frame_pool.large_blocks)
             \cup Blocks(conn.decoding_pool.pages) \cup Blocks(conn.decoding_pool.large_blocks)
             \cup {conn.outbound, conn.sock_inbound}) \ {0}
      BY <2>1 DEF Owned, Fixed
    <2> QED BY <1>1, <2>2 DEF NothingLeaks, MInv, OsSound
  <1> QED BY <1>1, MemoryInvariance, PTL

-----------------------------------------------------------------------------
\* Frames are counted, and their order is kept.

Counts == [calls : Nat, pushes : Nat, decoded : Nat, taken : Nat, shown : Nat]

\* The frames put aside are numbered in the order of their arrival; all of them
\* came after the one shown last and before the one just read.
InOrder(q, n, g) ==
    /\ \A i \in 1..Len(q) : /\ q[i].no \in Nat /\ n.shown < q[i].no
                            /\ q[i].no <= n.decoded
                            /\ g # NoFrame => q[i].no < n.decoded
    /\ \A i, j \in 1..Len(q) : i < j => q[i].no < q[j].no
    /\ n.shown <= n.decoded
    /\ g # NoFrame => n.shown < n.decoded

\* amqp_simple_wait_frame looks at the stream only if no frame waits.
FrameWaits == pc \in {"none", "frame"} => conn.queue = << >>

OrderInv ==
    /\ count \in Counts /\ InOrder(conn.queue, count, got) /\ FrameWaits
    /\ FramesAccounted

FlagsOK ==
    /\ ret.kind \in {"none", "normal", "server", "library", "frame", "error"}
    /\ eof \in BOOLEAN /\ broken \in BOOLEAN /\ late \in BOOLEAN /\ odd \in BOOLEAN

\* Initially nothing is counted.
LEMMA InitOrder == Init => OrderInv
  <1>1. /\ NoCount \in Counts /\ NoCount.shown = 0 /\ NoCount.decoded = 0
        /\ NoCount.taken = 0
    BY DEF NoCount, Counts
  <1>2. NoConn.queue = << >> /\ Len(<< >>) = 0 /\ 1..0 = {}
    BY NoConnFacts
  <1> QED BY <1>1, <1>2 DEF Init, OrderInv, InOrder, FrameWaits, FramesAccounted

\* A new connection starts to count again.
LEMMA GoneOrder == Gone => OrderInv'
  <1>1. /\ NoCount \in Counts /\ NoCount.shown = 0 /\ NoCount.decoded = 0
        /\ NoCount.taken = 0
    BY DEF NoCount, Counts
  <1>2. NoConn.queue = << >> /\ Len(<< >>) = 0 /\ 1..0 = {}
    BY NoConnFacts
  <1> QED BY <1>1, <1>2 DEF Gone, OrderInv, InOrder, FrameWaits, FramesAccounted

\* A step that neither reads nor passes on a frame.
LEMMA SameOrder ==
  ASSUME OrderInv, conn'.queue = conn.queue, got' = got, count' \in Counts,
         count'.decoded = count.decoded, count'.taken = count.taken,
         count'.shown = count.shown,
         pc' \in {"none", "frame"} => conn.queue = << >>,
         pc = "abort" => pc' = "abort"
  PROVE  OrderInv' /\ count'.shown = count.shown
  BY DEF OrderInv, InOrder, FrameWaits, FramesAccounted

\* amqp_handle_input may return a frame.
LEMMA HandleInputOrder ==
  ASSUME MInv, OrderInv, HandleInput
  PROVE  OrderInv' /\ count'.shown = count.shown
  <1> DEFINE r == amqp_handle_input(conn, heap)
  <1>1. /\ Waiting /\ got = NoFrame /\ count \in Counts /\ pc # "abort"
        /\ IsConn(conn) /\ ConnMem(conn, heap) /\ ReaderShape(conn, heap)
        /\ conn.frame_max \in Nat \ {0}
    BY DEF HandleInput, HasInput, Waiting, MInv, MemorySound, ConnectionMade, OrderInv
  <1>2. From(conn, heap, r)
    BY <1>1, HandleInputFrom
  <1>3. r.conn.queue = conn.queue /\ IsConn(r.conn)
    BY <1>2 DEF From, Grows, Kept
  <1>4. \/ conn' = r.conn /\ WaitFails /\ UNCHANGED <<got, count>>
        \/ /\ conn' = [r.conn EXCEPT !.sock = SubSeq(r.conn.sock, r.used + 1, Len(r.conn.sock))]
           /\ got' = r.frame /\ UNCHANGED pc
           /\ count' = [count EXCEPT !.decoded = @ + (IF r.frame = NoFrame THEN 0 ELSE 1)]
    BY DEF HandleInput, frameVars, callVars
  <1> HIDE DEF r
  <1>5. conn'.queue = conn.queue
    BY <1>3, <1>4 DEF IsConn, ConnFields
  <1>6. CASE WaitFails /\ UNCHANGED <<got, count>>
    <2>1. pc' \in {"rpc", "idle", "closed"}
      BY <1>1, <1>6, WaitFailsPlaces
    <2> QED BY <1>1, <1>5, <1>6, <2>1, SameOrder
  <1>7. CASE /\ got' = r.frame /\ UNCHANGED pc /\ r.frame = NoFrame
             /\ count' = [count EXCEPT !.decoded = @ + (IF r.frame = NoFrame THEN 0 ELSE 1)]
    <2>1. /\ count' \in Counts /\ count'.decoded = count.decoded
          /\ count'.taken = count.taken /\ count'.shown = count.shown
      BY <1>1, <1>7 DEF Counts
    <2> QED BY <1>1, <1>5, <1>7, <2>1, SameOrder DEF OrderInv, FrameWaits
  <1>8. CASE /\ got' = r.frame /\ UNCHANGED pc /\ r.frame # NoFrame
             /\ count' = [count EXCEPT !.decoded = @ + (IF r.frame = NoFrame THEN 0 ELSE 1)]
    <2>1. /\ count' \in Counts /\ count'.decoded = count.decoded + 1
          /\ count'.taken = count.taken /\ count'.shown = count.shown
          /\ count.decoded \in Nat /\ count.shown \in Nat /\ count.taken \in Nat
      BY <1>1, <1>8 DEF Counts
    <2>2. InOrder(conn.queue, count, got) /\ count.decoded = count.taken + Len(conn.queue) + 0
      BY <1>1 DEF OrderInv, FramesAccounted
    <2>3. InOrder(conn.queue, count', got')
      BY <2>1, <2>2 DEF InOrder
    <2>4. Len(conn.queue) \in Nat
      BY DEF MInv, MemorySound, IsQueue
    <2>5. count'.decoded = count'.taken + Len(conn.queue) + 1
      BY <2>1, <2>2, <2>4
    <2> QED BY <1>5, <1>8, <2>1, <2>3, <2>5 DEF OrderInv, FrameWaits, FramesAccounted
  <1> QED BY <1>4, <1>6, <1>7, <1>8

\* A frame is passed on and not put aside; it may be shown to the application.
LEMMA PassedOn ==
  ASSUME MInv, OrderInv, got # NoFrame, got' = NoFrame, conn'.queue = conn.queue,
         pc \in {"start", "tune", "rpc", "frame"}, pc' \notin {"none", "frame"},
         \/ count' = [count EXCEPT !.taken = @ + 1]
         \/ /\ pc = "frame"
            /\ count' = [count EXCEPT !.taken = @ + 1, !.shown = count.decoded]
  PROVE  OrderInv' /\ count'.shown >= count.shown
  <1>1. /\ count \in Counts /\ InOrder(conn.queue, count, got)
        /\ count.decoded = count.taken + Len(conn.queue) + 1
        /\ pc = "frame" => conn.queue = << >>
    BY DEF OrderInv, FramesAccounted, FrameWaits
  <1>2. /\ count.decoded \in Nat /\ count.taken \in Nat /\ count.shown \in Nat
    BY <1>1 DEF Counts
  <1>3. /\ count' \in Counts /\ count'.decoded = count.decoded
        /\ count'.taken = count.taken + 1
        /\ \/ count'.shown = count.shown
           \/ count'.shown = count.decoded /\ conn.queue = << >>
    <2>1. CASE count' = [count EXCEPT !.taken = @ + 1]
      BY <1>1, <2>1 DEF Counts
    <2>2. CASE /\ pc = "frame"
               /\ count' = [count EXCEPT !.taken = @ + 1, !.shown = count.decoded]
      <3> DEFINE t == [count EXCEPT !.taken = count.taken + 1]
      <3>1. /\ t \in Counts /\ t.decoded = count.decoded
            /\ t.taken = count.taken + 1
        BY <1>1 DEF Counts
      <3>2. count' = [t EXCEPT !.shown = count.decoded]
        BY <2>2
      <3> HIDE DEF t
      <3>3. /\ count' \in Counts /\ count'.decoded = t.decoded
            /\ count'.taken = t.taken /\ count'.shown = count.decoded
        BY <1>2, <3>1, <3>2 DEF Counts
      <3> QED BY <1>1, <2>2, <3>1, <3>3
    <2> QED BY <2>1, <2>2
  <1>4. Len(conn.queue) \in Nat
    BY DEF MInv, MemorySound, IsQueue
  <1>5. count'.decoded = count'.taken + Len(conn.queue) + 0
    BY <1>1, <1>2, <1>3, <1>4
  <1>6. InOrder(conn.queue, count', NoFrame) /\ count'.shown >= count.shown
    <2>1. CASE count'.shown = count.shown
      BY <1>1, <1>2, <1>3, <2>1 DEF InOrder
    <2>2. CASE count'.shown = count.decoded /\ conn.queue = << >>
      <3>1. 1..Len(conn.queue) = {}
        BY <2>2
      <3> QED BY <1>1, <1>2, <1>3, <2>2, <3>1 DEF InOrder
    <2> QED BY <1>3, <2>1, <2>2
  <1> QED BY <1>3, <1>5, <1>6 DEF OrderInv, FrameWaits, FramesAccounted

\* The login, and the end of a call.
LEMMA DispatchOrder ==
  ASSUME MInv, OrderInv, Dispatch
  PROVE  OrderInv' /\ count'.shown >= count.shown
  <1>1. /\ IsConn(conn) /\ ConnMem(conn, heap) /\ count \in Counts
        /\ conn.frame_max \in Nat \ {0} \/ pc = "none"
        /\ pc # "none" => conn.outbound # 0
    BY DEF MInv, MemorySound, ConnectionMade, OrderInv
  <1>2. count.shown \in Nat /\ count.decoded \in Nat /\ count.taken \in Nat
    BY <1>1 DEF Counts
  <1>3. Recycled(conn, heap).conn.queue = conn.queue
    BY <1>1, RecycledFacts DEF Kept
  <1>4. CASE Abort
    <2>1. /\ pc' = "abort" /\ got' = NoFrame /\ UNCHANGED <<conn, count>>
      BY <1>4 DEF Abort, Taken
    <2> QED BY <1>2, <2>1 DEF OrderInv, InOrder, FrameWaits, FramesAccounted
  <1>5. CASE LoginStart \/ LoginTune
    <2>1. ASSUME NEW m, Advance(m), m.conn.queue = conn.queue,
                 got # NoFrame, pc \in {"start", "tune"},
                 pc' \in {"tune", "open", "rpc", "idle", "closed"}
          PROVE  OrderInv' /\ count'.shown >= count.shown
      <3>1. /\ conn'.queue = conn.queue /\ got' = NoFrame
            /\ count' = [count EXCEPT !.taken = @ + 1]
        BY <2>1 DEF Advance, Taken
      <3> QED BY <2>1, <3>1, PassedOn
    <2>2. CASE LoginStart
      <3> DEFINE d == Decoding(conn, heap, SizeOfStruct)
                 e == Recycled(d.conn, d.heap)
                 m == [conn |-> conn, heap |-> heap]
      <3>1. SizeOfStruct \in Nat \ {0} /\ m.conn.queue = conn.queue
        BY DEF SizeOfStruct
      <3>2. IsConn(d.conn) /\ ConnMem(d.conn, d.heap) /\ d.conn.queue = conn.queue
        BY <1>1, <3>1, DecodingFacts DEF Grows, Kept
      <3>3. /\ got # NoFrame /\ pc = "start"
            /\ \/ Advance(m) /\ Open
               \/ Advance(e) /\ pc' = "tune"
               \/ Advance(d) /\ Open
        BY <2>2 DEF LoginStart
      <3> HIDE DEF d, m
      <3>4. e.conn.queue = conn.queue
        BY <3>2, RecycledFacts DEF Kept
      <3> HIDE DEF e
      <3> QED BY <2>1, <3>1, <3>2, <3>3, <3>4, OpenPlaces
    <2>3. CASE LoginTune
      <3> DEFINE n == Negotiated(got.arg)
                 t == amqp_tune_connection(conn, heap, n)
                 e == Recycled(t.conn, t.heap)
      <3>1. n \in Nat \ {0}
        BY SMT, ConnAssumption DEF Negotiated, Sizes, Number, MinFrame
      <3>2. /\ got # NoFrame /\ pc = "tune"
            /\ \/ Advance(e) /\ pc' = "open"
               \/ Advance(t) /\ Open
        BY <2>3 DEF LoginTune
      <3> HIDE DEF n
      <3>3. IsConn(t.conn) /\ ConnMem(t.conn, t.heap) /\ t.conn.queue = conn.queue
        BY <1>1, <3>1, <3>2, TuneFacts
      <3> HIDE DEF t
      <3>4. e.conn.queue = conn.queue
        BY <3>3, RecycledFacts DEF Kept
      <3> HIDE DEF e
      <3> QED BY <2>1, <3>2, <3>3, <3>4, OpenPlaces
    <2> QED BY <1>5, <2>2, <2>3
  <1>6. CASE LoginOpen
    <2>1. /\ pc = "open" /\ UNCHANGED <<conn, got, count>> /\ pc' \in {"rpc", "idle", "closed"}
      BY <1>6, OpenPlaces DEF LoginOpen, frameVars
    <2> QED BY <1>1, <1>2, <2>1, SameOrder
  <1>7. CASE RpcEnds
    <2>1. /\ pc = "rpc" /\ got # NoFrame /\ got' = NoFrame /\ pc' \in {"idle", "closed"}
          /\ count' = [count EXCEPT !.taken = @ + 1]
          /\ UNCHANGED conn \/ conn' = Recycled(conn, heap).conn
      BY <1>7 DEF RpcEnds, Return, Taken, amqp_maybe_release_buffers
    <2> QED BY <1>3, <2>1, PassedOn
  <1>8. CASE FrameReturned
    <2>1. /\ pc = "frame" /\ got # NoFrame /\ got' = NoFrame /\ pc' \in {"idle", "closed"}
          /\ count' = [count EXCEPT !.taken = @ + 1, !.shown = count.decoded]
          /\ UNCHANGED conn
      BY <1>8 DEF FrameReturned, Return, Taken
    <2> QED BY <2>1, PassedOn
  <1>9. CASE RpcQueues
    <2> DEFINE f == Decoding(conn, heap, SizeOfFrame)
               l == Decoding(f.conn, f.heap, SizeOfLink)
               b == [frame |-> got, no |-> count.decoded, mem |-> gotmem \cup {f.at, l.at}]
               q == conn.queue
               p == Append(q, b)
    <2>1. /\ pc = "rpc" /\ got # NoFrame /\ got' = NoFrame
          /\ conn' = [l.conn EXCEPT !.queue = Append(l.conn.queue, b)]
          /\ UNCHANGED <<pc, count>>
      BY <1>9 DEF RpcQueues, Enqueue, Taken, callVars
    <2>2. SizeOfFrame \in Nat \ {0} /\ SizeOfLink \in Nat \ {0} /\ b.no = count.decoded
      BY DEF SizeOfFrame, SizeOfLink
    <2>3. IsConn(f.conn) /\ ConnMem(f.conn, f.heap) /\ f.conn.queue = q
      BY <1>1, <2>2, DecodingFacts DEF Grows, Kept
    <2> HIDE DEF f
    <2>4. IsConn(l.conn) /\ l.conn.queue = f.conn.queue
      BY <2>2, <2>3, DecodingFacts DEF Grows, Kept
    <2> HIDE DEF l, b
    <2>5. conn'.queue = p
      BY <2>1, <2>3, <2>4 DEF IsConn, ConnFields
    <2>6. PICK S : q \in Seq(S)
      BY DEF MInv, MemorySound, IsQueue
    <2>7. /\ Len(q) \in Nat /\ Len(p) = Len(q) + 1 /\ p[Len(p)] = b
          /\ \A i \in 1..Len(q) : p[i] = q[i]
          /\ \A i \in 1..Len(p) : i \in 1..Len(q) \/ i = Len(p)
      BY <2>6
    <2>8. /\ InOrder(q, count, got) /\ count.decoded = count.taken + Len(q) + 1
      BY <2>1 DEF OrderInv, FramesAccounted
    <2> HIDE DEF p, q
    <2>9. InOrder(p, count, NoFrame)
      <3>1. \A i \in 1..Len(p) : /\ p[i].no \in Nat /\ count.shown < p[i].no
                                 /\ p[i].no <= count.decoded
        BY <1>2, <2>1, <2>2, <2>7, <2>8 DEF InOrder
      <3>2. ASSUME NEW i \in 1..Len(p), NEW j \in 1..Len(p), i < j
            PROVE  p[i].no < p[j].no
        <4>1. i \in 1..Len(q)
          BY <2>7, <3>2
        <4>2. CASE j \in 1..Len(q)
          BY <2>7, <2>8, <3>2, <4>1, <4>2 DEF InOrder
        <4>3. CASE j = Len(p)
          BY <2>1, <2>2, <2>7, <2>8, <4>1, <4>3 DEF InOrder
        <4> QED BY <2>7, <4>2, <4>3
      <3> QED BY <1>2, <2>8, <3>1, <3>2 DEF InOrder
    <2>10. count.decoded = count.taken + Len(p) + 0
      BY SMTT(30), <1>2, <2>7, <2>8
    <2>11. InOrder(conn'.queue, count', got') /\ count' \in Counts /\ FrameWaits'
      BY <1>1, <2>1, <2>5, <2>9 DEF FrameWaits
    <2>12. FramesAccounted'
      BY <2>1, <2>5, <2>10 DEF FramesAccounted
    <2> QED BY <1>2, <2>1, <2>11, <2>12 DEF OrderInv
  <1> QED BY <1>4, <1>5, <1>6, <1>7, <1>8, <1>9 DEF Dispatch

\* The oldest frame put aside is shown.
LEMMA QueuedFrameOrder ==
  ASSUME MInv, OrderInv, QueuedFrame
  PROVE  OrderInv' /\ count'.shown > count.shown
  <1> DEFINE q == conn.queue
             p == Tail(q)
             t == [count EXCEPT !.calls = count.calls + 1]
             u == [t EXCEPT !.taken = t.taken + 1]
  <1>1. /\ pc = "idle" /\ pc' \in {"idle", "closed"} /\ q # << >>
        /\ conn' = [conn EXCEPT !.queue = p] /\ got' = got
        /\ count' = [count EXCEPT !.calls = @ + 1, !.taken = @ + 1, !.shown = Head(q).no]
    BY DEF QueuedFrame, Calling, Return, Dequeue, frameVars
  <1>2. got = NoFrame /\ IsConn(conn) /\ count \in Counts
    BY <1>1 DEF MInv, MemorySound, FrameSettled, Waiting, OrderInv
  <1>3. conn'.queue = p
    BY <1>1, <1>2 DEF IsConn, ConnFields
  <1>4. PICK S : q \in Seq(S)
    BY DEF MInv, MemorySound, IsQueue
  <1>5. /\ Len(q) \in Nat \ {0} /\ Len(p) = Len(q) - 1 /\ Head(q) = q[1]
        /\ 1 \in 1..Len(q)
        /\ \A i \in 1..Len(p) : p[i] = q[i + 1] /\ i + 1 \in 1..Len(q) /\ 1 < i + 1
    BY <1>1, <1>4
  <1>6. /\ InOrder(q, count, NoFrame) /\ count.decoded = count.taken + Len(q) + 0
    BY <1>1, <1>2 DEF OrderInv, FramesAccounted
  <1> HIDE DEF p, q
  <1>7. Head(q).no \in Nat /\ count.shown < Head(q).no /\ Head(q).no <= count.decoded
    BY <1>5, <1>6 DEF InOrder
  <1>8. /\ t \in Counts /\ t.decoded = count.decoded /\ t.taken = count.taken
        /\ t.shown = count.shown
    BY <1>2 DEF Counts
  <1>9. count' = [u EXCEPT !.shown = Head(q).no]
    BY <1>1, <1>2 DEF Counts
  <1> HIDE DEF t
  <1>10. /\ u \in Counts /\ u.decoded = t.decoded /\ u.taken = t.taken + 1
    BY <1>8 DEF Counts
  <1> HIDE DEF u
  <1>11. /\ count' \in Counts /\ count'.decoded = count.decoded
         /\ count'.taken = count.taken + 1 /\ count'.shown = Head(q).no
    BY <1>7, <1>8, <1>9, <1>10 DEF Counts
  <1>12. count.decoded \in Nat /\ count.taken \in Nat /\ count.shown \in Nat
    BY <1>2 DEF Counts
  <1>13. InOrder(p, count', NoFrame)
    <2>1. ASSUME NEW i \in 1..Len(p)
          PROVE  /\ p[i].no \in Nat /\ p[i].no <= count'.decoded
                 /\ count'.shown < p[i].no
      BY <1>5, <1>6, <1>11 DEF InOrder
    <2>2. ASSUME NEW i \in 1..Len(p), NEW j \in 1..Len(p), i < j
          PROVE  p[i].no < p[j].no
      <3>1. i + 1 \in 1..Len(q) /\ j + 1 \in 1..Len(q) /\ i + 1 < j + 1
        BY <1>5, <2>2
      <3> QED BY <1>5, <1>6, <3>1 DEF InOrder
    <2> QED BY <1>7, <1>11, <2>1, <2>2 DEF InOrder
  <1>14. count'.decoded = count'.taken + Len(p) + 0
    BY <1>5, <1>6, <1>11, <1>12
  <1>15. FramesAccounted' /\ FrameWaits'
    BY <1>1, <1>2, <1>3, <1>14 DEF FramesAccounted, FrameWaits
  <1> QED BY <1>1, <1>2, <1>3, <1>7, <1>11, <1>13, <1>15 DEF OrderInv

\* What the application and the broker do otherwise.
LEMMA OthersOrder ==
  ASSUME MInv, OrderInv, Receive \/ Application \/ Broker \/ UNCHANGED vars
  PROVE  OrderInv' /\ (count'.shown >= count.shown \/ pc' = "none")
  <1>1. /\ IsConn(conn) /\ ConnMem(conn, heap) /\ count \in Counts
        /\ pc \in {"none", "frame"} => conn.queue = << >>
    BY DEF MInv, MemorySound, OrderInv, FrameWaits
  <1>2. count.shown \in Nat
    BY <1>1 DEF Counts
  <1>3. \A f \in {"sock", "sockfd", "ssl"} : \A x : [conn EXCEPT ![f] = x].queue = conn.queue
    BY <1>1 DEF IsConn, ConnFields
  <1>4. ASSUME \/ count' = [count EXCEPT !.calls = @ + 1]
               \/ count' = [count EXCEPT !.pushes = @ + 1]
        PROVE  /\ count' \in Counts /\ count'.decoded = count.decoded
               /\ count'.taken = count.taken /\ count'.shown = count.shown
    BY <1>1, <1>4 DEF Counts
  <1>5. CASE Receive
    <2>1. ASSUME NEW n, Read(n) PROVE OrderInv' /\ count'.shown = count.shown
      <3>1. /\ conn' = [conn EXCEPT !.sock = SubSeq(net, 1, n)]
            /\ UNCHANGED <<pc, got, count>>
        BY <2>1 DEF Read, callVars, frameVars
      <3>2. conn'.queue = conn.queue
        BY <1>1, <3>1 DEF IsConn, ConnFields
      <3> QED BY <1>1, <3>1, <3>2, SameOrder
    <2>2. CASE ReadEOF \/ ReadError
      <3>1. UNCHANGED <<conn, got, count>> /\ Waiting /\ WaitFails
        BY <2>2 DEF ReadEOF, ReadError, Reading, frameVars
      <3>2. pc' \in {"rpc", "idle", "closed"} /\ pc # "abort"
        BY <3>1, WaitFailsPlaces DEF Waiting
      <3> QED BY <1>1, <1>2, <3>1, <3>2, SameOrder
    <2> QED BY <1>2, <1>5, <2>1, <2>2 DEF Receive
  <1>6. CASE New
    <2>1. pc = "none" /\ pc' = "fresh" /\ conn' = amqp_new_connection.conn /\ UNCHANGED <<got, count>>
      BY <1>6 DEF New, frameVars
    <2>2. conn'.queue = << >>
      BY <2>1, NewFacts
    <2> QED BY <1>1, <1>2, <2>1, <2>2, SameOrder
  <1>7. CASE Login
    <2>1. pc = "connected" /\ pc' = "start" /\ UNCHANGED <<conn, got, count>>
      BY <1>7 DEF Login, frameVars
    <2> QED BY <1>1, <1>2, <2>1, SameOrder
  <1>8. CASE WaitFrame
    <2>1. /\ pc = "idle" /\ pc' = "frame" /\ conn.queue = << >> /\ UNCHANGED <<conn, got>>
          /\ count' = [count EXCEPT !.calls = @ + 1]
      BY <1>8 DEF WaitFrame, Calling, frameVars
    <2>2. /\ count' \in Counts /\ count'.decoded = count.decoded
          /\ count'.taken = count.taken /\ count'.shown = count.shown
      BY <1>4, <2>1
    <2> QED BY <1>2, <2>1, <2>2, SameOrder
  <1>9. ASSUME NEW q, SimpleRpc(q) PROVE OrderInv' /\ count'.shown = count.shown
    <2>1. /\ pc = "idle" /\ pc' \in {"rpc", "idle", "closed"} /\ UNCHANGED <<conn, got>>
          /\ count' = [count EXCEPT !.calls = @ + 1]
      BY <1>9 DEF SimpleRpc, Calling, Return, frameVars
    <2>2. /\ count' \in Counts /\ count'.decoded = count.decoded
          /\ count'.taken = count.taken /\ count'.shown = count.shown
      BY <1>4, <2>1
    <2> QED BY <2>1, <2>2, SameOrder
  <1>10. ASSUME NEW a, NEW b, Connect(a, b) PROVE OrderInv' /\ count'.shown = count.shown
    <2>1. /\ pc = "fresh" /\ pc' \in {"closed", "connected"} /\ UNCHANGED <<got, count>>
          /\ conn' = [conn EXCEPT !.sockfd = amqp_open_socket(a, b).fd]
      BY <1>10 DEF Connect, frameVars
    <2> QED BY <1>1, <1>3, <2>1, SameOrder
  <1>11. ASSUME NEW e, Handshake(e) PROVE OrderInv' /\ count'.shown = count.shown
    <2>1. /\ pc = "connected" /\ pc' \in {"closed", "connected"} /\ UNCHANGED <<got, count>>
          /\ conn' = [conn EXCEPT !.ssl = amqp_ssl_handshake(e).ssl]
      BY <1>11 DEF Handshake, frameVars
    <2> QED BY <1>1, <1>3, <2>1, SameOrder
  <1>12. CASE MaybeRelease
    <2>1. /\ pc = "idle" /\ UNCHANGED <<pc, got, count>>
          /\ UNCHANGED conn \/ conn' = Recycled(conn, heap).conn
      BY <1>12 DEF MaybeRelease, amqp_maybe_release_buffers, callVars, frameVars
    <2>2. conn'.queue = conn.queue
      BY <1>1, <2>1, RecycledFacts DEF Kept
    <2> QED BY <1>1, <1>2, <2>1, <2>2, SameOrder
  <1>13. CASE Destroy \/ Restart
    BY <1>13, GoneOrder DEF Destroy, Restart, Gone
  <1>14. CASE Broker
    <2>1. /\ UNCHANGED ToClient
          /\ UNCHANGED count \/ count' = [count EXCEPT !.pushes = @ + 1]
      BY <1>14 DEF Broker, BrokerReads, BrokerPushes, BrokerCloses, BrokerErrs, Pushing
    <2>2. UNCHANGED <<conn, pc, got>>
      BY <2>1 DEF ToClient, frameVars
    <2>3. /\ count' \in Counts /\ count'.decoded = count.decoded
          /\ count'.taken = count.taken /\ count'.shown = count.shown
      BY <1>1, <1>4, <2>1
    <2> QED BY <1>1, <1>2, <2>2, <2>3, SameOrder
  <1>15. CASE UNCHANGED vars
    <2>1. UNCHANGED <<conn, pc, got, count>>
      BY <1>15 DEF vars, callVars, frameVars
    <2> QED BY <1>1, <1>2, <2>1, SameOrder
  <1>16. CASE QueuedFrame
    <2>1. OrderInv' /\ count'.shown > count.shown
      BY <1>16, QueuedFrameOrder
    <2>2. count'.shown \in Nat
      BY <2>1 DEF OrderInv, Counts
    <2> QED BY <1>2, <2>1, <2>2
  <1> QED BY <1>2, <1>5, <1>6, <1>7, <1>8, <1>9, <1>10, <1>11, <1>12, <1>13, <1>14,
             <1>15, <1>16 DEF Application

\* Every step keeps the order, and what is shown never goes back.
LEMMA NextOrder ==
  ASSUME MInv, OrderInv, [Next]_vars
  PROVE  OrderInv' /\ (count'.shown >= count.shown \/ pc' = "none")
  <1>1. CASE HandleInput
    <2>1. OrderInv' /\ count'.shown = count.shown
      BY <1>1, HandleInputOrder
    <2>2. count'.shown \in Nat
      BY <2>1 DEF OrderInv, Counts
    <2> QED BY <2>1, <2>2
  <1> QED BY <1>1, DispatchOrder, OthersOrder DEF Next, Client

\* Every frame that wait_frame_inner returned was passed on once or waits in the
\* queue of amqp_simple_rpc: none is lost and none comes twice, until abort().
THEOREM FramesAccountedCorrect == Spec => []FramesAccounted
  <1>1. OrderInv => FramesAccounted
    BY DEF OrderInv
  <1> QED BY <1>1, InitOrder, NextOrder, MemoryInvariance, PTL DEF Spec

\* amqp_simple_wait_frame shows frames in the order of their arrival, whether
\* amqp_simple_rpc had put them aside or they came later.
THEOREM ShownInOrderCorrect == Spec => ShownInOrder
  <1>1. ASSUME MInv, OrderInv, [Next]_vars, ~UNCHANGED vars
        PROVE  count'.shown # count.shown => count'.shown > count.shown \/ pc' = "none"
    <2>1. OrderInv' /\ (count'.shown >= count.shown \/ pc' = "none")
      BY <1>1, NextOrder
    <2>2. count.shown \in Nat /\ count'.shown \in Nat
      BY <1>1, <2>1 DEF OrderInv, Counts
    <2> QED BY <2>1, <2>2
  <1>2. MInv /\ OrderInv /\ [Next]_vars =>
          [count'.shown # count.shown => count'.shown > count.shown \/ pc' = "none"]_vars
    BY <1>1
  <1> QED BY <1>2, InitOrder, NextOrder, MemoryInvariance, PTL DEF Spec, ShownInOrder

-----------------------------------------------------------------------------
\* Types.

Kinds == {"none", "normal", "server", "library", "frame", "error"}

\* What a call may return.
LEMMA ReturnKind ==
  ASSUME NEW k \in Kinds, NEW f, Return(k, f)
  PROVE  ret'.kind \in Kinds
  BY DEF Return

\* A wait that fails leaves a kind of result and a flag.
LEMMA WaitFailsFlags ==
  ASSUME FlagsOK, WaitFails
  PROVE  ret'.kind \in Kinds /\ late' \in BOOLEAN
  <1>1. ret' = ret \/ \E k \in Kinds : \E f : Return(k, f)
    BY DEF WaitFails, Open, Kinds
  <1>2. late' = late \/ late' = TRUE
    BY DEF WaitFails, Open
  <1>3. ret'.kind \in Kinds
    BY <1>1, ReturnKind DEF FlagsOK, Kinds
  <1>4. late' \in BOOLEAN
    BY <1>2, Zenon DEF FlagsOK
  <1> QED BY <1>3, <1>4

\* Flags stay flags, and kinds of results kinds.
LEMMA NextFlags ==
  ASSUME FlagsOK, [Next]_vars
  PROVE  FlagsOK'
  <1> USE DEF callVars, frameVars, streamVars, peerVars, Kinds
  <1>1. CASE HandleInput
    <2>1. UNCHANGED <<eof, odd>>
      BY <1>1 DEF HandleInput
    <2>2. \/ broken' = TRUE /\ WaitFails
          \/ UNCHANGED <<ret, late, broken>>
      BY <1>1 DEF HandleInput
    <2> QED BY <2>1, <2>2, WaitFailsFlags DEF FlagsOK
  <1>2. CASE Receive
    <2>1. ASSUME NEW n, Read(n) PROVE UNCHANGED <<eof, odd, broken, ret, late>>
      BY <2>1 DEF Read
    <2>2. /\ UNCHANGED <<eof, odd, broken>>
          /\ WaitFails \/ UNCHANGED <<ret, late>>
      BY <1>2, <2>1 DEF Receive, ReadEOF, ReadError
    <2> QED BY <2>2, WaitFailsFlags DEF FlagsOK
  <1>3. CASE Dispatch
    <2>1. UNCHANGED <<eof, odd, broken, late>>
      BY <1>3 DEF Dispatch, Abort, LoginStart, LoginTune, LoginOpen, RpcEnds,
                  RpcQueues, FrameReturned, Taken, Advance, Open
    <2>2. ret' = ret \/ \E k \in Kinds : \E f : Return(k, f)
      BY <1>3 DEF Dispatch, Abort, LoginStart, LoginTune, LoginOpen, RpcEnds,
                  RpcQueues, FrameReturned, Open
    <2> QED BY <2>1, <2>2, ReturnKind DEF FlagsOK
  <1>4. CASE Destroy \/ Restart
    <2>1. /\ ret' = NoRet /\ eof' = FALSE /\ broken' = FALSE /\ late' = FALSE
          /\ odd' = FALSE
      BY <1>4 DEF Destroy, Restart, Gone
    <2>2. ret'.kind \in Kinds
      BY <2>1 DEF NoRet
    <2> QED BY <2>1, <2>2, Zenon DEF FlagsOK
  <1>5. CASE \/ New \/ Login \/ WaitFrame \/ QueuedFrame \/ MaybeRelease
             \/ \E q \in Requests : SimpleRpc(q)
             \/ \E addrs \in Addresses, b \in BOOLEAN : Connect(addrs, b)
             \/ \E v \in BOOLEAN : \E e \in TlsEnds(v) : Handshake(e)
    <2>1. UNCHANGED <<eof, odd, broken, late>>
      BY <1>5 DEF New, Login, WaitFrame, QueuedFrame, MaybeRelease, SimpleRpc,
                  Connect, Handshake
    <2>2. ret' = ret \/ ret' = NoRet \/ \E k \in Kinds : \E f : Return(k, f)
      BY <1>5 DEF New, Login, WaitFrame, QueuedFrame, MaybeRelease, SimpleRpc,
                  Connect, Handshake
    <2>3. NoRet.kind \in Kinds
      BY DEF NoRet
    <2> QED BY <2>1, <2>2, <2>3, ReturnKind DEF FlagsOK
  <1>6. CASE Broker
    <2>1. UNCHANGED ToClient
      BY <1>6 DEF Broker, BrokerReads, BrokerPushes, BrokerCloses, BrokerErrs, Pushing
    <2>2. UNCHANGED <<ret, late, broken>>
      BY <2>1 DEF ToClient
    <2>3. eof' = eof \/ eof' = TRUE
      BY <1>6 DEF Broker, BrokerReads, BrokerPushes, BrokerCloses, BrokerErrs,
                  Answer, Refuse, Stays
    <2>4. odd' \in BOOLEAN
      <3>1. CASE BrokerReads
        <4>1. odd' = odd \/ odd' = (odd \/ Follows(Head(mail)))
          BY <3>1 DEF BrokerReads, Answer, Refuse, Stays
        <4>2. (odd \/ Follows(Head(mail))) \in BOOLEAN
          BY DEF FlagsOK
        <4> QED BY <4>1, <4>2 DEF FlagsOK
      <3>2. CASE BrokerPushes \/ BrokerCloses \/ BrokerErrs
        BY <3>2 DEF BrokerPushes, BrokerCloses, BrokerErrs, FlagsOK
      <3> QED BY <1>6, <3>1, <3>2 DEF Broker
    <2> QED BY <2>2, <2>3, <2>4 DEF FlagsOK
  <1>7. CASE UNCHANGED vars
    BY <1>7 DEF vars, FlagsOK
  <1> QED BY <1>1, <1>2, <1>3, <1>4, <1>5, <1>6, <1>7 DEF Next, Client, Application

\* The state of the reader, the place of the program, the kinds of results and
\* the flags are what the code declares, and a frame that wait_frame_inner has
\* returned is looked at by the call that waits for it.
THEOREM TypeCorrect == Spec => []TypeOK
  <1>1. Init => FlagsOK
    <2>1. NoRet.kind \in Kinds
      BY DEF NoRet, Kinds
    <2> QED BY <2>1, Zenon DEF Init, FlagsOK, Kinds
  <1>2. MInv /\ FlagsOK => TypeOK
    BY DEF MInv, FlagsOK, TypeOK, MemorySound, ReaderShape, ConnectionMade,
           FrameSettled, States, Places
  <1> QED BY <1>1, <1>2, NextFlags, MemoryInvariance, PTL DEF Spec
=============================================================================
