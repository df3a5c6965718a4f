------------------------------ MODULE AmqpConn ------------------------------
(***************************************************************************)
(* A connection of the bundled librabbitmq as its application sees it:     *)
(* the frame reader of amqp_connection.c, the waits, the RPC and the login *)
(* of amqp_socket.c, on the pools of AmqpPool, over a stream the kernel    *)
(* cuts into chunks as it likes.  At the other end is a broker of AMQP 0-8 *)
(* that is not part of the library.                                        *)
(*                                                                         *)
(* Frames are bytes here, with the real header, method number and end      *)
(* byte; the arguments of a method, which AmqpCodec is about, are one      *)
(* number of 32 bits.  Frames are sent in one piece: how they get onto the *)
(* wire is AmqpSend.                                                       *)
(***************************************************************************)
EXTENDS AmqpBytes, AmqpFraming, AmqpApi, AmqpPool, AmqpTransport, SequencesExt

CONSTANTS
    Requests,         \* what the application calls by RPC, on channel 1
    Addresses,        \* the outcomes for the addresses of the host
    Tls,              \* whether the application wants TLS
    Chunks,           \* how much a read may return
    FirstFrameMax,    \* INITIAL_FRAME_POOL_PAGE_SIZE
    LoginFrameMax,    \* frame_max as amqp_login is called with it
    ServerFrameMax,   \* the values a broker proposes in connection.tune
    DecodingPage,     \* INITIAL_DECODING_POOL_PAGE_SIZE
    MaxPushes,        \* what the broker sends unasked on a connection
    MaxCalls          \* calls after the login on a connection

MinFrame == 22            \* the longest frame a broker sends here; AMQP has 4096
MaxNumber == 2147483647   \* frame_max and the arguments are positive ints
Number == {n \in Nat : n <= MaxNumber}
Sizes  == {n \in Number : n >= MinFrame}

\* What a broker sends without a call that waits for it.
Unasked == {"basic_return", "channel_close", "connection_close",
            "connection_start", "connection_tune"}

ASSUME ConnAssumption ==
    /\ {FirstFrameMax, LoginFrameMax} \subseteq Sizes /\ DecodingPage \in Nat \ {0}
    /\ ServerFrameMax \subseteq Nat /\ \A n \in ServerFrameMax : n = 0 \/ n \in Sizes
    /\ {MaxPushes, MaxCalls} \subseteq Number /\ Tls \in BOOLEAN
    /\ Chunks \subseteq Nat \ {0}
    /\ Addresses \subseteq Seq(Outcomes)
    /\ \A q \in Requests : /\ q.replies \subseteq Methods
                           /\ Numbers(q.replies) \cap Numbers(Unasked) = {}

VARIABLES
    conn,     \* struct amqp_connection_state_t_
    heap,     \* the blocks malloc has handed out
    os,       \* descriptors and OpenSSL objects that exist
    pc,       \* the call that is running
    call,     \* its parameters
    got,      \* the frame wait_frame_inner has just returned, if any
    gotmem,   \* and the memory it lies in
    ret,      \* what the last call returned
    net,      \* bytes on the way to the client
    eof,      \* and nothing after them
    sent,     \* history: frames the broker has sent that are not decoded yet
    mail,     \* methods on the way to the broker
    broker,   \* how far the broker is
    held,     \* history: memory the application may use
    broken,   \* history: amqp_handle_input has returned an error
    late,     \* history: an RPC was given up, its answer may still come
    odd,      \* history: the broker refused the login or broke the protocol
    count     \* history: calls, pushes, and frames decoded, taken and shown

callVars   == <<pc, call, ret, mail, late>>
frameVars  == <<got, gotmem>>
streamVars == <<net, eof, sent>>
peerVars   == <<broker, odd>>
vars == <<conn, heap, os, callVars, frameVars, streamVars, peerVars, held,
          broken, count>>

-----------------------------------------------------------------------------
\* Frames and their bytes.

AMQP_PSEUDOFRAME_PROTOCOL_HEADER  == 65
AMQP_PSEUDOFRAME_PROTOCOL_CHANNEL == 77 * 256 + 81
ProtocolMajor == 8
OddFrame == 7   \* AMQP_FRAME_TRACE, a type that amqp_handle_input ignores

MethodFrame(ch, m, arg) ==
    [type |-> AMQP_FRAME_METHOD, channel |-> ch, id |-> MethodNumber(m), arg |-> arg]
OtherFrame(type, ch, arg) ==
    [type |-> type, channel |-> ch, id |-> 0, arg |-> arg]

Payload(f) ==
    CASE f.type = AMQP_FRAME_METHOD -> E_32(f.id) \o E_32(f.arg)
      [] f.type = AMQP_FRAME_HEADER -> E_16(60) \o E_16(0) \o E_64(<<0, 1>>) \o E_16(f.arg)
      [] f.type = AMQP_FRAME_BODY   -> E_32(f.arg)
      [] OTHER                      -> << >>

Framed(f, payload) ==
    E_8(f.type) \o E_16(f.channel) \o E_32(Len(payload)) \o payload \o <<AMQP_FRAME_END>>
Bytes(f) ==
    IF f.type = AMQP_PSEUDOFRAME_PROTOCOL_HEADER
    THEN <<65, 77, 81, 80, 1, 1, f.arg, 0>>
    ELSE Framed(f, Payload(f))

-----------------------------------------------------------------------------
\* amqp_connection.c.

IDLE            == "IDLE"
WAIT_HEADER     == "WAITING_FOR_HEADER"
WAIT_BODY       == "WAITING_FOR_BODY"
WAIT_PROTOCOL   == "WAITING_FOR_PROTOCOL_HEADER"

\* inbound_buffer holds its first Len(buf) bytes: inbound_offset.
Idle_Bug(c) == [c EXCEPT !.inbound = NULL, !.buf = << >>, !.state = IDLE]
Idle(c) ==
    [c EXCEPT !.inbound = NULL, !.buf = << >>, !.target = HEADER_SIZE,
              !.state = IDLE]

\* The blocks of outbound_buffer and sock_inbound_buffer come first.
NoConn ==
    [state |-> IDLE, inbound |-> NULL, buf |-> << >>, target |-> HEADER_SIZE,
     frame_max |-> 0, frame_pool |-> init_amqp_pool(0),
     decoding_pool |-> init_amqp_pool(0), queue |-> << >>, sock |-> << >>,
     outbound |-> 0, sock_inbound |-> 0, sockfd |-> 0, ssl |-> FALSE]

FramePool(c, h)    == Mem(h, c.frame_pool)
DecodingPool(c, h) == Mem(h, c.decoding_pool)

\* A new frame_max: the frame pool starts again with pages of that size, and the
\* outbound buffer is reallocated.
amqp_tune_connection(c, h, frame_max) ==
    [conn |-> [c EXCEPT !.frame_max = frame_max,
                        !.frame_pool = init_amqp_pool(frame_max)],
     heap |-> [empty_amqp_pool(FramePool(c, h)).heap EXCEPT ![c.outbound] = frame_max]]

amqp_new_connection ==
    [conn |-> [NoConn EXCEPT !.frame_max = FirstFrameMax,
                             !.frame_pool = init_amqp_pool(FirstFrameMax),
                             !.decoding_pool = init_amqp_pool(DecodingPage),
                             !.outbound = 1, !.sock_inbound = 2],
     heap |-> Calloc(Calloc(<< >>, 1, FirstFrameMax), 2, DecodingPage)]

\* What is left of the heap.
amqp_destroy_connection_Bug(c, h) ==
    Free(empty_amqp_pool(FramePool(c, recycle_amqp_pool(DecodingPool(c, h)).heap)).heap,
         {c.outbound, c.sock_inbound})
amqp_destroy_connection(c, h) ==
    Free(empty_amqp_pool(FramePool(c, empty_amqp_pool(DecodingPool(c, h)).heap)).heap,
         {c.outbound, c.sock_inbound})

amqp_release_buffers_ok_Bug(c) == c.state = IDLE
amqp_release_buffers_ok(c)     == c.state = IDLE /\ c.queue = << >>

WithFramePool(c, m)    == [conn |-> [c EXCEPT !.frame_pool = m.pool], heap |-> m.heap]
WithDecodingPool(c, m) == [conn |-> [c EXCEPT !.decoding_pool = m.pool], heap |-> m.heap]

\* amqp_release_buffers.
Recycled(c, h) ==
    LET f == WithFramePool(c, recycle_amqp_pool(FramePool(c, h)))
    IN  WithDecodingPool(f.conn, recycle_amqp_pool(DecodingPool(f.conn, f.heap)))

\* Memory from the decoding pool, for structs of some sizes.
SizeOfStruct == 24
SizeOfFrame  == 40
SizeOfLink   == 16
DecodingAt(c, a) ==
    [conn |-> [c EXCEPT !.decoding_pool = a.pool], heap |-> a.heap, at |-> a.at]
Decoding(c, h, n) == DecodingAt(c, amqp_pool_alloc(DecodingPool(c, h), n))

-----------------------------------------------------------------------------
\* amqp_handle_input, on what is in sock_inbound_buffer.

NoFrame == << >>

\* Where a call stands: connection and heap, the bytes consumed, the frame, the
\* memory it lies in, whether one is complete, the error, and whether the call
\* goes back to read_more.
Begin(c, h) ==
    [conn |-> c, heap |-> h, used |-> 0, frame |-> NoFrame, mem |-> {},
     complete |-> FALSE, err |-> 0, more |-> TRUE]
Error_Bug(r, e) ==
    [r EXCEPT !.err = e, !.more = FALSE,
              !.conn = [Idle(@) EXCEPT !.sock = SubSeq(@, r.used + 1, Len(@))]]
Error(r, e) == [r EXCEPT !.err = e, !.more = FALSE]

\* An inbound buffer, if there is none.
BufferAt(r, a) ==
    [r EXCEPT !.conn.frame_pool = a.pool, !.conn.inbound = a.at,
              !.conn.state = WAIT_HEADER, !.heap = a.heap]
Buffered(r) ==
    IF r.conn.state # IDLE THEN r
    ELSE BufferAt(r, amqp_pool_alloc(FramePool(r.conn, r.heap), r.conn.frame_max))

\* The header says what follows it.
HeaderSeen(r) ==
    LET b == r.conn.buf
    IN  IF /\ D_8(b, 0) = AMQP_PSEUDOFRAME_PROTOCOL_HEADER
           /\ D_16(b, 1) = AMQP_PSEUDOFRAME_PROTOCOL_CHANNEL
        THEN [r EXCEPT !.conn.target = 8, !.conn.state = WAIT_PROTOCOL]
        ELSE [r EXCEPT !.conn.target = D_32(b, 3) + HEADER_SIZE + FOOTER_SIZE,
                       !.conn.state = WAIT_BODY]

\* A frame is complete: it stays in its buffer, the connection forgets it.
return_to_idle(r, f, mem) ==
    [r EXCEPT !.frame = f, !.mem = mem \cup {r.conn.inbound}, !.complete = TRUE,
              !.more = FALSE, !.conn = Idle(r.conn)]

FrameEnd_Bug(b, target) == TRUE
FrameEnd(b, target) == D_8(b, target - 1) = AMQP_FRAME_END

\* Methods and headers are decoded into a struct from the decoding pool.
Decoded(r, f, d) ==
    return_to_idle([r EXCEPT !.conn = d.conn, !.heap = d.heap], f, {d.at})

FrameRead(r) ==
    LET b    == r.conn.buf
        type == D_8(b, 0)
        ch   == D_16(b, 1)
        id   == D_32(b, HEADER_SIZE)
        class == D_16(b, HEADER_SIZE)
    IN  IF ~FrameEnd(b, r.conn.target) THEN Error(r, EINVAL)
        ELSE CASE type = AMQP_FRAME_METHOD /\ id \notin MethodNumbers -> Error(r, ENOENT)
               [] type = AMQP_FRAME_METHOD /\ id \in MethodNumbers ->
                    Decoded(r, [type |-> type, channel |-> ch, id |-> id,
                                arg |-> D_32(b, HEADER_SIZE + 4)],
                            Decoding(r.conn, r.heap, SizeOfStruct))
               [] type = AMQP_FRAME_HEADER /\ class \notin ClassNumbers -> Error(r, ENOENT)
               [] type = AMQP_FRAME_HEADER /\ class \in ClassNumbers ->
                    Decoded(r, OtherFrame(type, ch, D_16(b, HEADER_SIZE + 12)),
                            Decoding(r.conn, r.heap, SizeOfStruct))
               [] type = AMQP_FRAME_BODY ->
                    return_to_idle(r, OtherFrame(type, ch, D_32(b, HEADER_SIZE)), {})
               [] type = AMQP_FRAME_HEARTBEAT ->
                    return_to_idle(r, OtherFrame(type, ch, 0), {})
               [] OTHER -> return_to_idle(r, NoFrame, {})

ProtocolRead(r) ==
    return_to_idle(r, OtherFrame(AMQP_PSEUDOFRAME_PROTOCOL_HEADER,
                                 AMQP_PSEUDOFRAME_PROTOCOL_CHANNEL,
                                 D_8(r.conn.buf, 6)), {})

\* What the bytes that are complete are.
Switch(r) ==
    CASE r.conn.state = WAIT_HEADER   -> HeaderSeen(r)
      [] r.conn.state = WAIT_BODY     -> FrameRead(r)
      [] r.conn.state = WAIT_PROTOCOL -> ProtocolRead(r)

Copied(r, n) ==
    [r EXCEPT !.conn.buf = @ \o SubSeq(r.conn.sock, r.used + 1, r.used + n),
              !.used = @ + n]

\* Bytes up to the target, if the buffer has room.
Fill(r) ==
    LET want == r.conn.target - Len(r.conn.buf)
        n    == Smaller(Len(r.conn.sock) - r.used, want)
    IN  IF ~WithinLimit(Len(r.conn.buf), n, r.conn.frame_max) THEN Error(r, EFAULT)
        ELSE IF n < want THEN [Copied(r, n) EXCEPT !.more = FALSE]
        ELSE Switch(Copied(r, n))

\* One trip from read_more; a header that is complete is followed by one more.
Trip(r) ==
    IF r.used = Len(r.conn.sock) THEN [r EXCEPT !.more = FALSE] ELSE Fill(Buffered(r))
ReadMore(r) == IF r.more THEN Trip(r) ELSE r
amqp_handle_input(c, h) == ReadMore(Trip(Begin(c, h)))

-----------------------------------------------------------------------------
\* Calls and what they return.

NoCall == [login |-> FALSE, channel |-> 0, replies |-> {}, no |-> 0]
NoRet  == [kind |-> "none", frame |-> NoFrame, no |-> 0]
NoOs   == [fds |-> {}, tls |-> {}]
NoBroker == [at |-> "header", frame_max |-> 0, opened |-> FALSE, closing |-> FALSE]
NoCount == [calls |-> 0, pushes |-> 0, decoded |-> 0, taken |-> 0, shown |-> 0]

Init ==
    /\ conn = NoConn /\ heap = << >> /\ os = NoOs
    /\ pc = "none" /\ call = NoCall /\ ret = NoRet /\ mail = << >> /\ late = FALSE
    /\ got = NoFrame /\ gotmem = {}
    /\ net = << >> /\ eof = FALSE /\ sent = << >>
    /\ broker = NoBroker /\ odd = FALSE
    /\ held = {} /\ broken = FALSE /\ count = NoCount

\* The connection, and all history of it, is gone.
Gone ==
    /\ conn' = NoConn
    /\ pc' = "none" /\ call' = NoCall /\ ret' = NoRet /\ mail' = << >> /\ late' = FALSE
    /\ got' = NoFrame /\ gotmem' = {}
    /\ net' = << >> /\ eof' = FALSE /\ sent' = << >>
    /\ broker' = NoBroker /\ odd' = FALSE
    /\ held' = {} /\ broken' = FALSE /\ count' = NoCount

Waiting == pc \in {"start", "tune", "rpc", "frame"}

\* amqp_send_method, a whole frame that the write took.
Message(ch, m, arg, replies, nowait) ==
    [channel |-> ch, method |-> m, arg |-> arg, replies |-> replies, nowait |-> nowait]
Post(msg) == mail' = Append(mail, msg)

\* A failed login is followed by amqp_destroy_connection.
Return_Bug(kind, f) ==
    /\ ret' = [kind |-> kind, frame |-> f, no |-> call.no]
    /\ pc' = "idle" /\ call' = NoCall
Return(kind, f) ==
    /\ ret' = [kind |-> kind, frame |-> f, no |-> call.no]
    /\ pc' = IF call.login /\ kind # "normal" THEN "closed" ELSE "idle"
    /\ call' = NoCall

\* amqp_login after amqp_login_inner, whatever that has returned.
Open ==
    /\ \/ /\ Post(Message(0, "connection_open", 0, {"connection_open_ok"}, FALSE))
          /\ pc' = "rpc"
          /\ call' = [NoCall EXCEPT !.login = TRUE, !.replies = {"connection_open_ok"}]
          /\ UNCHANGED ret
       \/ Return("library", NoFrame) /\ UNCHANGED mail
    /\ UNCHANGED late

\* wait_frame_inner returns 0 or an error to its caller.
WaitFails_Bug ==
    \/ pc \in {"start", "tune"} /\ Open
    \/ pc = "rpc" /\ late' = TRUE /\ UNCHANGED <<pc, call, ret, mail>>
    \/ pc = "frame" /\ Return("error", NoFrame) /\ UNCHANGED <<mail, late>>
WaitFails ==
    \/ pc \in {"start", "tune"} /\ Open
    \/ pc = "rpc" /\ Return("library", NoFrame) /\ late' = TRUE /\ UNCHANGED mail
    \/ pc = "frame" /\ Return("error", NoFrame) /\ UNCHANGED <<mail, late>>

-----------------------------------------------------------------------------
\* wait_frame_inner.

HasInput == Waiting /\ got = NoFrame /\ conn.sock # << >>

HandleInput ==
    /\ HasInput
    /\ \E r \in {amqp_handle_input(conn, heap)} :
          /\ heap' = r.heap
          /\ \/ /\ r.err # 0
                /\ conn' = r.conn /\ broken' = TRUE
                /\ WaitFails
                /\ UNCHANGED <<frameVars, sent, count>>
             \/ /\ r.err = 0
                /\ conn' = [r.conn EXCEPT !.sock = SubSeq(@, r.used + 1, Len(@))]
                /\ got' = r.frame
                /\ gotmem' = IF r.frame = NoFrame THEN {} ELSE r.mem
                /\ sent' = IF r.complete THEN Tail(sent) ELSE sent
                /\ count' = [count EXCEPT !.decoded = @ + (IF r.frame = NoFrame THEN 0 ELSE 1)]
                /\ UNCHANGED <<callVars, broken>>
    /\ UNCHANGED <<os, net, eof, peerVars, held>>

Reading == Waiting /\ got = NoFrame /\ conn.sock = << >>

\* The read returns some of what is there.
Read(n) ==
    /\ Reading /\ net # << >> /\ n <= Len(net)
    /\ conn' = [conn EXCEPT !.sock = SubSeq(net, 1, n)]
    /\ net' = SubSeq(net, n + 1, Len(net))
    /\ UNCHANGED <<heap, os, callVars, frameVars, eof, sent, peerVars, held, broken, count>>

ReadEOF ==
    /\ Reading /\ net = << >> /\ eof
    /\ WaitFails
    /\ UNCHANGED <<conn, heap, os, frameVars, streamVars, peerVars, held, broken, count>>

\* SO_RCVTIMEO, also in the middle of a frame; the rest may come later.
ReadError ==
    /\ Reading
    /\ WaitFails
    /\ UNCHANGED <<conn, heap, os, frameVars, streamVars, peerVars, held, broken, count>>

-----------------------------------------------------------------------------
\* What the callers of wait_frame_inner do with a frame.

\* The frame is passed on, for good.
Taken_Bug == UNCHANGED <<frameVars, os, streamVars, peerVars, broken>>
Taken ==
    /\ got' = NoFrame /\ gotmem' = {}
    /\ UNCHANGED <<os, streamVars, peerVars, broken>>

Expected == IF pc = "start" THEN "connection_start" ELSE "connection_tune"

\* The assertions of amqp_simple_wait_method.
IsExpected(f) ==
    /\ f.channel = 0 /\ f.type = AMQP_FRAME_METHOD
    /\ f.id = MethodNumber(Expected)

Abort ==
    /\ pc \in {"start", "tune"} /\ got # NoFrame /\ ~IsExpected(got)
    /\ pc' = "abort"
    /\ Taken
    /\ UNCHANGED <<conn, heap, call, ret, mail, late, held, count>>

\* The frame_max of both sides.
Negotiated_Bug(server) == IF server < LoginFrameMax THEN server ELSE LoginFrameMax
Negotiated(server) ==
    IF server \in 1..(LoginFrameMax - 1) THEN server ELSE LoginFrameMax

Advance(m) ==
    /\ conn' = m.conn /\ heap' = m.heap
    /\ Taken
    /\ count' = [count EXCEPT !.taken = @ + 1]
    /\ UNCHANGED held

\* amqp_login_inner after connection.start: the response to it lies in the
\* decoding pool, and amqp_release_buffers follows its sending.
LoginStart ==
    /\ pc = "start" /\ got # NoFrame /\ IsExpected(got)
    /\ \E d \in {Decoding(conn, heap, SizeOfStruct)} :
          \/ /\ got.arg # ProtocolMajor
             /\ Advance([conn |-> conn, heap |-> heap]) /\ Open
          \/ /\ got.arg = ProtocolMajor
             /\ Advance(Recycled(d.conn, d.heap))
             /\ Post(Message(0, "connection_start_ok", 0, {}, FALSE))
             /\ pc' = "tune" /\ UNCHANGED <<call, ret, late>>
          \/ /\ got.arg = ProtocolMajor
             /\ Advance(d) /\ Open

\* ... and after connection.tune.
LoginTune ==
    /\ pc = "tune" /\ got # NoFrame /\ IsExpected(got)
    /\ \E t \in {amqp_tune_connection(conn, heap, Negotiated(got.arg))} :
          \/ /\ Advance(Recycled(t.conn, t.heap))
             /\ Post(Message(0, "connection_tune_ok", t.conn.frame_max, {}, FALSE))
             /\ pc' = "open" /\ UNCHANGED <<call, ret, late>>
          \/ Advance(t) /\ Open

\* The login goes on with connection.open.
LoginOpen ==
    /\ pc = "open"
    /\ Open
    /\ UNCHANGED <<conn, heap, os, frameVars, streamVars, peerVars, held, broken, count>>

\* amqp_simple_rpc: a frame that ends the call.  The memory it lies in is the
\* application's until the buffers are released; amqp_login returns no frame.
Ends_Bug(f) == f.type = AMQP_FRAME_METHOD
Ends(f) ==
    /\ f.type = AMQP_FRAME_METHOD
    /\ \/ /\ f.channel = call.channel
          /\ f.id \in Numbers(call.replies \cup {"channel_close"})
       \/ f.channel = 0 /\ f.id = MethodNumber("connection_close")

amqp_maybe_release_buffers ==
    IF amqp_release_buffers_ok(conn)
    THEN \E m \in {Recycled(conn, heap)} : conn' = m.conn /\ heap' = m.heap
    ELSE UNCHANGED <<conn, heap>>

RpcEnds ==
    /\ pc = "rpc" /\ got # NoFrame /\ Ends(got)
    /\ \E normal \in {got.id \in Numbers(call.replies)} :
          /\ Return(IF normal THEN "normal" ELSE "server", got)
          /\ IF call.login /\ normal THEN amqp_maybe_release_buffers ELSE UNCHANGED <<conn, heap>>
    /\ held' = IF call.login THEN held ELSE held \cup gotmem
    /\ Taken
    /\ count' = [count EXCEPT !.taken = @ + 1]
    /\ UNCHANGED <<mail, late>>

Enqueue_Bug(queue, e) == IF queue = << >> THEN <<e>> ELSE queue
Enqueue(queue, e)     == Append(queue, e)

\* ... and one that is put aside, with its link in the decoding pool.
RpcQueues ==
    /\ pc = "rpc" /\ got # NoFrame /\ ~Ends(got)
    /\ \E f \in {Decoding(conn, heap, SizeOfFrame)} :
       \E l \in {Decoding(f.conn, f.heap, SizeOfLink)} :
          /\ conn' = [l.conn EXCEPT !.queue =
                         Enqueue(@, [frame |-> got, no |-> count.decoded,
                                     mem |-> gotmem \cup {f.at, l.at}])]
          /\ heap' = l.heap
    /\ Taken
    /\ UNCHANGED <<callVars, held, count>>

\* amqp_simple_wait_frame.
FrameReturned ==
    /\ pc = "frame" /\ got # NoFrame
    /\ Return("frame", got)
    /\ held' = held \cup gotmem
    /\ Taken
    /\ count' = [count EXCEPT !.taken = @ + 1, !.shown = count.decoded]
    /\ UNCHANGED <<conn, heap, mail, late>>

-----------------------------------------------------------------------------
\* The application.

New ==
    /\ pc = "none"
    /\ conn' = amqp_new_connection.conn /\ heap' = amqp_new_connection.heap
    /\ pc' = "fresh"
    /\ UNCHANGED <<os, call, ret, mail, late, frameVars, streamVars, peerVars,
                   held, broken, count>>

\* amqp_open_socket and amqp_set_sockfd; amqp_ssl_handshake if TLS is wanted.
Connect(addrs, blocking) ==
    /\ pc = "fresh"
    /\ \E s \in {amqp_open_socket(addrs, blocking)} :
          /\ os' = [os EXCEPT !.fds = s.open]
          /\ conn' = [conn EXCEPT !.sockfd = s.fd]
          /\ pc' = IF s.fd = 0 THEN "closed" ELSE "connected"
    /\ UNCHANGED <<heap, call, ret, mail, late, frameVars, streamVars, peerVars,
                   held, broken, count>>

Handshake(end) ==
    /\ pc = "connected" /\ Tls /\ ~conn.ssl
    /\ LET t == amqp_ssl_handshake(end)
       IN  /\ os' = [os EXCEPT !.tls = t.alive]
           /\ conn' = [conn EXCEPT !.ssl = t.ssl]
           /\ pc' = IF t.ssl THEN pc ELSE "closed"
    /\ UNCHANGED <<heap, call, ret, mail, late, frameVars, streamVars, peerVars,
                   held, broken, count>>

\* amqp_login sends the protocol header and does not look whether it went out.
Login ==
    /\ pc = "connected" /\ conn.ssl = Tls
    /\ pc' = "start" /\ call' = [NoCall EXCEPT !.login = TRUE]
    /\ Post(Message(0, "AMQP", 0, {}, FALSE)) \/ UNCHANGED mail
    /\ UNCHANGED <<conn, heap, os, ret, late, frameVars, streamVars, peerVars,
                   held, broken, count>>

Calling == pc = "idle" /\ count.calls < MaxCalls

Nowait(q) == "nowait" \in DOMAIN q.decoded /\ q.decoded.nowait = 1
ChannelOf(q) == IF q.request = "connection_close" THEN 0 ELSE 1

\* amqp_simple_rpc, as far as the wait for the answer.
SimpleRpc(q) ==
    /\ Calling
    /\ \/ /\ call' = [NoCall EXCEPT !.channel = ChannelOf(q), !.replies = q.replies,
                                   !.no = count.calls + 1]
          /\ Post(Message(ChannelOf(q), q.request, count.calls + 1, q.replies, Nowait(q)))
          /\ pc' = "rpc" /\ ret' = NoRet
       \/ Return("library", NoFrame) /\ UNCHANGED mail
    /\ count' = [count EXCEPT !.calls = @ + 1]
    /\ UNCHANGED <<conn, heap, os, late, frameVars, streamVars, peerVars, held, broken>>

\* The oldest of the frames put aside, before any new one.
WaitFrame ==
    /\ Calling
    /\ conn.queue = << >>
    /\ pc' = "frame" /\ ret' = NoRet
    /\ count' = [count EXCEPT !.calls = @ + 1]
    /\ UNCHANGED <<conn, heap, os, call, mail, late, frameVars, streamVars,
                   peerVars, held, broken>>

Dequeue_Bug(queue) == [first |-> Last(queue), rest |-> Front(queue)]
Dequeue(queue)     == [first |-> Head(queue), rest |-> Tail(queue)]

QueuedFrame ==
    /\ Calling
    /\ conn.queue # << >>
    /\ \E e \in {Dequeue(conn.queue).first} :
          /\ Return("frame", e.frame)
          /\ held' = held \cup e.mem
          /\ count' = [count EXCEPT !.calls = @ + 1, !.taken = @ + 1, !.shown = e.no]
    /\ conn' = [conn EXCEPT !.queue = Dequeue(@).rest]
    /\ UNCHANGED <<heap, os, mail, late, frameVars, streamVars, peerVars, broken>>

MaybeRelease ==
    /\ pc = "idle"
    /\ amqp_maybe_release_buffers
    /\ held' = IF amqp_release_buffers_ok(conn) THEN {} ELSE held
    /\ UNCHANGED <<os, callVars, frameVars, streamVars, peerVars, broken, count>>

\* amqp_ssl_shutdown, amqp_destroy_connection, and close() of the socket.
Destroy ==
    /\ pc \in {"fresh", "connected", "closed", "idle"}
    /\ heap' = amqp_destroy_connection(conn, heap)
    /\ os' = [fds |-> os.fds \ {conn.sockfd},
              tls |-> IF conn.ssl THEN os.tls \ {"SSL"} ELSE os.tls]
    /\ Gone

\* abort() has ended the process; another one starts.
Restart ==
    /\ pc = "abort"
    /\ heap' = << >> /\ os' = NoOs
    /\ Gone

-----------------------------------------------------------------------------
\* The broker.

Sends(f) == sent' = Append(sent, f) /\ net' = net \o Bytes(f)
Close == MethodFrame(0, "connection_close", 0)

Stays(at) == broker' = [broker EXCEPT !.at = at] /\ UNCHANGED <<eof, odd>>

\* An honest answer to the first message in the mail.
Answer(msg) ==
    \/ /\ broker.at = "header" /\ msg.method = "AMQP"
       /\ Sends(MethodFrame(0, "connection_start", ProtocolMajor))
       /\ Stays("start")
    \/ /\ broker.at = "start" /\ msg.method = "connection_start_ok"
       /\ \E n \in ServerFrameMax : Sends(MethodFrame(0, "connection_tune", n))
       /\ Stays("tune")
    \/ /\ broker.at = "tune" /\ msg.method = "connection_tune_ok"
       /\ broker' = [broker EXCEPT !.at = "open", !.frame_max = msg.arg]
       /\ UNCHANGED <<net, sent, eof, odd>>
    \/ /\ broker.at = "open" /\ msg.method = "connection_open"
       /\ Sends(MethodFrame(0, "connection_open_ok", 0))
       /\ broker' = [broker EXCEPT !.at = "ready", !.opened = TRUE]
       /\ UNCHANGED <<eof, odd>>
    \/ /\ broker.at = "ready" /\ msg.method \notin {"AMQP", "connection_open"}
       /\ IF msg.nowait \/ (broker.closing /\ msg.channel = 1)
          THEN UNCHANGED <<net, sent>>
          ELSE \E m \in msg.replies : Sends(MethodFrame(msg.channel, m, msg.arg))
       /\ Stays(IF msg.method = "connection_close" THEN "gone" ELSE "ready")

Follows(msg) ==
    <<broker.at, msg.method>> \in
        {<<"header", "AMQP">>, <<"start", "connection_start_ok">>,
         <<"tune", "connection_tune_ok">>, <<"open", "connection_open">>}
    \/ (broker.at = "ready" /\ msg.method \notin {"AMQP", "connection_open"})

\* It is refused, as whatever comes out of turn is: by connection.close, by a
\* protocol header or another version, or by closing the connection.
Refuse(msg) ==
    /\ broker' = [broker EXCEPT !.at = "gone"]
    /\ odd' = (odd \/ Follows(msg))
    /\ \/ Sends(Close) /\ UNCHANGED eof
       \/ /\ broker.at = "header"
          /\ \/ Sends(OtherFrame(AMQP_PSEUDOFRAME_PROTOCOL_HEADER,
                                 AMQP_PSEUDOFRAME_PROTOCOL_CHANNEL, 9))
             \/ Sends(MethodFrame(0, "connection_start", 9))
          /\ UNCHANGED eof
       \/ eof' = TRUE /\ UNCHANGED <<net, sent>>

ToClient == <<conn, heap, os, pc, call, ret, late, frameVars, held, broken>>

BrokerReads ==
    /\ mail # << >> /\ broker.at # "gone"
    /\ Answer(Head(mail)) \/ Refuse(Head(mail))
    /\ mail' = Tail(mail)
    /\ UNCHANGED <<ToClient, count>>

Pushing ==
    /\ broker.at # "gone" /\ count.pushes < MaxPushes
    /\ count' = [count EXCEPT !.pushes = @ + 1]
    /\ UNCHANGED <<ToClient, mail>>

\* What a broker may send unasked: a returned message, a heartbeat, a frame of a
\* type that the library ignores.
BrokerPushes ==
    /\ Pushing
    /\ \/ broker.at = "ready" /\ ~broker.closing
          /\ LET method == MethodFrame(1, "basic_return", 0)
                 header == OtherFrame(AMQP_FRAME_HEADER, 1, 0)
                 body   == OtherFrame(AMQP_FRAME_BODY, 1, count.pushes)
             IN  /\ sent' = Append(Append(Append(sent, method), header), body)
                 /\ net' = net \o Bytes(method) \o Bytes(header) \o Bytes(body)
       \/ broker.at \in {"open", "ready"} /\ Sends(OtherFrame(AMQP_FRAME_HEARTBEAT, 0, 0))
       \/ broker.at \in {"open", "ready"} /\ Sends(OtherFrame(OddFrame, 0, 0))
    /\ UNCHANGED <<eof, peerVars>>

BrokerCloses ==
    /\ Pushing
    /\ broker.at = "ready"
    /\ \/ /\ Sends(MethodFrame(1, "channel_close", 0))
          /\ broker' = [broker EXCEPT !.closing = TRUE] /\ UNCHANGED eof
       \/ /\ Sends(Close)
          /\ broker' = [broker EXCEPT !.at = "gone"] /\ UNCHANGED eof
       \/ /\ eof' = TRUE
          /\ broker' = [broker EXCEPT !.at = "gone"] /\ UNCHANGED <<net, sent>>
    /\ UNCHANGED odd

\* Frames that are not of the protocol: an end byte that is none, a method or a
\* class nobody knows, and one that is longer than frame_max.
Unknown == [MethodFrame(1, "basic_return", 0) EXCEPT !.id = 5]
Body == OtherFrame(AMQP_FRAME_BODY, 1, 0)
Bad  == [Bytes(Body) EXCEPT ![Len(Bytes(Body))] = 0]
Longest == IF FirstFrameMax < LoginFrameMax THEN LoginFrameMax ELSE FirstFrameMax
TooLong == Framed(Body, [i \in 1..Longest |-> 0])
NoClass == [Bytes(OtherFrame(AMQP_FRAME_HEADER, 1, 0)) EXCEPT ![HEADER_SIZE + 2] = 61]
BrokerErrs ==
    /\ Pushing
    /\ \E bytes \in {Bytes(Unknown), Bad, NoClass, TooLong} : net' = net \o bytes
    /\ sent' = Append(sent, Unknown)
    /\ odd' = TRUE
    /\ UNCHANGED <<eof, broker>>

Receive == (\E n \in Chunks \cup {Len(net)} : Read(n)) \/ ReadEOF \/ ReadError
Dispatch ==
    \/ Abort \/ LoginStart \/ LoginTune \/ LoginOpen
    \/ RpcEnds \/ RpcQueues \/ FrameReturned
Client == HandleInput \/ Receive \/ Dispatch

Application ==
    \/ New \/ Login \/ WaitFrame \/ QueuedFrame \/ MaybeRelease \/ Destroy \/ Restart
    \/ \E q \in Requests : SimpleRpc(q)
    \/ \E addrs \in Addresses, b \in BOOLEAN : Connect(addrs, b)
    \/ \E v \in BOOLEAN : \E e \in TlsEnds(v) : Handshake(e)

Broker == BrokerReads \/ BrokerPushes \/ BrokerCloses \/ BrokerErrs

Next == Client \/ Application \/ Broker

Spec == Init /\ [][Next]_vars

\* A call that waits goes on: a read ends with data, at the end of the stream or
\* with SO_RCVTIMEO, which amqp_open_socket sets if it is given a timeout, as it is
\* here.
\* The last conjunct is weak fairness of HandleInput, which is enabled whenever
\* there is input and never leaves all variables as they are.
FairSpec ==
    /\ Spec
    /\ WF_vars(Receive) /\ WF_vars(Dispatch)
    /\ []<>~HasInput \/ []<><<HandleInput>>_vars

-----------------------------------------------------------------------------
\* Properties.

TypeOK ==
    /\ conn.state \in {IDLE, WAIT_HEADER, WAIT_BODY, WAIT_PROTOCOL}
    /\ pc \in {"none", "fresh", "connected", "start", "tune", "open", "rpc",
               "frame", "idle", "closed", "abort"}
    /\ ret.kind \in {"none", "normal", "server", "library", "frame", "error"}
    /\ got # NoFrame => Waiting
    /\ {eof, broken, late, odd} \subseteq BOOLEAN

\* The states of a connection as amqp_private.h describes them: idle means that
\* there is no inbound buffer, and whenever there is one it is memory of the
\* frame pool that a frame of frame_max fits into; and the bytes seen are too few
\* for a header or, until an error, for the frame the header announces.
ReaderAgrees ==
    /\ conn.state = IDLE <=> conn.inbound = NULL
    /\ conn.state = IDLE => conn.buf = << >> /\ conn.target = HEADER_SIZE
    /\ conn.state # IDLE =>
          /\ conn.inbound.block \in Blocks(conn.frame_pool.pages)
                                    \cup Blocks(conn.frame_pool.large_blocks)
          /\ conn.inbound.len >= conn.frame_max
    /\ conn.state = WAIT_HEADER => Len(conn.buf) \in 1..(HEADER_SIZE - 1)
    /\ conn.state = WAIT_BODY /\ ~broken =>
          HEADER_SIZE <= Len(conn.buf) /\ Len(conn.buf) < conn.target

\* The memory in use: the frame being read, the one just read, those put aside
\* by amqp_simple_rpc, those the application holds, and the two fixed buffers.
InUse ==
    (IF conn.state = IDLE THEN {} ELSE {<<"inbound", conn.inbound>>})
    \cup {<<"got", m>> : m \in gotmem}
    \cup {<<"held", m>> : m \in held}
    \cup (UNION {{<<ToString(i), m>> : m \in conn.queue[i].mem} : i \in 1..Len(conn.queue)})
    \cup (IF conn.outbound = 0 THEN {}
          ELSE {<<"outbound", Region(conn.outbound, 0, heap[conn.outbound])>>,
                <<"sock", Region(conn.sock_inbound, 0, heap[conn.sock_inbound])>>})

\* Memory in use is allocated and used once: no frame is overwritten by a later
\* one, or freed, before the application has released the buffers, and
\* amqp_maybe_release_buffers never releases them under a frame that is half read
\* or put aside.
MemoryExclusive ==
    /\ \A u \in InUse : /\ u[2].block \in DOMAIN heap
                        /\ u[2].off + u[2].len <= heap[u[2].block]
    /\ \A u, v \in InUse : u # v => ~Overlap(u[2], v[2])

\* Nothing leaks: every block is known to a pool or is one of the two buffers, no
\* descriptor is open but the one in use, and after amqp_destroy_connection
\* nothing is left at all.
NothingLeaks ==
    /\ DOMAIN heap = (Blocks(conn.frame_pool.pages) \cup Blocks(conn.frame_pool.large_blocks)
          \cup Blocks(conn.decoding_pool.pages) \cup Blocks(conn.decoding_pool.large_blocks)
          \cup {conn.outbound, conn.sock_inbound}) \ {0}
    /\ os.fds = {conn.sockfd} \ {0}
    /\ os.tls = IF conn.ssl THEN {"SSL"} ELSE {}

\* However the stream is cut, and wherever a read times out, amqp_handle_input
\* turns it into the frames that were sent, in order and each once, except those
\* of unknown types, until it meets an error.
IgnoredType(f) == f.type = OddFrame
Channel == INSTANCE FrameChannel
    WITH queue <- sent, last <- got, Ignored <- IgnoredType
FramesReadAsSent == Channel!Spec

\* After an error no frame is ever returned from the stream again: the reader
\* stays where it is, and nothing after the bad frame is taken for a frame.
ErrorsStick ==
    [][broken /\ broken' => got' \in {got, NoFrame}]_vars

\* Every frame decoded is passed on once or waits in the queue of
\* amqp_simple_rpc.
FramesAccounted ==
    pc # "abort" =>
        count.decoded = count.taken + Len(conn.queue) + (IF got = NoFrame THEN 0 ELSE 1)

\* amqp_simple_wait_frame shows frames in the order of their arrival, those that
\* were put aside and those that come later.
ShownInOrder ==
    [][count'.shown # count.shown => count'.shown > count.shown \/ pc' = "none"]_vars

\* A reply answers the request of the call that returns it, as long as no call
\* before it was given up.
ReplyMatches ==
    ret.kind = "normal" /\ ~late => ret.frame.arg = ret.no

\* A login that returned AMQP_RESPONSE_NORMAL, whatever became of
\* amqp_login_inner, means a broker that has opened the virtual host, and one
\* frame_max for both.
LoginSound ==
    pc \in {"idle", "rpc", "frame"} /\ ~call.login =>
        broker.opened /\ broker.frame_max = conn.frame_max

\* A broker that accepts the login and keeps to the protocol is never the reason
\* for abort() or for a framing error, whatever times out.
HonestBrokerServed == ~odd => pc # "abort" /\ ~broken

\* Once the broker has stopped sending what it was not asked for, every call
\* returns, however the stream is cut and whatever became of earlier calls.  While
\* it goes on, retry of amqp_simple_rpc goes on, too: the only deadline,
\* SO_RCVTIMEO, starts again with every read.
Unsolicited == BrokerPushes \/ BrokerCloses \/ BrokerErrs
CallsReturn == <>[][~Unsolicited]_vars => (Waiting ~> ~Waiting)
=============================================================================
