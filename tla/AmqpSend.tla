------------------------------ MODULE AmqpSend ------------------------------
(***************************************************************************)
(* The sending half of a connection of the bundled librabbitmq: an         *)
(* application calls amqp_send_method, amqp_basic_publish and              *)
(* amqp_send_frame (amqp_api.c, amqp_socket.c); inner_send_frame and       *)
(* amqp_send_frame (amqp_connection.c) encode each frame and write it,     *)
(* in one piece or, for a body, in three; and the peer takes the bytes     *)
(* apart again with the decoder of the same library.                       *)
(*                                                                         *)
(* A write may fail, or take only part of what it is given: the socket has *)
(* SO_SNDTIMEO set, and amqp_send_frame looks at the sign of the result.   *)
(***************************************************************************)
EXTENDS AmqpCodec, AmqpApi

CONSTANTS
    Calls,        \* what the application asks for
    FrameMax,     \* state->frame_max, and so the length of outbound_buffer
    MaxInFlight   \* frames the socket holds before the peer reads one

ASSUME SendAssumption ==
    /\ FrameMax \in Nat /\ FrameMax >= HEADER_SIZE + 12 + FOOTER_SIZE
    /\ MaxInFlight \in Nat \ {0}

VARIABLES
    todo,      \* frames the call in progress has yet to send
    pieces,    \* buffers of the first of them that are yet to be written
    wire,      \* bytes written and not read
    inflight,  \* history: frames written and not read, as the peer should see them
    last,      \* the frame the peer has read and works on, if any
    content,   \* what the peer waits for on channel 1: nothing, a header, bytes
    garbled,   \* history: a write was cut short, or a length did not fit its byte
    begun,     \* history: bytes of the call in progress are on the wire
    failed     \* history: a call failed: with nothing written, or midway

vars == <<todo, pieces, wire, inflight, last, content, garbled, begun, failed>>

Method(ch, m, decoded) ==
    [type |-> AMQP_FRAME_METHOD, channel |-> ch, id |-> MethodNumber(m),
     decoded |-> decoded]
Properties(ch, class, size, p) ==
    [type |-> AMQP_FRAME_HEADER, channel |-> ch, class |-> class,
     size |-> size, decoded |-> p]
Body(ch, bs) == [type |-> AMQP_FRAME_BODY, channel |-> ch, bytes |-> bs]
Heartbeat(ch) == [type |-> AMQP_FRAME_HEARTBEAT, channel |-> ch]

NoContent   == -1   \* between messages
NeedsHeader == -2   \* a method that has content was read

Init ==
    /\ todo = << >> /\ pieces = << >> /\ wire = << >>
    /\ inflight = << >> /\ last = << >> /\ content = NoContent
    /\ garbled = FALSE /\ begun = FALSE /\ failed = "no"

-----------------------------------------------------------------------------
\* The calls, as the frames they send.

\* The body of a message in fragments that fit a frame.
Usable_Bug == FrameMax
Usable     == FrameMax - (HEADER_SIZE + FOOTER_SIZE)

Fragments_Bug(ch, body) ==
    [i \in 1..(Len(body) \div Usable) |->
        Body(ch, SubSeq(body, (i - 1) * Usable + 1, i * Usable))]
Fragments(ch, body) ==
    [i \in 1..((Len(body) + Usable - 1) \div Usable) |->
        Body(ch, SubSeq(body, (i - 1) * Usable + 1,
                        Smaller(i * Usable, Len(body))))]

amqp_basic_publish(ch, m, p, body) ==
    <<Method(ch, "basic_publish", m),
      Properties(ch, 60, <<0, Len(body)>>, p)>> \o Fragments(ch, body)

amqp_send_method(ch, m, decoded) == <<Method(ch, m, decoded)>>

Busy == todo # << >>

\* Calls are made one after the other, when the peer has caught up.
Call(c) ==
    /\ ~Busy /\ inflight = << >> /\ last = << >>
    /\ todo' = c /\ begun' = FALSE
    /\ UNCHANGED <<pieces, wire, inflight, last, content, garbled, failed>>

-----------------------------------------------------------------------------
\* inner_send_frame: the buffers to write, or an error.

FrameHeader(f, size) == E_8(f.type) \o E_16(f.channel) \o E_32(size)

\* What the encoders have of the outbound buffer after the frame header, a
\* prefix of theirs and the end byte.
Room(prefix) == FrameMax - (HEADER_SIZE + prefix + FOOTER_SIZE)

OnePiece(f, prefix, w) ==
    IF w.err # 0 THEN [err |-> w.err, pieces |-> << >>]
    ELSE [err |-> 0,
          pieces |-> <<FrameHeader(f, Len(prefix) + Len(w.out)) \o prefix
                       \o w.out \o <<AMQP_FRAME_END>> >>]

inner_send_frame(f) ==
    CASE f.type = AMQP_FRAME_METHOD ->
            OnePiece(f, E_32(f.id), amqp_encode_method(f.id, f.decoded, Room(4)))
      [] f.type = AMQP_FRAME_HEADER ->
            OnePiece(f, E_16(f.class) \o E_16(0) \o E_64(f.size),
                     amqp_encode_properties(f.class, f.decoded, Room(12)))
      [] f.type = AMQP_FRAME_BODY ->
            [err |-> 0, pieces |-> <<FrameHeader(f, Len(f.bytes)), f.bytes,
                                     <<AMQP_FRAME_END>> >>]
      [] f.type = AMQP_FRAME_HEARTBEAT -> OnePiece(f, << >>, Writer(0))
      [] OTHER -> [err |-> EINVAL, pieces |-> << >>]

\* A call that returns an error leaves the rest of its frames unsent.
Fails_Bug ==
    /\ todo' = << >> /\ UNCHANGED pieces
    /\ failed' = IF begun \/ failed = "midway" THEN "midway" ELSE "clean"
Fails ==
    /\ todo' = << >> /\ pieces' = << >>
    /\ failed' = IF begun \/ failed = "midway" THEN "midway" ELSE "clean"

EncodeFrame ==
    /\ Busy /\ pieces = << >> /\ Len(inflight) < MaxInFlight
    /\ \E e \in {inner_send_frame(Head(todo))} :
          \/ e.err # 0 /\ Fails
          \/ e.err = 0 /\ pieces' = e.pieces /\ UNCHANGED <<todo, failed>>
    /\ UNCHANGED <<wire, inflight, last, content, garbled, begun>>

-----------------------------------------------------------------------------
\* amqp_send_frame.

\* What is encoded of a frame, field by field.
Layout(f) ==
    CASE f.type = AMQP_FRAME_METHOD -> EncodeLayout[amqp_method_name(f.id)]
      [] f.type = AMQP_FRAME_HEADER ->
            Present(f.class, f.decoded._flags, EncodeProperties[f.class])
      [] OTHER -> << >>

\* A byte cannot hold the length of such a string, or of such a key of a table;
\* all of it is written.
RECURSIVE LongKey(_)
LongKey(t) ==
    \E e \in Range(t) : Len(e.key) > 255 \/ (e.kind = KindF /\ LongKey(e.value))
Overlong(f) ==
    \E it \in Range(Layout(f)) :
        \/ it[1] = "str8" /\ Len(f.decoded[it[2]]) > 255
        \/ it[1] = "table" /\ LongKey(f.decoded[it[2]])

SeenAs(f) ==
    IF f.type = AMQP_FRAME_HEADER
    THEN [f EXCEPT !.decoded = [@ EXCEPT !._flags = SeenFlags(@)]] ELSE f

\* The next buffer went out; after the last one the frame counts as sent.
Written(whole) ==
    /\ pieces' = Tail(pieces) /\ begun' = TRUE
    /\ IF Len(pieces) > 1
       THEN UNCHANGED <<todo, inflight>> /\ garbled' = (garbled \/ ~whole)
       ELSE /\ todo' = Tail(todo)
            /\ inflight' = Append(inflight, SeenAs(Head(todo)))
            /\ garbled' = (garbled \/ ~whole \/ Overlong(Head(todo)))
    /\ UNCHANGED <<last, content, failed>>

Write ==
    /\ pieces # << >>
    /\ wire' = wire \o Head(pieces)
    /\ Written(TRUE)

\* write() took n bytes: not an error to AMQP_CHECK_RESULT.
WriteShort(n) ==
    /\ pieces # << >> /\ ~garbled /\ n \in 1..(Len(Head(pieces)) - 1)
    /\ wire' = wire \o SubSeq(Head(pieces), 1, n)
    /\ Written(FALSE)

\* The buffers of the frame before this one, if any, are on the wire.
WriteFails ==
    /\ pieces # << >>
    /\ Fails
    /\ garbled' = (garbled \/ pieces # inner_send_frame(Head(todo)).pieces)
    /\ UNCHANGED <<wire, inflight, last, content, begun>>

-----------------------------------------------------------------------------
\* The peer.

\* The body of amqp_handle_input for a complete frame.
Result(err, f) == [err |-> err, frame |-> f]
MethodRead(ch, id, r) ==
    Result(r.err, [type |-> AMQP_FRAME_METHOD, channel |-> ch, id |-> id,
                   decoded |-> r.val])
PropertiesRead(ch, class, size, r) ==
    Result(r.err, Properties(ch, class, size, r.val))

DecodePayload(type, ch, payload) ==
    CASE type = AMQP_FRAME_METHOD ->
            MethodRead(ch, D_32(payload, 0),
                       amqp_decode_method(D_32(payload, 0),
                                          D_BYTES(payload, 4, Len(payload) - 4)))
      [] type = AMQP_FRAME_HEADER ->
            PropertiesRead(ch, D_16(payload, 0), D_64(payload, 4),
                           amqp_decode_properties(D_16(payload, 0),
                                                  D_BYTES(payload, 12, Len(payload) - 12)))
      [] type = AMQP_FRAME_BODY -> Result(0, Body(ch, payload))
      [] OTHER                  -> Result(0, Heartbeat(ch))

FrameSize == HEADER_SIZE + D_32(wire, 3) + FOOTER_SIZE
Decoded   == DecodePayload(D_8(wire, 0), D_16(wire, 1),
                           D_BYTES(wire, HEADER_SIZE, D_32(wire, 3)))
HasFrame  ==
    /\ Len(wire) >= HEADER_SIZE /\ Len(wire) >= FrameSize
    /\ D_8(wire, FrameSize - 1) = AMQP_FRAME_END

\* The content rule of AMQP for the channel messages are published on.
Follows(f) ==
    CASE f.channel # 1                  -> content
      [] f.type = AMQP_FRAME_METHOD     ->
            IF amqp_method_name(f.id) \in HasContent THEN NeedsHeader ELSE NoContent
      [] f.type = AMQP_FRAME_HEADER     ->
            IF f.size[2] = 0 THEN NoContent ELSE f.size[2]
      [] f.type = AMQP_FRAME_BODY       ->
            IF content = Len(f.bytes) THEN NoContent ELSE content - Len(f.bytes)
      [] OTHER                          -> content

\* A peer in step with the stream reads the next frame.
PeerReads ==
    /\ ~garbled /\ last = << >> /\ HasFrame
    /\ \E d \in {Decoded} :
          d.err = 0 /\ last' = d.frame /\ content' = Follows(d.frame)
    /\ wire' = SubSeq(wire, FrameSize + 1, Len(wire))
    /\ inflight' = Tail(inflight)
    /\ UNCHANGED <<todo, pieces, garbled, begun, failed>>

PeerDone ==
    /\ last # << >> /\ last' = << >>
    /\ UNCHANGED <<todo, pieces, wire, inflight, content, garbled, begun, failed>>

\* The connection is given up: by the application after an error, or by the peer
\* once it cannot make sense of what it reads.
Close ==
    /\ garbled \/ (~Busy /\ failed # "no")
    /\ todo' = << >> /\ pieces' = << >> /\ wire' = << >>
    /\ inflight' = << >> /\ last' = << >> /\ content' = NoContent
    /\ garbled' = FALSE /\ begun' = FALSE /\ failed' = "no"

Next ==
    \/ \E c \in Calls : Call(c)
    \/ EncodeFrame \/ Write \/ WriteFails \/ PeerReads \/ PeerDone \/ Close
    \/ \E n \in {1, HEADER_SIZE} : WriteShort(n)

Spec == Init /\ [][Next]_vars

-----------------------------------------------------------------------------
\* Properties.

TypeOK ==
    /\ Len(inflight) <= MaxInFlight /\ content >= NeedsHeader
    /\ {garbled, begun} \subseteq BOOLEAN /\ failed \in {"no", "clean", "midway"}
    /\ pieces # << >> => Busy
    /\ \A i \in 1..Len(wire) : wire[i] \in 0..255

\* The frames of the library's callers reach the peer as a FrameChannel: every
\* method of AMQP 0-8 and every set of properties decodes to what was encoded,
\* in order, as long as no write was short and no string longer than 255 bytes
\* (amqp_encode_method, amqp_decode_method and what lies between them).
NeverIgnored(f) == FALSE
Channel == INSTANCE FrameChannel
    WITH queue <- inflight, broken <- garbled, Ignored <- NeverIgnored
FramesArriveAsSent == Channel!Spec

\* A frame that has been written in full can be read: its length field, its end
\* byte and the limits of its fields agree.
PeerUnderstands ==
    ~garbled /\ inflight # << >> => HasFrame /\ Decoded.err = 0

\* amqp_basic_publish sends whole messages: once a call has returned and the
\* peer has read everything, it waits for no header and for no byte of a body,
\* unless a call failed midway, and nothing is left over that it cannot read.
ContentWhole ==
    ~garbled /\ failed # "midway" /\ ~Busy /\ inflight = << >> =>
        content = NoContent /\ wire = << >>

\* No frame is longer than frame_max, the length the peer has agreed to read.
FramesFit ==
    ~garbled /\ Len(wire) >= HEADER_SIZE => FrameSize <= FrameMax
=============================================================================
