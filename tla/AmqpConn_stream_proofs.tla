----------------------- MODULE AmqpConn_stream_proofs -----------------------
(***************************************************************************)
(* What AmqpConn promises about the stream and about the broker, for every *)
(* way the stream is cut, every broker and every set of requests:          *)
(*                                                                         *)
(*   - the reader turns bytes into the frames that were sent, in order and *)
(*     each once, and stops at the first that is none (FramesReadAsSent,   *)
(*     ErrorsStick), in the states amqp_private.h describes (ReaderAgrees);*)
(*   - a login that succeeded has opened the virtual host with one         *)
(*     frame_max (LoginSound), an honest broker never makes the client     *)
(*     abort (HonestBrokerServed), and a reply belongs to its request as   *)
(*     long as no call was given up (ReplyMatches).                        *)
(*                                                                         *)
(* The first part is about bytes: what E_32 writes D_32 reads, a frame is  *)
(* read back from its bytes, and amqp_handle_input on any piece of a       *)
(* stream of frames waits, returns the first frame or meets an error.  The *)
(* second is the invariant StreamInv: what is buffered and on the way is   *)
(* the bytes of the frames in sent.  The third is about the frames by      *)
(* their places (Slots, At), the mail and the call: OpenInv, HonestInv and *)
(* ReplyInv.                                                               *)
(***************************************************************************)
EXTENDS AmqpConn_proofs, SequenceTheorems

Byte  == 0..255
Short == {n \in Nat : n <= 65535}

\* Method numbers.
NumbersOK(f) == \A m \in DOMAIN f : f[m][1] \in Number /\ f[m][1] > 65535

\* What is in either of two tables is in both together; the first goes before.
LEMMA AndFacts ==
  ASSUME NEW f, NEW g
  PROVE  /\ DOMAIN And(f, g) = DOMAIN f \cup DOMAIN g
         /\ \A m \in DOMAIN f : And(f, g)[m] = f[m]
         /\ \A m \in DOMAIN g \ DOMAIN f : And(f, g)[m] = g[m]
  BY DEF And

Finds(h, g, m) == m \in DOMAIN h /\ h[m] = g[m]

\* A name is looked up in the first table, then in the second.
LEMMA AndFinds ==
  ASSUME NEW f, NEW g, NEW m
  PROVE  /\ m \in DOMAIN f => Finds(And(f, g), f, m)
         /\ m \in DOMAIN g /\ m \notin DOMAIN f => Finds(And(f, g), g, m)
  BY DEF Finds, And

\* Two tables of method numbers together are one.
LEMMA AndNumbers ==
  ASSUME NEW f, NEW g, NumbersOK(f), NumbersOK(g)
  PROVE  NumbersOK(And(f, g)) /\ DOMAIN And(f, g) = DOMAIN f \cup DOMAIN g
  BY SMT DEF NumbersOK, And

\* Every method number of the tables has a class, so it is above 16 bits, and fits
\* 32 bits.
LEMMA MethodNumbersOK ==
  \A m \in Methods : MethodNumber(m) \in Number /\ MethodNumber(m) > 65535
  <1>1. NumbersOK(StructConnection)
    BY SMT DEF NumbersOK, Number, StructConnection, MaxNumber
  <1>2. NumbersOK(StructChannel)
    BY SMT DEF NumbersOK, Number, StructChannel, MaxNumber
  <1>3. NumbersOK(StructQueue)
    BY SMT DEF NumbersOK, Number, StructQueue, MaxNumber
  <1>4. NumbersOK(StructBasicConsume)
    BY SMT DEF NumbersOK, Number, StructBasicConsume, MaxNumber
  <1>5. NumbersOK(StructBasicDeliver)
    BY SMT DEF NumbersOK, Number, StructBasicDeliver, MaxNumber
  <1>6. NumbersOK(StructFileConsume)
    BY SMT DEF NumbersOK, Number, StructFileConsume, MaxNumber
  <1>7. NumbersOK(StructFileStage)
    BY SMT DEF NumbersOK, Number, StructFileStage, MaxNumber
  <1>8. NumbersOK(StructStream)
    BY SMT DEF NumbersOK, Number, StructStream, MaxNumber
  <1>9. NumbersOK(StructTx)
    BY SMTT(30) DEF NumbersOK, Number, StructTx, MaxNumber
  <1>10. NumbersOK(And(StructFileStage, And(StructStream, StructTx)))
    BY <1>7, <1>8, <1>9, AndNumbers
  <1>11. NumbersOK(And(StructBasicDeliver, And(StructFileConsume,
                   And(StructFileStage, And(StructStream, StructTx)))))
    BY <1>5, <1>6, <1>10, AndNumbers
  <1>12. NumbersOK(And(StructQueue, And(StructBasicConsume,
                   And(StructBasicDeliver, And(StructFileConsume,
                   And(StructFileStage, And(StructStream, StructTx)))))))
    BY <1>3, <1>4, <1>11, AndNumbers
  <1>13. NumbersOK(Struct)
    BY <1>1, <1>2, <1>12, AndNumbers DEF Struct
  <1> QED BY <1>13, SMT DEF NumbersOK, Methods, MethodNumber

\* The numbers of the methods a broker sends of its own accord, and of the answer
\* to connection.open.
LEMMA NamedMethods ==
  /\ MethodNumber("connection_start") = 655370
  /\ MethodNumber("connection_tune") = 655390
  /\ MethodNumber("connection_open_ok") = 655401
  /\ MethodNumber("connection_close") = 655420
  /\ MethodNumber("channel_close") = 1310760
  /\ MethodNumber("basic_return") = 3932210
  /\ Unasked \cup {"connection_open_ok"} \subseteq Methods
  <1>1. {"connection_start", "connection_tune", "connection_open_ok",
         "connection_close"} \subseteq DOMAIN StructConnection
    BY SMT DEF StructConnection
  <1>2. "channel_close" \in DOMAIN StructChannel \ DOMAIN StructConnection
    BY SMT DEF StructConnection, StructChannel
  <1>3. /\ StructConnection["connection_start"][1] = 655370
        /\ StructConnection["connection_tune"][1] = 655390
        /\ StructConnection["connection_open_ok"][1] = 655401
        /\ StructConnection["connection_close"][1] = 655420
    BY SMT DEF StructConnection
  <1>4. StructChannel["channel_close"][1] = 1310760
    BY SMT DEF StructChannel
  <1>5. /\ "basic_return" \in DOMAIN StructBasicDeliver
        /\ "basic_return" \notin DOMAIN StructConnection
        /\ "basic_return" \notin DOMAIN StructChannel
        /\ "basic_return" \notin DOMAIN StructQueue
        /\ "basic_return" \notin DOMAIN StructBasicConsume
    BY SMT DEF StructConnection, StructChannel, StructQueue, StructBasicConsume,
               StructBasicDeliver
  <1>6. /\ DOMAIN StructConnection \cup DOMAIN StructChannel
             \cup DOMAIN StructBasicDeliver \subseteq DOMAIN Struct
        /\ \A m \in DOMAIN StructConnection : Struct[m] = StructConnection[m]
        /\ \A m \in DOMAIN StructChannel \ DOMAIN StructConnection :
              Struct[m] = StructChannel[m]
        /\ Struct["basic_return"] = StructBasicDeliver["basic_return"]
    <2> DEFINE g1 == And(StructBasicDeliver, And(StructFileConsume,
                         And(StructFileStage, And(StructStream, StructTx))))
               g0 == And(StructBasicConsume, g1)
               g2 == And(StructQueue, g0)
               g3 == And(StructChannel, g2)
               m1 == "basic_return"
    <2>1. /\ m1 \in DOMAIN StructBasicDeliver /\ m1 \notin DOMAIN StructConnection
          /\ m1 \notin DOMAIN StructChannel /\ m1 \notin DOMAIN StructQueue
          /\ m1 \notin DOMAIN StructBasicConsume
      BY <1>5
    <2> HIDE DEF m1
    <2>2. DOMAIN StructBasicDeliver \subseteq DOMAIN g1
      BY AndFacts
    <2>3. Finds(g1, StructBasicDeliver, m1)
      BY <2>1, AndFinds
    <2>4. Struct = And(StructConnection, g3)
      BY DEF Struct
    <2> HIDE DEF g1
    <2>5. DOMAIN g1 \subseteq DOMAIN g0
      BY AndFacts
    <2>6. Finds(g0, g1, m1)
      BY <2>1, <2>3, AndFinds DEF Finds
    <2> HIDE DEF g0
    <2>7. DOMAIN g1 \subseteq DOMAIN g2
      BY <2>5, AndFacts
    <2>8. Finds(g2, g0, m1)
      BY <2>1, <2>6, AndFinds DEF Finds
    <2> HIDE DEF g2
    <2>9. /\ DOMAIN StructChannel \cup DOMAIN g2 = DOMAIN g3
          /\ \A m \in DOMAIN StructChannel : g3[m] = StructChannel[m]
      BY AndFacts
    <2>10. Finds(g3, g2, m1)
      BY <2>1, <2>8, AndFinds DEF Finds
    <2> HIDE DEF g3
    <2>11. Finds(And(StructConnection, g3), g3, m1)
      BY <2>1, <2>10, AndFinds DEF Finds
    <2>12. /\ DOMAIN StructConnection \cup DOMAIN g3 = DOMAIN Struct
           /\ \A m \in DOMAIN StructConnection : Struct[m] = StructConnection[m]
           /\ \A m \in DOMAIN g3 \ DOMAIN StructConnection : Struct[m] = g3[m]
      <3> DEFINE a == And(StructConnection, g3)
      <3>1. /\ DOMAIN StructConnection \cup DOMAIN g3 = DOMAIN a
            /\ \A m \in DOMAIN StructConnection : a[m] = StructConnection[m]
            /\ \A m \in DOMAIN g3 \ DOMAIN StructConnection : a[m] = g3[m]
        BY AndFacts
      <3> HIDE DEF a
      <3> QED BY <2>4, <3>1 DEF a
    <2>13. Struct[m1] = StructBasicDeliver[m1]
      BY <2>3, <2>4, <2>6, <2>8, <2>10, <2>11 DEF Finds
    <2> QED BY <2>2, <2>7, <2>9, <2>12, <2>13 DEF m1
  <1>7. StructBasicDeliver["basic_return"][1] = 3932210
    BY SMT DEF StructBasicDeliver
  <1> QED BY SMT, <1>1, <1>2, <1>3, <1>4, <1>5, <1>6, <1>7
          DEF MethodNumber, Methods, Unasked

\* Numbers on the wire.
LEMMA SmallByte ==
  ASSUME NEW n \in Byte
  PROVE  n % 256 = n /\ n \div 256 = 0
  BY SMT DEF Byte

\* A 16-bit number is its two bytes, the high one first.
LEMMA Byte16 ==
  ASSUME NEW n \in Short
  PROVE  /\ n \div 256 \in Byte /\ n % 256 \in Byte /\ (n \div 256) % 256 = n \div 256
         /\ 256 * (n \div 256) + (n % 256) = n
  BY SMT DEF Byte, Short

\* Four bytes out of two pairs.
LEMMA FourBytes ==
  ASSUME NEW a \in Byte, NEW b \in Byte, NEW c \in Byte, NEW d \in Byte, NEW s,
         s = <<a, b>> \o <<c, d>>
  PROVE  s \in Seq(Byte) /\ Len(s) = 4 /\ s[1] = a /\ s[2] = b /\ s[3] = c /\ s[4] = d
  BY SMT

\* The bytes of a 32-bit number are those of its two halves.
LEMMA Split32 ==
  ASSUME NEW n \in Number
  PROVE  \E a, r \in Nat :
           LET e == E_32(n)
           IN  /\ a <= 32767 /\ n = 65536 * a + r
               /\ e \in Seq(Byte) /\ Len(e) = 4
               /\ 256 * e[1] + e[2] = a /\ 256 * e[3] + e[4] = r
  <1> DEFINE a == n \div 65536
             r == n % 65536
  <1>1. a \in Nat /\ a <= 32767 /\ r \in Nat /\ r <= 65535 /\ n = 65536 * a + r
    BY SMT DEF Number, MaxNumber
  <1>2. n \in Nat
    BY SMT DEF Number
  <1> HIDE DEF r
  <1>3. /\ r \div 256 \in Byte /\ r % 256 \in Byte
        /\ 256 * (r \div 256) + (r % 256) = r
    BY SMT, <1>1, Byte16 DEF Short
  <1>4. /\ a \div 256 \in Byte /\ a % 256 \in Byte
        /\ (a \div 256) % 256 = a \div 256
        /\ 256 * (a \div 256) + (a % 256) = a
    <2> HIDE DEF a
    <2> QED BY SMT, <1>1, Byte16 DEF Short
  <1>5. E_16(a) = <<a \div 256, a % 256>>
    BY <1>4 DEF E_16
  <1> HIDE DEF a
  <1>6. n \div 256 = 256 * a + (r \div 256) /\ n % 256 = r % 256
    BY SMT, <1>1, <1>2
  <1>7. (n \div 256) % 256 = r \div 256
    BY SMT, <1>1, <1>3, <1>6 DEF Byte
  <1>8. E_16(n) = <<r \div 256, r % 256>>
    BY <1>6, <1>7 DEF E_16
  <1> DEFINE e == E_32(n)
  <1>9. /\ e \in Seq(Byte) /\ Len(e) = 4
        /\ e[1] = a \div 256 /\ e[2] = a % 256 /\ e[3] = r \div 256 /\ e[4] = r % 256
    <2>1. e = E_16(a) \o E_16(n)
      BY DEF E_32, a
    <2> QED BY SMT, <1>3, <1>4, <1>5, <1>8, <2>1, FourBytes
  <1> HIDE DEF e
  <1>10. /\ a \in Nat /\ r \in Nat /\ a <= 32767 /\ n = 65536 * a + r
         /\ e \in Seq(Byte) /\ Len(e) = 4
         /\ 256 * e[1] + e[2] = a /\ 256 * e[3] + e[4] = r
    BY <1>1, <1>3, <1>4, <1>9
  <1> QED BY <1>10, SMT DEF e

\* E_32 writes four bytes.
LEMMA Bytes32 ==
  ASSUME NEW n \in Number
  PROVE  E_32(n) \in Seq(Byte) /\ Len(E_32(n)) = 4
  BY Split32

\* D_32 reads what E_32 has written, wherever it lies.
LEMMA Read32 ==
  ASSUME NEW n \in Number, NEW b, NEW o \in Nat,
         b[o + 1] = E_32(n)[1], b[o + 2] = E_32(n)[2],
         b[o + 3] = E_32(n)[3], b[o + 4] = E_32(n)[4]
  PROVE  D_32(b, o) = n
  <1> DEFINE e == E_32(n)
  <1>1. PICK a \in Nat, r \in Nat :
               /\ a <= 32767 /\ n = 65536 * a + r
               /\ 256 * e[1] + e[2] = a /\ 256 * e[3] + e[4] = r
    BY Split32
  <1> HIDE DEF e
  <1>2. D_16(b, o) = a
    BY <1>1 DEF D_16, e
  <1>3. b[(o + 2) + 1] = e[3] /\ b[(o + 2) + 2] = e[4]
    BY SMT DEF e
  <1>4. D_16(b, o + 2) = r
    BY <1>1, <1>3 DEF D_16
  <1> QED BY SMT, <1>1, <1>2, <1>4 DEF D_32

\* u is s followed by t.
Joins(u, s, t) ==
    /\ u \in Seq(Byte) /\ Len(u) = Len(s) + Len(t)
    /\ \A i \in 1..Len(s) : u[i] = s[i]
    /\ \A i \in 1..Len(t) : u[Len(s) + i] = t[i]

\* One byte string behind another.
LEMMA Concat ==
  ASSUME NEW s \in Seq(Byte), NEW t \in Seq(Byte)
  PROVE  Joins(s \o t, s, t)
  BY SMT DEF Joins

\* What the reader makes of bytes: the length a header announces, whether it
\* takes the frame, and the frame it returns.
IsProtocol(b) ==
    /\ D_8(b, 0) = AMQP_PSEUDOFRAME_PROTOCOL_HEADER
    /\ D_16(b, 1) = AMQP_PSEUDOFRAME_PROTOCOL_CHANNEL
Announced(b) ==
    IF IsProtocol(b) THEN 8 ELSE D_32(b, 3) + HEADER_SIZE + FOOTER_SIZE
Accepted(b) ==
    IsProtocol(b) \/ /\ FrameEnd(b, Len(b))
                     /\ D_8(b, 0) = AMQP_FRAME_METHOD =>
                          D_32(b, HEADER_SIZE) \in MethodNumbers
                     /\ D_8(b, 0) = AMQP_FRAME_HEADER =>
                          D_16(b, HEADER_SIZE) \in ClassNumbers
ReadAs(b) ==
    IF IsProtocol(b)
    THEN OtherFrame(AMQP_PSEUDOFRAME_PROTOCOL_HEADER,
                    AMQP_PSEUDOFRAME_PROTOCOL_CHANNEL, D_8(b, 6))
    ELSE CASE D_8(b, 0) = AMQP_FRAME_METHOD ->
                [type |-> D_8(b, 0), channel |-> D_16(b, 1),
                 id |-> D_32(b, HEADER_SIZE), arg |-> D_32(b, HEADER_SIZE + 4)]
           [] D_8(b, 0) = AMQP_FRAME_HEADER ->
                OtherFrame(D_8(b, 0), D_16(b, 1), D_16(b, HEADER_SIZE + 12))
           [] D_8(b, 0) = AMQP_FRAME_BODY ->
                OtherFrame(D_8(b, 0), D_16(b, 1), D_32(b, HEADER_SIZE))
           [] D_8(b, 0) = AMQP_FRAME_HEARTBEAT ->
                OtherFrame(D_8(b, 0), D_16(b, 1), 0)
           [] OTHER -> NoFrame

\* The frames of a broker, by their types.
FramesOf(type, channels, ids, args) ==
    [type : {type}, channel : channels, id : ids, arg : args]
MethodFrames ==
    {f \in FramesOf(AMQP_FRAME_METHOD, {0, 1}, MethodNumbers, Number) :
        f.id = MethodNumber("connection_tune") => f.arg \in Sizes \cup {0}}
HeaderFrames == FramesOf(AMQP_FRAME_HEADER, {1}, {0}, {0})
BodyFrames   == FramesOf(AMQP_FRAME_BODY, {1}, {0}, Number)
Heartbeats   == FramesOf(AMQP_FRAME_HEARTBEAT, {0}, {0}, {0})
OddFrames    == FramesOf(OddFrame, {0}, {0}, {0})
Versions     == FramesOf(AMQP_PSEUDOFRAME_PROTOCOL_HEADER,
                         {AMQP_PSEUDOFRAME_PROTOCOL_CHANNEL}, {0}, Byte)
SoundFrames ==
    MethodFrames \cup HeaderFrames \cup BodyFrames \cup Heartbeats
        \cup OddFrames \cup Versions

\* Bytes that the reader takes for a frame.
Frames(b, f) ==
    /\ b \in Seq(Byte) /\ Len(b) >= 8 /\ Announced(b) = Len(b) /\ Accepted(b)
    /\ Len(b) <= MinFrame
    /\ ReadAs(b) = IF IgnoredType(f) THEN NoFrame ELSE f

\* A frame is its header, its payload and the end byte.
LEMMA FramedFacts ==
  ASSUME NEW f, NEW p, f.type \in Byte, f.channel \in Short,
         p \in Seq(Byte), Len(p) \in Number
  PROVE  LET b == Framed(f, p)
         IN  /\ b \in Seq(Byte) /\ Len(b) = Len(p) + 8
             /\ D_8(b, 0) = f.type /\ D_16(b, 1) = f.channel /\ D_32(b, 3) = Len(p)
             /\ \A i \in 1..Len(p) : b[7 + i] = p[i]
             /\ b[Len(b)] = AMQP_FRAME_END
  <1> DEFINE n == Len(p)
             e == E_32(n)
             c == f.channel
             s == E_8(f.type) \o E_16(c)
             t == s \o e
             u == t \o p
             b == Framed(f, p)
  <1>1. e \in Seq(Byte) /\ Len(e) = 4
    BY Bytes32
  <1> HIDE DEF e
  <1>2. b = u \o <<AMQP_FRAME_END>>
    BY DEF Framed, e
  <1>3. /\ s \in Seq(Byte) /\ Len(s) = 3
        /\ s[1] = f.type /\ 256 * s[2] + s[3] = c
    <2>1. f.type % 256 = f.type
      BY SmallByte
    <2>2. E_8(f.type) = <<f.type>>
      BY <2>1 DEF E_8
    <2>3. /\ (c \div 256) % 256 \in Byte /\ c % 256 \in Byte
          /\ 256 * ((c \div 256) % 256) + (c % 256) = c
      BY SMT, Byte16
    <2> QED BY SMT, <2>2, <2>3 DEF E_16
  <1> HIDE DEF s
  <1>4. /\ t \in Seq(Byte) /\ Len(t) = 7
        /\ \A i \in 1..3 : t[i] = s[i]
        /\ \A i \in 1..4 : t[3 + i] = e[i]
    <2>1. s \in Seq(Byte) /\ e \in Seq(Byte)
      BY <1>1, <1>3
    <2>2. Joins(t, s, e)
      BY Zenon, <2>1, Concat
    <2> HIDE DEF t
    <2> QED BY SMT, <1>1, <1>3, <2>2 DEF Joins
  <1> HIDE DEF t
  <1>5. /\ u \in Seq(Byte) /\ Len(u) = 7 + n /\ \A i \in 1..7 : u[i] = t[i]
        /\ \A i \in 1..n : u[7 + i] = p[i]
    <2>1. t \in Seq(Byte) /\ p \in Seq(Byte)
      BY <1>4
    <2>2. Joins(u, t, p)
      BY Zenon, <2>1, Concat
    <2> HIDE DEF u
    <2> QED BY SMT, <1>4, <2>2 DEF Joins
  <1> HIDE DEF u
  <1>6. n \in Nat /\ AMQP_FRAME_END \in Byte
    BY SMT DEF AMQP_FRAME_END, Byte
  <1>7. /\ b \in Seq(Byte) /\ Len(b) = 8 + n /\ \A i \in 1..7 : b[i] = t[i]
        /\ \A i \in 1..n : b[7 + i] = p[i]
        /\ b[8 + n] = AMQP_FRAME_END
    BY SMT, <1>2, <1>5, <1>6
  <1> HIDE DEF b
  <1>8. D_8(b, 0) = f.type /\ D_16(b, 1) = f.channel
    BY SMT, <1>3, <1>4, <1>7 DEF D_8, D_16
  <1>9. D_32(b, 3) = n
    <2>1. b[3 + 1] = e[1] /\ b[3 + 2] = e[2] /\ b[3 + 3] = e[3] /\ b[3 + 4] = e[4]
      BY SMT, <1>4, <1>7
    <2> QED BY <2>1, Read32 DEF e
  <1> QED BY <1>6, <1>7, <1>8, <1>9 DEF b

\* Bytes with a header that announces their length, and an end byte.
Headed(b, type, channel, p) ==
    /\ b \in Seq(Byte) /\ Len(b) = Len(p) + 8 /\ ~IsProtocol(b)
    /\ Announced(b) = Len(b) /\ FrameEnd(b, Len(b))
    /\ D_8(b, 0) = type /\ D_16(b, 1) = channel
    /\ \A i \in 1..Len(p) : b[7 + i] = p[i]

\* A frame that is not a protocol header announces its own length.
LEMMA FramedHeaded ==
  ASSUME NEW f, NEW p, f.type \in Byte, f.type # 65, f.channel \in Short,
         p \in Seq(Byte), Len(p) \in Number
  PROVE  Headed(Framed(f, p), f.type, f.channel, p)
  <1> DEFINE b == Framed(f, p)
  <1>1. /\ b \in Seq(Byte) /\ Len(b) = Len(p) + 8
        /\ D_8(b, 0) = f.type /\ D_16(b, 1) = f.channel /\ D_32(b, 3) = Len(p)
        /\ \A i \in 1..Len(p) : b[7 + i] = p[i]
        /\ b[Len(b)] = AMQP_FRAME_END
    BY FramedFacts
  <1> HIDE DEF b
  <1>2. ~IsProtocol(b)
    BY <1>1 DEF IsProtocol, AMQP_PSEUDOFRAME_PROTOCOL_HEADER
  <1>3. Announced(b) = Len(b)
    BY SMT, <1>1, <1>2 DEF Announced, HEADER_SIZE, FOOTER_SIZE
  <1>4. FrameEnd(b, Len(b))
    BY SMT, <1>1 DEF FrameEnd, D_8
  <1> QED BY <1>1, <1>2, <1>3, <1>4 DEF Headed, b

\* The numbers that occur below are bytes, and fit 16 and 32 bits.
LEMMA SmallNumbers ==
  /\ {0, 1} \subseteq Short /\ {0, 1, 2, 3, 4, 5, 7, 8, 14} \subseteq Number
  /\ {0, 1, 2, 3, 7, 8} \subseteq Byte
  BY SMT DEF Short, Number, MaxNumber, Byte

\* The types and sizes are what they are.
LEMMA Types ==
  /\ AMQP_FRAME_METHOD = 1 /\ AMQP_FRAME_HEADER = 2 /\ AMQP_FRAME_BODY = 3
  /\ AMQP_FRAME_HEARTBEAT = 8 /\ OddFrame = 7
  /\ AMQP_PSEUDOFRAME_PROTOCOL_HEADER = 65
  /\ HEADER_SIZE = 7 /\ FOOTER_SIZE = 1 /\ MinFrame = 22
  BY DEF AMQP_FRAME_METHOD, AMQP_FRAME_HEADER, AMQP_FRAME_BODY, AMQP_FRAME_HEARTBEAT,
         OddFrame, AMQP_PSEUDOFRAME_PROTOCOL_HEADER, HEADER_SIZE, FOOTER_SIZE, MinFrame

\* A method frame, known or not, on the wire.
LEMMA MethodBytes ==
  ASSUME NEW f \in FramesOf(AMQP_FRAME_METHOD, {0, 1}, Number, Number)
  PROVE  /\ Headed(Bytes(f), 1, f.channel, Payload(f)) /\ Len(Payload(f)) = 8
         /\ D_32(Bytes(f), 7) = f.id /\ D_32(Bytes(f), 11) = f.arg
  <1> DEFINE d == E_32(f.id)
             e == E_32(f.arg)
             p == Payload(f)
             b == Bytes(f)
  <1>1. /\ f.type = 1 /\ f.type \in Byte /\ f.type # 65 /\ f.channel \in Short
        /\ f.id \in Number /\ f.arg \in Number
    BY SmallNumbers, Types DEF FramesOf
  <1>2. d \in Seq(Byte) /\ Len(d) = 4 /\ e \in Seq(Byte) /\ Len(e) = 4
    BY <1>1, Bytes32
  <1>3. p = d \o e
    BY <1>1, Types DEF Payload
  <1>4. b = Framed(f, p)
    BY <1>1 DEF Bytes, AMQP_PSEUDOFRAME_PROTOCOL_HEADER
  <1> HIDE DEF d, e, p, b
  <1>5. Joins(p, d, e)
    BY Zenon, <1>2, <1>3, Concat
  <1>6. /\ p \in Seq(Byte) /\ Len(p) = 8 /\ \A i \in 1..4 : p[i] = d[i]
        /\ \A i \in 1..4 : p[4 + i] = e[i]
    BY SMT, <1>2, <1>5 DEF Joins
  <1>7. Headed(b, 1, f.channel, p)
    BY <1>1, <1>4, <1>6, SmallNumbers, FramedHeaded
  <1>8. \A i \in 1..8 : b[7 + i] = p[i]
    BY <1>6, <1>7 DEF Headed
  <1>9. /\ b[7 + 1] = d[1] /\ b[7 + 2] = d[2] /\ b[7 + 3] = d[3] /\ b[7 + 4] = d[4]
        /\ b[11 + 1] = e[1] /\ b[11 + 2] = e[2] /\ b[11 + 3] = e[3] /\ b[11 + 4] = e[4]
    BY SMTT(30), <1>6, <1>8
  <1>10. D_32(b, 7) = f.id /\ D_32(b, 11) = f.arg
    BY <1>1, <1>9, Read32 DEF d, e
  <1> QED BY <1>6, <1>7, <1>10 DEF b, p

\* A method frame on the wire is read as that method frame.
LEMMA MethodFramesRead ==
  ASSUME NEW f \in MethodFrames
  PROVE  Frames(Bytes(f), f)
  <1> DEFINE b == Bytes(f)
  <1>1. /\ f \in FramesOf(AMQP_FRAME_METHOD, {0, 1}, Number, Number)
        /\ f.id \in MethodNumbers /\ f.type = 1
        /\ f = [type |-> f.type, channel |-> f.channel, id |-> f.id, arg |-> f.arg]
    BY MethodNumbersOK, Types DEF MethodFrames, FramesOf, MethodNumbers, Numbers
  <1>2. /\ Headed(b, 1, f.channel, Payload(f)) /\ Len(Payload(f)) = 8
        /\ D_32(b, 7) = f.id /\ D_32(b, 11) = f.arg
    BY <1>1, MethodBytes
  <1> HIDE DEF b
  <1>3. /\ b \in Seq(Byte) /\ Len(b) = 16 /\ Announced(b) = Len(b) /\ ~IsProtocol(b)
        /\ FrameEnd(b, Len(b)) /\ D_8(b, 0) = 1 /\ D_16(b, 1) = f.channel
    BY <1>2 DEF Headed
  <1>4. Accepted(b)
    BY <1>1, <1>2, <1>3, Types DEF Accepted
  <1>5. ReadAs(b) = f
    BY <1>1, <1>2, <1>3, Types DEF ReadAs
  <1>6. ~IgnoredType(f)
    BY <1>1, Types DEF IgnoredType
  <1>7. 16 >= 8 /\ 16 <= MinFrame
    BY Types
  <1> QED BY <1>3, <1>4, <1>5, <1>6, <1>7 DEF Frames, b

\* E_16 writes two bytes, the high one first.
LEMMA Two ==
  ASSUME NEW n \in Short
  PROVE  /\ E_16(n) \in Seq(Byte) /\ Len(E_16(n)) = 2
         /\ 256 * E_16(n)[1] + E_16(n)[2] = n
  <1>1. n \div 256 \in Byte /\ n % 256 \in Byte /\ (n \div 256) % 256 = n \div 256
        /\ 256 * (n \div 256) + (n % 256) = n
    BY SMT, Byte16
  <1> QED BY SMT, <1>1 DEF E_16

\* A content header on the wire is read as that content header.
LEMMA HeaderFramesRead ==
  ASSUME NEW f \in HeaderFrames
  PROVE  /\ Frames(Bytes(f), f) /\ Len(Bytes(f)) = 22
         /\ Headed(Bytes(f), 2, f.channel, Payload(f))
         /\ Bytes(f)[8] = 0 /\ Bytes(f)[9] = 60
  <1> DEFINE x == E_16(60)
             y == E_16(0)
             s == x \o y
             z == E_64(<<0, 1>>)
             t == s \o z
             p == Payload(f)
             b == Bytes(f)
  <1>1. /\ f.type = 2 /\ f.type \in Byte /\ f.type # 65 /\ f.channel \in Short
        /\ f.id = 0 /\ f.arg = 0
        /\ f = [type |-> f.type, channel |-> f.channel, id |-> f.id, arg |-> f.arg]
    BY SmallNumbers, Types DEF HeaderFrames, FramesOf
  <1>2. x \in Seq(Byte) /\ Len(x) = 2 /\ y \in Seq(Byte) /\ Len(y) = 2
        /\ 256 * y[1] + y[2] = 0 /\ 256 * x[1] + x[2] = 60
    <2>1. 60 \in Short /\ 0 \in Short
      BY SMT DEF Short
    <2> QED BY <2>1, Two
  <1>3. z \in Seq(Byte) /\ Len(z) = 8
    <2> DEFINE v == E_32(0)
               w == E_32(1)
    <2>1. z = v \o w
      BY DEF E_64
    <2>2. v \in Seq(Byte) /\ Len(v) = 4 /\ w \in Seq(Byte) /\ Len(w) = 4
      BY SmallNumbers, Bytes32
    <2> HIDE DEF v, w, z
    <2>3. Joins(z, v, w)
      BY Zenon, <2>1, <2>2, Concat
    <2> QED BY SMT, <2>2, <2>3 DEF Joins
  <1>4. p = t \o y
    BY <1>1, Types DEF Payload
  <1>5. b = Framed(f, p)
    BY <1>1 DEF Bytes, AMQP_PSEUDOFRAME_PROTOCOL_HEADER
  <1> HIDE DEF x, y, z, p, b
  <1>6. s \in Seq(Byte) /\ Len(s) = 4
    <2>1. Joins(s, x, y)
      BY Zenon, <1>2, Concat
    <2> HIDE DEF s
    <2> QED BY SMT, <1>2, <2>1 DEF Joins
  <1>6a. s[1] = 0 /\ s[2] = 60
    <2>1. Joins(s, x, y)
      BY Zenon, <1>2, Concat
    <2> HIDE DEF s
    <2>2. x[1] \in Byte /\ x[2] \in Byte
      <3>1. \A q \in Seq(Byte) : Len(q) = 2 => q[1] \in Byte /\ q[2] \in Byte
        BY SMT
      <3> QED BY <1>2, <3>1
    <2>3. x[1] = 0 /\ x[2] = 60
      <3>1. \A u, v \in Byte : 256 * u + v = 60 => u = 0 /\ v = 60
        BY SMT DEF Byte
      <3> QED BY <1>2, <2>2, <3>1
    <2> QED BY SMT, <1>2, <2>1, <2>3 DEF Joins
  <1> HIDE DEF s
  <1>7. t \in Seq(Byte) /\ Len(t) = 12 /\ t[1] = 0 /\ t[2] = 60
    <2>1. Joins(t, s, z)
      BY Zenon, <1>3, <1>6, Concat
    <2> HIDE DEF t
    <2> QED BY SMT, <1>3, <1>6, <1>6a, <2>1 DEF Joins
  <1> HIDE DEF t
  <1>8. p \in Seq(Byte) /\ Len(p) = 14 /\ p[13] = y[1] /\ p[14] = y[2]
        /\ p[1] = 0 /\ p[2] = 60
    <2>1. Joins(p, t, y)
      BY Zenon, <1>2, <1>4, <1>7, Concat
    <2> QED BY SMT, <1>2, <1>7, <2>1 DEF Joins
  <1>9. Headed(b, 2, f.channel, p)
    BY <1>1, <1>5, <1>8, SmallNumbers, FramedHeaded
  <1>10. /\ b \in Seq(Byte) /\ Len(b) = 22 /\ Announced(b) = Len(b) /\ ~IsProtocol(b)
         /\ FrameEnd(b, Len(b)) /\ D_8(b, 0) = 2 /\ D_16(b, 1) = f.channel
         /\ b[20] = y[1] /\ b[21] = y[2] /\ b[8] = 0 /\ b[9] = 60
    BY SMT, <1>8, <1>9 DEF Headed
  <1>11. D_16(b, 19) = f.arg
    BY SMT, <1>1, <1>2, <1>10 DEF D_16
  <1>12. Accepted(b)
    <2>1. D_16(b, 7) = 60
      BY SMT, <1>10 DEF D_16
    <2>2. D_16(b, 7) \in ClassNumbers
      BY SMT, <2>1 DEF ClassNumbers
    <2> QED BY <1>10, <2>2, Types DEF Accepted
  <1>13. HEADER_SIZE + 12 = 19
    BY DEF HEADER_SIZE
  <1>14. ReadAs(b) = f
    BY <1>1, <1>10, <1>11, <1>13, Types DEF ReadAs, OtherFrame
  <1>15. ~IgnoredType(f)
    BY <1>1, Types DEF IgnoredType
  <1>16. 22 >= 8 /\ 22 <= MinFrame
    BY Types
  <1> QED BY <1>1, <1>9, <1>10, <1>12, <1>14, <1>15, <1>16 DEF Frames, b, p

\* A content body on the wire is read as that body.
LEMMA BodyFramesRead ==
  ASSUME NEW f \in BodyFrames
  PROVE  Frames(Bytes(f), f) /\ Len(Bytes(f)) = 12 /\ Headed(Bytes(f), 3, 1, Payload(f))
  <1> DEFINE p == Payload(f)
             b == Bytes(f)
  <1>1. /\ f.type = 3 /\ f.type \in Byte /\ f.type # 65 /\ f.channel = 1
        /\ f.channel \in Short /\ f.id = 0 /\ f.arg \in Number
        /\ f = [type |-> f.type, channel |-> f.channel, id |-> f.id, arg |-> f.arg]
    BY SmallNumbers, Types DEF BodyFrames, FramesOf
  <1>2. p = E_32(f.arg)
    BY <1>1, Types DEF Payload
  <1>3. p \in Seq(Byte) /\ Len(p) = 4
    BY <1>1, <1>2, Bytes32
  <1>4. b = Framed(f, p)
    BY <1>1 DEF Bytes, AMQP_PSEUDOFRAME_PROTOCOL_HEADER
  <1> HIDE DEF p, b
  <1>5. Headed(b, 3, f.channel, p)
    BY <1>1, <1>3, <1>4, SmallNumbers, FramedHeaded
  <1>6. /\ b \in Seq(Byte) /\ Len(b) = 12 /\ Announced(b) = Len(b) /\ ~IsProtocol(b)
        /\ FrameEnd(b, Len(b)) /\ D_8(b, 0) = 3 /\ D_16(b, 1) = f.channel
        /\ b[7 + 1] = p[1] /\ b[7 + 2] = p[2] /\ b[7 + 3] = p[3] /\ b[7 + 4] = p[4]
    BY SMT, <1>3, <1>5 DEF Headed
  <1>7. D_32(b, HEADER_SIZE) = f.arg
    BY <1>1, <1>2, <1>6, Read32, Types
  <1>8. Accepted(b)
    BY <1>6, Types DEF Accepted
  <1>9. ReadAs(b) = f
    BY <1>1, <1>6, <1>7, Types DEF ReadAs, OtherFrame
  <1>10. ~IgnoredType(f)
    BY <1>1, Types DEF IgnoredType
  <1>11. 12 >= 8 /\ 12 <= MinFrame
    BY Types
  <1> QED BY <1>1, <1>5, <1>6, <1>8, <1>9, <1>10, <1>11 DEF Frames, b, p

\* Frames without a payload are read as what they are.
LEMMA EmptyFramesRead ==
  ASSUME NEW f \in Heartbeats \cup OddFrames
  PROVE  Frames(Bytes(f), f)
  <1> DEFINE p == Payload(f)
             b == Bytes(f)
  <1>1. /\ f.type \in {7, 8} /\ f.type \in Byte /\ f.type # 65 /\ f.channel = 0
        /\ f.channel \in Short /\ f.id = 0 /\ f.arg = 0
        /\ f = [type |-> f.type, channel |-> f.channel, id |-> f.id, arg |-> f.arg]
    BY SmallNumbers, Types DEF Heartbeats, OddFrames, FramesOf
  <1>2. p = << >>
    BY <1>1, Types DEF Payload
  <1>3. p \in Seq(Byte) /\ Len(p) = 0
    BY SMT, <1>2
  <1>4. b = Framed(f, p)
    BY <1>1 DEF Bytes, AMQP_PSEUDOFRAME_PROTOCOL_HEADER
  <1> HIDE DEF p, b
  <1>5. Headed(b, f.type, f.channel, p)
    BY <1>1, <1>3, <1>4, SmallNumbers, FramedHeaded
  <1>6. /\ b \in Seq(Byte) /\ Len(b) = 8 /\ Announced(b) = Len(b) /\ ~IsProtocol(b)
        /\ FrameEnd(b, Len(b)) /\ D_8(b, 0) = f.type /\ D_16(b, 1) = f.channel
    BY SMT, <1>3, <1>5 DEF Headed
  <1>7. Accepted(b)
    BY <1>1, <1>6, Types DEF Accepted
  <1>8. ReadAs(b) = IF IgnoredType(f) THEN NoFrame ELSE f
    <2>1. CASE f.type = 7
      BY <1>1, <1>6, <2>1, Types DEF ReadAs, OtherFrame, IgnoredType
    <2>2. CASE f.type = 8
      BY <1>1, <1>6, <2>2, Types DEF ReadAs, OtherFrame, IgnoredType
    <2> QED BY <1>1, <2>1, <2>2
  <1>9. 8 >= 8 /\ 8 <= MinFrame
    BY Types
  <1> QED BY <1>6, <1>7, <1>8, <1>9 DEF Frames, b

\* A protocol header on the wire is read as that protocol header.
LEMMA VersionsRead ==
  ASSUME NEW f \in Versions
  PROVE  Frames(Bytes(f), f)
  <1> DEFINE b == Bytes(f)
  <1>1. /\ f.type = 65 /\ f.channel = AMQP_PSEUDOFRAME_PROTOCOL_CHANNEL
        /\ f.id = 0 /\ f.arg \in Byte
        /\ f = [type |-> f.type, channel |-> f.channel, id |-> f.id, arg |-> f.arg]
    BY Types DEF Versions, FramesOf
  <1>2. b = <<65, 77, 81, 80, 1, 1, f.arg, 0>>
    BY <1>1, Types DEF Bytes
  <1>3. /\ b \in Seq(Byte) /\ Len(b) = 8 /\ b[1] = 65 /\ b[2] = 77 /\ b[3] = 81
        /\ b[7] = f.arg
    BY SMT, <1>1, <1>2 DEF Byte
  <1> HIDE DEF b
  <1>4. IsProtocol(b) /\ D_8(b, 6) = f.arg
    BY SMT, <1>3 DEF IsProtocol, D_8, D_16, AMQP_PSEUDOFRAME_PROTOCOL_HEADER,
                     AMQP_PSEUDOFRAME_PROTOCOL_CHANNEL
  <1>5. Announced(b) = 8 /\ Accepted(b)
    BY <1>4 DEF Announced, Accepted
  <1>6. ReadAs(b) = f /\ ~IgnoredType(f)
    BY <1>1, <1>4, Types DEF ReadAs, OtherFrame, IgnoredType
  <1>7. 8 >= 8 /\ 8 <= MinFrame
    BY Types
  <1> QED BY <1>3, <1>5, <1>6, <1>7 DEF Frames, b

\* Whatever a broker sends by the protocol is read as what it is.
LEMMA SoundFramesRead ==
  ASSUME NEW f \in SoundFrames
  PROVE  Frames(Bytes(f), f)
  BY MethodFramesRead, HeaderFramesRead, BodyFramesRead, EmptyFramesRead, VersionsRead
     DEF SoundFrames

\* Bytes that the reader must not take for a frame.
Alien(b) ==
    /\ b \in Seq(Byte) /\ Len(b) >= 8 /\ Announced(b) = Len(b)
    /\ Accepted(b) => Len(b) > Longest

\* The larger of the two frame_max of the client.
LEMMA LongestFacts == Longest \in Number /\ Longest >= 22 /\ Longest \in Sizes
  BY SMT, ConnAssumption DEF Longest, Sizes, MinFrame, Number

\* The frame with a method number that nobody knows.
LEMMA UnknownFacts ==
  /\ Unknown = [type |-> AMQP_FRAME_METHOD, channel |-> 1, id |-> 5, arg |-> 0]
  /\ Unknown \notin SoundFrames /\ ~IgnoredType(Unknown) /\ 5 \notin MethodNumbers
  <1>1. Unknown = [type |-> AMQP_FRAME_METHOD, channel |-> 1, id |-> 5, arg |-> 0]
    BY DEF Unknown, MethodFrame
  <1>2. 5 \notin MethodNumbers
    BY SMT, MethodNumbersOK DEF MethodNumbers, Numbers
  <1>3. ~IgnoredType(Unknown)
    BY <1>1, Types DEF IgnoredType
  <1>4. Unknown.type = 1 /\ Unknown.id = 5
    BY <1>1, Types
  <1>5. Unknown \notin SoundFrames
    BY <1>2, <1>4, Types DEF SoundFrames, MethodFrames, HeaderFrames, BodyFrames,
                             Heartbeats, OddFrames, Versions, FramesOf
  <1> QED BY <1>1, <1>2, <1>3, <1>5

\* Its bytes are not taken for a frame.
LEMMA UnknownAlien == Alien(Bytes(Unknown))
  <1> DEFINE b == Bytes(Unknown)
  <1>1. Unknown \in FramesOf(AMQP_FRAME_METHOD, {0, 1}, Number, Number)
        /\ Unknown.id = 5
    BY UnknownFacts, SmallNumbers DEF FramesOf
  <1>2. /\ Headed(b, 1, Unknown.channel, Payload(Unknown)) /\ Len(Payload(Unknown)) = 8
        /\ D_32(b, 7) = 5
    BY <1>1, MethodBytes
  <1> HIDE DEF b
  <1>3. /\ b \in Seq(Byte) /\ Len(b) = 16 /\ Announced(b) = Len(b) /\ ~IsProtocol(b)
        /\ D_8(b, 0) = 1
    BY <1>2 DEF Headed
  <1>4. ~Accepted(b)
    BY <1>2, <1>3, UnknownFacts, Types DEF Accepted
  <1> QED BY <1>3, <1>4 DEF Alien, b

\* The body frame that a broker may spoil.
LEMMA BodyFacts == Body \in BodyFrames /\ Body.type = 3 /\ Body.channel = 1
  BY SmallNumbers, Types DEF Body, OtherFrame, BodyFrames, FramesOf

\* b is a with another byte at k.
Alters(b, a, k, v) ==
    /\ b \in Seq(Byte) /\ Len(b) = Len(a)
    /\ \A j \in 1..Len(a) : b[j] = IF j = k THEN v ELSE a[j]

\* A byte of a byte string is replaced.
LEMMA Altered ==
  ASSUME NEW a \in Seq(Byte), NEW k \in 1..Len(a), NEW v \in Byte
  PROVE  Alters([a EXCEPT ![k] = v], a, k, v)
  BY ExceptSeq DEF Alters

\* A frame with another end byte is not taken for a frame.
LEMMA BadAlien == Alien(Bad)
  <1> DEFINE a == Bytes(Body)
             b == Bad
  <1>1. Len(a) = 12 /\ Headed(a, 3, 1, Payload(Body))
    BY BodyFacts, BodyFramesRead
  <1>2. b = [a EXCEPT ![12] = 0]
    BY <1>1 DEF Bad
  <1> HIDE DEF a, b
  <1>3. /\ a \in Seq(Byte) /\ Len(a) = 12 /\ ~IsProtocol(a) /\ Announced(a) = 12
        /\ D_8(a, 0) = 3
    BY <1>1 DEF Headed
  <1>4. /\ b \in Seq(Byte) /\ Len(b) = 12 /\ b[12] = 0
        /\ \A i \in 1..11 : b[i] = a[i]
    <2>1. 12 \in 1..Len(a) /\ 0 \in Byte
      BY SMT, <1>3, SmallNumbers
    <2>2. Alters(b, a, 12, 0)
      BY Zenon, <1>2, <1>3, <2>1, Altered
    <2> QED BY SMT, <1>3, <2>2 DEF Alters
  <1>5. /\ b[1] = a[1] /\ b[2] = a[2] /\ b[3] = a[3] /\ b[4] = a[4] /\ b[5] = a[5]
        /\ b[6] = a[6] /\ b[7] = a[7]
    BY SMT, <1>4
  <1>6. IsProtocol(b) <=> IsProtocol(a)
    BY <1>5 DEF IsProtocol, D_8, D_16
  <1>7. D_32(b, 3) = D_32(a, 3)
    BY SMT, <1>5 DEF D_32, D_16
  <1>8. Announced(b) = 12 /\ ~IsProtocol(b)
    BY <1>3, <1>6, <1>7 DEF Announced
  <1>9. ~FrameEnd(b, Len(b))
    BY SMT, <1>4 DEF FrameEnd, D_8, AMQP_FRAME_END
  <1> QED BY <1>4, <1>8, <1>9 DEF Alien, Accepted, b

\* Neither is a header of a class that there is not.
LEMMA NoClassAlien == Alien(NoClass)
  <1> DEFINE f == OtherFrame(AMQP_FRAME_HEADER, 1, 0)
             a == Bytes(f)
             b == NoClass
  <1>1. f \in HeaderFrames
    BY DEF OtherFrame, HeaderFrames, FramesOf
  <1>2. Len(a) = 22 /\ Headed(a, 2, f.channel, Payload(f)) /\ a[8] = 0
    BY <1>1, HeaderFramesRead
  <1>3. b = [a EXCEPT ![9] = 61]
    BY SMT DEF NoClass, HEADER_SIZE
  <1> HIDE DEF a, b, f
  <1>4. /\ a \in Seq(Byte) /\ ~IsProtocol(a) /\ Announced(a) = 22 /\ D_8(a, 0) = 2
    BY <1>2 DEF Headed
  <1>5. /\ b \in Seq(Byte) /\ Len(b) = 22 /\ b[9] = 61
        /\ \A i \in 1..8 : b[i] = a[i]
    <2>1. 9 \in 1..Len(a) /\ 61 \in Byte
      BY SMT, <1>2 DEF Byte
    <2>2. Alters(b, a, 9, 61)
      BY Zenon, <1>3, <1>4, <2>1, Altered
    <2> QED BY SMT, <1>2, <2>2 DEF Alters
  <1>6. /\ b[1] = a[1] /\ b[2] = a[2] /\ b[3] = a[3] /\ b[4] = a[4] /\ b[5] = a[5]
        /\ b[6] = a[6] /\ b[7] = a[7] /\ b[8] = 0
    BY SMT, <1>2, <1>5
  <1>7. (IsProtocol(b) <=> IsProtocol(a)) /\ D_8(b, 0) = 2
    BY <1>4, <1>6 DEF IsProtocol, D_8, D_16
  <1>8. D_32(b, 3) = D_32(a, 3)
    BY SMT, <1>6 DEF D_32, D_16
  <1>9. Announced(b) = 22 /\ ~IsProtocol(b)
    BY <1>4, <1>7, <1>8 DEF Announced
  <1>10. D_16(b, 7) = 61
    BY SMT, <1>5, <1>6 DEF D_16
  <1>11. D_16(b, HEADER_SIZE) \notin ClassNumbers
    BY SMT, <1>10, Types DEF ClassNumbers
  <1>12. ~Accepted(b)
    BY <1>7, <1>9, <1>11, Types DEF Accepted
  <1> QED BY SMT, <1>5, <1>9, <1>12 DEF Alien, b

\* Neither is one that is longer than any frame_max of the client.
LEMMA TooLongAlien == Alien(TooLong)
  <1> DEFINE p == [i \in 1..Longest |-> 0]
             b == TooLong
  <1>1. p \in Seq(Byte) /\ Len(p) = Longest
    BY SMT, LongestFacts DEF Byte, Number
  <1>2. b = Framed(Body, p)
    BY DEF TooLong
  <1> HIDE DEF p, b
  <1>3. Headed(b, 3, 1, p)
    BY <1>1, <1>2, BodyFacts, LongestFacts, SmallNumbers, FramedHeaded
  <1>4. Longest \in Nat
    BY LongestFacts DEF Number
  <1>5. b \in Seq(Byte) /\ Len(b) = Longest + 8 /\ Announced(b) = Len(b)
    BY <1>1, <1>3 DEF Headed
  <1> QED BY SMT, <1>4, <1>5 DEF Alien, b

\* The bytes a frame may be on the wire.
Wire(f) == IF f = Unknown THEN {Bytes(Unknown), Bad, NoClass, TooLong} ELSE {Bytes(f)}
SentFrames == SoundFrames \cup {Unknown}

\* What lies on the wire for a frame announces its length, and is read as the frame
\* or not at all.
LEMMA WireFacts ==
  ASSUME NEW f \in SentFrames, NEW w \in Wire(f)
  PROVE  /\ w \in Seq(Byte) /\ Len(w) >= 8 /\ Announced(w) = Len(w)
         /\ f # Unknown => f \in SoundFrames /\ Frames(w, f)
         /\ f = Unknown => Alien(w)
  <1>1. CASE f = Unknown
    BY <1>1, UnknownAlien, BadAlien, NoClassAlien, TooLongAlien DEF Wire, Alien
  <1>2. CASE f # Unknown
    <2>1. f \in SoundFrames /\ w = Bytes(f)
      BY <1>2 DEF Wire, SentFrames
    <2> QED BY <1>2, <2>1, SoundFramesRead DEF Frames
  <1> QED BY <1>1, <1>2

\* The bytes w are in s behind the first n.
Slice(s, n, w) == \A k \in 1..Len(w) : s[n + k] = w[k]

\* A stream is the bytes of some frames, one after the other: cut is where they end.
Cuts(s, fs, cut) ==
    /\ cut \in [0..Len(fs) -> Nat] /\ cut[0] = 0 /\ cut[Len(fs)] = Len(s)
    /\ \A i, j \in 0..Len(fs) : i <= j => cut[i] <= cut[j]
    /\ \A i \in 1..Len(fs) : \E w \in Wire(fs[i]) :
          cut[i] = cut[i - 1] + Len(w) /\ Slice(s, cut[i - 1], w)
Parts(s, fs) == \E cut : Cuts(s, fs, cut)

\* The empty stream holds no frame.
LEMMA NoParts == Parts(<< >>, << >>)
  <1> DEFINE cut == [i \in 0..0 |-> 0]
  <1>1. Cuts(<< >>, << >>, cut)
    BY SMT DEF Cuts
  <1> QED BY <1>1 DEF Parts

\* One more frame behind the others.
LEMMA PartsAppend ==
  ASSUME NEW s \in Seq(Byte), NEW fs \in Seq(SentFrames), Parts(s, fs),
         NEW f \in SentFrames, NEW w \in Wire(f), NEW t, t = s \o w, NEW gs, gs = Append(fs, f)
  PROVE  Parts(t, gs) /\ t \in Seq(Byte) /\ gs \in Seq(SentFrames)
  <1>1. w \in Seq(Byte) /\ Len(w) \in Nat /\ Len(s) \in Nat /\ Len(fs) \in Nat
    <2>1. w \in Seq(Byte)
      BY WireFacts
    <2> QED BY <2>1
  <1>2. Joins(t, s, w)
    BY Zenon, <1>1, Concat
  <1>3. /\ t \in Seq(Byte) /\ Len(t) = Len(s) + Len(w)
        /\ \A i \in 1..Len(s) : t[i] = s[i]
        /\ \A i \in 1..Len(w) : t[Len(s) + i] = w[i]
    BY <1>2 DEF Joins
  <1>4. PICK cut : Cuts(s, fs, cut)
    BY DEF Parts
  <1> DEFINE n == Len(fs)
             new == [i \in 0..(n + 1) |-> IF i <= n THEN cut[i] ELSE Len(t)]
  <1>5. gs \in Seq(SentFrames) /\ Len(gs) = n + 1 /\ gs[n + 1] = f
        /\ \A i \in 1..n : gs[i] = fs[i]
    BY SMT
  <1>6. /\ cut \in [0..n -> Nat] /\ cut[0] = 0 /\ cut[n] = Len(s)
        /\ \A i, j \in 0..n : i <= j => cut[i] <= cut[j]
        /\ \A i \in 1..n : \E v \in Wire(fs[i]) :
              cut[i] = cut[i - 1] + Len(v) /\ Slice(s, cut[i - 1], v)
    BY <1>4 DEF Cuts
  <1>7. \A i \in 0..n : cut[i] \in Nat /\ cut[i] <= Len(s)
    <2> TAKE i \in 0..n
    <2>1. n \in 0..n /\ i <= n
      BY SMT, <1>1
    <2> QED BY <1>6, <2>1
  <1>8. new \in [0..(n + 1) -> Nat] /\ new[0] = 0 /\ new[n + 1] = Len(t)
        /\ \A i \in 0..n : new[i] = cut[i]
    BY SMT, <1>1, <1>3, <1>6
  <1> HIDE DEF new
  <1>9. ASSUME NEW i \in 0..(n + 1), NEW j \in 0..(n + 1), i <= j PROVE new[i] <= new[j]
    <2>1. CASE j <= n
      <3>1. i \in 0..n /\ j \in 0..n
        BY SMT, <1>1, <1>9, <2>1
      <3> QED BY <1>6, <1>8, <1>9, <3>1
    <2>2. CASE j = n + 1 /\ i <= n
      <3>1. i \in 0..n
        BY SMT, <1>1, <2>2
      <3>2. new[i] \in Nat /\ new[i] <= Len(s)
        BY <1>7, <1>8, <3>1
      <3>3. new[j] = Len(s) + Len(w)
        BY <1>3, <1>8, <2>2
      <3> HIDE DEF n
      <3> QED BY SMT, <1>1, <3>2, <3>3
    <2>3. CASE i = n + 1
      BY SMT, <1>1, <1>3, <1>8, <1>9, <2>3
    <2> QED BY SMT, <1>1, <2>1, <2>2, <2>3
  <1>10. ASSUME NEW i \in 1..(n + 1)
         PROVE  \E v \in Wire(gs[i]) :
                  new[i] = new[i - 1] + Len(v) /\ Slice(t, new[i - 1], v)
    <2>1. CASE i = n + 1
      <3>1. gs[i] = f /\ new[i] = new[i - 1] + Len(w) /\ new[i - 1] = Len(s)
        <4>1. i - 1 = n /\ n \in 0..n
          BY SMT, <1>1, <2>1
        <4> QED BY <1>3, <1>5, <1>6, <1>8, <2>1, <4>1
      <3>2. Slice(t, new[i - 1], w)
        BY <1>3, <3>1 DEF Slice
      <3> QED BY <3>1, <3>2
    <2>2. CASE i \in 1..n
      <3>1. PICK v \in Wire(fs[i]) : cut[i] = cut[i - 1] + Len(v) /\ Slice(s, cut[i - 1], v)
        BY <1>6, <2>2
      <3>2. fs[i] \in SentFrames /\ gs[i] = fs[i]
        BY <1>5, <2>2
      <3>3. v \in Seq(Byte)
        BY <3>2, WireFacts
      <3>4. i - 1 \in 0..n /\ i \in 0..n /\ Len(v) \in Nat
        BY SMT, <1>1, <2>2, <3>3
      <3>5. new[i] = cut[i] /\ new[i - 1] = cut[i - 1]
        BY <1>8, <3>4
      <3>6. cut[i - 1] \in Nat /\ cut[i] \in Nat /\ cut[i] <= Len(s)
        BY <1>7, <3>4
      <3>7. ASSUME NEW k \in 1..Len(v) PROVE t[cut[i - 1] + k] = v[k]
        <4>1. cut[i - 1] + k \in 1..Len(s)
          BY SMTT(30), <1>1, <3>1, <3>4, <3>6
        <4>2. t[cut[i - 1] + k] = s[cut[i - 1] + k]
          BY <1>3, <4>1
        <4> QED BY <3>1, <4>2 DEF Slice
      <3> QED BY <3>1, <3>2, <3>5, <3>7 DEF Slice
    <2> QED BY SMT, <1>1, <2>1, <2>2
  <1>11. Cuts(t, gs, new)
    BY <1>5, <1>8, <1>9, <1>10 DEF Cuts
  <1> QED BY <1>3, <1>5, <1>11 DEF Parts

\* The first frame, and the rest.
LEMMA PartsHead ==
  ASSUME NEW s \in Seq(Byte), NEW fs \in Seq(SentFrames), Parts(s, fs), s # << >>
  PROVE  /\ fs # << >>
         /\ \E w \in Wire(Head(fs)) : /\ Len(w) <= Len(s) /\ Slice(s, 0, w)
                                      /\ Parts(SubSeq(s, Len(w) + 1, Len(s)), Tail(fs))
  <1>1. PICK cut : Cuts(s, fs, cut)
    BY DEF Parts
  <1> DEFINE n == Len(fs)
  <1>2. /\ cut \in [0..n -> Nat] /\ cut[0] = 0 /\ cut[n] = Len(s)
        /\ \A i, j \in 0..n : i <= j => cut[i] <= cut[j]
        /\ \A i \in 1..n : \E v \in Wire(fs[i]) :
              cut[i] = cut[i - 1] + Len(v) /\ Slice(s, cut[i - 1], v)
    BY <1>1 DEF Cuts
  <1>3. n \in Nat /\ Len(s) \in Nat /\ Len(s) # 0
    BY EmptySeq
  <1>4. n # 0 /\ n >= 1
    BY SMT, <1>2, <1>3
  <1>5. /\ fs # << >> /\ Head(fs) = fs[1] /\ Head(fs) \in SentFrames
        /\ Tail(fs) \in Seq(SentFrames) /\ Len(Tail(fs)) = n - 1
        /\ \A i \in 1..(n - 1) : Tail(fs)[i] = fs[i + 1]
    BY SMT, <1>4
  <1>6. PICK w \in Wire(fs[1]) : cut[1] = Len(w) /\ Slice(s, 0, w)
    <2>1. 1 \in 1..n
      BY SMT, <1>3, <1>4
    <2>2. PICK v \in Wire(fs[1]) : cut[1] = cut[1 - 1] + Len(v) /\ Slice(s, cut[1 - 1], v)
      BY <1>2, <2>1
    <2>3. v \in Seq(Byte)
      BY <1>5, WireFacts
    <2>4. 1 - 1 = 0 /\ cut[1] = Len(v)
      BY SMT, <1>2, <2>2, <2>3
    <2> QED BY <1>2, <2>2, <2>4
  <1> DEFINE m == Len(w)
             t == SubSeq(s, m + 1, Len(s))
             gs == Tail(fs)
             new == [i \in 0..(n - 1) |-> cut[i + 1] - m]
  <1>7. m \in Nat /\ m <= Len(s)
    <2>1. w \in Seq(Byte)
      BY <1>5, WireFacts
    <2> QED BY SMT, <1>2, <1>3, <1>4, <1>6, <2>1
  <1>8. /\ t \in Seq(Byte) /\ Len(t) = Len(s) - m
        /\ \A k \in 1..(Len(s) - m) : t[k] = s[m + k]
    BY SMT, <1>3, <1>7
  <1>9. \A i \in 0..(n - 1) : /\ i + 1 \in 0..n /\ cut[i + 1] \in Nat
                              /\ m <= cut[i + 1] /\ cut[i + 1] <= Len(s)
    <2> TAKE i \in 0..(n - 1)
    <2>1. i + 1 \in 0..n /\ 1 \in 0..n /\ n \in 0..n /\ 1 <= i + 1 /\ i + 1 <= n
      BY SMT, <1>3, <1>4
    <2> QED BY <1>2, <1>6, <2>1
  <1>10. /\ new \in [0..(n - 1) -> Nat] /\ new[0] = 0 /\ new[n - 1] = Len(t)
         /\ \A i \in 0..(n - 1) : new[i] = cut[i + 1] - m
    <2>1. \A i \in 0..(n - 1) : new[i] = cut[i + 1] - m
      OBVIOUS
    <2>2. \A i \in 0..(n - 1) : cut[i + 1] - m \in Nat
      BY SMT, <1>7, <1>9
    <2>3. new \in [0..(n - 1) -> Nat]
      BY <2>2
    <2>4. 0 \in 0..(n - 1) /\ 0 + 1 = 1 /\ n - 1 \in 0..(n - 1) /\ (n - 1) + 1 = n
      BY SMT, <1>3, <1>4
    <2> HIDE DEF new, t
    <2>5. new[0] = m - m /\ new[n - 1] = Len(s) - m
      BY <1>2, <1>6, <2>1, <2>4
    <2>6. m - m = 0
      BY SMT, <1>7
    <2> QED BY <1>8, <2>1, <2>3, <2>5, <2>6
  <1> HIDE DEF new, t, m
  <1>11. \A i, j \in 0..(n - 1) : i <= j => new[i] <= new[j]
    BY SMTT(30), <1>2, <1>3, <1>4, <1>7, <1>9, <1>10
  <1>12. ASSUME NEW i \in 1..(n - 1)
         PROVE  \E v \in Wire(gs[i]) :
                  new[i] = new[i - 1] + Len(v) /\ Slice(t, new[i - 1], v)
    <2>1. i + 1 \in 1..n /\ (i + 1) - 1 = i /\ (i - 1) + 1 = i /\ i \in 0..(n - 1) /\ i - 1 \in 0..(n - 1)
      BY SMT, <1>3
    <2>2. PICK v \in Wire(fs[i + 1]) : cut[i + 1] = cut[i] + Len(v) /\ Slice(s, cut[i], v)
      BY <1>2, <2>1
    <2>3. gs[i] = fs[i + 1] /\ fs[i + 1] \in SentFrames
      BY <1>5, <2>1
    <2>4. v \in Seq(Byte) /\ Len(v) \in Nat
      <3>1. v \in Seq(Byte)
        BY <2>3, WireFacts
      <3> QED BY <3>1
    <2>5. /\ new[i] = cut[i + 1] - m /\ new[i - 1] = cut[i] - m
          /\ cut[i] \in Nat /\ cut[i + 1] \in Nat /\ m <= cut[i] /\ cut[i + 1] <= Len(s)
      BY <1>9, <1>10, <2>1
    <2>6. new[i] = new[i - 1] + Len(v)
      BY SMT, <1>7, <2>2, <2>4, <2>5
    <2>7. ASSUME NEW k \in 1..Len(v) PROVE t[new[i - 1] + k] = v[k]
      <3>1. new[i - 1] + k \in 1..(Len(s) - m) /\ m + (new[i - 1] + k) = cut[i] + k
        <4> DEFINE a == cut[i]
                   z == cut[i + 1]
                   l == Len(v)
                   q == new[i - 1]
                   e == Len(s)
        <4>1. /\ z = a + l /\ q = a - m /\ a \in Nat /\ z \in Nat /\ m <= a /\ z <= e
              /\ m \in Nat /\ l \in Nat /\ e \in Nat
          BY <1>3, <1>7, <2>2, <2>4, <2>5
        <4>2. k \in 1..l
          OBVIOUS
        <4> HIDE DEF a, z, l, q, e
        <4>3. q + k \in 1..(e - m) /\ m + (q + k) = a + k
          BY SMT, <4>1, <4>2
        <4> QED BY <4>3 DEF a, q, e
      <3>2. t[new[i - 1] + k] = s[cut[i] + k]
        BY <1>8, <3>1
      <3> QED BY <2>2, <3>2 DEF Slice
    <2> QED BY <2>2, <2>3, <2>6, <2>7 DEF Slice
  <1>13. Cuts(t, gs, new)
    BY <1>5, <1>10, <1>11, <1>12 DEF Cuts
  <1>14. Parts(t, gs)
    BY <1>13 DEF Parts
  <1> QED BY <1>5, <1>6, <1>7, <1>14 DEF t, m

Prefix(b, s) ==
    /\ b \in Seq(Byte) /\ Len(b) <= Len(s) /\ \A i \in 1..Len(b) : b[i] = s[i]

\* The header decides what is announced.
LEMMA SameHeader ==
  ASSUME NEW a \in Seq(Byte), NEW b, Prefix(a, b), Len(a) >= 7
  PROVE  (IsProtocol(a) <=> IsProtocol(b)) /\ Announced(a) = Announced(b)
  <1>1. /\ b[1] = a[1] /\ b[2] = a[2] /\ b[3] = a[3] /\ b[4] = a[4] /\ b[5] = a[5]
        /\ b[6] = a[6] /\ b[7] = a[7]
    BY SMT DEF Prefix
  <1>2. IsProtocol(b) <=> IsProtocol(a)
    BY <1>1 DEF IsProtocol, D_8, D_16
  <1>3. D_32(b, 3) = D_32(a, 3)
    BY SMT, <1>1 DEF D_32, D_16
  <1> QED BY <1>2, <1>3 DEF Announced

\* Bytes are integers.
LEMMA ByteInt == \A n \in Byte : n \in Int
  BY SMT DEF Byte

\* A header announces an integer.
LEMMA AnnouncedInt ==
  ASSUME NEW b \in Seq(Byte), Len(b) >= 7
  PROVE  Announced(b) \in Int
  <1>1. b[4] \in Int /\ b[5] \in Int /\ b[6] \in Int /\ b[7] \in Int
    <2>1. \A i \in 1..Len(b) : b[i] \in Byte
      OBVIOUS
    <2>2. 4 \in 1..Len(b) /\ 5 \in 1..Len(b) /\ 6 \in 1..Len(b) /\ 7 \in 1..Len(b)
      BY SMT
    <2>3. b[4] \in Byte /\ b[5] \in Byte /\ b[6] \in Byte /\ b[7] \in Byte
      BY <2>1, <2>2
    <2> QED BY <2>3, ByteInt
  <1>2. D_32(b, 3) \in Int
    <2>1. D_16(b, 3) \in Int
      BY SMT, <1>1 DEF D_16
    <2>2. D_16(b, 3 + 2) \in Int
      BY SMT, <1>1 DEF D_16
    <2> QED BY SMT, <2>1, <2>2 DEF D_32
  <1> QED BY SMT, <1>2 DEF Announced, HEADER_SIZE, FOOTER_SIZE

\* Where the reader may stand between two calls, and in one after Buffered.
ReaderAt(c, seen) ==
    /\ c.buf \in Seq(Byte)
    /\ c.state = IDLE => c.buf = << >> /\ c.target = 7
    /\ c.state = WAIT_HEADER => Len(c.buf) \in seen..6 /\ c.target = 7
    /\ c.state = WAIT_BODY =>
          /\ Len(c.buf) >= 7 /\ ~IsProtocol(c.buf) /\ c.target = Announced(c.buf)
          /\ Len(c.buf) < c.target \/ Len(c.buf) = 7
    /\ c.state = WAIT_PROTOCOL =>
          Len(c.buf) = 7 /\ c.target = 8 /\ IsProtocol(c.buf)
ReaderOK(c) == ReaderAt(c, 1)

\* ... and where it stays after an error: at a frame that does not fit, or at one
\* it does not accept.
TooMuch(c) ==
    ~WithinLimit(Len(c.buf), Smaller(Len(c.sock), c.target - Len(c.buf)), c.frame_max)
Refused(c) ==
    Len(c.buf) = c.target /\ Len(c.buf) <= c.frame_max /\ ~Accepted(c.buf)
Stuck(c) ==
    /\ c.state = WAIT_BODY /\ c.buf \in Seq(Byte) /\ c.sock \in Seq(Byte)
    /\ c.sock # << >> /\ c.target \in Int
    /\ TooMuch(c) \/ Refused(c)

-----------------------------------------------------------------------------
\* What the steps of the reader do to the fields.

\* Copied adds bytes to the buffer and leaves the rest.
LEMMA CopiedFields ==
  ASSUME NEW r, IsRead(r), IsConn(r.conn), NEW n
  PROVE  LET s == Copied(r, n)
         IN  /\ IsRead(s) /\ IsConn(s.conn)
             /\ s.conn.buf = r.conn.buf \o SubSeq(r.conn.sock, r.used + 1, r.used + n)
             /\ s.used = r.used + n /\ s.complete = r.complete /\ s.err = r.err
             /\ s.frame = r.frame /\ s.conn.state = r.conn.state
             /\ s.conn.target = r.conn.target /\ s.conn.sock = r.conn.sock
             /\ s.conn.frame_max = r.conn.frame_max
  BY DEF Copied, IsRead, ReadFields, IsConn, ConnFields

\* A call that stops has changed nothing else.
LEMMA StopFields ==
  ASSUME NEW r, IsRead(r)
  PROVE  LET s == [r EXCEPT !.more = FALSE]
         IN  /\ IsRead(s) /\ s.conn = r.conn /\ s.used = r.used
             /\ s.complete = r.complete /\ s.err = r.err /\ s.frame = r.frame
  BY DEF IsRead, ReadFields

\* s is r with an error.
Erred(s, r, e) ==
    /\ IsRead(s) /\ s.conn = r.conn /\ s.heap = r.heap /\ s.err = e /\ s.more = FALSE

\* So has one that stops with an error.
LEMMA ErrorFields ==
  ASSUME NEW r, IsRead(r), NEW e
  PROVE  Erred(Error(r, e), r, e)
  BY DEF Erred, Error, IsRead, ReadFields

\* Buffered takes a buffer if there is none and leaves what was read.
LEMMA BufferedFields ==
  ASSUME NEW r, IsRead(r), IsConn(r.conn)
  PROVE  LET s == Buffered(r)
         IN  /\ IsRead(s) /\ IsConn(s.conn)
             /\ s.used = r.used /\ s.complete = r.complete /\ s.err = r.err
             /\ s.frame = r.frame /\ s.conn.buf = r.conn.buf
             /\ s.conn.target = r.conn.target /\ s.conn.sock = r.conn.sock
             /\ s.conn.frame_max = r.conn.frame_max
             /\ s.conn.state = IF r.conn.state = IDLE THEN WAIT_HEADER ELSE r.conn.state
  <1>1. CASE r.conn.state # IDLE
    BY <1>1 DEF Buffered
  <1>2. CASE r.conn.state = IDLE
    <2> DEFINE a == amqp_pool_alloc(FramePool(r.conn, r.heap), r.conn.frame_max)
    <2>1. Buffered(r) = BufferAt(r, a)
      BY <1>2 DEF Buffered
    <2> HIDE DEF a
    <2> DEFINE s == BufferAt(r, a)
    <2>2. /\ IsRead(s) /\ IsConn(s.conn)
          /\ s.used = r.used /\ s.complete = r.complete /\ s.err = r.err
          /\ s.frame = r.frame /\ s.conn.buf = r.conn.buf
          /\ s.conn.target = r.conn.target /\ s.conn.sock = r.conn.sock
          /\ s.conn.frame_max = r.conn.frame_max /\ s.conn.state = WAIT_HEADER
      BY ZenonT(60) DEF BufferAt, IsRead, ReadFields, IsConn, ConnFields
    <2> HIDE DEF s
    <2> QED BY <1>2, <2>1, <2>2 DEF s
  <1> QED BY <1>1, <1>2

\* HeaderSeen sets the length to reach and the state.
LEMMA HeaderFields ==
  ASSUME NEW r, IsRead(r), IsConn(r.conn)
  PROVE  LET s == HeaderSeen(r)
         IN  /\ IsRead(s) /\ IsConn(s.conn)
             /\ s.used = r.used /\ s.complete = r.complete /\ s.err = r.err
             /\ s.frame = r.frame /\ s.conn.buf = r.conn.buf
             /\ s.conn.sock = r.conn.sock /\ s.conn.frame_max = r.conn.frame_max
             /\ s.conn.target = Announced(r.conn.buf)
             /\ s.conn.state = IF IsProtocol(r.conn.buf) THEN WAIT_PROTOCOL ELSE WAIT_BODY
  <1>1. CASE IsProtocol(r.conn.buf)
    BY <1>1 DEF HeaderSeen, IsProtocol, Announced, IsRead, ReadFields, IsConn, ConnFields
  <1>2. CASE ~IsProtocol(r.conn.buf)
    <2> DEFINE n == D_32(r.conn.buf, 3) + HEADER_SIZE + FOOTER_SIZE
    <2>1. HeaderSeen(r) = [r EXCEPT !.conn.target = n, !.conn.state = WAIT_BODY]
      BY <1>2 DEF HeaderSeen, IsProtocol
    <2>2. Announced(r.conn.buf) = n
      BY <1>2 DEF Announced
    <2> DEFINE s == [r EXCEPT !.conn.target = n, !.conn.state = WAIT_BODY]
    <2> HIDE DEF n
    <2>3. /\ IsRead(s) /\ IsConn(s.conn)
          /\ s.used = r.used /\ s.complete = r.complete /\ s.err = r.err
          /\ s.frame = r.frame /\ s.conn.buf = r.conn.buf
          /\ s.conn.sock = r.conn.sock /\ s.conn.frame_max = r.conn.frame_max
          /\ s.conn.target = n /\ s.conn.state = WAIT_BODY
      BY DEF IsRead, ReadFields, IsConn, ConnFields
    <2> HIDE DEF s
    <2> QED BY <1>2, <2>1, <2>2, <2>3 DEF s
  <1> QED BY <1>1, <1>2

\* s is r with the frame f complete.
Returned(s, r, f) ==
    /\ IsRead(s) /\ IsConn(s.conn) /\ s.more = FALSE
    /\ s.used = r.used /\ s.complete = TRUE /\ s.err = r.err /\ s.frame = f
    /\ s.conn.buf = << >> /\ s.conn.target = HEADER_SIZE
    /\ s.conn.sock = r.conn.sock /\ s.conn.frame_max = r.conn.frame_max
    /\ s.conn.state = IDLE

\* return_to_idle forgets the buffer and returns the frame.
LEMMA ReturnFields ==
  ASSUME NEW r, IsRead(r), IsConn(r.conn), NEW f, NEW mem
  PROVE  Returned(return_to_idle(r, f, mem), r, f)
  BY DEF Returned, return_to_idle, Idle, IsRead, ReadFields, IsConn, ConnFields

\* So does Decoded, with memory for the struct.
LEMMA DecodedFields ==
  ASSUME NEW r, IsRead(r), IsConn(r.conn), NEW f, NEW n
  PROVE  Returned(Decoded(r, f, Decoding(r.conn, r.heap, n)), r, f)
  <1> DEFINE d == Decoding(r.conn, r.heap, n)
             t == [r EXCEPT !.conn = d.conn, !.heap = d.heap]
  <1>1. /\ IsConn(d.conn) /\ d.conn.sock = r.conn.sock
        /\ d.conn.frame_max = r.conn.frame_max
    BY DEF Decoding, DecodingAt, IsConn, ConnFields
  <1> HIDE DEF d
  <1>2. /\ IsRead(t) /\ t.conn = d.conn /\ t.used = r.used /\ t.err = r.err
    BY DEF IsRead, ReadFields
  <1>3. Decoded(r, f, d) = return_to_idle(t, f, {d.at})
    BY DEF Decoded
  <1> HIDE DEF t
  <1>4. IsConn(t.conn)
    BY <1>1, <1>2
  <1>5. Returned(return_to_idle(t, f, {d.at}), t, f)
    BY <1>2, <1>4, ReturnFields
  <1>6. \A s : Returned(s, t, f) => Returned(s, r, f)
    BY <1>1, <1>2 DEF Returned
  <1> QED BY <1>3, <1>5, <1>6 DEF d

\* A whole frame is returned, or refused with an error that changes nothing.
LEMMA FrameReadFacts ==
  ASSUME NEW r, IsRead(r), IsConn(r.conn), r.conn.target = Len(r.conn.buf),
         ~IsProtocol(r.conn.buf)
  PROVE  /\ Accepted(r.conn.buf) => Returned(FrameRead(r), r, ReadAs(r.conn.buf))
         /\ ~Accepted(r.conn.buf) => \E e \in {EINVAL, ENOENT} : FrameRead(r) = Error(r, e)
  <1> DEFINE b == r.conn.buf
             type == D_8(b, 0)
             id == D_32(b, HEADER_SIZE)
             class == D_16(b, HEADER_SIZE)
             end == FrameEnd(b, Len(b))
             D(f) == Decoded(r, f, Decoding(r.conn, r.heap, SizeOfStruct))
  <1>1. \A f : Returned(D(f), r, f)
    BY DecodedFields
  <1>2. \A f : Returned(return_to_idle(r, f, {}), r, f)
    BY ReturnFields
  <1> HIDE DEF D
  <1>3. ASSUME ~end PROVE FrameRead(r) = Error(r, EINVAL)
    BY <1>3 DEF FrameRead
  <1>4. ASSUME end, type = 1, id \notin MethodNumbers PROVE FrameRead(r) = Error(r, ENOENT)
    BY <1>4, Types DEF FrameRead
  <1>12. ASSUME end, type = 2, class \notin ClassNumbers PROVE FrameRead(r) = Error(r, ENOENT)
    BY <1>12, Types DEF FrameRead
  <1>5. ASSUME end, type = 1, id \in MethodNumbers
        PROVE  FrameRead(r) = D([type |-> type, channel |-> D_16(b, 1), id |-> id,
                                 arg |-> D_32(b, HEADER_SIZE + 4)])
    BY <1>5, Types DEF FrameRead, D
  <1>6. ASSUME end, type = 2, class \in ClassNumbers
        PROVE  FrameRead(r) = D(OtherFrame(type, D_16(b, 1), D_16(b, HEADER_SIZE + 12)))
    BY <1>6, Types DEF FrameRead, D
  <1>7. ASSUME end, type = 3
        PROVE  FrameRead(r) = return_to_idle(r, OtherFrame(type, D_16(b, 1), id), {})
    BY <1>7, Types DEF FrameRead
  <1>8. ASSUME end, type = 8
        PROVE  FrameRead(r) = return_to_idle(r, OtherFrame(type, D_16(b, 1), 0), {})
    BY <1>8, Types DEF FrameRead
  <1>9. ASSUME end, type \notin {1, 2, 3, 8}
        PROVE  FrameRead(r) = return_to_idle(r, NoFrame, {})
    BY <1>9, Types DEF FrameRead
  <1>10. ASSUME Accepted(b) PROVE Returned(FrameRead(r), r, ReadAs(b))
    <2>1. /\ end /\ (type = 1 => id \in MethodNumbers)
          /\ type = 2 => class \in ClassNumbers
      BY <1>10, Types DEF Accepted
    <2>2. CASE type = 1
      <3>1. ReadAs(b) = [type |-> type, channel |-> D_16(b, 1), id |-> id,
                         arg |-> D_32(b, HEADER_SIZE + 4)]
        BY <2>2, Types DEF ReadAs
      <3> QED BY <1>1, <1>5, <2>1, <2>2, <3>1
    <2>3. CASE type = 2
      <3>1. ReadAs(b) = OtherFrame(type, D_16(b, 1), D_16(b, HEADER_SIZE + 12))
        BY <2>3, Types DEF ReadAs
      <3> QED BY <1>1, <1>6, <2>1, <2>3, <3>1
    <2>4. CASE type = 3
      <3>1. ReadAs(b) = OtherFrame(type, D_16(b, 1), id)
        BY <2>4, Types DEF ReadAs
      <3> QED BY <1>2, <1>7, <2>1, <2>4, <3>1
    <2>5. CASE type = 8
      <3>1. ReadAs(b) = OtherFrame(type, D_16(b, 1), 0)
        BY <2>5, Types DEF ReadAs
      <3> QED BY <1>2, <1>8, <2>1, <2>5, <3>1
    <2>6. CASE type \notin {1, 2, 3, 8}
      <3>1. ReadAs(b) = NoFrame
        BY <2>6, Types DEF ReadAs
      <3> QED BY <1>2, <1>9, <2>1, <2>6, <3>1
    <2> QED BY <2>2, <2>3, <2>4, <2>5, <2>6
  <1>11. ASSUME ~Accepted(b) PROVE \E e \in {EINVAL, ENOENT} : FrameRead(r) = Error(r, e)
    BY <1>3, <1>4, <1>12, <1>11, Types DEF Accepted
  <1> QED BY <1>10, <1>11

\* d is b and n more bytes of s.
Extends(d, b, s, n) == Prefix(d, s) /\ Len(d) = Len(b) + n /\ Prefix(b, d)

\* Bytes of the socket buffer behind the bytes in the frame buffer.
LEMMA CopyPrefix ==
  ASSUME NEW a \in Seq(Byte), NEW k \in Seq(Byte), NEW s, s = a \o k,
         NEW b, Prefix(b, s), NEW u \in Nat, Len(b) = Len(a) + u,
         NEW n \in Nat, u + n <= Len(k), NEW d, d = b \o SubSeq(k, u + 1, u + n)
  PROVE  Extends(d, b, s, n)
  <1> DEFINE e == SubSeq(k, u + 1, u + n)
  <1>1. Joins(s, a, k)
    BY Zenon, Concat
  <1>2. /\ s \in Seq(Byte) /\ Len(s) = Len(a) + Len(k)
        /\ \A i \in 1..Len(k) : s[Len(a) + i] = k[i]
    BY <1>1 DEF Joins
  <1>3. b \in Seq(Byte) /\ Len(b) <= Len(s) /\ \A i \in 1..Len(b) : b[i] = s[i]
    BY DEF Prefix
  <1>4. Len(a) \in Nat /\ Len(k) \in Nat /\ Len(b) \in Nat
    BY <1>3
  <1>5. e \in Seq(Byte) /\ Len(e) = n /\ \A i \in 1..n : e[i] = k[u + i]
    BY SMT, <1>4
  <1> HIDE DEF e
  <1>6. d = b \o e
    BY DEF e
  <1>7. Joins(d, b, e)
    BY Zenon, <1>3, <1>5, <1>6, Concat
  <1>8. /\ d \in Seq(Byte) /\ Len(d) = Len(b) + n
        /\ \A i \in 1..Len(b) : d[i] = b[i]
        /\ \A i \in 1..n : d[Len(b) + i] = e[i]
    BY <1>5, <1>7 DEF Joins
  <1>9. ASSUME NEW i \in 1..Len(d) PROVE d[i] = s[i]
    <2>1. CASE i <= Len(b)
      <3>1. i \in 1..Len(b)
        BY SMT, <1>4, <1>8, <2>1
      <3> QED BY <1>3, <1>8, <3>1
    <2>2. CASE i > Len(b)
      <3> DEFINE j == i - Len(b)
      <3>1. j \in 1..n /\ i = Len(b) + j /\ u + j \in 1..Len(k) /\ i = Len(a) + (u + j)
        BY SMT, <1>4, <1>8, <2>2
      <3> HIDE DEF j
      <3>2. d[i] = e[j] /\ e[j] = k[u + j] /\ s[i] = k[u + j]
        BY <1>2, <1>5, <1>8, <3>1
      <3> QED BY <3>2
    <2> QED BY SMTT(30), <1>4, <1>8, <2>1, <2>2
  <1>10. Len(d) <= Len(s) /\ Len(b) <= Len(d)
    <2>1. Len(s) = Len(a) + Len(k) /\ Len(d) = Len(b) + n
      BY <1>2, <1>8
    <2> QED BY SMT, <1>4, <2>1
  <1> QED BY <1>3, <1>8, <1>9, <1>10 DEF Prefix, Extends

\* What amqp_handle_input is called on, with s = c.buf \o c.sock.
Input(c, s) ==
    /\ c.buf \in Seq(Byte) /\ c.sock \in Seq(Byte) /\ s = c.buf \o c.sock
    /\ c.frame_max \in Sizes

\* A call that has used some of the input and found no frame yet, ...
Reached(c, s, r) ==
    /\ IsRead(r) /\ IsConn(r.conn) /\ r.conn.state \in States
    /\ r.conn.sock = c.sock /\ r.conn.frame_max = c.frame_max
    /\ r.complete = FALSE /\ r.err = 0 /\ r.frame = NoFrame
    /\ Prefix(r.conn.buf, s) /\ r.used \in Nat
    /\ Len(r.conn.buf) = Len(c.buf) + r.used
Going(c, s, r) == Reached(c, s, r) /\ ReaderOK(r.conn)

\* ... one that returns the frame that the input begins with, ...
Finished(c, s, r) ==
    /\ Returned(r, r, r.frame) /\ r.err = 0 /\ r.used \in Nat
    /\ r.conn.sock = c.sock /\ r.conn.frame_max = c.frame_max
    /\ \E b : /\ Prefix(b, s) /\ Len(b) = Len(c.buf) + r.used
              /\ Len(b) >= 7 /\ Len(b) <= c.frame_max
              /\ Announced(b) = Len(b) /\ Accepted(b) /\ r.frame = ReadAs(b)

\* ... and one that returns an error.
Broken(b, frame_max) ==
    \/ Announced(b) < 7 \/ Announced(b) > frame_max
    \/ Announced(b) = Len(b) /\ ~Accepted(b)
Failed(c, s, r) ==
    /\ r.err # 0 /\ r.more = FALSE /\ IsConn(r.conn) /\ Stuck(r.conn)
    /\ r.conn.sock = c.sock /\ r.conn.frame_max = c.frame_max
    /\ Prefix(r.conn.buf, s) /\ Len(r.conn.buf) >= 7
    /\ Broken(r.conn.buf, c.frame_max)

\* The sizes of the input.
LEMMA InputFacts ==
  ASSUME NEW c, NEW s, Input(c, s)
  PROVE  /\ s \in Seq(Byte) /\ Len(s) = Len(c.buf) + Len(c.sock)
         /\ Len(c.buf) \in Nat /\ Len(c.sock) \in Nat
         /\ c.frame_max \in Nat /\ c.frame_max >= 22
  <1> DEFINE a == c.buf
             k == c.sock
  <1>1. a \in Seq(Byte) /\ k \in Seq(Byte) /\ s = a \o k
    BY DEF Input
  <1> HIDE DEF a, k
  <1>2. Joins(s, a, k)
    BY Zenon, <1>1, Concat
  <1>3. s \in Seq(Byte) /\ Len(s) = Len(a) + Len(k) /\ Len(a) \in Nat /\ Len(k) \in Nat
    BY <1>1, <1>2 DEF Joins
  <1>4. c.frame_max \in Nat /\ c.frame_max >= 22
    BY Types DEF Input, Sizes, Number
  <1> QED BY <1>3, <1>4 DEF a, k

\* m is r with n more bytes in the buffer.
Further(c, s, r, n, m) ==
    /\ Reached(c, s, m) /\ Len(m.conn.buf) = Len(r.conn.buf) + n
    /\ Prefix(r.conn.buf, m.conn.buf)
    /\ m.conn.target = r.conn.target /\ m.conn.state = r.conn.state

\* Bytes are copied from the socket buffer.
LEMMA CopiedReached ==
  ASSUME NEW c, NEW s, Input(c, s), NEW r, Reached(c, s, r), NEW n \in Nat,
         r.used + n <= Len(c.sock)
  PROVE  Further(c, s, r, n, Copied(r, n))
  <1> DEFINE m == Copied(r, n)
             a == c.buf
             k == c.sock
             b == r.conn.buf
             d == m.conn.buf
             u == r.used
  <1>1. /\ IsRead(m) /\ IsConn(m.conn)
        /\ d = b \o SubSeq(k, u + 1, u + n)
        /\ m.used = u + n /\ m.complete = r.complete /\ m.err = r.err
        /\ m.frame = r.frame /\ m.conn.state = r.conn.state
        /\ m.conn.target = r.conn.target /\ m.conn.sock = k
        /\ m.conn.frame_max = r.conn.frame_max
    <2>1. IsRead(r) /\ IsConn(r.conn) /\ r.conn.sock = k
      BY DEF Reached
    <2> QED BY ZenonT(30), <2>1, CopiedFields
  <1> HIDE DEF m
  <1>2. /\ a \in Seq(Byte) /\ k \in Seq(Byte) /\ s = a \o k
        /\ Prefix(b, s) /\ u \in Nat /\ Len(b) = Len(a) + u /\ u + n <= Len(k)
    BY DEF Input, Reached
  <1> HIDE DEF a, k, b, d, u
  <1>3. Prefix(d, s) /\ Len(d) = Len(b) + n /\ Prefix(b, d)
    <2>1. d = b \o SubSeq(k, u + 1, u + n)
      BY <1>1
    <2>2. Extends(d, b, s, n)
      BY Zenon, <1>2, <2>1, CopyPrefix
    <2> QED BY <2>2 DEF Extends
  <1>4. Len(a) \in Nat /\ Len(d) = Len(a) + (u + n) /\ u + n \in Nat
    BY SMT, <1>2, <1>3
  <1>5. Reached(c, s, m)
    BY <1>1, <1>3, <1>4 DEF Reached, a, k, b, d, u
  <1> QED BY <1>1, <1>3, <1>5 DEF Further, m, b, d

\* A call may stop wherever it stands.
LEMMA StopGoing ==
  ASSUME NEW c, NEW s, NEW r, Going(c, s, r)
  PROVE  Going(c, s, [r EXCEPT !.more = FALSE])
  <1> DEFINE t == [r EXCEPT !.more = FALSE]
  <1>1. IsRead(r)
    BY DEF Going, Reached
  <1>2. /\ IsRead(t) /\ t.conn = r.conn /\ t.used = r.used
        /\ t.complete = r.complete /\ t.err = r.err /\ t.frame = r.frame
    BY <1>1, StopFields
  <1> HIDE DEF t
  <1>3. Going(c, s, t)
    BY <1>2 DEF Going, Reached
  <1> QED BY <1>3 DEF t

\* The three outcomes.
Outcome(c, s, r) == Going(c, s, r) \/ Finished(c, s, r) \/ Failed(c, s, r)

\* A header, or a part of it.
LEMMA FillHeader ==
  ASSUME NEW c, NEW s, Input(c, s), NEW r, Reached(c, s, r),
         r.conn.state = WAIT_HEADER, ReaderAt(r.conn, 0), r.used < Len(c.sock)
  PROVE  Outcome(c, s, Fill(r))
  <1> DEFINE L == Len(r.conn.buf)
             A == Len(r.conn.sock) - r.used
             want == r.conn.target - L
             n == Smaller(A, want)
             m == Copied(r, n)
             d == m.conn.buf
  <1>1. /\ r.conn.target = 7 /\ L \in 0..6 /\ A \in Nat /\ A >= 1
        /\ c.frame_max \in Nat /\ c.frame_max >= 22 /\ r.used \in Nat
        /\ r.conn.frame_max = c.frame_max /\ Len(c.sock) = r.used + A
    <2>1. /\ r.conn.target = 7 /\ L \in 0..6 /\ r.conn.sock = c.sock /\ r.used \in Nat
          /\ r.conn.frame_max = c.frame_max
      BY DEF ReaderAt, Reached, WAIT_HEADER
    <2>2. c.frame_max \in Nat /\ c.frame_max >= 22 /\ Len(c.sock) \in Nat
      BY InputFacts
    <2> QED BY SMT, <2>1, <2>2
  <1> HIDE DEF L, A
  <1>2. n \in Nat /\ n >= 1 /\ n <= A /\ n <= want /\ want = 7 - L
        /\ WithinLimit(L, n, r.conn.frame_max)
    BY SMT, <1>1 DEF Smaller, WithinLimit
  <1>3. r.used + n <= Len(c.sock)
    BY SMT, <1>1, <1>2
  <1>4. Fill(r) = IF n < want THEN [m EXCEPT !.more = FALSE] ELSE Switch(m)
    BY <1>2 DEF Fill, L, A
  <1> HIDE DEF n, want
  <1>5. /\ Reached(c, s, m) /\ Len(d) = L + n
        /\ m.conn.target = 7 /\ m.conn.state = WAIT_HEADER
    <2>1. Further(c, s, r, n, m)
      BY <1>2, <1>3, CopiedReached
    <2> QED BY <1>1, <2>1 DEF Further, L
  <1> HIDE DEF m
  <1>6. d \in Seq(Byte) /\ IsRead(m) /\ IsConn(m.conn)
    BY <1>5 DEF Reached, Prefix
  <1>7. CASE n < want
    <2>1. L + n \in 1..6
      BY SMT, <1>1, <1>2, <1>7
    <2>2. ReaderOK(m.conn)
      BY <1>5, <1>6, <2>1 DEF ReaderOK, ReaderAt, WAIT_HEADER, WAIT_BODY, WAIT_PROTOCOL, IDLE
    <2>3. Going(c, s, [m EXCEPT !.more = FALSE])
      BY <1>5, <2>2, StopGoing DEF Going
    <2> QED BY <1>4, <1>7, <2>3 DEF Outcome
  <1>8. CASE ~(n < want)
    <2> DEFINE h == HeaderSeen(m)
    <2>1. Len(d) = 7
      BY SMT, <1>1, <1>2, <1>5, <1>8
    <2>2. Fill(r) = h
      BY <1>4, <1>5, <1>8 DEF Switch, WAIT_HEADER, WAIT_BODY, WAIT_PROTOCOL
    <2>3. /\ IsRead(h) /\ IsConn(h.conn)
          /\ h.used = m.used /\ h.complete = m.complete /\ h.err = m.err
          /\ h.frame = m.frame /\ h.conn.buf = d
          /\ h.conn.sock = m.conn.sock /\ h.conn.frame_max = m.conn.frame_max
          /\ h.conn.target = Announced(d)
          /\ h.conn.state = IF IsProtocol(d) THEN WAIT_PROTOCOL ELSE WAIT_BODY
      BY <1>6, HeaderFields
    <2> HIDE DEF h
    <2>4. ReaderOK(h.conn)
      <3>1. CASE IsProtocol(d)
        BY <1>6, <2>1, <2>3, <3>1
           DEF ReaderOK, ReaderAt, WAIT_HEADER, WAIT_BODY, WAIT_PROTOCOL, IDLE, Announced
      <3>2. CASE ~IsProtocol(d)
        <4>1. h.conn.state = WAIT_BODY
          BY <2>3, <3>2
        <4>2. 7 >= 7
          OBVIOUS
        <4> QED BY <1>6, <2>1, <2>3, <3>2, <4>1, <4>2
           DEF ReaderOK, ReaderAt, WAIT_HEADER, WAIT_BODY, WAIT_PROTOCOL, IDLE
      <3> QED BY <3>1, <3>2
    <2>5. h.conn.state \in States
      BY <2>3 DEF States
    <2>6. Reached(c, s, h)
      BY <1>5, <2>3, <2>5 DEF Reached
    <2> QED BY <2>2, <2>4, <2>6 DEF Outcome, Going
  <1> QED BY <1>7, <1>8

\* The last byte of a protocol header.
LEMMA FillProtocol ==
  ASSUME NEW c, NEW s, Input(c, s), NEW r, Reached(c, s, r),
         r.conn.state = WAIT_PROTOCOL, ReaderAt(r.conn, 0), r.used < Len(c.sock)
  PROVE  Outcome(c, s, Fill(r))
  <1> DEFINE b == r.conn.buf
             A == Len(r.conn.sock) - r.used
             want == r.conn.target - Len(b)
             n == Smaller(A, want)
             m == Copied(r, 1)
             d == m.conn.buf
             p == ProtocolRead(m)
  <1>1. /\ r.conn.target = 8 /\ Len(b) = 7 /\ IsProtocol(b) /\ A \in Nat /\ A >= 1
        /\ c.frame_max \in Nat /\ c.frame_max >= 22 /\ r.used \in Nat
        /\ r.conn.frame_max = c.frame_max /\ Len(c.sock) = r.used + A
    <2>1. /\ r.conn.target = 8 /\ Len(b) = 7 /\ IsProtocol(b) /\ r.conn.sock = c.sock
          /\ r.used \in Nat /\ r.conn.frame_max = c.frame_max
      BY DEF ReaderAt, Reached, WAIT_PROTOCOL
    <2>2. c.frame_max \in Nat /\ c.frame_max >= 22 /\ Len(c.sock) \in Nat
      BY InputFacts
    <2> QED BY SMT, <2>1, <2>2
  <1> HIDE DEF A
  <1>2. n = 1 /\ want = 1 /\ WithinLimit(Len(b), n, r.conn.frame_max)
    BY SMT, <1>1 DEF Smaller, WithinLimit
  <1>3. r.used + 1 <= Len(c.sock) /\ 1 \in Nat
    BY SMT, <1>1
  <1>4. Fill(r) = Switch(m)
    <2>1. Fill(r) = IF n < want THEN [Copied(r, n) EXCEPT !.more = FALSE]
                                ELSE Switch(Copied(r, n))
      BY <1>2 DEF Fill, A
    <2> QED BY <1>2, <2>1
  <1> HIDE DEF n, want
  <1>5. Further(c, s, r, 1, m)
    BY <1>3, CopiedReached
  <1> HIDE DEF m
  <1>6. /\ Reached(c, s, m) /\ Len(d) = 8 /\ Prefix(b, d)
        /\ m.conn.state = WAIT_PROTOCOL
    BY <1>1, <1>5 DEF Further
  <1>7. /\ d \in Seq(Byte) /\ IsRead(m) /\ IsConn(m.conn) /\ m.err = 0 /\ m.used \in Nat
        /\ Prefix(d, s) /\ Len(d) = Len(c.buf) + m.used /\ b \in Seq(Byte)
        /\ m.conn.sock = c.sock /\ m.conn.frame_max = c.frame_max
    BY <1>6 DEF Reached, Prefix
  <1>8. IsProtocol(d) /\ Announced(d) = 8 /\ Accepted(d)
    <2>1. Len(b) >= 7
      BY <1>1
    <2>2. IsProtocol(d)
      BY <1>1, <1>6, <1>7, <2>1, SameHeader
    <2> QED BY <2>2 DEF Announced, Accepted
  <1>9. Fill(r) = p
    BY <1>4, <1>6 DEF Switch, WAIT_HEADER, WAIT_BODY, WAIT_PROTOCOL
  <1>10. Returned(p, m, ReadAs(d))
    BY <1>7, <1>8, ReturnFields DEF ProtocolRead, ReadAs
  <1> HIDE DEF p
  <1>11. 8 >= 7 /\ 8 <= c.frame_max
    BY SMT, <1>1
  <1>12. Finished(c, s, p)
    <2>1. /\ Returned(p, p, p.frame) /\ p.frame = ReadAs(d) /\ p.err = 0 /\ p.used = m.used
          /\ p.conn.sock = c.sock /\ p.conn.frame_max = c.frame_max
      BY <1>7, <1>10 DEF Returned
    <2> QED BY <1>6, <1>7, <1>8, <1>11, <2>1 DEF Finished
  <1> QED BY <1>9, <1>12 DEF Outcome

\* A frame, a part of one, or a frame that cannot be read.
LEMMA FillBody ==
  ASSUME NEW c, NEW s, Input(c, s), NEW r, Reached(c, s, r),
         r.conn.state = WAIT_BODY, ReaderAt(r.conn, 0), r.used < Len(c.sock)
  PROVE  Outcome(c, s, Fill(r))
  <1> DEFINE b == r.conn.buf
             F == c.frame_max
             T == r.conn.target
             L == Len(b)
             A == Len(r.conn.sock) - r.used
             want == T - L
             n == Smaller(A, want)
             m == Copied(r, n)
             d == m.conn.buf
  <1>1. /\ L \in Nat /\ L >= 7 /\ ~IsProtocol(b) /\ T = Announced(b) /\ (L < T \/ L = 7)
        /\ b \in Seq(Byte) /\ Prefix(b, s) /\ T \in Int
        /\ r.conn.sock = c.sock /\ c.sock \in Seq(Byte)
        /\ r.used \in Nat /\ r.conn.frame_max = F /\ r.frame = NoFrame
        /\ IsRead(r) /\ IsConn(r.conn)
    <2>1. /\ Len(b) >= 7 /\ ~IsProtocol(b) /\ T = Announced(b) /\ (Len(b) < T \/ Len(b) = 7)
          /\ b \in Seq(Byte)
      BY DEF ReaderAt, WAIT_BODY
    <2>2. T \in Int /\ Len(b) \in Nat
      BY <2>1, AnnouncedInt
    <2>3. /\ Prefix(b, s) /\ r.conn.sock = c.sock /\ c.sock \in Seq(Byte)
          /\ r.used \in Nat /\ r.conn.frame_max = F /\ r.frame = NoFrame
          /\ IsRead(r) /\ IsConn(r.conn)
      BY DEF Reached, Input
    <2> QED BY <2>1, <2>2, <2>3
  <1>2. /\ F \in Nat /\ F >= 22 /\ A \in Nat /\ A >= 1 /\ Len(c.sock) = r.used + A
        /\ Len(c.sock) \in Nat
    <2>1. F \in Nat /\ F >= 22 /\ Len(c.sock) \in Nat
      BY InputFacts
    <2>2. Len(r.conn.sock) = Len(c.sock) /\ r.used \in Nat
      BY <1>1
    <2> QED BY SMT, <2>1, <2>2
  <1> HIDE DEF L, A, F, T
  <1>3. n \in Int /\ n <= A /\ n <= want /\ want \in Int /\ want = T - L
        /\ (n < want => n = A)
    BY SMT, <1>1, <1>2 DEF Smaller
  <1>4. Fill(r) = IF ~WithinLimit(L, n, F) THEN Error(r, EFAULT)
                  ELSE IF n < want THEN [m EXCEPT !.more = FALSE] ELSE Switch(m)
    BY <1>1 DEF Fill, L, A, F, T
  <1>5. CASE ~WithinLimit(L, n, F)
    <2> DEFINE e == Error(r, EFAULT)
    <2>1. e.conn = r.conn /\ e.err = EFAULT /\ e.more = FALSE
      BY ZenonT(30), <1>1, ErrorFields DEF Erred
    <2> HIDE DEF e
    <2>2. EFAULT # 0
      BY SMT DEF EFAULT
    <2>3. ~WithinLimit(L, Smaller(Len(c.sock), T - L), F)
      BY SMT, <1>1, <1>2, <1>5 DEF WithinLimit, Smaller
    <2>4. T < 7 \/ T > F
      BY SMT, <1>1, <1>2, <1>3, <1>5 DEF WithinLimit, Smaller
    <2>5. c.sock # << >>
      BY SMT, <1>1, <1>2
    <2>6. TooMuch(r.conn)
      BY <1>1, <2>3 DEF TooMuch, L, T, F
    <2>7. Stuck(r.conn)
      BY <1>1, <2>5, <2>6 DEF Stuck, T
    <2>8. Broken(b, F)
      BY <1>1, <2>4 DEF Broken
    <2>9. Failed(c, s, e)
      BY <1>1, <2>1, <2>2, <2>7, <2>8 DEF Failed, F, L
    <2>10. Fill(r) = e
      BY <1>4, <1>5 DEF e
    <2> QED BY <2>9, <2>10 DEF Outcome
  <1>6. CASE WithinLimit(L, n, F)
    <2>1. n \in Nat /\ L + n <= F /\ r.used + n <= Len(c.sock)
      BY SMT, <1>1, <1>2, <1>3, <1>6 DEF WithinLimit
    <2> HIDE DEF n
    <2>2. Further(c, s, r, n, m)
      BY <2>1, CopiedReached
    <2> HIDE DEF m
    <2>3. /\ Reached(c, s, m) /\ Len(d) = L + n /\ Prefix(b, d)
          /\ m.conn.target = T /\ m.conn.state = WAIT_BODY
      BY <2>2 DEF Further, L, T
    <2>4. /\ d \in Seq(Byte) /\ IsRead(m) /\ IsConn(m.conn) /\ m.err = 0 /\ m.used \in Nat
          /\ Prefix(d, s) /\ Len(d) = Len(c.buf) + m.used
          /\ m.conn.sock = c.sock /\ m.conn.frame_max = F /\ m.frame = NoFrame
      BY <2>3 DEF Reached, Prefix, F
    <2>5. ~IsProtocol(d) /\ Announced(d) = T
      BY <1>1, <2>3, SameHeader DEF L
    <2>6. Len(d) \in Nat /\ Len(d) >= 7 /\ Len(d) <= F
      BY SMT, <1>1, <1>2, <2>1, <2>3
    <2>7. CASE n < want
      <3>1. Len(d) < T
        BY SMT, <1>1, <1>3, <2>1, <2>3, <2>7
      <3>2. ReaderOK(m.conn)
        BY <2>3, <2>4, <2>5, <2>6, <3>1
           DEF ReaderOK, ReaderAt, WAIT_HEADER, WAIT_BODY, WAIT_PROTOCOL, IDLE
      <3>3. Going(c, s, [m EXCEPT !.more = FALSE])
        BY <2>3, <3>2, StopGoing DEF Going
      <3> QED BY <1>4, <1>6, <2>7, <3>3 DEF Outcome
    <2>8. CASE ~(n < want)
      <3> DEFINE f == FrameRead(m)
      <3>1. Len(d) = T
        BY SMT, <1>1, <1>3, <2>1, <2>3, <2>8
      <3>2. Fill(r) = f
        BY <1>4, <1>6, <2>3, <2>8 DEF Switch, WAIT_HEADER, WAIT_BODY, WAIT_PROTOCOL
      <3>3. /\ Accepted(d) => Returned(f, m, ReadAs(d))
            /\ ~Accepted(d) => \E e \in {EINVAL, ENOENT} : f = Error(m, e)
        BY <2>3, <2>4, <2>5, <3>1, FrameReadFacts
      <3> HIDE DEF f
      <3>4. CASE Accepted(d)
        <4>1. /\ Returned(f, f, f.frame) /\ f.frame = ReadAs(d) /\ f.err = 0 /\ f.used = m.used
              /\ f.conn.sock = c.sock /\ f.conn.frame_max = F
          BY <2>4, <3>3, <3>4 DEF Returned
        <4>2. Finished(c, s, f)
          BY <2>4, <2>5, <2>6, <3>1, <3>4, <4>1 DEF Finished, F
        <4> QED BY <3>2, <4>2 DEF Outcome
      <3>5. CASE ~Accepted(d)
        <4>1. PICK e \in {EINVAL, ENOENT} : f = Error(m, e)
          BY <3>3, <3>5
        <4>2. f.conn = m.conn /\ f.err = e /\ f.more = FALSE
          BY <2>4, <4>1, ErrorFields DEF Erred
        <4>3. e # 0
          BY SMT DEF EINVAL, ENOENT
        <4>4. c.sock # << >>
          BY SMT, <1>1, <1>2
        <4>5. Refused(m.conn)
          BY <2>3, <2>4, <2>6, <3>1, <3>5 DEF Refused
        <4>6. Stuck(m.conn)
          BY <1>1, <2>3, <2>4, <4>4, <4>5 DEF Stuck
        <4>7. Broken(d, F)
          BY <2>5, <3>1, <3>5 DEF Broken
        <4>8. Failed(c, s, f)
          BY <2>4, <2>6, <4>2, <4>3, <4>6, <4>7 DEF Failed, F
        <4> QED BY <3>2, <4>8 DEF Outcome
      <3> QED BY <3>4, <3>5
    <2> QED BY <2>7, <2>8
  <1> QED BY <1>5, <1>6

\* One trip from read_more.
LEMMA TripReads ==
  ASSUME NEW c, NEW s, Input(c, s), NEW r, Going(c, s, r)
  PROVE  Outcome(c, s, Trip(r))
  <1>1. CASE r.used = Len(r.conn.sock)
    BY <1>1, StopGoing DEF Trip, Outcome
  <1>2. CASE r.used # Len(r.conn.sock)
    <2> DEFINE b == Buffered(r)
    <2>1. /\ IsRead(r) /\ IsConn(r.conn) /\ Reached(c, s, r) /\ ReaderAt(r.conn, 1)
      BY DEF Going, Reached, ReaderOK
    <2>2. /\ IsRead(b) /\ IsConn(b.conn)
          /\ b.used = r.used /\ b.complete = r.complete /\ b.err = r.err
          /\ b.frame = r.frame /\ b.conn.buf = r.conn.buf
          /\ b.conn.target = r.conn.target /\ b.conn.sock = r.conn.sock
          /\ b.conn.frame_max = r.conn.frame_max
          /\ b.conn.state = IF r.conn.state = IDLE THEN WAIT_HEADER ELSE r.conn.state
      BY <2>1, BufferedFields
    <2> HIDE DEF b
    <2>3. b.conn.state \in {WAIT_HEADER, WAIT_BODY, WAIT_PROTOCOL}
      BY <2>1, <2>2 DEF Reached, States
    <2>4. Reached(c, s, b)
      BY <2>1, <2>2, <2>3 DEF Reached, States
    <2>5. ReaderAt(b.conn, 0)
      <3>1. CASE r.conn.state = IDLE
        <4>1. b.conn.buf = << >> /\ b.conn.target = 7 /\ b.conn.state = WAIT_HEADER
          BY <2>1, <2>2, <3>1 DEF ReaderAt
        <4>2. Len(<< >>) \in 0..6 /\ << >> \in Seq(Byte)
          BY SMT
        <4> QED BY <4>1, <4>2 DEF ReaderAt, WAIT_HEADER, WAIT_BODY, WAIT_PROTOCOL, IDLE
      <3>2. CASE r.conn.state # IDLE
        <4>1. b.conn.state = r.conn.state
          BY <2>2, <3>2
        <4>2. 1..6 \subseteq 0..6
          BY SMT
        <4> QED BY <2>1, <2>2, <4>1, <4>2 DEF ReaderAt
      <3> QED BY <3>1, <3>2
    <2>6. b.used < Len(c.sock)
      <3>1. /\ r.used \in Nat /\ Len(r.conn.buf) = Len(c.buf) + r.used
            /\ Len(r.conn.buf) <= Len(s) /\ r.used # Len(c.sock)
        BY <1>2, <2>1 DEF Reached, Prefix
      <3>2. Len(s) = Len(c.buf) + Len(c.sock) /\ Len(c.buf) \in Nat /\ Len(c.sock) \in Nat
        BY InputFacts
      <3>3. r.used < Len(c.sock)
        <4> DEFINE x == Len(r.conn.buf)
                   y == Len(c.buf)
                   z == Len(c.sock)
                   u == r.used
        <4>1. /\ u \in Nat /\ x = y + u /\ x <= y + z /\ u # z /\ y \in Nat /\ z \in Nat
          BY <3>1, <3>2
        <4> HIDE DEF x, y, z, u
        <4>2. u < z
          BY SMT, <4>1
        <4> QED BY <4>2 DEF u, z
      <3> QED BY <2>2, <3>3
    <2>7. Outcome(c, s, Fill(b))
      BY <2>3, <2>4, <2>5, <2>6, FillHeader, FillBody, FillProtocol
    <2> QED BY <1>2, <2>7 DEF Trip, b
  <1> QED BY <1>1, <1>2

\* amqp_handle_input, however much of a frame the input is.
LEMMA HandleInputReads ==
  ASSUME NEW c, NEW s, Input(c, s), IsConn(c), c.state \in States, ReaderOK(c), NEW h
  PROVE  Outcome(c, s, amqp_handle_input(c, h))
  <1> DEFINE b == Begin(c, h)
             t == Trip(b)
  <1>1. /\ IsRead(b) /\ b.conn = c /\ b.used = 0 /\ b.complete = FALSE /\ b.err = 0
        /\ b.frame = NoFrame
    BY DEF Begin, IsRead, ReadFields
  <1>2. Prefix(c.buf, s) /\ Len(c.buf) = Len(c.buf) + 0
    <2> DEFINE a == c.buf
               k == c.sock
    <2>1. a \in Seq(Byte) /\ k \in Seq(Byte) /\ s = a \o k
      BY DEF Input
    <2> HIDE DEF a, k
    <2>2. Joins(s, a, k)
      BY Zenon, <2>1, Concat
    <2>3. Prefix(a, s) /\ Len(a) = Len(a) + 0
      BY SMT, <2>1, <2>2 DEF Joins, Prefix
    <2> QED BY <2>3 DEF a
  <1> HIDE DEF b
  <1>3. Going(c, s, b)
    BY <1>1, <1>2 DEF Going, Reached
  <1>4. Outcome(c, s, t)
    BY <1>3, TripReads
  <1> HIDE DEF t
  <1>5. Outcome(c, s, ReadMore(t))
    <2>1. CASE Going(c, s, t) /\ t.more
      BY <2>1, TripReads DEF ReadMore
    <2>2. CASE ~t.more
      BY <1>4, <2>2 DEF ReadMore
    <2>3. CASE ~Going(c, s, t)
      <3>1. t.more = FALSE
        BY <1>4, <2>3 DEF Outcome, Finished, Failed, Returned
      <3> QED BY <1>4, <3>1 DEF ReadMore
    <2> QED BY <2>1, <2>2, <2>3
  <1> QED BY <1>5 DEF amqp_handle_input, t, b

\* After an error the same error again, and nothing else.
LEMMA StuckStays ==
  ASSUME NEW c, NEW h, IsConn(c), Stuck(c)
  PROVE  LET r == amqp_handle_input(c, h) IN r.err # 0 /\ r.conn = c /\ r.heap = h
  <1> DEFINE b == Begin(c, h)
             L == Len(c.buf)
             want == c.target - L
             n == Smaller(Len(c.sock), want)
             m == Copied(b, n)
             t == Trip(b)
  <1>1. /\ IsRead(b) /\ b.conn = c /\ b.used = 0 /\ b.heap = h
    BY DEF Begin, IsRead, ReadFields
  <1> HIDE DEF b
  <1>2. /\ c.buf \in Seq(Byte) /\ c.sock \in Seq(Byte) /\ c.sock # << >> /\ c.target \in Int
        /\ c.state = WAIT_BODY
    BY DEF Stuck
  <1>3. Len(c.sock) \in Nat /\ Len(c.sock) # 0 /\ Len(c.sock) - 0 = Len(c.sock) /\ L \in Nat
    BY <1>2, EmptySeq
  <1>4. t = Fill(b)
    BY <1>1, <1>2, <1>3 DEF Trip, Buffered, WAIT_BODY, IDLE
  <1>5. Fill(b) = IF ~WithinLimit(L, n, c.frame_max) THEN Error(b, EFAULT)
                  ELSE IF n < want THEN [m EXCEPT !.more = FALSE] ELSE Switch(m)
    BY <1>1, <1>3 DEF Fill
  <1>6. \E e \in {EFAULT, EINVAL, ENOENT} : t = Error(b, e)
    <2>1. CASE TooMuch(c)
      BY <1>4, <1>5, <2>1 DEF TooMuch
    <2>2. CASE Refused(c) /\ ~TooMuch(c)
      <3>1. L = c.target /\ ~Accepted(c.buf) /\ WithinLimit(L, n, c.frame_max)
        BY <2>2 DEF TooMuch, Refused
      <3>2. want = 0 /\ n = 0
        BY SMT, <1>2, <1>3, <3>1 DEF Smaller
      <3>3. m = b
        <4>1. SubSeq(c.sock, 1, 0) = << >>
          BY SMT, <1>2
        <4>2. c.buf \o << >> = c.buf
          BY <1>2, ConcatEmptySeq
        <4>3. Copied(b, 0) = [b EXCEPT !.conn.buf = c.buf, !.used = 0]
          <5> DEFINE x == b.conn.buf \o SubSeq(b.conn.sock, b.used + 1, b.used + 0)
                     y == b.used + 0
          <5>1. Copied(b, 0) = [b EXCEPT !.conn.buf = x, !.used = y]
            BY DEF Copied
          <5>2. x = c.buf /\ y = 0
            <6>1. b.used + 1 = 1 /\ b.used + 0 = 0
              BY <1>1
            <6> QED BY Zenon, <1>1, <4>1, <4>2, <6>1
          <5> HIDE DEF x, y
          <5> QED BY <5>1, <5>2
        <4>4. [b EXCEPT !.conn.buf = c.buf, !.used = 0] = b
          BY <1>1 DEF IsRead, ReadFields, IsConn, ConnFields
        <4> QED BY <3>2, <4>3, <4>4
      <3>4. t = FrameRead(b)
        BY <1>1, <1>2, <1>4, <1>5, <3>1, <3>2, <3>3
           DEF Switch, WAIT_HEADER, WAIT_BODY, WAIT_PROTOCOL
      <3>5. ~IsProtocol(c.buf)
        BY <3>1 DEF Accepted
      <3>6. \E e \in {EINVAL, ENOENT} : FrameRead(b) = Error(b, e)
        BY <1>1, <3>1, <3>5, FrameReadFacts
      <3> QED BY <3>4, <3>6
    <2> QED BY <2>1, <2>2 DEF Stuck
  <1> HIDE DEF t
  <1>7. PICK e \in {EFAULT, EINVAL, ENOENT} : t = Error(b, e)
    BY <1>6
  <1>8. t.err = e /\ t.conn = c /\ t.heap = h /\ t.more = FALSE
    BY <1>1, <1>7, ErrorFields DEF Erred
  <1>9. e # 0
    BY SMT DEF EFAULT, EINVAL, ENOENT
  <1>10. amqp_handle_input(c, h) = t
    BY <1>8 DEF amqp_handle_input, ReadMore, t, b
  <1> QED BY <1>8, <1>9, <1>10

\* The first frame of a stream, of which the reader has the bytes b.
First(b, W, fs, w) ==
    /\ w \in Wire(Head(fs)) /\ Prefix(w, W) /\ Announced(b) = Len(w) /\ Len(w) >= 8
    /\ Len(b) = Len(w) => b = w
    /\ Parts(SubSeq(W, Len(w) + 1, Len(W)), Tail(fs))

\* The header in the buffer is that of the first frame on the way.
LEMMA FirstFrame ==
  ASSUME NEW W \in Seq(Byte), NEW fs \in Seq(SentFrames), Parts(W, fs), NEW b,
         Prefix(b, W), Len(b) >= 7
  PROVE  /\ fs # << >> /\ Head(fs) \in SentFrames /\ Tail(fs) \in Seq(SentFrames)
         /\ \E w : First(b, W, fs, w)
  <1>1. b \in Seq(Byte) /\ W # << >>
    <2>1. b \in Seq(Byte) /\ Len(b) <= Len(W)
      BY DEF Prefix
    <2> QED BY SMT, <2>1
  <1>2. fs # << >>
    BY <1>1, PartsHead
  <1>3. Head(fs) \in SentFrames /\ Tail(fs) \in Seq(SentFrames)
    BY <1>2, HeadTailProperties
  <1>4. PICK w \in Wire(Head(fs)) :
               /\ Len(w) <= Len(W) /\ Slice(W, 0, w)
               /\ Parts(SubSeq(W, Len(w) + 1, Len(W)), Tail(fs))
    BY <1>1, PartsHead
  <1>5. w \in Seq(Byte) /\ Len(w) >= 8 /\ Announced(w) = Len(w)
    BY <1>3, WireFacts
  <1>6. \A i \in 1..Len(w) : w[i] = W[i]
    BY SMT, <1>4, <1>5 DEF Slice
  <1>7. Prefix(w, W)
    BY <1>4, <1>5, <1>6 DEF Prefix
  <1>8. Announced(b) = Len(w)
    <2>1. Len(w) >= 7
      BY SMT, <1>5
    <2>2. Announced(b) = Announced(W) /\ Announced(w) = Announced(W)
      BY <1>1, <1>5, <1>7, <2>1, SameHeader
    <2> QED BY <1>5, <2>2
  <1>9. ASSUME Len(b) = Len(w) PROVE b = w
    <2>1. \A i \in 1..Len(b) : b[i] = w[i]
      BY <1>6, <1>9 DEF Prefix
    <2> QED BY <1>1, <1>5, <1>9, <2>1, SeqEqual
  <1> QED BY <1>2, <1>3, <1>4, <1>5, <1>7, <1>8, <1>9 DEF First

\* Bytes in the buffer and bytes still in the socket buffer.
Completes(e, b, s) == e \in Seq(Byte) /\ b \in Seq(Byte) /\ b \o e = s

\* The bytes in the buffer and those not used yet are the input.
LEMMA Rest ==
  ASSUME NEW a \in Seq(Byte), NEW k \in Seq(Byte), NEW s, s = a \o k,
         NEW b, Prefix(b, s), NEW u \in Nat, Len(b) = Len(a) + u
  PROVE  Completes(SubSeq(k, u + 1, Len(k)), b, s)
  <1> DEFINE e == SubSeq(k, u + 1, Len(k))
             d == b \o e
  <1>1. Joins(s, a, k)
    BY Zenon, Concat
  <1>2. /\ s \in Seq(Byte) /\ Len(s) = Len(a) + Len(k)
        /\ \A i \in 1..Len(k) : s[Len(a) + i] = k[i]
    BY <1>1 DEF Joins
  <1>3. b \in Seq(Byte) /\ Len(b) <= Len(s) /\ \A i \in 1..Len(b) : b[i] = s[i]
    BY DEF Prefix
  <1>4. Len(a) \in Nat /\ Len(k) \in Nat /\ Len(b) \in Nat /\ Len(s) = Len(a) + Len(k)
        /\ Len(b) <= Len(s)
    BY <1>2, <1>3
  <1>5. u <= Len(k)
    <2> DEFINE x == Len(a)
               y == Len(k)
               z == Len(b)
               v == Len(s)
    <2>1. x \in Nat /\ y \in Nat /\ v = x + y /\ z <= v /\ z = x + u
      BY <1>4
    <2> HIDE DEF x, y, z, v
    <2>2. u <= y
      BY SMT, <2>1
    <2> QED BY <2>2 DEF y
  <1>6. e \in Seq(Byte) /\ Len(e) = Len(k) - u /\ \A i \in 1..(Len(k) - u) : e[i] = k[u + i]
    BY SMT, <1>4, <1>5
  <1> HIDE DEF e
  <1>7. Joins(d, b, e)
    BY Zenon, <1>3, <1>6, Concat
  <1> HIDE DEF d
  <1>8. /\ d \in Seq(Byte) /\ Len(d) = Len(b) + Len(e)
        /\ \A i \in 1..Len(b) : d[i] = b[i]
        /\ \A i \in 1..Len(e) : d[Len(b) + i] = e[i]
    BY <1>7 DEF Joins
  <1>9. Len(d) = Len(s)
    <2>1. Len(d) = Len(b) + Len(e) /\ Len(e) = Len(k) - u
      BY <1>6, <1>8
    <2> QED BY SMT, <1>4, <1>5, <2>1
  <1>10. ASSUME NEW i \in 1..Len(d) PROVE d[i] = s[i]
    <2>1. CASE i <= Len(b)
      <3>1. i \in 1..Len(b)
        BY SMT, <1>4, <1>8, <2>1
      <3> QED BY <1>3, <1>8, <3>1
    <2>2. CASE i > Len(b)
      <3> DEFINE j == i - Len(b)
      <3>1. /\ j \in 1..(Len(k) - u) /\ i = Len(b) + j /\ u + j \in 1..Len(k)
            /\ i = Len(a) + (u + j)
        BY SMT, <1>4, <1>5, <1>9, <2>2
      <3> HIDE DEF j
      <3>2. j \in 1..Len(e)
        BY <1>6, <3>1
      <3>3. d[i] = e[j] /\ e[j] = k[u + j] /\ s[i] = k[u + j]
        BY <1>2, <1>6, <1>8, <3>1, <3>2
      <3> QED BY <3>3
    <2> QED BY SMT, <1>4, <1>9, <2>1, <2>2
  <1>11. d = s
    BY <1>2, <1>8, <1>9, <1>10, SeqEqual
  <1> QED BY <1>3, <1>6, <1>11 DEF Completes, d, e

\* What follows the first bytes.
LEMMA After ==
  ASSUME NEW b \in Seq(Byte), NEW e \in Seq(Byte), NEW W, W = b \o e
  PROVE  SubSeq(W, Len(b) + 1, Len(W)) = e /\ Prefix(b, W) /\ W \in Seq(Byte)
  <1> DEFINE d == SubSeq(W, Len(b) + 1, Len(W))
  <1>1. Joins(W, b, e)
    BY Zenon, Concat
  <1>2. /\ W \in Seq(Byte) /\ Len(W) = Len(b) + Len(e)
        /\ \A i \in 1..Len(b) : W[i] = b[i]
        /\ \A i \in 1..Len(e) : W[Len(b) + i] = e[i]
    BY <1>1 DEF Joins
  <1>3. Len(b) \in Nat /\ Len(e) \in Nat
    OBVIOUS
  <1>4. d \in Seq(Byte) /\ Len(d) = Len(e) /\ \A i \in 1..Len(e) : d[i] = W[Len(b) + i]
    BY SMT, <1>2, <1>3
  <1> HIDE DEF d
  <1>5. d = e
    BY <1>2, <1>4, SeqEqual
  <1>6. Len(b) <= Len(W)
    BY SMT, <1>2, <1>3
  <1> QED BY <1>2, <1>5, <1>6 DEF Prefix, d

Unread(c, r) == SubSeq(c.sock, r.used + 1, Len(c.sock))

\* Byte strings are joined in any order.
LEMMA ByteConcat ==
  ASSUME NEW a \in Seq(Byte), NEW b \in Seq(Byte), NEW c \in Seq(Byte)
  PROVE  (a \o b) \o c = a \o (b \o c) /\ a \o b \in Seq(Byte)
  BY ConcatAssociative, ConcatProperties

\* The same for the input of amqp_handle_input.
LEMMA PrefixOfInput ==
  ASSUME NEW c, NEW s, Input(c, s), NEW b, Prefix(b, s),
         NEW u \in Nat, Len(b) = Len(c.buf) + u
  PROVE  Completes(SubSeq(c.sock, u + 1, Len(c.sock)), b, s)
  <1> DEFINE a == c.buf
             k == c.sock
  <1>1. a \in Seq(Byte) /\ k \in Seq(Byte) /\ s = a \o k /\ Len(b) = Len(a) + u
    BY DEF Input
  <1> HIDE DEF a, k
  <1>2. Completes(SubSeq(k, u + 1, Len(k)), b, s)
    BY Zenon, <1>1, Rest
  <1> QED BY <1>2 DEF k

\* A call without a frame loses no byte.
LEMMA GoingRest ==
  ASSUME NEW c, NEW s, Input(c, s), NEW r, Going(c, s, r)
  PROVE  Unread(c, r) \in Seq(Byte) /\ r.conn.buf \o Unread(c, r) = s
  <1>1. Prefix(r.conn.buf, s) /\ r.used \in Nat /\ Len(r.conn.buf) = Len(c.buf) + r.used
    BY DEF Going, Reached
  <1>2. Completes(Unread(c, r), r.conn.buf, s)
    BY Zenon, <1>1, PrefixOfInput DEF Unread
  <1> QED BY <1>2 DEF Completes

\* The frame that is returned is the first of those on the way.
LEMMA FinishedFirst ==
  ASSUME NEW c, NEW s, Input(c, s), c.frame_max <= Longest, NEW N \in Seq(Byte),
         NEW fs \in Seq(SentFrames), Parts(s \o N, fs), NEW r, Finished(c, s, r)
  PROVE  /\ fs # << >> /\ Head(fs) \in SoundFrames /\ Tail(fs) \in Seq(SentFrames)
         /\ r.frame = IF IgnoredType(Head(fs)) THEN NoFrame ELSE Head(fs)
         /\ Unread(c, r) \in Seq(Byte) /\ Parts(Unread(c, r) \o N, Tail(fs))
  <1>1. r.used \in Nat
    BY DEF Finished
  <1>2. PICK b : /\ Prefix(b, s) /\ Len(b) = Len(c.buf) + r.used
                 /\ Len(b) >= 7 /\ Len(b) <= c.frame_max
                 /\ Announced(b) = Len(b) /\ Accepted(b) /\ r.frame = ReadAs(b)
    BY DEF Finished
  <1> DEFINE e == Unread(c, r)
             t == e \o N
             W == s \o N
  <1>3. e \in Seq(Byte) /\ b \in Seq(Byte) /\ W = b \o t /\ t \in Seq(Byte)
    <2>1. Completes(e, b, s)
      BY <1>1, <1>2, PrefixOfInput DEF Unread
    <2>2. e \in Seq(Byte) /\ b \in Seq(Byte) /\ b \o e = s
      BY <2>1 DEF Completes
    <2> HIDE DEF e
    <2>3. (b \o e) \o N = b \o (e \o N) /\ e \o N \in Seq(Byte)
      BY Zenon, <2>2, ByteConcat
    <2> QED BY <2>2, <2>3
  <1> HIDE DEF e, t, W
  <1>4. SubSeq(W, Len(b) + 1, Len(W)) = t /\ Prefix(b, W) /\ W \in Seq(Byte)
    BY <1>3, After
  <1>5. Parts(W, fs)
    BY DEF W
  <1>6. /\ fs # << >> /\ Head(fs) \in SentFrames /\ Tail(fs) \in Seq(SentFrames)
        /\ \E w : First(b, W, fs, w)
    BY <1>2, <1>4, <1>5, FirstFrame
  <1>7. PICK w : First(b, W, fs, w)
    BY <1>6
  <1>8. b = w /\ w \in Wire(Head(fs)) /\ Parts(t, Tail(fs))
    BY <1>2, <1>4, <1>7 DEF First
  <1>9. Head(fs) # Unknown
    <2>1. c.frame_max \in Nat /\ Longest \in Nat /\ Len(b) \in Nat
      <3>1. c.frame_max \in Nat
        BY InputFacts
      <3>2. Longest \in Nat
        BY LongestFacts DEF Number
      <3> QED BY <1>3, <3>1, <3>2
    <2>2. ~(Len(b) > Longest)
      BY SMT, <1>2, <2>1
    <2>3. ~Alien(b)
      BY <1>2, <2>2 DEF Alien
    <2> QED BY <1>6, <1>8, <2>3, WireFacts
  <1>10. Head(fs) \in SoundFrames /\ Frames(b, Head(fs))
    BY <1>6, <1>8, <1>9, WireFacts
  <1>11. r.frame = IF IgnoredType(Head(fs)) THEN NoFrame ELSE Head(fs)
    BY <1>2, <1>10 DEF Frames
  <1> QED BY <1>3, <1>6, <1>8, <1>10, <1>11 DEF e, t

\* An error is met only at a frame that is none.
LEMMA FailedFirst ==
  ASSUME NEW c, NEW s, Input(c, s), NEW N \in Seq(Byte),
         NEW fs \in Seq(SentFrames), Parts(s \o N, fs), NEW r, Failed(c, s, r)
  PROVE  fs # << >> /\ Head(fs) = Unknown
  <1> DEFINE b == r.conn.buf
             W == s \o N
  <1>1. Prefix(b, s) /\ Len(b) >= 7 /\ Broken(b, c.frame_max)
    BY DEF Failed
  <1>2. W \in Seq(Byte) /\ Prefix(b, W)
    <2>1. s \in Seq(Byte)
      BY InputFacts
    <2>2. W \in Seq(Byte) /\ Prefix(s, W)
      BY <2>1, After
    <2> HIDE DEF b, W
    <2>3. b \in Seq(Byte) /\ Len(b) <= Len(s) /\ \A i \in 1..Len(b) : b[i] = s[i]
      BY <1>1 DEF Prefix
    <2>4. Len(s) <= Len(W) /\ \A i \in 1..Len(s) : s[i] = W[i]
      BY <2>2 DEF Prefix
    <2>5. Len(b) \in Nat /\ Len(s) \in Nat /\ Len(W) \in Nat
      BY <2>1, <2>2, <2>3
    <2>6. Len(b) <= Len(W)
      BY SMT, <2>3, <2>4, <2>5
    <2>7. 1..Len(b) \subseteq 1..Len(s)
      BY SMT, <2>3, <2>5
    <2> QED BY <2>2, <2>3, <2>4, <2>6, <2>7 DEF Prefix
  <1> HIDE DEF b, W
  <1>3. Parts(W, fs)
    BY DEF W
  <1>4. /\ fs # << >> /\ Head(fs) \in SentFrames /\ \E w : First(b, W, fs, w)
    BY <1>1, <1>2, <1>3, FirstFrame
  <1>5. PICK w : First(b, W, fs, w)
    BY <1>4
  <1>6. ASSUME Head(fs) # Unknown PROVE FALSE
    <2>1. /\ w \in Wire(Head(fs)) /\ Announced(b) = Len(w) /\ Len(w) >= 8
          /\ Len(b) = Len(w) => b = w
      BY <1>5 DEF First
    <2>2. Frames(w, Head(fs))
      BY <1>4, <1>6, <2>1, WireFacts
    <2>3. Accepted(w) /\ Len(w) <= 22 /\ Len(w) \in Nat
      BY <2>2, Types DEF Frames
    <2>4. c.frame_max \in Nat /\ c.frame_max >= 22
      BY InputFacts
    <2>5. ~(Announced(b) < 7) /\ ~(Announced(b) > c.frame_max)
      BY SMT, <2>1, <2>3, <2>4
    <2>6. Announced(b) = Len(b) /\ ~Accepted(b)
      BY <1>1, <2>5 DEF Broken
    <2> QED BY <2>1, <2>3, <2>6
  <1> QED BY <1>4, <1>6

-----------------------------------------------------------------------------
\* The stream in the states of a connection.

\* What may answer a call, and what a broker may find in its mail.
Replies == {ms \in SUBSET Methods : Numbers(ms) \cap Numbers(Unasked) = {}}
Names ==
    {"AMQP", "connection_start_ok", "connection_tune_ok", "connection_open"}
        \cup {q.request : q \in Requests}
Messages ==
    [channel : {0, 1}, method : Names, arg : Number, replies : Replies,
     nowait : BOOLEAN]
Stages == {"header", "start", "tune", "open", "ready", "gone"}
Brokers ==
    [at : Stages, frame_max : Nat, opened : BOOLEAN, closing : BOOLEAN]

Bounded(c) == c.frame_max \in Sizes /\ c.frame_max <= Longest

\* The bytes in the buffers and on the way are those of the frames on the way, up
\* to the first that is none; there the reader stays.
StreamTypes ==
    /\ net \in Seq(Byte) /\ sent \in Seq(SentFrames)
    /\ conn.buf \in Seq(Byte) /\ conn.sock \in Seq(Byte)
    /\ got = NoFrame \/ got \in SoundFrames
ReaderInStep ==
    /\ ~broken => ReaderOK(conn) /\ Parts((conn.buf \o conn.sock) \o net, sent)
    /\ broken => Stuck(conn) /\ got = NoFrame
LimitsKept ==
    /\ pc = "none" => conn = NoConn /\ ~broken
    /\ pc # "none" => Bounded(conn)
PeerTypes == mail \in Seq(Messages) /\ broker \in Brokers
StreamInv == StreamTypes /\ ReaderInStep /\ LimitsKept /\ PeerTypes

\* What a step does to it that neither reads nor sends.
Quiet ==
    /\ UNCHANGED <<net, sent, broken>> /\ got' \in {got, NoFrame}
    /\ conn'.state = conn.state /\ conn'.buf = conn.buf
    /\ conn'.target = conn.target /\ conn'.sock = conn.sock
    /\ pc' # "none" /\ Bounded(conn')
    /\ pc = "none" \/ (pc = "tune" /\ got # NoFrame) \/ conn'.frame_max = conn.frame_max

\* A step that neither reads nor sends keeps the stream in step.
LEMMA QuietStep ==
  ASSUME StreamInv, Quiet
  PROVE  StreamTypes' /\ ReaderInStep' /\ LimitsKept'
  <1>1. StreamTypes'
    BY DEF StreamInv, StreamTypes, Quiet
  <1>2. LimitsKept'
    BY DEF Quiet, LimitsKept
  <1>3. CASE ~broken
    <2>1. ReaderOK(conn')
      BY <1>3 DEF StreamInv, ReaderInStep, ReaderOK, ReaderAt, Quiet
    <2> QED BY <1>1, <1>2, <1>3, <2>1 DEF StreamInv, ReaderInStep, Quiet
  <1>4. CASE broken
    <2>1. /\ Stuck(conn) /\ got = NoFrame /\ pc # "none"
      BY <1>4 DEF StreamInv, ReaderInStep, LimitsKept
    <2>2. conn'.frame_max = conn.frame_max
      BY <2>1 DEF Quiet
    <2>3. Stuck(conn')
      BY <2>1, <2>2 DEF Stuck, TooMuch, Refused, Quiet
    <2> QED BY <1>1, <1>2, <1>4, <2>1, <2>3 DEF ReaderInStep, Quiet
  <1> QED BY <1>3, <1>4, <1>1, <1>2

\* A connection begins with an idle reader.
LEMMA InitialConn ==
  /\ NoConn.state = IDLE /\ NoConn.buf = << >> /\ NoConn.target = HEADER_SIZE
  /\ NoConn.sock = << >>
  /\ amqp_new_connection.conn.state = IDLE /\ amqp_new_connection.conn.buf = << >>
  /\ amqp_new_connection.conn.target = HEADER_SIZE
  /\ amqp_new_connection.conn.sock = << >>
  /\ amqp_new_connection.conn.frame_max = FirstFrameMax
  BY DEF NoConn, amqp_new_connection

\* The two frame_max of the client.
LEMMA LimitFacts ==
  /\ FirstFrameMax \in Sizes /\ FirstFrameMax <= Longest
  /\ LoginFrameMax \in Sizes /\ LoginFrameMax <= Longest
  /\ Longest \in Nat
  BY SMT, ConnAssumption DEF Longest, Sizes, MinFrame, Number

\* Whatever connection.tune proposes, frame_max is sound and not above the client's.
LEMMA NegotiatedFacts ==
  ASSUME NEW n \in Sizes \cup {0}
  PROVE  Negotiated(n) \in Sizes /\ Negotiated(n) <= Longest
  BY SMT, LimitFacts DEF Negotiated, Sizes, Number

\* Nothing is on the way before a connection and after it.
LEMMA Nothing ==
  ASSUME NEW c, c.state = IDLE, c.buf = << >>, c.target = HEADER_SIZE, c.sock = << >>
  PROVE  /\ ReaderOK(c) /\ Parts((c.buf \o c.sock) \o << >>, << >>)
         /\ << >> \in Seq(Byte) /\ << >> \in Seq(SentFrames)
  <1>1. << >> \in Seq(Byte) /\ << >> \in Seq(SentFrames)
    OBVIOUS
  <1>2. ReaderOK(c)
    BY <1>1, Types DEF ReaderOK, ReaderAt, IDLE, WAIT_HEADER, WAIT_BODY, WAIT_PROTOCOL,
           HEADER_SIZE
  <1>3. (<< >> \o << >>) \o << >> = << >>
    OBVIOUS
  <1> QED BY <1>1, <1>2, <1>3, NoParts

\* At the beginning nothing is on the way.
LEMMA InitStream == Init => StreamInv
  <1>1. NoBroker \in Brokers /\ << >> \in Seq(Messages)
    BY DEF NoBroker, Brokers, Stages
  <1> QED BY <1>1, InitialConn, Nothing DEF Init, StreamInv, StreamTypes, ReaderInStep,
             LimitsKept, PeerTypes

\* Neither is anything after a connection.
LEMMA GoneStream == Gone => StreamInv'
  <1>1. NoBroker \in Brokers /\ << >> \in Seq(Messages)
    BY DEF NoBroker, Brokers, Stages
  <1> QED BY <1>1, InitialConn, Nothing DEF Gone, StreamInv, StreamTypes, ReaderInStep,
             LimitsKept, PeerTypes

\* A call that gives up.
LEMMA FailsQuiet ==
  ASSUME MInv, StreamInv, ReadEOF \/ ReadError
  PROVE  Quiet
  <1>1. /\ UNCHANGED <<conn, got, net, sent, broken>> /\ Waiting /\ WaitFails
    BY DEF ReadEOF, ReadError, Reading, frameVars, streamVars
  <1>2. pc' \in {"rpc", "idle", "closed"} /\ pc # "none"
    BY <1>1, WaitFailsPlaces DEF Waiting
  <1> QED BY <1>1, <1>2 DEF Quiet, StreamInv, LimitsKept, Bounded

\* The login looks at a frame.
LEMMA AdvanceQuiet ==
  ASSUME MInv, StreamInv, pc \in {"start", "tune"}, got # NoFrame, NEW m, Advance(m),
         SameReader(conn, m.conn), m.conn.sock = conn.sock, Bounded(m.conn),
         pc = "tune" \/ m.conn.frame_max = conn.frame_max,
         pc' \in {"tune", "open", "rpc", "idle", "closed"}
  PROVE  Quiet
  <1>1. conn' = m.conn /\ got' = NoFrame /\ UNCHANGED <<net, sent, broken>>
    BY DEF Advance, Taken, streamVars
  <1> QED BY <1>1 DEF Quiet, SameReader

\* connection.tune proposes a frame size or none.
LEMMA TuneProposes ==
  ASSUME StreamInv, pc = "tune", got # NoFrame, IsExpected(got)
  PROVE  got.arg \in Sizes \cup {0}
  <1>1. got \in SoundFrames /\ got.type = AMQP_FRAME_METHOD
        /\ got.id = MethodNumber("connection_tune")
    BY DEF StreamInv, StreamTypes, IsExpected, Expected
  <1>2. got \in MethodFrames
    BY <1>1, Types DEF SoundFrames, HeaderFrames, BodyFrames, Heartbeats, OddFrames,
                      Versions, FramesOf
  <1> QED BY <1>1, <1>2 DEF MethodFrames

\* amqp_login_inner neither reads nor sends frames; it may change frame_max, but not in
\* the middle of a frame.
LEMMA LoginQuiet ==
  ASSUME MInv, StreamInv, LoginStart \/ LoginTune
  PROVE  Quiet
  <1>1. /\ IsConn(conn) /\ ConnMem(conn, heap) /\ Bounded(conn)
        /\ conn.outbound # 0 /\ got # NoFrame /\ pc \in {"start", "tune"}
        /\ LoginTune => pc = "tune"
    <2>1. got # NoFrame /\ pc \in {"start", "tune"} /\ (LoginTune => pc = "tune")
      BY DEF LoginStart, LoginTune
    <2> QED BY <2>1 DEF MInv, MemorySound, ConnectionMade, StreamInv, LimitsKept
  <1>2. CASE LoginStart
    <2> DEFINE d == Decoding(conn, heap, SizeOfStruct)
               e == Recycled(d.conn, d.heap)
    <2>1. SizeOfStruct \in Nat \ {0}
      BY DEF SizeOfStruct
    <2>2. /\ IsConn(d.conn) /\ ConnMem(d.conn, d.heap)
          /\ Kept(conn, d.conn) /\ SameReader(conn, d.conn)
      BY <1>1, <2>1, DecodingFacts DEF Grows, SameReader
    <2>3. \/ Advance([conn |-> conn, heap |-> heap]) /\ Open
          \/ Advance(e) /\ pc' = "tune"
          \/ Advance(d) /\ Open
      BY <1>2 DEF LoginStart
    <2> HIDE DEF d
    <2>4. Kept(conn, e.conn) /\ SameReader(conn, e.conn)
      BY <2>2, RecycledFacts DEF Kept, SameReader
    <2> HIDE DEF e
    <2>5. CASE Advance([conn |-> conn, heap |-> heap]) /\ Open
      <3> DEFINE m == [conn |-> conn, heap |-> heap]
      <3>1. m.conn = conn /\ SameReader(conn, conn)
        BY DEF SameReader
      <3>2. Advance(m) /\ pc' \in {"tune", "open", "rpc", "idle", "closed"}
        BY <2>5, OpenPlaces
      <3> HIDE DEF m
      <3> QED BY <1>1, <3>1, <3>2, AdvanceQuiet
    <2>6. CASE Advance(e) /\ pc' = "tune"
      BY <1>1, <2>4, <2>6, AdvanceQuiet DEF Kept, Bounded
    <2>7. CASE Advance(d) /\ Open
      BY <1>1, <2>2, <2>7, OpenPlaces, AdvanceQuiet DEF Kept, Bounded
    <2> QED BY <2>3, <2>5, <2>6, <2>7
  <1>3. CASE LoginTune
    <2> DEFINE n == Negotiated(got.arg)
               t == amqp_tune_connection(conn, heap, n)
               e == Recycled(t.conn, t.heap)
    <2>1. n \in Sizes /\ n <= Longest
      BY <1>3, TuneProposes, NegotiatedFacts DEF LoginTune
    <2>2. n \in Nat \ {0}
      BY SMT, <2>1 DEF Sizes, Number, MinFrame
    <2>3. \/ Advance(e) /\ pc' = "open"
          \/ Advance(t) /\ Open
      BY <1>3 DEF LoginTune
    <2> HIDE DEF n
    <2>4. /\ IsConn(t.conn) /\ ConnMem(t.conn, t.heap) /\ SameReader(conn, t.conn)
          /\ t.conn.frame_max = n /\ t.conn.sock = conn.sock
      BY <1>1, <2>2, TuneFacts
    <2> HIDE DEF t
    <2>5. Kept(t.conn, e.conn) /\ SameReader(t.conn, e.conn)
      BY <2>4, RecycledFacts
    <2> HIDE DEF e
    <2>6. SameReader(conn, e.conn) /\ Bounded(t.conn) /\ Bounded(e.conn)
      BY <2>1, <2>4, <2>5 DEF SameReader, Bounded, Kept
    <2>7. CASE Advance(e) /\ pc' = "open"
      BY <1>1, <1>3, <2>4, <2>5, <2>6, <2>7, AdvanceQuiet DEF Kept
    <2>8. CASE Advance(t) /\ Open
      BY <1>1, <1>3, <2>4, <2>6, <2>8, OpenPlaces, AdvanceQuiet
    <2> QED BY <2>3, <2>7, <2>8
  <1> QED BY <1>2, <1>3

\* The buffers are released.
LEMMA ReleaseReader ==
  ASSUME MInv, amqp_maybe_release_buffers
  PROVE  /\ SameReader(conn, conn') /\ conn'.sock = conn.sock
         /\ conn'.frame_max = conn.frame_max
  <1>1. IsConn(conn) /\ ConnMem(conn, heap)
    BY DEF MInv, MemorySound
  <1>2. conn' = conn \/ conn' = Recycled(conn, heap).conn
    BY DEF amqp_maybe_release_buffers
  <1>3. Kept(conn, Recycled(conn, heap).conn) /\ SameReader(conn, Recycled(conn, heap).conn)
    BY <1>1, RecycledFacts
  <1> QED BY <1>2, <1>3 DEF Kept, SameReader

\* amqp_simple_rpc takes a frame or puts it aside.
LEMMA RpcQuiet ==
  ASSUME MInv, StreamInv, RpcEnds \/ RpcQueues
  PROVE  Quiet
  <1>1. /\ pc = "rpc" /\ got' = NoFrame /\ UNCHANGED <<net, sent, broken>>
        /\ pc' \in {"rpc", "idle", "closed"}
    BY DEF RpcEnds, RpcQueues, Taken, Return, streamVars, callVars
  <1>2. Bounded(conn) /\ IsConn(conn) /\ ConnMem(conn, heap)
    BY <1>1 DEF StreamInv, LimitsKept, MInv, MemorySound
  <1>3. CASE RpcEnds
    <2>1. UNCHANGED conn \/ amqp_maybe_release_buffers
      BY <1>3 DEF RpcEnds
    <2>2. /\ SameReader(conn, conn') /\ conn'.sock = conn.sock
          /\ conn'.frame_max = conn.frame_max
      BY <2>1, ReleaseReader DEF SameReader
    <2> QED BY <1>1, <1>2, <2>2 DEF Quiet, SameReader, Bounded
  <1>4. CASE RpcQueues
    <2> DEFINE f == Decoding(conn, heap, SizeOfFrame)
               l == Decoding(f.conn, f.heap, SizeOfLink)
               b == [frame |-> got, no |-> count.decoded, mem |-> gotmem \cup {f.at, l.at}]
               q == [l.conn EXCEPT !.queue = Append(l.conn.queue, b)]
    <2>1. conn' = q
      BY <1>4 DEF RpcQueues, Enqueue
    <2>2. SizeOfFrame \in Nat \ {0} /\ SizeOfLink \in Nat \ {0}
      BY DEF SizeOfFrame, SizeOfLink
    <2>3. Grows(conn, heap, f.conn, f.heap) /\ SameReader(conn, f.conn)
      BY <1>2, <2>2, DecodingFacts DEF SameReader
    <2> HIDE DEF f
    <2>4. IsConn(f.conn) /\ ConnMem(f.conn, f.heap) /\ Kept(conn, f.conn)
      BY <2>3 DEF Grows
    <2>5. Grows(f.conn, f.heap, l.conn, l.heap) /\ SameReader(f.conn, l.conn)
      BY <2>2, <2>4, DecodingFacts DEF SameReader
    <2> HIDE DEF l, b
    <2>6. IsConn(l.conn) /\ Kept(f.conn, l.conn)
      BY <2>5 DEF Grows
    <2>7. /\ SameReader(l.conn, q) /\ q.sock = l.conn.sock
          /\ q.frame_max = l.conn.frame_max
      BY <2>6 DEF IsConn, ConnFields, SameReader
    <2> HIDE DEF q
    <2>8. /\ SameReader(conn, q) /\ q.sock = conn.sock /\ q.frame_max = conn.frame_max
      BY <2>3, <2>4, <2>5, <2>6, <2>7 DEF SameReader, Kept
    <2> QED BY <1>1, <1>2, <2>1, <2>8 DEF Quiet, SameReader, Bounded
  <1> QED BY <1>3, <1>4

\* Whoever takes a frame leaves the reader where it is.
LEMMA DispatchQuiet ==
  ASSUME MInv, StreamInv, Dispatch
  PROVE  Quiet
  <1>1. CASE Abort \/ LoginOpen \/ FrameReturned
    <2>1. /\ pc # "none" /\ UNCHANGED <<conn, net, sent, broken>>
          /\ got' \in {got, NoFrame}
      BY <1>1 DEF Abort, LoginOpen, FrameReturned, Taken, streamVars, frameVars
    <2>2. pc' # "none"
      BY <1>1, OpenPlaces DEF Abort, LoginOpen, FrameReturned, Return
    <2> QED BY <2>1, <2>2 DEF Quiet, StreamInv, LimitsKept, Bounded
  <1> QED BY <1>1, LoginQuiet, RpcQuiet DEF Dispatch

\* The application, as long as there is a connection.
LEMMA ApplicationQuiet ==
  ASSUME MInv, StreamInv, Application
  PROVE  Quiet \/ Gone
  <1> USE DEF streamVars, frameVars
  <1>1. CASE New
    <2>1. /\ pc = "none" /\ pc' # "none" /\ conn' = amqp_new_connection.conn
          /\ UNCHANGED <<got, net, sent, broken>> /\ conn = NoConn
      BY <1>1 DEF New, StreamInv, LimitsKept
    <2>2. Bounded(conn')
      BY <2>1, InitialConn, LimitFacts DEF Bounded
    <2> QED BY <2>1, <2>2, InitialConn DEF Quiet
  <1>2. CASE Login \/ WaitFrame \/ \E q \in Requests : SimpleRpc(q)
    <2>1. /\ pc # "none" /\ pc' # "none" /\ UNCHANGED <<conn, got, net, sent, broken>>
      BY <1>2 DEF Login, WaitFrame, SimpleRpc, Calling, Return
    <2> QED BY <2>1 DEF Quiet, StreamInv, LimitsKept, Bounded
  <1>3. ASSUME NEW d, conn' = d, SameReader(conn, d), d.sock = conn.sock,
               d.frame_max = conn.frame_max, pc # "none", pc' # "none",
               UNCHANGED <<got, net, sent, broken>>
        PROVE  Quiet
    BY <1>3 DEF Quiet, SameReader, StreamInv, LimitsKept, Bounded
  <1>4. CASE QueuedFrame
    <2> DEFINE d == [conn EXCEPT !.queue = Tail(conn.queue)]
    <2>1. /\ pc # "none" /\ pc' # "none" /\ conn' = d
          /\ UNCHANGED <<got, net, sent, broken>>
      BY <1>4 DEF QueuedFrame, Calling, Return, Dequeue
    <2>2. SameReader(conn, d) /\ d.sock = conn.sock /\ d.frame_max = conn.frame_max
      BY DEF MInv, MemorySound, IsConn, ConnFields, SameReader
    <2> HIDE DEF d
    <2> QED BY <1>3, <2>1, <2>2
  <1>5. CASE MaybeRelease
    <2>1. /\ pc # "none" /\ pc' # "none" /\ UNCHANGED <<got, net, sent, broken>>
          /\ amqp_maybe_release_buffers
      BY <1>5 DEF MaybeRelease, callVars
    <2> QED BY <1>3, <2>1, ReleaseReader
  <1>6. CASE Destroy \/ Restart
    BY <1>6 DEF Destroy, Restart
  <1>7. ASSUME NEW addrs, NEW b, Connect(addrs, b) PROVE Quiet
    <2> DEFINE s == amqp_open_socket(addrs, b)
               d == [conn EXCEPT !.sockfd = s.fd]
    <2>1. /\ pc # "none" /\ pc' # "none" /\ conn' = d
          /\ UNCHANGED <<got, net, sent, broken>>
      BY <1>7 DEF Connect
    <2> HIDE DEF s
    <2>2. SameReader(conn, d) /\ d.sock = conn.sock /\ d.frame_max = conn.frame_max
      BY DEF MInv, MemorySound, IsConn, ConnFields, SameReader
    <2> HIDE DEF d
    <2> QED BY <1>3, <2>1, <2>2
  <1>8. ASSUME NEW e, Handshake(e) PROVE Quiet
    <2> DEFINE t == amqp_ssl_handshake(e)
               d == [conn EXCEPT !.ssl = t.ssl]
    <2>1. /\ pc # "none" /\ pc' # "none" /\ conn' = d
          /\ UNCHANGED <<got, net, sent, broken>>
      BY <1>8 DEF Handshake
    <2> HIDE DEF t
    <2>2. SameReader(conn, d) /\ d.sock = conn.sock /\ d.frame_max = conn.frame_max
      BY DEF MInv, MemorySound, IsConn, ConnFields, SameReader
    <2> HIDE DEF d
    <2> QED BY <1>3, <2>1, <2>2
  <1> QED BY <1>1, <1>2, <1>4, <1>5, <1>6, <1>7, <1>8 DEF Application

\* What amqp_handle_input in wait_frame_inner does to the frames on the way.
Breaks ==
    /\ broken' = TRUE /\ UNCHANGED <<got, sent>> /\ WaitFails
    /\ ~broken => sent # << >> /\ Head(sent) = Unknown
Waits == ~broken /\ UNCHANGED <<broken, got, sent, callVars>>
Delivers ==
    /\ ~broken /\ sent # << >> /\ Head(sent) \in SoundFrames /\ sent' = Tail(sent)
    /\ got = NoFrame
    /\ got' = IF IgnoredType(Head(sent)) THEN NoFrame ELSE Head(sent)
    /\ UNCHANGED <<broken, callVars>>

\* amqp_handle_input meets an error, waits for more, or returns the first frame on
\* the way.
LEMMA HandleInputStep ==
  ASSUME MInv, StreamInv, HandleInput
  PROVE  /\ Breaks \/ Waits \/ Delivers
         /\ conn'.frame_max = conn.frame_max
         /\ StreamTypes' /\ ReaderInStep' /\ LimitsKept'
  <1> DEFINE r == amqp_handle_input(conn, heap)
             s == conn.buf \o conn.sock
             d == [r.conn EXCEPT !.sock = SubSeq(r.conn.sock, r.used + 1, Len(r.conn.sock))]
  <1>1. /\ Waiting /\ pc # "none" /\ got = NoFrame /\ IsConn(conn) /\ conn.state \in States
        /\ Bounded(conn) /\ net \in Seq(Byte) /\ sent \in Seq(SentFrames)
        /\ conn.buf \in Seq(Byte) /\ conn.sock \in Seq(Byte)
    BY DEF HandleInput, HasInput, Waiting, MInv, MemorySound, ReaderShape, StreamInv,
           LimitsKept, StreamTypes
  <1>2. /\ UNCHANGED net
        /\ \/ /\ r.err # 0 /\ conn' = r.conn /\ broken' = TRUE /\ WaitFails
              /\ UNCHANGED <<got, sent>>
           \/ /\ r.err = 0 /\ conn' = d /\ got' = r.frame
              /\ sent' = IF r.complete THEN Tail(sent) ELSE sent
              /\ UNCHANGED <<callVars, broken>>
    BY DEF HandleInput, frameVars
  <1>3. CASE broken
    <2>1. Stuck(conn)
      BY <1>3 DEF StreamInv, ReaderInStep
    <2>2. r.err # 0 /\ r.conn = conn
      BY <1>1, <2>1, StuckStays
    <2> HIDE DEF r
    <2>3. conn' = conn /\ Breaks
      BY <1>2, <1>3, <2>2 DEF Breaks
    <2>4. pc' # "none"
      BY <1>1, <2>3, WaitFailsPlaces DEF Breaks
    <2> QED BY <1>1, <1>2, <2>1, <2>3, <2>4 DEF Breaks, StreamInv, StreamTypes, ReaderInStep,
               LimitsKept, Bounded
  <1>4. CASE ~broken
    <2>1. ReaderOK(conn) /\ Parts(s \o net, sent)
      BY <1>4 DEF StreamInv, ReaderInStep
    <2>2. Input(conn, s)
      BY <1>1 DEF Input, Bounded
    <2>3. Outcome(conn, s, r)
      BY <1>1, <2>1, <2>2, HandleInputReads
    <2> HIDE DEF r, s
    <2>4. IsConn(r.conn) /\ r.conn.sock = conn.sock /\ r.conn.frame_max = conn.frame_max
      BY <2>3 DEF Outcome, Going, Reached, Finished, Returned, Failed
    <2>5. /\ d.sock = Unread(conn, r) /\ d.buf = r.conn.buf /\ d.state = r.conn.state
          /\ d.target = r.conn.target /\ d.frame_max = conn.frame_max
      BY <2>4 DEF IsConn, ConnFields, Unread
    <2> HIDE DEF d
    <2>6. conn'.frame_max = conn.frame_max
      BY <1>2, <2>4, <2>5
    <2>7. LimitsKept'
      <3>1. pc' # "none"
        BY <1>1, <1>2, WaitFailsPlaces DEF callVars
      <3> QED BY <1>1, <2>6, <3>1 DEF LimitsKept, Bounded
    <2>8. CASE Failed(conn, s, r)
      <3>1. r.err # 0 /\ Stuck(r.conn)
        BY <2>8 DEF Failed
      <3>2. sent # << >> /\ Head(sent) = Unknown
        BY <1>1, <2>1, <2>2, <2>8, FailedFirst
      <3>3. conn' = r.conn /\ broken' = TRUE /\ WaitFails /\ UNCHANGED <<got, sent>>
        BY <1>2, <3>1
      <3>4. Breaks
        BY <3>2, <3>3 DEF Breaks
      <3>5. StreamTypes' /\ ReaderInStep'
        BY <1>1, <1>2, <3>1, <3>3 DEF StreamTypes, ReaderInStep, Stuck
      <3> QED BY <2>6, <2>7, <3>4, <3>5
    <2>9. CASE Going(conn, s, r)
      <3>1. /\ r.err = 0 /\ r.complete = FALSE /\ r.frame = NoFrame /\ ReaderOK(r.conn)
            /\ r.conn.buf \in Seq(Byte)
        BY <2>9 DEF Going, Reached, Prefix
      <3>2. Unread(conn, r) \in Seq(Byte) /\ r.conn.buf \o Unread(conn, r) = s
        BY <2>2, <2>9, GoingRest
      <3>3. conn' = d /\ got' = NoFrame /\ UNCHANGED <<sent, broken, callVars>>
        BY <1>2, <3>1
      <3>4. Waits
        BY <1>1, <1>4, <3>3 DEF Waits
      <3>5. ReaderOK(conn')
        BY <2>5, <3>1, <3>3 DEF ReaderOK, ReaderAt
      <3>6. StreamTypes'
        BY <1>1, <1>2, <2>5, <3>1, <3>2, <3>3 DEF StreamTypes
      <3>7. ReaderInStep'
        BY <1>2, <1>4, <2>1, <2>5, <3>2, <3>3, <3>5 DEF ReaderInStep
      <3> QED BY <2>6, <2>7, <3>4, <3>6, <3>7
    <2>10. CASE Finished(conn, s, r)
      <3>1. /\ r.err = 0 /\ r.complete = TRUE /\ r.conn.buf = << >>
            /\ r.conn.target = HEADER_SIZE /\ r.conn.state = IDLE
        BY <2>10 DEF Finished, Returned
      <3>2. /\ sent # << >> /\ Head(sent) \in SoundFrames /\ Tail(sent) \in Seq(SentFrames)
            /\ r.frame = IF IgnoredType(Head(sent)) THEN NoFrame ELSE Head(sent)
            /\ Unread(conn, r) \in Seq(Byte) /\ Parts(Unread(conn, r) \o net, Tail(sent))
        BY <1>1, <2>1, <2>2, <2>10, FinishedFirst DEF Bounded
      <3>3. conn' = d /\ got' = r.frame /\ sent' = Tail(sent) /\ UNCHANGED <<broken, callVars>>
        BY <1>2, <3>1
      <3>4. Delivers
        BY <1>1, <1>4, <3>2, <3>3 DEF Delivers
      <3>5. << >> \in Seq(Byte)
        OBVIOUS
      <3>6. ReaderOK(conn')
        BY <2>5, <3>1, <3>3, <3>5, Types DEF ReaderOK, ReaderAt, IDLE, WAIT_HEADER, WAIT_BODY,
           WAIT_PROTOCOL, HEADER_SIZE
      <3>7. StreamTypes'
        BY <1>1, <1>2, <2>5, <3>1, <3>2, <3>3, <3>5 DEF StreamTypes
      <3>8. << >> \o Unread(conn, r) = Unread(conn, r)
        BY <3>2
      <3>9. ReaderInStep'
        BY <1>2, <1>4, <2>5, <3>1, <3>2, <3>3, <3>6, <3>8 DEF ReaderInStep
      <3> QED BY <2>6, <2>7, <3>4, <3>7, <3>9
    <2> QED BY <2>3, <2>8, <2>9, <2>10 DEF Outcome
  <1> QED BY <1>3, <1>4

\* A read moves bytes from the way into the buffer.
LEMMA ReadStep ==
  ASSUME MInv, StreamInv, NEW n \in Nat, Read(n)
  PROVE  /\ ~broken /\ UNCHANGED <<broken, got, sent, callVars, peerVars, count>>
         /\ conn'.frame_max = conn.frame_max
         /\ StreamTypes' /\ ReaderInStep' /\ LimitsKept'
  <1> DEFINE a == SubSeq(net, 1, n)
             b == SubSeq(net, n + 1, Len(net))
             d == [conn EXCEPT !.sock = a]
  <1>1. /\ conn' = d /\ net' = b /\ UNCHANGED <<broken, got, sent, callVars, peerVars, count>>
        /\ conn.sock = << >> /\ n <= Len(net) /\ pc # "none"
    BY DEF Read, Reading, Waiting, frameVars
  <1>2. IsConn(conn) /\ net \in Seq(Byte) /\ conn.buf \in Seq(Byte) /\ sent \in Seq(SentFrames)
    BY DEF MInv, MemorySound, StreamInv, StreamTypes
  <1>3. ~broken
    BY <1>1 DEF StreamInv, ReaderInStep, Stuck
  <1>4. Prefix(a, net) /\ Len(a) = Len(<< >>) + n
    <2>1. /\ a \in Seq(Byte) /\ Len(a) = n /\ \A i \in 1..n : a[i] = net[i]
      BY SMT, <1>1, <1>2
    <2> HIDE DEF a
    <2> QED BY <1>1, <2>1 DEF Prefix
  <1>5. net = << >> \o net /\ << >> \in Seq(Byte)
    BY <1>2
  <1>6. Completes(b, a, net)
    BY <1>2, <1>4, <1>5, Rest
  <1> HIDE DEF a, b
  <1>7. a \in Seq(Byte) /\ b \in Seq(Byte) /\ a \o b = net
    BY <1>6 DEF Completes
  <1>8. /\ d.sock = a /\ d.buf = conn.buf /\ d.state = conn.state
        /\ d.target = conn.target /\ d.frame_max = conn.frame_max
    BY <1>2 DEF IsConn, ConnFields
  <1> HIDE DEF d
  <1>9. (conn.buf \o a) \o b = (conn.buf \o << >>) \o net
    <2>1. (conn.buf \o a) \o b = conn.buf \o (a \o b)
      BY <1>2, <1>7, ByteConcat
    <2>2. conn.buf \o << >> = conn.buf
      BY <1>2
    <2> QED BY <1>7, <2>1, <2>2
  <1>10. ReaderOK(conn) /\ Parts((conn.buf \o << >>) \o net, sent)
    BY <1>1, <1>3 DEF StreamInv, ReaderInStep
  <1>11. ReaderOK(conn')
    BY <1>1, <1>8, <1>10 DEF ReaderOK, ReaderAt
  <1>12. ReaderInStep'
    BY <1>1, <1>3, <1>8, <1>9, <1>10, <1>11 DEF ReaderInStep
  <1>13. StreamTypes'
    BY <1>1, <1>2, <1>7, <1>8 DEF StreamInv, StreamTypes
  <1>14. LimitsKept'
    BY <1>1, <1>8 DEF StreamInv, LimitsKept, Bounded, callVars
  <1> QED BY <1>1, <1>3, <1>8, <1>12, <1>13, <1>14

\* The frames a broker sends.
LEMMA MethodSound ==
  ASSUME NEW ch \in {0, 1}, NEW m \in Methods, NEW n \in Number,
         MethodNumber(m) = MethodNumber("connection_tune") => n \in Sizes \cup {0}
  PROVE  MethodFrame(ch, m, n) \in SoundFrames
  <1>1. MethodNumber(m) \in MethodNumbers
    BY DEF MethodNumbers, Numbers
  <1> QED BY <1>1 DEF MethodFrame, SoundFrames, MethodFrames, FramesOf

\* A reply is a frame of the protocol.
LEMMA ReplySound ==
  ASSUME NEW ms \in Replies, NEW m \in ms, NEW ch \in {0, 1}, NEW n \in Number
  PROVE  MethodFrame(ch, m, n) \in SoundFrames
  <1>1. m \in Methods /\ MethodNumber(m) # MethodNumber("connection_tune")
    BY DEF Replies, Numbers, Unasked
  <1> QED BY <1>1, MethodSound

\* Arguments that occur below.
LEMMA ZeroNumber == 0 \in Number /\ 8 \in Number /\ 9 \in Number /\ 9 \in Byte
  BY SMT DEF Number, MaxNumber, Byte

\* No two of these methods have one number.
LEMMA Different ==
  /\ MethodNumber("connection_start") # MethodNumber("connection_tune")
  /\ MethodNumber("connection_open_ok") # MethodNumber("connection_tune")
  /\ MethodNumber("connection_close") # MethodNumber("connection_tune")
  /\ MethodNumber("channel_close") # MethodNumber("connection_tune")
  /\ MethodNumber("basic_return") # MethodNumber("connection_tune")
  /\ MethodNumber("connection_start") # MethodNumber("connection_open_ok")
  /\ MethodNumber("connection_close") # MethodNumber("connection_open_ok")
  /\ MethodNumber("channel_close") # MethodNumber("connection_open_ok")
  /\ MethodNumber("basic_return") # MethodNumber("connection_open_ok")
  /\ MethodNumber("connection_start") # MethodNumber("channel_close")
  /\ MethodNumber("connection_close") # MethodNumber("channel_close")
  /\ MethodNumber("basic_return") # MethodNumber("channel_close")
  /\ MethodNumber("connection_start") # MethodNumber("connection_close")
  /\ MethodNumber("basic_return") # MethodNumber("connection_close")
  BY SMT, NamedMethods

\* The methods of the login, and those a broker sends unasked, are in the tables.
LEMMA Known ==
  /\ "connection_start" \in Methods /\ "connection_tune" \in Methods
  /\ "connection_open_ok" \in Methods /\ "connection_close" \in Methods
  /\ "channel_close" \in Methods /\ "basic_return" \in Methods
  BY NamedMethods DEF Unasked

\* The frames of the login are of the protocol.
LEMMA LoginFramesSound ==
  /\ MethodFrame(0, "connection_start", ProtocolMajor) \in SoundFrames
  /\ MethodFrame(0, "connection_start", 9) \in SoundFrames
  /\ \A n \in ServerFrameMax : MethodFrame(0, "connection_tune", n) \in SoundFrames
  /\ MethodFrame(0, "connection_open_ok", 0) \in SoundFrames
  /\ OtherFrame(AMQP_PSEUDOFRAME_PROTOCOL_HEADER,
                AMQP_PSEUDOFRAME_PROTOCOL_CHANNEL, 9) \in SoundFrames
  <1>1. \A n \in ServerFrameMax : n \in Number /\ n \in Sizes \cup {0}
    BY ConnAssumption, ZeroNumber DEF Sizes
  <1>2. \A n \in ServerFrameMax : MethodFrame(0, "connection_tune", n) \in SoundFrames
    BY <1>1, Known, MethodSound
  <1>3. OtherFrame(AMQP_PSEUDOFRAME_PROTOCOL_HEADER,
                   AMQP_PSEUDOFRAME_PROTOCOL_CHANNEL, 9) \in SoundFrames
    BY ZeroNumber DEF OtherFrame, SoundFrames, Versions, FramesOf
  <1>4. /\ MethodFrame(0, "connection_start", ProtocolMajor) \in SoundFrames
        /\ MethodFrame(0, "connection_start", 9) \in SoundFrames
    BY ZeroNumber, Known, Different, MethodSound DEF ProtocolMajor
  <1>5. MethodFrame(0, "connection_open_ok", 0) \in SoundFrames
    BY ZeroNumber, Known, Different, MethodSound
  <1> QED BY <1>2, <1>3, <1>4, <1>5

\* So are those a broker sends unasked.
LEMMA PushedSound ==
  /\ Close \in SoundFrames
  /\ MethodFrame(1, "channel_close", 0) \in SoundFrames
  /\ MethodFrame(1, "basic_return", 0) \in SoundFrames
  /\ OtherFrame(AMQP_FRAME_HEADER, 1, 0) \in SoundFrames
  /\ \A n \in Number : OtherFrame(AMQP_FRAME_BODY, 1, n) \in SoundFrames
  /\ OtherFrame(AMQP_FRAME_HEARTBEAT, 0, 0) \in SoundFrames
  /\ OtherFrame(OddFrame, 0, 0) \in SoundFrames
  <1>1. /\ Close \in SoundFrames
        /\ MethodFrame(1, "channel_close", 0) \in SoundFrames
        /\ MethodFrame(1, "basic_return", 0) \in SoundFrames
    BY ZeroNumber, Known, Different, MethodSound DEF Close
  <1>2. /\ OtherFrame(AMQP_FRAME_HEADER, 1, 0) \in HeaderFrames
        /\ \A n \in Number : OtherFrame(AMQP_FRAME_BODY, 1, n) \in BodyFrames
        /\ OtherFrame(AMQP_FRAME_HEARTBEAT, 0, 0) \in Heartbeats
        /\ OtherFrame(OddFrame, 0, 0) \in OddFrames
    BY DEF OtherFrame, HeaderFrames, BodyFrames, Heartbeats, OddFrames, FramesOf
  <1> QED BY <1>1, <1>2 DEF SoundFrames

-----------------------------------------------------------------------------
\* The broker sends.

\* fs are followed by gs, and the bytes s by t.
Sendable(s, fs) == s \in Seq(Byte) /\ fs \in Seq(SentFrames)
Continues(x, s, fs, t, gs) ==
    Sendable(t, gs) /\ (Parts(x \o s, fs) => Parts(x \o t, gs))

\* One more frame, and its bytes, at the end of the stream.
LEMMA FollowsFrame ==
  ASSUME NEW x \in Seq(Byte), NEW s, NEW fs, Sendable(s, fs),
         NEW f \in SentFrames, NEW w \in Wire(f)
  PROVE  Continues(x, s, fs, s \o w, Append(fs, f))
  <1>1. s \in Seq(Byte) /\ fs \in Seq(SentFrames) /\ w \in Seq(Byte)
    BY WireFacts DEF Sendable
  <1>2. s \o w \in Seq(Byte) /\ Append(fs, f) \in Seq(SentFrames)
    BY <1>1, ByteConcat
  <1>3. ASSUME Parts(x \o s, fs) PROVE Parts(x \o (s \o w), Append(fs, f))
    <2> DEFINE y == x \o s
               t == y \o w
               gs == Append(fs, f)
    <2>1. y \in Seq(Byte) /\ Parts(y, fs) /\ t = y \o w /\ gs = Append(fs, f)
      BY <1>1, <1>3, ByteConcat
    <2>2. t = x \o (s \o w)
      BY <1>1, ByteConcat
    <2> HIDE DEF y, t, gs
    <2>3. Parts(t, gs)
      BY <1>1, <2>1, PartsAppend
    <2> QED BY <2>2, <2>3 DEF gs
  <1> QED BY <1>2, <1>3 DEF Continues, Sendable

\* A broker that sends keeps the stream in step.
LEMMA FollowsStep ==
  ASSUME StreamInv, UNCHANGED <<conn, pc, got, broken>>,
         Continues(conn.buf \o conn.sock, net, sent, net', sent')
  PROVE  StreamTypes' /\ ReaderInStep' /\ LimitsKept'
  BY DEF Continues, Sendable, StreamInv, StreamTypes, ReaderInStep, LimitsKept, Bounded

\* A frame of the protocol is sent as its bytes.
LEMMA SoundWire ==
  ASSUME NEW f \in SoundFrames
  PROVE  f \in SentFrames /\ Bytes(f) \in Wire(f)
  BY UnknownFacts DEF SentFrames, Wire

\* The broker sends one frame, ...
LEMMA SendsFollows ==
  ASSUME StreamInv, NEW f \in SoundFrames, Sends(f)
  PROVE  Continues(conn.buf \o conn.sock, net, sent, net', sent')
  <1> DEFINE x == conn.buf \o conn.sock
  <1>1. x \in Seq(Byte) /\ Sendable(net, sent)
    BY ByteConcat DEF StreamInv, StreamTypes, Sendable
  <1> HIDE DEF x
  <1>2. net' = net \o Bytes(f) /\ sent' = Append(sent, f)
    BY DEF Sends
  <1>3. Continues(x, net, sent, net \o Bytes(f), Append(sent, f))
    BY <1>1, SoundWire, FollowsFrame
  <1> QED BY <1>2, <1>3 DEF x

\* ... or something that is none.
LEMMA ErrsFollows ==
  ASSUME StreamInv, BrokerErrs
  PROVE  Continues(conn.buf \o conn.sock, net, sent, net', sent')
  <1> DEFINE x == conn.buf \o conn.sock
  <1>1. x \in Seq(Byte) /\ Sendable(net, sent)
    BY ByteConcat DEF StreamInv, StreamTypes, Sendable
  <1> HIDE DEF x
  <1>2. PICK w \in Wire(Unknown) : net' = net \o w
    BY DEF BrokerErrs, Wire
  <1>3. sent' = Append(sent, Unknown) /\ Unknown \in SentFrames
    BY DEF BrokerErrs, SentFrames
  <1>4. Continues(x, net, sent, net \o w, Append(sent, Unknown))
    BY <1>1, <1>3, FollowsFrame
  <1> QED BY <1>2, <1>3, <1>4 DEF x

\* A returned message is three frames.
LEMMA ReturnFollows ==
  ASSUME StreamInv, NEW f \in SoundFrames, NEW g \in SoundFrames, NEW h \in SoundFrames,
         sent' = Append(Append(Append(sent, f), g), h),
         net' = net \o Bytes(f) \o Bytes(g) \o Bytes(h)
  PROVE  Continues(conn.buf \o conn.sock, net, sent, net', sent')
  <1> DEFINE x == conn.buf \o conn.sock
             n1 == net \o Bytes(f)
             n2 == n1 \o Bytes(g)
             n3 == n2 \o Bytes(h)
             s1 == Append(sent, f)
             s2 == Append(s1, g)
             s3 == Append(s2, h)
  <1>1. x \in Seq(Byte) /\ Sendable(net, sent)
    BY ByteConcat DEF StreamInv, StreamTypes, Sendable
  <1>2. net' = n3 /\ sent' = s3
    OBVIOUS
  <1> HIDE DEF x
  <1>3. Continues(x, net, sent, n1, s1)
    BY <1>1, SoundWire, FollowsFrame
  <1> HIDE DEF n1, s1
  <1>4. Continues(x, n1, s1, n2, s2)
    BY <1>1, <1>3, SoundWire, FollowsFrame DEF Continues
  <1> HIDE DEF n2, s2
  <1>5. Continues(x, n2, s2, n3, s3)
    BY <1>1, <1>4, SoundWire, FollowsFrame DEF Continues
  <1> HIDE DEF n3, s3
  <1> QED BY <1>2, <1>3, <1>4, <1>5 DEF Continues, x

\* The broker only adds to what is on the way.
LEMMA BrokerStream ==
  ASSUME StreamInv, OrderInv, Broker
  PROVE  /\ UNCHANGED <<conn, pc, got, broken>>
         /\ StreamTypes' /\ ReaderInStep' /\ LimitsKept'
         /\ \/ UNCHANGED sent
            \/ \E f \in SentFrames : sent' = Append(sent, f)
            \/ \E f, g, h \in SentFrames : sent' = Append(Append(Append(sent, f), g), h)
  <1>1. UNCHANGED <<conn, pc, got, broken>>
    BY DEF Broker, BrokerReads, BrokerPushes, BrokerCloses, BrokerErrs, Pushing, ToClient,
           frameVars
  <1>2. ASSUME UNCHANGED <<net, sent>>
        PROVE  StreamTypes' /\ ReaderInStep' /\ LimitsKept'
    BY <1>1, <1>2 DEF StreamInv, StreamTypes, ReaderInStep, LimitsKept, Bounded
  <1>3. ASSUME NEW f \in SoundFrames, Sends(f)
        PROVE  /\ StreamTypes' /\ ReaderInStep' /\ LimitsKept'
               /\ \E e \in SentFrames : sent' = Append(sent, e)
    <2>1. StreamTypes' /\ ReaderInStep' /\ LimitsKept'
      BY <1>1, <1>3, SendsFollows, FollowsStep
    <2>2. sent' = Append(sent, f) /\ f \in SentFrames
      BY <1>3, SoundWire DEF Sends
    <2> QED BY <2>1, <2>2
  <1>4. CASE BrokerReads
    <2> DEFINE msg == Head(mail)
    <2>1. msg \in Messages /\ (Answer(msg) \/ Refuse(msg))
      BY <1>4 DEF BrokerReads, StreamInv, PeerTypes
    <2> HIDE DEF msg
    <2>2. \A m \in msg.replies : MethodFrame(msg.channel, m, msg.arg) \in SoundFrames
      BY <2>1, ReplySound DEF Messages
    <2>3. UNCHANGED <<net, sent>> \/ \E f \in SoundFrames : Sends(f)
      BY <2>1, <2>2, LoginFramesSound, PushedSound DEF Answer, Refuse
    <2> QED BY <1>1, <1>2, <1>3, <2>3
  <1>5. CASE BrokerPushes
    <2>1. count.pushes \in Number
      <3>1. count.pushes \in Nat /\ count.pushes < MaxPushes
        BY <1>5 DEF OrderInv, Counts, BrokerPushes, Pushing
      <3>2. MaxPushes \in Number
        BY ConnAssumption
      <3> QED BY SMT, <3>1, <3>2 DEF Number, MaxNumber
    <2> DEFINE a == MethodFrame(1, "basic_return", 0)
               b == OtherFrame(AMQP_FRAME_HEADER, 1, 0)
               c == OtherFrame(AMQP_FRAME_BODY, 1, count.pushes)
    <2>2. a \in SoundFrames /\ b \in SoundFrames /\ c \in SoundFrames
      BY <2>1, PushedSound
    <2>3. \/ /\ sent' = Append(Append(Append(sent, a), b), c)
             /\ net' = net \o Bytes(a) \o Bytes(b) \o Bytes(c)
          \/ \E f \in SoundFrames : Sends(f)
      BY <1>5, PushedSound DEF BrokerPushes
    <2> HIDE DEF a, b, c
    <2>4. ASSUME sent' = Append(Append(Append(sent, a), b), c),
                 net' = net \o Bytes(a) \o Bytes(b) \o Bytes(c)
          PROVE  /\ StreamTypes' /\ ReaderInStep' /\ LimitsKept'
                 /\ a \in SentFrames /\ b \in SentFrames /\ c \in SentFrames
      BY <1>1, <2>2, <2>4, SoundWire, ReturnFollows, FollowsStep
    <2> QED BY <1>1, <1>3, <2>3, <2>4
  <1>6. CASE BrokerCloses
    <2>1. UNCHANGED <<net, sent>> \/ \E f \in SoundFrames : Sends(f)
      BY <1>6, PushedSound DEF BrokerCloses
    <2> QED BY <1>1, <1>2, <1>3, <2>1
  <1>7. CASE BrokerErrs
    <2>1. sent' = Append(sent, Unknown) /\ Unknown \in SentFrames
      BY <1>7 DEF BrokerErrs, SentFrames
    <2> QED BY <1>1, <1>7, <2>1, ErrsFollows, FollowsStep
  <1> QED BY <1>4, <1>5, <1>6, <1>7 DEF Broker

-----------------------------------------------------------------------------
\* The mail.

\* The replies to requests, and to connection.open, are none of what comes unasked.
LEMMA RepliesFacts ==
  /\ {} \in Replies /\ {"connection_open_ok"} \in Replies
  /\ \A q \in Requests : q.replies \in Replies
  <1>1. Numbers({}) = {} /\ Numbers({"connection_open_ok"}) = {MethodNumber("connection_open_ok")}
    BY DEF Numbers
  <1>2. Numbers(Unasked) = {MethodNumber("basic_return"), MethodNumber("channel_close"),
                            MethodNumber("connection_close"), MethodNumber("connection_start"),
                            MethodNumber("connection_tune")}
    BY DEF Numbers, Unasked
  <1>3. MethodNumber("connection_open_ok") \notin Numbers(Unasked)
    BY <1>2, Different
  <1>4. \A q \in Requests : q.replies \subseteq Methods /\ Numbers(q.replies) \cap Numbers(Unasked) = {}
    BY ConnAssumption
  <1> QED BY <1>1, <1>3, <1>4, Known DEF Replies

OpenMessage == Message(0, "connection_open", 0, {"connection_open_ok"}, FALSE)

\* What the client sends.
LEMMA MessageFacts ==
  /\ Message(0, "AMQP", 0, {}, FALSE) \in Messages
  /\ Message(0, "connection_start_ok", 0, {}, FALSE) \in Messages
  /\ \A n \in Number : Message(0, "connection_tune_ok", n, {}, FALSE) \in Messages
  /\ OpenMessage \in Messages
  /\ \A q \in Requests, n \in Number :
        Message(ChannelOf(q), q.request, n, q.replies, Nowait(q)) \in Messages
  <1>1. /\ Message(0, "AMQP", 0, {}, FALSE) \in Messages
        /\ Message(0, "connection_start_ok", 0, {}, FALSE) \in Messages
        /\ \A n \in Number : Message(0, "connection_tune_ok", n, {}, FALSE) \in Messages
        /\ OpenMessage \in Messages
    BY ZeroNumber, RepliesFacts DEF Message, Messages, Names, OpenMessage
  <1>2. ASSUME NEW q \in Requests, NEW n \in Number
        PROVE  Message(ChannelOf(q), q.request, n, q.replies, Nowait(q)) \in Messages
    <2>1. ChannelOf(q) \in {0, 1} /\ Nowait(q) \in BOOLEAN
      BY DEF ChannelOf, Nowait
    <2>2. q.request \in Names /\ q.replies \in Replies
      BY RepliesFacts DEF Names
    <2> HIDE DEF Names, Replies
    <2> QED BY <2>1, <2>2 DEF Message, Messages
  <1> QED BY <1>1, <1>2

\* What the client does to the mail.
Mails ==
    mail' = mail \/ \E m \in Messages : mail' = Append(mail, m)

\* The client adds to the mail, and does not touch the broker.
LEMMA ClientMails ==
  ASSUME MInv, OrderInv, StreamInv, Client \/ Application
  PROVE  (Mails /\ UNCHANGED broker) \/ Gone
  <1>1. ASSUME Open PROVE Mails
    BY <1>1, MessageFacts DEF Open, Post, Mails, OpenMessage
  <1>2. CASE HandleInput \/ Receive
    <2>1. UNCHANGED broker
      BY <1>2 DEF HandleInput, Receive, Read, ReadEOF, ReadError, peerVars
    <2>2. WaitFails \/ UNCHANGED mail
      BY <1>2 DEF HandleInput, Receive, Read, ReadEOF, ReadError, callVars
    <2>3. WaitFails => Open \/ UNCHANGED mail
      BY DEF WaitFails
    <2> QED BY <1>1, <2>1, <2>2, <2>3 DEF Mails
  <1>3. CASE Dispatch
    <2>1. UNCHANGED broker
      BY <1>3 DEF Dispatch, Abort, LoginStart, LoginTune, LoginOpen, RpcEnds, RpcQueues,
         FrameReturned, Taken, Advance, peerVars
    <2>2. CASE Abort \/ LoginStart \/ LoginOpen \/ RpcEnds \/ RpcQueues \/ FrameReturned
      <3>1. Open \/ UNCHANGED mail \/ Post(Message(0, "connection_start_ok", 0, {}, FALSE))
        BY <2>2 DEF Abort, LoginStart, LoginOpen, RpcEnds, RpcQueues, FrameReturned, callVars
      <3> QED BY <1>1, <2>1, <3>1, MessageFacts DEF Mails, Post
    <2>3. CASE LoginTune
      <3> DEFINE n == Negotiated(got.arg)
                 t == amqp_tune_connection(conn, heap, n)
      <3>1. Open \/ Post(Message(0, "connection_tune_ok", t.conn.frame_max, {}, FALSE))
        BY <2>3 DEF LoginTune
      <3>2. /\ IsConn(conn) /\ ConnMem(conn, heap) /\ conn.outbound # 0
        BY <2>3 DEF LoginTune, MInv, MemorySound, ConnectionMade
      <3>3. n \in Sizes
        BY <2>3, TuneProposes, NegotiatedFacts DEF LoginTune
      <3>4. n \in Nat \ {0} /\ n \in Number
        BY SMT, <3>3 DEF Sizes, Number, MinFrame
      <3> HIDE DEF n
      <3>5. t.conn.frame_max = n
        BY <3>2, <3>4, TuneFacts
      <3> HIDE DEF t
      <3> QED BY <1>1, <2>1, <3>1, <3>4, <3>5, MessageFacts DEF Mails, Post
    <2> QED BY <1>3, <2>2, <2>3 DEF Dispatch
  <1>4. ASSUME NEW q \in Requests, SimpleRpc(q) PROVE Mails /\ UNCHANGED broker
    <2>1. count.calls + 1 \in Number
      <3>1. count.calls \in Nat /\ count.calls < MaxCalls
        BY <1>4 DEF OrderInv, Counts, SimpleRpc, Calling
      <3>2. MaxCalls \in Number
        BY ConnAssumption
      <3> QED BY SMT, <3>1, <3>2 DEF Number, MaxNumber
    <2>2. \/ UNCHANGED mail
          \/ Post(Message(ChannelOf(q), q.request, count.calls + 1, q.replies, Nowait(q)))
      BY <1>4 DEF SimpleRpc
    <2>3. UNCHANGED broker
      BY <1>4 DEF SimpleRpc, peerVars
    <2> DEFINE n == count.calls + 1
    <2> HIDE DEF n
    <2>4. Message(ChannelOf(q), q.request, n, q.replies, Nowait(q)) \in Messages
      BY <2>1, MessageFacts DEF n
    <2> QED BY <2>2, <2>3, <2>4 DEF Mails, Post, n
  <1>5. CASE Login
    BY <1>5, MessageFacts DEF Login, Post, Mails, peerVars
  <1>6. CASE \/ New \/ WaitFrame \/ QueuedFrame \/ MaybeRelease
             \/ \E addrs \in Addresses, b \in BOOLEAN : Connect(addrs, b)
             \/ \E v \in BOOLEAN : \E e \in TlsEnds(v) : Handshake(e)
    BY <1>6 DEF New, WaitFrame, QueuedFrame, MaybeRelease, Connect, Handshake, peerVars,
       callVars, Mails
  <1>7. CASE Destroy \/ Restart
    BY <1>7 DEF Destroy, Restart
  <1> QED BY <1>2, <1>3, <1>4, <1>5, <1>6, <1>7 DEF Client, Application

\* The broker moves from stage to stage.
LEMMA BrokerTypes ==
  ASSUME StreamInv, Broker
  PROVE  broker' \in Brokers
  <1>1. broker \in Brokers
    BY DEF StreamInv, PeerTypes
  <1>2. ASSUME NEW s \in Stages PROVE [broker EXCEPT !.at = s] \in Brokers
    BY <1>1 DEF Brokers
  <1>3. "header" \in Stages /\ "start" \in Stages /\ "tune" \in Stages /\ "open" \in Stages
        /\ "ready" \in Stages /\ "gone" \in Stages
    BY DEF Stages
  <1>4. CASE BrokerReads
    <2> DEFINE msg == Head(mail)
    <2>1. msg \in Messages /\ (Answer(msg) \/ Refuse(msg))
      BY <1>4 DEF BrokerReads, StreamInv, PeerTypes
    <2> HIDE DEF msg
    <2>2. msg.arg \in Nat
      BY <2>1 DEF Messages, Number
    <2>3. /\ [broker EXCEPT !.at = "open", !.frame_max = msg.arg] \in Brokers
          /\ [broker EXCEPT !.at = "ready", !.opened = TRUE] \in Brokers
      BY <1>1, <1>3, <2>2 DEF Brokers
    <2> QED BY <1>2, <1>3, <2>1, <2>3 DEF Answer, Refuse, Stays
  <1>5. CASE BrokerPushes \/ BrokerErrs
    BY <1>1, <1>5 DEF BrokerPushes, BrokerErrs, peerVars
  <1>6. CASE BrokerCloses
    <2>1. [broker EXCEPT !.closing = TRUE] \in Brokers
      BY <1>1 DEF Brokers
    <2> QED BY <1>2, <1>3, <1>6, <2>1 DEF BrokerCloses
  <1> QED BY <1>4, <1>5, <1>6 DEF Broker

\* The broker reads the mail in order.
LEMMA BrokerMails ==
  ASSUME Broker
  PROVE  mail' = mail \/ (mail # << >> /\ mail' = Tail(mail))
  BY DEF Broker, BrokerReads, BrokerPushes, BrokerErrs, BrokerCloses, Pushing

\* Every step keeps the stream in step.
LEMMA NextStream ==
  ASSUME MInv, OrderInv, StreamInv, [Next]_vars
  PROVE  StreamInv'
  <1>1. mail \in Seq(Messages) /\ broker \in Brokers
    BY DEF StreamInv, PeerTypes
  <1>2. CASE Client \/ Application
    <2>1. CASE Gone
      BY <2>1, GoneStream
    <2>2. CASE ~Gone
      <3>1. PeerTypes'
        BY <1>1, <1>2, <2>2, ClientMails DEF Mails, PeerTypes
      <3>2. CASE HandleInput
        BY <3>1, <3>2, HandleInputStep DEF StreamInv
      <3>3. CASE \E n \in Chunks \cup {Len(net)} : Read(n)
        <4>1. Chunks \cup {Len(net)} \subseteq Nat
          <5>1. Len(net) \in Nat
            BY DEF StreamInv, StreamTypes
          <5> QED BY <5>1, ConnAssumption
        <4> QED BY <3>1, <3>3, <4>1, ReadStep DEF StreamInv
      <3>4. CASE ReadEOF \/ ReadError \/ Dispatch \/ Application
        <4>1. Quiet
          BY <2>2, <3>4, FailsQuiet, DispatchQuiet, ApplicationQuiet
        <4> QED BY <3>1, <4>1, QuietStep DEF StreamInv
      <3> QED BY <1>2, <3>2, <3>3, <3>4 DEF Client, Receive
    <2> QED BY <2>1, <2>2
  <1>3. CASE Broker
    <2>1. PeerTypes'
      BY <1>1, <1>3, BrokerTypes, BrokerMails DEF PeerTypes
    <2> QED BY <1>3, <2>1, BrokerStream DEF StreamInv
  <1>4. CASE UNCHANGED vars
    BY <1>4 DEF vars, callVars, streamVars, peerVars, frameVars, StreamInv, StreamTypes,
       ReaderInStep, LimitsKept, PeerTypes, Bounded
  <1> QED BY <1>2, <1>3, <1>4 DEF Next

\* Where the reader stands and what is on the way to it fit together, whatever
\* the broker sends, however the stream is cut and wherever a call gives up.
THEOREM StreamInvariance == Spec => [](MInv /\ OrderInv /\ StreamInv)
  <1>1. Init => MInv /\ OrderInv /\ StreamInv
    BY InitMInv, InitOrder, InitStream
  <1>2. MInv /\ OrderInv /\ StreamInv /\ [Next]_vars => (MInv /\ OrderInv /\ StreamInv)'
    BY NextMInv, NextOrder, NextStream
  <1> QED BY <1>1, <1>2, PTL DEF Spec

\* The reader is always in one of the states that amqp_private.h describes.
THEOREM ReaderAgreesCorrect == Spec => []ReaderAgrees
  <1>1. ASSUME MInv, StreamInv PROVE ReaderAgrees
    <2>1. conn.state \in States /\ ReaderShape(conn, heap)
      BY <1>1 DEF MInv, MemorySound, ReaderShape
    <2>2. conn.state = IDLE => conn.inbound = NULL /\ conn.buf = << >> /\ conn.target = HEADER_SIZE
      BY <2>1 DEF ReaderShape
    <2>3. ASSUME conn.state # IDLE
          PROVE  /\ conn.inbound.block \in Blocks(conn.frame_pool.pages)
                                           \cup Blocks(conn.frame_pool.large_blocks)
                 /\ conn.inbound.len >= conn.frame_max /\ conn.inbound # NULL
      <3>1. Handed(heap, conn.frame_pool, conn.inbound) /\ conn.inbound.len >= conn.frame_max
        BY <2>1, <2>3 DEF ReaderShape
      <3>2. conn.inbound \in Regions /\ conn.inbound.block \in Owned(conn.frame_pool)
        BY <3>1 DEF Handed
      <3>3. NULL.block = 0
        BY DEF NULL, Region
      <3>4. conn.inbound # NULL
        BY <3>2, <3>3 DEF Regions, BlockIds
      <3> QED BY <3>1, <3>2, <3>4 DEF Owned
    <2>4. conn.state = WAIT_HEADER => Len(conn.buf) \in 1..(HEADER_SIZE - 1)
      <3>1. ASSUME conn.state = WAIT_HEADER PROVE ~broken
        BY <1>1, <3>1 DEF StreamInv, ReaderInStep, Stuck, WAIT_HEADER, WAIT_BODY
      <3>2. ~broken => ReaderOK(conn)
        BY <1>1 DEF StreamInv, ReaderInStep
      <3>3. HEADER_SIZE - 1 = 6
        BY DEF HEADER_SIZE
      <3> QED BY <3>1, <3>2, <3>3 DEF ReaderOK, ReaderAt
    <2>5. ASSUME conn.state = WAIT_BODY, ~broken
          PROVE  HEADER_SIZE <= Len(conn.buf) /\ Len(conn.buf) < conn.target
      <3> DEFINE b == conn.buf
                 s == b \o conn.sock
                 W == s \o net
      <3>1. /\ ReaderOK(conn) /\ Parts(W, sent) /\ sent \in Seq(SentFrames)
            /\ b \in Seq(Byte) /\ conn.sock \in Seq(Byte) /\ net \in Seq(Byte)
        BY <1>1, <2>5 DEF StreamInv, ReaderInStep, StreamTypes
      <3>2. Len(b) >= 7 /\ conn.target = Announced(b) /\ (Len(b) < conn.target \/ Len(b) = 7)
        BY <2>5, <3>1 DEF ReaderOK, ReaderAt
      <3>3. W = b \o (conn.sock \o net) /\ conn.sock \o net \in Seq(Byte)
        BY ZenonT(30), <3>1, ByteConcat
      <3> HIDE DEF W, b
      <3>4. Prefix(b, W) /\ W \in Seq(Byte)
        BY <3>1, <3>3, After
      <3>5. PICK w : First(b, W, sent, w)
        BY <3>1, <3>2, <3>4, FirstFrame
      <3>6. Announced(b) = Len(w) /\ Len(w) >= 8
        BY <3>5 DEF First
      <3>7. Len(b) \in Nat /\ Announced(b) \in Int
        BY <3>1, <3>2, AnnouncedInt
      <3>8. 7 <= Len(b) /\ Len(b) < conn.target
        <4> DEFINE x == Len(b)
                   t == conn.target
        <4>1. /\ x >= 7 /\ t >= 8 /\ x \in Nat /\ t \in Int
              /\ x < t \/ x = 7
          BY <3>2, <3>6, <3>7
        <4> HIDE DEF x, t
        <4>2. 7 <= x /\ x < t
          BY SMT, <4>1
        <4> QED BY <4>2 DEF x, t
      <3> QED BY <3>8 DEF HEADER_SIZE, b
    <2> QED BY <2>2, <2>3, <2>4, <2>5 DEF ReaderAgrees
  <1> QED BY <1>1, StreamInvariance, PTL

\* The kinds of steps.
LEMMA StepKinds ==
  ASSUME MInv, OrderInv, StreamInv, [Next]_vars
  PROVE  \/ Quiet \/ Gone \/ Breaks \/ Waits \/ Delivers
         \/ /\ UNCHANGED <<broken, got>>
            /\ \/ UNCHANGED sent
               \/ \E f \in SentFrames : sent' = Append(sent, f)
               \/ \E f, g, h \in SentFrames : sent' = Append(Append(Append(sent, f), g), h)
  <1>1. CASE HandleInput
    BY <1>1, HandleInputStep
  <1>2. CASE \E n \in Chunks \cup {Len(net)} : Read(n)
    BY <1>2 DEF Read, frameVars
  <1>3. CASE ReadEOF \/ ReadError \/ Dispatch
    BY <1>3, FailsQuiet, DispatchQuiet
  <1>4. CASE Application
    BY <1>4, ApplicationQuiet
  <1>5. CASE Broker
    BY <1>5, BrokerStream
  <1>6. CASE UNCHANGED vars
    BY <1>6 DEF vars, frameVars, streamVars
  <1> QED BY <1>1, <1>2, <1>3, <1>4, <1>5, <1>6 DEF Next, Client, Receive

\* After an error nothing in the stream is taken for a frame.
THEOREM ErrorsStickCorrect == Spec => ErrorsStick
  <1>1. ASSUME MInv, OrderInv, StreamInv, [Next]_vars
        PROVE  broken /\ broken' => got' \in {got, NoFrame}
    BY <1>1, StepKinds DEF Quiet, Gone, Breaks, Waits, Delivers
  <1>2. MInv /\ OrderInv /\ StreamInv /\ [Next]_vars =>
          [broken /\ broken' => got' \in {got, NoFrame}]_vars
    BY <1>1
  <1> QED BY <1>2, StreamInvariance, PTL DEF Spec, ErrorsStick

-----------------------------------------------------------------------------
\* The refinement of FrameChannel.

\* gs are fs and some more.
Longer(S, fs, gs) ==
    /\ gs \in Seq(S) /\ Len(gs) > Len(fs) /\ \A i \in 1..Len(fs) : gs[i] = fs[i]

\* One more is longer.
LEMMA LongerAppend ==
  ASSUME NEW S, NEW fs \in Seq(S), NEW f \in S
  PROVE  Longer(S, fs, Append(fs, f))
  BY DEF Longer

\* Longer than what is longer.
LEMMA LongerTwice ==
  ASSUME NEW S, NEW fs \in Seq(S), NEW gs, NEW hs, Longer(S, fs, gs), Longer(S, gs, hs)
  PROVE  Longer(S, fs, hs)
  <1> DEFINE x == Len(fs)
             y == Len(gs)
             z == Len(hs)
  <1>1. /\ x \in Nat /\ y \in Nat /\ z \in Nat /\ y > x /\ z > y
        /\ \A i \in 1..x : gs[i] = fs[i]
        /\ \A i \in 1..y : hs[i] = gs[i]
        /\ hs \in Seq(S)
    BY DEF Longer
  <1> HIDE DEF x, y, z
  <1>2. z > x /\ \A i \in 1..x : hs[i] = fs[i]
    BY SMT, <1>1
  <1> QED BY <1>1, <1>2 DEF Longer, x, z

\* What is longer begins with the same.
LEMMA LongerBegins ==
  ASSUME NEW S, NEW fs \in Seq(S), NEW gs, Longer(S, fs, gs)
  PROVE  Len(gs) > Len(fs) /\ SubSeq(gs, 1, Len(fs)) = fs
  <1> DEFINE n == Len(fs)
             hs == SubSeq(gs, 1, n)
  <1>1. gs \in Seq(S) /\ Len(gs) > n /\ n \in Nat /\ \A i \in 1..n : gs[i] = fs[i]
    BY DEF Longer
  <1>2. hs \in Seq(S) /\ Len(hs) = n /\ \A i \in 1..n : hs[i] = gs[i]
    BY SMT, <1>1
  <1> HIDE DEF hs
  <1>3. hs = fs
    BY <1>1, <1>2, SeqEqual
  <1> QED BY <1>1, <1>3 DEF hs

\* The frames on the way are only added to at their end.
LEMMA BrokerLonger ==
  ASSUME sent \in Seq(SentFrames),
         \/ \E f \in SentFrames : sent' = Append(sent, f)
         \/ \E f, g, h \in SentFrames : sent' = Append(Append(Append(sent, f), g), h)
  PROVE  Longer(SentFrames, sent, sent')
  <1>1. ASSUME NEW f \in SentFrames, NEW g \in SentFrames, NEW h \in SentFrames
        PROVE  Longer(SentFrames, sent, Append(Append(Append(sent, f), g), h))
    <2> DEFINE a == Append(sent, f)
               b == Append(a, g)
               c == Append(b, h)
    <2>1. Longer(SentFrames, sent, a) /\ a \in Seq(SentFrames)
      BY LongerAppend
    <2> HIDE DEF a
    <2>2. Longer(SentFrames, a, b) /\ b \in Seq(SentFrames)
      BY <2>1, LongerAppend
    <2> HIDE DEF b
    <2>3. Longer(SentFrames, b, c)
      BY <2>2, LongerAppend
    <2> HIDE DEF c
    <2>4. Longer(SentFrames, sent, c)
      BY <2>1, <2>2, <2>3, LongerTwice
    <2> QED BY <2>4 DEF a, b, c
  <1> QED BY <1>1, LongerAppend

\* However the stream is cut and wherever a read gives up, the frames are read as
\* they were sent, in order and each once, until there is an error.
THEOREM FramesReadAsSentCorrect == Spec => FramesReadAsSent
  <1>1. Init => Channel!Init
    BY DEF Init, Channel!Init, NoFrame
  <1>2. ASSUME MInv, OrderInv, StreamInv, [Next]_vars
        PROVE  [Channel!Next]_Channel!vars
    <2> USE DEF Channel!Next, Channel!vars, NoFrame
    <2>1. sent \in Seq(SentFrames)
      BY <1>2 DEF StreamInv, StreamTypes
    <2>2. CASE Quiet
      <3>1. UNCHANGED <<sent, got, broken>> \/ Channel!Done
        BY <2>2 DEF Quiet, Channel!Done
      <3> QED BY <3>1
    <2>3. CASE Gone
      BY <2>3 DEF Gone, Channel!Renew
    <2>4. CASE Breaks
      BY <2>4 DEF Breaks, Channel!Break
    <2>5. CASE Waits
      BY <2>5 DEF Waits
    <2>6. CASE Delivers
      <3>1. Channel!Deliver \/ Channel!Ignore
        BY <2>6 DEF Delivers, Channel!Deliver, Channel!Ignore
      <3> QED BY <3>1
    <2>7. CASE UNCHANGED <<broken, got, sent>>
      BY <2>7
    <2>8. CASE /\ UNCHANGED <<broken, got>> /\ Longer(SentFrames, sent, sent')
      <3>1. Len(sent') > Len(sent) /\ SubSeq(sent', 1, Len(sent)) = sent
        BY <2>1, <2>8, LongerBegins
      <3>2. CASE broken
        BY <2>8, <3>2 DEF Channel!Break
      <3>3. CASE ~broken
        BY <2>8, <3>1, <3>3 DEF Channel!Send
      <3> QED BY <3>2, <3>3
    <2> QED BY <1>2, <2>1, <2>2, <2>3, <2>4, <2>5, <2>6, <2>7, <2>8, StepKinds, BrokerLonger
  <1> QED BY <1>1, <1>2, StreamInvariance, PTL DEF Spec, FramesReadAsSent, Channel!Spec

-----------------------------------------------------------------------------
\* Calls, mail and frames.

\* The frames on the way by their places: the one just read is at 0.
Slots(g, fs) == (IF g = NoFrame THEN 1 ELSE 0)..Len(fs)
At(g, fs, k) == IF k = 0 THEN g ELSE fs[k]

\* They move up or are gone; none is new and none passes another.
MovesBy(d) ==
    \A k \in Slots(got', sent') :
        k + d \in Slots(got, sent) /\ At(got', sent', k) = At(got, sent, k + d)
Moves == \E d \in {0, 1} : MovesBy(d)

\* A frame is taken off, or none.
LEMMA SlotsStay ==
  ASSUME sent \in Seq(SentFrames), UNCHANGED sent, got' \in {got, NoFrame}
  PROVE  Moves
  <1>1. Len(sent) \in Nat
    OBVIOUS
  <1>2. MovesBy(0)
    BY SMT, <1>1 DEF MovesBy, Slots, At
  <1> QED BY <1>2 DEF Moves

\* The first frame on the way is read.
LEMMA SlotsMove ==
  ASSUME sent \in Seq(SentFrames), sent # << >>, sent' = Tail(sent),
         got = NoFrame, got' \in {NoFrame, Head(sent)}
  PROVE  Moves
  <1> DEFINE n == Len(sent)
             t == Tail(sent)
  <1>1. /\ n \in Nat /\ n >= 1 /\ Len(t) = n - 1 /\ Head(sent) = sent[1]
        /\ \A i \in 1..(n - 1) : t[i] = sent[i + 1]
    BY SMT
  <1>2. sent' = t
    OBVIOUS
  <1> HIDE DEF t
  <1>3. MovesBy(1)
    BY SMT, <1>1, <1>2 DEF MovesBy, Slots, At
  <1> QED BY <1>3 DEF Moves

\* The client only takes frames off.
LEMMA ClientMoves ==
  ASSUME MInv, OrderInv, StreamInv, Client \/ Application, ~Gone
  PROVE  Moves
  <1>1. sent \in Seq(SentFrames)
    BY DEF StreamInv, StreamTypes
  <1>2. CASE HandleInput
    <2>1. Breaks \/ Waits \/ Delivers
      BY <1>2, HandleInputStep
    <2>2. CASE Breaks \/ Waits
      BY <1>1, <2>2, SlotsStay DEF Breaks, Waits
    <2>3. CASE Delivers
      BY <1>1, <2>3, SlotsMove DEF Delivers
    <2> QED BY <2>1, <2>2, <2>3
  <1>3. CASE \E n \in Chunks \cup {Len(net)} : Read(n)
    BY <1>1, <1>3, SlotsStay DEF Read, frameVars
  <1>4. CASE ReadEOF \/ ReadError \/ Dispatch \/ Application
    <2>1. Quiet
      BY <1>4, FailsQuiet, DispatchQuiet, ApplicationQuiet
    <2> QED BY <1>1, <2>1, SlotsStay DEF Quiet
  <1> QED BY <1>2, <1>3, <1>4 DEF Client, Receive

\* gs are fs and behind them more, of S.
Behind(S, fs, gs) ==
    /\ Len(gs) >= Len(fs) /\ \A i \in 1..Len(fs) : gs[i] = fs[i]
    /\ \A i \in (Len(fs) + 1)..Len(gs) : gs[i] \in S

\* One frame behind the others, ...
LEMMA BehindOne ==
  ASSUME NEW T, NEW fs \in Seq(T), NEW f
  PROVE  Behind({f}, fs, Append(fs, f)) /\ Append(fs, f) \in Seq(T \cup {f})
  <1> DEFINE n == Len(fs)
             t == Append(fs, f)
  <1>1. n \in Nat /\ Len(t) = n + 1 /\ (\A i \in 1..n : t[i] = fs[i]) /\ t[n + 1] = f
    OBVIOUS
  <1>2. t \in Seq(T \cup {f})
    OBVIOUS
  <1> HIDE DEF t
  <1>3. Behind({f}, fs, t)
    BY SMT, <1>1 DEF Behind
  <1> QED BY <1>2, <1>3 DEF t

\* ... and more behind it.
LEMMA BehindTwice ==
  ASSUME NEW R, NEW S, NEW T, NEW fs \in Seq(T), NEW gs \in Seq(T), NEW hs \in Seq(T),
         Behind(R, fs, gs), Behind(S, gs, hs)
  PROVE  Behind(R \cup S, fs, hs)
  <1> DEFINE x == Len(fs)
             y == Len(gs)
             z == Len(hs)
  <1>1. /\ x \in Nat /\ y \in Nat /\ z \in Nat /\ y >= x /\ z >= y
        /\ \A i \in 1..x : gs[i] = fs[i]
        /\ \A i \in 1..y : hs[i] = gs[i]
        /\ \A i \in (x + 1)..y : gs[i] \in R
        /\ \A i \in (y + 1)..z : hs[i] \in S
    BY DEF Behind
  <1> HIDE DEF x, y, z
  <1>2. z >= x /\ \A i \in 1..x : hs[i] = fs[i]
    BY SMT, <1>1
  <1>3. ASSUME NEW i \in (x + 1)..z PROVE hs[i] \in R \cup S
    <2>1. (i \in 1..y /\ i \in (x + 1)..y) \/ i \in (y + 1)..z
      BY SMT, <1>1
    <2> QED BY <1>1, <2>1
  <1> QED BY <1>2, <1>3 DEF Behind, x, z

\* The broker adds frames behind the others.
Old(k) == k \in Slots(got, sent) /\ At(got', sent', k) = At(got, sent, k)
Added(S, k) == At(got', sent', k) \in S /\ \A j \in Slots(got, sent) : j < k
Adds(S) == \A k \in Slots(got', sent') : Old(k) \/ Added(S, k)

\* What is behind the frames on the way has been added to them.
LEMMA AddsBehind ==
  ASSUME sent \in Seq(SentFrames), sent' \in Seq(SentFrames), UNCHANGED got,
         NEW S, Behind(S, sent, sent')
  PROVE  Adds(S)
  <1> DEFINE n == Len(sent)
             m == Len(sent')
  <1>1. /\ n \in Nat /\ m \in Nat /\ m >= n /\ (\A i \in 1..n : sent'[i] = sent[i])
        /\ \A i \in (n + 1)..m : sent'[i] \in S
    BY DEF Behind
  <1> SUFFICES ASSUME NEW k \in Slots(got', sent') PROVE Old(k) \/ Added(S, k)
    BY DEF Adds
  <1>2. k \in Nat /\ k <= m /\ (k = 0 => got # NoFrame)
    BY SMT, <1>1 DEF Slots
  <1>3. CASE k = 0
    BY SMT, <1>1, <1>2, <1>3 DEF Old, Slots, At
  <1>4. CASE k # 0 /\ k <= n
    BY SMT, <1>1, <1>2, <1>4 DEF Old, Slots, At
  <1>5. CASE k > n
    <2>1. sent'[k] \in S /\ k # 0
      BY SMT, <1>1, <1>2, <1>5
    <2>2. \A j \in Slots(got, sent) : j < k
      BY SMT, <1>1, <1>2, <1>5 DEF Slots
    <2> QED BY <2>1, <2>2 DEF Added, At
  <1> QED BY SMT, <1>1, <1>2, <1>3, <1>4, <1>5

\* One frame, which is the last.
AddsLast(f) == Adds({f}) /\ \A j, k \in Slots(got', sent') : Added({f}, j) /\ Added({f}, k) => j = k

\* One frame is added.
LEMMA AddsOne ==
  ASSUME sent \in Seq(SentFrames), UNCHANGED got, NEW f \in SentFrames,
         sent' = Append(sent, f)
  PROVE  AddsLast(f)
  <1>1. sent' \in Seq(SentFrames) /\ Len(sent') = Len(sent) + 1 /\ Len(sent) \in Nat
    OBVIOUS
  <1>2. Adds({f})
    BY <1>1, BehindOne, AddsBehind
  <1>3. ASSUME NEW j \in Slots(got', sent'), Added({f}, j)
        PROVE  j = Len(sent) + 1 \/ (Len(sent) = 0 /\ got = NoFrame)
    <2>1. CASE Len(sent) # 0
      <3>1. Len(sent) \in Slots(got, sent)
        BY SMT, <1>1, <2>1 DEF Slots
      <3> QED BY SMT, <1>1, <1>3, <3>1 DEF Added, Slots
    <2>2. CASE Len(sent) = 0 /\ got # NoFrame
      <3>1. 0 \in Slots(got, sent)
        BY SMT, <2>2 DEF Slots
      <3> QED BY SMT, <1>1, <1>3, <2>2, <3>1 DEF Added, Slots
    <2> QED BY <2>1, <2>2
  <1>4. ASSUME NEW j \in Slots(got', sent'), Len(sent) = 0, got = NoFrame PROVE j = 1
    BY SMT, <1>1, <1>4 DEF Slots
  <1> QED BY <1>2, <1>3, <1>4 DEF AddsLast

\* Three frames are added.
LEMMA AddsThree ==
  ASSUME sent \in Seq(SentFrames), UNCHANGED got,
         NEW f \in SentFrames, NEW g \in SentFrames, NEW h \in SentFrames,
         sent' = Append(Append(Append(sent, f), g), h)
  PROVE  Adds({f, g, h})
  <1> DEFINE a == Append(sent, f)
             b == Append(a, g)
             c == Append(b, h)
  <1>1. a \in Seq(SentFrames) /\ Behind({f}, sent, a)
    BY BehindOne
  <1> HIDE DEF a
  <1>2. b \in Seq(SentFrames) /\ Behind({g}, a, b)
    BY <1>1, BehindOne
  <1> HIDE DEF b
  <1>3. c \in Seq(SentFrames) /\ Behind({h}, b, c)
    BY <1>2, BehindOne
  <1>4. sent' = c
    BY DEF a, b
  <1> HIDE DEF c
  <1>5. Behind({f} \cup {g}, sent, b)
    BY <1>1, <1>2, BehindTwice
  <1>6. Behind(({f} \cup {g}) \cup {h}, sent, c)
    BY <1>2, <1>3, <1>5, BehindTwice
  <1>7. ({f} \cup {g}) \cup {h} = {f, g, h}
    OBVIOUS
  <1> QED BY <1>3, <1>4, <1>6, <1>7, AddsBehind

\* What a step of the client does to its call and the mail.
Same == conn'.frame_max = conn.frame_max
Stay == UNCHANGED callVars /\ (Same \/ pc = "none")
OpenStep ==
    /\ pc \in {"start", "tune", "open"} /\ Open
    /\ pc # "tune" => Same
GiveUp ==
    /\ Same /\ UNCHANGED mail
    /\ \/ pc = "rpc" /\ Return("library", NoFrame) /\ late' = TRUE
       \/ pc = "frame" /\ Return("error", NoFrame) /\ UNCHANGED late
TakenOff == got # NoFrame /\ got' = NoFrame /\ UNCHANGED sent
StartOk ==
    /\ pc = "start" /\ pc' = "tune" /\ UNCHANGED <<call, ret, late>> /\ Same
    /\ Post(Message(0, "connection_start_ok", 0, {}, FALSE)) /\ TakenOff
TuneOk ==
    /\ pc = "tune" /\ pc' = "open" /\ UNCHANGED <<call, ret, late>>
    /\ Post(Message(0, "connection_tune_ok", conn'.frame_max, {}, FALSE))
Aborts ==
    /\ pc \in {"start", "tune"} /\ got # NoFrame /\ ~IsExpected(got) /\ pc' = "abort"
    /\ UNCHANGED <<call, ret, mail, late>> /\ Same
Ended ==
    /\ pc = "rpc" /\ Ends(got) /\ TakenOff /\ UNCHANGED <<mail, late>> /\ Same
    /\ Return(IF got.id \in Numbers(call.replies) THEN "normal" ELSE "server", got)
Shows ==
    /\ pc \in {"frame", "idle"} /\ UNCHANGED <<mail, late>> /\ Same
    /\ \E f : Return("frame", f)
Prepares ==
    /\ pc \in {"none", "fresh", "connected"} /\ pc' \in {"fresh", "connected", "closed"}
    /\ UNCHANGED <<call, ret, mail, late>>
LogsIn ==
    /\ pc = "connected" /\ pc' = "start" /\ call' = [NoCall EXCEPT !.login = TRUE]
    /\ Post(Message(0, "AMQP", 0, {}, FALSE)) \/ UNCHANGED mail
    /\ UNCHANGED <<ret, late>> /\ Same
Asks ==
    /\ pc = "idle" /\ Same /\ UNCHANGED late
    /\ \/ \E q \in Requests : \E n \in Number :
             /\ call' = [NoCall EXCEPT !.channel = ChannelOf(q), !.replies = q.replies,
                                      !.no = n]
             /\ Post(Message(ChannelOf(q), q.request, n, q.replies, Nowait(q)))
             /\ pc' = "rpc" /\ ret' = NoRet
       \/ Return("library", NoFrame) /\ UNCHANGED mail
       \/ pc' = "frame" /\ ret' = NoRet /\ UNCHANGED <<call, mail>>
ClientStep ==
    \/ Stay \/ OpenStep \/ GiveUp \/ StartOk \/ TuneOk \/ Aborts \/ Ended \/ Shows
    \/ Prepares \/ LogsIn \/ Asks

Breaking == broken' => broken \/ (sent # << >> /\ Head(sent) = Unknown)

\* A wait that fails.
LEMMA FailsKinds ==
  ASSUME WaitFails, Same
  PROVE  ClientStep
  BY DEF WaitFails, ClientStep, OpenStep, GiveUp

\* The steps of wait_frame_inner.
LEMMA ReceiveKinds ==
  ASSUME MInv, StreamInv, HandleInput \/ Receive
  PROVE  ClientStep /\ Breaking /\ UNCHANGED peerVars
  <1>1. CASE HandleInput
    <2>1. Same /\ (Breaks \/ Waits \/ Delivers)
      BY <1>1, HandleInputStep DEF Same
    <2>2. UNCHANGED peerVars
      BY <1>1 DEF HandleInput
    <2>3. Breaking
      BY <2>1 DEF Breaking, Breaks, Waits, Delivers
    <2>4. ClientStep
      BY <2>1, FailsKinds DEF Breaks, Waits, Delivers, ClientStep, Stay
    <2> QED BY <2>2, <2>3, <2>4
  <1>2. CASE \E n \in Chunks \cup {Len(net)} : Read(n)
    <2>1. PICK n \in Chunks \cup {Len(net)} : Read(n)
      BY <1>2
    <2>2. n \in Nat
      BY ConnAssumption DEF StreamInv, StreamTypes
    <2>3. Same /\ UNCHANGED <<callVars, broken, peerVars>>
      BY <2>1, <2>2, ReadStep DEF Same
    <2> QED BY <2>3 DEF ClientStep, Stay, Breaking
  <1>3. CASE ReadEOF \/ ReadError
    <2>1. Same /\ UNCHANGED <<broken, peerVars>> /\ WaitFails
      BY <1>3 DEF ReadEOF, ReadError, Same
    <2> QED BY <2>1, FailsKinds DEF Breaking
  <1> QED BY <1>1, <1>2, <1>3 DEF Receive

\* The steps of its callers.
LEMMA DispatchKinds ==
  ASSUME MInv, StreamInv, Dispatch
  PROVE  ClientStep /\ Breaking /\ UNCHANGED peerVars
  <1>1. Quiet
    BY DispatchQuiet
  <1>2. Breaking
    BY <1>1 DEF Quiet, Breaking
  <1>3. UNCHANGED peerVars
    BY DEF Dispatch, Abort, LoginStart, LoginTune, LoginOpen, RpcEnds, RpcQueues,
       FrameReturned, Taken, Advance, peerVars
  <1>4. Same \/ pc \in {"none", "tune"}
    BY <1>1 DEF Quiet, Same
  <1>5. CASE Abort
    BY <1>2, <1>3, <1>5 DEF Abort, Same, ClientStep, Aborts
  <1>6. CASE LoginStart
    <2>1. pc = "start" /\ Same
      BY <1>4, <1>6 DEF LoginStart
    <2>2. \/ Open
          \/ /\ pc' = "tune" /\ UNCHANGED <<call, ret, late>> /\ TakenOff
             /\ Post(Message(0, "connection_start_ok", 0, {}, FALSE))
      BY <1>6 DEF LoginStart, Advance, Taken, TakenOff, streamVars
    <2>3. OpenStep \/ StartOk
      BY <2>1, <2>2 DEF OpenStep, StartOk
    <2> QED BY <1>2, <1>3, <2>3 DEF ClientStep
  <1>7. CASE LoginTune
    <2> DEFINE n == Negotiated(got.arg)
               t == amqp_tune_connection(conn, heap, n)
               e == Recycled(t.conn, t.heap)
    <2>1. /\ pc = "tune"
          /\ \/ Open
             \/ /\ Advance(e) /\ pc' = "open" /\ UNCHANGED <<call, ret, late>>
                /\ Post(Message(0, "connection_tune_ok", t.conn.frame_max, {}, FALSE))
      BY <1>7 DEF LoginTune
    <2>2. IsConn(conn) /\ ConnMem(conn, heap) /\ conn.outbound # 0
      BY <2>1 DEF MInv, MemorySound, ConnectionMade
    <2>3. n \in Sizes
      BY <1>7, TuneProposes, NegotiatedFacts DEF LoginTune
    <2>4. n \in Nat \ {0}
      BY SMT, <2>3 DEF Sizes, Number, MinFrame
    <2> HIDE DEF n
    <2>5. IsConn(t.conn) /\ ConnMem(t.conn, t.heap)
      BY <2>2, <2>4, TuneFacts
    <2> HIDE DEF t
    <2>6. e.conn.frame_max = t.conn.frame_max
      BY <2>5, RecycledFacts DEF Kept
    <2> HIDE DEF e
    <2>7. Advance(e) => conn'.frame_max = t.conn.frame_max
      BY <2>6 DEF Advance
    <2>8. OpenStep \/ TuneOk
      BY <2>1, <2>7 DEF OpenStep, TuneOk
    <2> QED BY <1>2, <1>3, <2>8 DEF ClientStep
  <1>8. CASE LoginOpen
    BY <1>2, <1>3, <1>8 DEF LoginOpen, Same, ClientStep, OpenStep
  <1>9. CASE RpcEnds
    <2>1. Same /\ pc = "rpc"
      BY <1>4, <1>9 DEF RpcEnds
    <2>2. Ended
      BY <1>9, <2>1 DEF RpcEnds, Ended, Taken, TakenOff, streamVars
    <2> QED BY <1>2, <1>3, <2>2 DEF ClientStep
  <1>10. CASE RpcQueues
    BY <1>2, <1>3, <1>4, <1>10 DEF RpcQueues, ClientStep, Stay
  <1>11. CASE FrameReturned
    BY <1>2, <1>3, <1>4, <1>11 DEF FrameReturned, ClientStep, Shows
  <1> QED BY <1>2, <1>3, <1>5, <1>6, <1>7, <1>8, <1>9, <1>10, <1>11 DEF Dispatch

\* The steps of the application, as long as it keeps the connection.
LEMMA ApplicationKinds ==
  ASSUME MInv, OrderInv, StreamInv, Application, ~Gone
  PROVE  ClientStep /\ Breaking /\ UNCHANGED peerVars
  <1>1. Quiet
    BY ApplicationQuiet
  <1>2. Breaking
    BY <1>1 DEF Quiet, Breaking
  <1>3. Same \/ pc \in {"none", "tune"}
    BY <1>1 DEF Quiet, Same
  <1>4. UNCHANGED peerVars
    BY DEF Application, New, Login, WaitFrame, QueuedFrame, MaybeRelease, Destroy, Restart,
       SimpleRpc, Connect, Handshake
  <1>5. CASE \/ New \/ (\E addrs \in Addresses, b \in BOOLEAN : Connect(addrs, b))
             \/ \E v \in BOOLEAN : \E e \in TlsEnds(v) : Handshake(e)
    <2>1. Prepares
      BY <1>5 DEF New, Connect, Handshake, Prepares
    <2> QED BY <1>2, <1>4, <2>1 DEF ClientStep
  <1>6. CASE Login
    <2>1. LogsIn
      BY <1>3, <1>6 DEF Login, LogsIn
    <2> QED BY <1>2, <1>4, <2>1 DEF ClientStep
  <1>7. CASE WaitFrame
    <2>1. Asks
      BY <1>3, <1>7 DEF WaitFrame, Calling, Asks
    <2> QED BY <1>2, <1>4, <2>1 DEF ClientStep
  <1>8. CASE QueuedFrame
    <2>1. Shows
      BY <1>3, <1>8 DEF QueuedFrame, Calling, Shows
    <2> QED BY <1>2, <1>4, <2>1 DEF ClientStep
  <1>9. CASE MaybeRelease
    <2>1. Stay
      BY <1>3, <1>9 DEF MaybeRelease, Stay
    <2> QED BY <1>2, <1>4, <2>1 DEF ClientStep
  <1>10. ASSUME NEW q \in Requests, SimpleRpc(q) PROVE Asks
    <2>1. count.calls + 1 \in Number
      <3>1. count.calls \in Nat /\ count.calls < MaxCalls
        BY <1>10 DEF OrderInv, Counts, SimpleRpc, Calling
      <3>2. MaxCalls \in Number
        BY ConnAssumption
      <3> QED BY SMT, <3>1, <3>2 DEF Number, MaxNumber
    <2>2. pc = "idle" /\ Same /\ UNCHANGED late
      BY <1>3, <1>10 DEF SimpleRpc, Calling
    <2> QED BY <1>10, <2>1, <2>2 DEF SimpleRpc, Asks
  <1>11. CASE Destroy \/ Restart
    BY <1>11 DEF Destroy, Restart
  <1>12. CASE \E q \in Requests : SimpleRpc(q)
    BY <1>2, <1>4, <1>10, <1>12 DEF ClientStep
  <1> QED BY <1>5, <1>6, <1>7, <1>8, <1>9, <1>11, <1>12 DEF Application

\* Every step of the client is one of these, takes frames off only, and leaves the
\* broker alone.
LEMMA ClientKinds ==
  ASSUME MInv, OrderInv, StreamInv, Client \/ Application, ~Gone
  PROVE  ClientStep /\ Moves /\ Breaking /\ UNCHANGED <<broker, odd>>
  BY ReceiveKinds, DispatchKinds, ApplicationKinds, ClientMoves DEF Client, peerVars

\* The call that runs.
CallInv ==
    /\ pc \in {"start", "tune", "open"} => call.login = TRUE
    /\ pc = "rpc" => /\ call.replies \in Replies /\ call.channel \in {0, 1}
                     /\ call.login \in BOOLEAN
    /\ pc = "rpc" /\ call.login =>
          call.channel = 0 /\ call.replies = {"connection_open_ok"} /\ call.no = 0
    /\ pc \in {"idle", "frame"} => call = NoCall

\* The fields of a call.
LEMMA CallFacts ==
  /\ NoCall.login = FALSE /\ NoCall.no = 0
  /\ [NoCall EXCEPT !.login = TRUE].login = TRUE
  /\ LET c == [NoCall EXCEPT !.login = TRUE, !.replies = {"connection_open_ok"}]
     IN  c.login = TRUE /\ c.channel = 0 /\ c.replies = {"connection_open_ok"} /\ c.no = 0
  /\ \A ch, rs, n :
        LET c == [NoCall EXCEPT !.channel = ch, !.replies = rs, !.no = n]
        IN  c.login = FALSE /\ c.channel = ch /\ c.replies = rs /\ c.no = n
  BY DEF NoCall

\* Open either asks the broker to open the virtual host or gives up.
Opens ==
    /\ mail' = Append(mail, OpenMessage) /\ pc' = "rpc" /\ UNCHANGED ret
    /\ call'.login = TRUE /\ call'.channel = 0 /\ call'.no = 0
    /\ call'.replies = {"connection_open_ok"}
Closes == UNCHANGED mail /\ pc' = "closed" /\ call' = NoCall /\ ret'.kind = "library"

\* There is no other way out of Open.
LEMMA OpenWays ==
  ASSUME OpenStep, CallInv
  PROVE  (Opens \/ Closes) /\ UNCHANGED late
  <1>1. call.login = TRUE /\ Open
    BY DEF OpenStep, CallInv
  <1> DEFINE c == [NoCall EXCEPT !.login = TRUE, !.replies = {"connection_open_ok"}]
  <1>2. c.login = TRUE /\ c.channel = 0 /\ c.replies = {"connection_open_ok"} /\ c.no = 0
    BY CallFacts
  <1>3. /\ UNCHANGED late
        /\ \/ mail' = Append(mail, OpenMessage) /\ pc' = "rpc" /\ call' = c /\ UNCHANGED ret
           \/ Return("library", NoFrame) /\ UNCHANGED mail
    BY <1>1 DEF Open, Post, OpenMessage
  <1> HIDE DEF c
  <1>4. Return("library", NoFrame) => pc' = "closed" /\ call' = NoCall /\ ret'.kind = "library"
    BY <1>1 DEF Return
  <1> QED BY <1>2, <1>3, <1>4 DEF Opens, Closes

\* The client keeps its call in order.
LEMMA NextCall ==
  ASSUME CallInv, ClientStep
  PROVE  CallInv'
  <1>1. CASE Stay
    BY <1>1 DEF Stay, CallInv, callVars
  <1>2. CASE OpenStep
    BY <1>2, OpenWays, RepliesFacts DEF Opens, Closes, CallInv
  <1>3. CASE GiveUp \/ Ended \/ Shows
    BY <1>3 DEF GiveUp, Ended, Shows, Return, CallInv
  <1>4. CASE StartOk \/ TuneOk \/ Aborts \/ Prepares
    BY <1>4 DEF StartOk, TuneOk, Aborts, Prepares, CallInv
  <1>5. CASE LogsIn
    BY <1>5, CallFacts DEF LogsIn, CallInv
  <1>6. CASE Asks
    <2>1. CASE \E q \in Requests : \E n \in Number :
             /\ call' = [NoCall EXCEPT !.channel = ChannelOf(q), !.replies = q.replies,
                                      !.no = n]
             /\ pc' = "rpc"
      <3>1. PICK q \in Requests, n \in Number :
             /\ call' = [NoCall EXCEPT !.channel = ChannelOf(q), !.replies = q.replies,
                                      !.no = n]
             /\ pc' = "rpc"
        BY <2>1
      <3>2. /\ call'.login = FALSE /\ call'.channel = ChannelOf(q)
            /\ call'.replies = q.replies
        BY <3>1, CallFacts
      <3> QED BY <3>1, <3>2, RepliesFacts DEF CallInv, ChannelOf
    <2>2. CASE Return("library", NoFrame)
      BY <2>2 DEF Return, CallInv
    <2>3. CASE pc' = "frame" /\ UNCHANGED call
      BY <1>6, <2>3 DEF Asks, CallInv
    <2> QED BY <1>6, <2>1, <2>2, <2>3 DEF Asks
  <1> QED BY <1>1, <1>2, <1>3, <1>4, <1>5, <1>6 DEF ClientStep

-----------------------------------------------------------------------------
\* The login and the broker.

Early == {"none", "fresh", "connected", "start", "tune"}
IsA(f, m) == f.type = AMQP_FRAME_METHOD /\ f.id = MethodNumber(m)
LoginMessage(m) ==
    \/ m = OpenMessage
    \/ m.replies = {} /\ m.method \in {"AMQP", "connection_start_ok", "connection_tune_ok"}

\* A connection.tune_ok that the broker will still accept holds the frame_max of the
\* connection, and so does a broker that has accepted it; before the virtual host is
\* open there is nothing but the login in the mail.
TuneInv ==
    broker.at \in {"header", "start", "tune"} =>
        \A i \in 1..Len(mail) : mail[i].method = "connection_tune_ok" =>
            pc \notin Early /\ mail[i].arg = conn.frame_max
AgreedInv ==
    broker.at \in {"open", "ready"} \/ broker.opened =>
        pc \notin Early /\ broker.frame_max = conn.frame_max
StageInv ==
    /\ broker.at = "ready" => broker.opened
    /\ broker.at \in {"header", "start", "tune", "open"} => ~broker.opened
    /\ ~broker.opened => \A i \in 1..Len(mail) : LoginMessage(mail[i])
OpenedInv ==
    /\ \A k \in Slots(got, sent) :
          IsA(At(got, sent, k), "connection_open_ok") => broker.opened
    /\ pc \in {"idle", "frame"} \/ (pc = "rpc" /\ ~call.login) => broker.opened
OpenInv == CallInv /\ TuneInv /\ AgreedInv /\ StageInv /\ OpenedInv

\* Mail grows at its end and is read at its beginning.
LEMMA MailAppend ==
  ASSUME NEW S, NEW s \in Seq(S), NEW m
  PROVE  /\ Len(Append(s, m)) = Len(s) + 1
         /\ \A i \in 1..Len(Append(s, m)) :
               \/ i \in 1..Len(s) /\ Append(s, m)[i] = s[i]
               \/ i = Len(s) + 1 /\ Append(s, m)[i] = m
  <1> DEFINE n == Len(s)
             t == Append(s, m)
  <1>1. n \in Nat /\ Len(t) = n + 1 /\ (\A i \in 1..n : t[i] = s[i]) /\ t[n + 1] = m
    OBVIOUS
  <1> HIDE DEF n, t
  <1>2. \A i \in 1..(n + 1) : (i \in 1..n /\ t[i] = s[i]) \/ (i = n + 1 /\ t[i] = m)
    BY SMT, <1>1
  <1> QED BY <1>1, <1>2 DEF n, t

\* ... and the rest of it.
LEMMA MailTail ==
  ASSUME NEW S, NEW s \in Seq(S), s # << >>
  PROVE  /\ 1 \in 1..Len(s) /\ Head(s) = s[1]
         /\ \A i \in 1..Len(Tail(s)) :
               i + 1 \in 1..Len(s) /\ Tail(s)[i] = s[i + 1] /\ i + 1 # 1
  <1> DEFINE n == Len(s)
             t == Tail(s)
  <1>1. n \in Nat /\ n >= 1 /\ Len(t) = n - 1 /\ (\A i \in 1..(n - 1) : t[i] = s[i + 1])
        /\ Head(s) = s[1]
    BY SMT
  <1> HIDE DEF n, t
  <1>2. 1 \in 1..n /\ \A i \in 1..(n - 1) : i + 1 \in 1..n /\ t[i] = s[i + 1] /\ i + 1 # 1
    BY SMT, <1>1
  <1> QED BY <1>1, <1>2 DEF n, t

-----------------------------------------------------------------------------
\* What a step of the broker does to the frames on the way and to the mail.

IsReply(f) == f.type = AMQP_FRAME_METHOD /\ f.id \in MethodNumbers \ Numbers(Unasked)
Plain(f) ==
    /\ f # Unknown /\ ~IsReply(f)
    /\ ~IsA(f, "channel_close") /\ ~IsA(f, "connection_close")
Start8 == MethodFrame(0, "connection_start", ProtocolMajor)

\* Which of the frames of a broker answer a call.
LEMMA UnaskedNumbers ==
  /\ MethodNumber("basic_return") \in Numbers(Unasked)
  /\ MethodNumber("channel_close") \in Numbers(Unasked)
  /\ MethodNumber("connection_close") \in Numbers(Unasked)
  /\ MethodNumber("connection_start") \in Numbers(Unasked)
  /\ MethodNumber("connection_tune") \in Numbers(Unasked)
  BY DEF Numbers, Unasked

\* A reply is none of what comes unasked.
LEMMA ReplyNumbers ==
  ASSUME NEW ms \in Replies, NEW id \in Numbers(ms)
  PROVE  /\ id \in MethodNumbers \ Numbers(Unasked)
         /\ id # MethodNumber("channel_close") /\ id # MethodNumber("connection_close")
  <1>1. id \in MethodNumbers /\ id \notin Numbers(Unasked)
    BY DEF Replies, Numbers, MethodNumbers
  <1> QED BY <1>1, UnaskedNumbers

\* connection.open_ok is a reply.
LEMMA OpenOkReplies ==
  ASSUME NEW f, IsA(f, "connection_open_ok")
  PROVE  IsReply(f)
  <1>1. MethodNumber("connection_open_ok") \in Numbers({"connection_open_ok"})
    BY DEF Numbers
  <1> QED BY <1>1, RepliesFacts, ReplyNumbers DEF IsA, IsReply

\* The frame nobody knows is neither a reply nor a close.
LEMMA NotUnknown ==
  /\ ~IsReply(Unknown) /\ ~IsA(Unknown, "channel_close") /\ ~IsA(Unknown, "connection_close")
  /\ \A f \in SoundFrames : f # Unknown
  <1>1. Unknown.id = 5
    BY DEF Unknown, MethodFrame
  <1>2. \A n \in MethodNumbers : n # 5
    <2>1. \A m \in Methods : MethodNumber(m) # 5
      BY SMT, MethodNumbersOK DEF Number
    <2> QED BY <2>1 DEF MethodNumbers, Numbers
  <1>3. MethodNumber("channel_close") # 5 /\ MethodNumber("connection_close") # 5
    BY <1>2, Known DEF MethodNumbers, Numbers
  <1>4. \A f \in SoundFrames : f # Unknown
    BY UnknownFacts
  <1> QED BY <1>1, <1>2, <1>3, <1>4 DEF IsReply, IsA

\* The fields of a method frame.
LEMMA MethodFields ==
  ASSUME NEW ch, NEW m, NEW n
  PROVE  /\ MethodFrame(ch, m, n).type = AMQP_FRAME_METHOD
         /\ MethodFrame(ch, m, n).channel = ch /\ MethodFrame(ch, m, n).arg = n
         /\ MethodFrame(ch, m, n).id = MethodNumber(m)
  BY DEF MethodFrame

\* Frames of the login, and returned messages, answer no call.
LEMMA PlainMethods ==
  ASSUME NEW ch, NEW n, NEW m \in {"basic_return", "connection_start", "connection_tune"},
         MethodFrame(ch, m, n) \in SoundFrames
  PROVE  Plain(MethodFrame(ch, m, n))
  BY MethodFields, UnaskedNumbers, Different, NotUnknown DEF Plain, IsReply, IsA

\* Neither does what is not a method.
LEMMA PlainOthers ==
  ASSUME NEW t, NEW ch, NEW n, t # AMQP_FRAME_METHOD
  PROVE  Plain(OtherFrame(t, ch, n))
  BY Types DEF Plain, IsReply, IsA, OtherFrame, Unknown, MethodFrame

\* The broker goes to another stage.
To(at) ==
    /\ broker'.at = at /\ broker'.frame_max = broker.frame_max
    /\ broker'.opened = broker.opened /\ broker'.closing = broker.closing

\* The fields of the broker.
LEMMA StageFacts ==
  ASSUME broker \in Brokers
  PROVE  /\ \A s : broker' = [broker EXCEPT !.at = s] => To(s)
         /\ \A n : broker' = [broker EXCEPT !.at = "open", !.frame_max = n] =>
               /\ broker'.at = "open" /\ broker'.frame_max = n
               /\ broker'.opened = broker.opened /\ broker'.closing = broker.closing
         /\ broker' = [broker EXCEPT !.at = "ready", !.opened = TRUE] =>
               /\ broker'.at = "ready" /\ broker'.frame_max = broker.frame_max
               /\ broker'.opened = TRUE /\ broker'.closing = broker.closing
         /\ broker' = [broker EXCEPT !.closing = TRUE] =>
               /\ broker'.at = broker.at /\ broker'.frame_max = broker.frame_max
               /\ broker'.opened = broker.opened /\ broker'.closing = TRUE
  BY DEF Brokers, To

Reads == mail # << >> /\ mail' = Tail(mail) /\ broker.at # "gone"
Starts ==
    /\ Reads /\ broker.at = "header" /\ Head(mail).method = "AMQP"
    /\ To("start") /\ UNCHANGED odd /\ AddsLast(Start8)
Tunes ==
    /\ Reads /\ broker.at = "start" /\ Head(mail).method = "connection_start_ok"
    /\ To("tune") /\ UNCHANGED odd
    /\ \E n \in ServerFrameMax : AddsLast(MethodFrame(0, "connection_tune", n))
Accepts ==
    /\ Reads /\ broker.at = "tune" /\ Head(mail).method = "connection_tune_ok"
    /\ broker'.at = "open" /\ broker'.frame_max = Head(mail).arg
    /\ broker'.opened = broker.opened /\ broker'.closing = broker.closing
    /\ UNCHANGED <<sent, odd>>
Welcomes ==
    /\ Reads /\ broker.at = "open" /\ Head(mail).method = "connection_open"
    /\ broker'.at = "ready" /\ broker'.frame_max = broker.frame_max
    /\ broker'.opened = TRUE /\ broker'.closing = broker.closing
    /\ UNCHANGED odd /\ AddsLast(MethodFrame(0, "connection_open_ok", 0))
Answers ==
    /\ Reads /\ broker.at = "ready" /\ (To("ready") \/ To("gone")) /\ UNCHANGED odd
    /\ \/ UNCHANGED sent
       \/ /\ ~Head(mail).nowait /\ ~(broker.closing /\ Head(mail).channel = 1)
          /\ \E m \in Head(mail).replies :
                AddsLast(MethodFrame(Head(mail).channel, m, Head(mail).arg))
Leaves == UNCHANGED sent \/ AddsLast(Close) \/ \E f : Plain(f) /\ AddsLast(f)
Refuses ==
    /\ Reads /\ To("gone") /\ Leaves
    /\ Follows(Head(mail)) \/ odd => odd' = TRUE
Pushes ==
    /\ broker.at \in {"open", "ready"} /\ UNCHANGED <<mail, broker, odd>>
    /\ \E S : (\A f \in S : Plain(f)) /\ Adds(S)
ShutsChannel ==
    /\ broker.at = "ready" /\ UNCHANGED <<mail, odd>>
    /\ broker'.at = broker.at /\ broker'.frame_max = broker.frame_max
    /\ broker'.opened = broker.opened /\ broker'.closing = TRUE
    /\ AddsLast(MethodFrame(1, "channel_close", 0))
Shuts == broker.at = "ready" /\ UNCHANGED <<mail, odd>> /\ To("gone") /\ Leaves
Errs ==
    /\ broker.at # "gone" /\ UNCHANGED <<mail, broker>> /\ odd' = TRUE
    /\ AddsLast(Unknown)

BrokerStep ==
    /\ UNCHANGED <<conn, pc, call, ret, late, got, broken>>
    /\ \/ Starts \/ Tunes \/ Accepts \/ Welcomes \/ Answers \/ Refuses
       \/ Pushes \/ ShutsChannel \/ Shuts \/ Errs

\* The broker sends one frame.
LEMMA SendsLast ==
  ASSUME sent \in Seq(SentFrames), UNCHANGED got, NEW f \in SoundFrames, Sends(f)
  PROVE  AddsLast(f)
  BY SoundWire, AddsOne DEF Sends

\* The broker reads a message.
LEMMA ReadsSteps ==
  ASSUME StreamInv, BrokerReads
  PROVE  BrokerStep
  <1> DEFINE msg == Head(mail)
  <1>1. UNCHANGED <<conn, pc, call, ret, late, got, broken>>
    BY DEF BrokerReads, ToClient, frameVars
  <1>2. /\ sent \in Seq(SentFrames) /\ broker \in Brokers /\ mail \in Seq(Messages)
    BY DEF StreamInv, StreamTypes, PeerTypes
  <1>3. Reads /\ msg \in Messages /\ (Answer(msg) \/ Refuse(msg))
    BY <1>2 DEF BrokerReads, Reads
  <1> HIDE DEF msg
  <1>4. CASE broker.at = "header" /\ Answer(msg)
    <2>1. msg.method = "AMQP" /\ Sends(Start8) /\ Stays("start")
      BY <1>4 DEF Answer, Start8
    <2>2. Start8 \in SoundFrames
      BY LoginFramesSound DEF Start8
    <2>3. AddsLast(Start8)
      BY <1>1, <1>2, <2>1, <2>2, SendsLast
    <2>4. To("start") /\ UNCHANGED odd
      BY <1>2, <2>1, StageFacts DEF Stays
    <2>5. Starts
      BY <1>3, <1>4, <2>1, <2>3, <2>4 DEF Starts, msg
    <2> QED BY <1>1, <2>5 DEF BrokerStep
  <1>5. CASE broker.at = "start" /\ Answer(msg)
    <2>1. PICK n \in ServerFrameMax :
             /\ msg.method = "connection_start_ok"
             /\ Sends(MethodFrame(0, "connection_tune", n)) /\ Stays("tune")
      BY <1>5 DEF Answer
    <2>2. AddsLast(MethodFrame(0, "connection_tune", n))
      BY <1>1, <1>2, <2>1, LoginFramesSound, SendsLast
    <2>3. To("tune") /\ UNCHANGED odd
      BY <1>2, <2>1, StageFacts DEF Stays
    <2>4. Tunes
      BY <1>3, <1>5, <2>1, <2>2, <2>3 DEF Tunes, msg
    <2> QED BY <1>1, <2>4 DEF BrokerStep
  <1>6. CASE broker.at = "tune" /\ Answer(msg)
    <2>1. /\ msg.method = "connection_tune_ok" /\ UNCHANGED <<sent, odd>>
          /\ broker' = [broker EXCEPT !.at = "open", !.frame_max = msg.arg]
      BY <1>6 DEF Answer
    <2>2. /\ broker'.at = "open" /\ broker'.frame_max = msg.arg
          /\ broker'.opened = broker.opened /\ broker'.closing = broker.closing
      BY <1>2, <2>1, StageFacts
    <2>3. Accepts
      BY <1>3, <1>6, <2>1, <2>2 DEF Accepts, msg
    <2> QED BY <1>1, <2>3 DEF BrokerStep
  <1>7. CASE broker.at = "open" /\ Answer(msg)
    <2>1. /\ msg.method = "connection_open" /\ UNCHANGED odd
          /\ Sends(MethodFrame(0, "connection_open_ok", 0))
          /\ broker' = [broker EXCEPT !.at = "ready", !.opened = TRUE]
      BY <1>7 DEF Answer
    <2>2. /\ broker'.at = "ready" /\ broker'.frame_max = broker.frame_max
          /\ broker'.opened = TRUE /\ broker'.closing = broker.closing
      BY <1>2, <2>1, StageFacts
    <2>3. AddsLast(MethodFrame(0, "connection_open_ok", 0))
      BY <1>1, <1>2, <2>1, LoginFramesSound, SendsLast
    <2>4. Welcomes
      BY <1>3, <1>7, <2>1, <2>2, <2>3 DEF Welcomes, msg
    <2> QED BY <1>1, <2>4 DEF BrokerStep
  <1>8. CASE broker.at = "ready" /\ Answer(msg)
    <2>1. /\ Stays("gone") \/ Stays("ready")
          /\ IF msg.nowait \/ (broker.closing /\ msg.channel = 1)
             THEN UNCHANGED <<net, sent>>
             ELSE \E m \in msg.replies : Sends(MethodFrame(msg.channel, m, msg.arg))
      BY <1>8 DEF Answer
    <2>2. \A m \in msg.replies : MethodFrame(msg.channel, m, msg.arg) \in SoundFrames
      BY <1>3, ReplySound DEF Messages
    <2>3. \/ UNCHANGED sent
          \/ /\ ~msg.nowait /\ ~(broker.closing /\ msg.channel = 1)
             /\ \E m \in msg.replies : AddsLast(MethodFrame(msg.channel, m, msg.arg))
      BY <1>1, <1>2, <2>1, <2>2, SendsLast
    <2>4. (To("ready") \/ To("gone")) /\ UNCHANGED odd
      BY <1>2, <2>1, StageFacts DEF Stays
    <2>5. Answers
      BY <1>3, <1>8, <2>3, <2>4 DEF Answers, msg
    <2> QED BY <1>1, <2>5 DEF BrokerStep
  <1>9. CASE Refuse(msg)
    <2> DEFINE v == OtherFrame(AMQP_PSEUDOFRAME_PROTOCOL_HEADER,
                               AMQP_PSEUDOFRAME_PROTOCOL_CHANNEL, 9)
               w == MethodFrame(0, "connection_start", 9)
    <2>1. v \in SoundFrames /\ w \in SoundFrames /\ Close \in SoundFrames
      BY LoginFramesSound, PushedSound
    <2>2. Plain(v) /\ Plain(w)
      BY <2>1, PlainMethods, PlainOthers, Types
    <2>3. UNCHANGED sent \/ Sends(Close) \/ Sends(v) \/ Sends(w)
      BY <1>9 DEF Refuse
    <2> HIDE DEF v, w
    <2>4. Leaves
      BY <1>1, <1>2, <2>1, <2>2, <2>3, SendsLast DEF Leaves
    <2>5. To("gone") /\ (Follows(msg) \/ odd => odd' = TRUE)
      BY <1>2, <1>9, StageFacts DEF Refuse
    <2>6. Refuses
      BY <1>3, <2>4, <2>5 DEF Refuses, msg
    <2> QED BY <1>1, <2>6 DEF BrokerStep
  <1> QED BY <1>3, <1>4, <1>5, <1>6, <1>7, <1>8, <1>9 DEF Answer

\* Every step of the broker is one of these.
LEMMA BrokerSteps ==
  ASSUME OrderInv, StreamInv, Broker
  PROVE  BrokerStep
  <1>1. UNCHANGED <<conn, pc, call, ret, late, got, broken>>
    BY DEF Broker, BrokerReads, BrokerPushes, BrokerCloses, BrokerErrs, Pushing, ToClient,
           frameVars
  <1>2. /\ sent \in Seq(SentFrames) /\ broker \in Brokers /\ mail \in Seq(Messages)
    BY DEF StreamInv, StreamTypes, PeerTypes
  <1>3. CASE BrokerPushes
    <2>1. count.pushes \in Number
      <3>1. count.pushes \in Nat /\ count.pushes < MaxPushes
        BY <1>3 DEF OrderInv, Counts, BrokerPushes, Pushing
      <3>2. MaxPushes \in Number
        BY ConnAssumption
      <3> QED BY SMT, <3>1, <3>2 DEF Number, MaxNumber
    <2> DEFINE a == MethodFrame(1, "basic_return", 0)
               b == OtherFrame(AMQP_FRAME_HEADER, 1, 0)
               c == OtherFrame(AMQP_FRAME_BODY, 1, count.pushes)
               d == OtherFrame(AMQP_FRAME_HEARTBEAT, 0, 0)
               e == OtherFrame(OddFrame, 0, 0)
    <2>2. {a, b, c, d, e} \subseteq SoundFrames
      BY <2>1, PushedSound
    <2>3. Plain(a) /\ Plain(b) /\ Plain(c) /\ Plain(d) /\ Plain(e)
      BY <2>2, PlainMethods, PlainOthers, Types
    <2>4. /\ broker.at \in {"open", "ready"} /\ UNCHANGED <<mail, broker, odd>>
          /\ \/ sent' = Append(Append(Append(sent, a), b), c)
             \/ Sends(d) \/ Sends(e)
      BY <1>3 DEF BrokerPushes, Pushing, peerVars
    <2> HIDE DEF a, b, c, d, e
    <2>5. \A f \in {a, b, c, d, e} : f \in SentFrames
      BY <2>2, SoundWire
    <2>6. Adds({a, b, c}) \/ Adds({d}) \/ Adds({e})
      BY <1>1, <1>2, <2>2, <2>4, <2>5, AddsThree, SendsLast DEF AddsLast
    <2>7. Pushes
      BY <2>3, <2>4, <2>6 DEF Pushes
    <2> QED BY <1>1, <2>7 DEF BrokerStep
  <1>4. CASE BrokerCloses
    <2> DEFINE a == MethodFrame(1, "channel_close", 0)
    <2>1. /\ broker.at = "ready" /\ UNCHANGED <<mail, odd>>
          /\ \/ Sends(a) /\ broker' = [broker EXCEPT !.closing = TRUE]
             \/ Sends(Close) /\ broker' = [broker EXCEPT !.at = "gone"]
             \/ UNCHANGED sent /\ broker' = [broker EXCEPT !.at = "gone"]
      BY <1>4 DEF BrokerCloses, Pushing
    <2>2. a \in SoundFrames /\ Close \in SoundFrames
      BY PushedSound
    <2>3. CASE Sends(a) /\ broker' = [broker EXCEPT !.closing = TRUE]
      <3>1. AddsLast(a)
        BY <1>1, <1>2, <2>2, <2>3, SendsLast
      <3>2. ShutsChannel
        BY <1>2, <2>1, <2>3, <3>1, StageFacts DEF ShutsChannel
      <3> QED BY <1>1, <3>2 DEF BrokerStep
    <2>4. CASE (Sends(Close) \/ UNCHANGED sent) /\ broker' = [broker EXCEPT !.at = "gone"]
      <3>1. Leaves
        BY <1>1, <1>2, <2>2, <2>4, SendsLast DEF Leaves
      <3>2. Shuts
        BY <1>2, <2>1, <2>4, <3>1, StageFacts DEF Shuts
      <3> QED BY <1>1, <3>2 DEF BrokerStep
    <2> QED BY <2>1, <2>3, <2>4
  <1>5. CASE BrokerErrs
    <2>1. /\ sent' = Append(sent, Unknown) /\ Unknown \in SentFrames /\ odd' = TRUE
          /\ UNCHANGED <<mail, broker>> /\ broker.at # "gone"
      BY <1>5 DEF BrokerErrs, SentFrames, Pushing
    <2>2. AddsLast(Unknown)
      BY <1>1, <1>2, <2>1, AddsOne
    <2>3. Errs
      BY <2>1, <2>2 DEF Errs
    <2> QED BY <1>1, <2>3 DEF BrokerStep
  <1> QED BY <1>3, <1>4, <1>5, ReadsSteps DEF Broker

-----------------------------------------------------------------------------
\* OpenInv.

\* After the login frame_max stays as it is.
LEMMA Settled ==
  ASSUME ClientStep, CallInv, pc \notin Early
  PROVE  pc' \notin Early /\ Same
  <1>1. CASE OpenStep
    BY <1>1, OpenWays DEF OpenStep, Opens, Closes, Early
  <1>2. CASE GiveUp \/ Ended \/ Shows
    BY <1>2 DEF GiveUp, Ended, Shows, Return, Early
  <1>3. CASE Stay \/ StartOk \/ TuneOk \/ Aborts \/ Prepares \/ LogsIn
    BY <1>3 DEF Stay, callVars, StartOk, TuneOk, Aborts, Prepares, LogsIn, Early
  <1>4. CASE Asks
    BY <1>4 DEF Asks, Return, Early
  <1> QED BY <1>1, <1>2, <1>3, <1>4 DEF ClientStep

\* What is put into the mail.
Posted(m) ==
    \/ broker.opened
    \/ /\ LoginMessage(m)
       /\ m.method = "connection_tune_ok" => pc' = "open" /\ m.arg = conn'.frame_max

\* The messages of the login.
LEMMA LoginPosts ==
  /\ LoginMessage(OpenMessage) /\ OpenMessage.method # "connection_tune_ok"
  /\ \A m \in {"AMQP", "connection_start_ok", "connection_tune_ok"} : \A n :
        /\ LoginMessage(Message(0, m, n, {}, FALSE))
        /\ Message(0, m, n, {}, FALSE).method = m
        /\ Message(0, m, n, {}, FALSE).arg = n
        /\ Message(0, m, n, {}, FALSE).replies = {}
  BY DEF LoginMessage, OpenMessage, Message

\* The client sends nothing but the login until the virtual host is open.
LEMMA ClientPosts ==
  ASSUME ClientStep, OpenInv
  PROVE  mail' = mail \/ \E m : mail' = Append(mail, m) /\ Posted(m)
  <1>1. CASE OpenStep
    BY <1>1, OpenWays, LoginPosts DEF OpenInv, Opens, Closes, Posted
  <1>2. CASE Stay \/ GiveUp \/ Ended \/ Shows \/ Aborts \/ Prepares
    BY <1>2 DEF Stay, callVars, GiveUp, Ended, Shows, Aborts, Prepares
  <1>3. CASE StartOk
    <2> DEFINE m == Message(0, "connection_start_ok", 0, {}, FALSE)
    <2>1. mail' = Append(mail, m) /\ LoginMessage(m) /\ m.method = "connection_start_ok"
      BY <1>3, LoginPosts DEF StartOk, Post
    <2> HIDE DEF m
    <2> QED BY <2>1 DEF Posted
  <1>4. CASE TuneOk
    <2> DEFINE m == Message(0, "connection_tune_ok", conn'.frame_max, {}, FALSE)
    <2>1. mail' = Append(mail, m) /\ LoginMessage(m) /\ m.arg = conn'.frame_max /\ pc' = "open"
      BY <1>4, LoginPosts DEF TuneOk, Post
    <2> HIDE DEF m
    <2> QED BY <2>1 DEF Posted
  <1>5. CASE LogsIn
    <2> DEFINE m == Message(0, "AMQP", 0, {}, FALSE)
    <2>1. LoginMessage(m) /\ m.method = "AMQP"
      BY LoginPosts
    <2>2. mail' = mail \/ mail' = Append(mail, m)
      BY <1>5 DEF LogsIn, Post
    <2> HIDE DEF m
    <2> QED BY <2>1, <2>2 DEF Posted
  <1>6. CASE Asks
    <2>1. broker.opened
      BY <1>6 DEF Asks, OpenInv, OpenedInv
    <2> QED BY <1>6, <2>1 DEF Asks, Posted, Post
  <1> QED BY <1>1, <1>2, <1>3, <1>4, <1>5, <1>6 DEF ClientStep

\* The frame just read is the first on the way.
LEMMA GotSlot ==
  ASSUME sent \in Seq(SentFrames), got # NoFrame
  PROVE  0 \in Slots(got, sent) /\ At(got, sent, 0) = got
  <1>1. Len(sent) \in Nat
    OBVIOUS
  <1> QED BY SMT, <1>1 DEF Slots, At

\* A call ends well, or goes on, only with an open virtual host.
LEMMA ClientOpened ==
  ASSUME ClientStep, OpenInv, sent \in Seq(SentFrames), UNCHANGED broker,
         pc' \in {"idle", "frame"} \/ (pc' = "rpc" /\ ~call'.login)
  PROVE  broker'.opened
  <1>1. CallInv /\ OpenedInv
    BY DEF OpenInv
  <1>2. CASE OpenStep
    BY <1>1, <1>2, OpenWays DEF Opens, Closes
  <1>3. CASE Stay \/ StartOk \/ TuneOk \/ Aborts \/ Prepares \/ LogsIn
    BY <1>1, <1>3 DEF Stay, callVars, StartOk, TuneOk, Aborts, Prepares, LogsIn, OpenedInv
  <1>4. CASE GiveUp
    BY <1>1, <1>4 DEF GiveUp, Return, CallInv, OpenedInv
  <1>5. CASE Shows \/ Asks
    BY <1>1, <1>5 DEF Shows, Asks, OpenedInv
  <1>6. CASE Ended
    <2>1. CASE call.login /\ got.id \in Numbers(call.replies)
      <3>1. got.type = AMQP_FRAME_METHOD /\ got # NoFrame /\ pc = "rpc"
        BY <1>6 DEF Ended, Ends, TakenOff
      <3>2. got.id = MethodNumber("connection_open_ok")
        BY <1>1, <2>1, <3>1 DEF CallInv, Numbers
      <3>3. 0 \in Slots(got, sent) /\ At(got, sent, 0) = got
        BY <3>1, GotSlot
      <3> QED BY <1>1, <3>1, <3>2, <3>3 DEF OpenedInv, IsA
    <2>2. CASE call.login /\ got.id \notin Numbers(call.replies)
      BY <1>6, <2>2 DEF Ended, Return
    <2>3. CASE ~call.login
      BY <1>1, <1>6, <2>3 DEF Ended, OpenedInv
    <2> QED BY <2>1, <2>2, <2>3
  <1> QED BY <1>2, <1>3, <1>4, <1>5, <1>6 DEF ClientStep

\* The client keeps OpenInv.
LEMMA ClientOpen ==
  ASSUME StreamInv, OpenInv, ClientStep, Moves, UNCHANGED broker
  PROVE  OpenInv'
  <1>1. /\ CallInv /\ TuneInv /\ AgreedInv /\ StageInv /\ OpenedInv
        /\ mail \in Seq(Messages) /\ sent \in Seq(SentFrames)
    BY DEF OpenInv, StreamInv, PeerTypes, StreamTypes
  <1>2. CallInv'
    BY <1>1, NextCall
  <1>3. pc \notin Early => pc' \notin Early /\ conn'.frame_max = conn.frame_max
    BY <1>1, Settled DEF Same
  <1>4. AgreedInv'
    BY <1>1, <1>3 DEF AgreedInv
  <1>5. OpenedInv'
    <2>1. PICK d \in {0, 1} : MovesBy(d)
      BY DEF Moves
    <2>2. ASSUME NEW k \in Slots(got', sent'), IsA(At(got', sent', k), "connection_open_ok")
          PROVE  broker'.opened
      <3>1. k + d \in Slots(got, sent) /\ At(got', sent', k) = At(got, sent, k + d)
        BY <2>1 DEF MovesBy
      <3> QED BY <1>1, <2>2, <3>1 DEF OpenedInv
    <2> QED BY <1>1, <2>2, ClientOpened DEF OpenedInv
  <1>6. CASE mail' = mail
    <2>1. TuneInv' /\ StageInv'
      BY <1>1, <1>3, <1>6 DEF TuneInv, StageInv
    <2> QED BY <1>2, <1>4, <1>5, <2>1 DEF OpenInv
  <1>7. ASSUME NEW m, mail' = Append(mail, m), Posted(m) PROVE TuneInv' /\ StageInv'
    <2>1. \A i \in 1..Len(mail') :
            \/ i \in 1..Len(mail) /\ mail'[i] = mail[i]
            \/ i = Len(mail) + 1 /\ mail'[i] = m
      BY <1>1, <1>7, MailAppend
    <2>2. StageInv'
      BY <1>1, <1>7, <2>1 DEF StageInv, Posted
    <2>3. ASSUME broker'.at \in {"header", "start", "tune"}, NEW i \in 1..Len(mail'),
                 mail'[i].method = "connection_tune_ok"
          PROVE  pc' \notin Early /\ mail'[i].arg = conn'.frame_max
      <3>1. CASE i \in 1..Len(mail) /\ mail'[i] = mail[i]
        BY <1>1, <1>3, <2>3, <3>1 DEF TuneInv
      <3>2. CASE mail'[i] = m
        <4>1. ~broker.opened
          BY <1>1, <2>3 DEF StageInv
        <4> QED BY <1>7, <2>3, <3>2, <4>1 DEF Posted, Early
      <3> QED BY <2>1, <3>1, <3>2
    <2>4. TuneInv'
      BY <2>3 DEF TuneInv
    <2> QED BY <2>2, <2>4
  <1> QED BY <1>2, <1>4, <1>5, <1>6, <1>7, ClientPosts DEF OpenInv

\* An answer to connection.open comes from a broker that has opened the host.
LEMMA BrokerOpened ==
  ASSUME StreamInv, StageInv, OpenedInv, BrokerStep, ~Welcomes
  PROVE  /\ broker.opened = broker'.opened /\ OpenedInv'
  <1>1. broker.opened = broker'.opened
    BY DEF BrokerStep, Starts, Tunes, Accepts, Answers, Refuses, Pushes, ShutsChannel, Shuts,
       Errs, To
  <1>2. UNCHANGED <<got, pc, call>>
    BY DEF BrokerStep
  <1>3. CASE UNCHANGED sent
    BY <1>1, <1>2, <1>3 DEF OpenedInv
  <1>4. CASE broker.opened
    BY <1>1, <1>4 DEF OpenedInv
  <1>5. ASSUME NEW S, Adds(S), \A f \in S : ~IsReply(f) PROVE OpenedInv'
    <2>1. ASSUME NEW k \in Slots(got', sent'), IsA(At(got', sent', k), "connection_open_ok")
          PROVE  broker'.opened
      <3>1. Old(k)
        BY <1>5, <2>1, OpenOkReplies DEF Adds, Added
      <3> QED BY <1>1, <2>1, <3>1 DEF Old, OpenedInv
    <2> QED BY <1>1, <1>2, <2>1 DEF OpenedInv
  <1>6. ASSUME NEW f, AddsLast(f), Plain(f) \/ f = Unknown \/ f = Close PROVE OpenedInv'
    <2>1. ~IsReply(Close)
      BY MethodFields, UnaskedNumbers DEF Close, IsReply
    <2>2. ~IsReply(f)
      BY <1>6, <2>1, NotUnknown DEF Plain
    <2>3. Adds({f})
      BY <1>6 DEF AddsLast
    <2> QED BY <1>5, <2>2, <2>3
  <1>7. CASE broker.at = "ready"
    BY <1>4, <1>7 DEF StageInv
  <1>8. CASE Starts \/ Tunes
    <2>1. \E f : AddsLast(f) /\ Plain(f)
      <3>1. Plain(Start8) /\ \A n \in ServerFrameMax : Plain(MethodFrame(0, "connection_tune", n))
        BY LoginFramesSound, PlainMethods DEF Start8
      <3> QED BY <1>8, <3>1 DEF Starts, Tunes
    <2> QED BY <1>1, <1>6, <2>1
  <1>9. CASE Refuses
    BY <1>1, <1>3, <1>6, <1>9 DEF Refuses, Leaves
  <1>10. CASE Pushes
    BY <1>5, <1>10 DEF Pushes, Plain
  <1>11. CASE Errs
    BY <1>6, <1>11 DEF Errs
  <1>12. CASE Answers \/ ShutsChannel \/ Shuts
    BY <1>7, <1>12 DEF Answers, ShutsChannel, Shuts
  <1>13. CASE Accepts
    BY <1>3, <1>13 DEF Accepts
  <1> QED BY <1>1, <1>8, <1>9, <1>10, <1>11, <1>12, <1>13 DEF BrokerStep

\* The broker keeps OpenInv.
LEMMA BrokerOpen ==
  ASSUME StreamInv, OpenInv, BrokerStep
  PROVE  OpenInv'
  <1>1. /\ CallInv /\ TuneInv /\ AgreedInv /\ StageInv /\ OpenedInv
        /\ mail \in Seq(Messages) /\ sent \in Seq(SentFrames) /\ broker \in Brokers
    BY DEF OpenInv, StreamInv, PeerTypes, StreamTypes
  <1>2. UNCHANGED <<conn, pc, call, got>>
    BY DEF BrokerStep
  <1>3. CallInv'
    BY <1>1, <1>2 DEF CallInv
  <1>4. UNCHANGED mail \/ Reads
    BY DEF BrokerStep, Starts, Tunes, Accepts, Welcomes, Answers, Refuses, Pushes,
       ShutsChannel, Shuts, Errs
  <1>5. \A i \in 1..Len(mail') : \E j \in 1..Len(mail) : mail'[i] = mail[j]
    BY <1>1, <1>4, MailTail DEF Reads
  <1>6. Reads => \E j \in 1..Len(mail) : Head(mail) = mail[j]
    BY <1>1, MailTail DEF Reads
  <1>7. CASE Welcomes
    <2>1. /\ broker'.at = "ready" /\ broker'.opened = TRUE
          /\ broker'.frame_max = broker.frame_max /\ broker.at = "open"
      BY <1>7 DEF Welcomes
    <2>2. TuneInv' /\ StageInv' /\ OpenedInv'
      BY <2>1 DEF TuneInv, StageInv, OpenedInv
    <2>3. AgreedInv'
      BY <1>1, <1>2, <2>1 DEF AgreedInv
    <2> QED BY <1>3, <2>2, <2>3 DEF OpenInv
  <1>8. CASE ~Welcomes
    <2>1. broker'.opened = broker.opened /\ OpenedInv'
      BY <1>1, <1>8, BrokerOpened
    <2>2. CASE Accepts
      <3>1. /\ broker'.at = "open" /\ broker.at = "tune" /\ broker'.frame_max = Head(mail).arg
            /\ Head(mail).method = "connection_tune_ok" /\ Reads
        BY <2>2 DEF Accepts
      <3>2. pc \notin Early /\ Head(mail).arg = conn.frame_max
        BY <1>1, <1>6, <3>1 DEF TuneInv
      <3>3. AgreedInv' /\ TuneInv'
        BY <1>2, <3>1, <3>2 DEF AgreedInv, TuneInv
      <3>4. StageInv'
        BY <1>1, <1>5, <2>1, <3>1 DEF StageInv
      <3> QED BY <1>3, <2>1, <3>3, <3>4 DEF OpenInv
    <2>3. CASE ~Accepts
      <3>1. /\ broker'.frame_max = broker.frame_max
            /\ \/ broker'.at = broker.at \/ broker'.at = "gone"
               \/ broker.at = "header" /\ broker'.at = "start"
               \/ broker.at = "start" /\ broker'.at = "tune"
        BY <1>8, <2>3 DEF BrokerStep, Starts, Tunes, Answers, Refuses, Pushes, ShutsChannel,
           Shuts, Errs, To
      <3>2. AgreedInv'
        BY <1>1, <1>2, <2>1, <3>1 DEF AgreedInv
      <3>3. StageInv'
        BY <1>1, <1>5, <2>1, <3>1 DEF StageInv
      <3>4. TuneInv'
        BY <1>1, <1>2, <1>5, <3>1 DEF TuneInv
      <3> QED BY <1>3, <2>1, <3>2, <3>3, <3>4 DEF OpenInv
    <2> QED BY <2>2, <2>3
  <1> QED BY <1>7, <1>8

\* OpenInv holds before a connection and after it, ...
LEMMA InitOpen == (Init => OpenInv) /\ (Gone => OpenInv')
  <1>1. Len(<< >>) = 0 /\ 1..0 = {}
    OBVIOUS
  <1>2. Slots(NoFrame, << >>) = {}
    BY SMT, <1>1 DEF Slots
  <1>3. /\ NoBroker.at = "header" /\ NoBroker.opened = FALSE
    BY DEF NoBroker
  <1>4. Init => OpenInv
    BY <1>1, <1>2, <1>3 DEF Init, OpenInv, CallInv, TuneInv, AgreedInv, StageInv, OpenedInv
  <1>5. Gone => OpenInv'
    BY <1>1, <1>2, <1>3 DEF Gone, OpenInv, CallInv, TuneInv, AgreedInv, StageInv, OpenedInv
  <1> QED BY <1>4, <1>5

\* ... and every step keeps it.
LEMMA NextOpen ==
  ASSUME MInv, OrderInv, StreamInv, OpenInv, [Next]_vars
  PROVE  OpenInv'
  <1>1. CASE Gone
    BY <1>1, InitOpen
  <1>2. CASE (Client \/ Application) /\ ~Gone
    BY <1>2, ClientKinds, ClientOpen
  <1>3. CASE Broker
    BY <1>3, BrokerSteps, BrokerOpen
  <1>4. CASE UNCHANGED vars
    BY <1>4 DEF vars, callVars, streamVars, peerVars, frameVars, OpenInv, CallInv, TuneInv,
       AgreedInv, StageInv, OpenedInv
  <1> QED BY <1>1, <1>2, <1>3, <1>4 DEF Next

-----------------------------------------------------------------------------
\* An honest broker.

Nowhere == Slots(got, sent) = {}
HeaderMessage  == Message(0, "AMQP", 0, {}, FALSE)
StartOkMessage == Message(0, "connection_start_ok", 0, {}, FALSE)

\* Nothing that is not of the protocol is on the way from it, and until the login
\* has sent connection.tune_ok nothing but what the login waits for.
OddInv == \A k \in Slots(got, sent) : At(got, sent, k) = Unknown => odd
FreshInv ==
    pc \in {"none", "fresh", "connected"} => broker.at = "header" /\ Nowhere /\ mail = << >>
StartInv ==
    pc = "start" =>
        \/ broker.at = "header" /\ Nowhere /\ mail \in {<< >>, <<HeaderMessage>>}
        \/ /\ broker.at = "start" /\ mail = << >>
           /\ \A k \in Slots(got, sent) :
                 At(got, sent, k) = Start8 /\ \A j \in Slots(got, sent) : j = k
TuningInv ==
    pc = "tune" =>
        \/ broker.at = "start" /\ Nowhere /\ mail = <<StartOkMessage>>
        \/ /\ broker.at = "tune" /\ mail = << >>
           /\ \A k \in Slots(got, sent) :
                 IsA(At(got, sent, k), "connection_tune") /\ At(got, sent, k).channel = 0
HonestInv ==
    /\ OddInv
    /\ ~odd => ~broken /\ pc # "abort" /\ FreshInv /\ StartInv /\ TuningInv

\* How a client comes to where it is.
LEMMA CameFrom ==
  ASSUME ClientStep, CallInv
  PROVE  /\ pc' \in {"none", "fresh", "connected"} =>
              pc \in {"none", "fresh", "connected"} /\ UNCHANGED mail
         /\ pc' = "start" => (Stay /\ pc = "start") \/ LogsIn
         /\ pc' = "tune" => (Stay /\ pc = "tune") \/ StartOk
         /\ pc' = "abort" => pc = "abort" \/ Aborts
  <1>1. CASE Stay
    BY <1>1 DEF Stay, callVars
  <1>2. CASE OpenStep
    BY <1>2, OpenWays DEF Opens, Closes
  <1>3. CASE GiveUp \/ Ended \/ Shows
    BY <1>3 DEF GiveUp, Ended, Shows, Return
  <1>4. CASE StartOk \/ TuneOk \/ Aborts \/ Prepares \/ LogsIn
    BY <1>4 DEF StartOk, TuneOk, Aborts, Prepares, LogsIn
  <1>5. CASE Asks
    BY <1>5 DEF Asks, Return
  <1> QED BY <1>1, <1>2, <1>3, <1>4, <1>5 DEF ClientStep

\* The login never meets a frame of an honest broker that it does not expect.
LEMMA NeverAborts ==
  ASSUME StreamInv, HonestInv, ~odd
  PROVE  ~Aborts
  <1> SUFFICES ASSUME Aborts PROVE FALSE
    OBVIOUS
  <1>1. /\ pc \in {"start", "tune"} /\ got # NoFrame /\ ~IsExpected(got)
        /\ sent \in Seq(SentFrames) /\ StartInv /\ TuningInv
    BY DEF Aborts, StreamInv, StreamTypes, HonestInv
  <1>2. 0 \in Slots(got, sent) /\ At(got, sent, 0) = got
    BY <1>1, GotSlot
  <1>3. CASE pc = "start"
    <2>1. got = Start8
      BY <1>1, <1>2, <1>3 DEF StartInv, Nowhere
    <2> QED BY <1>1, <1>3, <2>1, MethodFields DEF IsExpected, Expected, Start8
  <1>4. CASE pc = "tune"
    <2>1. IsA(got, "connection_tune") /\ got.channel = 0
      BY <1>1, <1>2, <1>4 DEF TuningInv, Nowhere
    <2> QED BY <1>1, <1>4, <2>1 DEF IsExpected, Expected, IsA
  <1> QED BY <1>1, <1>3, <1>4

\* The client keeps HonestInv.
LEMMA ClientHonest ==
  ASSUME StreamInv, CallInv, HonestInv, ClientStep, Moves, Breaking,
         UNCHANGED <<broker, odd>>
  PROVE  HonestInv'
  <1>1. PICK d \in {0, 1} : MovesBy(d)
    BY DEF Moves
  <1>2. \A k \in Slots(got', sent') :
          k + d \in Slots(got, sent) /\ At(got', sent', k) = At(got, sent, k + d)
    BY <1>1 DEF MovesBy
  <1>3. OddInv'
    BY <1>2 DEF HonestInv, OddInv
  <1>4. sent \in Seq(SentFrames) /\ mail \in Seq(Messages)
    BY DEF StreamInv, StreamTypes, PeerTypes
  <1>5. Nowhere => Nowhere'
    BY <1>2 DEF Nowhere
  <1> SUFFICES ASSUME ~odd
               PROVE  (~broken /\ pc # "abort" /\ FreshInv /\ StartInv /\ TuningInv)'
    BY <1>3 DEF HonestInv
  <1>6. ~broken /\ pc # "abort" /\ FreshInv /\ StartInv /\ TuningInv
    BY DEF HonestInv
  <1>7. ~broken'
    <2>1. ASSUME sent # << >> /\ Head(sent) = Unknown PROVE FALSE
      <3>1. 1 \in Slots(got, sent) /\ At(got, sent, 1) = Head(sent)
        <4>1. Len(sent) \in Nat /\ Len(sent) >= 1 /\ Head(sent) = sent[1]
          BY SMT, <1>4, <2>1
        <4> QED BY SMT, <4>1 DEF Slots, At
      <3> QED BY <2>1, <3>1 DEF HonestInv, OddInv
    <2> QED BY <1>6, <2>1 DEF Breaking
  <1>8. pc' # "abort"
    BY <1>6, CameFrom, NeverAborts
  <1>9. FreshInv'
    BY <1>5, <1>6, CameFrom DEF FreshInv
  <1>10. StartInv'
    <2> SUFFICES ASSUME pc' = "start" PROVE StartInv'
      BY DEF StartInv
    <2>1. CASE Stay /\ pc = "start"
      <3>1. UNCHANGED mail
        BY <2>1 DEF Stay, callVars
      <3>2. CASE broker.at = "header" /\ Nowhere /\ mail \in {<< >>, <<HeaderMessage>>}
        BY <1>5, <3>1, <3>2 DEF StartInv
      <3>3. CASE /\ broker.at = "start" /\ mail = << >>
                 /\ \A k \in Slots(got, sent) :
                       At(got, sent, k) = Start8 /\ \A j \in Slots(got, sent) : j = k
        <4>1. ASSUME NEW k \in Slots(got', sent')
              PROVE  At(got', sent', k) = Start8 /\ \A j \in Slots(got', sent') : j = k
          <5>1. At(got', sent', k) = Start8
            BY <1>2, <3>3
          <5>2. ASSUME NEW j \in Slots(got', sent') PROVE j = k
            <6>1. j + d = k + d
              BY <1>2, <3>3
            <6>2. j \in Int /\ k \in Int /\ d \in Int
              BY SMT DEF Slots
            <6> QED BY SMT, <6>1, <6>2
          <5> QED BY <5>1, <5>2
        <4> QED BY <3>1, <3>3, <4>1 DEF StartInv
      <3> QED BY <1>6, <2>1, <3>2, <3>3 DEF StartInv
    <2>2. CASE LogsIn
      <3>1. broker.at = "header" /\ Nowhere /\ mail = << >>
        BY <1>6, <2>2 DEF FreshInv, LogsIn
      <3>2. mail' \in {<< >>, <<HeaderMessage>>}
        <4>1. mail' = mail \/ mail' = Append(mail, HeaderMessage)
          BY <2>2 DEF LogsIn, Post, HeaderMessage
        <4>2. Append(<< >>, HeaderMessage) = <<HeaderMessage>>
          OBVIOUS
        <4> QED BY <3>1, <4>1, <4>2
      <3> QED BY <1>5, <3>1, <3>2 DEF StartInv
    <2> QED BY <2>1, <2>2, CameFrom
  <1>11. TuningInv'
    <2> SUFFICES ASSUME pc' = "tune" PROVE TuningInv'
      BY DEF TuningInv
    <2>1. CASE Stay /\ pc = "tune"
      <3>1. UNCHANGED mail
        BY <2>1 DEF Stay, callVars
      <3> QED BY <1>2, <1>5, <1>6, <2>1, <3>1 DEF TuningInv
    <2>2. CASE StartOk
      <3>1. /\ pc = "start" /\ got # NoFrame /\ got' = NoFrame /\ sent' = sent
            /\ mail' = Append(mail, StartOkMessage)
        BY <2>2 DEF StartOk, TakenOff, Post, StartOkMessage
      <3>2. 0 \in Slots(got, sent)
        BY <1>4, <3>1, GotSlot
      <3>3. /\ broker.at = "start" /\ mail = << >>
            /\ \A j \in Slots(got, sent) : j = 0
        BY <1>6, <3>1, <3>2 DEF StartInv, Nowhere
      <3>4. Nowhere'
        <4>1. ASSUME NEW k \in Slots(got', sent') PROVE FALSE
          <5>1. k \in Slots(got, sent) /\ k # 0
            BY SMT, <1>4, <3>1 DEF Slots
          <5> QED BY <3>3, <5>1
        <4> QED BY <4>1 DEF Nowhere
      <3>5. Append(<< >>, StartOkMessage) = <<StartOkMessage>>
        OBVIOUS
      <3> QED BY <3>1, <3>3, <3>4, <3>5 DEF TuningInv
    <2> QED BY <2>1, <2>2, CameFrom
  <1> QED BY <1>6, <1>7, <1>8, <1>9, <1>10, <1>11

\* What an honest broker is about to read.
LEMMA OneMessage ==
  ASSUME NEW m
  PROVE  Head(<<m>>) = m /\ Tail(<<m>>) = << >> /\ <<m>> # << >>
  OBVIOUS

\* The first two messages of a login.
LEMMA HonestMethods ==
  HeaderMessage.method = "AMQP" /\ StartOkMessage.method = "connection_start_ok"
  BY DEF HeaderMessage, StartOkMessage, Message

\* The broker keeps HonestInv.
LEMMA BrokerHonest ==
  ASSUME StreamInv, HonestInv, BrokerStep
  PROVE  HonestInv'
  <1>1. UNCHANGED <<conn, pc, call, got, broken>>
    BY DEF BrokerStep
  <1>2. odd => odd'
    BY DEF BrokerStep, Starts, Tunes, Accepts, Welcomes, Answers, Refuses, Pushes,
       ShutsChannel, Shuts, Errs
  <1>3. sent \in Seq(SentFrames) /\ mail \in Seq(Messages) /\ broker \in Brokers
    BY DEF StreamInv, StreamTypes, PeerTypes
  <1>4. OddInv'
    <2>1. CASE UNCHANGED sent
      BY <1>1, <1>2, <2>1 DEF HonestInv, OddInv
    <2>2. ASSUME NEW S, Adds(S), \A f \in S : f # Unknown PROVE OddInv'
      BY <1>2, <2>2 DEF HonestInv, OddInv, Adds, Old, Added
    <2>3. ASSUME NEW f, AddsLast(f), f # Unknown PROVE OddInv'
      BY <2>2, <2>3 DEF AddsLast
    <2>4. CASE Starts \/ Tunes \/ Welcomes \/ ShutsChannel
      BY <2>3, <2>4, LoginFramesSound, PushedSound, NotUnknown DEF Starts, Tunes, Welcomes,
         ShutsChannel, Start8
    <2>5. CASE Accepts
      BY <2>1, <2>5 DEF Accepts
    <2>6. CASE Refuses \/ Shuts
      BY <2>1, <2>3, <2>6, PushedSound, NotUnknown DEF Refuses, Shuts, Leaves, Plain
    <2>7. CASE Pushes
      BY <2>2, <2>7 DEF Pushes, Plain
    <2>8. CASE Errs
      BY <2>8 DEF Errs, OddInv
    <2>9. CASE Answers
      <3>1. Head(mail) \in Messages
        BY <1>3, <2>9 DEF Answers, Reads
      <3>2. \A m \in Head(mail).replies :
               MethodFrame(Head(mail).channel, m, Head(mail).arg) \in SoundFrames
        BY <3>1, ReplySound DEF Messages
      <3> QED BY <2>1, <2>3, <2>9, <3>2, NotUnknown DEF Answers
    <2> QED BY <2>4, <2>5, <2>6, <2>7, <2>8, <2>9 DEF BrokerStep
  <1> SUFFICES ASSUME ~odd'
               PROVE  (~broken /\ pc # "abort" /\ FreshInv /\ StartInv /\ TuningInv)'
    BY <1>4 DEF HonestInv
  <1>5. ~broken /\ pc # "abort" /\ FreshInv /\ StartInv /\ TuningInv /\ ~Errs
    BY <1>2 DEF HonestInv, Errs
  <1>6. ~broken' /\ pc' # "abort"
    BY <1>1, <1>5
  <1>7. ASSUME broker.at \in {"header", "start", "tune"}, mail = << >> PROVE FALSE
    BY <1>5, <1>7 DEF BrokerStep, Starts, Tunes, Accepts, Welcomes, Answers, Refuses, Reads,
       Pushes, ShutsChannel, Shuts
  <1>8. FreshInv'
    BY <1>1, <1>5, <1>7 DEF FreshInv
  <1>9. ASSUME pc = "start" PROVE StartInv'
    <2>1. broker.at = "header" /\ Nowhere /\ mail = <<HeaderMessage>>
      BY <1>5, <1>7, <1>9 DEF StartInv
    <2>2. Head(mail) = HeaderMessage /\ Tail(mail) = << >> /\ Head(mail).method = "AMQP"
      BY <2>1, OneMessage, HonestMethods
    <2>3. ~Refuses
      BY <2>1, <2>2 DEF Refuses, Follows
    <2>4. Starts
      BY <1>5, <2>1, <2>3 DEF BrokerStep, Tunes, Accepts, Welcomes, Answers, Pushes,
         ShutsChannel, Shuts
    <2>5. broker'.at = "start" /\ mail' = << >> /\ AddsLast(Start8)
      BY <2>2, <2>4 DEF Starts, Reads, To
    <2>6. \A k \in Slots(got', sent') : Added({Start8}, k)
      BY <2>1, <2>5 DEF Nowhere, AddsLast, Adds, Old
    <2>7. ASSUME NEW k \in Slots(got', sent')
          PROVE  At(got', sent', k) = Start8 /\ \A j \in Slots(got', sent') : j = k
      <3>1. At(got', sent', k) = Start8
        BY <2>6 DEF Added
      <3> QED BY <2>5, <2>6, <3>1 DEF AddsLast
    <2> QED BY <2>5, <2>7 DEF StartInv
  <1>10. ASSUME pc = "tune" PROVE TuningInv'
    <2>1. broker.at = "start" /\ Nowhere /\ mail = <<StartOkMessage>>
      BY <1>5, <1>7, <1>10 DEF TuningInv
    <2>2. /\ Head(mail) = StartOkMessage /\ Tail(mail) = << >>
          /\ Head(mail).method = "connection_start_ok"
      BY <2>1, OneMessage, HonestMethods
    <2>3. ~Refuses
      BY <2>1, <2>2 DEF Refuses, Follows
    <2>4. Tunes
      BY <1>5, <2>1, <2>3 DEF BrokerStep, Starts, Accepts, Welcomes, Answers, Pushes,
         ShutsChannel, Shuts
    <2>5. PICK n \in ServerFrameMax : AddsLast(MethodFrame(0, "connection_tune", n))
      BY <2>4 DEF Tunes
    <2>6. broker'.at = "tune" /\ mail' = << >>
      BY <2>2, <2>4 DEF Tunes, Reads, To
    <2>7. \A k \in Slots(got', sent') : Added({MethodFrame(0, "connection_tune", n)}, k)
      BY <2>1, <2>5 DEF Nowhere, AddsLast, Adds, Old
    <2>8. \A k \in Slots(got', sent') :
             At(got', sent', k) = MethodFrame(0, "connection_tune", n)
      BY <2>7 DEF Added
    <2> QED BY <2>6, <2>8, MethodFields DEF TuningInv, IsA
  <1> QED BY <1>1, <1>6, <1>8, <1>9, <1>10 DEF StartInv, TuningInv

\* HonestInv holds before a connection and after it, ...
LEMMA InitHonest == (Init => HonestInv) /\ (Gone => HonestInv')
  <1>1. Len(<< >>) = 0 /\ 1..0 = {}
    OBVIOUS
  <1>2. Slots(NoFrame, << >>) = {}
    BY SMT, <1>1 DEF Slots
  <1>3. NoBroker.at = "header"
    BY DEF NoBroker
  <1>4. Init => HonestInv
    BY <1>2, <1>3 DEF Init, HonestInv, OddInv, FreshInv, StartInv, TuningInv, Nowhere
  <1>5. Gone => HonestInv'
    BY <1>2, <1>3 DEF Gone, HonestInv, OddInv, FreshInv, StartInv, TuningInv, Nowhere
  <1> QED BY <1>4, <1>5

\* ... and every step keeps it.
LEMMA NextHonest ==
  ASSUME MInv, OrderInv, StreamInv, OpenInv, HonestInv, [Next]_vars
  PROVE  HonestInv'
  <1>1. CASE Gone
    BY <1>1, InitHonest
  <1>2. CASE (Client \/ Application) /\ ~Gone
    BY <1>2, ClientKinds, ClientHonest DEF OpenInv
  <1>3. CASE Broker
    BY <1>3, BrokerSteps, BrokerHonest
  <1>4. CASE UNCHANGED vars
    BY <1>4 DEF vars, callVars, streamVars, peerVars, frameVars, HonestInv, OddInv, FreshInv,
       StartInv, TuningInv, Nowhere
  <1> QED BY <1>1, <1>2, <1>3, <1>4 DEF Next

-----------------------------------------------------------------------------
\* Requests and replies.

\* A message that the broker will answer, if it goes on as it is.
Hope(b, m) ==
    /\ m.replies # {} /\ ~m.nowait
    /\ ~(b.closing /\ m.channel = 1) /\ b.at # "gone"

\* What closes a channel or the connection is true, and nothing follows that a call
\* would take for its reply.
CloseInv ==
    \A k \in Slots(got, sent) :
        /\ IsA(At(got, sent, k), "channel_close") =>
              At(got, sent, k).channel = 1 /\ broker.closing
        /\ IsA(At(got, sent, k), "connection_close") => broker.at = "gone"
OrderlyInv ==
    \A j, k \in Slots(got, sent) : j < k =>
        /\ ~IsA(At(got, sent, j), "connection_close")
        /\ IsA(At(got, sent, j), "channel_close") /\ IsReply(At(got, sent, k)) =>
              At(got, sent, k).channel # 1

\* As long as no call was given up: a reply on the way, or a message that will be
\* answered, belongs to the call that runs, and there is only one of them.
AnsweredInv ==
    \A k \in Slots(got, sent) : IsReply(At(got, sent, k)) =>
        /\ pc = "rpc" /\ At(got, sent, k).arg = call.no
        /\ At(got, sent, k).channel = call.channel
        /\ \A j \in Slots(got, sent) : IsReply(At(got, sent, j)) => j = k
HopeInv ==
    \A i \in 1..Len(mail) : Hope(broker, mail[i]) =>
        /\ pc = "rpc" /\ mail[i].arg = call.no /\ mail[i].channel = call.channel
        /\ \A k \in Slots(got, sent) : ~IsReply(At(got, sent, k))
        /\ \A j \in 1..Len(mail) : Hope(broker, mail[j]) => i = j
ReplyInv ==
    /\ CloseInv /\ OrderlyInv /\ ReplyMatches
    /\ ~late => AnsweredInv /\ HopeInv

\* Nothing is to come.
Calm ==
    /\ \A k \in Slots(got, sent) : ~IsReply(At(got, sent, k))
    /\ \A i \in 1..Len(mail) : ~Hope(broker, mail[i])

\* Without a call nothing is to come.
LEMMA CalmOutside ==
  ASSUME AnsweredInv, HopeInv, pc # "rpc"
  PROVE  Calm
  BY DEF AnsweredInv, HopeInv, Calm

\* A message goes out when nothing is to come.
LEMMA CalmPosts ==
  ASSUME mail \in Seq(Messages), Calm, Moves, UNCHANGED broker,
         \/ mail' = mail
         \/ \E m : /\ mail' = Append(mail, m)
                   /\ \/ m.replies = {}
                      \/ pc' = "rpc" /\ m.arg = call'.no /\ m.channel = call'.channel
  PROVE  AnsweredInv' /\ HopeInv'
  <1>1. PICK d \in {0, 1} : MovesBy(d)
    BY DEF Moves
  <1>2. \A k \in Slots(got', sent') : ~IsReply(At(got', sent', k))
    BY <1>1 DEF MovesBy, Calm
  <1>3. AnsweredInv'
    BY <1>2 DEF AnsweredInv
  <1>4. CASE mail' = mail
    BY <1>3, <1>4 DEF HopeInv, Calm
  <1>5. ASSUME NEW m, mail' = Append(mail, m),
               \/ m.replies = {}
               \/ pc' = "rpc" /\ m.arg = call'.no /\ m.channel = call'.channel
        PROVE  HopeInv'
    <2>1. \A i \in 1..Len(mail') :
            \/ i \in 1..Len(mail) /\ mail'[i] = mail[i]
            \/ i = Len(mail) + 1 /\ mail'[i] = m
      BY <1>5, MailAppend
    <2>2. \A i \in 1..Len(mail') : Hope(broker', mail'[i]) =>
             i = Len(mail) + 1 /\ mail'[i] = m
      BY <2>1 DEF Calm
    <2>3. m.replies = {} => \A i \in 1..Len(mail') : ~Hope(broker', mail'[i])
      BY <2>2 DEF Hope
    <2> QED BY <1>2, <1>5, <2>2, <2>3 DEF HopeInv
  <1> QED BY <1>3, <1>4, <1>5

\* A client that stays where it is.
LEMMA StayReplies ==
  ASSUME Moves, UNCHANGED <<broker, pc, call, mail>>, AnsweredInv, HopeInv
  PROVE  AnsweredInv' /\ HopeInv'
  <1>1. PICK d \in {0, 1} : MovesBy(d)
    BY DEF Moves
  <1>2. \A k \in Slots(got', sent') :
          k + d \in Slots(got, sent) /\ At(got', sent', k) = At(got, sent, k + d)
    BY <1>1 DEF MovesBy
  <1>3. \A j \in Slots(got', sent'), k \in Slots(got', sent') : j + d = k + d => j = k
    BY SMT DEF Slots
  <1>4. ASSUME NEW k \in Slots(got', sent'), IsReply(At(got', sent', k))
        PROVE  /\ pc' = "rpc" /\ At(got', sent', k).arg = call'.no
               /\ At(got', sent', k).channel = call'.channel
               /\ \A j \in Slots(got', sent') : IsReply(At(got', sent', j)) => j = k
    BY <1>2, <1>3, <1>4 DEF AnsweredInv
  <1>5. AnsweredInv'
    BY <1>4 DEF AnsweredInv
  <1>6. HopeInv'
    BY <1>2 DEF HopeInv
  <1> QED BY <1>5, <1>6

\* Frames that are taken off leave the others in order.
LEMMA ClientCloses ==
  ASSUME Moves, UNCHANGED broker, CloseInv, OrderlyInv
  PROVE  CloseInv' /\ OrderlyInv'
  <1>1. PICK d \in {0, 1} : MovesBy(d)
    BY DEF Moves
  <1>2. \A k \in Slots(got', sent') :
          k + d \in Slots(got, sent) /\ At(got', sent', k) = At(got, sent, k + d)
    BY <1>1 DEF MovesBy
  <1>3. \A j \in Slots(got', sent'), k \in Slots(got', sent') : j < k => j + d < k + d
    BY SMT DEF Slots
  <1>4. CloseInv'
    BY <1>2 DEF CloseInv
  <1>5. ASSUME NEW j \in Slots(got', sent'), NEW k \in Slots(got', sent'), j < k
        PROVE  /\ ~IsA(At(got', sent', j), "connection_close")
               /\ IsA(At(got', sent', j), "channel_close") /\ IsReply(At(got', sent', k)) =>
                     At(got', sent', k).channel # 1
    BY <1>2, <1>3, <1>5 DEF OrderlyInv
  <1>6. OrderlyInv'
    BY <1>5 DEF OrderlyInv
  <1> QED BY <1>4, <1>6

\* The reply of a call is the last thing that is to come; so is what closes its
\* channel, or the connection.
LEMMA EndedCalm ==
  ASSUME StreamInv, CallInv, CloseInv, OrderlyInv, AnsweredInv, HopeInv, Ended,
         UNCHANGED broker
  PROVE  /\ \A k \in Slots(got', sent') : ~IsReply(At(got', sent', k))
         /\ \A i \in 1..Len(mail) : ~Hope(broker, mail[i])
         /\ got.id \in Numbers(call.replies) => got.arg = call.no
  <1>1. /\ pc = "rpc" /\ got # NoFrame /\ got' = NoFrame /\ sent' = sent /\ Ends(got)
        /\ sent \in Seq(SentFrames) /\ call.replies \in Replies
    BY DEF Ended, TakenOff, StreamInv, StreamTypes, CallInv
  <1>2. 0 \in Slots(got, sent) /\ At(got, sent, 0) = got
    BY <1>1, GotSlot
  <1>3. \A k \in Slots(got', sent') :
           k \in Slots(got, sent) /\ At(got', sent', k) = At(got, sent, k) /\ 0 < k
    BY SMT, <1>1 DEF Slots, At
  <1>4. \A k \in Slots(got', sent') : k # 0
    BY SMT, <1>1 DEF Slots
  <1>5. \/ IsReply(got)
        \/ IsA(got, "channel_close") /\ got.channel = call.channel
        \/ IsA(got, "connection_close")
    <2>1. /\ got.type = AMQP_FRAME_METHOD
          /\ \/ /\ got.channel = call.channel
                /\ got.id \in Numbers(call.replies \cup {"channel_close"})
             \/ got.id = MethodNumber("connection_close")
      BY <1>1 DEF Ends
    <2>2. got.id \in Numbers(call.replies \cup {"channel_close"}) =>
             got.id \in Numbers(call.replies) \/ got.id = MethodNumber("channel_close")
      BY DEF Numbers
    <2>3. got.id \in Numbers(call.replies) => IsReply(got)
      BY <1>1, <2>1, ReplyNumbers DEF IsReply
    <2> QED BY <2>1, <2>2, <2>3 DEF IsA
  <1>6. got.id \in Numbers(call.replies) => IsReply(got) /\ got.arg = call.no
    <2>1. got.type = AMQP_FRAME_METHOD
      BY <1>1 DEF Ends
    <2>2. got.id \in Numbers(call.replies) => IsReply(got)
      BY <1>1, <2>1, ReplyNumbers DEF IsReply
    <2> QED BY <1>2, <2>2 DEF AnsweredInv
  <1>7. CASE IsReply(got)
    <2>1. \A k \in Slots(got', sent') : ~IsReply(At(got', sent', k))
      BY <1>2, <1>3, <1>4, <1>7 DEF AnsweredInv
    <2>2. \A i \in 1..Len(mail) : ~Hope(broker, mail[i])
      BY <1>2, <1>7 DEF HopeInv
    <2> QED BY <1>6, <2>1, <2>2
  <1>8. CASE IsA(got, "channel_close") /\ got.channel = call.channel
    <2>1. call.channel = 1 /\ broker.closing
      BY <1>2, <1>8 DEF CloseInv
    <2>2. \A k \in Slots(got', sent') : ~IsReply(At(got', sent', k))
      BY <1>2, <1>3, <1>8, <2>1 DEF OrderlyInv, AnsweredInv
    <2>3. \A i \in 1..Len(mail) : ~Hope(broker, mail[i])
      BY <2>1 DEF HopeInv, Hope
    <2> QED BY <1>6, <2>2, <2>3
  <1>9. CASE IsA(got, "connection_close")
    <2>1. broker.at = "gone"
      BY <1>2, <1>9 DEF CloseInv
    <2>2. \A k \in Slots(got', sent') : FALSE
      BY <1>2, <1>3, <1>9 DEF OrderlyInv
    <2>3. \A i \in 1..Len(mail) : ~Hope(broker, mail[i])
      BY <2>1 DEF Hope
    <2> QED BY <1>6, <2>2, <2>3
  <1> QED BY <1>5, <1>7, <1>8, <1>9

\* What a call returns.
LEMMA ClientReturns ==
  ASSUME StreamInv, CallInv, ReplyInv, ClientStep, UNCHANGED broker
  PROVE  ReplyMatches'
  <1>1. CASE UNCHANGED <<ret, late>>
    BY <1>1 DEF ReplyInv, ReplyMatches
  <1>2. CASE ret'.kind # "normal"
    BY <1>2 DEF ReplyMatches
  <1>3. CASE Ended
    <2>1. late' = late /\ ret'.frame = got /\ ret'.no = call.no
          /\ (ret'.kind = "normal" => got.id \in Numbers(call.replies))
      BY <1>3 DEF Ended, Return
    <2>2. ~late => CloseInv /\ OrderlyInv /\ AnsweredInv /\ HopeInv
      BY DEF ReplyInv
    <2>3. ~late /\ got.id \in Numbers(call.replies) => got.arg = call.no
      BY <1>3, <2>2, EndedCalm
    <2> QED BY <2>1, <2>3 DEF ReplyMatches
  <1>4. CASE OpenStep
    BY <1>1, <1>2, <1>4, OpenWays DEF Opens, Closes
  <1>5. CASE GiveUp \/ Shows
    BY <1>2, <1>5 DEF GiveUp, Shows, Return
  <1>6. CASE Stay \/ StartOk \/ TuneOk \/ Aborts \/ Prepares \/ LogsIn
    BY <1>1, <1>6 DEF Stay, callVars, StartOk, TuneOk, Aborts, Prepares, LogsIn
  <1>7. CASE Asks
    <2>1. NoRet.kind = "none"
      BY DEF NoRet
    <2>2. ret' = NoRet \/ Return("library", NoFrame)
      BY <1>7 DEF Asks
    <2> QED BY <1>2, <2>1, <2>2 DEF Return
  <1> QED BY <1>3, <1>4, <1>5, <1>6, <1>7 DEF ClientStep

\* The client keeps ReplyInv.
LEMMA ClientReplies ==
  ASSUME StreamInv, CallInv, ReplyInv, ClientStep, Moves, UNCHANGED broker
  PROVE  ReplyInv'
  <1>1. CloseInv' /\ OrderlyInv' /\ ReplyMatches'
    BY ClientCloses, ClientReturns DEF ReplyInv
  <1> SUFFICES ASSUME ~late' PROVE AnsweredInv' /\ HopeInv'
    BY <1>1 DEF ReplyInv
  <1>2. mail \in Seq(Messages)
    BY DEF StreamInv, PeerTypes
  <1>3. CASE Stay
    <2>1. UNCHANGED <<pc, call, mail, late>>
      BY <1>3 DEF Stay, callVars
    <2> QED BY <2>1, StayReplies DEF ReplyInv
  <1>4. CASE Ended
    <2>1. ~late /\ mail' = mail
      BY <1>4 DEF Ended
    <2>2. /\ \A k \in Slots(got', sent') : ~IsReply(At(got', sent', k))
          /\ \A i \in 1..Len(mail) : ~Hope(broker, mail[i])
      BY <1>4, <2>1, EndedCalm DEF ReplyInv
    <2> QED BY <2>1, <2>2 DEF AnsweredInv, HopeInv
  <1>5. ASSUME pc # "rpc", UNCHANGED late PROVE Calm
    BY <1>5, CalmOutside DEF ReplyInv
  <1>6. CASE GiveUp
    BY <1>2, <1>5, <1>6, CalmPosts DEF GiveUp
  <1>7. CASE Shows \/ Aborts \/ Prepares
    BY <1>2, <1>5, <1>7, CalmPosts DEF Shows, Aborts, Prepares
  <1>8. CASE OpenStep
    <2>1. OpenMessage.arg = 0 /\ OpenMessage.channel = 0
      BY DEF OpenMessage, Message
    <2>2. Calm
      BY <1>5, <1>8, OpenWays DEF OpenStep
    <2>3. Opens \/ Closes
      BY <1>8, OpenWays
    <2> QED BY <1>2, <2>1, <2>2, <2>3, CalmPosts DEF Opens, Closes
  <1>9. CASE StartOk
    <2> DEFINE m == Message(0, "connection_start_ok", 0, {}, FALSE)
    <2>1. mail' = Append(mail, m) /\ m.replies = {} /\ Calm
      BY <1>5, <1>9, LoginPosts DEF StartOk, Post
    <2> HIDE DEF m
    <2> QED BY <1>2, <2>1, CalmPosts
  <1>10. CASE TuneOk
    <2> DEFINE m == Message(0, "connection_tune_ok", conn'.frame_max, {}, FALSE)
    <2>1. mail' = Append(mail, m) /\ m.replies = {} /\ Calm
      BY <1>5, <1>10, LoginPosts DEF TuneOk, Post
    <2> HIDE DEF m
    <2> QED BY <1>2, <2>1, CalmPosts
  <1>11. CASE LogsIn
    <2> DEFINE m == Message(0, "AMQP", 0, {}, FALSE)
    <2>1. (mail' = mail \/ mail' = Append(mail, m)) /\ m.replies = {} /\ Calm
      BY <1>5, <1>11, LoginPosts DEF LogsIn, Post
    <2> HIDE DEF m
    <2> QED BY <1>2, <2>1, CalmPosts
  <1>12. CASE Asks
    <2>1. Calm
      BY <1>5, <1>12 DEF Asks
    <2>2. ASSUME NEW q \in Requests, NEW n \in Number,
                 call' = [NoCall EXCEPT !.channel = ChannelOf(q), !.replies = q.replies,
                                        !.no = n],
                 Post(Message(ChannelOf(q), q.request, n, q.replies, Nowait(q))), pc' = "rpc"
          PROVE  AnsweredInv' /\ HopeInv'
      <3> DEFINE m == Message(ChannelOf(q), q.request, n, q.replies, Nowait(q))
      <3>1. mail' = Append(mail, m) /\ m.arg = n /\ m.channel = ChannelOf(q)
        BY <2>2 DEF Message, Post
      <3>2. call'.no = n /\ call'.channel = ChannelOf(q)
        BY <2>2, CallFacts
      <3> HIDE DEF m
      <3> QED BY <1>2, <2>1, <2>2, <3>1, <3>2, CalmPosts
    <2>3. UNCHANGED mail \/ \E q \in Requests : \E n \in Number :
             /\ call' = [NoCall EXCEPT !.channel = ChannelOf(q), !.replies = q.replies,
                                      !.no = n]
             /\ Post(Message(ChannelOf(q), q.request, n, q.replies, Nowait(q)))
             /\ pc' = "rpc"
      BY <1>12 DEF Asks
    <2> QED BY <1>2, <2>1, <2>2, <2>3, CalmPosts
  <1> QED BY <1>3, <1>4, <1>6, <1>7, <1>8, <1>9, <1>10, <1>11, <1>12 DEF ClientStep

\* What the broker adds leaves the others as they were.
LEMMA AddsClose ==
  ASSUME CloseInv, NEW S, Adds(S),
         broker.closing => broker'.closing, broker.at = "gone" => broker'.at = "gone",
         \A f \in S : /\ IsA(f, "channel_close") => f.channel = 1 /\ broker'.closing
                      /\ IsA(f, "connection_close") => broker'.at = "gone"
  PROVE  CloseInv'
  <1>1. ASSUME NEW k \in Slots(got', sent')
        PROVE  /\ IsA(At(got', sent', k), "channel_close") =>
                     At(got', sent', k).channel = 1 /\ broker'.closing
               /\ IsA(At(got', sent', k), "connection_close") => broker'.at = "gone"
    <2>1. CASE Old(k)
      BY <2>1 DEF Old, CloseInv
    <2>2. CASE Added(S, k)
      BY <2>2 DEF Added
    <2> QED BY <2>1, <2>2 DEF Adds
  <1> QED BY <1>1 DEF CloseInv

\* Nothing that a call would take for its reply is added behind a close.
LEMMA AddsOrderly ==
  ASSUME CloseInv, OrderlyInv, broker.at # "gone", NEW S, Adds(S),
         \A f \in S : IsReply(f) => ~broker.closing \/ f.channel # 1,
         \A j, k \in Slots(got', sent') : Added(S, j) /\ Added(S, k) /\ j < k =>
             /\ ~IsA(At(got', sent', j), "connection_close")
             /\ ~IsA(At(got', sent', j), "channel_close")
  PROVE  OrderlyInv'
  <1>1. ASSUME NEW j \in Slots(got', sent'), NEW k \in Slots(got', sent'), j < k
        PROVE  /\ ~IsA(At(got', sent', j), "connection_close")
               /\ IsA(At(got', sent', j), "channel_close") /\ IsReply(At(got', sent', k)) =>
                     At(got', sent', k).channel # 1
    <2>1. CASE Old(j) /\ Old(k)
      BY <1>1, <2>1 DEF Old, OrderlyInv
    <2>2. CASE Old(j) /\ Added(S, k)
      BY <2>2 DEF Old, Added, CloseInv
    <2>3. CASE Added(S, j) /\ Old(k)
      <3>1. k < j
        BY <2>3 DEF Old, Added
      <3>2. j \in Int /\ k \in Int
        BY SMT DEF Slots
      <3> QED BY SMT, <1>1, <3>1, <3>2
    <2>4. CASE Added(S, j) /\ Added(S, k)
      BY <1>1, <2>4
    <2> QED BY <2>1, <2>2, <2>3, <2>4 DEF Adds
  <1> QED BY <1>1 DEF OrderlyInv

\* The same for one frame.
LEMMA LastOrderly ==
  ASSUME CloseInv, OrderlyInv, broker.at # "gone", NEW f, AddsLast(f),
         IsReply(f) => ~broker.closing \/ f.channel # 1
  PROVE  OrderlyInv'
  <1>1. Adds({f})
    BY DEF AddsLast
  <1>2. ASSUME NEW j \in Slots(got', sent'), NEW k \in Slots(got', sent'),
               Added({f}, j), Added({f}, k), j < k
        PROVE  FALSE
    <2>1. j = k
      BY <1>2 DEF AddsLast
    <2>2. j \in Int
      BY SMT DEF Slots
    <2> QED BY SMT, <1>2, <2>1, <2>2
  <1> QED BY <1>1, <1>2, AddsOrderly

\* The broker reads a message or does not, and answers none.
LEMMA SilentReplies ==
  ASSUME mail \in Seq(Messages), AnsweredInv, HopeInv, UNCHANGED <<pc, call>>,
         UNCHANGED mail \/ Reads, NEW S, Adds(S), \A f \in S : ~IsReply(f),
         \A m : Hope(broker', m) => Hope(broker, m)
  PROVE  AnsweredInv' /\ HopeInv'
  <1>1. \A k \in Slots(got', sent') : IsReply(At(got', sent', k)) =>
           k \in Slots(got, sent) /\ At(got', sent', k) = At(got, sent, k)
    BY DEF Adds, Old, Added
  <1>2. AnsweredInv'
    BY <1>1 DEF AnsweredInv
  <1>3. CASE UNCHANGED mail
    BY <1>1, <1>2, <1>3 DEF HopeInv
  <1>4. CASE Reads
    <2>1. \A i \in 1..Len(mail') : i + 1 \in 1..Len(mail) /\ mail'[i] = mail[i + 1]
      BY <1>4, MailTail DEF Reads
    <2>2. \A i \in 1..Len(mail'), j \in 1..Len(mail') : i + 1 = j + 1 => i = j
      BY SMT
    <2>3. ASSUME NEW i \in 1..Len(mail'), Hope(broker', mail'[i])
          PROVE  /\ pc' = "rpc" /\ mail'[i].arg = call'.no /\ mail'[i].channel = call'.channel
                 /\ \A k \in Slots(got', sent') : ~IsReply(At(got', sent', k))
                 /\ \A j \in 1..Len(mail') : Hope(broker', mail'[j]) => i = j
      BY <1>1, <2>1, <2>2, <2>3 DEF HopeInv
    <2>4. HopeInv'
      BY <2>3 DEF HopeInv
    <2> QED BY <1>2, <2>4
  <1> QED BY <1>3, <1>4

\* The broker answers the message it reads.
LEMMA AnswerReplies ==
  ASSUME mail \in Seq(Messages), AnsweredInv, HopeInv, UNCHANGED <<pc, call>>, Reads,
         Hope(broker, Head(mail)), NEW f, AddsLast(f),
         f.arg = Head(mail).arg, f.channel = Head(mail).channel,
         \A m : Hope(broker', m) => Hope(broker, m)
  PROVE  AnsweredInv' /\ HopeInv'
  <1>1. /\ 1 \in 1..Len(mail) /\ Head(mail) = mail[1]
        /\ \A i \in 1..Len(mail') :
              i + 1 \in 1..Len(mail) /\ mail'[i] = mail[i + 1] /\ i + 1 # 1
    BY MailTail DEF Reads
  <1>2. /\ pc = "rpc" /\ f.arg = call.no /\ f.channel = call.channel
        /\ \A k \in Slots(got, sent) : ~IsReply(At(got, sent, k))
        /\ \A j \in 1..Len(mail) : Hope(broker, mail[j]) => 1 = j
    BY <1>1 DEF HopeInv
  <1>3. \A i \in 1..Len(mail') : ~Hope(broker', mail'[i])
    BY <1>1, <1>2
  <1>4. \A k \in Slots(got', sent') : IsReply(At(got', sent', k)) =>
           Added({f}, k) /\ At(got', sent', k) = f
    BY <1>2 DEF AddsLast, Adds, Old, Added
  <1>5. AnsweredInv'
    BY <1>2, <1>4 DEF AnsweredInv, AddsLast
  <1> QED BY <1>3, <1>5 DEF HopeInv

\* No message gains the prospect of an answer.
LEMMA HopeFades ==
  ASSUME BrokerStep
  PROVE  /\ \A m : Hope(broker', m) => Hope(broker, m)
         /\ broker.closing => broker'.closing
         /\ broker.at # "gone" /\ (UNCHANGED mail \/ Reads)
  <1>1. broker.at # "gone" /\ (UNCHANGED mail \/ Reads)
    BY DEF BrokerStep, Starts, Tunes, Accepts, Welcomes, Answers, Refuses, Reads, Pushes,
       ShutsChannel, Shuts, Errs
  <1>2. broker.closing => broker'.closing
    BY DEF BrokerStep, Starts, Tunes, Accepts, Welcomes, Answers, Refuses, Pushes,
       ShutsChannel, Shuts, Errs, To
  <1> QED BY <1>1, <1>2 DEF Hope

\* The broker keeps ReplyInv.
LEMMA BrokerReplies ==
  ASSUME StreamInv, OpenInv, ReplyInv, BrokerStep
  PROVE  ReplyInv'
  <1>1. UNCHANGED <<conn, pc, call, ret, late, got, broken>>
    BY DEF BrokerStep
  <1>2. /\ sent \in Seq(SentFrames) /\ mail \in Seq(Messages) /\ broker \in Brokers
        /\ CloseInv /\ OrderlyInv /\ (~late => AnsweredInv /\ HopeInv)
    BY DEF StreamInv, StreamTypes, PeerTypes, ReplyInv
  <1>3. ReplyMatches'
    BY <1>1 DEF ReplyInv, ReplyMatches
  <1>4. /\ \A m : Hope(broker', m) => Hope(broker, m)
        /\ broker.closing => broker'.closing
        /\ broker.at # "gone" /\ (UNCHANGED mail \/ Reads)
    BY HopeFades
  \* Nothing, or frames that neither answer nor close.
  <1>5. ASSUME NEW S, Adds(S), \A f \in S : Plain(f) PROVE ReplyInv'
    <2>1. CloseInv'
      BY <1>2, <1>4, <1>5, AddsClose DEF Plain
    <2>2. OrderlyInv'
      <3>1. \A j \in Slots(got', sent') : Added(S, j) =>
               /\ ~IsA(At(got', sent', j), "connection_close")
               /\ ~IsA(At(got', sent', j), "channel_close")
        BY <1>5 DEF Added, Plain
      <3> QED BY <1>2, <1>4, <1>5, <3>1, AddsOrderly DEF Plain
    <2>3. ~late => AnsweredInv' /\ HopeInv'
      BY <1>1, <1>2, <1>4, <1>5, SilentReplies DEF Plain
    <2> QED BY <1>1, <1>3, <2>1, <2>2, <2>3 DEF ReplyInv
  <1>6. CASE UNCHANGED sent
    <2>1. Adds({})
      BY <1>1, <1>6 DEF Adds, Old
    <2> QED BY <1>5, <2>1
  <1>7. ASSUME NEW f, AddsLast(f), Plain(f) PROVE ReplyInv'
    <2>1. Adds({f})
      BY <1>7 DEF AddsLast
    <2> QED BY <1>5, <1>7, <2>1
  \* A frame that closes, or one that is none.
  <1>8. ASSUME NEW f, AddsLast(f), ~IsReply(f),
               IsA(f, "channel_close") => f.channel = 1 /\ broker'.closing,
               IsA(f, "connection_close") => broker'.at = "gone"
        PROVE  ReplyInv'
    <2>1. Adds({f})
      BY <1>8 DEF AddsLast
    <2>2. CloseInv'
      BY <1>2, <1>4, <1>8, <2>1, AddsClose
    <2>3. OrderlyInv'
      BY <1>2, <1>4, <1>8, LastOrderly
    <2>4. ~late => AnsweredInv' /\ HopeInv'
      BY <1>1, <1>2, <1>4, <1>8, <2>1, SilentReplies
    <2> QED BY <1>1, <1>3, <2>2, <2>3, <2>4 DEF ReplyInv
  \* A reply.
  <1>9. ASSUME NEW m \in Head(mail).replies, Reads, Head(mail).replies \in Replies,
               Hope(broker, Head(mail)),
               AddsLast(MethodFrame(Head(mail).channel, m, Head(mail).arg))
        PROVE  ReplyInv'
    <2> DEFINE f == MethodFrame(Head(mail).channel, m, Head(mail).arg)
    <2>1. /\ f.arg = Head(mail).arg /\ f.channel = Head(mail).channel
          /\ f.id = MethodNumber(m) /\ AddsLast(f)
      BY <1>9, MethodFields
    <2> HIDE DEF f
    <2>2. MethodNumber(m) \in Numbers(Head(mail).replies)
      BY DEF Numbers
    <2>3. ~IsA(f, "channel_close") /\ ~IsA(f, "connection_close")
      BY <1>9, <2>1, <2>2, ReplyNumbers DEF IsA
    <2>4. ~broker.closing \/ f.channel # 1
      BY <1>9, <2>1 DEF Hope
    <2>5. Adds({f})
      BY <2>1 DEF AddsLast
    <2>6. CloseInv'
      BY <1>2, <1>4, <2>3, <2>5, AddsClose
    <2>7. OrderlyInv'
      BY <1>2, <1>4, <2>1, <2>4, LastOrderly
    <2>8. ~late => AnsweredInv' /\ HopeInv'
      BY <1>1, <1>2, <1>4, <1>9, <2>1, AnswerReplies
    <2> QED BY <1>1, <1>3, <2>6, <2>7, <2>8 DEF ReplyInv
  <1>10. CASE Starts \/ Tunes
    <2>1. Plain(Start8) /\ \A n \in ServerFrameMax : Plain(MethodFrame(0, "connection_tune", n))
      BY LoginFramesSound, PlainMethods DEF Start8
    <2> QED BY <1>7, <1>10, <2>1 DEF Starts, Tunes
  <1>11. CASE Accepts
    BY <1>6, <1>11 DEF Accepts
  <1>12. CASE Pushes
    BY <1>5, <1>12 DEF Pushes
  <1>13. CASE Errs
    BY <1>8, <1>13, NotUnknown DEF Errs
  <1>14. CASE ShutsChannel
    <2> DEFINE f == MethodFrame(1, "channel_close", 0)
    <2>1. /\ f.channel = 1 /\ ~IsReply(f) /\ ~IsA(f, "connection_close")
      BY MethodFields, UnaskedNumbers, Different DEF IsReply, IsA
    <2>2. AddsLast(f) /\ broker'.closing = TRUE
      BY <1>14 DEF ShutsChannel
    <2> HIDE DEF f
    <2> QED BY <1>8, <2>1, <2>2
  <1>15. ASSUME Leaves, To("gone") PROVE ReplyInv'
    <2>1. ~IsReply(Close) /\ ~IsA(Close, "channel_close")
      BY MethodFields, UnaskedNumbers, Different DEF IsReply, IsA, Close
    <2>2. broker'.at = "gone"
      BY <1>15 DEF To
    <2> QED BY <1>6, <1>7, <1>8, <1>15, <2>1, <2>2 DEF Leaves
  <1>16. CASE Refuses \/ Shuts
    BY <1>15, <1>16 DEF Refuses, Shuts
  <1>17. CASE Welcomes
    <2>1. Reads /\ broker.at = "open" /\ Head(mail).method = "connection_open"
      BY <1>17 DEF Welcomes
    <2>2. LoginMessage(Head(mail))
      BY <1>2, <2>1, MailTail DEF OpenInv, StageInv, Reads
    <2>3. Head(mail) = OpenMessage
      BY <2>1, <2>2 DEF LoginMessage
    <2>4. /\ OpenMessage.replies = {"connection_open_ok"} /\ OpenMessage.nowait = FALSE
          /\ OpenMessage.channel = 0 /\ OpenMessage.arg = 0
      BY DEF OpenMessage, Message
    <2>5. Hope(broker, Head(mail))
      BY <2>1, <2>3, <2>4 DEF Hope
    <2>6. AddsLast(MethodFrame(Head(mail).channel, "connection_open_ok", Head(mail).arg))
      BY <1>17, <2>3, <2>4 DEF Welcomes
    <2> QED BY <1>9, <2>1, <2>3, <2>4, <2>5, <2>6, RepliesFacts
  <1>18. CASE Answers
    <2>1. Reads /\ broker.at = "ready" /\ Head(mail) \in Messages
      BY <1>2, <1>18 DEF Answers, Reads
    <2>2. Head(mail).replies \in Replies
      BY <2>1 DEF Messages
    <2>3. CASE UNCHANGED sent
      BY <1>6, <2>3
    <2>4. ASSUME NEW m \in Head(mail).replies, ~Head(mail).nowait,
                 ~(broker.closing /\ Head(mail).channel = 1),
                 AddsLast(MethodFrame(Head(mail).channel, m, Head(mail).arg))
          PROVE  ReplyInv'
      <3>1. Hope(broker, Head(mail))
        BY <2>1, <2>4 DEF Hope
      <3> QED BY <1>9, <2>1, <2>2, <2>4, <3>1
    <2> QED BY <1>18, <2>3, <2>4 DEF Answers
  <1> QED BY <1>10, <1>11, <1>12, <1>13, <1>14, <1>16, <1>17, <1>18 DEF BrokerStep

\* ReplyInv holds before a connection and after it, ...
LEMMA InitReplies == (Init => ReplyInv) /\ (Gone => ReplyInv')
  <1>1. Len(<< >>) = 0 /\ 1..0 = {}
    OBVIOUS
  <1>2. Slots(NoFrame, << >>) = {}
    BY SMT, <1>1 DEF Slots
  <1>3. NoRet.kind = "none"
    BY DEF NoRet
  <1>4. Init => ReplyInv
    BY <1>1, <1>2, <1>3 DEF Init, ReplyInv, CloseInv, OrderlyInv, AnsweredInv, HopeInv,
       ReplyMatches
  <1>5. Gone => ReplyInv'
    BY <1>1, <1>2, <1>3 DEF Gone, ReplyInv, CloseInv, OrderlyInv, AnsweredInv, HopeInv,
       ReplyMatches
  <1> QED BY <1>4, <1>5

\* ... and every step keeps it.
LEMMA NextReplies ==
  ASSUME MInv, OrderInv, StreamInv, OpenInv, ReplyInv, [Next]_vars
  PROVE  ReplyInv'
  <1>1. CASE Gone
    BY <1>1, InitReplies
  <1>2. CASE (Client \/ Application) /\ ~Gone
    BY <1>2, ClientKinds, ClientReplies DEF OpenInv
  <1>3. CASE Broker
    BY <1>3, BrokerSteps, BrokerReplies
  <1>4. CASE UNCHANGED vars
    BY <1>4 DEF vars, callVars, streamVars, peerVars, frameVars, ReplyInv, CloseInv,
       OrderlyInv, AnsweredInv, HopeInv, ReplyMatches
  <1> QED BY <1>1, <1>2, <1>3, <1>4 DEF Next

-----------------------------------------------------------------------------

\* Login, mail, frames and replies fit together in every state of a connection.
THEOREM PeerInvariance == Spec => [](OpenInv /\ HonestInv /\ ReplyInv)
  <1> DEFINE All == MInv /\ OrderInv /\ StreamInv /\ OpenInv /\ HonestInv /\ ReplyInv
  <1>1. Init => All
    BY InitMInv, InitOrder, InitStream, InitOpen, InitHonest, InitReplies
  <1>2. All /\ [Next]_vars => All'
    BY NextMInv, NextOrder, NextStream, NextOpen, NextHonest, NextReplies
  <1>3. All => OpenInv /\ HonestInv /\ ReplyInv
    OBVIOUS
  <1> QED BY <1>1, <1>2, <1>3, PTL DEF Spec

\* A login that succeeded means a broker that has opened the virtual host, and one
\* frame_max for both.
THEOREM LoginSoundCorrect == Spec => []LoginSound
  <1>1. OpenInv => LoginSound
    BY DEF OpenInv, OpenedInv, AgreedInv, LoginSound
  <1> QED BY <1>1, PeerInvariance, PTL

\* An honest broker is never the reason for abort() or for a framing error.
THEOREM HonestBrokerServedCorrect == Spec => []HonestBrokerServed
  <1>1. HonestInv => HonestBrokerServed
    BY DEF HonestInv, HonestBrokerServed
  <1> QED BY <1>1, PeerInvariance, PTL

\* A reply answers the request of the call that returns it, as long as no call before
\* it was given up.
THEOREM ReplyMatchesCorrect == Spec => []ReplyMatches
  <1>1. ReplyInv => ReplyMatches
    BY DEF ReplyInv
  <1> QED BY <1>1, PeerInvariance, PTL
=============================================================================
