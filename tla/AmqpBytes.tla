------------------------------ MODULE AmqpBytes ------------------------------
(***************************************************************************)
(* Bytes, and the macros of src/librabbitmq/amqp_private.h that read and   *)
(* write them: D_8 ... D_BYTES and E_8 ... E_BYTES, all behind             *)
(* CHECK_LIMIT.  A buffer is a sequence of 0..255.  A 32-bit number is     *)
(* kept as the int the code mostly uses it as, so 2^31 and more are        *)
(* negative; a 64-bit one is the pair of its halves, as D_64 builds it.    *)
(***************************************************************************)
EXTENDS Integers, Sequences

ENOENT == -2
EFAULT == -14
EINVAL == -22

HEADER_SIZE == 7
FOOTER_SIZE == 1

AMQP_FRAME_METHOD    == 1
AMQP_FRAME_HEADER    == 2
AMQP_FRAME_BODY      == 3
AMQP_FRAME_HEARTBEAT == 8
AMQP_FRAME_END       == 206

\* Network byte order.
E_8(v)  == <<v % 256>>
E_16(v) == <<(v \div 256) % 256, v % 256>>
E_32(v) == E_16(v \div 65536) \o E_16(v)
E_64(v) == E_32(v[1]) \o E_32(v[2])

\* The number at an offset of a buffer that is long enough.
D_8(b, o)  == b[o + 1]
D_16(b, o) == 256 * b[o + 1] + b[o + 2]
D_32(b, o) ==
    LET hi == D_16(b, o)
    IN  (IF hi >= 32768 THEN hi - 65536 ELSE hi) * 65536 + D_16(b, o + 2)
D_64(b, o) == <<D_32(b, o), D_32(b, o + 4)>>
D_BYTES(b, o, l) == SubSeq(b, o + 1, o + l)

Smaller(a, b) == IF a < b THEN a ELSE b

\* CHECK_LIMIT: room for l bytes at offset o of len.  A length of 2^31 or more
\* is a negative l here, and a huge size_t in the code.
WithinLimit(o, l, len) == 0 <= l /\ l <= len - o
=============================================================================
