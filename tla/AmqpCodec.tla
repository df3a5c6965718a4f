------------------------------ MODULE AmqpCodec ------------------------------
(***************************************************************************)
(* The codec of the bundled librabbitmq: tables (amqp_table.c), method     *)
(* arguments and content properties (amqp_framing.c, driven by the layouts *)
(* of AmqpFraming).                                                        *)
(*                                                                         *)
(* A struct is a function from field names to values.  Bytes are           *)
(* sequences, a table is a sequence of [key, kind, value] entries.         *)
(***************************************************************************)
EXTENDS AmqpBytes, AmqpFraming, SequencesExt

\* A function that decodes keeps a buffer, an offset, what it has decoded, and
\* the error it returned with, 0 while it runs.
Reader(b) == [buf |-> b, off |-> 0, val |-> << >>, err |-> 0]
Fail(r, e) == [r EXCEPT !.err = e]
Fits(r, n) == WithinLimit(r.off, n, Len(r.buf))
Skip(r, n) == [r EXCEPT !.off = @ + n]
Store(r, f, v) == [r EXCEPT !.val = @ @@ (f :> v)]

\* One that encodes keeps what it has written and the room left.
Writer(n) == [out |-> << >>, room |-> n, err |-> 0]
Put(w, bs) ==
    IF w.err # 0 THEN w
    ELSE IF ~WithinLimit(0, Len(bs), w.room) THEN Fail(w, EFAULT)
    ELSE [w EXCEPT !.out = @ \o bs, !.room = @ - Len(bs)]

\* A number of n bytes, or bytes after a length of n bytes, into field f.
Number(r, n, f) ==
    IF ~Fits(r, n) THEN Fail(r, EFAULT)
    ELSE Skip(Store(r, f, CASE n = 1 -> D_8(r.buf, r.off)
                            [] n = 2 -> D_16(r.buf, r.off)
                            [] n = 4 -> D_32(r.buf, r.off)
                            [] n = 8 -> D_64(r.buf, r.off)), n)

Piece(r, len, f) ==
    IF ~Fits(r, len) THEN Fail(r, EFAULT)
    ELSE Skip(Store(r, f, D_BYTES(r.buf, r.off, len)), len)
String(r, n, f) ==
    IF ~Fits(r, n) THEN Fail(r, EFAULT)
    ELSE Piece(Skip(r, n), IF n = 1 THEN D_8(r.buf, r.off) ELSE D_32(r.buf, r.off), f)

-----------------------------------------------------------------------------
\* amqp_table.c.  The kinds are the characters S, I, D, T and F.
KindS == 83
KindI == 73
KindD == 68
KindT == 84
KindF == 70

\* A step after another, unless that one failed.
Then(r, n, f) == IF r.err # 0 THEN r ELSE Number(r, n, f)

DecimalRead(r) ==
    IF r.err # 0 THEN r ELSE Store(r, "value", <<r.val.decimals, r.val.digits>>)

RECURSIVE amqp_decode_table(_, _), DecodeValue(_), DecodeEntries(_, _, _)

\* The value of an entry whose key and kind are read.
DecodeValue(r) ==
    IF r.err # 0 THEN r
    ELSE CASE r.val.kind = KindS -> String(r, 4, "value")
           [] r.val.kind = KindI -> Number(r, 4, "value")
           [] r.val.kind = KindD ->
                DecimalRead(Then(Number(r, 1, "decimals"), 4, "digits"))
           [] r.val.kind = KindT -> Number(r, 8, "value")
           [] r.val.kind = KindF -> amqp_decode_table(r, "value")
           [] OTHER              -> Fail(r, EINVAL)

DecodeEntry(r) ==
    DecodeValue(Then(String([r EXCEPT !.val = << >>], 1, "key"), 1, "kind"))

\* The loop: entries up to a limit, which the last of them may go past.
AddEntry(r, entries) ==
    Append(entries, [key |-> r.val.key, kind |-> r.val.kind, value |-> r.val.value])
DecodeEntries(r, limit, entries) ==
    IF r.err # 0 THEN r
    ELSE LET all == IF r.val = << >> THEN entries ELSE AddEntry(r, entries)
         IN  IF r.off >= limit THEN [r EXCEPT !.val = all]
             ELSE DecodeEntries(DecodeEntry(r), limit, all)

TableRead(r, t, f) ==
    IF t.err # 0 THEN Fail(r, t.err)
    ELSE Store([r EXCEPT !.off = t.off], f, t.val)
amqp_decode_table(r, f) ==
    IF ~Fits(r, 4) THEN Fail(r, EFAULT)
    ELSE TableRead(r, DecodeEntries([Skip(r, 4) EXCEPT !.val = << >>],
                                    r.off + 4 + D_32(r.buf, r.off), << >>), f)

RECURSIVE amqp_encode_table(_, _)

EncodeValue(w, e) ==
    CASE e.kind = KindS -> Put(Put(w, E_32(Len(e.value))), e.value)
      [] e.kind = KindI -> Put(w, E_32(e.value))
      [] e.kind = KindD -> Put(Put(w, E_8(e.value[1])), E_32(e.value[2]))
      [] e.kind = KindT -> Put(w, E_64(e.value))
      [] e.kind = KindF -> amqp_encode_table(w, e.value)
      [] OTHER          -> IF w.err # 0 THEN w ELSE Fail(w, EINVAL)

EncodeEntry(w, e) ==
    EncodeValue(Put(Put(Put(w, E_8(Len(e.key))), e.key), E_8(e.kind)), e)

\* The size goes in front once the entries are written.
TableSize_Bug(out) == Len(out) + 4
TableSize(out)     == Len(out)

PutTable(w, body) ==
    IF body.err # 0 THEN Fail(w, body.err)
    ELSE Put(Put(w, E_32(TableSize(body.out))), body.out)
amqp_encode_table(w, t) ==
    IF w.err # 0 THEN w
    ELSE PutTable(w, FoldLeft(EncodeEntry, Writer(w.room - 4), t))

-----------------------------------------------------------------------------
\* amqp_framing.c.

\* Booleans packed into a byte, the first in bit 0.
Bit(v, i) == (v \div 2^i) % 2
Pack_Bug(m, fs) ==
    FoldLeft(LAMBDA sum, i : sum + (IF m[fs[i]] # 0 THEN 2^(Len(fs) - i) ELSE 0), 0,
             [i \in 1..Len(fs) |-> i])
Pack(m, fs) ==
    FoldLeft(LAMBDA sum, i : sum + (IF m[fs[i]] # 0 THEN 2^(i - 1) ELSE 0), 0,
             [i \in 1..Len(fs) |-> i])
Unpack(v, fs) ==
    [f \in {fs[i] : i \in 1..Len(fs)} |->
        Bit(v, (CHOOSE i \in 1..Len(fs) : fs[i] = f) - 1)]

DecodeField(r, it) ==
    IF r.err # 0 THEN r
    ELSE CASE it[1] = "u8"    -> Number(r, 1, it[2])
           [] it[1] = "u16"   -> Number(r, 2, it[2])
           [] it[1] = "u32"   -> Number(r, 4, it[2])
           [] it[1] = "u64"   -> Number(r, 8, it[2])
           [] it[1] = "str8"  -> String(r, 1, it[2])
           [] it[1] = "str32" -> String(r, 4, it[2])
           [] it[1] = "table" -> amqp_decode_table(r, it[2])
           [] it[1] = "bits"  ->
                IF ~Fits(r, 1) THEN Fail(r, EFAULT)
                ELSE [Skip(r, 1) EXCEPT
                        !.val = @ @@ Unpack(D_8(r.buf, r.off), it[2])]

EncodeField(w, it, m) ==
    CASE it[1] = "u8"    -> Put(w, E_8(m[it[2]]))
      [] it[1] = "u16"   -> Put(w, E_16(m[it[2]]))
      [] it[1] = "u32"   -> Put(w, E_32(m[it[2]]))
      [] it[1] = "u64"   -> Put(w, E_64(m[it[2]]))
      [] it[1] = "str8"  -> Put(Put(w, E_8(Len(m[it[2]]))), m[it[2]])
      [] it[1] = "str32" -> Put(Put(w, E_32(Len(m[it[2]]))), m[it[2]])
      [] it[1] = "table" -> amqp_encode_table(w, m[it[2]])
      [] it[1] = "bits"  -> Put(w, E_8(Pack(m, it[2])))

\* Both switches end in "default: return -ENOENT".
amqp_decode_method(n, b) ==
    IF n \notin MethodNumbers THEN Fail(Reader(b), ENOENT)
    ELSE FoldLeft(DecodeField, Reader(b), DecodeLayout[amqp_method_name(n)])

amqp_encode_method(n, m, room) ==
    IF n \notin MethodNumbers THEN Fail(Writer(room), ENOENT)
    ELSE FoldLeft(LAMBDA w, it : EncodeField(w, it, m), Writer(room),
                  EncodeLayout[amqp_method_name(n)])

\* _flags travels in words of 16 bits, the lowest of each saying that another
\* one follows.
FlagWords(flags) ==
    LET lo == (flags % 65536) - (flags % 2)
        hi == flags \div 65536
    IN  IF hi = 0 THEN <<lo>> ELSE <<lo + 1, hi - (hi % 2)>>

\* The flags as the other side reads them, the continuation bit included.
SeenFlags(flags) ==
    LET ws == FlagWords(flags)
    IN  ws[1] + (IF Len(ws) = 2 THEN 65536 * ws[2] ELSE 0)

\* The loop reads on while the lowest bit is set.  An encoder of 32 bits of flags
\* never sets it in the second word, so two words are all there is to read.
HighFlags(r) == [r EXCEPT !.val = [_flags |-> r.val._flags + 65536 * r.val.high]]
ReadFlags(r) ==
    IF r.err # 0 \/ r.val._flags % 2 = 0 THEN r
    ELSE IF ~Fits(r, 2) THEN Fail(r, EFAULT)
    ELSE HighFlags(Number(r, 2, "high"))

Present(class, flags, items) ==
    SelectSeq(items, LAMBDA it : Bit(flags, ClassStruct[class][it[2]][1]) = 1)

DecodeClass(class, r) ==
    IF r.err # 0 THEN r
    ELSE IF class \notin DOMAIN DecodeProperties THEN Fail(r, ENOENT)
    ELSE FoldLeft(DecodeField, r, Present(class, r.val._flags, DecodeProperties[class]))
amqp_decode_properties(class, b) ==
    DecodeClass(class, ReadFlags(Number(Reader(b), 2, "_flags")))

EncodeClass(class, p, w) ==
    IF w.err # 0 THEN w
    ELSE IF class \notin DOMAIN EncodeProperties THEN Fail(w, ENOENT)
    ELSE FoldLeft(LAMBDA x, it : EncodeField(x, it, p), w,
                  Present(class, p._flags, EncodeProperties[class]))
amqp_encode_properties(class, p, room) ==
    EncodeClass(class, p, FoldLeft(LAMBDA x, v : Put(x, E_16(v)), Writer(room),
                                   FlagWords(p._flags)))
=============================================================================
