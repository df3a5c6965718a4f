----------------------------- MODULE MCAmqpSend -----------------------------
(***************************************************************************)
(* Every method, with three sets of arguments in which fields of a type    *)
(* differ from each other and any two booleans differ in one; headers of   *)
(* every class; messages; and frames that cannot be encoded.               *)
(***************************************************************************)
EXTENDS AmqpSend

Entry(k, kind, v) == [key |-> k, kind |-> kind, value |-> v]
Flat == <<Entry(<<65>>, KindS, <<1, 2>>), Entry(<< >>, KindI, -7),
          Entry(<<66, 67>>, KindD, <<2, 314>>), Entry(<<68>>, KindT, <<1, -1>>)>>
Tables == <<<< >>, Flat, <<Entry(<<69>>, KindF, Flat), Entry(<<70>>, KindF, << >>),
                           Entry(<<71>>, KindI, 5)>> >>

\* A value of a C type for the i-th field, in the s-th set.
Value(t, i, s) ==
    CASE t = uint8_t        -> 16 * i + s
      [] t = uint16_t       -> 65535 - 256 * i - s
      [] t = uint32_t       -> IF s = 1 THEN -i ELSE 65536 * i + s
      [] t = uint64_t       -> <<i, IF s = 1 THEN -i ELSE s>>
      [] t = amqp_boolean_t -> Bit(i, s)
      [] t = amqp_bytes_t   -> [k \in 1..((i + s) % 4) |-> 16 * i + k]
      [] t = amqp_table_t   -> Tables[s + 1]

Position(items, f) ==
    LET flat == FoldLeft(LAMBDA fs, it : fs \o (IF it[1] = "bits" THEN it[2]
                                                ELSE <<it[2]>>), << >>, items)
    IN  CHOOSE i \in 1..Len(flat) : flat[i] = f

Arguments(m, s) ==
    [f \in DOMAIN Struct[m][2] |->
        Value(Struct[m][2][f], Position(EncodeLayout[m], f), s)]

MethodCalls == {amqp_send_method(0, m, Arguments(m, s)) : m \in Methods, s \in 0..2}

\* The properties of a class that are in a set, and their flags.
Chosen(class, fs, extra, s) ==
    [f \in fs |-> Value(ClassStruct[class][f][2],
                        Position(EncodeProperties[class], f), s)]
    @@ [_flags |-> FoldSet(+, extra,
                           {2^(ClassStruct[class][f][1]) : f \in fs})]
Fields(class, s) ==
    {f \in DOMAIN ClassStruct[class] : Bit(ClassStruct[class][f][1], s) = 1}

HeaderCalls ==
    {<<Properties(2, class, <<0, 5>>, Chosen(class, Fields(class, s), 0, s))>> :
        class \in DOMAIN ClassStruct, s \in 0..2}
    \cup {<<Properties(2, 60, <<1, -1>>, Chosen(60, DOMAIN ClassStruct[60], x, 1))>> :
        x \in {0, 2^17}}

Publish(p, n) ==
    amqp_basic_publish(1, [ticket |-> 0, exchange |-> <<88>>, routing_key |-> << >>,
                           mandatory |-> 1, immediate |-> 0],
                       p, [i \in 1..n |-> i % 256])
Plain == [_flags |-> 0]
Long(n) == [i \in 1..n |-> 1]

\* The last two cannot be encoded whole.
MessageCalls ==
    {Publish(Plain, n) : n \in {0, 1, Usable, Usable + 1, 2 * Usable}}
    \cup {Publish([_flags |-> 32768, content_type |-> Long(FrameMax)], 1)}

ApiCalls ==
    {amqp_send_method(1, r.request, r.decoded) : r \in {
        amqp_channel_open, amqp_channel_close(200, <<50>>),
        amqp_connection_close(200, <<50>>),
        amqp_exchange_declare(<<1>>, <<2>>, 0, 1, 0, Flat),
        amqp_exchange_delete(<<1>>, 1, 0),
        amqp_queue_declare(<<1>>, 0, 1, 1, 0, << >>),
        amqp_queue_bind(<<1>>, <<2>>, <<3>>, << >>),
        amqp_queue_unbind(<<1>>, <<2>>, <<3>>, Flat),
        amqp_basic_consume(<<1>>, <<2>>, 0, 1, 1), amqp_basic_ack(<<0, 7>>, 1),
        amqp_queue_purge(1, <<1>>, 1), amqp_basic_get(1, <<1>>, 1),
        amqp_tx_select, amqp_tx_commit, amqp_tx_rollback,
        amqp_basic_qos(0, 1, 0)}}

OddCalls ==
    {<<Heartbeat(0)>>, <<[type |-> 7, channel |-> 0]>>,
     <<[Method(0, "tx_select", << >>) EXCEPT !.id = 5]>>,
     <<Properties(2, 61, <<0, 0>>, Plain)>>,
     amqp_send_method(0, "queue_bind",
        [Arguments("queue_bind", 0) EXCEPT !.arguments = <<Entry(<<1>>, 88, 0)>>]),
     amqp_send_method(0, "channel_open", [out_of_band |-> Long(256)]),
     <<Properties(2, 60, <<0, 0>>, [_flags |-> 32768, content_type |-> Long(256)])>>,
     amqp_send_method(0, "queue_bind",
        [Arguments("queue_bind", 0) EXCEPT !.arguments =
            <<Entry(<<1>>, KindF, <<Entry(Long(256), KindI, 0)>>)>>])}

AllCalls == MethodCalls \cup HeaderCalls \cup MessageCalls \cup ApiCalls \cup OddCalls
=============================================================================
