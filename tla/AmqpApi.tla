------------------------------- MODULE AmqpApi -------------------------------
(***************************************************************************)
(* The calls of src/librabbitmq/amqp_api.c: what each of them sends, field *)
(* by field (the code fills the structs by position), and the replies that *)
(* amqp_simple_rpc is told to wait for.                                    *)
(***************************************************************************)
EXTENDS Naturals

Rpc(request, decoded, replies) ==
    [request |-> request, decoded |-> decoded, replies |-> replies]

\* amqp_send_method alone: nothing is waited for.
OneWay(request, decoded) == Rpc(request, decoded, {})

amqp_channel_open ==
    Rpc("channel_open", [out_of_band |-> << >>], {"channel_open_ok"})

Closing(request, code, codestr, reply) ==
    Rpc(request, [reply_code |-> code, reply_text |-> codestr,
                  class_id |-> 0, method_id |-> 0], {reply})
amqp_channel_close(code, codestr) ==
    Closing("channel_close", code, codestr, "channel_close_ok")
amqp_connection_close(code, codestr) ==
    Closing("connection_close", code, codestr, "connection_close_ok")

amqp_exchange_declare(exchange, type, passive, durable, auto_delete, arguments) ==
    Rpc("exchange_declare",
        [ticket |-> 0, exchange |-> exchange, type |-> type,
         passive |-> passive, durable |-> durable,
         auto_delete |-> auto_delete, internal |-> 0, nowait |-> 0,
         arguments |-> arguments],
        {"exchange_declare_ok"})

\* The caller may ask for no reply; the call waits for one all the same.
amqp_exchange_delete(exchange, if_unused, nowait) ==
    Rpc("exchange_delete",
        [ticket |-> 0, exchange |-> exchange, if_unused |-> if_unused,
         nowait |-> nowait],
        {"exchange_delete_ok"})

amqp_queue_declare(queue, passive, durable, exclusive, auto_delete, arguments) ==
    Rpc("queue_declare",
        [ticket |-> 0, queue |-> queue, passive |-> passive,
         durable |-> durable, exclusive |-> exclusive,
         auto_delete |-> auto_delete, nowait |-> 0, arguments |-> arguments],
        {"queue_declare_ok"})

amqp_queue_bind(queue, exchange, routing_key, arguments) ==
    Rpc("queue_bind",
        [ticket |-> 0, queue |-> queue, exchange |-> exchange,
         routing_key |-> routing_key, nowait |-> 0, arguments |-> arguments],
        {"queue_bind_ok"})

amqp_queue_unbind(queue, exchange, binding_key, arguments) ==
    Rpc("queue_unbind",
        [ticket |-> 0, queue |-> queue, exchange |-> exchange,
         routing_key |-> binding_key, arguments |-> arguments],
        {"queue_unbind_ok"})

amqp_basic_consume(queue, consumer_tag, no_local, no_ack, exclusive) ==
    Rpc("basic_consume",
        [ticket |-> 0, queue |-> queue, consumer_tag |-> consumer_tag,
         no_local |-> no_local, no_ack |-> no_ack, exclusive |-> exclusive,
         nowait |-> 0],
        {"basic_consume_ok"})

amqp_basic_ack(delivery_tag, multiple) ==
    OneWay("basic_ack", [delivery_tag |-> delivery_tag, multiple |-> multiple])

\* The channel number goes out as the access ticket.
amqp_queue_purge(channel, queue, no_wait) ==
    Rpc("queue_purge",
        [ticket |-> channel, queue |-> queue, nowait |-> no_wait],
        {"queue_purge_ok"})

amqp_basic_get(channel, queue, no_ack) ==
    Rpc("basic_get",
        [ticket |-> channel, queue |-> queue, no_ack |-> no_ack],
        {"basic_get_ok", "basic_get_empty"})

amqp_tx_select   == Rpc("tx_select", << >>, {"tx_select_ok"})
amqp_tx_commit   == Rpc("tx_commit", << >>, {"tx_commit_ok"})
amqp_tx_rollback == Rpc("tx_rollback", << >>, {"tx_rollback_ok"})

amqp_basic_qos(prefetch_size, prefetch_count, global) ==
    Rpc("basic_qos",
        [prefetch_size |-> prefetch_size, prefetch_count |-> prefetch_count,
         global |-> global],
        {"basic_qos_ok"})
=============================================================================
