----------------------------- MODULE AmqpFraming -----------------------------
(***************************************************************************)
(* The wire formats of AMQP 0-8 as the bundled librabbitmq has them        *)
(* (src/librabbitmq/amqp_framing.h and amqp_framing.c): for every method   *)
(* its number and C struct, and the order in which amqp_decode_method      *)
(* reads, and amqp_encode_method writes, the fields of that struct.  The   *)
(* two functions are separate code, and so are the two tables.             *)
(***************************************************************************)
EXTENDS Integers, TLC

\* C types of struct fields.
uint8_t        == "uint8_t"
uint16_t       == "uint16_t"
uint32_t       == "uint32_t"
uint64_t       == "uint64_t"
amqp_boolean_t == "amqp_boolean_t"
amqp_bytes_t   == "amqp_bytes_t"
amqp_table_t   == "amqp_table_t"

\* How a field goes over the wire: D_8 or E_8 and so on, bytes after a length
\* of one or of four bytes, a table, or a byte that packs booleans from bit 0.
u8(f)     == <<"u8", f>>
u16(f)    == <<"u16", f>>
u32(f)    == <<"u32", f>>
u64(f)    == <<"u64", f>>
str8(f)   == <<"str8", f>>
str32(f)  == <<"str32", f>>
table(f)  == <<"table", f>>
bits(fs)  == <<"bits", fs>>

-----------------------------------------------------------------------------
\* AMQP_..._METHOD and the struct of its arguments.

StructConnection == [
    connection_start |-> <<655370, [version_major |-> uint8_t,
        version_minor |-> uint8_t, server_properties |-> amqp_table_t,
        mechanisms |-> amqp_bytes_t, locales |-> amqp_bytes_t]>>,
    connection_start_ok |-> <<655371, [client_properties |-> amqp_table_t,
        mechanism |-> amqp_bytes_t, response |-> amqp_bytes_t,
        locale |-> amqp_bytes_t]>>,
    connection_secure |-> <<655380, [challenge |-> amqp_bytes_t]>>,
    connection_secure_ok |-> <<655381, [response |-> amqp_bytes_t]>>,
    connection_tune |-> <<655390, [channel_max |-> uint16_t,
        frame_max |-> uint32_t, heartbeat |-> uint16_t]>>,
    connection_tune_ok |-> <<655391, [channel_max |-> uint16_t,
        frame_max |-> uint32_t, heartbeat |-> uint16_t]>>,
    connection_open |-> <<655400, [virtual_host |-> amqp_bytes_t,
        capabilities |-> amqp_bytes_t, insist |-> amqp_boolean_t]>>,
    connection_open_ok |-> <<655401, [known_hosts |-> amqp_bytes_t]>>,
    connection_redirect |-> <<655410, [host |-> amqp_bytes_t,
        known_hosts |-> amqp_bytes_t]>>,
    connection_close |-> <<655420, [reply_code |-> uint16_t,
        reply_text |-> amqp_bytes_t, class_id |-> uint16_t,
        method_id |-> uint16_t]>>,
    connection_close_ok |-> <<655421, << >>>>]

StructChannel == [
    channel_open |-> <<1310730, [out_of_band |-> amqp_bytes_t]>>,
    channel_open_ok |-> <<1310731, << >>>>,
    channel_flow |-> <<1310740, [active |-> amqp_boolean_t]>>,
    channel_flow_ok |-> <<1310741, [active |-> amqp_boolean_t]>>,
    channel_alert |-> <<1310750, [reply_code |-> uint16_t,
        reply_text |-> amqp_bytes_t, details |-> amqp_table_t]>>,
    channel_close |-> <<1310760, [reply_code |-> uint16_t,
        reply_text |-> amqp_bytes_t, class_id |-> uint16_t,
        method_id |-> uint16_t]>>,
    channel_close_ok |-> <<1310761, << >>>>,
    access_request |-> <<1966090, [realm |-> amqp_bytes_t,
        exclusive |-> amqp_boolean_t, passive |-> amqp_boolean_t,
        active |-> amqp_boolean_t, write |-> amqp_boolean_t,
        read |-> amqp_boolean_t]>>,
    access_request_ok |-> <<1966091, [ticket |-> uint16_t]>>,
    exchange_declare |-> <<2621450, [ticket |-> uint16_t,
        exchange |-> amqp_bytes_t, type |-> amqp_bytes_t,
        passive |-> amqp_boolean_t, durable |-> amqp_boolean_t,
        auto_delete |-> amqp_boolean_t, internal |-> amqp_boolean_t,
        nowait |-> amqp_boolean_t, arguments |-> amqp_table_t]>>,
    exchange_declare_ok |-> <<2621451, << >>>>,
    exchange_delete |-> <<2621460, [ticket |-> uint16_t,
        exchange |-> amqp_bytes_t, if_unused |-> amqp_boolean_t,
        nowait |-> amqp_boolean_t]>>,
    exchange_delete_ok |-> <<2621461, << >>>>]

StructQueue == [
    queue_declare |-> <<3276810, [ticket |-> uint16_t, queue |-> amqp_bytes_t,
        passive |-> amqp_boolean_t, durable |-> amqp_boolean_t,
        exclusive |-> amqp_boolean_t, auto_delete |-> amqp_boolean_t,
        nowait |-> amqp_boolean_t, arguments |-> amqp_table_t]>>,
    queue_declare_ok |-> <<3276811, [queue |-> amqp_bytes_t,
        message_count |-> uint32_t, consumer_count |-> uint32_t]>>,
    queue_bind |-> <<3276820, [ticket |-> uint16_t, queue |-> amqp_bytes_t,
        exchange |-> amqp_bytes_t, routing_key |-> amqp_bytes_t,
        nowait |-> amqp_boolean_t, arguments |-> amqp_table_t]>>,
    queue_bind_ok |-> <<3276821, << >>>>,
    queue_purge |-> <<3276830, [ticket |-> uint16_t, queue |-> amqp_bytes_t,
        nowait |-> amqp_boolean_t]>>,
    queue_purge_ok |-> <<3276831, [message_count |-> uint32_t]>>,
    queue_delete |-> <<3276840, [ticket |-> uint16_t, queue |-> amqp_bytes_t,
        if_unused |-> amqp_boolean_t, if_empty |-> amqp_boolean_t,
        nowait |-> amqp_boolean_t]>>,
    queue_delete_ok |-> <<3276841, [message_count |-> uint32_t]>>,
    queue_unbind |-> <<3276850, [ticket |-> uint16_t, queue |-> amqp_bytes_t,
        exchange |-> amqp_bytes_t, routing_key |-> amqp_bytes_t,
        arguments |-> amqp_table_t]>>,
    queue_unbind_ok |-> <<3276851, << >>>>]

StructBasicConsume == [
    basic_qos |-> <<3932170, [prefetch_size |-> uint32_t,
        prefetch_count |-> uint16_t, global |-> amqp_boolean_t]>>,
    basic_qos_ok |-> <<3932171, << >>>>,
    basic_consume |-> <<3932180, [ticket |-> uint16_t, queue |-> amqp_bytes_t,
        consumer_tag |-> amqp_bytes_t, no_local |-> amqp_boolean_t,
        no_ack |-> amqp_boolean_t, exclusive |-> amqp_boolean_t,
        nowait |-> amqp_boolean_t]>>,
    basic_consume_ok |-> <<3932181, [consumer_tag |-> amqp_bytes_t]>>,
    basic_cancel |-> <<3932190, [consumer_tag |-> amqp_bytes_t,
        nowait |-> amqp_boolean_t]>>,
    basic_cancel_ok |-> <<3932191, [consumer_tag |-> amqp_bytes_t]>>]

StructBasicDeliver == [
    basic_publish |-> <<3932200, [ticket |-> uint16_t,
        exchange |-> amqp_bytes_t, routing_key |-> amqp_bytes_t,
        mandatory |-> amqp_boolean_t, immediate |-> amqp_boolean_t]>>,
    basic_return |-> <<3932210, [reply_code |-> uint16_t,
        reply_text |-> amqp_bytes_t, exchange |-> amqp_bytes_t,
        routing_key |-> amqp_bytes_t]>>,
    basic_deliver |-> <<3932220, [consumer_tag |-> amqp_bytes_t,
        delivery_tag |-> uint64_t, redelivered |-> amqp_boolean_t,
        exchange |-> amqp_bytes_t, routing_key |-> amqp_bytes_t]>>,
    basic_get |-> <<3932230, [ticket |-> uint16_t, queue |-> amqp_bytes_t,
        no_ack |-> amqp_boolean_t]>>,
    basic_get_ok |-> <<3932231, [delivery_tag |-> uint64_t,
        redelivered |-> amqp_boolean_t, exchange |-> amqp_bytes_t,
        routing_key |-> amqp_bytes_t, message_count |-> uint32_t]>>,
    basic_get_empty |-> <<3932232, [cluster_id |-> amqp_bytes_t]>>,
    basic_ack |-> <<3932240, [delivery_tag |-> uint64_t,
        multiple |-> amqp_boolean_t]>>,
    basic_reject |-> <<3932250, [delivery_tag |-> uint64_t,
        requeue |-> amqp_boolean_t]>>,
    basic_recover |-> <<3932260, [requeue |-> amqp_boolean_t]>>]

StructFileConsume == [
    file_qos |-> <<4587530, [prefetch_size |-> uint32_t,
        prefetch_count |-> uint16_t, global |-> amqp_boolean_t]>>,
    file_qos_ok |-> <<4587531, << >>>>,
    file_consume |-> <<4587540, [ticket |-> uint16_t, queue |-> amqp_bytes_t,
        consumer_tag |-> amqp_bytes_t, no_local |-> amqp_boolean_t,
        no_ack |-> amqp_boolean_t, exclusive |-> amqp_boolean_t,
        nowait |-> amqp_boolean_t]>>,
    file_consume_ok |-> <<4587541, [consumer_tag |-> amqp_bytes_t]>>,
    file_cancel |-> <<4587550, [consumer_tag |-> amqp_bytes_t,
        nowait |-> amqp_boolean_t]>>,
    file_cancel_ok |-> <<4587551, [consumer_tag |-> amqp_bytes_t]>>,
    file_open |-> <<4587560, [identifier |-> amqp_bytes_t,
        content_size |-> uint64_t]>>,
    file_open_ok |-> <<4587561, [staged_size |-> uint64_t]>>]

StructFileStage == [
    file_stage |-> <<4587570, << >>>>,
    file_publish |-> <<4587580, [ticket |-> uint16_t,
        exchange |-> amqp_bytes_t, routing_key |-> amqp_bytes_t,
        mandatory |-> amqp_boolean_t, immediate |-> amqp_boolean_t,
        identifier |-> amqp_bytes_t]>>,
    file_return |-> <<4587590, [reply_code |-> uint16_t,
        reply_text |-> amqp_bytes_t, exchange |-> amqp_bytes_t,
        routing_key |-> amqp_bytes_t]>>,
    file_deliver |-> <<4587600, [consumer_tag |-> amqp_bytes_t,
        delivery_tag |-> uint64_t, redelivered |-> amqp_boolean_t,
        exchange |-> amqp_bytes_t, routing_key |-> amqp_bytes_t,
        identifier |-> amqp_bytes_t]>>,
    file_ack |-> <<4587610, [delivery_tag |-> uint64_t,
        multiple |-> amqp_boolean_t]>>,
    file_reject |-> <<4587620, [delivery_tag |-> uint64_t,
        requeue |-> amqp_boolean_t]>>]

StructStream == [
    stream_qos |-> <<5242890, [prefetch_size |-> uint32_t,
        prefetch_count |-> uint16_t, consume_rate |-> uint32_t,
        global |-> amqp_boolean_t]>>,
    stream_qos_ok |-> <<5242891, << >>>>,
    stream_consume |-> <<5242900, [ticket |-> uint16_t,
        queue |-> amqp_bytes_t, consumer_tag |-> amqp_bytes_t,
        no_local |-> amqp_boolean_t, exclusive |-> amqp_boolean_t,
        nowait |-> amqp_boolean_t]>>,
    stream_consume_ok |-> <<5242901, [consumer_tag |-> amqp_bytes_t]>>,
    stream_cancel |-> <<5242910, [consumer_tag |-> amqp_bytes_t,
        nowait |-> amqp_boolean_t]>>,
    stream_cancel_ok |-> <<5242911, [consumer_tag |-> amqp_bytes_t]>>,
    stream_publish |-> <<5242920, [ticket |-> uint16_t,
        exchange |-> amqp_bytes_t, routing_key |-> amqp_bytes_t,
        mandatory |-> amqp_boolean_t, immediate |-> amqp_boolean_t]>>,
    stream_return |-> <<5242930, [reply_code |-> uint16_t,
        reply_text |-> amqp_bytes_t, exchange |-> amqp_bytes_t,
        routing_key |-> amqp_bytes_t]>>,
    stream_deliver |-> <<5242940, [consumer_tag |-> amqp_bytes_t,
        delivery_tag |-> uint64_t, exchange |-> amqp_bytes_t,
        queue |-> amqp_bytes_t]>>]

StructTx == [
    tx_select |-> <<5898250, << >>>>,
    tx_select_ok |-> <<5898251, << >>>>,
    tx_commit |-> <<5898260, << >>>>,
    tx_commit_ok |-> <<5898261, << >>>>,
    tx_rollback |-> <<5898270, << >>>>,
    tx_rollback_ok |-> <<5898271, << >>>>,
    dtx_select |-> <<6553610, << >>>>,
    dtx_select_ok |-> <<6553611, << >>>>,
    dtx_start |-> <<6553620, [dtx_identifier |-> amqp_bytes_t]>>,
    dtx_start_ok |-> <<6553621, << >>>>,
    tunnel_request |-> <<7208970, [meta_data |-> amqp_table_t]>>,
    test_integer |-> <<7864330, [integer_1 |-> uint8_t,
        integer_2 |-> uint16_t, integer_3 |-> uint32_t,
        integer_4 |-> uint64_t, operation |-> uint8_t]>>,
    test_integer_ok |-> <<7864331, [result |-> uint64_t]>>,
    test_string |-> <<7864340, [string_1 |-> amqp_bytes_t,
        string_2 |-> amqp_bytes_t, operation |-> uint8_t]>>,
    test_string_ok |-> <<7864341, [result |-> amqp_bytes_t]>>,
    test_table |-> <<7864350, [table |-> amqp_table_t, integer_op |-> uint8_t,
        string_op |-> uint8_t]>>,
    test_table_ok |-> <<7864351, [integer_result |-> uint64_t,
        string_result |-> amqp_bytes_t]>>,
    test_content |-> <<7864360, << >>>>,
    test_content_ok |-> <<7864361, [content_checksum |-> uint32_t]>>]

\* One table after the other; no method is in two of them.
And(f, g) ==
    [m \in DOMAIN f \cup DOMAIN g |-> IF m \in DOMAIN f THEN f[m] ELSE g[m]]
Struct ==
    And(StructConnection, And(StructChannel, And(StructQueue,
    And(StructBasicConsume, And(StructBasicDeliver, And(StructFileConsume,
    And(StructFileStage, And(StructStream, StructTx))))))))

\* amqp_method_name: the method with a number, "NULL" if there is none.
Methods == DOMAIN Struct
MethodNumber(m) == Struct[m][1]
Numbers(ms) == {MethodNumber(m) : m \in ms}
MethodNumbers == Numbers(Methods)
amqp_method_name(n) ==
    CHOOSE m \in Methods \cup {"NULL"} :
        IF n \in MethodNumbers THEN m # "NULL" /\ MethodNumber(m) = n ELSE m = "NULL"

\* amqp_method_has_content.
HasContent == {"basic_publish", "basic_return", "basic_deliver",
    "basic_get_ok", "file_stage", "file_return", "stream_publish",
    "stream_return", "stream_deliver", "tunnel_request", "test_content",
    "test_content_ok"}

-----------------------------------------------------------------------------
\* amqp_decode_method, case by case.

DecodeConnection == [
    connection_start |-> <<u8("version_major"), u8("version_minor"),
        table("server_properties"), str32("mechanisms"), str32("locales")>>,
    connection_start_ok |-> <<table("client_properties"), str8("mechanism"),
        str32("response"), str8("locale")>>,
    connection_secure |-> <<str32("challenge")>>,
    connection_secure_ok |-> <<str32("response")>>,
    connection_tune |-> <<u16("channel_max"), u32("frame_max"),
        u16("heartbeat")>>,
    connection_tune_ok |-> <<u16("channel_max"), u32("frame_max"),
        u16("heartbeat")>>,
    connection_open |-> <<str8("virtual_host"), str8("capabilities"),
        bits(<<"insist">>)>>,
    connection_open_ok |-> <<str8("known_hosts")>>,
    connection_redirect |-> <<str8("host"), str8("known_hosts")>>,
    connection_close |-> <<u16("reply_code"), str8("reply_text"),
        u16("class_id"), u16("method_id")>>,
    connection_close_ok |-> << >>]

DecodeChannel == [
    channel_open |-> <<str8("out_of_band")>>,
    channel_open_ok |-> << >>,
    channel_flow |-> <<bits(<<"active">>)>>,
    channel_flow_ok |-> <<bits(<<"active">>)>>,
    channel_alert |-> <<u16("reply_code"), str8("reply_text"),
        table("details")>>,
    channel_close |-> <<u16("reply_code"), str8("reply_text"),
        u16("class_id"), u16("method_id")>>,
    channel_close_ok |-> << >>,
    access_request |-> <<str8("realm"),
        bits(<<"exclusive", "passive", "active", "write", "read">>)>>,
    access_request_ok |-> <<u16("ticket")>>,
    exchange_declare |-> <<u16("ticket"), str8("exchange"), str8("type"),
        bits(<<"passive", "durable", "auto_delete", "internal", "nowait">>),
        table("arguments")>>,
    exchange_declare_ok |-> << >>,
    exchange_delete |-> <<u16("ticket"), str8("exchange"),
        bits(<<"if_unused", "nowait">>)>>,
    exchange_delete_ok |-> << >>]

DecodeQueue == [
    queue_declare |-> <<u16("ticket"), str8("queue"),
        bits(<<"passive", "durable", "exclusive", "auto_delete", "nowait">>),
        table("arguments")>>,
    queue_declare_ok |-> <<str8("queue"), u32("message_count"),
        u32("consumer_count")>>,
    queue_bind |-> <<u16("ticket"), str8("queue"), str8("exchange"),
        str8("routing_key"), bits(<<"nowait">>), table("arguments")>>,
    queue_bind_ok |-> << >>,
    queue_purge |-> <<u16("ticket"), str8("queue"), bits(<<"nowait">>)>>,
    queue_purge_ok |-> <<u32("message_count")>>,
    queue_delete |-> <<u16("ticket"), str8("queue"),
        bits(<<"if_unused", "if_empty", "nowait">>)>>,
    queue_delete_ok |-> <<u32("message_count")>>,
    queue_unbind |-> <<u16("ticket"), str8("queue"), str8("exchange"),
        str8("routing_key"), table("arguments")>>,
    queue_unbind_ok |-> << >>]

DecodeBasicConsume == [
    basic_qos |-> <<u32("prefetch_size"), u16("prefetch_count"),
        bits(<<"global">>)>>,
    basic_qos_ok |-> << >>,
    basic_consume |-> <<u16("ticket"), str8("queue"), str8("consumer_tag"),
        bits(<<"no_local", "no_ack", "exclusive", "nowait">>)>>,
    basic_consume_ok |-> <<str8("consumer_tag")>>,
    basic_cancel |-> <<str8("consumer_tag"), bits(<<"nowait">>)>>,
    basic_cancel_ok |-> <<str8("consumer_tag")>>]

DecodeBasicDeliver == [
    basic_publish |-> <<u16("ticket"), str8("exchange"), str8("routing_key"),
        bits(<<"mandatory", "immediate">>)>>,
    basic_return |-> <<u16("reply_code"), str8("reply_text"),
        str8("exchange"), str8("routing_key")>>,
    basic_deliver |-> <<str8("consumer_tag"), u64("delivery_tag"),
        bits(<<"redelivered">>), str8("exchange"), str8("routing_key")>>,
    basic_get |-> <<u16("ticket"), str8("queue"), bits(<<"no_ack">>)>>,
    basic_get_ok |-> <<u64("delivery_tag"), bits(<<"redelivered">>),
        str8("exchange"), str8("routing_key"), u32("message_count")>>,
    basic_get_empty |-> <<str8("cluster_id")>>,
    basic_ack |-> <<u64("delivery_tag"), bits(<<"multiple">>)>>,
    basic_reject |-> <<u64("delivery_tag"), bits(<<"requeue">>)>>,
    basic_recover |-> <<bits(<<"requeue">>)>>]

DecodeFileConsume == [
    file_qos |-> <<u32("prefetch_size"), u16("prefetch_count"),
        bits(<<"global">>)>>,
    file_qos_ok |-> << >>,
    file_consume |-> <<u16("ticket"), str8("queue"), str8("consumer_tag"),
        bits(<<"no_local", "no_ack", "exclusive", "nowait">>)>>,
    file_consume_ok |-> <<str8("consumer_tag")>>,
    file_cancel |-> <<str8("consumer_tag"), bits(<<"nowait">>)>>,
    file_cancel_ok |-> <<str8("consumer_tag")>>,
    file_open |-> <<str8("identifier"), u64("content_size")>>,
    file_open_ok |-> <<u64("staged_size")>>]

DecodeFileStage == [
    file_stage |-> << >>,
    file_publish |-> <<u16("ticket"), str8("exchange"), str8("routing_key"),
        bits(<<"mandatory", "immediate">>), str8("identifier")>>,
    file_return |-> <<u16("reply_code"), str8("reply_text"), str8("exchange"),
        str8("routing_key")>>,
    file_deliver |-> <<str8("consumer_tag"), u64("delivery_tag"),
        bits(<<"redelivered">>), str8("exchange"), str8("routing_key"),
        str8("identifier")>>,
    file_ack |-> <<u64("delivery_tag"), bits(<<"multiple">>)>>,
    file_reject |-> <<u64("delivery_tag"), bits(<<"requeue">>)>>]

DecodeStream == [
    stream_qos |-> <<u32("prefetch_size"), u16("prefetch_count"),
        u32("consume_rate"), bits(<<"global">>)>>,
    stream_qos_ok |-> << >>,
    stream_consume |-> <<u16("ticket"), str8("queue"), str8("consumer_tag"),
        bits(<<"no_local", "exclusive", "nowait">>)>>,
    stream_consume_ok |-> <<str8("consumer_tag")>>,
    stream_cancel |-> <<str8("consumer_tag"), bits(<<"nowait">>)>>,
    stream_cancel_ok |-> <<str8("consumer_tag")>>,
    stream_publish |-> <<u16("ticket"), str8("exchange"), str8("routing_key"),
        bits(<<"mandatory", "immediate">>)>>,
    stream_return |-> <<u16("reply_code"), str8("reply_text"),
        str8("exchange"), str8("routing_key")>>,
    stream_deliver |-> <<str8("consumer_tag"), u64("delivery_tag"),
        str8("exchange"), str8("queue")>>]

DecodeTx == [
    tx_select |-> << >>,
    tx_select_ok |-> << >>,
    tx_commit |-> << >>,
    tx_commit_ok |-> << >>,
    tx_rollback |-> << >>,
    tx_rollback_ok |-> << >>,
    dtx_select |-> << >>,
    dtx_select_ok |-> << >>,
    dtx_start |-> <<str8("dtx_identifier")>>,
    dtx_start_ok |-> << >>,
    tunnel_request |-> <<table("meta_data")>>,
    test_integer |-> <<u8("integer_1"), u16("integer_2"), u32("integer_3"),
        u64("integer_4"), u8("operation")>>,
    test_integer_ok |-> <<u64("result")>>,
    test_string |-> <<str8("string_1"), str32("string_2"), u8("operation")>>,
    test_string_ok |-> <<str32("result")>>,
    test_table |-> <<table("table"), u8("integer_op"), u8("string_op")>>,
    test_table_ok |-> <<u64("integer_result"), str32("string_result")>>,
    test_content |-> << >>,
    test_content_ok |-> <<u32("content_checksum")>>]

DecodeLayout ==
    DecodeConnection @@ DecodeChannel @@ DecodeQueue @@ DecodeBasicConsume @@
    DecodeBasicDeliver @@ DecodeFileConsume @@ DecodeFileStage @@
    DecodeStream @@ DecodeTx

-----------------------------------------------------------------------------
\* amqp_encode_method, case by case.

EncodeConnection == [
    connection_start |-> <<u8("version_major"), u8("version_minor"),
        table("server_properties"), str32("mechanisms"), str32("locales")>>,
    connection_start_ok |-> <<table("client_properties"), str8("mechanism"),
        str32("response"), str8("locale")>>,
    connection_secure |-> <<str32("challenge")>>,
    connection_secure_ok |-> <<str32("response")>>,
    connection_tune |-> <<u16("channel_max"), u32("frame_max"),
        u16("heartbeat")>>,
    connection_tune_ok |-> <<u16("channel_max"), u32("frame_max"),
        u16("heartbeat")>>,
    connection_open |-> <<str8("virtual_host"), str8("capabilities"),
        bits(<<"insist">>)>>,
    connection_open_ok |-> <<str8("known_hosts")>>,
    connection_redirect |-> <<str8("host"), str8("known_hosts")>>,
    connection_close |-> <<u16("reply_code"), str8("reply_text"),
        u16("class_id"), u16("method_id")>>,
    connection_close_ok |-> << >>]

EncodeChannel == [
    channel_open |-> <<str8("out_of_band")>>,
    channel_open_ok |-> << >>,
    channel_flow |-> <<bits(<<"active">>)>>,
    channel_flow_ok |-> <<bits(<<"active">>)>>,
    channel_alert |-> <<u16("reply_code"), str8("reply_text"),
        table("details")>>,
    channel_close |-> <<u16("reply_code"), str8("reply_text"),
        u16("class_id"), u16("method_id")>>,
    channel_close_ok |-> << >>,
    access_request |-> <<str8("realm"),
        bits(<<"exclusive", "passive", "active", "write", "read">>)>>,
    access_request_ok |-> <<u16("ticket")>>,
    exchange_declare |-> <<u16("ticket"), str8("exchange"), str8("type"),
        bits(<<"passive", "durable", "auto_delete", "internal", "nowait">>),
        table("arguments")>>,
    exchange_declare_ok |-> << >>,
    exchange_delete |-> <<u16("ticket"), str8("exchange"),
        bits(<<"if_unused", "nowait">>)>>,
    exchange_delete_ok |-> << >>]

EncodeQueue == [
    queue_declare |-> <<u16("ticket"), str8("queue"),
        bits(<<"passive", "durable", "exclusive", "auto_delete", "nowait">>),
        table("arguments")>>,
    queue_declare_ok |-> <<str8("queue"), u32("message_count"),
        u32("consumer_count")>>,
    queue_bind |-> <<u16("ticket"), str8("queue"), str8("exchange"),
        str8("routing_key"), bits(<<"nowait">>), table("arguments")>>,
    queue_bind_ok |-> << >>,
    queue_purge |-> <<u16("ticket"), str8("queue"), bits(<<"nowait">>)>>,
    queue_purge_ok |-> <<u32("message_count")>>,
    queue_delete |-> <<u16("ticket"), str8("queue"),
        bits(<<"if_unused", "if_empty", "nowait">>)>>,
    queue_delete_ok |-> <<u32("message_count")>>,
    queue_unbind |-> <<u16("ticket"), str8("queue"), str8("exchange"),
        str8("routing_key"), table("arguments")>>,
    queue_unbind_ok |-> << >>]

EncodeBasicConsume == [
    basic_qos |-> <<u32("prefetch_size"), u16("prefetch_count"),
        bits(<<"global">>)>>,
    basic_qos_ok |-> << >>,
    basic_consume |-> <<u16("ticket"), str8("queue"), str8("consumer_tag"),
        bits(<<"no_local", "no_ack", "exclusive", "nowait">>)>>,
    basic_consume_ok |-> <<str8("consumer_tag")>>,
    basic_cancel |-> <<str8("consumer_tag"), bits(<<"nowait">>)>>,
    basic_cancel_ok |-> <<str8("consumer_tag")>>]

EncodeBasicDeliver == [
    basic_publish |-> <<u16("ticket"), str8("exchange"), str8("routing_key"),
        bits(<<"mandatory", "immediate">>)>>,
    basic_return |-> <<u16("reply_code"), str8("reply_text"),
        str8("exchange"), str8("routing_key")>>,
    basic_deliver |-> <<str8("consumer_tag"), u64("delivery_tag"),
        bits(<<"redelivered">>), str8("exchange"), str8("routing_key")>>,
    basic_get |-> <<u16("ticket"), str8("queue"), bits(<<"no_ack">>)>>,
    basic_get_ok |-> <<u64("delivery_tag"), bits(<<"redelivered">>),
        str8("exchange"), str8("routing_key"), u32("message_count")>>,
    basic_get_empty |-> <<str8("cluster_id")>>,
    basic_ack |-> <<u64("delivery_tag"), bits(<<"multiple">>)>>,
    basic_reject |-> <<u64("delivery_tag"), bits(<<"requeue">>)>>,
    basic_recover |-> <<bits(<<"requeue">>)>>]

EncodeFileConsume == [
    file_qos |-> <<u32("prefetch_size"), u16("prefetch_count"),
        bits(<<"global">>)>>,
    file_qos_ok |-> << >>,
    file_consume |-> <<u16("ticket"), str8("queue"), str8("consumer_tag"),
        bits(<<"no_local", "no_ack", "exclusive", "nowait">>)>>,
    file_consume_ok |-> <<str8("consumer_tag")>>,
    file_cancel |-> <<str8("consumer_tag"), bits(<<"nowait">>)>>,
    file_cancel_ok |-> <<str8("consumer_tag")>>,
    file_open |-> <<str8("identifier"), u64("content_size")>>,
    file_open_ok |-> <<u64("staged_size")>>]

EncodeFileStage == [
    file_stage |-> << >>,
    file_publish |-> <<u16("ticket"), str8("exchange"), str8("routing_key"),
        bits(<<"mandatory", "immediate">>), str8("identifier")>>,
    file_return |-> <<u16("reply_code"), str8("reply_text"), str8("exchange"),
        str8("routing_key")>>,
    file_deliver |-> <<str8("consumer_tag"), u64("delivery_tag"),
        bits(<<"redelivered">>), str8("exchange"), str8("routing_key"),
        str8("identifier")>>,
    file_ack |-> <<u64("delivery_tag"), bits(<<"multiple">>)>>,
    file_reject |-> <<u64("delivery_tag"), bits(<<"requeue">>)>>]

EncodeStream == [
    stream_qos |-> <<u32("prefetch_size"), u16("prefetch_count"),
        u32("consume_rate"), bits(<<"global">>)>>,
    stream_qos_ok |-> << >>,
    stream_consume |-> <<u16("ticket"), str8("queue"), str8("consumer_tag"),
        bits(<<"no_local", "exclusive", "nowait">>)>>,
    stream_consume_ok |-> <<str8("consumer_tag")>>,
    stream_cancel |-> <<str8("consumer_tag"), bits(<<"nowait">>)>>,
    stream_cancel_ok |-> <<str8("consumer_tag")>>,
    stream_publish |-> <<u16("ticket"), str8("exchange"), str8("routing_key"),
        bits(<<"mandatory", "immediate">>)>>,
    stream_return |-> <<u16("reply_code"), str8("reply_text"),
        str8("exchange"), str8("routing_key")>>,
    stream_deliver |-> <<str8("consumer_tag"), u64("delivery_tag"),
        str8("exchange"), str8("queue")>>]

EncodeTx == [
    tx_select |-> << >>,
    tx_select_ok |-> << >>,
    tx_commit |-> << >>,
    tx_commit_ok |-> << >>,
    tx_rollback |-> << >>,
    tx_rollback_ok |-> << >>,
    dtx_select |-> << >>,
    dtx_select_ok |-> << >>,
    dtx_start |-> <<str8("dtx_identifier")>>,
    dtx_start_ok |-> << >>,
    tunnel_request |-> <<table("meta_data")>>,
    test_integer |-> <<u8("integer_1"), u16("integer_2"), u32("integer_3"),
        u64("integer_4"), u8("operation")>>,
    test_integer_ok |-> <<u64("result")>>,
    test_string |-> <<str8("string_1"), str32("string_2"), u8("operation")>>,
    test_string_ok |-> <<str32("result")>>,
    test_table |-> <<table("table"), u8("integer_op"), u8("string_op")>>,
    test_table_ok |-> <<u64("integer_result"), str32("string_result")>>,
    test_content |-> << >>,
    test_content_ok |-> <<u32("content_checksum")>>]

EncodeLayout ==
    EncodeConnection @@ EncodeChannel @@ EncodeQueue @@ EncodeBasicConsume @@
    EncodeBasicDeliver @@ EncodeFileConsume @@ EncodeFileStage @@
    EncodeStream @@ EncodeTx

-----------------------------------------------------------------------------
\* The properties of each class that carries content: the bit of _flags that
\* says a field is present, and its C type.

ClassNumbers == {10 * k : k \in 1..12}
ClassStruct ==
       10 :> << >>
    @@ 20 :> << >>
    @@ 30 :> << >>
    @@ 40 :> << >>
    @@ 50 :> << >>
    @@ 60 :> [content_type |-> <<15, amqp_bytes_t>>,
            content_encoding |-> <<14, amqp_bytes_t>>,
            headers |-> <<13, amqp_table_t>>,
            delivery_mode |-> <<12, uint8_t>>, priority |-> <<11, uint8_t>>,
            correlation_id |-> <<10, amqp_bytes_t>>,
            reply_to |-> <<9, amqp_bytes_t>>,
            expiration |-> <<8, amqp_bytes_t>>,
            message_id |-> <<7, amqp_bytes_t>>, timestamp |-> <<6, uint64_t>>,
            type |-> <<5, amqp_bytes_t>>, user_id |-> <<4, amqp_bytes_t>>,
            app_id |-> <<3, amqp_bytes_t>>,
            cluster_id |-> <<2, amqp_bytes_t>>]
    @@ 70 :> [content_type |-> <<15, amqp_bytes_t>>,
            content_encoding |-> <<14, amqp_bytes_t>>,
            headers |-> <<13, amqp_table_t>>, priority |-> <<12, uint8_t>>,
            reply_to |-> <<11, amqp_bytes_t>>,
            message_id |-> <<10, amqp_bytes_t>>,
            filename |-> <<9, amqp_bytes_t>>, timestamp |-> <<8, uint64_t>>,
            cluster_id |-> <<7, amqp_bytes_t>>]
    @@ 80 :> [content_type |-> <<15, amqp_bytes_t>>,
            content_encoding |-> <<14, amqp_bytes_t>>,
            headers |-> <<13, amqp_table_t>>, priority |-> <<12, uint8_t>>,
            timestamp |-> <<11, uint64_t>>]
    @@ 90 :> << >>
    @@ 100 :> << >>
    @@ 110 :> [headers |-> <<15, amqp_table_t>>,
            proxy_name |-> <<14, amqp_bytes_t>>,
            data_name |-> <<13, amqp_bytes_t>>, durable |-> <<12, uint8_t>>,
            broadcast |-> <<11, uint8_t>>]
    @@ 120 :> << >>

\* amqp_decode_properties and amqp_encode_properties, case by case: every field
\* under an "if (flags & ...)".

DecodeBasicProperties == <<str8("content_type"), str8("content_encoding"),
    table("headers"), u8("delivery_mode"), u8("priority"),
    str8("correlation_id"), str8("reply_to"), str8("expiration"),
    str8("message_id"), u64("timestamp"), str8("type"), str8("user_id"),
    str8("app_id"), str8("cluster_id")>>

DecodeProperties ==
       10 :> << >>
    @@ 20 :> << >>
    @@ 30 :> << >>
    @@ 40 :> << >>
    @@ 50 :> << >>
    @@ 60 :> DecodeBasicProperties
    @@ 70 :> <<str8("content_type"), str8("content_encoding"),
            table("headers"), u8("priority"), str8("reply_to"),
            str8("message_id"), str8("filename"), u64("timestamp"),
            str8("cluster_id")>>
    @@ 80 :> <<str8("content_type"), str8("content_encoding"),
            table("headers"), u8("priority"), u64("timestamp")>>
    @@ 90 :> << >>
    @@ 100 :> << >>
    @@ 110 :> <<table("headers"), str8("proxy_name"), str8("data_name"),
            u8("durable"), u8("broadcast")>>
    @@ 120 :> << >>

EncodeBasicProperties == <<str8("content_type"), str8("content_encoding"),
    table("headers"), u8("delivery_mode"), u8("priority"),
    str8("correlation_id"), str8("reply_to"), str8("expiration"),
    str8("message_id"), u64("timestamp"), str8("type"), str8("user_id"),
    str8("app_id"), str8("cluster_id")>>

EncodeProperties ==
       10 :> << >>
    @@ 20 :> << >>
    @@ 30 :> << >>
    @@ 40 :> << >>
    @@ 50 :> << >>
    @@ 60 :> EncodeBasicProperties
    @@ 70 :> <<str8("content_type"), str8("content_encoding"),
            table("headers"), u8("priority"), str8("reply_to"),
            str8("message_id"), str8("filename"), u64("timestamp"),
            str8("cluster_id")>>
    @@ 80 :> <<str8("content_type"), str8("content_encoding"),
            table("headers"), u8("priority"), u64("timestamp")>>
    @@ 90 :> << >>
    @@ 100 :> << >>
    @@ 110 :> <<table("headers"), str8("proxy_name"), str8("data_name"),
            u8("durable"), u8("broadcast")>>
    @@ 120 :> << >>

=============================================================================
