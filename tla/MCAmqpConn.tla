----------------------------- MODULE MCAmqpConn -----------------------------
EXTENDS AmqpConn

\* A call with two replies, and one whose caller asks for none.
Asked == {amqp_basic_get(1, <<1>>, 1), amqp_queue_purge(1, <<1>>, 1)}

\* A host with no address, with none that answers, and with one that does.
Hosts == {<< >>, <<"timeout", "refused">>} \cup {<<o, "so_ok">> : o \in Outcomes}
=============================================================================
