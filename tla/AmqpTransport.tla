---------------------------- MODULE AmqpTransport ----------------------------
(***************************************************************************)
(* How the bundled librabbitmq gets a byte stream: amqp_open_socket and    *)
(* amqp_ssl_handshake of src/librabbitmq/amqp_socket.c.  What the kernel   *)
(* and OpenSSL answer is a parameter.                                      *)
(***************************************************************************)
EXTENDS Integers, Sequences, FiniteSets

\* What may happen with an address: socket() or fcntl() fails, connect() fails
\* at once, poll() times out, SO_ERROR reports a failure; or connect() succeeds,
\* SO_ERROR reports none, or cannot be read.
Outcomes == {"no_socket", "no_flags", "refused", "timeout", "so_error",
             "connected", "so_ok", "no_so_error"}
Good == {"connected", "so_ok", "no_so_error"}

\* Descriptors are numbered from 1, as the lowest that is free.
Closed(o) == o \in {"no_flags", "refused", "timeout", "so_error"}
Opened(o) == o # "no_socket"

\* The addresses of a host in turn up to the first good one, which is then put
\* back into blocking mode unless that fails.
amqp_open_socket(addrs, blocking) ==
    LET tried == {i \in 1..Len(addrs) : \A j \in 1..(i - 1) : addrs[j] \notin Good}
        good  == {i \in tried : addrs[i] \in Good}
        left  == {i \in tried : Opened(addrs[i]) /\ ~Closed(addrs[i])}
        n     == Cardinality(left)
    IN  IF good = {} THEN [fd |-> 0, open |-> 1..n]
        ELSE IF ~blocking THEN [fd |-> 0, open |-> 1..(n - 1)]
        ELSE [fd |-> n, open |-> 1..n]

\* Where the TLS handshake ends: at a step that fails, or done.
TlsEnds(verify_peer) ==
    {"ctx_new", "client_cert", "ssl_new", "connect", "done"}
    \cup (IF verify_peer THEN {"verify_locations", "set1_host"} ELSE {})

\* The objects the calls up to there have made, and those freed on that path: the
\* context by the exits before SSL_new and then, whatever SSL_new has returned,
\* right behind it; the SSL object by the two exits that follow.
TlsMade(end) ==
    CASE end = "ctx_new" -> {}
      [] end \in {"verify_locations", "client_cert", "ssl_new"} -> {"SSL_CTX"}
      [] end \in {"set1_host", "connect", "done"} -> {"SSL_CTX", "SSL"}
TlsFrees(end) ==
    CASE end = "ctx_new" -> {}
      [] end = "verify_locations" -> {"SSL_CTX"}
      [] end = "client_cert" -> {"SSL_CTX"}
      [] end \in {"ssl_new", "done"} -> {"SSL_CTX"}
      [] end = "set1_host" -> {"SSL_CTX", "SSL"}
      [] end = "connect" -> {"SSL_CTX", "SSL"}

amqp_ssl_handshake(end) ==
    [ssl |-> end = "done", alive |-> TlsMade(end) \ TlsFrees(end)]
=============================================================================
