# pg_amqp in TLA+

`pg_amqp` is a PostgreSQL extension with which SQL statements publish messages
to AMQP brokers. The interesting part of it is a promise about two systems at
once: a message published with `amqp.publish()` becomes visible at the broker
if, and only if, the surrounding PostgreSQL transaction commits. PostgreSQL,
the broker and the network between them fail independently, and the code that
connects them runs in callbacks after the transaction has already ended.

This directory holds TLA+ modules that model the extension, TLC configurations
that check them on small instances, and TLAPS proofs for every instance. Paths
below are relative to the repository, `src/`.

## The system

| Part | State | Operations | Source |
|------|-------|------------|--------|
| publishing | `struct brokerstate` per broker and backend: `conn`, `uncommitted`, `inerror`, `blocked` | `publish` (channel 2, tx mode), `autonomous_publish` (channel 1) | `src/pg_amqp.c` 802-937 |
| transaction callbacks | the same records | COMMIT flushes, ABORT rolls back, PRE_PREPARE refuses, a savepoint rollback poisons | 274-389 |
| frame drain | frames on their way, `blocked` | reads returns, alarms and closes before a publish, after a mandatory autonomous publish, before `tx.commit` | 221-272 |
| declare, disconnect, exit | the same records | `exchange_declare`, `disconnect`, `amqp_atexit` | 391-397, 747-801 |
| connection and failover | `hosts`, `nhosts`, `idx`, `consecutive_failures`, `last_failed_connect` | load the host list, rotate, handshake, budget, backoff | 433-746 |
| outbox | table `amqp.outbox` | `publish_outbox`, `publish_outbox_batch` | `sql/functions/functions.sql` 81-147, `sql/tables/tables.sql` |
| GUCs | six integers | read by the parts above | 97-131, 399-431 |
| librabbitmq: codec | none | encode and decode methods, properties, tables | `src/librabbitmq/amqp_framing.[ch]`, `amqp_table.c`, `amqp_private.h` |
| librabbitmq: sending | `outbound_buffer`, the socket | 17 calls, fragments of a message, frames to bytes | `amqp_api.c`, `amqp_connection.c` 310-438, `amqp_socket.c` 265-277 |
| librabbitmq: reading | `inbound_buffer`, `target_size`, `state`, `sock_inbound_buffer`, queued frames | `amqp_handle_input`, the waits, the RPC, the login | `amqp_connection.c` 30-308, `amqp_socket.c` 113-502 |
| librabbitmq: memory | pages, large blocks, position | init, alloc, recycle, empty | `amqp_mem.c` |
| librabbitmq: transport | descriptors, TLS objects | `amqp_open_socket`, `amqp_ssl_handshake` | `amqp_socket.c` 24-111, 504-585 |
| upgrade scripts | - | DDL | `updates/` |

How they interact. A backend is one thread: a call runs from its start to its
end, and the callbacks run between calls. All calls and callbacks of a backend
share the `brokerstate` of a broker, and channels 1 and 2 share its connection;
this is where most of the trouble comes from, since dropping the connection for
the sake of one channel takes the buffer of the other with it. The broker and
the network act between any two socket operations: frames arrive, channels and
connections are closed, the peer vanishes without a word. A query cancel (or
`statement_timeout`) is taken in every `elog(WARNING)`, because `errfinish` ends
in `CHECK_FOR_INTERRUPTS`, and turns it into an `ERROR` that leaves the C
function at that line; in the callbacks interrupts are held off. The outbox
relay calls `autonomous_publish` for rows other sessions have committed.

The client library the repository carries in `src/librabbitmq` was the one the
extension was linked with up to 0.5.0; since then the system's rabbitmq-c takes
its place (`Makefile` 14-26, `CHANGELOG` 22) and the copy stays in the tree. It
is a component of its own here. Where the extension uses a client library, its
models keep to what the calls report and not to this copy.

What is hard, and hard to test: what each place that drops a connection does to
the buffer counted on it; a savepoint rollback that AMQP's flat transactions
cannot express; answers that arrive after a timeout; close frames that are read
and ignored; cancels in the middle of a handshake or of filling a cache; several
brokers in one transaction, of which one fails; crashes between PostgreSQL's
commit and the flush; two relays on the same rows. In the client library: reads
and timeouts that cut a frame anywhere, writes that are taken in part, frames
that arrive while a call waits for another, memory of frames that is released as
a whole, and two tables of 91 methods, of which one has to read what the
other writes. `PROJECT.json` lists these as
hazards, each at its line with the properties that cover it.

## Modules

| Module | What it is |
|--------|------------|
| `PgAmqp` | one backend, its connections and the brokers at their other end |
| `PgAmqp_proofs` | theorems about `PgAmqp`: types, visibility, buffers |
| `PgAmqp_accounts_proofs` | theorems about `PgAmqp`: what becomes of acknowledged messages, the counter, the timeouts |
| `PgAmqp_promise_proofs` | `PgAmqp` implements `TxPublish` |
| `Failover` | `local_amqp_get_bs` for one broker: hosts, rotation, budget, backoff |
| `Failover_proofs` | theorems about `Failover` |
| `Outbox` | the outbox table, application transactions and relay workers |
| `Outbox_proofs` | theorems about `Outbox` |
| `TxPublish` | the promise of a transactional publish; `PgAmqp` implements it |
| `AmqpBytes` | bytes, numbers in network order, limits |
| `AmqpFraming` | the numbers, structs and layouts of all methods and properties, as tables |
| `AmqpCodec` | the encoder and the decoder that go over those tables, and field tables |
| `AmqpApi` | the calls of `amqp_api.c`: what each sends and the replies it waits for |
| `AmqpSend` | the sending half of a connection and a peer that decodes |
| `AmqpPool` | the memory pools on a heap of blocks |
| `AmqpPool_proofs` | what a pool promises about the memory it hands out |
| `AmqpTransport` | opening the socket and the TLS handshake, path by path |
| `AmqpConn` | the reading half: frame reader, RPC, login, on `AmqpPool` and `AmqpTransport`, with a broker |
| `AmqpConn_proofs` | theorems about `AmqpConn`: memory, descriptors, the order of frames |
| `AmqpConn_stream_proofs` | theorems about `AmqpConn`: the stream, the login, the replies |
| `FrameChannel` | frames in order, each once; `AmqpSend` and `AmqpConn` implement it |
| `MC...` | instances for TLC: symmetry and a view, calls with their arguments, hosts |

Operators whose name ends in `_Bug` (and `NextIdx_Stuck`) are faulty variants of
the operator that follows them. Nothing uses them; they document the change
that would break a property.

### PgAmqp

`bs` is the list `HEAD_BS`; a broker that has not been used yet has the record
`local_amqp_get_a_bs` would create, which every loop over the list skips. `link`
is the connection behind `bs->conn` as the broker and the network have it: which
channels are closed, whether channel 2 is in tx mode, the frames in flight, the
transactional buffer, and the timeout the socket is on. `pc`, `cur` and `call`
say where the backend stands. `fate`, `level`, `counted`, `delivered`, `leaked`
and `lost` are history: no action's guard reads them, except that a message is
published at most once (`fate[m] = "unused"`).

Calls are split at each socket operation:

| Code | Actions |
|------|---------|
| `pg_amqp_publish_opt` | `PublishCall`, `RefuseEarly`, `PublishRefused`, `PublishReady`, drain, `Redo`, `GiveUp`, `PublishBlocked`, `SendAccepted`, `SendIgnored`, `SendFailed`, `Published` |
| `local_amqp_get_bs` | `Connect`, `ConnectInterrupted`, or no step at all |
| `local_amqp_drain_returns` | `DrainAlarm`, `DrainInterrupted`, `DrainClose`, `DrainEnd` |
| `pg_amqp_exchange_declare` | `DeclareCall`, `DeclareEnd`, `DeclareFail` |
| `local_amqp_disconnect` | `Disconnect` |
| `amqp_local_phase2` COMMIT | `CommitStart`, then per broker `CommitDiscard`, `CommitSkip` or `CommitFlush`, drain, `TxCommitOk` or `TxCommitFail`; `CommitEnd` |
| ... ABORT | `AbortStart`, per broker `AbortDrop` or `AbortRollback`, `TxRollbackOk` or `TxRollbackFail`; `AbortEnd` |
| ... PRE_PREPARE, PREPARE | `PrepareRefused`, `Prepare` |
| `amqp_local_subxact` | `SubAbort` |
| `amqp_atexit`, death of the process | `EndSession` |

The order of the brokers in a callback's loop is left open. The message written
by `amqp_basic_publish` is taken by the broker, never seen by it although the
local write succeeded, or the write fails. A failed `tx.commit` may have been
applied: the answer can be what is missing. A cancelled handshake leaves
`bs->conn` set on one of four half-open connections (`HalfOpen`), because the
step that timed out may still be answered. PostgreSQL and the broker are not in
this repository; they appear as the code uses them and are marked external in
`PROJECT.json`.

### Failover

The loop of `local_amqp_get_bs` step by step. Time has two scales: while an
attempt runs, every socket operation takes between nothing and its timeout; the
backoff is counted in seconds between attempts. `rows` is the table, `hosts` and
`filled` the cache made from it. `Healthy` are the hosts a connect never fails
with; with the others it may succeed or fail each time. The number of failures
is counted up to 5, after which `shift` no longer changes. `since` is the
difference of two readings of the wall clock, which may be set back or forward
once (`SetClock`); `quiet` is the time that has really passed.

### Outbox

A relay worker is a transaction at READ COMMITTED: `OpenQuery` takes the
snapshot, `Fetch` locks the next row of it unless it is locked or no longer
qualifies, `RelayOk` and `RelayFalse` are the body of the loop, `CommitBatch` and
`AbortBatch` the end. Prefetching by the cursor is the freedom to `Fetch` ahead
of the body. `attempts` and `last_error` are written and never read, and are
left out.

### TxPublish

Messages are new, pending, committed, withdrawn, or direct; `owed` are the
accepted ones a broker still has to show. `Commit` is one step for all pending
messages, `Show(b)` one step for all that `b` owes, and only if all of them are
committed; `Drop(b)` drops them together. There is no way from withdrawn, or
from committed and not owed, to shown. `PgAmqp` maps `fate` to the state of a
message, `counted` to `owed` and `delivered` to `shown`. Publishes on a channel 2
that is not in tx mode (`leaked`) are outside of this; they are the finding
`OnlyOnCommit`.

### The codec: AmqpFraming, AmqpCodec

`amqp_framing.h` and `.c` are generated: for each method a number, a struct, a
case of the decoder and a case of the encoder. `AmqpFraming` keeps these as four
tables (`Struct`, `DecodeLayout`, `EncodeLayout`, and the classes of properties),
each transcribed from its own lines, so that a decoder and an encoder that do
not agree would show. `AmqpCodec` is the code the cases consist of: `D_8` to
`D_64` and `E_8` to `E_64` with their limits, packed booleans, strings, the flag
words, and `amqp_decode_table` and `amqp_encode_table` with the five kinds of
values and nesting. 64-bit numbers are pairs of 32-bit words and 32-bit numbers
are signed, which is what TLC can hold.

### AmqpSend

A call is the sequence of frames it sends. `EncodeFrame` is `inner_send_frame` (a
frame in one buffer, or three for a body), `Write`, `WriteFails` and `WriteShort`
are `amqp_send_frame` buffer by buffer. `WriteShort` exists because
`AMQP_CHECK_RESULT` looks at the sign only: a `write` that takes part of a buffer,
as one with `SO_SNDTIMEO` may, is a success. From there on the stream is
`garbled` and nothing is claimed of it; the same holds after a string of more
than 255 bytes in a field with a length byte (`Overlong`: of a method, of a set
of properties, or a key of a table at any depth), whose length is cut and whose
bytes are all written.

### AmqpConn

`conn` is `struct amqp_connection_state_t_`. The operators from `Trip` to
`Switch` are one pass of `amqp_handle_input` from `read_more`. `Read(n)` puts any
number of bytes out of `Chunks`, or all there are, into `sock_inbound_buffer`;
`ReadError` is a timeout or failure at any time. `pc` names the call that waits
and `got` the frame it has been given; `RpcEnds`, `RpcQueues`, `LoginStart` and
so on are what the callers do with it. Memory is real: `amqp_pool_alloc` hands
out regions of blocks on `heap`, and frames remember the regions they lie in.
`Connect` and `Handshake` take the outcomes of `AmqpTransport`.

A method is its number and one argument, a number of 32 bits. What is in the
other fields is `AmqpSend`'s subject; here the argument stands for the version of
`connection.start`, the proposal of `connection.tune`, and the request an answer
belongs to.

The broker is external. It answers in order, may push returned messages,
heartbeats and frames of a type the library ignores, may refuse the login, close
the channel or the connection, and may send a frame that is none: one with a
wrong end byte, of a method or a class that nobody knows, or longer than
`frame_max`. `odd` records
that it did more than AMQP lets it do or refused the login, `late` that a call
was given up while its answer may be on the way, `broken` that the reader met an
error: these are the conditions of the properties below.

A call that waits has no deadline as a whole: `SO_RCVTIMEO` ends one `recv`, and
the next one has all of it again. What the call reads meanwhile, and does not
return with, stays in the pools or in the list of frames put aside until buffers
are released, which no waiting call does. A broker that never stops sending
therefore gives states without end, and `MaxPushes` stops it; `CallsReturn` is
stated for the brokers that stop.

## Runs

| Run | Instance | Checks |
|-----|----------|--------|
| `backend` | 1 broker, 2 messages, depth 2, 1 upset; 2.6 million states | `TypeOK`, `BufferNeedsConn`, `CountExact`, `CleanBetweenTransactions`, `TimeoutBudget`, `NoPhantom`, `LossAccounted`, `FlushIsExact`, `KeepsPromise` |
| `two_brokers` | 2 brokers, 2 messages; 530,000 states | `NoPhantom`, `LossAccounted`, `CleanBetweenTransactions`, `KeepsPromise` |
| `live` | 1 broker, 1 message, depth 1, 2 upsets; 650,000 states | `BackendReturns` |
| `relay` | 3 rows, 2 workers, a live and a dead broker, 1 failure; 345,000 states | `TypeOK`, `NeverIfRolledBack`, `NoNeedlessDuplicate`, `RowsGetShipped` |
| `attempts` | 0, 1 or 3 hosts, one healthy, budget 1, 1 cancel, 1 setting of the clock; 530,000 states | `TypeOK`, `AttemptBounded`, `HostsRotate`, `NoEarlyRetry`, `Reconnects` |
| `send` | all 91 methods with three sets of arguments, headers of every class, the calls of the API, messages of 0 to 2 full frames, frames that cannot be encoded; 38,000 states | `TypeOK`, `PeerUnderstands`, `ContentWhole`, `FramesFit`, `FramesArriveAsSent` |
| `conn` | all outcomes of socket and TLS, 3 calls, 1 push, reads of 9 bytes or of all; 546,000 states | `TypeOK`, `ReaderAgrees`, `MemoryExclusive`, `NothingLeaks`, `FramesAccounted`, `ReplyMatches`, `LoginSound`, `HonestBrokerServed`, `FramesReadAsSent`, `ErrorsStick`, `ShownInOrder`, `CallsReturn` |

What the properties say:

- `NoPhantom`: what a broker shows was sent autonomously or belongs to a
  transaction that committed with the publishing savepoint intact. (For
  channel 2 in tx mode. What a half-open connection shows too early is outside of
  this property and of `KeepsPromise`; the finding `OnlyOnCommit` is about it.)
- `LossAccounted`: an acknowledged message of a committed transaction is
  delivered, still due in the running callback, or was dropped at one of the six
  places that drop a buffer. In particular a `tx.commit-ok` hides no loss. The
  drops nobody is told of count as accounted here; they are `LoudLoss`'s subject.
- `FlushIsExact`: a flush makes visible exactly the messages counted on that
  connection.
- `BufferNeedsConn`, `CountExact`: `uncommitted` is the number of acknowledged
  messages at stake on an existing connection.
- `CleanBetweenTransactions`: no buffer, on either side, outlives its
  transaction. A channel poisoned before a PREPARE is exempt: the code leaves its
  flag to the next transaction, and nothing says whether it should.
- `TimeoutBudget`: a socket is on the commit timeout exactly while the callback
  uses it.
- `BackendReturns`: every call and callback returns.
- `NeverIfRolledBack`: the relay sends no row of an open or rolled back
  transaction.
- `NoNeedlessDuplicate`: each further copy of a row is paid for by a rollback of
  the batch that had sent it.
- `RowsGetShipped`: a committed row of a live broker is shipped, if a batch has
  room for all rows of dead brokers and one more. Without that room the relay
  for all brokers is starved by the oldest rows of a dead one; the property
  states the condition instead of hiding it.
- `AttemptBounded`: an attempt ends within the budget plus the cost of one host.
- `HostsRotate`: no host is tried again before all others, across attempts.
- `NoEarlyRetry`: a failed attempt keeps the next one away for the base of the
  backoff, up to the first cancel (one inside the connect loop skips the
  bookkeeping of 743-744, and the next call tries again at once), and unless the
  wall clock is set forward.
- `Reconnects`: one answering host is enough, however small the budget and after
  the clock was set back, unless `amqp.disconnect()` keeps resetting the rotation
  or nothing ever drops the connection that a cancel left half open.
- `KeepsPromise`: `PgAmqp` implements `TxPublish`. Beyond `NoPhantom`: the
  messages of a broker are shown at one moment, and what was dropped does not
  turn up later.
- `FramesArriveAsSent`: `AmqpSend` implements `FrameChannel`: each method, set of
  properties and body is decoded to what was encoded, in order.
- `PeerUnderstands`: a frame written in full can be decoded without an error.
- `ContentWhole`: after a call that did not fail midway the peer waits for no
  header and no byte of a body.
- `FramesFit`: no frame is longer than `frame_max`.
- `FramesReadAsSent`: `AmqpConn` implements `FrameChannel`: however the stream is
  cut, and wherever a wait times out, the frames come out as they were sent.
- `ReaderAgrees`: the state of the reader, its buffer and its target fit together
  as the comments of `amqp_private.h` say, and the buffer is memory of the pool
  that a frame of `frame_max` fits into, also after the login has changed it.
- `MemoryExclusive`: no region in use is freed or handed out again; in particular
  `amqp_maybe_release_buffers` leaves half read and queued frames alone.
- `NothingLeaks`: blocks, descriptors and TLS objects are known to the connection,
  on every path of `amqp_open_socket` and `amqp_ssl_handshake`, and none is left
  after the connection is destroyed.
- `FramesAccounted`, `ShownInOrder`: a frame is passed on once, or waits in the
  queue of `amqp_simple_rpc`, and `amqp_simple_wait_frame` shows frames in the
  order of their arrival.
- `ErrorsStick`: after a framing error the stream yields no frame.
- `ReplyMatches`: a reply belongs to the request of the call that returns it, up
  to the first call that was given up. After that the library cannot tell: the
  late answer is taken for that of the next call.
- `LoginSound`: a login that reports success means that the broker opened the
  virtual host and both sides use one `frame_max`, although `amqp_login` goes on
  to `connection.open` after a login that failed.
- `HonestBrokerServed`: a broker that accepts the login and keeps to the protocol
  causes neither `abort()` nor a framing error.
- `CallsReturn`: once the broker has stopped sending what nobody asked for, every
  call returns, also one with `nowait` set, however the stream is cut and whatever
  became of the calls before it. No more than this is true of the code. A broker
  that does not stop can keep any call waiting for ever whose answer does not come:
  `amqp_simple_rpc` puts the frame aside and goes back to `retry`
  (`amqp_socket.c` 348) with a new `SO_RCVTIMEO`. A call with `nowait` set meets this
  with an ordinary broker, since steady deliveries or heartbeats are enough. No line
  of the repository promises otherwise, so there is no finding. In the run
  `MaxPushes` makes the condition true of every behaviour.

Bounds, and why they are enough. A message is published once, so two messages
show every relation between an earlier and a later one (published before and
inside a savepoint, on the two channels, in two transactions). Two nested savepoints
distinguish the level that is undone from the one around it. One upset, a cancel
or an unsolicited frame, is enough to leave each half-open state or to set or
miss `blocked`; losing such a frame to a cancel takes two (`live`). Closes and lost peers are not bounded. Two brokers are what the
callback's loop needs to treat one differently from the other. Three rows and
two workers with batches of two let a batch be full, overlap and leave a row
behind. Three hosts make rotation different from alternation; a budget of one
unit is exhausted by one dead host. `send` makes one call after another, so two
frames in flight show their order; `FrameMax` of 300 lets a string exceed its
length byte and a header exceed the frame. The arguments differ from field to
field, and any two booleans differ in one of the three sets, so that swapped
fields show. In `conn`, chunks of 9 bytes cut the frames (8, 12, 16, 22 bytes and
more) in the header, behind it, in the body and before the end byte, at places
that move with every frame; three calls are what it takes to put a frame aside,
release buffers and read on; `frame_max` of 24 against 32 before the login and 0
or 22 from the broker gives each outcome of the negotiation, with the pages of
the pool holding one frame, and the decoding pool of 64 bytes is outgrown.
`MaxPushes` counts what the broker sends unasked on a connection, heartbeats and
returned messages included, and limits `CallsReturn` as said above. The view of
`MCPgAmqp` hides the cause of a loss and the closes that were read, which no
action reads and the runs that use it do not mention. Symmetry is used only for
safety.

Fairness. `PgAmqp` assumes weak fairness of `Backend`, the steps of a call or
callback in progress: each socket operation is bounded by a timeout, and each
loop by the brokers, the one retry, or the frames that are there. Nothing is
assumed of clients, brokers or the network. `Failover` assumes that attempts
proceed (their steps are bounded by timeouts), that time passes, and that the
application keeps publishing. `AmqpConn` assumes that a wait goes on: `recv` ends
with data, at the end of the stream, or by `SO_RCVTIMEO`, which `amqp_open_socket`
sets if it is given a timeout (`amqp_socket.c` 106-109), and what has been read is
handled. Without a timeout a call on a silent connection waits for ever, and nothing is
claimed of it. Fairness of `HandleInput` is written out as "infinitely often no input,
or infinitely often a step", which says the same as it is enabled whenever there
is input. `Outbox` assumes that relays are called again and
again, as the documentation tells the user to arrange, and that their calls
return, which is `BackendReturns`. Deadlock is checked in every run.

## Where the code and its words disagree

Each of these is a run that TLC ends with a counterexample.

| Run | Property | What happens |
|-----|----------|--------------|
| `cancel_leaks` | `OnlyOnCommit` | A cancel in the WARNING about channel 2 (`src/pg_amqp.c:715`) leaves `bs->conn` set without `tx.select`. If the broker opens the channel late, later `publish()` calls are visible at once, also after ROLLBACK. |
| `loud_loss` | `LoudLoss` | A failed `exchange_declare` (797), or the redo of an autonomous publish (841, 913), drops the connection with the open transaction's buffer and resets the counter: the commit is silent, where the comments promise the opposite. |
| `seen_close` | `SeenCloseMeansReconnect` | The drain at 904 consumes a close and its result is ignored. |
| `partial_cache` | `CacheWhole` | A cancel in a WARNING of `local_amqp_load_hosts` leaves a cache that counts rows it does not hold. |
| `per_host` | `HostBounded` | The handshake timeout applies to each of four RPCs, so a host costs more than "connect + handshake". |

Not a disagreement, but worth knowing: the outbox marks a row published after a
local write that no broker may ever have received (`RelayOk` with `n = 0`). The
documentation's "at-least-once" holds only up to its remark that there are no
publisher confirms.

## Proofs

All theorems hold for every value of the constants that satisfies the named
assumptions (`ASSUME`) of the module: finite sets of brokers and messages without
`None`, natural numbers for bounds, sizes and timeouts, addresses with outcomes
of `AmqpTransport`. `ConnAssumption` adds that sizes and arguments are positive
`int`s, that a `frame_max` other than a broker's 0 is at least 22, the longest frame
a broker of this model sends (AMQP asks for 4096), and that no call waits for a
method the broker also sends unasked; that is so for every call of `amqp_api.c`
and is needed, since `amqp_simple_rpc` knows a reply by its number alone. TLC evaluates these assumptions in the runs, and each
inductive invariant below was checked with TLC on the instance of the component's
run before it was proved.

| Module | Theorems |
|--------|----------|
| `PgAmqp_proofs` | `TypeCorrect`, `NoPhantomCorrect`, `BufferNeedsConnCorrect`, `CleanCorrect` |
| `PgAmqp_accounts_proofs` | `LossAccountedCorrect`, `FlushExactCorrect`, `CountExactCorrect`, `TimeoutBudgetCorrect` |
| `PgAmqp_promise_proofs` | `Refinement`: `Spec => KeepsPromise` |
| `Outbox_proofs` | `TypeCorrect`, `NeverIfRolledBackCorrect`, `NoNeedlessDuplicateCorrect`, `PublishedIsFinal` |
| `Failover_proofs` | `TypeCorrect`, `AttemptBoundedCorrect`, `HostsRotateCorrect`, `NoEarlyRetryCorrect` |
| `AmqpPool_proofs` | `PoolAllocates` |
| `AmqpConn_proofs` | `TypeCorrect`, `MemoryExclusiveCorrect`, `NothingLeaksCorrect`, `FramesAccountedCorrect`, `ShownInOrderCorrect` |
| `AmqpConn_stream_proofs` | `StreamInvariance`, `ReaderAgreesCorrect`, `FramesReadAsSentCorrect`, `ErrorsStickCorrect`; `PeerInvariance`, `LoginSoundCorrect`, `HonestBrokerServedCorrect`, `ReplyMatchesCorrect` |

### The backend

`TypeOK` is inductive by itself. `NoPhantom`, `BufferNeedsConn` and
`CleanBetweenTransactions` follow from one inductive invariant `IInv`, whose
parts are:

- `BufferCounted`: the broker's buffer holds only messages that are counted, or
  the one that has been written and not yet counted; a zero counter counts
  nothing. Without it a rollback that is skipped because `uncommitted = 0` could
  leave something behind.
- `BufferNeedsConn`: needed because `disconnect_bs` does nothing without a
  connection, and so would not reset the counter.
- `CallActive`, `CallFate`: a call works on a connection and on a message that is
  not decided yet, inside a transaction.
- `CountedFate`: counted messages share the fate of the transaction, except
  those of a rolled back savepoint, and these have poisoned the channel. This is
  the heart of `NoPhantom`: `tx.commit` is sent only on a channel that is not
  poisoned, so everything in its buffer is committed.
- `CallbackProgress`: the callback leaves settled records behind it, and flushes
  only a channel that is not poisoned.
- `NoPhantom` itself.

`Accounts` adds to it what the counter and the flush need:

- `FlushWhole`, the converse of `BufferCounted`: a broker that could still execute
  `tx.commit` holds everything that is counted. With both, a flush shows exactly
  the counted messages (`FlushIsExact`), and `tx.commit-ok` hides no loss.
- `BudgetHeld`: the socket is on the commit timeout at the three places where the
  callback waits.
- `OneCalling`, `AckedAccounted`: an acknowledged message is counted or was
  dropped at a known place; one that is not decided belongs to the call that runs.
- `TallyStep`: each action changes `uncommitted` and the counted set together, by
  one message or to nothing; `CountExact` follows with the cardinality theorems of
  the library.

`Refinement` shows that the initial states are initial states of `TxPublish` and
that each action is one of its steps or none. Most are none. `TxCommitOk` is
`Show`: it needs `FlushWhole` to be one step for all messages of the broker and
`CountedFate` for all of them to be committed. Every place that calls
`local_amqp_disconnect_bs` is `Drop`, and the end of a session is `Crash`.

### Outbox and failover

`NoNeedlessDuplicate` rests on `LocksExclude` (a row is locked by one worker, and
stays pending as long), `RelayedLocked` (a batch sends and marks only rows it has
locked, each once) and `CopiesAccounted` (a copy that no rollback accounts for was
sent by the batch that published the row or by one that still runs).
`PublishedIsFinal` is an action property that follows from them.

`AttemptBounded` needs `TimeSpent`, which relates the clock to the hosts left behind
and to the step of the handshake the attempt is at. `NoEarlyRetry` needs
`FailureRemembered`: unless a cancel or a clock set forward hid it, the backend
never believes a failure to be older than it is; and the window is never shorter
than its base (`BackoffAtLeastBase`, for every process id and number of failures).
`HostsRotate` needs `InRotation`: the hosts tried last are the stretch of the ring
that ends with `idx`.

### The client library's memory

`PoolAllocates` is about one call of `amqp_pool_alloc` on any pool that satisfies
`PoolOK`: the pool satisfies it afterwards, everything handed out before is still
handed out (`Handed`), and the new piece is allocated, large enough and disjoint
from all of that. Its four cases are the four ways through the function.

`MInv` of `AmqpConn_proofs` is the inductive invariant of a connection:

- `MemorySound`: the heap consists of the blocks of the two pools and of the two
  buffers, each of them once (`ConnMem`); the reader is idle without a buffer or
  has one from the frame pool that a frame of `frame_max` fits into (`ReaderShape`);
  and all uses of memory (the frame being read, the one just read, those put
  aside, those the application holds) are pieces that a pool has handed out, and
  no piece has two uses (`ClaimsOK`).
- `LoginHoldsNothing`: during the login no frame is put aside and none is held.
  This is why `amqp_login_inner` may release the buffers and replace the frame
  pool without asking `amqp_release_buffers_ok`.
- `FrameSettled`: a frame that was read leaves the reader idle until its caller has
  looked at it, so nothing is half read when `amqp_simple_rpc` or the login
  recycles a pool.
- `ConnectionMade`, `OsSound`, `NothingYet`: buffers, descriptors and TLS objects
  exist exactly while the connection knows them.

`HandleInputFrom` carries the argument through `amqp_handle_input`, trip by trip:
whatever the bytes are, the call works in the buffer it found or in memory that
nobody else uses. So these theorems hold for every broker and every stream, well
formed or not.

`OrderInv` is the invariant behind `FramesAccounted` and `ShownInOrder`: frames put
aside are numbered in the order of their arrival, all of them newer than the last
one shown and older than one just read, and `amqp_simple_wait_frame` looks at the
stream only if none is put aside.

### The client library's stream

`StreamInv` says that, until there is an error, the bytes in `inbound_buffer`, in
`sock_inbound_buffer` and on the way, in this order, are the bytes of the frames in
`sent` (`Parts`), and that the reader stands where the bytes it has copied put it
(`ReaderOK`: its state, its target and the length it took from the header agree).
After an error the reader is `Stuck`: it is in a state in which the same bytes give
the same error again, whatever comes behind them. Neither half is inductive alone,
since whether a call fails depends on the bytes, and what the bytes are on what
calls before it have consumed.

The argument has three layers.

- Bytes. `D_32` reads what `E_32` wrote (`Read32`), method numbers of all 91
  methods fit into 32 bits and are told apart, and `Frames` relates a frame to its
  bytes: what the reader takes from the header, the number and the argument are
  those of the frame. For the three spoiled frames of a broker (`Alien`) it is
  shown that they cannot be taken for a frame.
- One call. `Outcome` is what `amqp_handle_input` comes to on any piece of a
  stream: it wants more (`Going`), it has returned the first frame (`Finished`), or
  it failed on bytes that are no frame (`Failed`). This is shown for each trip and
  then for the two trips a call can make.
- The connection. Steps that neither read nor send (`Quiet`), reads, sends, and the
  end of a connection keep `StreamInv`.

`ReaderAgrees` follows with `ReaderShape` of `MInv`; `ErrorsStick` and
`FramesReadAsSent` are step properties: `StepKinds` classifies every step as one
that breaks, waits or delivers, and each is a step or a stutter of `FrameChannel`.

### Login, honest brokers, replies

These properties relate four places: what the client has sent (`mail`), where the
broker is, the frames under way and the call that waits. Frames are numbered by
their place (`Slots`, `At`; place 0 is the frame just read), so that a read only
moves them. The steps of the client and of the broker are put into a few classes
first (`ClientKinds`, `BrokerSteps`), and each invariant is shown class by class.

- `OpenInv`, for `LoginSound`: before the broker has opened the virtual host the
  mail holds messages of the login only, there is no `connection.open-ok` under way,
  and the client is in the login; once `connection.tune-ok` is on its way its
  argument is the client's `frame_max`, and after the broker has read it, the
  broker's. The last part is needed because `amqp_login` sends `connection.open`
  also after a login that failed: then no `tune-ok` has been sent, and none was
  read by a broker that opens.
- `HonestInv`, for `HonestBrokerServed`: until `odd`, the stage of the broker, the
  mail and the frames under way are exactly those the client's place in the login
  allows, so that the frame it asserts is the frame that comes. With `StreamInv`
  an error means that a frame was none, and such a frame is `odd` (`OddInv`).
- `ReplyInv`, for `ReplyMatches`: until `late`, at most one request is in the mail
  that can still be answered (`HopeInv`), or at most one reply is under way
  (`AnsweredInv`), never both; it carries the number and the channel of the call
  that waits, and without a call there is none. A frame that no request asked for is
  no reply by its number, which is where the assumption on `Requests` is used; and
  a close is the last thing a broker says (`CloseInv`, `OrderlyInv`), so no reply
  turns up after the call it belongs to was ended by a close.

### Only model-checked

- `BackendReturns`, `RowsGetShipped`, `Reconnects`, `CallsReturn`: liveness
  under fairness is out of the prover's reach.
- `TypeOK`, `PeerUnderstands`, `ContentWhole`, `FramesFit`, `FramesArriveAsSent` of
  `AmqpSend`: `AmqpCodec` uses recursive operators (tables nest), about which the
  prover cannot reason.
- The five violated properties, which are false.

## Not modelled

- Message contents, properties and routing in `PgAmqp`; `mandatory` only decides
  whether the third drain happens.
- Keepalive and the TLS socket of rabbitmq-c: they change when a dead peer is
  noticed, which the model leaves open anyway. DNS lookups, which no timeout
  covers.
- A GUC that is changed while a connection is up.
- Whether `bs->blocked` agrees with the broker: nothing in the code says that it
  has to, and a wrong flag costs a refused or a slow publish. How long a broker
  can keep the drain busy: the model bounds the unsolicited frames.
- rabbitmq-c itself, which appears as the code uses it.
- In the client library: a failing `malloc` (the pools' callers do not look), which
  is what would end a call that a broker floods for ever, the
  scratch array of `amqp_decode_table`, payloads too short for a method number or
  the head of a header and lengths of 2^31 and more in frames of the broker, the
  callback for `basic.return` (nothing registers one), the comparison
  `amqp_table_entry_cmp`, the slot of `amqp_get_rpc_reply`, which repeats what the
  call returned, `amqp_send_frame_to` and `amqp_send_header_to`, which do the same
  as the functions without `_to` through a function of the caller, the timeouts
  `amqp_tune_connection` sets from the heartbeat, a `frame_max` parameter of 0.
  In `AmqpConn` a failed write puts nothing on the wire; what part of a frame
  does is `AmqpSend`'s subject.
- `amqp_debug.c`, which prints, under `#if 0`.
- The upgrade scripts, which are DDL run once.

## Plan

Done: the backend with its callbacks, the outbox and the failover, the client
library, their runs, the refinements of `TxPublish` and `FrameChannel`, and the
proofs above: every safety property a passing run checks is proved, except those
of `AmqpSend`. What is left, in this order:

1. A composition of `Outbox` and `PgAmqp`: the relay on top of the real
   `autonomous_publish`, instead of its three outcomes.
2. `mandatory` on channel 2: which returns are reported when, against the
   documentation's "surfaced at commit time".
3. A codec without nested tables, apart from the one with them, so that `AmqpSend`
   can be proved about for the methods that carry none.
