------------------------------- MODULE PgAmqp -------------------------------
(***************************************************************************)
(* One PostgreSQL backend that has loaded the pg_amqp extension            *)
(* (src/pg_amqp.c), the AMQP connections it holds and the brokers at their *)
(* other end.                                                              *)
(*                                                                         *)
(* amqp.publish() sends on channel 2, which is in AMQP tx mode, and counts *)
(* the message in brokerstate.uncommitted; the PostgreSQL transaction      *)
(* callback flushes (tx.commit) or drops (tx.rollback) the broker's buffer *)
(* after the local transaction has ended.  amqp.autonomous_publish() sends *)
(* on channel 1 and takes effect at once.  The backend is one thread, but  *)
(* the broker and the network move between any two of its socket           *)
(* operations, so every call is split at each of them.                     *)
(*                                                                         *)
(* Limits of the model.  local_amqp_get_bs is one step with three outcomes *)
(* (its host list, backoff and budget do not touch what is stated here).   *)
(* Message contents, properties and routing are left out: a message is an  *)
(* identity, published at most once.                                       *)
(***************************************************************************)
EXTENDS Naturals, Sequences, FiniteSets

CONSTANTS
    Brokers,    \* broker_id values the session uses
    Msgs,       \* message identities
    None,       \* no broker / no message
    MaxDepth,   \* bound on nested savepoints
    MaxUpsets   \* bound on unsolicited frames and on query cancels

ASSUME FiniteAssumption == IsFiniteSet(Brokers) /\ IsFiniteSet(Msgs)
ASSUME NoneAssumption == None \notin Brokers /\ None \notin Msgs
ASSUME BoundAssumption == MaxDepth \in Nat /\ MaxUpsets \in Nat

VARIABLES
    pc,         \* where the backend stands in the code
    cur,        \* the broker of the call or of the callback's current turn
    call,       \* locals of pg_amqp_publish_opt
    bs,         \* the list HEAD_BS of struct brokerstate
    link,       \* the connection behind bs->conn, as the broker has it
    xact,       \* PostgreSQL transaction state of the session
    depth,      \* number of open savepoints
    todo,       \* brokers the transaction callback has still to visit
    upsets,     \* unsolicited frames sent and cancels taken so far
    fate,       \* history: what became of each message
    level,      \* history: savepoint depth a message was published at
    counted,    \* history: the messages brokerstate.uncommitted counts
    delivered,  \* history: messages a broker has made visible as it should
    leaked,     \* history: messages of a channel 2 that is not in tx mode
    lost        \* history: messages dropped with the buffer, by cause

bsVars   == <<bs, link, counted, lost>>
xactVars == <<xact, depth, todo>>
visible  == <<delivered, leaked>>
msgVars  == <<fate, level, visible>>
callVars == <<pc, cur, call>>
vars     == <<callVars, bsVars, xactVars, msgVars, upsets>>

-----------------------------------------------------------------------------
\* Frames local_amqp_drain_returns tells apart.
Alarm == [type : {"return", "blocked", "unblocked"}, ch : {0}]
Close == [type : {"close"}, ch : 0..2]
Frame == Alarm \cup Close

CallPcs  == {"get_bs", "drain", "dead", "send", "post", "ret"}
DrainPcs == {"drain", "post", "commit_drain"}
CommitPcs == {"commit", "commit_drain", "tx_commit"}
AbortPcs  == {"abort", "rollback"}
Pcs == CallPcs \cup CommitPcs \cup AbortPcs \cup {"idle", "error", "declare"}

Fates == {"unused", "calling", "acked", "refused", "undone", "committed",
          "aborted", "prepared", "autonomous"}

\* The WARNINGs of the commit callback report two of these; the others are
\* the places where local_amqp_disconnect_bs runs inside a transaction.
LoudCauses   == {"discard", "commit"}
SilentCauses == {"autonomous", "declare", "disconnect", "exit"}
Causes == LoudCauses \cup SilentCauses

NoCall == [ch |-> 1, m |-> None, mandatory |-> FALSE, once_more |-> FALSE,
           rv |-> FALSE]

\* struct brokerstate as MemoryContextAllocZero leaves it.
NewBs == [conn |-> FALSE, uncommitted |-> 0, inerror |-> FALSE,
          blocked |-> FALSE]

\* No connection, and one that local_amqp_get_bs has just logged in, with
\* channels 1 and 2 open and channel 2 in tx mode.
\*   up       bytes still travel both ways
\*   closing  channels the broker has closed, or never opened
\*   tx       channel 2 is in tx mode
\*   inbox    frames on their way to the client
\*   txbuf    messages in the broker's buffer of channel 2
\*   seen     closes the client has read
\*   timeout  which GUC bounds the socket
NoLink == [up |-> FALSE, closing |-> {}, tx |-> FALSE, inbox |-> << >>,
           txbuf |-> {}, seen |-> {}, timeout |-> "none"]
NewLink == [NoLink EXCEPT !.up = TRUE, !.tx = TRUE, !.timeout = "operation"]

Init ==
    /\ pc = "idle" /\ cur = None /\ call = NoCall
    /\ bs = [b \in Brokers |-> NewBs]
    /\ link = [b \in Brokers |-> NoLink]
    /\ xact = "none" /\ depth = 0 /\ todo = {}
    /\ upsets = 0
    /\ fate = [m \in Msgs |-> "unused"]
    /\ level = [m \in Msgs |-> 0]
    /\ counted = [b \in Brokers |-> {}]
    /\ delivered = {} /\ leaked = {}
    /\ lost = [c \in Causes |-> {}]

-----------------------------------------------------------------------------
\* Helpers.

\* local_amqp_disconnect_bs on the record; inerror survives.  (The operators
\* with "Bug" in their name are faulty variants of the one that follows.)
disconnect_bs_Bug(s) ==
    IF s.conn THEN [s EXCEPT !.conn = FALSE, !.blocked = FALSE] ELSE s

disconnect_bs(s) ==
    IF s.conn
      THEN [s EXCEPT !.conn = FALSE, !.uncommitted = 0, !.blocked = FALSE]
      ELSE s

\* ... followed by bs->inerror = 0.
Cleared_Bug(s) == disconnect_bs(s)
Cleared(s)     == [disconnect_bs(s) EXCEPT !.inerror = FALSE]

\* bs->uncommitted = 0, bs->uncommitted++ and bs->inerror = 1.
Zero(s)       == [s EXCEPT !.uncommitted = 0]
Count_Bug(s)  == s
Count(s)      == [s EXCEPT !.uncommitted = @ + 1]
Poison_Bug(s) == [s EXCEPT !.inerror = TRUE, !.uncommitted = @ - 1]
Poison(s)     == [s EXCEPT !.inerror = TRUE]

\* What closing the socket of b does outside the record: the broker forgets
\* the tx buffer.  The messages counted so far are gone for the given causes
\* (a set with at most one member: an aborting transaction loses nothing).
DropLink(b, causes) ==
    /\ link' = [link EXCEPT ![b] = NoLink]
    /\ counted' = [counted EXCEPT ![b] = {}]
    /\ lost' = [c \in Causes |->
                  IF c \in causes THEN lost[c] \cup counted[b] ELSE lost[c]]

\* What happens to a connection l.  local_amqp_set_timeout; the next frame
\* is read, or arrives; the transactional buffer is emptied; the peer dies.
SetTimeout(l, t) == [l EXCEPT !.timeout = t]
ReadFrame(l)     == [l EXCEPT !.inbox = Tail(@)]
Arrive(l, f)     == [l EXCEPT !.inbox = Append(@, f)]
Buffer(l, m)     == [l EXCEPT !.txbuf = @ \cup {m}]
Empty(l)         == [l EXCEPT !.txbuf = {}]
Down(l)          == [Empty(l) EXCEPT !.up = FALSE]
TxDone_Bug(l)    == Empty(l)
TxDone(l)        == SetTimeout(Empty(l), "operation")
SeeClose(l, c)   == [l EXCEPT !.seen = @ \cup {c}]
ShutChannel(l, c) == [l EXCEPT !.closing = @ \cup {c}]

Return(f) ==
    /\ pc' = "idle" /\ cur' = None /\ call' = NoCall
    /\ fate' = [fate EXCEPT ![call.m] = f]

\* elog(WARNING) ends in CHECK_FOR_INTERRUPTS: a pending cancel (or
\* statement_timeout) leaves the function as an ERROR.
Upset == upsets < MaxUpsets /\ upsets' = upsets + 1

Raise ==
    /\ Upset
    /\ pc' = "error" /\ cur' = None /\ call' = NoCall
    /\ fate' = IF call.ch = 2 THEN [fate EXCEPT ![call.m] = "refused"]
                              ELSE fate

-----------------------------------------------------------------------------
\* Transaction control by the client (PostgreSQL).

Begin ==
    /\ pc = "idle" /\ xact \in {"none", "prepared"}
    /\ xact' = "active"
    /\ UNCHANGED <<callVars, bsVars, depth, todo, msgVars, upsets>>

Savepoint ==
    /\ pc = "idle" /\ xact = "active" /\ depth < MaxDepth
    /\ depth' = depth + 1
    /\ UNCHANGED <<callVars, bsVars, xact, todo, msgVars, upsets>>

Release ==
    /\ pc = "idle" /\ xact = "active" /\ depth > 0
    /\ depth' = depth - 1
    /\ level' = [m \in Msgs |-> IF level[m] = depth THEN depth - 1
                                                    ELSE level[m]]
    /\ UNCHANGED <<callVars, bsVars, xact, todo, fate, visible, upsets>>

\* The innermost savepoint's work is undone ...
UndoLevel ==
    /\ depth' = depth - 1
    /\ fate' = [m \in Msgs |-> IF fate[m] = "acked" /\ level[m] = depth
                               THEN "undone" ELSE fate[m]]

\* ... and amqp_local_subxact visits every broker.
amqp_local_subxact_Bug(s) ==
    IF s.uncommitted > 1 /\ ~s.inerror THEN Poison(s) ELSE s

amqp_local_subxact(s) ==
    IF s.uncommitted > 0 /\ ~s.inerror THEN Poison(s) ELSE s

\* ROLLBACK TO, the end of a PL/pgSQL block with an EXCEPTION clause, or an
\* ERROR while a savepoint is open.
SubAbort ==
    /\ pc \in {"idle", "error"} /\ xact = "active" /\ depth > 0
    /\ UndoLevel
    /\ bs' = [b \in Brokers |-> amqp_local_subxact(bs[b])]
    /\ pc' = "idle"
    /\ UNCHANGED <<cur, call, link, counted, lost, xact, todo, level,
                   visible, upsets>>

-----------------------------------------------------------------------------
\* pg_amqp_publish_opt: amqp.publish (channel 2), amqp.autonomous_publish (1).

PublishCall(ch, b, m, mand) ==
    /\ pc = "idle" /\ xact = "active" /\ fate[m] = "unused"
    /\ pc' = "get_bs" /\ cur' = b
    /\ call' = [ch |-> ch, m |-> m, mandatory |-> mand, once_more |-> TRUE,
                rv |-> FALSE]
    /\ fate' = [fate EXCEPT ![m] = IF ch = 2 THEN "calling" ELSE "autonomous"]
    /\ UNCHANGED <<bsVars, xactVars, level, visible, upsets>>

\* A NULL broker_id, or a body above pg_amqp.max_body_bytes: false, before
\* the broker is touched.
RefuseEarly(m) ==
    /\ pc = "idle" /\ xact = "active" /\ fate[m] = "unused"
    /\ fate' = [fate EXCEPT ![m] = "refused"]
    /\ UNCHANGED <<callVars, bsVars, xactVars, level, visible, upsets>>

\* local_amqp_get_bs, no connection: one of the hosts answers ...
Connect ==
    /\ pc \in {"get_bs", "declare"} /\ ~bs[cur].conn
    /\ bs' = [bs EXCEPT ![cur] = [@ EXCEPT !.conn = TRUE, !.blocked = FALSE]]
    /\ link' = [link EXCEPT ![cur] = NewLink]
    /\ UNCHANGED <<callVars, counted, lost, xactVars, msgVars, upsets>>

\* ... or a cancel arrives in one of the WARNINGs.  In those between a failed
\* step of the handshake and next_host bs->conn is still set.  A step that
\* timed out may yet be answered: the login never (it has several rounds), the
\* opening of channel 1 (2 was not asked for), that of channel 2 (tx.select
\* was not asked for), and tx.select ...
HalfOpen == LET l == SetTimeout(NewLink, "handshake")
            IN  {SetTimeout(NoLink, "handshake"),
                 [l EXCEPT !.closing = {2}, !.tx = FALSE],
                 [l EXCEPT !.tx = FALSE],
                 l}

ConnectInterrupted ==
    /\ pc \in {"get_bs", "declare"} /\ ~bs[cur].conn
    /\ \/ /\ bs' = [bs EXCEPT ![cur] = [@ EXCEPT !.conn = TRUE]]
          /\ \E l \in HalfOpen : link' = [link EXCEPT ![cur] = l]
       \/ UNCHANGED <<bs, link>>
    /\ IF pc = "get_bs" THEN Raise
       ELSE Upset /\ pc' = "error" /\ cur' = None /\ UNCHANGED <<call, fate>>
    /\ UNCHANGED <<counted, lost, xactVars, level, visible>>

\* ... or there is none (backoff window, no rows, every host failed).  Without
\* a connection, or with a poisoned transactional channel: false.
PublishRefused ==
    /\ pc = "get_bs"
    /\ ~bs[cur].conn \/ (call.ch = 2 /\ bs[cur].inerror)
    /\ Return("refused")
    /\ UNCHANGED <<bsVars, xactVars, level, visible, upsets>>

PublishReady ==
    /\ pc = "get_bs" /\ bs[cur].conn /\ (call.ch = 1 \/ ~bs[cur].inerror)
    /\ pc' = "drain"
    /\ UNCHANGED <<cur, call, bsVars, xactVars, msgVars, upsets>>

-----------------------------------------------------------------------------
\* local_amqp_drain_returns, called before a publish ("drain"), after a
\* mandatory autonomous publish ("post") and before tx.commit
\* ("commit_drain").  Only the first looks at the result.

AfterDrain(dead) ==
    pc' = CASE pc = "drain"        -> IF dead THEN "dead" ELSE "send"
            [] pc = "post"         -> "ret"
            [] pc = "commit_drain" -> "tx_commit"

HeadIs(types) ==
    link[cur].inbox # << >> /\ Head(link[cur].inbox).type \in types

\* A return or an alarm: report it, keep reading.
DrainAlarm ==
    /\ pc \in DrainPcs /\ HeadIs({"return", "blocked", "unblocked"})
    /\ link' = [link EXCEPT ![cur] = ReadFrame(@)]
    /\ bs' = [bs EXCEPT ![cur].blocked =
                CASE HeadIs({"blocked"})   -> TRUE
                  [] HeadIs({"unblocked"}) -> FALSE
                  [] OTHER                 -> @]
    /\ UNCHANGED <<callVars, counted, lost, xactVars, msgVars, upsets>>

\* A cancel in the WARNING about that frame: the frame is gone, and
\* bs->blocked has not been set yet.  Interrupts are held off during commit.
DrainInterrupted ==
    /\ pc \in {"drain", "post"}
    /\ HeadIs({"return"}) \/ (HeadIs({"blocked"}) /\ ~bs[cur].blocked)
    /\ link' = [link EXCEPT ![cur] = ReadFrame(@)]
    /\ Raise
    /\ UNCHANGED <<bs, counted, lost, xactVars, level, visible>>

\* channel.close or connection.close: -1.
DrainClose ==
    /\ pc \in DrainPcs /\ HeadIs({"close"})
    /\ link' = [link EXCEPT ![cur] =
                  SeeClose(ReadFrame(@), Head(link[cur].inbox).ch)]
    /\ AfterDrain(TRUE)
    /\ UNCHANGED <<cur, call, bs, counted, lost, xactVars, msgVars, upsets>>

\* A socket error: -1.  AMQP_STATUS_TIMEOUT: 0; frames may still be in
\* flight, and a peer that vanished without a FIN looks exactly like one that
\* has nothing to say.
DrainEnd ==
    /\ pc \in DrainPcs
    /\ AfterDrain(FALSE) \/ (~link[cur].up /\ AfterDrain(TRUE))
    /\ UNCHANGED <<cur, call, bsVars, xactVars, msgVars, upsets>>

-----------------------------------------------------------------------------
\* Rest of pg_amqp_publish_opt.

\* Both failure branches reconnect once unless that would drop the buffer of
\* a transactional publish.
MayRedo == call.once_more /\ (call.ch = 1 \/ bs[cur].uncommitted = 0)

Failed == pc = "dead" \/ (pc = "ret" /\ ~call.rv)

Again_Bug(c) == c
Again(c)     == [c EXCEPT !.once_more = FALSE]

Redo ==
    /\ Failed /\ MayRedo
    /\ pc' = "get_bs" /\ call' = Again(call)
    /\ bs' = [bs EXCEPT ![cur] = disconnect_bs(@)]
    /\ DropLink(cur, {"autonomous"})
    /\ UNCHANGED <<cur, xactVars, msgVars, upsets>>

\* The drain's branch poisons only for channel 2, the write's for either.
GiveUp ==
    /\ Failed /\ ~MayRedo
    /\ bs' = [bs EXCEPT ![cur] = IF pc = "ret" \/ call.ch = 2 THEN Poison(@)
                                                              ELSE @]
    /\ Return("refused")
    /\ UNCHANGED <<link, counted, lost, xactVars, level, visible, upsets>>

\* The broker has announced connection.blocked: false, with a WARNING.  A
\* cancel in that WARNING, or in the one about delivery_mode.
PublishBlocked ==
    /\ pc = "send"
    /\ (bs[cur].blocked /\ Return("refused") /\ UNCHANGED upsets) \/ Raise
    /\ UNCHANGED <<bsVars, xactVars, level, visible>>

Sent(rv) ==
    /\ pc' = IF call.ch = 1 /\ call.mandatory THEN "post" ELSE "ret"
    /\ call' = [call EXCEPT !.rv = rv]

\* amqp_basic_publish only reports the local write.  The broker takes the
\* message: channel 1 makes it visible, channel 2 buffers it, if it is in tx
\* mode ...
SendAccepted ==
    /\ pc = "send" /\ ~bs[cur].blocked
    /\ link[cur].up /\ call.ch \notin link[cur].closing
    /\ Sent(TRUE)
    /\ \/ /\ call.ch = 2 /\ link[cur].tx
          /\ link' = [link EXCEPT ![cur] = Buffer(@, call.m)]
          /\ UNCHANGED visible
       \/ /\ call.ch = 2 /\ ~link[cur].tx
          /\ leaked' = leaked \cup {call.m}
          /\ UNCHANGED <<link, delivered>>
       \/ /\ call.ch = 1
          /\ delivered' = delivered \cup {call.m}
          /\ UNCHANGED <<link, leaked>>
    /\ UNCHANGED <<cur, bs, counted, lost, xactVars, fate, level, upsets>>

\* ... or never sees it (dead peer, closed channel) although the write is
\* fine ...
SendIgnored ==
    /\ pc = "send" /\ ~bs[cur].blocked
    /\ ~link[cur].up \/ call.ch \in link[cur].closing
    /\ Sent(TRUE)
    /\ UNCHANGED <<cur, bsVars, xactVars, msgVars, upsets>>

\* ... or the write fails; part of a frame may be out, so the stream is
\* useless from here on.
SendFailed ==
    /\ pc = "send" /\ ~bs[cur].blocked
    /\ Sent(FALSE)
    /\ link' = [link EXCEPT ![cur] = Down(@)]
    /\ UNCHANGED <<cur, bs, counted, lost, xactVars, msgVars, upsets>>

\* rv = AMQP_STATUS_OK: true.
Published ==
    /\ pc = "ret" /\ call.rv
    /\ IF call.ch = 2
         THEN /\ bs' = [bs EXCEPT ![cur] = Count(@)]
              /\ counted' = [counted EXCEPT ![cur] = @ \cup {call.m}]
              /\ level' = [level EXCEPT ![call.m] = depth]
              /\ Return("acked")
         ELSE UNCHANGED <<bs, counted, level>> /\ Return("autonomous")
    /\ UNCHANGED <<link, lost, xactVars, visible, upsets>>

-----------------------------------------------------------------------------
\* pg_amqp_exchange_declare and pg_amqp_disconnect.

DeclareCall(b) ==
    /\ pc = "idle" /\ xact = "active"
    /\ pc' = "declare" /\ cur' = b
    /\ UNCHANGED <<call, bsVars, xactVars, msgVars, upsets>>

DeclareReturn == pc' = "idle" /\ cur' = None /\ UNCHANGED call

\* No connection (false), or the broker's declare-ok (true).
DeclareEnd ==
    /\ pc = "declare"
    /\ bs[cur].conn => link[cur].up /\ 1 \notin link[cur].closing
    /\ DeclareReturn
    /\ UNCHANGED <<bsVars, xactVars, msgVars, upsets>>

\* A channel exception, a timeout or a dead connection: drop it.
DeclareFail ==
    /\ pc = "declare" /\ bs[cur].conn
    /\ DeclareReturn
    /\ bs' = [bs EXCEPT ![cur] = disconnect_bs(@)]
    /\ DropLink(cur, {"declare"})
    /\ UNCHANGED <<xactVars, msgVars, upsets>>

Disconnect(b) ==
    /\ pc = "idle" /\ xact = "active"
    /\ bs' = [bs EXCEPT ![b] = Cleared(@)]
    /\ DropLink(b, {"disconnect"})
    /\ UNCHANGED <<callVars, xactVars, msgVars, upsets>>

-----------------------------------------------------------------------------
\* amqp_local_phase2.

XactEnds == xact' = "none" /\ depth' = 0

\* COMMIT: the transaction is durable before the callback runs.
CommitStart ==
    /\ pc = "idle" /\ xact = "active"
    /\ pc' = "commit" /\ todo' = Brokers /\ depth' = 0
    /\ fate' = [m \in Msgs |-> IF fate[m] = "acked" THEN "committed"
                                                    ELSE fate[m]]
    /\ UNCHANGED <<cur, call, bsVars, xact, level, visible, upsets>>

\* A poisoned channel, or no channel, cannot flush what was acknowledged.
MustDiscard_Bug(s) == s.uncommitted > 0 /\ ~s.conn
MustDiscard(s)     == s.uncommitted > 0 /\ (s.inerror \/ ~s.conn)

\* The loud branch.
CommitDiscard(b) ==
    /\ pc = "commit" /\ b \in todo /\ MustDiscard(bs[b])
    /\ bs' = [bs EXCEPT ![b] = Zero(Cleared(@))]
    /\ DropLink(b, {"discard"})
    /\ todo' = todo \ {b}
    /\ UNCHANGED <<callVars, xact, depth, msgVars, upsets>>

\* Nothing to flush on b; a poisoned connection is dropped.
CommitSkip(b) ==
    /\ pc = "commit" /\ b \in todo /\ ~MustDiscard(bs[b])
    /\ \/ /\ bs[b].inerror
          /\ bs' = [bs EXCEPT ![b] = Cleared(@)]
          /\ DropLink(b, {})
       \/ ~bs[b].inerror /\ bs[b].uncommitted = 0 /\ UNCHANGED bsVars
    /\ todo' = todo \ {b}
    /\ UNCHANGED <<callVars, xact, depth, msgVars, upsets>>

\* The drain before the flush follows; its result is not looked at.
CommitFlush(b) ==
    /\ pc = "commit" /\ b \in todo /\ ~MustDiscard(bs[b])
    /\ ~bs[b].inerror /\ bs[b].uncommitted > 0
    /\ link' = [link EXCEPT ![b] = SetTimeout(@, "commit")]
    /\ pc' = "commit_drain" /\ cur' = b /\ todo' = todo \ {b}
    /\ UNCHANGED <<call, bs, counted, lost, xact, depth, msgVars, upsets>>

NextBroker(p) == pc' = p /\ cur' = None

\* The broker executes tx.commit or tx.rollback.
TxDoable == link[cur].up /\ link[cur].tx /\ 2 \notin link[cur].closing

TxCommitOk ==
    /\ pc = "tx_commit" /\ TxDoable
    /\ delivered' = delivered \cup link[cur].txbuf
    /\ link' = [link EXCEPT ![cur] = TxDone(@)]
    /\ bs' = [bs EXCEPT ![cur] = Zero(@)]
    /\ counted' = [counted EXCEPT ![cur] = {}]
    /\ NextBroker("commit")
    /\ UNCHANGED <<call, lost, xactVars, fate, level, leaked, upsets>>

\* No tx.commit-ok within commit_timeout_ms, or a close instead.  The broker
\* may have applied the commit and only the answer be missing.
TxCommitFail(applied) ==
    /\ pc = "tx_commit"
    /\ applied => TxDoable
    /\ delivered' = IF applied THEN delivered \cup link[cur].txbuf
                               ELSE delivered
    /\ bs' = [bs EXCEPT ![cur] = Zero(disconnect_bs(@))]
    /\ DropLink(cur, {"commit"})
    /\ NextBroker("commit")
    /\ UNCHANGED <<call, xactVars, fate, level, leaked, upsets>>

CommitEnd ==
    /\ pc = "commit" /\ todo = {}
    /\ pc' = "idle" /\ XactEnds
    /\ UNCHANGED <<cur, call, bsVars, todo, msgVars, upsets>>

\* ABORT: ROLLBACK, or an ERROR outside every savepoint.
AbortFate == [m \in Msgs |-> IF fate[m] \in {"acked", "undone"}
                             THEN "aborted" ELSE fate[m]]

AbortStart ==
    /\ xact = "active"
    /\ pc = "idle" \/ (pc = "error" /\ depth = 0)
    /\ pc' = "abort" /\ todo' = Brokers /\ depth' = 0
    /\ fate' = AbortFate
    /\ UNCHANGED <<cur, call, bsVars, xact, level, visible, upsets>>

\* A poisoned connection is dropped, an empty buffer needs no tx.rollback.
NoRollback_Bug(s) == TRUE
NoRollback(s)     == s.inerror \/ s.uncommitted = 0 \/ ~s.conn

AbortDrop(b) ==
    /\ pc = "abort" /\ b \in todo /\ NoRollback(bs[b])
    /\ IF bs[b].inerror
         THEN /\ bs' = [bs EXCEPT ![b] = Zero(Cleared(@))]
              /\ DropLink(b, {})
         ELSE /\ bs' = [bs EXCEPT ![b] = Zero(@)]
              /\ counted' = [counted EXCEPT ![b] = {}]
              /\ UNCHANGED <<link, lost>>
    /\ todo' = todo \ {b}
    /\ UNCHANGED <<callVars, xact, depth, msgVars, upsets>>

AbortRollback(b) ==
    /\ pc = "abort" /\ b \in todo /\ ~NoRollback(bs[b])
    /\ link' = [link EXCEPT ![b] = SetTimeout(@, "commit")]
    /\ pc' = "rollback" /\ cur' = b /\ todo' = todo \ {b}
    /\ UNCHANGED <<call, bs, counted, lost, xact, depth, msgVars, upsets>>

TxRollbackOk ==
    /\ pc = "rollback" /\ TxDoable
    /\ link' = [link EXCEPT ![cur] = TxDone(@)]
    /\ bs' = [bs EXCEPT ![cur] = Zero(@)]
    /\ counted' = [counted EXCEPT ![cur] = {}]
    /\ NextBroker("abort")
    /\ UNCHANGED <<call, lost, xactVars, msgVars, upsets>>

TxRollbackFail ==
    /\ pc = "rollback"
    /\ bs' = [bs EXCEPT ![cur] = Zero(disconnect_bs(@))]
    /\ DropLink(cur, {})
    /\ NextBroker("abort")
    /\ UNCHANGED <<call, xactVars, msgVars, upsets>>

AbortEnd ==
    /\ pc = "abort" /\ todo = {}
    /\ pc' = "idle" /\ XactEnds
    /\ UNCHANGED <<cur, call, bsVars, todo, msgVars, upsets>>

\* PREPARE TRANSACTION: PRE_PREPARE refuses it while a buffer is not empty;
\* XACT_EVENT_PREPARE then does nothing at all.
PrepareRefused ==
    /\ pc = "idle" /\ xact = "active"
    /\ \E b \in Brokers : bs[b].uncommitted > 0
    /\ pc' = "abort" /\ todo' = Brokers /\ depth' = 0
    /\ fate' = AbortFate
    /\ UNCHANGED <<cur, call, bsVars, xact, level, visible, upsets>>

Prepare ==
    /\ pc = "idle" /\ xact = "active"
    /\ \A b \in Brokers : bs[b].uncommitted = 0
    /\ xact' = "prepared" /\ depth' = 0
    /\ fate' = [m \in Msgs |-> IF fate[m] = "acked" THEN "prepared"
                                                    ELSE fate[m]]
    /\ UNCHANGED <<callVars, bsVars, todo, level, visible, upsets>>

-----------------------------------------------------------------------------
\* The end of the backend process: amqp_atexit between two statements, or
\* SIGKILL or a server crash at any point.  A new session starts from nothing;
\* what was buffered for a transaction that is already durable is lost.
EndSession ==
    /\ pc' = "idle" /\ cur' = None /\ call' = NoCall
    /\ bs' = [b \in Brokers |-> NewBs]
    /\ link' = [b \in Brokers |-> NoLink]
    /\ counted' = [b \in Brokers |-> {}]
    /\ lost' = [lost EXCEPT !["exit"] = @ \cup
                  {m \in UNION {counted[b] : b \in Brokers} :
                     fate[m] = "committed"}]
    /\ xact' = "none" /\ depth' = 0 /\ todo' = {}
    /\ fate' = [m \in Msgs |-> IF fate[m] \in {"calling", "acked", "undone"}
                               THEN "aborted" ELSE fate[m]]
    /\ UNCHANGED <<level, visible, upsets>>

-----------------------------------------------------------------------------
\* The broker and the network.

Peer(b) == bs[b].conn /\ link[b].up

CloseFrame(c) == [type |-> "close", ch |-> c]

BrokerAlarm(b, f) ==
    /\ Peer(b) /\ Upset
    /\ link' = [link EXCEPT ![b] = Arrive(@, f)]
    /\ UNCHANGED <<callVars, bs, counted, lost, xactVars, msgVars>>

\* A channel exception (for instance a publish to a missing exchange): the
\* broker ignores the channel from then on and forgets its buffer.
CloseChannel(b, c) ==
    /\ Peer(b) /\ c \notin link[b].closing
    /\ link' = [link EXCEPT ![b] =
                  LET l == ShutChannel(Arrive(@, CloseFrame(c)), c)
                  IN  IF c = 2 THEN Empty(l) ELSE l]
    /\ UNCHANGED <<callVars, bs, counted, lost, xactVars, msgVars, upsets>>

CloseConnection(b) ==
    /\ Peer(b)
    /\ link' = [link EXCEPT ![b] = Down(Arrive(@, CloseFrame(0)))]
    /\ UNCHANGED <<callVars, bs, counted, lost, xactVars, msgVars, upsets>>

PeerDown(b) ==
    /\ Peer(b)
    /\ link' = [link EXCEPT ![b] = Down(@)]
    /\ UNCHANGED <<callVars, bs, counted, lost, xactVars, msgVars, upsets>>

-----------------------------------------------------------------------------
\* What the SQL client may do next.
Client ==
    \/ Begin \/ Savepoint \/ Release
    \/ (pc = "idle" /\ SubAbort)
    \/ \E b \in Brokers, m \in Msgs :
         \/ PublishCall(2, b, m, FALSE) \* mandatory only matters on 1
         \/ \E mand \in BOOLEAN : PublishCall(1, b, m, mand)
    \/ \E m \in Msgs : RefuseEarly(m)
    \/ \E b \in Brokers : DeclareCall(b) \/ Disconnect(b)
    \/ CommitStart
    \/ (pc = "idle" /\ AbortStart)
    \/ PrepareRefused \/ Prepare

\* Steps the backend takes by itself once it is in a call or a callback.
Backend ==
    \/ Connect \/ ConnectInterrupted
    \/ PublishRefused \/ PublishReady \/ PublishBlocked
    \/ DrainAlarm \/ DrainInterrupted \/ DrainClose \/ DrainEnd
    \/ Redo \/ GiveUp
    \/ SendAccepted \/ SendIgnored \/ SendFailed \/ Published
    \/ DeclareEnd \/ DeclareFail
    \/ \E b \in Brokers : \/ CommitDiscard(b) \/ CommitSkip(b)
                          \/ CommitFlush(b)
                          \/ AbortDrop(b) \/ AbortRollback(b)
    \/ TxCommitOk
    \/ \E applied \in BOOLEAN : TxCommitFail(applied)
    \/ CommitEnd
    \/ TxRollbackOk \/ TxRollbackFail \/ AbortEnd
    \/ (pc = "error" /\ (SubAbort \/ AbortStart))

Environment ==
    \/ EndSession
    \/ \E b \in Brokers :
         \/ \E f \in Alarm : BrokerAlarm(b, f)
         \/ \E c \in {1, 2} : CloseChannel(b, c)
         \/ CloseConnection(b)
         \/ PeerDown(b)

Next == Client \/ Backend \/ Environment

Spec == Init /\ [][Next]_vars

\* Every socket operation is bounded by a timeout and every loop by data the
\* backend holds, so the backend keeps moving; nobody else has to.
FairSpec == Spec /\ WF_vars(Backend)

-----------------------------------------------------------------------------
\* Properties.

Bs == [conn : BOOLEAN, uncommitted : Nat, inerror : BOOLEAN,
       blocked : BOOLEAN]
Link == [up : BOOLEAN, closing : SUBSET {1, 2}, tx : BOOLEAN,
         inbox : Seq(Frame), txbuf : SUBSET Msgs, seen : SUBSET (0..2),
         timeout : {"none", "handshake", "operation", "commit"}]
Call == [ch : {1, 2}, m : Msgs \cup {None}, mandatory : BOOLEAN,
         once_more : BOOLEAN, rv : BOOLEAN]

\* Type invariant of the module; the locals have a value while in scope.
TypeOK ==
    /\ pc \in Pcs /\ cur \in Brokers \cup {None} /\ call \in Call
    /\ pc \notin {"idle", "error", "commit", "abort"} => cur \in Brokers
    /\ pc \in CallPcs => call.m \in Msgs
    /\ bs \in [Brokers -> Bs]
    /\ link \in [Brokers -> Link]
    /\ xact \in {"none", "active", "prepared"}
    /\ depth \in 0..MaxDepth
    /\ todo \in SUBSET Brokers
    /\ upsets \in 0..MaxUpsets
    /\ fate \in [Msgs -> Fates]
    /\ level \in [Msgs -> 0..MaxDepth]
    /\ counted \in [Brokers -> SUBSET Msgs]
    /\ delivered \in SUBSET Msgs /\ leaked \in SUBSET Msgs
    /\ lost \in [Causes -> SUBSET Msgs]

\* A broker makes a message visible only if it was sent autonomously or its
\* transaction committed with the publishing savepoint intact: not after
\* ROLLBACK, ROLLBACK TO, PREPARE, a failed call or a crash
\* (amqp_local_phase2, amqp_local_subxact).  Messages sent on a channel 2
\* without tx mode are not among "delivered": see OnlyOnCommit.
NoPhantom ==
    \A m \in delivered : fate[m] \in {"committed", "autonomous"}

\* Messages are counted only while there is a connection to hold them:
\* local_amqp_disconnect_bs must reset the counter it invalidates.
BufferNeedsConn ==
    \A b \in Brokers : bs[b].uncommitted > 0 => bs[b].conn

\* The numbers the WARNINGs of the callback print are the numbers of
\* acknowledged messages at stake.
CountExact ==
    \A b \in Brokers : bs[b].uncommitted = Cardinality(counted[b])

\* A transaction leaves no buffer behind, on either side, for the next one to
\* flush, and only PREPARE can leave a poisoned channel behind.
CleanBetweenTransactions ==
    xact # "active" =>
      \A b \in Brokers : /\ bs[b].uncommitted = 0
                         /\ link[b].txbuf = {}
                         /\ bs[b].inerror => xact = "prepared"

\* Every acknowledged message of a committed transaction is at the broker,
\* still waiting for its turn in the callback, or was dropped at one of the
\* places that drop a buffer: a tx.commit-ok never hides a lost message.
LossAccounted ==
    \A m \in Msgs :
      fate[m] = "committed" =>
        \/ m \in delivered
        \/ \E c \in Causes : m \in lost[c]
        \/ pc \in CommitPcs /\ \E b \in Brokers : m \in counted[b]

\* The tight commit budget covers tx.commit and tx.rollback and nothing else:
\* no connection is left on it when the callback is over.
TimeoutBudget ==
    /\ pc \in {"tx_commit", "rollback"} => link[cur].timeout = "commit"
    /\ \A b \in Brokers :
         link[b].timeout = "commit" =>
           b = cur /\ pc \in {"commit_drain", "tx_commit", "rollback"}

\* Every call and every callback returns, whatever the broker does.
BackendReturns == (pc # "idle") ~> (pc = "idle")

\* A flush delivers exactly the messages that were acknowledged and counted
\* on that connection: none of an earlier transaction or connection, and no
\* part of them only.
FlushIsExact ==
    [][pc = "tx_commit" /\ delivered' # delivered =>
         delivered' = delivered \cup counted[cur]]_vars

\* The backend, its callbacks and the brokers keep the promise of TxPublish:
\* what amqp.publish() accepted for a broker is shown only after the commit, all
\* of it at one moment, and what was dropped is never shown later, whichever
\* connection, transaction or savepoint comes in between.
StateOf ==
    [unused |-> "new", calling |-> "pending", acked |-> "pending",
     refused |-> "withdrawn", undone |-> "withdrawn", aborted |-> "withdrawn",
     prepared |-> "withdrawn", committed |-> "committed", autonomous |-> "direct"]

Promise == INSTANCE TxPublish
    WITH state <- [m \in Msgs |-> StateOf[fate[m]]], owed <- counted,
         shown <- delivered
KeepsPromise == Promise!Spec

-----------------------------------------------------------------------------
\* What the source says of itself and does not keep.

\* "make the resulting loss LOUD instead of silently dropping it", and "a
\* declare failure ... must NOT poison the channel-2 transactional buffer
\* (which would silently discard unrelated amqp.publish() messages at
\* commit)": no message of a committed transaction has been dropped without a
\* WARNING by something that went wrong on channel 1.
LoudLoss ==
    \A m \in lost["declare"] \cup lost["autonomous"] : fate[m] # "committed"

\* "The message will only be published if the containing PostgreSQL
\* transaction successfully commits."
OnlyOnCommit ==
    \A m \in delivered \cup leaked :
      fate[m] \in {"calling", "acked", "committed", "autonomous"}

\* "-1 if the broker has torn it down ... (caller should reconnect)": nothing
\* is written to a channel whose close has been read.
SeenCloseMeansReconnect ==
    pc = "send" => link[cur].seen \cap {0, call.ch} = {}
=============================================================================
