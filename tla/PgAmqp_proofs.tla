--------------------------- MODULE PgAmqp_proofs ----------------------------
(* Machine-checked proofs about PgAmqp, for every set of brokers and of    *)
(* messages and every bound.                                               *)
EXTENDS PgAmqp, TLAPS

-----------------------------------------------------------------------------
\* Types.

\* Facts about the records the actions write.
LEMMA NewTypes == /\ NewBs \in Bs
                  /\ NoLink \in Link
                  /\ NewLink \in Link
                  /\ NoCall \in Call
  <1>1. << >> \in Seq(Frame)
    OBVIOUS
  <1>2. NoLink \in Link
    BY <1>1 DEF NoLink, Link
  <1> QED BY <1>1, <1>2 DEF NewBs, Bs, NewLink, NoLink, Link, NoCall, Call

\* Every assignment to a brokerstate yields a brokerstate.
LEMMA BsTypes ==
  ASSUME NEW s \in Bs
  PROVE  /\ disconnect_bs(s) \in Bs
         /\ Cleared(s) \in Bs
         /\ Zero(s) \in Bs
         /\ Count(s) \in Bs
         /\ Poison(s) \in Bs
         /\ amqp_local_subxact(s) \in Bs
         /\ Zero(Cleared(s)) \in Bs
         /\ Zero(disconnect_bs(s)) \in Bs
  <1>1. \A t \in Bs : Zero(t) \in Bs
    BY DEF Zero, Bs
  <1>2. disconnect_bs(s) \in Bs
    BY DEF disconnect_bs, Bs
  <1>3. Cleared(s) \in Bs
    BY <1>2 DEF Cleared, Bs
  <1>4. Poison(s) \in Bs
    BY DEF Poison, Bs
  <1>5. Count(s) \in Bs
    BY DEF Count, Bs
  <1> QED BY <1>1, <1>2, <1>3, <1>4, <1>5 DEF amqp_local_subxact

\* Every change of a connection yields a connection.
LEMMA LinkTypes ==
  ASSUME NEW l \in Link
  PROVE  /\ \A t \in {"none", "handshake", "operation", "commit"} :
              SetTimeout(l, t) \in Link
         /\ l.inbox # << >> => ReadFrame(l) \in Link
         /\ \A f \in Frame : Arrive(l, f) \in Link
         /\ \A m \in Msgs : Buffer(l, m) \in Link
         /\ Empty(l) \in Link
         /\ Down(l) \in Link
         /\ TxDone(l) \in Link
         /\ \A c \in 0..2 : SeeClose(l, c) \in Link
         /\ \A c \in {1, 2} : ShutChannel(l, c) \in Link
  <1>1. \A t \in {"none", "handshake", "operation", "commit"} :
              SetTimeout(l, t) \in Link
    BY DEF SetTimeout, Link
  <1>2. l.inbox # << >> => ReadFrame(l) \in Link
    <2>1. ASSUME l.inbox # << >> PROVE  Tail(l.inbox) \in Seq(Frame)
      BY <2>1 DEF Link
    <2> QED BY <2>1 DEF ReadFrame, Link
  <1>3. \A f \in Frame : Arrive(l, f) \in Link
    <2>1. \A f \in Frame : Append(l.inbox, f) \in Seq(Frame)
      BY DEF Link
    <2> QED BY <2>1 DEF Arrive, Link
  <1>4. \A m \in Msgs : Buffer(l, m) \in Link
    BY DEF Buffer, Link
  <1>5. Empty(l) \in Link
    BY DEF Empty, Link
  <1>6. Down(l) \in Link
    BY DEF Down, Empty, Link
  <1>7. \A c \in 0..2 : SeeClose(l, c) \in Link
    BY DEF SeeClose, Link
  <1>8. \A c \in {1, 2} : ShutChannel(l, c) \in Link
    BY DEF ShutChannel, Link
  <1>9. TxDone(l) \in Link
    BY DEF TxDone, SetTimeout, Empty, Link
  <1> QED BY <1>1, <1>2, <1>3, <1>4, <1>5, <1>6, <1>7, <1>8, <1>9

\* Dropping a connection keeps the types of what it writes.
LEMMA DropLinkType ==
  ASSUME TypeOK, NEW b \in Brokers, NEW causes, DropLink(b, causes)
  PROVE  /\ link' \in [Brokers -> Link]
         /\ counted' \in [Brokers -> SUBSET Msgs]
         /\ lost' \in [Causes -> SUBSET Msgs]
  BY NewTypes DEF TypeOK, DropLink

\* Neither does the end of the process disturb any type.
LEMMA EndSessionType == TypeOK /\ EndSession => TypeOK'
  <1> SUFFICES ASSUME TypeOK, EndSession PROVE TypeOK'
    OBVIOUS
  <1> DEFINE L == {m \in UNION {counted[b] : b \in Brokers} :
                     fate[m] = "committed"}
  <1>1. L \in SUBSET Msgs
    BY DEF TypeOK
  <1>2. lost' = [lost EXCEPT !["exit"] = @ \cup L]
    BY DEF EndSession
  <1>3. lost' \in [Causes -> SUBSET Msgs]
    <2> HIDE DEF L
    <2> QED BY <1>1, <1>2 DEF TypeOK
  <1> QED BY <1>3, NewTypes, BoundAssumption
          DEF EndSession, TypeOK, Pcs, CallPcs, Fates, visible

LEMMA InitType == Init => TypeOK
  BY NewTypes, BoundAssumption
     DEF Init, TypeOK, Pcs, CallPcs, CommitPcs, AbortPcs, Fates

\* Rollbacks are asked for by the client or forced by an ERROR.
LEMMA SubAbortType == TypeOK /\ SubAbort => TypeOK'
  <1> SUFFICES ASSUME TypeOK, SubAbort PROVE TypeOK'
    OBVIOUS
  <1>1. \A b \in Brokers : amqp_local_subxact(bs[b]) \in Bs
    BY BsTypes DEF TypeOK
  <1>2. bs' \in [Brokers -> Bs]
    BY <1>1 DEF SubAbort
  <1> QED BY <1>2, BoundAssumption
          DEF SubAbort, UndoLevel, TypeOK, Pcs, CallPcs, Fates, visible

LEMMA AbortStartType == TypeOK /\ AbortStart => TypeOK'
  BY BoundAssumption
     DEF AbortStart, AbortFate, TypeOK, Pcs, CallPcs, AbortPcs, Fates, bsVars,
         visible

\* A step of the SQL client preserves the types.
LEMMA ClientType == TypeOK /\ Client => TypeOK'
  <1> SUFFICES ASSUME TypeOK, Client PROVE TypeOK'
    OBVIOUS
  <1> USE DEF callVars, bsVars, xactVars, msgVars, visible, CallPcs
  <1>1. CASE Begin
    BY <1>1 DEF Begin, TypeOK
  <1>2. CASE Savepoint
    BY <1>2, BoundAssumption DEF Savepoint, TypeOK
  <1>3. CASE Release
    BY <1>3, BoundAssumption DEF Release, TypeOK
  <1>4. CASE SubAbort
    BY <1>4, SubAbortType
  <1>5. ASSUME NEW b \in Brokers, NEW m \in Msgs, NEW mand \in BOOLEAN,
               NEW ch \in {1, 2}, PublishCall(ch, b, m, mand)
        PROVE  TypeOK'
    <2>1. call' \in Call /\ call'.m \in Msgs
      BY <1>5 DEF PublishCall, Call
    <2>2. fate' \in [Msgs -> Fates]
      BY <1>5 DEF PublishCall, TypeOK, Fates
    <2> QED BY <1>5, <2>1, <2>2 DEF PublishCall, TypeOK, Pcs
  <1>6. ASSUME NEW m \in Msgs, RefuseEarly(m) PROVE TypeOK'
    BY <1>6 DEF RefuseEarly, TypeOK, Fates
  <1>7. ASSUME NEW b \in Brokers, DeclareCall(b) PROVE TypeOK'
    BY <1>7 DEF DeclareCall, TypeOK, Pcs
  <1>8. ASSUME NEW b \in Brokers, Disconnect(b) PROVE TypeOK'
    <2>1. bs' \in [Brokers -> Bs]
      BY <1>8, BsTypes DEF Disconnect, TypeOK
    <2> QED BY <1>8, <2>1, DropLinkType DEF Disconnect, TypeOK
  <1>9. CASE CommitStart
    BY <1>9, BoundAssumption DEF CommitStart, TypeOK, Pcs, CommitPcs, Fates
  <1>10. CASE AbortStart
    BY <1>10, AbortStartType
  <1>11. CASE PrepareRefused
    BY <1>11, BoundAssumption DEF PrepareRefused, AbortFate, TypeOK, Pcs, AbortPcs,
       Fates
  <1>12. CASE Prepare
    BY <1>12, BoundAssumption DEF Prepare, TypeOK, Fates
  <1> QED BY <1>1, <1>2, <1>3, <1>4, <1>5, <1>6, <1>7, <1>8, <1>9, <1>10,
             <1>11, <1>12 DEF Client

\* What the backend does by itself preserves the types.
LEMMA BackendType == TypeOK /\ Backend => TypeOK'
  <1> SUFFICES ASSUME TypeOK, Backend PROVE TypeOK'
    OBVIOUS
  <1> USE DEF callVars, bsVars, xactVars, msgVars, visible, CallPcs
  <1>1. CASE Connect
    BY <1>1, NewTypes DEF Connect, TypeOK, Bs
  <1>2. CASE ConnectInterrupted
    <2>1. HalfOpen \subseteq Link
      <3>1. /\ SetTimeout(NewLink, "handshake") \in Link
            /\ SetTimeout(NoLink, "handshake") \in Link
        BY NewTypes, LinkTypes
      <3>2. \A l \in Link : /\ [l EXCEPT !.closing = {2}, !.tx = FALSE] \in Link
                            /\ [l EXCEPT !.tx = FALSE] \in Link
        BY DEF Link
      <3> QED BY <3>1, <3>2 DEF HalfOpen
    <2>2. \A s \in Bs : [s EXCEPT !.conn = TRUE] \in Bs
      BY DEF Bs
    <2>3. bs' \in [Brokers -> Bs] /\ link' \in [Brokers -> Link]
      BY <1>2, <2>1, <2>2 DEF ConnectInterrupted, TypeOK
    <2> QED BY <1>2, <2>3, NewTypes, BoundAssumption
            DEF ConnectInterrupted, Raise, Upset, TypeOK, Pcs, Fates
  <1>3. CASE PublishRefused
    BY <1>3, NewTypes DEF PublishRefused, Return, TypeOK, Pcs, Fates
  <1>4. CASE PublishReady
    BY <1>4 DEF PublishReady, TypeOK, Pcs
  <1>5. CASE PublishBlocked
    BY <1>5, NewTypes, BoundAssumption
       DEF PublishBlocked, Return, Raise, Upset, TypeOK, Pcs, Fates
  <1>6. CASE DrainAlarm
    <2>1. link' \in [Brokers -> Link]
      BY <1>6, LinkTypes DEF DrainAlarm, HeadIs, TypeOK
    <2>2. bs' \in [Brokers -> Bs]
      BY ZenonT(60), <1>6 DEF DrainAlarm, TypeOK, Bs
    <2> QED BY <1>6, <2>1, <2>2 DEF DrainAlarm, TypeOK
  <1>7. CASE DrainInterrupted
    <2>1. link' \in [Brokers -> Link]
      BY <1>7, LinkTypes DEF DrainInterrupted, HeadIs, TypeOK
    <2> QED BY <1>7, <2>1, NewTypes, BoundAssumption
            DEF DrainInterrupted, Raise, Upset, TypeOK, Pcs, Fates
  <1>8. CASE DrainClose
    <2>1. Head(link[cur].inbox).ch \in 0..2 /\ cur \in Brokers
      BY <1>8 DEF DrainClose, DrainPcs, HeadIs, TypeOK, Link, Frame, Alarm, Close
    <2>2. link' \in [Brokers -> Link]
      BY <1>8, <2>1, LinkTypes DEF DrainClose, HeadIs, TypeOK
    <2> QED BY <1>8, <2>2
            DEF DrainClose, DrainPcs, AfterDrain, TypeOK, Pcs, CommitPcs
  <1>9. CASE DrainEnd
    BY <1>9 DEF DrainEnd, DrainPcs, AfterDrain, TypeOK, Pcs, CommitPcs
  <1>10. CASE Redo
    <2>1. cur \in Brokers /\ call.m \in Msgs
      BY <1>10 DEF Redo, Failed, TypeOK
    <2>2. bs' \in [Brokers -> Bs]
      BY <1>10, BsTypes DEF Redo, TypeOK
    <2>3. call' \in Call /\ call'.m = call.m
      BY <1>10 DEF Redo, Again, TypeOK, Call
    <2> QED BY <1>10, <2>1, <2>2, <2>3, DropLinkType DEF Redo, TypeOK, Pcs
  <1>11. CASE GiveUp
    <2>1. bs' \in [Brokers -> Bs]
      BY <1>11, BsTypes DEF GiveUp, TypeOK
    <2> QED BY <1>11, <2>1, NewTypes DEF GiveUp, Return, TypeOK, Pcs, Fates
  <1>12. ASSUME NEW rv \in BOOLEAN, Sent(rv), pc = "send"
         PROVE  /\ pc' \in {"post", "ret"} /\ call' \in Call
                /\ cur \in Brokers /\ call'.m = call.m /\ call.m \in Msgs
    BY <1>12 DEF Sent, TypeOK, Call
  <1>13. CASE SendAccepted
    <2>1. /\ link' \in [Brokers -> Link]
          /\ delivered' \in SUBSET Msgs /\ leaked' \in SUBSET Msgs
      BY <1>13, LinkTypes DEF SendAccepted, TypeOK
    <2> QED BY <1>12, <1>13, <2>1 DEF SendAccepted, TypeOK, Pcs
  <1>14. CASE SendIgnored
    BY <1>12, <1>14 DEF SendIgnored, TypeOK, Pcs
  <1>15. CASE SendFailed
    <2>1. link' \in [Brokers -> Link]
      BY <1>15, LinkTypes DEF SendFailed, TypeOK
    <2> QED BY <1>12, <1>15, <2>1 DEF SendFailed, TypeOK, Pcs
  <1>16. CASE Published
    <2>1. bs' \in [Brokers -> Bs]
      BY <1>16, BsTypes DEF Published, TypeOK
    <2>2. /\ counted' \in [Brokers -> SUBSET Msgs]
          /\ level' \in [Msgs -> 0..MaxDepth]
      BY <1>16 DEF Published, TypeOK
    <2> QED BY <1>16, <2>1, <2>2, NewTypes
            DEF Published, Return, TypeOK, Pcs, Fates
  <1>17. CASE DeclareEnd
    BY <1>17 DEF DeclareEnd, DeclareReturn, TypeOK, Pcs
  <1>18. CASE DeclareFail
    <2>1. bs' \in [Brokers -> Bs] /\ cur \in Brokers
      BY <1>18, BsTypes DEF DeclareFail, TypeOK
    <2> QED BY <1>18, <2>1, DropLinkType
            DEF DeclareFail, DeclareReturn, TypeOK, Pcs
  <1>19. ASSUME NEW b \in Brokers, CommitDiscard(b) PROVE TypeOK'
    <2>1. bs' \in [Brokers -> Bs]
      BY <1>19, BsTypes DEF CommitDiscard, TypeOK
    <2> QED BY <1>19, <2>1, DropLinkType DEF CommitDiscard, TypeOK
  <1>20. ASSUME NEW b \in Brokers, CommitSkip(b) PROVE TypeOK'
    <2>1. bs' \in [Brokers -> Bs]
      BY <1>20, BsTypes DEF CommitSkip, TypeOK
    <2> QED BY <1>20, <2>1, DropLinkType DEF CommitSkip, TypeOK
  <1>21. ASSUME NEW b \in Brokers, CommitFlush(b) PROVE TypeOK'
    <2>1. link' \in [Brokers -> Link]
      BY <1>21, LinkTypes DEF CommitFlush, TypeOK
    <2> QED BY <1>21, <2>1 DEF CommitFlush, TypeOK, Pcs, CommitPcs
  <1>22. ASSUME NEW b \in Brokers, AbortDrop(b) PROVE TypeOK'
    <2>1. bs' \in [Brokers -> Bs]
      BY SMTT(30), <1>22, BsTypes DEF AbortDrop, TypeOK
    <2> QED BY <1>22, <2>1, DropLinkType DEF AbortDrop, TypeOK
  <1>23. ASSUME NEW b \in Brokers, AbortRollback(b) PROVE TypeOK'
    <2>1. link' \in [Brokers -> Link]
      BY <1>23, LinkTypes DEF AbortRollback, TypeOK
    <2> QED BY <1>23, <2>1 DEF AbortRollback, TypeOK, Pcs, AbortPcs
  <1>24. CASE TxCommitOk
    <2>1. link' \in [Brokers -> Link]
      BY <1>24, LinkTypes DEF TxCommitOk, TypeOK
    <2>2. bs' \in [Brokers -> Bs]
      BY <1>24, BsTypes DEF TxCommitOk, TypeOK
    <2>3. delivered' \in SUBSET Msgs
      BY <1>24 DEF TxCommitOk, TypeOK, Link
    <2> QED BY <1>24, <2>1, <2>2, <2>3
            DEF TxCommitOk, NextBroker, TypeOK, Pcs, CommitPcs
  <1>25. ASSUME NEW applied \in BOOLEAN, TxCommitFail(applied) PROVE TypeOK'
    <2>1. delivered' \in SUBSET Msgs /\ cur \in Brokers
      BY <1>25 DEF TxCommitFail, TypeOK, Link
    <2>2. bs' \in [Brokers -> Bs]
      BY <1>25, BsTypes DEF TxCommitFail, TypeOK
    <2> QED BY <1>25, <2>1, <2>2, DropLinkType
            DEF TxCommitFail, NextBroker, TypeOK, Pcs, CommitPcs
  <1>26. CASE CommitEnd
    BY <1>26, BoundAssumption DEF CommitEnd, XactEnds, TypeOK, Pcs
  <1>27. CASE TxRollbackOk
    <2>1. link' \in [Brokers -> Link]
      BY <1>27, LinkTypes DEF TxRollbackOk, TypeOK
    <2>2. bs' \in [Brokers -> Bs]
      BY <1>27, BsTypes DEF TxRollbackOk, TypeOK
    <2> QED BY <1>27, <2>1, <2>2
            DEF TxRollbackOk, NextBroker, TypeOK, Pcs, AbortPcs
  <1>28. CASE TxRollbackFail
    <2>1. bs' \in [Brokers -> Bs] /\ cur \in Brokers
      BY <1>28, BsTypes DEF TxRollbackFail, TypeOK
    <2> QED BY <1>28, <2>1, DropLinkType
            DEF TxRollbackFail, NextBroker, TypeOK, Pcs, AbortPcs
  <1>29. CASE AbortEnd
    BY <1>29, BoundAssumption DEF AbortEnd, XactEnds, TypeOK, Pcs
  <1>30. CASE SubAbort
    BY <1>30, SubAbortType
  <1>31. CASE AbortStart
    BY <1>31, AbortStartType
  <1> QED BY <1>1, <1>2, <1>3, <1>4, <1>5, <1>6, <1>7, <1>8, <1>9, <1>10,
             <1>11, <1>13, <1>14, <1>15, <1>16, <1>17, <1>18, <1>19, <1>20,
             <1>21, <1>22, <1>23, <1>24, <1>25, <1>26, <1>27, <1>28, <1>29,
             <1>30, <1>31 DEF Backend

\* The broker, the network and a crash preserve the types.
LEMMA EnvironmentType == TypeOK /\ Environment => TypeOK'
  <1> SUFFICES ASSUME TypeOK, Environment PROVE TypeOK'
    OBVIOUS
  <1> USE DEF callVars, bsVars, xactVars, msgVars, visible
  <1>1. CASE EndSession
    BY <1>1, EndSessionType
  <1>2. \A c \in 0..2 : CloseFrame(c) \in Frame
    BY DEF CloseFrame, Frame, Close
  <1>3. ASSUME NEW b \in Brokers, NEW f \in Alarm, BrokerAlarm(b, f)
        PROVE  TypeOK'
    <2>1. f \in Frame /\ link[b] \in Link
      BY DEF Frame, TypeOK
    <2>2. Arrive(link[b], f) \in Link
      BY <2>1, LinkTypes
    <2> QED BY <1>3, <2>2, BoundAssumption DEF BrokerAlarm, Upset, TypeOK
  <1>4. ASSUME NEW b \in Brokers, NEW c \in {1, 2}, CloseChannel(b, c)
        PROVE  TypeOK'
    <2>1. CloseFrame(c) \in Frame /\ link[b] \in Link
      BY <1>2 DEF TypeOK
    <2>2. Arrive(link[b], CloseFrame(c)) \in Link
      BY <2>1, LinkTypes
    <2>3. link' \in [Brokers -> Link]
      BY <1>4, <2>2, LinkTypes DEF CloseChannel, TypeOK
    <2> QED BY <1>4, <2>3 DEF CloseChannel, TypeOK
  <1>5. ASSUME NEW b \in Brokers, CloseConnection(b) PROVE TypeOK'
    <2>1. CloseFrame(0) \in Frame /\ link[b] \in Link
      BY <1>2 DEF TypeOK
    <2>2. Arrive(link[b], CloseFrame(0)) \in Link
      BY <2>1, LinkTypes
    <2>3. link' \in [Brokers -> Link]
      BY <1>5, <2>2, LinkTypes DEF CloseConnection, TypeOK
    <2> QED BY <1>5, <2>3 DEF CloseConnection, TypeOK
  <1>6. ASSUME NEW b \in Brokers, PeerDown(b) PROVE TypeOK'
    BY <1>6, LinkTypes DEF PeerDown, TypeOK
  <1> QED BY <1>1, <1>3, <1>4, <1>5, <1>6 DEF Environment

LEMMA TypeStep == TypeOK /\ [Next]_vars => TypeOK'
  <1> SUFFICES ASSUME TypeOK, [Next]_vars PROVE TypeOK'
    OBVIOUS
  <1>1. CASE UNCHANGED vars
    BY <1>1 DEF vars, callVars, bsVars, xactVars, msgVars, visible, TypeOK
  <1> QED BY <1>1, ClientType, BackendType, EnvironmentType DEF Next

\* Every reachable state of the backend and its brokers is well typed.
THEOREM TypeCorrect == Spec => []TypeOK
  BY InitType, TypeStep, PTL DEF Spec

-----------------------------------------------------------------------------
\* The inductive invariant behind the safety properties, part by part.

\* A message that is on the wire of channel 2 and not counted yet.
InFlight(b) ==
    IF pc = "ret" /\ cur = b /\ call.ch = 2 /\ call.rv THEN {call.m} ELSE {}

\* The broker buffers nothing the backend does not know of.
BufferCounted ==
    \A b \in Brokers : /\ link[b].txbuf \subseteq counted[b] \cup InFlight(b)
                       /\ bs[b].uncommitted = 0 => counted[b] = {}

\* A transaction exists while anything runs; a call works on a connection.
CallActive ==
    /\ pc # "idle" => xact = "active"
    /\ pc \in {"drain", "dead", "send", "post", "ret",
              "commit_drain", "tx_commit", "rollback"} => bs[cur].conn

\* What is being published is neither decided nor delivered.
CallFate ==
    pc \in CallPcs =>
      /\ fate[call.m] = IF call.ch = 2 THEN "calling" ELSE "autonomous"
      /\ ~call.rv => call.m \notin delivered
      /\ pc \notin {"post", "ret"} => ~call.rv

\* Counted messages share the fate of the transaction, but for those of a
\* rolled back savepoint, and these have poisoned the channel.
CountedFate ==
    \A b \in Brokers : \A m \in counted[b] :
      \/ fate[m] = CASE pc \in CommitPcs -> "committed"
                     [] pc \in AbortPcs  -> "aborted"
                     [] OTHER            -> "acked"
      \/ fate[m] = "undone" /\ bs[b].inerror

\* The callback leaves a settled record behind it and flushes only a
\* channel that is not poisoned.
Settled(b) == bs[b].uncommitted = 0 /\ ~bs[b].inerror

CallbackProgress ==
    /\ pc \in CommitPcs \cup AbortPcs =>
         \A b \in Brokers \ (todo \cup {cur}) : Settled(b)
    /\ pc \in {"idle", "error", "commit", "abort"} => cur = None
    /\ pc \in {"commit_drain", "tx_commit", "rollback"} => ~bs[cur].inerror
    /\ xact # "active" =>
         \A b \in Brokers : /\ bs[b].uncommitted = 0
                            /\ bs[b].inerror => xact = "prepared"

IInv == /\ BufferCounted /\ BufferNeedsConn /\ CallActive /\ CallFate
        /\ CountedFate /\ CallbackProgress /\ NoPhantom

\* A dropped connection leaves an empty count behind.
LEMMA ClearedFacts ==
  ASSUME NEW s \in Bs
  PROVE  /\ ~Cleared(s).inerror
         /\ Cleared(s).uncommitted = IF s.conn THEN 0 ELSE s.uncommitted
         /\ ~Zero(Cleared(s)).inerror /\ Zero(Cleared(s)).uncommitted = 0
  BY DEF Zero, Cleared, disconnect_bs, Bs

\* A connection left behind by a cancelled connect has nothing buffered.
LEMMA HalfOpenFacts == \A l \in HalfOpen : l.txbuf = {}
  <1>1. NewLink.txbuf = {} /\ NoLink.txbuf = {}
    BY DEF NewLink, NoLink
  <1>2. \A l \in Link : /\ SetTimeout(l, "handshake") \in Link
                        /\ SetTimeout(l, "handshake").txbuf = l.txbuf
    BY DEF SetTimeout, Link
  <1>3. \A l \in Link :
          /\ [l EXCEPT !.closing = {2}, !.tx = FALSE].txbuf = l.txbuf
          /\ [l EXCEPT !.tx = FALSE].txbuf = l.txbuf
    BY DEF Link
  <1> DEFINE n == SetTimeout(NewLink, "handshake")
  <1>4. n \in Link /\ n.txbuf = {}
    BY <1>1, <1>2, NewTypes
  <1>5. SetTimeout(NoLink, "handshake").txbuf = {}
    BY <1>1, <1>2, NewTypes
  <1>6. /\ [n EXCEPT !.closing = {2}, !.tx = FALSE].txbuf = {}
        /\ [n EXCEPT !.tx = FALSE].txbuf = {}
    BY <1>3, <1>4
  <1>7. HalfOpen = {SetTimeout(NoLink, "handshake"),
                    [n EXCEPT !.closing = {2}, !.tx = FALSE],
                    [n EXCEPT !.tx = FALSE], n}
    BY DEF HalfOpen
  <1> HIDE DEF n
  <1> QED BY <1>4, <1>5, <1>6, <1>7, Zenon

LEMMA InitInv == Init => IInv
  BY DEF Init, NewBs, NoLink, IInv, BufferCounted, InFlight,
         BufferNeedsConn, CallActive, CallFate, CountedFate,
         CallbackProgress, Settled, NoPhantom, CallPcs, CommitPcs, AbortPcs

\* The end of the process: both sides forget the buffer.
LEMMA EndSessionInv == TypeOK /\ TypeOK' /\ IInv /\ EndSession => IInv'
  <1> SUFFICES ASSUME TypeOK, TypeOK', IInv, EndSession PROVE IInv'
    OBVIOUS
  <1> USE DEF TypeOK, Bs, Link, Call, IInv, BufferCounted, InFlight,
              BufferNeedsConn, CallActive, CallFate, CountedFate,
              CallbackProgress, Settled, NoPhantom
  <1> USE DEF callVars, bsVars, xactVars, msgVars, visible, CallPcs, CommitPcs,
              AbortPcs
  <1> QED BY NoneAssumption DEF EndSession, NewBs, NoLink, NoCall

\* Rolling a savepoint back poisons every channel that has messages.
LEMMA SubAbortInv == TypeOK /\ TypeOK' /\ IInv /\ SubAbort => IInv'
  <1> SUFFICES ASSUME TypeOK, TypeOK', IInv, SubAbort PROVE IInv'
    OBVIOUS
  <1> USE DEF TypeOK, Bs, Link, Call, IInv, BufferCounted, InFlight,
              BufferNeedsConn, CallActive, CallFate, CountedFate,
              CallbackProgress, Settled, NoPhantom
  <1> USE DEF callVars, bsVars, xactVars, msgVars, visible, CallPcs, CommitPcs,
              AbortPcs
  <1> QED BY NoneAssumption DEF SubAbort, UndoLevel, amqp_local_subxact,
     Poison

\* The transaction aborts, and with it every counted message.
LEMMA AbortStartInv == TypeOK /\ TypeOK' /\ IInv /\ AbortStart => IInv'
  <1> SUFFICES ASSUME TypeOK, TypeOK', IInv, AbortStart PROVE IInv'
    OBVIOUS
  <1> USE DEF TypeOK, Bs, Link, Call, IInv, BufferCounted, InFlight,
              BufferNeedsConn, CallActive, CallFate, CountedFate,
              CallbackProgress, Settled, NoPhantom
  <1> USE DEF callVars, bsVars, xactVars, msgVars, visible, CallPcs, CommitPcs,
              AbortPcs
  <1> QED BY NoneAssumption DEF AbortStart, AbortFate

\* A cancelled connect changes no count and decides only the call's message.
LEMMA ConnectInterruptedInv ==
  TypeOK /\ TypeOK' /\ IInv /\ ConnectInterrupted => IInv'
  <1> SUFFICES ASSUME TypeOK, TypeOK', IInv, ConnectInterrupted PROVE IInv'
    OBVIOUS
  <1>1. /\ pc \in {"get_bs", "declare"} /\ cur \in Brokers
        /\ pc' = "error" /\ cur' = None
        /\ UNCHANGED <<counted, delivered, xact>>
    BY DEF ConnectInterrupted, Raise, TypeOK, xactVars, visible
  <1>2. \/ fate' = fate
        \/ /\ pc = "get_bs" /\ call.ch = 2
           /\ fate' = [fate EXCEPT ![call.m] = "refused"]
    BY DEF ConnectInterrupted, Raise
  <1>3. /\ bs \in [Brokers -> Bs] /\ link \in [Brokers -> Link]
        /\ fate \in [Msgs -> Fates]
    BY DEF TypeOK
  <1>4. \/ UNCHANGED <<bs, link>>
        \/ /\ bs' = [bs EXCEPT ![cur] = [@ EXCEPT !.conn = TRUE]]
           /\ \E l \in HalfOpen : link' = [link EXCEPT ![cur] = l]
    BY DEF ConnectInterrupted
  <1>5. \A b \in Brokers : /\ bs'[b].uncommitted = bs[b].uncommitted
                           /\ bs'[b].inerror = bs[b].inerror
                           /\ bs[b].conn => bs'[b].conn
    BY <1>3, <1>4 DEF Bs
  <1>6. \A b \in Brokers : link'[b].txbuf \subseteq link[b].txbuf
    BY <1>3, <1>4, HalfOpenFacts
  <1>7. BufferCounted'
    <2>1. \A b \in Brokers : InFlight(b) = {}
      BY <1>1 DEF InFlight
    <2> QED BY <1>1, <1>5, <1>6, <2>1 DEF IInv, BufferCounted
  <1>8. BufferNeedsConn'
    BY <1>5 DEF IInv, BufferNeedsConn
  <1>9. CallActive' /\ CallFate'
    BY <1>1 DEF IInv, CallActive, CallFate, CallPcs
  <1>10. CountedFate'
    <2>1. \A b \in Brokers : \A m \in counted[b] :
            fate[m] = "acked" \/ (fate[m] = "undone" /\ bs[b].inerror)
      BY <1>1 DEF IInv, CountedFate, CommitPcs, AbortPcs
    <2>2. pc = "get_bs" /\ call.ch = 2 => fate[call.m] = "calling"
      BY DEF IInv, CallFate, CallPcs
    <2>3. \A b \in Brokers : \A m \in counted[b] : m \in Msgs
      BY DEF TypeOK
    <2>4. \A b \in Brokers : \A m \in counted[b] : fate'[m] = fate[m]
      BY <1>2, <1>3, <2>1, <2>2, <2>3
    <2> QED BY <1>1, <1>5, <2>1, <2>4 DEF CountedFate, CommitPcs, AbortPcs
  <1>11. CallbackProgress'
    BY <1>1, <1>5 DEF IInv, CallbackProgress, CallActive, CommitPcs, AbortPcs
  <1>12. NoPhantom'
    <2>1. pc = "get_bs" => call.m \notin delivered
      BY DEF IInv, CallFate, CallPcs
    <2>2. \A m \in delivered : m \in Msgs
      BY DEF TypeOK
    <2>3. \A m \in delivered : fate'[m] = fate[m]
      BY <1>2, <1>3, <2>1, <2>2
    <2> QED BY <1>1, <2>3 DEF IInv, NoPhantom
  <1> QED BY <1>7, <1>8, <1>9, <1>10, <1>11, <1>12 DEF IInv

\* The SQL client's steps preserve the invariant.
LEMMA ClientInv == TypeOK /\ TypeOK' /\ IInv /\ Client => IInv'
  <1> SUFFICES ASSUME TypeOK, TypeOK', IInv, Client PROVE IInv'
    OBVIOUS
  <1> USE DEF TypeOK, Bs, Link, Call, IInv, BufferCounted, InFlight,
              BufferNeedsConn, CallActive, CallFate, CountedFate,
              CallbackProgress, Settled, NoPhantom
  <1> USE DEF callVars, bsVars, xactVars, msgVars, visible, CallPcs, CommitPcs,
              AbortPcs
  <1>1. CASE Begin
    BY <1>1, NoneAssumption DEF Begin
  <1>2. CASE Savepoint
    BY <1>2, NoneAssumption DEF Savepoint
  <1>3. CASE Release
    BY <1>3, NoneAssumption DEF Release
  <1>4. CASE SubAbort
    BY <1>4, SubAbortInv
  <1>5. ASSUME NEW ch \in {1, 2}, NEW b \in Brokers, NEW m \in Msgs, NEW
     mand \in BOOLEAN, PublishCall(ch, b, m, mand) PROVE IInv'
    <2>1. call' = [ch |-> ch, m |-> m, mandatory |-> mand,
                   once_more |-> TRUE, rv |-> FALSE]
      BY <1>5 DEF PublishCall
    <2>2. m \notin delivered /\ \A b_1 \in Brokers : m \notin counted[b_1]
      BY <1>5 DEF PublishCall
    <2>3. CallFate'
      BY <1>5, <2>1, <2>2 DEF PublishCall
    <2>4. BufferCounted' /\ BufferNeedsConn' /\ CallActive'
      BY <1>5 DEF PublishCall
    <2>5. CountedFate' /\ NoPhantom'
      BY <1>5, <2>2 DEF PublishCall
    <2>6. CallbackProgress'
      BY <1>5 DEF PublishCall
    <2> QED BY <2>3, <2>4, <2>5, <2>6
  <1>6. ASSUME NEW m \in Msgs, RefuseEarly(m) PROVE IInv'
    BY <1>6, NoneAssumption DEF RefuseEarly
  <1>7. ASSUME NEW b \in Brokers, DeclareCall(b) PROVE IInv'
    BY <1>7, NoneAssumption DEF DeclareCall
  <1>8. ASSUME NEW b \in Brokers, Disconnect(b) PROVE IInv'
    BY <1>8, NoneAssumption DEF Disconnect, Cleared, disconnect_bs,
       DropLink, NoLink
  <1>9. CASE CommitStart
    BY <1>9, NoneAssumption DEF CommitStart
  <1>10. CASE AbortStart
    BY <1>10, AbortStartInv
  <1>11. CASE PrepareRefused
    BY <1>11, NoneAssumption DEF PrepareRefused, AbortFate
  <1>12. CASE Prepare
    BY <1>12, NoneAssumption DEF Prepare
  <1> HIDE DEF TypeOK, IInv
  <1> QED BY <1>1, <1>2, <1>3, <1>4, <1>5, <1>6, <1>7, <1>8, <1>9, <1>10,
     <1>11, <1>12 DEF Client

\* So do the backend's own,
LEMMA BackendInv == TypeOK /\ TypeOK' /\ IInv /\ Backend => IInv'
  <1> SUFFICES ASSUME TypeOK, TypeOK', IInv, Backend PROVE IInv'
    OBVIOUS
  <1> USE DEF TypeOK, Bs, Link, Call, IInv, BufferCounted, InFlight,
              BufferNeedsConn, CallActive, CallFate, CountedFate,
              CallbackProgress, Settled, NoPhantom
  <1> USE DEF callVars, bsVars, xactVars, msgVars, visible, CallPcs, CommitPcs,
              AbortPcs
  <1>1. CASE Connect
    BY <1>1, NoneAssumption DEF Connect, NewLink, NoLink
  <1>2. CASE ConnectInterrupted
    BY <1>2, ConnectInterruptedInv
  <1>3. CASE PublishRefused
    BY <1>3, NoneAssumption DEF PublishRefused, Return
  <1>4. CASE PublishReady
    BY <1>4, NoneAssumption DEF PublishReady
  <1>5. CASE DrainAlarm
    BY <1>5, NoneAssumption DEF DrainAlarm, DrainPcs, ReadFrame
  <1>6. CASE DrainInterrupted
    BY <1>6, NoneAssumption DEF DrainInterrupted, ReadFrame, Raise
  <1>7. CASE DrainClose
    BY SMTT(30), <1>7, NoneAssumption DEF DrainClose, DrainPcs, AfterDrain, ReadFrame,
       SeeClose
  <1>8. CASE DrainEnd
    BY SMTT(30), <1>8, NoneAssumption DEF DrainEnd, DrainPcs, AfterDrain
  <1>9. CASE Redo
    BY <1>9, NoneAssumption DEF Redo, Again, Failed, MayRedo, disconnect_bs,
       DropLink, NoLink
  <1>10. CASE GiveUp
    BY <1>10, NoneAssumption DEF GiveUp, Failed, MayRedo, Return, Poison
  <1>11. CASE PublishBlocked
    <2>1. pc = "send" /\ UNCHANGED <<bsVars, xactVars, delivered>>
      BY <1>11 DEF PublishBlocked
    <2>2. CASE Return("refused")
      BY SMTT(30), <2>1, <2>2 DEF Return
    <2>3. CASE Raise
      BY <2>1, <2>3 DEF Raise
    <2> QED BY <1>11, <2>2, <2>3 DEF PublishBlocked
  <1>12. CASE SendAccepted
    <2>1. CASE call.ch = 1
      BY <1>12, <2>1 DEF SendAccepted, Sent
    <2>2. CASE call.ch = 2 /\ ~link[cur].tx
      <3>1. /\ pc = "send" /\ pc' = "ret" /\ call' = [call EXCEPT !.rv = TRUE]
            /\ UNCHANGED <<cur, bs, link, counted, xactVars, fate, delivered>>
        BY <1>12, <2>2 DEF SendAccepted, Sent
      <3> QED BY <3>1
    <2>3. CASE call.ch = 2 /\ link[cur].tx
      <3>1. /\ pc = "send" /\ pc' = "ret" /\ call' = [call EXCEPT !.rv = TRUE]
            /\ link' = [link EXCEPT ![cur] = Buffer(@, call.m)]
            /\ UNCHANGED <<cur, bs, counted, xactVars, msgVars>>
        BY <1>12, <2>3 DEF SendAccepted, Sent
      <3>2. call'.rv /\ call'.ch = 2 /\ call'.m = call.m
        BY <2>3, <3>1
      <3>3. ASSUME NEW b \in Brokers
            PROVE  link'[b].txbuf \subseteq counted'[b] \cup InFlight(b)'
        <4>1. link'[b].txbuf \subseteq
                link[b].txbuf \cup (IF b = cur THEN {call.m} ELSE {})
          BY <3>1 DEF Buffer
        <4> QED BY <3>1, <3>2, <4>1
      <3>4. CallFate'
        BY <3>1, <3>2
      <3> QED BY <3>1, <3>3, <3>4
    <2> QED BY <2>1, <2>2, <2>3
  <1>13. CASE SendIgnored
    BY <1>13, NoneAssumption DEF SendIgnored, Sent
  <1>14. CASE SendFailed
    BY <1>14, NoneAssumption DEF SendFailed, Sent, Down, Empty
  <1>15. CASE Published
    <2>1. CASE call.ch = 1
      <3>1. /\ fate' = [fate EXCEPT ![call.m] = "autonomous"]
            /\ UNCHANGED <<bs, link, counted, xactVars, delivered>>
            /\ pc = "ret" /\ pc' = "idle" /\ cur' = None
        BY <1>15, <2>1 DEF Published, Return
      <3>2. fate' = fate
        BY <2>1, <3>1
      <3> QED BY <2>1, <3>1, <3>2
    <2>2. CASE call.ch = 2
      <3>1. /\ counted' = [counted EXCEPT ![cur] = @ \cup {call.m}]
            /\ bs' = [bs EXCEPT ![cur] = Count(@)]
            /\ fate' = [fate EXCEPT ![call.m] = "acked"]
            /\ UNCHANGED <<link, xactVars, delivered>>
            /\ pc = "ret" /\ pc' = "idle" /\ cur' = None
        BY <1>15, <2>2 DEF Published, Return
      <3>2. \A b \in Brokers :
              /\ bs'[b].conn = bs[b].conn /\ bs'[b].inerror = bs[b].inerror
              /\ bs'[b].uncommitted =
                   IF b = cur THEN bs[b].uncommitted + 1 ELSE bs[b].uncommitted
        BY <3>1 DEF Count
      <3>3. BufferCounted'
        <4>1. \A b \in Brokers :
                link'[b].txbuf \subseteq counted'[b] \cup InFlight(b)'
          BY <3>1
        <4>2. \A b \in Brokers : bs'[b].uncommitted = 0 => counted'[b] = {}
          BY <3>1, <3>2
        <4> QED BY <4>1, <4>2
      <3>4. BufferNeedsConn' /\ CallActive' /\ CallFate'
        BY <3>1, <3>2
      <3>5. CountedFate'
        BY <3>1, <3>2
      <3>6. CallbackProgress'
        BY <3>1, <3>2
      <3>7. NoPhantom'
        BY <2>2, <3>1
      <3> QED BY <3>3, <3>4, <3>5, <3>6, <3>7
    <2> QED BY <2>1, <2>2
  <1>16. CASE DeclareEnd
    BY <1>16, NoneAssumption DEF DeclareEnd, DeclareReturn
  <1>17. CASE DeclareFail
    BY <1>17, NoneAssumption DEF DeclareFail, DeclareReturn, disconnect_bs,
       DropLink, NoLink
  <1>18. ASSUME NEW b \in Brokers, CommitDiscard(b) PROVE IInv'
    BY <1>18, NoneAssumption DEF CommitDiscard, MustDiscard, Zero, Cleared,
       disconnect_bs, DropLink, NoLink
  <1>19. ASSUME NEW b \in Brokers, CommitSkip(b) PROVE IInv'
    <2>1. CASE bs[b].inerror
      <3>1. /\ bs'[b].uncommitted = 0 /\ ~bs'[b].inerror
            /\ \A c \in Brokers \ {b} : bs'[c] = bs[c]
        <4>1. bs' = [bs EXCEPT ![b] = Cleared(@)]
          BY <1>19, <2>1 DEF CommitSkip
        <4>2. bs \in [Brokers -> Bs] /\ (bs[b].conn \/ bs[b].uncommitted = 0)
          BY <1>19 DEF CommitSkip, MustDiscard
        <4> HIDE DEF TypeOK, Bs, IInv
        <4> QED BY <4>1, <4>2, ClearedFacts
      <3>2. /\ link' = [link EXCEPT ![b] = NoLink]
            /\ counted' = [counted EXCEPT ![b] = {}]
        BY <1>19, <2>1 DEF CommitSkip, DropLink
      <3>3. /\ pc = "commit" /\ todo' = todo \ {b}
            /\ UNCHANGED <<callVars, xact, depth, msgVars>>
        BY <1>19 DEF CommitSkip
      <3>4. ASSUME NEW c \in Brokers
            PROVE  /\ link'[c].txbuf \subseteq counted'[c]
                   /\ bs'[c].uncommitted = 0 => counted'[c] = {}
                   /\ bs'[c].uncommitted > 0 => bs'[c].conn
        <4>1. CASE c = b
          BY <3>1, <3>2, <4>1 DEF NoLink
        <4>2. CASE c # b
          BY <3>1, <3>2, <3>3, <4>2
        <4> QED BY <4>1, <4>2
      <3>5. CallActive' /\ CallFate' /\ CountedFate' /\ NoPhantom'
        BY <3>1, <3>2, <3>3
      <3>6. CallbackProgress'
        BY <3>1, <3>3
      <3> QED BY <3>4, <3>5, <3>6
    <2>2. CASE ~bs[b].inerror
      BY <1>19, <2>2 DEF CommitSkip
    <2> QED BY <2>1, <2>2
  <1>20. ASSUME NEW b \in Brokers, CommitFlush(b) PROVE IInv'
    BY <1>20, NoneAssumption DEF CommitFlush, MustDiscard, SetTimeout
  <1>21. ASSUME NEW b \in Brokers, AbortDrop(b) PROVE IInv'
    <2>1. CASE bs[b].inerror
      <3>1. /\ bs'[b].uncommitted = 0 /\ ~bs'[b].inerror
            /\ \A c \in Brokers \ {b} : bs'[c] = bs[c]
        <4>1. bs' = [bs EXCEPT ![b] = Zero(Cleared(@))]
          BY <1>21, <2>1 DEF AbortDrop
        <4>2. bs \in [Brokers -> Bs] /\ (bs[b].conn \/ bs[b].uncommitted = 0)
          BY <1>21 DEF AbortDrop
        <4> HIDE DEF TypeOK, Bs, IInv
        <4> QED BY <4>1, <4>2, ClearedFacts
      <3>2. /\ link' = [link EXCEPT ![b] = NoLink]
            /\ counted' = [counted EXCEPT ![b] = {}]
        BY <1>21, <2>1 DEF AbortDrop, DropLink
      <3>3. /\ pc = "abort" /\ todo' = todo \ {b}
            /\ UNCHANGED <<callVars, xact, depth, msgVars>>
        BY <1>21 DEF AbortDrop
      <3>4. ASSUME NEW c \in Brokers
            PROVE  /\ link'[c].txbuf \subseteq counted'[c]
                   /\ bs'[c].uncommitted = 0 => counted'[c] = {}
                   /\ bs'[c].uncommitted > 0 => bs'[c].conn
        <4>1. CASE c = b
          BY <3>1, <3>2, <4>1 DEF NoLink
        <4>2. CASE c # b
          BY <3>1, <3>2, <3>3, <4>2
        <4> QED BY <4>1, <4>2
      <3>5. CallActive' /\ CallFate' /\ CountedFate' /\ NoPhantom'
        BY <3>1, <3>2, <3>3
      <3>6. CallbackProgress'
        BY <3>1, <3>3
      <3> QED BY <3>4, <3>5, <3>6
    <2>2. CASE ~bs[b].inerror
      <3>1. bs[b].uncommitted = 0 /\ counted[b] = {}
        BY <1>21, <2>2 DEF AbortDrop, NoRollback
      <3>2. Zero(bs[b]) = bs[b]
        BY <3>1 DEF Zero
      <3>3. /\ bs' = [bs EXCEPT ![b] = Zero(@)]
            /\ counted' = [counted EXCEPT ![b] = {}]
        BY <1>21, <2>2 DEF AbortDrop
      <3>4. bs' = bs /\ counted' = counted
        BY <3>1, <3>2, <3>3
      <3> QED BY <1>21, <2>2, <3>1, <3>4 DEF AbortDrop
    <2> QED BY <2>1, <2>2
  <1>22. ASSUME NEW b \in Brokers, AbortRollback(b) PROVE IInv'
    BY <1>22, NoneAssumption DEF AbortRollback, NoRollback, SetTimeout
  <1>23. CASE TxCommitOk
    BY <1>23, NoneAssumption DEF TxCommitOk, NextBroker, TxDoable, Zero,
       TxDone, SetTimeout, Empty
  <1>24. ASSUME NEW applied \in BOOLEAN, TxCommitFail(applied) PROVE IInv'
    BY <1>24, NoneAssumption DEF TxCommitFail, NextBroker, Zero,
       disconnect_bs, DropLink, NoLink
  <1>25. CASE CommitEnd
    <2>1. \A b \in Brokers : Settled(b) /\ counted[b] = {}
      BY <1>25, NoneAssumption DEF CommitEnd
    <2> QED BY <1>25, <2>1 DEF CommitEnd, XactEnds
  <1>26. CASE TxRollbackOk
    BY <1>26, NoneAssumption DEF TxRollbackOk, NextBroker, TxDoable, Zero,
       TxDone, SetTimeout, Empty
  <1>27. CASE TxRollbackFail
    BY <1>27, NoneAssumption DEF TxRollbackFail, NextBroker, Zero,
       disconnect_bs, DropLink, NoLink
  <1>28. CASE AbortEnd
    <2>1. \A b \in Brokers : Settled(b) /\ counted[b] = {}
      BY <1>28, NoneAssumption DEF AbortEnd
    <2> QED BY <1>28, <2>1 DEF AbortEnd, XactEnds
  <1>29. CASE SubAbort
    BY <1>29, SubAbortInv
  <1>30. CASE AbortStart
    BY <1>30, AbortStartInv
  <1> HIDE DEF TypeOK, IInv
  <1> QED BY <1>1, <1>2, <1>3, <1>4, <1>5, <1>6, <1>7, <1>8, <1>9, <1>10,
     <1>11, <1>12, <1>13, <1>14, <1>15, <1>16, <1>17, <1>18, <1>19, <1>20,
     <1>21, <1>22, <1>23, <1>24, <1>25, <1>26, <1>27, <1>28, <1>29, <1>30
     DEF Backend

\* and the broker's and the network's.
LEMMA EnvironmentInv == TypeOK /\ TypeOK' /\ IInv /\ Environment => IInv'
  <1> SUFFICES ASSUME TypeOK, TypeOK', IInv, Environment PROVE IInv'
    OBVIOUS
  <1> USE DEF TypeOK, Bs, Link, Call, IInv, BufferCounted, InFlight,
              BufferNeedsConn, CallActive, CallFate, CountedFate,
              CallbackProgress, Settled, NoPhantom
  <1> USE DEF callVars, bsVars, xactVars, msgVars, visible, CallPcs, CommitPcs,
              AbortPcs
  <1>1. CASE EndSession
    BY <1>1, EndSessionInv
  <1>2. ASSUME NEW b \in Brokers, NEW f \in Alarm, BrokerAlarm(b, f) PROVE
     IInv'
    BY <1>2, NoneAssumption DEF BrokerAlarm, Arrive, Peer
  <1>3. ASSUME NEW b \in Brokers, NEW c \in {1, 2}, CloseChannel(b, c) PROVE
     IInv'
    BY <1>3, NoneAssumption DEF CloseChannel, Arrive, ShutChannel, Empty,
       Peer
  <1>4. ASSUME NEW b \in Brokers, CloseConnection(b) PROVE IInv'
    BY <1>4, NoneAssumption DEF CloseConnection, Arrive, Down, Empty, Peer
  <1>5. ASSUME NEW b \in Brokers, PeerDown(b) PROVE IInv'
    BY <1>5, NoneAssumption DEF PeerDown, Down, Empty, Peer
  <1> HIDE DEF TypeOK, IInv
  <1> QED BY <1>1, <1>2, <1>3, <1>4, <1>5 DEF Environment

LEMMA Invariance == Spec => [](TypeOK /\ IInv)
  <1>1. TypeOK /\ IInv /\ [Next]_vars => TypeOK' /\ IInv'
    <2> SUFFICES ASSUME TypeOK, IInv, [Next]_vars PROVE TypeOK' /\ IInv'
      OBVIOUS
    <2>1. TypeOK'
      BY TypeStep
    <2>2. CASE UNCHANGED vars
      BY <2>1, <2>2
         DEF vars, callVars, bsVars, xactVars, msgVars, visible, IInv, BufferCounted,
             InFlight, BufferNeedsConn, CallActive, CallFate, CountedFate,
             CallbackProgress, Settled, NoPhantom
    <2>3. CASE Next
      BY <2>1, <2>3, ClientInv, BackendInv, EnvironmentInv DEF Next
    <2> QED BY <2>1, <2>2, <2>3
  <1> QED BY <1>1, InitType, InitInv, PTL DEF Spec

-----------------------------------------------------------------------------
\* No broker ever shows a message of a rolled back, prepared or failed unit
\* of work: what amqp_local_phase2 and amqp_local_subxact are there for.
THEOREM NoPhantomCorrect == Spec => []NoPhantom
  BY Invariance, PTL DEF IInv

\* A brokerstate counts messages only while it has a connection, so the
\* "!bs->conn" half of the commit callback's discard test is never needed.
THEOREM BufferNeedsConnCorrect == Spec => []BufferNeedsConn
  BY Invariance, PTL DEF IInv

\* Nothing buffered survives the transaction it belongs to, on either side.
THEOREM CleanCorrect == Spec => []CleanBetweenTransactions
  <1>1. TypeOK /\ IInv => CleanBetweenTransactions
    <2> SUFFICES ASSUME TypeOK, IInv, xact # "active", NEW b \in Brokers
                 PROVE  /\ bs[b].uncommitted = 0
                        /\ link[b].txbuf = {}
                        /\ bs[b].inerror => xact = "prepared"
      BY DEF CleanBetweenTransactions
    <2>1. bs[b].uncommitted = 0 /\ (bs[b].inerror => xact = "prepared")
      BY DEF IInv, CallbackProgress
    <2>2. counted[b] = {} /\ InFlight(b) = {}
      BY <2>1 DEF IInv, BufferCounted, CallActive, InFlight
    <2> QED BY <2>1, <2>2 DEF IInv, BufferCounted
  <1> QED BY <1>1, Invariance, PTL
=============================================================================
