----------------------- MODULE PgAmqp_accounts_proofs -----------------------
(* What PgAmqp does with acknowledged messages, proved for every set of    *)
(* brokers and of messages and every bound: none is flushed twice, in part *)
(* or for another transaction, none disappears unaccounted for, and the    *)
(* counter is right.                                                       *)
EXTENDS PgAmqp_proofs, FiniteSetTheorems

-----------------------------------------------------------------------------
\* The accounts the extension and the brokers keep between them, part by
\* part.  Together with IInv they are inductive.

\* The broker's buffer holds everything that was acknowledged on a channel
\* that could still flush it: nothing counted is missing from it.
FlushWhole ==
    /\ \A b \in Brokers :
         link[b].up /\ link[b].tx /\ 2 \notin link[b].closing =>
           counted[b] \cup InFlight(b) \subseteq link[b].txbuf
    /\ pc = "post" => call.ch = 1

\* The socket is on the commit budget while the callback talks to the broker.
BudgetHeld ==
    /\ pc \in {"commit_drain", "tx_commit", "rollback"} =>
         link[cur].timeout = "commit"
    /\ TimeoutBudget

\* A message whose fate is open is the one the running call publishes.
OneCalling ==
    \A m \in Msgs : fate[m] = "calling" => pc \in CallPcs /\ call.m = m

\* What was acknowledged is still counted or has been dropped.
AckedAccounted ==
    \A m \in Msgs : fate[m] = "acked" => \/ \E c \in Causes : m \in lost[c]
                                         \/ \E b \in Brokers : m \in counted[b]

Accounts ==
    FlushWhole /\ BudgetHeld /\ OneCalling /\ AckedAccounted /\ LossAccounted

\* An empty record, list and buffer account for everything.
LEMMA InitAccounts == Init => Accounts
  BY DEF Init, NoLink, NoCall, Accounts, FlushWhole, InFlight, BudgetHeld,
         TimeoutBudget, OneCalling, AckedAccounted, LossAccounted

\* Dropping a connection outside the callback's exchange with the broker.
LEMMA DropKeeps ==
  ASSUME TypeOK, FlushWhole, BudgetHeld, NEW b \in Brokers,
         pc \notin {"commit_drain", "tx_commit", "rollback"},
         link' = [link EXCEPT ![b] = NoLink],
         counted' = [counted EXCEPT ![b] = {}], UNCHANGED callVars
  PROVE  FlushWhole' /\ BudgetHeld'
  <1>1. ~NoLink.up /\ NoLink.timeout = "none"
    BY DEF NoLink
  <1>2. /\ ~link'[b].up /\ link'[b].timeout = "none"
        /\ \A c \in Brokers \ {b} : /\ link'[c] = link[c]
                                    /\ counted'[c] = counted[c]
    BY <1>1 DEF TypeOK
  <1>3. \A c \in Brokers : InFlight(c)' = InFlight(c)
    BY DEF InFlight, callVars
  <1>4. FlushWhole'
    BY <1>2, <1>3 DEF FlushWhole, callVars
  <1>5. BudgetHeld'
    BY <1>2 DEF BudgetHeld, TimeoutBudget, callVars
  <1> QED BY <1>4, <1>5

\* A connection left behind by a cancelled connect is on the handshake budget.
LEMMA HalfOpenTimeout == \A l \in HalfOpen : l.timeout = "handshake"
  <1>1. \A l \in Link : /\ SetTimeout(l, "handshake") \in Link
                        /\ SetTimeout(l, "handshake").timeout = "handshake"
    BY DEF SetTimeout, Link
  <1>2. \A l \in Link :
          /\ [l EXCEPT !.closing = {2}, !.tx = FALSE].timeout = l.timeout
          /\ [l EXCEPT !.tx = FALSE].timeout = l.timeout
    BY DEF Link
  <1> DEFINE n == SetTimeout(NewLink, "handshake")
  <1>3. n \in Link /\ n.timeout = "handshake"
    BY <1>1, NewTypes
  <1>4. SetTimeout(NoLink, "handshake").timeout = "handshake"
    BY <1>1, NewTypes
  <1>5. /\ [n EXCEPT !.closing = {2}, !.tx = FALSE].timeout = "handshake"
        /\ [n EXCEPT !.tx = FALSE].timeout = "handshake"
    BY <1>2, <1>3
  <1>6. HalfOpen = {SetTimeout(NoLink, "handshake"),
                    [n EXCEPT !.closing = {2}, !.tx = FALSE],
                    [n EXCEPT !.tx = FALSE], n}
    BY DEF HalfOpen
  <1> HIDE DEF n
  <1> QED BY <1>3, <1>4, <1>5, <1>6, Zenon

\* A cancelled connect leaves a fresh connection, or none, and only decides
\* the message of its own call.
LEMMA ConnectInterruptedAccounts ==
  TypeOK /\ TypeOK' /\ IInv /\ Accounts /\ ConnectInterrupted => Accounts'
  <1> SUFFICES ASSUME TypeOK, TypeOK', IInv, Accounts, ConnectInterrupted
               PROVE  Accounts'
    OBVIOUS
  <1>1. /\ pc \in {"get_bs", "declare"} /\ cur \in Brokers
        /\ pc' = "error" /\ cur' = None
        /\ UNCHANGED <<counted, lost, delivered>>
    BY DEF ConnectInterrupted, Raise, TypeOK, visible
  <1>2. \/ pc = "get_bs" /\ call.ch = 1 /\ fate' = fate
        \/ pc = "declare" /\ fate' = fate
        \/ /\ pc = "get_bs" /\ call.ch = 2
           /\ fate' = [fate EXCEPT ![call.m] = "refused"]
    BY DEF ConnectInterrupted, Raise, TypeOK, Call
  <1>3. \/ link' = link
        \/ \E l \in HalfOpen : link' = [link EXCEPT ![cur] = l]
    BY DEF ConnectInterrupted
  <1>4. link \in [Brokers -> Link] /\ fate \in [Msgs -> Fates]
    BY DEF TypeOK
  <1>5. counted[cur] = {}
    BY <1>1 DEF ConnectInterrupted, IInv, BufferCounted, BufferNeedsConn,
                TypeOK, Bs
  <1>6. FlushWhole'
    <2>1. \A b \in Brokers : b = cur \/ link'[b] = link[b]
      BY <1>3, <1>4
    <2>2. \A b \in Brokers : InFlight(b)' = {}
      BY <1>1 DEF InFlight
    <2> QED BY <1>1, <1>5, <2>1, <2>2 DEF Accounts, FlushWhole
  <1>7. BudgetHeld'
    <2>1. \A b \in Brokers : link'[b].timeout \in {"handshake", link[b].timeout}
      BY <1>3, <1>4, HalfOpenTimeout
    <2> QED BY <1>1, <2>1 DEF Accounts, BudgetHeld, TimeoutBudget
  <1>8. OneCalling'
    <2>1. pc = "get_bs" => call.m \in Msgs
      BY DEF TypeOK, CallPcs
    <2>2. pc = "get_bs" /\ call.ch = 1 => fate[call.m] = "autonomous"
      BY DEF IInv, CallFate, CallPcs
    <2>3. \A m \in Msgs : fate'[m] # "calling"
      BY <1>2, <1>4, <2>1, <2>2 DEF Accounts, OneCalling, CallPcs
    <2> QED BY <2>3 DEF OneCalling
  <1>9. AckedAccounted' /\ LossAccounted'
    <2>1. \A m \in Msgs :
            fate'[m] \in {"acked", "committed"} => fate'[m] = fate[m]
      BY <1>2, <1>4
    <2> QED BY <1>1, <2>1 DEF Accounts, AckedAccounted, LossAccounted, CommitPcs
  <1> QED BY <1>6, <1>7, <1>8, <1>9 DEF Accounts

\* Rolling a savepoint back moves messages from acknowledged to undone.
LEMMA SubAbortAccounts ==
  TypeOK /\ TypeOK' /\ IInv /\ Accounts /\ SubAbort => Accounts'
  <1> SUFFICES ASSUME TypeOK, TypeOK', IInv, Accounts, SubAbort
               PROVE  Accounts'
    OBVIOUS
  <1> USE DEF TypeOK, Bs, Link, Call, IInv, BufferCounted, InFlight,
              BufferNeedsConn, CallActive, CallFate, CountedFate,
              CallbackProgress, Settled
  <1> USE DEF Accounts, FlushWhole, BudgetHeld, TimeoutBudget, OneCalling,
              AckedAccounted, LossAccounted
  <1> USE DEF callVars, bsVars, xactVars, msgVars, visible, CallPcs, CommitPcs,
              AbortPcs, Causes, LoudCauses, SilentCauses
  <1> QED BY NoneAssumption DEF SubAbort, UndoLevel

\* The transaction aborts: nothing is acknowledged any more.
LEMMA AbortStartAccounts ==
  TypeOK /\ TypeOK' /\ IInv /\ Accounts /\ AbortStart => Accounts'
  <1> SUFFICES ASSUME TypeOK, TypeOK', IInv, Accounts, AbortStart
               PROVE  Accounts'
    OBVIOUS
  <1> USE DEF TypeOK, Bs, Link, Call, IInv, BufferCounted, InFlight,
              BufferNeedsConn, CallActive, CallFate, CountedFate,
              CallbackProgress, Settled
  <1> USE DEF Accounts, FlushWhole, BudgetHeld, TimeoutBudget, OneCalling,
              AckedAccounted, LossAccounted
  <1> USE DEF callVars, bsVars, xactVars, msgVars, visible, CallPcs, CommitPcs,
              AbortPcs, Causes, LoudCauses, SilentCauses
  <1> QED BY NoneAssumption DEF AbortStart, AbortFate

\* The SQL client's steps keep the accounts.
LEMMA ClientAccounts ==
  TypeOK /\ TypeOK' /\ IInv /\ Accounts /\ Client => Accounts'
  <1> SUFFICES ASSUME TypeOK, TypeOK', IInv, Accounts, Client
               PROVE  Accounts'
    OBVIOUS
  <1> USE DEF TypeOK, Bs, Link, Call, IInv, BufferCounted, InFlight,
              BufferNeedsConn, CallActive, CallFate, CountedFate,
              CallbackProgress, Settled
  <1> USE DEF Accounts, FlushWhole, BudgetHeld, TimeoutBudget, OneCalling,
              AckedAccounted, LossAccounted
  <1> USE DEF callVars, bsVars, xactVars, msgVars, visible, CallPcs, CommitPcs,
              AbortPcs, Causes, LoudCauses, SilentCauses
  <1>1. CASE Begin
    BY <1>1, NoneAssumption DEF Begin
  <1>2. CASE Savepoint
    BY <1>2, NoneAssumption DEF Savepoint
  <1>3. CASE Release
    BY <1>3, NoneAssumption DEF Release
  <1>4. CASE SubAbort
    BY <1>4, SubAbortAccounts
  <1>5. ASSUME NEW ch \in {1, 2}, NEW b \in Brokers, NEW m \in Msgs, NEW
     mand \in BOOLEAN, PublishCall(ch, b, m, mand) PROVE Accounts'
    BY <1>5, NoneAssumption DEF PublishCall
  <1>6. ASSUME NEW m \in Msgs, RefuseEarly(m) PROVE Accounts'
    BY <1>6, NoneAssumption DEF RefuseEarly
  <1>7. ASSUME NEW b \in Brokers, DeclareCall(b) PROVE Accounts'
    BY <1>7, NoneAssumption DEF DeclareCall
  <1>8. ASSUME NEW b \in Brokers, Disconnect(b) PROVE Accounts'
    <2>1. /\ link' = [link EXCEPT ![b] = NoLink]
          /\ counted' = [counted EXCEPT ![b] = {}]
          /\ lost' = [c \in Causes |-> IF c = "disconnect"
                        THEN lost[c] \cup counted[b] ELSE lost[c]]
          /\ UNCHANGED <<callVars, fate, delivered>>
      BY <1>8 DEF Disconnect, DropLink
    <2>2. FlushWhole' /\ BudgetHeld'
      BY <1>8, <2>1, DropKeeps DEF Disconnect
    <2>3. OneCalling' /\ AckedAccounted' /\ LossAccounted'
      BY SMTT(30), <2>1
    <2> QED BY <2>2, <2>3
  <1>9. CASE CommitStart
    BY <1>9, NoneAssumption DEF CommitStart
  <1>10. CASE AbortStart
    BY <1>10, AbortStartAccounts
  <1>11. CASE PrepareRefused
    BY <1>11, NoneAssumption DEF PrepareRefused, AbortFate
  <1>12. CASE Prepare
    BY <1>12, NoneAssumption DEF Prepare
  <1> HIDE DEF TypeOK, IInv, Accounts
  <1> QED BY <1>1, <1>2, <1>3, <1>4, <1>5, <1>6, <1>7, <1>8, <1>9, <1>10,
     <1>11, <1>12 DEF Client

\* So do the backend's own,
LEMMA BackendAccounts ==
  TypeOK /\ TypeOK' /\ IInv /\ Accounts /\ Backend => Accounts'
  <1> SUFFICES ASSUME TypeOK, TypeOK', IInv, Accounts, Backend
               PROVE  Accounts'
    OBVIOUS
  <1> USE DEF TypeOK, Bs, Link, Call, IInv, BufferCounted, InFlight,
              BufferNeedsConn, CallActive, CallFate, CountedFate,
              CallbackProgress, Settled
  <1> USE DEF Accounts, FlushWhole, BudgetHeld, TimeoutBudget, OneCalling,
              AckedAccounted, LossAccounted
  <1> USE DEF callVars, bsVars, xactVars, msgVars, visible, CallPcs, CommitPcs,
              AbortPcs, Causes, LoudCauses, SilentCauses
  <1>1. CASE Connect
    <2>1. /\ link' = [link EXCEPT ![cur] = NewLink] /\ counted[cur] = {}
          /\ pc \in {"get_bs", "declare"} /\ cur \in Brokers
          /\ UNCHANGED <<callVars, counted, lost, fate, delivered>>
      BY <1>1 DEF Connect
    <2>2. FlushWhole' /\ BudgetHeld'
      BY SMTT(30), <2>1, NoneAssumption DEF NewLink, NoLink
    <2>3. OneCalling' /\ AckedAccounted' /\ LossAccounted'
      BY <2>1
    <2> QED BY <2>2, <2>3
  <1>2. CASE ConnectInterrupted
    BY <1>2, ConnectInterruptedAccounts
  <1>3. CASE PublishRefused
    BY <1>3, NoneAssumption DEF PublishRefused, Return
  <1>4. CASE PublishReady
    BY <1>4, NoneAssumption DEF PublishReady
  <1>5. CASE DrainAlarm
    <2>1. /\ link' = [link EXCEPT ![cur] = ReadFrame(@)] /\ cur \in Brokers
          /\ UNCHANGED <<callVars, counted, lost, fate, delivered>>
      BY <1>5 DEF DrainAlarm, DrainPcs
    <2>2. FlushWhole' /\ BudgetHeld'
      BY SMTT(30), <2>1 DEF ReadFrame
    <2>3. OneCalling' /\ AckedAccounted' /\ LossAccounted'
      BY <2>1
    <2> QED BY <2>2, <2>3
  <1>6. CASE DrainInterrupted
    BY SMTT(30), <1>6, NoneAssumption DEF DrainInterrupted, ReadFrame, Raise
  <1>7. CASE DrainClose
    BY SMTT(60), <1>7, NoneAssumption DEF DrainClose, DrainPcs, AfterDrain, ReadFrame,
       SeeClose
  <1>8. CASE DrainEnd
    BY <1>8, NoneAssumption DEF DrainEnd, DrainPcs, AfterDrain
  <1>9. CASE Redo
    BY <1>9, NoneAssumption DEF Redo, Again, Failed, MayRedo, disconnect_bs,
       DropLink, NoLink
  <1>10. CASE GiveUp
    BY <1>10, NoneAssumption DEF GiveUp, Failed, MayRedo, Return, Poison
  <1>11. CASE PublishBlocked
    <2>1. pc = "send" /\ UNCHANGED <<link, counted, lost, delivered>>
      BY <1>11 DEF PublishBlocked
    <2>2. CASE Return("refused")
      BY <2>1, <2>2 DEF Return
    <2>3. CASE Raise
      <3>1. /\ pc' = "error" /\ cur' = None
            /\ fate' = IF call.ch = 2 THEN [fate EXCEPT ![call.m] = "refused"]
                                      ELSE fate
        BY <2>3 DEF Raise
      <3> QED BY <2>1, <3>1
    <2> QED BY <1>11, <2>2, <2>3 DEF PublishBlocked
  <1>12. CASE SendAccepted
    <2>1. /\ pc = "send" /\ pc' \in {"post", "ret"}
          /\ pc' = "post" => call.ch = 1
          /\ call' = [call EXCEPT !.rv = TRUE] /\ cur \in Brokers
          /\ delivered \subseteq delivered'
          /\ UNCHANGED <<cur, counted, lost, fate>>
      BY <1>12 DEF SendAccepted, Sent
    <2>2. \/ call.ch = 2 /\ link' = [link EXCEPT ![cur] = Buffer(@, call.m)]
          \/ call.ch = 2 /\ link' = link /\ ~link[cur].tx
          \/ call.ch = 1 /\ link' = link
      BY <1>12 DEF SendAccepted
    <2>3. FlushWhole'
      <3>1. /\ call'.rv /\ call'.ch = call.ch /\ call'.m = call.m
            /\ \A b \in Brokers : InFlight(b) = {}
        BY <2>1
      <3>2. CASE call.ch = 1
        <4>1. link' = link /\ \A b \in Brokers : InFlight(b)' = {}
          BY <2>2, <3>1, <3>2
        <4> QED BY <2>1, <3>1, <3>2, <4>1
      <3>3. CASE call.ch = 2 /\ link' = [link EXCEPT ![cur] = Buffer(@, call.m)]
        <4>1. \A b \in Brokers :
                /\ link'[b].up = link[b].up /\ link'[b].tx = link[b].tx
                /\ link'[b].closing = link[b].closing
                /\ link'[b].txbuf =
                     link[b].txbuf \cup (IF b = cur THEN {call.m} ELSE {})
          BY <3>3 DEF Buffer
        <4>2. \A b \in Brokers :
                InFlight(b)' = IF b = cur THEN {call.m} ELSE {}
          BY SMTT(30), <2>1, <3>1, <3>3
        <4> HIDE DEF InFlight
        <4> QED BY SMTT(30), <2>1, <3>1, <3>3, <4>1, <4>2
      <3>4. CASE call.ch = 2 /\ link' = link /\ ~link[cur].tx
        <4>1. \A b \in Brokers : link[b].tx => InFlight(b)' = {}
          BY <2>1, <3>4
        <4> HIDE DEF InFlight
        <4> QED BY <2>1, <3>1, <3>4, <4>1
      <3> QED BY <2>2, <3>2, <3>3, <3>4
    <2>4. BudgetHeld'
      BY SMTT(30), <2>1, <2>2 DEF Buffer
    <2>5. OneCalling' /\ AckedAccounted' /\ LossAccounted'
      BY SMTT(30), <2>1
    <2> QED BY <2>3, <2>4, <2>5
  <1>13. CASE SendIgnored
    BY <1>13, NoneAssumption DEF SendIgnored, Sent
  <1>14. CASE SendFailed
    BY <1>14, NoneAssumption DEF SendFailed, Sent, Down, Empty
  <1>15. CASE Published
    <2>1. /\ pc = "ret" /\ pc' = "idle" /\ cur' = None
          /\ UNCHANGED <<link, lost, delivered>>
      BY <1>15 DEF Published, Return
    <2>2. BudgetHeld'
      BY <2>1, NoneAssumption
    <2>3. CASE call.ch = 1
      <3>1. fate' = fate /\ counted' = counted
        BY <1>15, <2>3 DEF Published, Return
      <3> QED BY <2>1, <2>2, <2>3, <3>1
    <2>4. CASE call.ch = 2
      <3>1. /\ counted' = [counted EXCEPT ![cur] = @ \cup {call.m}]
            /\ fate' = [fate EXCEPT ![call.m] = "acked"]
            /\ call.rv /\ call.m \in Msgs /\ cur \in Brokers
        BY <1>15, <2>4 DEF Published, Return
      <3>2. FlushWhole'
        BY <2>1, <2>4, <3>1
      <3>3. OneCalling'
        BY <2>1, <3>1
      <3>4. AckedAccounted'
        BY <2>1, <3>1
      <3>5. LossAccounted'
        BY <2>1, <3>1
      <3> QED BY <2>2, <3>2, <3>3, <3>4, <3>5
    <2> QED BY <2>3, <2>4
  <1>16. CASE DeclareEnd
    BY <1>16, NoneAssumption DEF DeclareEnd, DeclareReturn
  <1>17. CASE DeclareFail
    BY <1>17, NoneAssumption DEF DeclareFail, DeclareReturn, disconnect_bs,
       DropLink, NoLink
  <1>18. ASSUME NEW b \in Brokers, CommitDiscard(b) PROVE Accounts'
    BY <1>18, NoneAssumption DEF CommitDiscard, MustDiscard, Zero, Cleared,
       disconnect_bs, DropLink, NoLink
  <1>19. ASSUME NEW b \in Brokers, CommitSkip(b) PROVE Accounts'
    <2>1. pc = "commit" /\ UNCHANGED <<callVars, fate, delivered>>
      BY <1>19 DEF CommitSkip
    <2>2. counted[b] = {}
      BY <1>19 DEF CommitSkip, MustDiscard
    <2>3. CASE ~bs[b].inerror
      BY <1>19, <2>1, <2>3 DEF CommitSkip
    <2>4. CASE bs[b].inerror
      <3>1. DropLink(b, {})
        BY <1>19, <2>4 DEF CommitSkip
      <3>2. FlushWhole' /\ BudgetHeld'
        BY <2>1, <3>1, DropKeeps DEF DropLink
      <3>3. counted' = counted /\ lost' = lost
        BY <2>2, <3>1 DEF DropLink
      <3> QED BY <2>1, <3>2, <3>3
    <2> QED BY <2>3, <2>4
  <1>20. ASSUME NEW b \in Brokers, CommitFlush(b) PROVE Accounts'
    BY <1>20, NoneAssumption DEF CommitFlush, MustDiscard, SetTimeout
  <1>21. ASSUME NEW b \in Brokers, AbortDrop(b) PROVE Accounts'
    <2>1. pc = "abort" /\ UNCHANGED <<callVars, fate, delivered>>
      BY <1>21 DEF AbortDrop
    <2>2. bs[b].inerror \/ counted[b] = {}
      BY <1>21 DEF AbortDrop, NoRollback
    <2>3. counted' = [counted EXCEPT ![b] = {}]
      BY <1>21 DEF AbortDrop, DropLink
    <2>4. FlushWhole' /\ BudgetHeld' /\ lost' = lost
      <3>1. CASE bs[b].inerror
        <4>1. DropLink(b, {})
          BY <1>21, <3>1 DEF AbortDrop
        <4>2. lost' = lost
          BY <4>1 DEF DropLink
        <4> QED BY <2>1, <4>1, <4>2, DropKeeps DEF DropLink
      <3>2. CASE ~bs[b].inerror
        <4>1. link' = link /\ lost' = lost
          BY <1>21, <3>2 DEF AbortDrop
        <4>2. counted' = counted
          BY <2>2, <2>3, <3>2
        <4> QED BY <2>1, <4>1, <4>2
      <3> QED BY <3>1, <3>2
    <2>5. \A m \in counted[b] : fate[m] \notin {"acked", "committed"}
      BY <2>1
    <2>6. OneCalling' /\ AckedAccounted' /\ LossAccounted'
      BY <2>1, <2>3, <2>4, <2>5
    <2> QED BY <2>4, <2>6
  <1>22. ASSUME NEW b \in Brokers, AbortRollback(b) PROVE Accounts'
    BY <1>22, NoneAssumption DEF AbortRollback, NoRollback, SetTimeout
  <1>23. CASE TxCommitOk
    BY <1>23, NoneAssumption DEF TxCommitOk, NextBroker, TxDoable, Zero,
       TxDone, SetTimeout, Empty
  <1>24. ASSUME NEW applied \in BOOLEAN, TxCommitFail(applied) PROVE
     Accounts'
    BY <1>24, NoneAssumption DEF TxCommitFail, NextBroker, Zero,
       disconnect_bs, DropLink, NoLink
  <1>25. CASE CommitEnd
    <2>1. \A b \in Brokers : Settled(b) /\ counted[b] = {}
      BY <1>25, NoneAssumption DEF CommitEnd
    <2> QED BY <1>25, <2>1 DEF CommitEnd
  <1>26. CASE TxRollbackOk
    BY <1>26, NoneAssumption DEF TxRollbackOk, NextBroker, TxDoable, Zero,
       TxDone, SetTimeout, Empty
  <1>27. CASE TxRollbackFail
    BY <1>27, NoneAssumption DEF TxRollbackFail, NextBroker, Zero,
       disconnect_bs, DropLink, NoLink
  <1>28. CASE AbortEnd
    BY <1>28, NoneAssumption DEF AbortEnd, XactEnds
  <1>29. CASE SubAbort
    BY <1>29, SubAbortAccounts
  <1>30. CASE AbortStart
    BY <1>30, AbortStartAccounts
  <1> HIDE DEF TypeOK, IInv, Accounts
  <1> QED BY <1>1, <1>2, <1>3, <1>4, <1>5, <1>6, <1>7, <1>8, <1>9, <1>10,
     <1>11, <1>12, <1>13, <1>14, <1>15, <1>16, <1>17, <1>18, <1>19, <1>20,
     <1>21, <1>22, <1>23, <1>24, <1>25, <1>26, <1>27, <1>28, <1>29, <1>30
     DEF Backend

\* and the broker's and the network's.
LEMMA EnvironmentAccounts ==
  TypeOK /\ TypeOK' /\ IInv /\ Accounts /\ Environment => Accounts'
  <1> SUFFICES ASSUME TypeOK, TypeOK', IInv, Accounts, Environment
               PROVE  Accounts'
    OBVIOUS
  <1> USE DEF TypeOK, Bs, Link, Call, IInv, BufferCounted, InFlight,
              BufferNeedsConn, CallActive, CallFate, CountedFate,
              CallbackProgress, Settled
  <1> USE DEF Accounts, FlushWhole, BudgetHeld, TimeoutBudget, OneCalling,
              AckedAccounted, LossAccounted
  <1> USE DEF callVars, bsVars, xactVars, msgVars, visible, CallPcs, CommitPcs,
              AbortPcs, Causes, LoudCauses, SilentCauses
  <1>1. CASE EndSession
    BY <1>1, NoneAssumption DEF EndSession, NewBs, NoLink, NoCall
  <1>2. ASSUME NEW b \in Brokers, NEW f \in Alarm, BrokerAlarm(b, f) PROVE
     Accounts'
    BY <1>2, NoneAssumption DEF BrokerAlarm, Arrive, Peer
  <1>3. ASSUME NEW b \in Brokers, NEW c \in {1, 2}, CloseChannel(b, c) PROVE
     Accounts'
    BY <1>3, NoneAssumption DEF CloseChannel, Arrive, ShutChannel, Empty,
       Peer
  <1>4. ASSUME NEW b \in Brokers, CloseConnection(b) PROVE Accounts'
    BY <1>4, NoneAssumption DEF CloseConnection, Arrive, Down, Empty, Peer
  <1>5. ASSUME NEW b \in Brokers, PeerDown(b) PROVE Accounts'
    BY <1>5, NoneAssumption DEF PeerDown, Down, Empty, Peer
  <1> HIDE DEF TypeOK, IInv, Accounts
  <1> QED BY <1>1, <1>2, <1>3, <1>4, <1>5 DEF Environment

\* Both invariants hold together.
LEMMA AccountsInvariance == Spec => [](TypeOK /\ IInv /\ Accounts)
  <1>1. TypeOK /\ TypeOK' /\ IInv /\ Accounts /\ [Next]_vars => Accounts'
    <2> SUFFICES ASSUME TypeOK, TypeOK', IInv, Accounts, [Next]_vars
                 PROVE  Accounts'
      OBVIOUS
    <2>1. CASE UNCHANGED vars
      BY <2>1 DEF vars, callVars, bsVars, xactVars, msgVars, visible, Accounts,
                  FlushWhole, InFlight, BudgetHeld, TimeoutBudget, OneCalling,
                  AckedAccounted, LossAccounted
    <2>2. CASE Next
      BY <2>2, ClientAccounts, BackendAccounts, EnvironmentAccounts DEF Next
    <2> QED BY <2>1, <2>2
  <1> QED BY <1>1, InitAccounts, Invariance, PTL DEF Spec

-----------------------------------------------------------------------------
\* Every acknowledged message of a committed transaction has been shown, is
\* waiting for its turn in amqp_local_phase2, or was dropped at one of the
\* places where local_amqp_disconnect_bs drops a buffer.
THEOREM LossAccountedCorrect == Spec => []LossAccounted
  BY AccountsInvariance, PTL DEF Accounts

\* A socket is on pg_amqp.commit_timeout_ms exactly while the callback waits
\* for tx.commit-ok or tx.rollback-ok on it.
THEOREM TimeoutBudgetCorrect == Spec => []TimeoutBudget
  BY AccountsInvariance, PTL DEF Accounts, BudgetHeld

\* Consumers see something new only when the broker takes an autonomous
\* message or applies a tx.commit.
LEMMA OnlyTheseShow ==
  ASSUME [Next]_vars, delivered' # delivered
  PROVE  \/ SendAccepted \/ TxCommitOk
         \/ \E applied \in BOOLEAN : TxCommitFail(applied)
  <1> USE DEF vars, callVars, bsVars, xactVars, msgVars, visible
  <1>1. Next
    OBVIOUS
  <1>2. ~Client
    BY DEF Client, Begin, Savepoint, Release, SubAbort, PublishCall,
           RefuseEarly, DeclareCall, Disconnect, CommitStart, AbortStart,
           PrepareRefused, Prepare
  <1>3. ~Environment
    BY DEF Environment, EndSession, BrokerAlarm, CloseChannel, CloseConnection,
           PeerDown
  <1>4. Backend
    BY <1>1, <1>2, <1>3 DEF Next
  <1>5. ~ \E b \in Brokers : \/ CommitDiscard(b) \/ CommitSkip(b)
                             \/ CommitFlush(b) \/ AbortDrop(b)
                             \/ AbortRollback(b)
    BY DEF CommitDiscard, CommitSkip, CommitFlush, AbortDrop, AbortRollback
  <1>6. ~(Connect \/ ConnectInterrupted \/ PublishRefused \/ PublishReady
          \/ PublishBlocked \/ DrainAlarm \/ DrainInterrupted \/ DrainClose
          \/ DrainEnd \/ Redo \/ GiveUp \/ SendIgnored \/ SendFailed \/ Published)
    BY DEF Connect, ConnectInterrupted, PublishRefused, PublishReady,
           PublishBlocked, DrainAlarm, DrainInterrupted, DrainClose, DrainEnd,
           Redo, GiveUp, SendIgnored, SendFailed, Published
  <1>7. ~(DeclareEnd \/ DeclareFail \/ CommitEnd \/ TxRollbackOk \/ TxRollbackFail
          \/ AbortEnd \/ SubAbort \/ AbortStart)
    BY DEF DeclareEnd, DeclareFail, CommitEnd, TxRollbackOk, TxRollbackFail,
           AbortEnd, SubAbort, AbortStart
  <1> QED BY <1>4, <1>5, <1>6, <1>7 DEF Backend

\* tx.commit makes visible what was counted on that connection since the
\* last flush, the whole of it and nothing else.
THEOREM FlushExactCorrect == Spec => FlushIsExact
  <1>1. ASSUME TypeOK, IInv, Accounts, [Next]_vars, pc = "tx_commit",
               delivered' # delivered
        PROVE  delivered' = delivered \cup counted[cur]
    <2>1. TxCommitOk \/ \E applied \in BOOLEAN : TxCommitFail(applied)
      BY <1>1, OnlyTheseShow DEF SendAccepted
    <2>2. delivered' = delivered \cup link[cur].txbuf /\ TxDoable
      BY <1>1, <2>1 DEF TxCommitOk, TxCommitFail
    <2>3. cur \in Brokers /\ InFlight(cur) = {}
      BY <1>1 DEF TypeOK, InFlight
    <2>4. link[cur].txbuf = counted[cur]
      BY <1>1, <2>2, <2>3 DEF TxDoable, IInv, BufferCounted, Accounts, FlushWhole
    <2> QED BY <2>2, <2>4
  <1> QED BY <1>1, AccountsInvariance, PTL DEF Spec, FlushIsExact

-----------------------------------------------------------------------------
\* The counter.

\* A step leaves the tally of a broker alone, clears it, or adds one message
\* that was not in it.
TallyStep(b) ==
    \/ bs'[b].uncommitted = bs[b].uncommitted /\ counted'[b] = counted[b]
    \/ bs'[b].uncommitted = 0 /\ counted'[b] = {}
    \/ /\ bs'[b].uncommitted = bs[b].uncommitted + 1
       /\ \E m \in Msgs \ counted[b] : counted'[b] = counted[b] \cup {m}

\* What dropping a connection does to the tally, with or without a reset.
LEMMA DropTally ==
  ASSUME TypeOK, IInv, NEW b \in Brokers, NEW causes, DropLink(b, causes),
         \/ bs' = [bs EXCEPT ![b] = disconnect_bs(@)]
         \/ bs' = [bs EXCEPT ![b] = Cleared(@)]
         \/ bs' = [bs EXCEPT ![b] = Zero(Cleared(@))]
         \/ bs' = [bs EXCEPT ![b] = Zero(disconnect_bs(@))]
  PROVE  \A c \in Brokers : TallyStep(c)
  <1>1. bs \in [Brokers -> Bs] /\ counted \in [Brokers -> SUBSET Msgs]
    BY DEF TypeOK
  <1>2. \A s \in Bs : (s.uncommitted > 0 => s.conn) =>
          /\ disconnect_bs(s).uncommitted = 0 /\ Cleared(s).uncommitted = 0
          /\ Zero(Cleared(s)).uncommitted = 0
          /\ Zero(disconnect_bs(s)).uncommitted = 0
    BY DEF Bs, disconnect_bs, Cleared, Zero
  <1>3. bs[b] \in Bs /\ (bs[b].uncommitted > 0 => bs[b].conn)
    BY <1>1 DEF IInv, BufferNeedsConn
  <1>4. bs'[b].uncommitted = 0 /\ \A c \in Brokers \ {b} : bs'[c] = bs[c]
    BY <1>1, <1>2, <1>3
  <1>5. counted'[b] = {} /\ \A c \in Brokers \ {b} : counted'[c] = counted[c]
    BY <1>1 DEF DropLink
  <1> QED BY <1>4, <1>5 DEF TallyStep

\* Every step is a tally step for every broker.
LEMMA TallyNext ==
  ASSUME TypeOK, IInv, [Next]_vars
  PROVE  \A b \in Brokers : TallyStep(b)
  <1> USE DEF vars, callVars, bsVars, xactVars, msgVars, visible
  <1> DEFINE Same == \A b \in Brokers : /\ bs'[b].uncommitted = bs[b].uncommitted
                                        /\ counted'[b] = counted[b]
             Tally == \A b \in Brokers : TallyStep(b)
  <1>1. Same => Tally
    BY DEF TallyStep
  <1>2. bs \in [Brokers -> Bs] /\ counted \in [Brokers -> SUBSET Msgs]
    BY DEF TypeOK
  <1>3. \A s \in Bs : /\ Zero(s).uncommitted = 0
                      /\ Count(s).uncommitted = s.uncommitted + 1
                      /\ Poison(s).uncommitted = s.uncommitted
                      /\ amqp_local_subxact(s).uncommitted = s.uncommitted
    BY DEF Bs, Zero, Count, Poison, amqp_local_subxact
  <1>4. UNCHANGED vars => Tally
    BY <1>1
  <1>5. SubAbort => Tally
    BY <1>1, <1>2, <1>3 DEF SubAbort
  <1>6. AbortStart => Tally
    BY <1>1 DEF AbortStart
  <1>7. Client => Tally
    <2>1. \A b \in Brokers : Disconnect(b) => Tally
      BY DropTally DEF Disconnect
    <2> QED BY <1>1, <1>5, <1>6, <2>1
            DEF Client, Begin, Savepoint, Release, PublishCall, RefuseEarly,
                DeclareCall, CommitStart, PrepareRefused, Prepare
  <1>8. Environment => Tally
    <2>1. EndSession => Tally
      BY DEF EndSession, NewBs, TallyStep
    <2> QED BY <1>1, <2>1 DEF Environment, BrokerAlarm, CloseChannel,
                             CloseConnection, PeerDown
  <1>9. Backend => Tally
    <2>1. Published => Tally
      <3> SUFFICES ASSUME Published PROVE Tally
        OBVIOUS
      <3>1. CASE call.ch # 2
        BY <1>1, <3>1 DEF Published
      <3>2. CASE call.ch = 2
        <4>1. /\ bs' = [bs EXCEPT ![cur] = Count(@)]
              /\ counted' = [counted EXCEPT ![cur] = @ \cup {call.m}]
              /\ cur \in Brokers /\ call.m \in Msgs
          BY <3>2 DEF Published, TypeOK, CallPcs
        <4>2. call.m \notin counted[cur]
          BY <3>2, <4>1 DEF Published, IInv, CallFate, CountedFate, CallPcs,
                            CommitPcs, AbortPcs
        <4> QED BY <1>2, <1>3, <4>1, <4>2 DEF TallyStep
      <3> QED BY <3>1, <3>2
    <2>2. Redo => Tally
      BY DropTally DEF Redo, Failed, TypeOK, CallPcs
    <2>3. DeclareFail => Tally
      BY DropTally DEF DeclareFail, TypeOK
    <2>4. \A b \in Brokers : CommitDiscard(b) => Tally
      BY DropTally DEF CommitDiscard
    <2>5. \A b \in Brokers : CommitSkip(b) => Tally
      BY DropTally, <1>1 DEF CommitSkip
    <2>6. \A b \in Brokers : AbortDrop(b) => Tally
      <3> SUFFICES ASSUME NEW b \in Brokers, AbortDrop(b) PROVE Tally
        OBVIOUS
      <3>1. CASE bs[b].inerror
        BY <3>1, DropTally DEF AbortDrop
      <3>2. CASE ~bs[b].inerror
        BY <1>2, <1>3, <3>2 DEF AbortDrop, TallyStep
      <3> QED BY <3>1, <3>2
    <2>7. \A applied \in BOOLEAN : TxCommitFail(applied) => Tally
      BY DropTally DEF TxCommitFail, TypeOK
    <2>8. TxRollbackFail => Tally
      BY DropTally DEF TxRollbackFail, TypeOK
    <2>9. TxCommitOk \/ TxRollbackOk => Tally
      BY <1>2, <1>3 DEF TxCommitOk, TxRollbackOk, TallyStep, TypeOK
    <2>10. GiveUp => Tally
      BY <1>1, <1>2, <1>3 DEF GiveUp
    <2>11. Connect \/ ConnectInterrupted \/ DrainAlarm => Tally
      <3>1. Connect => Same
        BY <1>2 DEF Connect, Bs
      <3>2. ConnectInterrupted => Same
        BY <1>2 DEF ConnectInterrupted, Bs
      <3>3. DrainAlarm => Same
        BY <1>2 DEF DrainAlarm, Bs
      <3> QED BY <1>1, <3>1, <3>2, <3>3
    <2>12. \A b \in Brokers : CommitFlush(b) \/ AbortRollback(b) => Tally
      BY <1>1 DEF CommitFlush, AbortRollback
    <2>13. PublishRefused \/ PublishReady \/ PublishBlocked \/ DrainInterrupted
           \/ DrainClose \/ DrainEnd \/ SendAccepted \/ SendIgnored \/ SendFailed
           \/ DeclareEnd \/ CommitEnd \/ AbortEnd => Tally
      BY <1>1 DEF PublishRefused, PublishReady, PublishBlocked, DrainInterrupted,
                  DrainClose, DrainEnd, SendAccepted, SendIgnored, SendFailed,
                  DeclareEnd, CommitEnd, AbortEnd
    <2> HIDE DEF Tally
    <2> QED BY <1>5, <1>6, <2>1, <2>2, <2>3, <2>4, <2>5, <2>6, <2>7, <2>8, <2>9,
               <2>10, <2>11, <2>12, <2>13 DEF Backend
  <1> QED BY <1>4, <1>7, <1>8, <1>9 DEF Next

\* brokerstate.uncommitted, which the WARNINGs of the commit callback print,
\* is the number of acknowledged messages at stake on that broker.
THEOREM CountExactCorrect == Spec => []CountExact
  <1>1. Init => CountExact
    BY FS_EmptySet DEF Init, NewBs, CountExact
  <1>2. ASSUME TypeOK, IInv, CountExact, [Next]_vars PROVE CountExact'
    <2> SUFFICES ASSUME NEW b \in Brokers
                 PROVE  bs'[b].uncommitted = Cardinality(counted'[b])
      BY DEF CountExact
    <2>1. IsFiniteSet(counted[b])
      BY <1>2, FiniteAssumption, FS_Subset DEF TypeOK
    <2>2. bs[b].uncommitted = Cardinality(counted[b])
      BY <1>2 DEF CountExact
    <2>3. \A m \in Msgs \ counted[b] :
            Cardinality(counted[b] \cup {m}) = Cardinality(counted[b]) + 1
      BY <2>1, FS_AddElement
    <2>4. TallyStep(b)
      BY <1>2, TallyNext
    <2> QED BY <2>2, <2>3, <2>4, FS_EmptySet DEF TallyStep
  <1> QED BY <1>1, <1>2, Invariance, PTL DEF Spec
=============================================================================
