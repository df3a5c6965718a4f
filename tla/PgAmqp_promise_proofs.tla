------------------------ MODULE PgAmqp_promise_proofs ------------------------
(* PgAmqp implements TxPublish, for every set of brokers and of messages   *)
(* and every bound: each step of the backend, its callbacks and the brokers *)
(* is one step of the promise, or none.                                     *)
EXTENDS PgAmqp_accounts_proofs

\* How a fate reads in the promise.
LEMMA StateOfFacts ==
    /\ StateOf["unused"] = "new"
    /\ StateOf["calling"] = "pending" /\ StateOf["acked"] = "pending"
    /\ StateOf["refused"] = "withdrawn" /\ StateOf["undone"] = "withdrawn"
    /\ StateOf["aborted"] = "withdrawn" /\ StateOf["prepared"] = "withdrawn"
    /\ StateOf["committed"] = "committed" /\ StateOf["autonomous"] = "direct"
  BY DEF StateOf

\* Fates of messages that will not be shown.
Gone == {"refused", "undone", "aborted", "prepared"}

\* The three shapes of a step that most actions have: nothing to see,
LEMMA Stutters ==
  ASSUME UNCHANGED <<counted, delivered>>,
         \A m \in Msgs : StateOf[fate'[m]] = StateOf[fate[m]]
  PROVE  UNCHANGED Promise!vars
  BY DEF Promise!vars

\* a broker's buffer is given up,
LEMMA Drops ==
  ASSUME NEW b \in Brokers, counted' = [counted EXCEPT ![b] = {}],
         UNCHANGED <<fate, delivered>>
  PROVE  Promise!Next
  BY DEF Promise!Next, Promise!Drop

\* messages are withdrawn that nobody has seen.
LEMMA Withdraws ==
  ASSUME NEW ms \in SUBSET Msgs, UNCHANGED <<counted, delivered>>,
         \A m \in ms : /\ fate[m] \in {"calling", "acked", "autonomous"}
                       /\ m \notin delivered /\ fate'[m] \in Gone,
         \A m \in Msgs \ ms : StateOf[fate'[m]] = StateOf[fate[m]]
  PROVE  Promise!Next
  <1> DEFINE st == [m \in Msgs |-> StateOf[fate[m]]]
  <1>1. \A m \in ms : st[m] \in {"pending", "direct"} /\ m \notin delivered
    BY StateOfFacts
  <1>2. [m \in Msgs |-> StateOf[fate'[m]]] =
          [m \in Msgs |-> IF m \in ms THEN "withdrawn" ELSE st[m]]
    BY StateOfFacts DEF Gone
  <1>3. Promise!Withdraw(ms)
    BY <1>1, <1>2 DEF Promise!Withdraw
  <1> QED BY <1>3 DEF Promise!Next

\* A step of the promise, or none.
Kept == Promise!Next \/ UNCHANGED Promise!vars

\* A call that returns false, or raises, withdraws its own message.
LEMMA RefusedKept ==
  ASSUME TypeOK, IInv, pc \in CallPcs, call.m \notin delivered,
         UNCHANGED <<counted, delivered>>,
         fate' = [fate EXCEPT ![call.m] = "refused"]
  PROVE  Kept
  <1>1. /\ call.m \in Msgs /\ fate \in [Msgs -> Fates]
        /\ fate[call.m] \in {"calling", "autonomous"}
    BY DEF TypeOK, IInv, CallFate
  <1>2. {call.m} \in SUBSET Msgs /\ \A m \in Msgs \ {call.m} : fate'[m] = fate[m]
    BY <1>1
  <1>3. \A m \in {call.m} : /\ fate[m] \in {"calling", "acked", "autonomous"}
                            /\ m \notin delivered /\ fate'[m] \in Gone
    BY <1>1 DEF Gone
  <1> QED BY <1>2, <1>3, Withdraws DEF Kept

\* A cancel does the same, if the call was transactional.
LEMMA RaiseKept ==
  ASSUME TypeOK, IInv, pc \in CallPcs, UNCHANGED <<counted, delivered>>, Raise
  PROVE  Kept
  <1>1. CASE call.ch = 2
    <2>1. call.m \notin delivered
      BY <1>1 DEF IInv, CallFate, NoPhantom
    <2> QED BY <1>1, <2>1, RefusedKept DEF Raise
  <1>2. CASE call.ch # 2
    BY <1>2, Stutters DEF Raise, Kept
  <1> QED BY <1>1, <1>2

\* Rolling back takes along what was acknowledged.
LEMMA SubAbortKept == ASSUME TypeOK, IInv, SubAbort PROVE Kept
  <1> DEFINE ms == {m \in Msgs : fate[m] = "acked" /\ level[m] = depth}
  <1>1. \A m \in ms : m \notin delivered
    BY DEF IInv, NoPhantom
  <1>2. \A m \in ms : fate[m] = "acked" /\ fate'[m] = "undone"
    BY DEF SubAbort, UndoLevel
  <1>3. \A m \in Msgs \ ms : fate'[m] = fate[m]
    BY DEF SubAbort, UndoLevel
  <1> QED BY <1>1, <1>2, <1>3, Withdraws DEF SubAbort, visible, Kept, Gone

\* So does an abort of the whole transaction, PREPARE's refusal included.
LEMMA AbortKept ==
  ASSUME TypeOK, IInv, fate' = AbortFate, UNCHANGED <<counted, delivered>>
  PROVE  Kept
  <1> DEFINE ms == {m \in Msgs : fate[m] = "acked"}
  <1>1. \A m \in ms : m \notin delivered
    BY DEF IInv, NoPhantom
  <1>2. \A m \in ms : fate[m] = "acked" /\ fate'[m] = "aborted"
    BY DEF AbortFate
  <1>3. \A m \in Msgs \ ms : StateOf[fate'[m]] = StateOf[fate[m]]
    BY StateOfFacts DEF AbortFate
  <1> QED BY <1>1, <1>2, <1>3, Withdraws DEF Kept, Gone

\* The SQL client's steps.
LEMMA ClientKept == ASSUME TypeOK, IInv, Accounts, Client PROVE Kept
  <1> USE DEF callVars, bsVars, xactVars, msgVars, visible
  <1>1. CASE Begin \/ Savepoint \/ Release \/ \E b \in Brokers : DeclareCall(b)
    BY <1>1, Stutters DEF Begin, Savepoint, Release, DeclareCall, Kept
  <1>2. CASE SubAbort
    BY <1>2, SubAbortKept
  <1>3. ASSUME NEW ch \in {1, 2}, NEW b \in Brokers, NEW m \in Msgs,
               NEW mand \in BOOLEAN, PublishCall(ch, b, m, mand)
        PROVE  Kept
    <2>1. Promise!Publish(m, IF ch = 2 THEN "pending" ELSE "direct")
      BY <1>3, StateOfFacts DEF PublishCall, Promise!Publish, TypeOK
    <2> QED BY <2>1 DEF Kept, Promise!Next, Promise!States
  <1>4. ASSUME NEW m \in Msgs, RefuseEarly(m) PROVE Kept
    <2>1. Promise!Publish(m, "withdrawn")
      BY <1>4, StateOfFacts DEF RefuseEarly, Promise!Publish, TypeOK
    <2> QED BY <2>1 DEF Kept, Promise!Next, Promise!States
  <1>5. ASSUME NEW b \in Brokers, Disconnect(b) PROVE Kept
    BY <1>5, Drops DEF Disconnect, DropLink, Kept
  <1>6. CASE CommitStart
    <2>1. \A m \in Msgs : fate[m] # "calling"
      BY <1>6 DEF CommitStart, Accounts, OneCalling, CallPcs
    <2>2. \A m \in Msgs : fate[m] \in Fates
      BY DEF TypeOK
    <2>3. \A m \in Msgs : StateOf[fate'[m]] =
            IF StateOf[fate[m]] = "pending" THEN "committed" ELSE StateOf[fate[m]]
      BY <1>6, <2>1, <2>2, StateOfFacts DEF CommitStart, Fates
    <2>4. Promise!Commit
      BY <1>6, <2>3 DEF CommitStart, Promise!Commit
    <2> QED BY <2>4 DEF Kept, Promise!Next
  <1>7. CASE AbortStart
    BY <1>7, AbortKept DEF AbortStart
  <1>8. CASE PrepareRefused
    BY <1>8, AbortKept DEF PrepareRefused
  <1>9. CASE Prepare
    <2> DEFINE ms == {m \in Msgs : fate[m] = "acked"}
    <2>1. \A m \in ms : m \notin delivered
      BY DEF IInv, NoPhantom
    <2>2. \A m \in ms : fate[m] = "acked" /\ fate'[m] = "prepared"
      BY <1>9 DEF Prepare
    <2>3. \A m \in Msgs \ ms : fate'[m] = fate[m]
      BY <1>9 DEF Prepare
    <2> QED BY <1>9, <2>1, <2>2, <2>3, Withdraws DEF Prepare, Kept, Gone
  <1> QED BY <1>1, <1>2, <1>3, <1>4, <1>5, <1>6, <1>7, <1>8, <1>9 DEF Client

\* The broker shows what it owes when it applies tx.commit, and only if the
\* transaction has committed.
LEMMA FlushShows ==
  ASSUME TypeOK, IInv, Accounts, pc = "tx_commit", TxDoable,
         delivered' = delivered \cup link[cur].txbuf,
         counted' = [counted EXCEPT ![cur] = {}], fate' = fate
  PROVE  Promise!Next
  <1>1. cur \in Brokers /\ InFlight(cur) = {}
    BY DEF TypeOK, InFlight
  <1>2. link[cur].txbuf = counted[cur]
    BY <1>1 DEF TxDoable, IInv, BufferCounted, Accounts, FlushWhole
  <1>3. \A m \in counted[cur] : m \in Msgs /\ fate[m] = "committed"
    <2>1. ~bs[cur].inerror /\ \A m \in counted[cur] : m \in Msgs
      BY <1>1 DEF IInv, CallbackProgress, TypeOK
    <2> QED BY <1>1, <2>1 DEF IInv, CountedFate, CommitPcs, AbortPcs
  <1>4. Promise!Show(cur)
    BY <1>2, <1>3, StateOfFacts DEF Promise!Show
  <1> QED BY <1>1, <1>4 DEF Promise!Next

\* The backend's own steps.
LEMMA BackendKept == ASSUME TypeOK, IInv, Accounts, Backend PROVE Kept
  <1> USE DEF callVars, bsVars, xactVars, msgVars, visible
  <1>1. CASE Connect \/ PublishReady \/ DrainAlarm \/ DrainClose \/ DrainEnd
             \/ SendIgnored \/ SendFailed \/ DeclareEnd \/ CommitEnd \/ AbortEnd
    BY <1>1, Stutters
       DEF Connect, PublishReady, DrainAlarm, DrainClose, DrainEnd, SendIgnored,
           SendFailed, DeclareEnd, CommitEnd, AbortEnd, Kept
  <1>2. CASE ConnectInterrupted
    <2>1. CASE pc = "get_bs"
      BY <1>2, <2>1, RaiseKept DEF ConnectInterrupted, CallPcs
    <2>2. CASE pc # "get_bs"
      BY <1>2, <2>2, Stutters DEF ConnectInterrupted, Kept
    <2> QED BY <2>1, <2>2
  <1>3. CASE PublishRefused
    <2>1. pc \in CallPcs /\ call.m \notin delivered
      BY <1>3 DEF PublishRefused, IInv, CallFate, CallPcs
    <2> QED BY <1>3, <2>1, RefusedKept DEF PublishRefused, Return
  <1>4. CASE PublishBlocked
    <2>1. pc \in CallPcs /\ call.m \notin delivered
      BY <1>4 DEF PublishBlocked, IInv, CallFate, CallPcs
    <2>2. CASE Return("refused")
      BY <1>4, <2>1, <2>2, RefusedKept DEF PublishBlocked, Return
    <2>3. CASE Raise
      BY <1>4, <2>1, <2>3, RaiseKept DEF PublishBlocked
    <2> QED BY <1>4, <2>2, <2>3 DEF PublishBlocked
  <1>5. CASE DrainInterrupted
    BY <1>5, RaiseKept DEF DrainInterrupted, CallPcs
  <1>6. CASE Redo
    BY <1>6, Drops DEF Redo, Failed, DropLink, TypeOK, CallPcs, Kept
  <1>7. CASE GiveUp
    <2>1. pc \in CallPcs /\ call.m \notin delivered
      BY <1>7 DEF GiveUp, Failed, IInv, CallFate, CallPcs
    <2> QED BY <1>7, <2>1, RefusedKept DEF GiveUp, Return
  <1>8. CASE SendAccepted
    <2>1. CASE call.ch = 1
      <3>1. /\ call.m \in Msgs /\ fate[call.m] = "autonomous"
            /\ delivered' = delivered \cup {call.m} /\ UNCHANGED <<fate, counted>>
        BY <1>8, <2>1 DEF SendAccepted, TypeOK, IInv, CallFate, CallPcs
      <3>2. Promise!ShowDirect(call.m)
        BY <3>1, StateOfFacts DEF Promise!ShowDirect
      <3> QED BY <3>1, <3>2 DEF Kept, Promise!Next
    <2>2. CASE call.ch # 1
      BY <1>8, <2>2, Stutters DEF SendAccepted, Kept
    <2> QED BY <2>1, <2>2
  <1>9. CASE Published
    <2>1. /\ pc \in CallPcs /\ call.m \in Msgs /\ cur \in Brokers
          /\ fate \in [Msgs -> Fates] /\ delivered' = delivered
      BY <1>9 DEF Published, TypeOK, CallPcs
    <2>2. CASE call.ch = 2
      <3>1. /\ fate[call.m] = "calling" /\ fate' = [fate EXCEPT ![call.m] = "acked"]
            /\ counted' = [counted EXCEPT ![cur] = @ \cup {call.m}]
        BY <1>9, <2>1, <2>2 DEF Published, Return, IInv, CallFate
      <3>2. \A m \in Msgs : StateOf[fate'[m]] = StateOf[fate[m]]
        BY <2>1, <3>1, StateOfFacts
      <3>3. Promise!Accept(cur, call.m)
        BY <2>1, <3>1, <3>2, StateOfFacts DEF Promise!Accept
      <3> QED BY <2>1, <3>3 DEF Kept, Promise!Next
    <2>3. CASE call.ch # 2
      <3>1. counted' = counted /\ fate[call.m] = "autonomous"
            /\ fate' = [fate EXCEPT ![call.m] = "autonomous"]
        BY <1>9, <2>1, <2>3 DEF Published, Return, IInv, CallFate
      <3> QED BY <2>1, <3>1, Stutters DEF Kept
    <2> QED BY <2>2, <2>3
  <1>10. CASE DeclareFail
    BY <1>10, Drops DEF DeclareFail, DropLink, TypeOK, Kept
  <1>11. ASSUME NEW b \in Brokers, CommitDiscard(b) PROVE Kept
    BY <1>11, Drops DEF CommitDiscard, DropLink, Kept
  <1>12. ASSUME NEW b \in Brokers, CommitSkip(b) PROVE Kept
    BY <1>12, Drops, Stutters DEF CommitSkip, DropLink, Kept
  <1>13. ASSUME NEW b \in Brokers, CommitFlush(b) \/ AbortRollback(b) PROVE Kept
    BY <1>13, Stutters DEF CommitFlush, AbortRollback, Kept
  <1>14. ASSUME NEW b \in Brokers, AbortDrop(b) PROVE Kept
    BY <1>14, Drops DEF AbortDrop, DropLink, Kept
  <1>15. CASE TxCommitOk
    BY <1>15, FlushShows DEF TxCommitOk, Kept
  <1>16. ASSUME NEW applied \in BOOLEAN, TxCommitFail(applied) PROVE Kept
    <2>1. CASE applied
      BY <1>16, <2>1, FlushShows DEF TxCommitFail, DropLink, Kept
    <2>2. CASE ~applied
      BY <1>16, <2>2, Drops DEF TxCommitFail, DropLink, TypeOK, Kept
    <2> QED BY <2>1, <2>2
  <1>17. CASE TxRollbackOk
    BY <1>17, Drops DEF TxRollbackOk, TypeOK, Kept
  <1>18. CASE TxRollbackFail
    BY <1>18, Drops DEF TxRollbackFail, DropLink, TypeOK, Kept
  <1>19. CASE SubAbort
    BY <1>19, SubAbortKept
  <1>20. CASE AbortStart
    BY <1>20, AbortKept DEF AbortStart
  <1> QED BY <1>1, <1>2, <1>3, <1>4, <1>5, <1>6, <1>7, <1>8, <1>9, <1>10, <1>11,
             <1>12, <1>13, <1>14, <1>15, <1>16, <1>17, <1>18, <1>19, <1>20
          DEF Backend

\* The end of the process, the broker and the network.
LEMMA EnvironmentKept == ASSUME TypeOK, IInv, Environment PROVE Kept
  <1> USE DEF callVars, bsVars, xactVars, msgVars, visible
  <1>1. CASE EndSession
    <2> DEFINE st == [m \in Msgs |-> StateOf[fate[m]]]
               ms == {m \in Msgs : st[m] = "pending"}
    <2>1. \A m \in Msgs : fate[m] \in Fates
      BY DEF TypeOK
    <2>2. \A m \in ms : fate[m] \in {"calling", "acked"}
      BY <2>1, StateOfFacts DEF Fates
    <2>3. \A m \in ms : m \notin delivered
      BY <2>2 DEF IInv, NoPhantom
    <2>4. \A m \in Msgs : StateOf[fate'[m]] = IF m \in ms THEN "withdrawn"
                                                          ELSE st[m]
      BY <1>1, <2>1, <2>2, StateOfFacts DEF EndSession, Fates
    <2>5. Promise!Withdraw(ms) /\ counted' = [b \in Brokers |-> {}]
      BY <1>1, <2>3, <2>4 DEF EndSession, Promise!Withdraw
    <2> QED BY <2>5 DEF Kept, Promise!Next, Promise!Crash
  <1>2. CASE ~EndSession
    BY <1>2, Stutters DEF Environment, BrokerAlarm, CloseChannel, CloseConnection,
                          PeerDown, Kept
  <1> QED BY <1>1, <1>2

\* The backend, its callbacks and the brokers implement TxPublish: what
\* amqp.publish() accepted is shown after the commit only, all of it at one
\* moment for each broker, and what was dropped never turns up later.
THEOREM Refinement == Spec => KeepsPromise
  <1>1. Init => Promise!Init
    BY StateOfFacts DEF Init, Promise!Init
  <1>2. ASSUME TypeOK, IInv, Accounts, [Next]_vars
        PROVE  [Promise!Next]_Promise!vars
    <2>1. CASE UNCHANGED vars
      BY <2>1, Stutters DEF vars, bsVars, msgVars, visible
    <2>2. CASE Next
      BY <1>2, <2>2, ClientKept, BackendKept, EnvironmentKept DEF Next, Kept
    <2> QED BY <1>2, <2>1, <2>2
  <1> QED BY <1>1, <1>2, AccountsInvariance, PTL
          DEF Spec, KeepsPromise, Promise!Spec
=============================================================================
