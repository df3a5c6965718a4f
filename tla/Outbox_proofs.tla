---------------------------- MODULE Outbox_proofs ----------------------------
(* Machine-checked proofs about Outbox, for every set of brokers, workers  *)
(* and filters and every bound.                                            *)
EXTENDS Outbox, WellFoundedInduction, TLAPS

-----------------------------------------------------------------------------
\* The least row of a set is one of its rows: what ORDER BY id picks.
LEMMA LeastFacts ==
  ASSUME NEW S \in SUBSET Ids, S # {}
  PROVE  Least(S) \in S
  <1>1. S \subseteq Nat
    BY OutboxAssumption DEF Ids
  <1>2. \E x \in S : \A y \in S : ~(<<y, x>> \in OpToRel(<, Nat))
    BY <1>1, NatLessThanWellFounded, WFMin
  <1>3. ASSUME NEW x \in Nat, NEW y \in Nat, y < x
        PROVE  <<y, x>> \in OpToRel(<, Nat)
    BY <1>3 DEF OpToRel
  <1>4. \E x \in S : \A y \in S : x <= y
    <2>1. PICK x \in S : \A y \in S : ~(<<y, x>> \in OpToRel(<, Nat))
      BY <1>2
    <2>2. \A y \in S : ~(y < x)
      BY <1>1, <1>3, <2>1
    <2> QED BY <1>1, <2>2
  <1> QED BY <1>4 DEF Least

-----------------------------------------------------------------------------
\* Types.

\* The empty outbox is well typed.
LEMMA InitType == Init => TypeOK
  BY OutboxAssumption DEF Init, TypeOK

\* Every statement of an application or a relay keeps the types; the row that
\* FETCH or the loop of amqp.relay_outbox picks exists (LeastFacts).
LEMMA TypeStep == TypeOK /\ [Next]_vars => TypeOK'
  <1> SUFFICES ASSUME TypeOK, [Next]_vars PROVE TypeOK'
    OBVIOUS
  <1> USE OutboxAssumption DEF TypeOK, vars, tableVars, workerVars, histVars
  <1>1. CASE UNCHANGED vars
    BY <1>1
  <1>2. ASSUME NEW i \in Ids, publish_outbox(i) PROVE TypeOK'
    BY <1>2 DEF publish_outbox
  <1>3. ASSUME NEW i \in Ids, NEW outcome \in {"pending", "rolledback"},
               AppEnd(i, outcome)
        PROVE  TypeOK'
    BY <1>3 DEF AppEnd
  <1>4. ASSUME NEW w \in Workers, NEW F \in Filters, OpenQuery(w, F) PROVE TypeOK'
    BY <1>4 DEF OpenQuery
  <1>5. ASSUME NEW w \in Workers, Fetch(w) PROVE TypeOK'
    <2>1. Least(todo[w]) \in Ids
      BY <1>5, LeastFacts DEF Fetch, More
    <2>2. taken[w] + 1 \in 0..Limit
      BY <1>5 DEF Fetch, More
    <2> QED BY <1>5, <2>1, <2>2 DEF Fetch
  <1>6. ASSUME NEW w \in Workers, NEW n \in {0, 1}, RelayOk(w, n) PROVE TypeOK'
    <2>1. Least(batch[w]) \in Ids
      BY <1>6, LeastFacts DEF RelayOk
    <2> QED BY <1>6, <2>1 DEF RelayOk, Mark
  <1>7. ASSUME NEW w \in Workers, RelayFalse(w) PROVE TypeOK'
    BY <1>7 DEF RelayFalse, Fail
  <1>8. ASSUME NEW w \in Workers, CommitBatch(w) PROVE TypeOK'
    BY <1>8 DEF CommitBatch
  <1>9. ASSUME NEW w \in Workers, NEW late \in SUBSET batch[w], AbortBatch(w, late)
        PROVE  TypeOK'
    BY <1>9 DEF AbortBatch, Fail
  <1> HIDE DEF TypeOK
  <1> QED BY <1>1, <1>2, <1>3, <1>4, <1>5, <1>6, <1>7, <1>8, <1>9 DEF Next, Relay

\* The table and the workers' transactions are always well typed; no batch
\* takes more than batch_limit rows.
THEOREM TypeCorrect == Spec => []TypeOK
  BY InitType, TypeStep, PTL DEF Spec

-----------------------------------------------------------------------------
\* The inductive invariant behind the safety properties, part by part.

\* A worker without a transaction holds nothing.
IdleHoldsNothing ==
    \A w \in Workers : wpc[w] = "idle" => locks[w] = {}

\* A worker relays and updates only rows it has locked, and each once.
RelayedLocked ==
    \A w \in Workers : /\ batch[w] \cup sent[w] \subseteq locks[w]
                       /\ batch[w] \cap sent[w] = {}
                       /\ marked[w] = sent[w]

\* FOR UPDATE: a row is locked by one transaction, and nobody else changes it.
LocksExclude ==
    /\ \A v, w \in Workers : v # w => locks[v] \cap locks[w] = {}
    /\ \A w \in Workers : \A i \in locks[w] : row[i] = "pending"

\* A copy that no rollback accounts for was sent by the batch that published
\* the row or by one that still runs.
CopiesAccounted ==
    \A i \in Ids :
      \/ got[i] <= redone[i]
      \/ /\ got[i] = redone[i] + 1
         /\ row[i] = "published" \/ \E w \in Workers : i \in sent[w]

IInv == /\ IdleHoldsNothing /\ RelayedLocked /\ LocksExclude
        /\ CopiesAccounted /\ NeverIfRolledBack

\* Nothing is locked or sent at the start.
LEMMA InitInv == Init => IInv
  BY DEF Init, IInv, IdleHoldsNothing, RelayedLocked, LocksExclude,
         CopiesAccounted, NeverIfRolledBack

\* No step of the application or of any relay, rollbacks included, breaks a part.
LEMMA InvStep == TypeOK /\ TypeOK' /\ IInv /\ [Next]_vars => IInv'
  <1> SUFFICES ASSUME TypeOK, TypeOK', IInv, [Next]_vars PROVE IInv'
    OBVIOUS
  <1> USE DEF TypeOK, vars, tableVars, workerVars, histVars
  <1> USE DEF IInv, IdleHoldsNothing, RelayedLocked, LocksExclude,
              CopiesAccounted, NeverIfRolledBack
  <1>1. CASE UNCHANGED vars
    BY <1>1
  <1>2. ASSUME NEW i \in Ids, publish_outbox(i) PROVE IInv'
    BY <1>2 DEF publish_outbox
  <1>3. ASSUME NEW i \in Ids, NEW outcome \in {"pending", "rolledback"},
               AppEnd(i, outcome)
        PROVE  IInv'
    BY <1>3 DEF AppEnd
  <1>4. ASSUME NEW w \in Workers, NEW F \in Filters, OpenQuery(w, F) PROVE IInv'
    BY <1>4 DEF OpenQuery
  <1>5. ASSUME NEW w \in Workers, Fetch(w) PROVE IInv'
    <2>1. Least(todo[w]) \in Ids
      BY <1>5, LeastFacts DEF Fetch, More
    <2>2. PICK S \in SUBSET Ids :
            /\ \A i \in S : row[i] = "pending" /\ \A v \in Workers : i \notin locks[v]
            /\ locks' = [locks EXCEPT ![w] = @ \cup S]
            /\ batch' = [batch EXCEPT ![w] = @ \cup S]
            /\ wpc[w] # "idle"
            /\ UNCHANGED <<row, wpc, marked, got, sent, redone>>
      <3>1. CASE Lockable(w, Least(todo[w]))
        <4> WITNESS {Least(todo[w])} \in SUBSET Ids
        <4> QED BY <1>5, <2>1, <3>1 DEF Fetch, Lockable, Unpublished
      <3>2. CASE ~Lockable(w, Least(todo[w]))
        <4> WITNESS {} \in SUBSET Ids
        <4> QED BY <1>5, <3>2 DEF Fetch
      <3> QED BY <3>1, <3>2
    <2>3. /\ locks'[w] = locks[w] \cup S /\ batch'[w] = batch[w] \cup S
          /\ \A v \in Workers \ {w} : locks'[v] = locks[v] /\ batch'[v] = batch[v]
      <3> HIDE DEF IInv
      <3> QED BY <2>2
    <2>4. IdleHoldsNothing'
      BY <2>2, <2>3
    <2>5. RelayedLocked'
      BY <2>2, <2>3
    <2>6. LocksExclude'
      BY <2>2, <2>3
    <2>7. CopiesAccounted' /\ NeverIfRolledBack'
      BY <2>2
    <2> QED BY <2>4, <2>5, <2>6, <2>7
  <1>6. ASSUME NEW w \in Workers, NEW n \in {0, 1}, RelayOk(w, n) PROVE IInv'
    <2>1. PICK i \in batch[w] :
            /\ batch' = [batch EXCEPT ![w] = @ \ {i}]
            /\ marked' = [marked EXCEPT ![w] = @ \cup {i}]
            /\ got' = [got EXCEPT ![i] = @ + n]
            /\ sent' = [sent EXCEPT ![w] = @ \cup {i}]
            /\ UNCHANGED <<row, wpc, locks, redone>>
      BY <1>6, LeastFacts DEF RelayOk, Mark
    <2>2. i \in Ids /\ row[i] = "pending" /\ \A v \in Workers : i \notin sent[v]
      BY <2>1
    <2>3. IdleHoldsNothing' /\ LocksExclude'
      BY <2>1
    <2>4. RelayedLocked'
      <3> SUFFICES ASSUME NEW v \in Workers
                   PROVE  /\ batch'[v] \cup sent'[v] \subseteq locks'[v]
                          /\ batch'[v] \cap sent'[v] = {}
                          /\ marked'[v] = sent'[v]
        OBVIOUS
      <3>1. CASE v = w
        BY <2>1, <3>1
      <3>2. CASE v # w
        BY <2>1, <3>2
      <3> QED BY <3>1, <3>2
    <2>5. CopiesAccounted'
      <3>1. got[i] <= redone[i]
        BY ZenonT(60), <2>2
      <3>2. \A j \in Ids : got'[j] = IF j = i THEN got[j] + n ELSE got[j]
        BY <2>1
      <3>3. i \in sent'[w] /\ \A v \in Workers : sent[v] \subseteq sent'[v]
        BY <2>1
      <3>4. ASSUME NEW j \in Ids
            PROVE  \/ got'[j] <= redone'[j]
                   \/ /\ got'[j] = redone'[j] + 1
                      /\ \/ row'[j] = "published"
                         \/ \E v \in Workers : j \in sent'[v]
        <4>1. CASE j = i
          BY <2>1, <2>2, <3>1, <3>2, <3>3, <4>1
        <4>2. CASE j # i
          BY <2>1, <3>2, <3>3, <4>2
        <4> QED BY <4>1, <4>2
      <3> QED BY <3>4
    <2>6. NeverIfRolledBack'
      BY <2>1, <2>2
    <2> QED BY <2>3, <2>4, <2>5, <2>6
  <1>7. ASSUME NEW w \in Workers, RelayFalse(w) PROVE IInv'
    BY <1>7 DEF RelayFalse, Fail
  <1>8. ASSUME NEW w \in Workers, CommitBatch(w) PROVE IInv'
    BY <1>8 DEF CommitBatch
  <1>9. ASSUME NEW w \in Workers, NEW late \in SUBSET batch[w], AbortBatch(w, late)
        PROVE  IInv'
    BY <1>9 DEF AbortBatch, Fail
  <1> HIDE DEF TypeOK, IInv
  <1> QED BY <1>1, <1>2, <1>3, <1>4, <1>5, <1>6, <1>7, <1>8, <1>9 DEF Next, Relay

\* So the parts hold in every reachable state.
LEMMA Invariance == Spec => [](TypeOK /\ IInv)
  BY InitType, TypeStep, InitInv, InvStep, PTL DEF Spec

-----------------------------------------------------------------------------
\* No broker receives a row of a transaction that has not committed, whatever
\* the relays do at the same time (published_at IS NULL of committed rows).
THEOREM NeverIfRolledBackCorrect == Spec => []NeverIfRolledBack
  BY Invariance, PTL DEF IInv

\* Any number of concurrent relays send a row once, and once more for each
\* rollback of a batch that had sent it (FOR UPDATE SKIP LOCKED).
THEOREM NoNeedlessDuplicateCorrect == Spec => []NoNeedlessDuplicate
  <1>1. TypeOK /\ IInv => NoNeedlessDuplicate
    BY DEF TypeOK, IInv, CopiesAccounted, NoNeedlessDuplicate
  <1> QED BY <1>1, Invariance, PTL

\* Once the batch that sent it has committed a row is never sent again, nor does
\* it become unpublished: the rows a relay works on are locked and pending.
THEOREM PublishedIsFinal ==
  Spec => [][\A i \in Ids : row[i] = "published" =>
                row'[i] = "published" /\ got'[i] = got[i]]_vars
  <1>1. ASSUME TypeOK, IInv, [Next]_vars,
               NEW i \in Ids, row[i] = "published"
        PROVE  row'[i] = "published" /\ got'[i] = got[i]
    <2> USE <1>1 DEF TypeOK, IInv, LocksExclude, RelayedLocked, vars, tableVars,
                     workerVars, histVars
    <2>1. CASE UNCHANGED vars
      BY <2>1
    <2>2. ASSUME NEW j \in Ids, publish_outbox(j)
          PROVE  row'[i] = "published" /\ got'[i] = got[i]
      BY <2>2 DEF publish_outbox
    <2>3. ASSUME NEW j \in Ids, NEW outcome \in {"pending", "rolledback"},
                 AppEnd(j, outcome)
          PROVE  row'[i] = "published" /\ got'[i] = got[i]
      BY <2>3 DEF AppEnd
    <2>4. ASSUME NEW w \in Workers, NEW F \in Filters, OpenQuery(w, F)
          PROVE  row'[i] = "published" /\ got'[i] = got[i]
      BY <2>4 DEF OpenQuery
    <2>5. ASSUME NEW w \in Workers, Fetch(w)
          PROVE  row'[i] = "published" /\ got'[i] = got[i]
      BY <2>5 DEF Fetch
    <2>6. ASSUME NEW w \in Workers, NEW n \in {0, 1}, RelayOk(w, n)
          PROVE  row'[i] = "published" /\ got'[i] = got[i]
      <3>1. Least(batch[w]) \in batch[w]
        BY <2>6, LeastFacts DEF RelayOk
      <3>2. Least(batch[w]) # i /\ Least(batch[w]) \in Ids
        BY <3>1
      <3> QED BY <2>6, <3>2 DEF RelayOk
    <2>7. ASSUME NEW w \in Workers, RelayFalse(w)
          PROVE  row'[i] = "published" /\ got'[i] = got[i]
      BY <2>7 DEF RelayFalse
    <2>8. ASSUME NEW w \in Workers, CommitBatch(w)
          PROVE  row'[i] = "published" /\ got'[i] = got[i]
      BY <2>8 DEF CommitBatch
    <2>9. ASSUME NEW w \in Workers, NEW late \in SUBSET batch[w],
                 AbortBatch(w, late)
          PROVE  row'[i] = "published" /\ got'[i] = got[i]
      <3>1. i \notin batch[w]
        OBVIOUS
      <3> QED BY <2>9, <3>1 DEF AbortBatch
    <2> QED BY <2>1, <2>2, <2>3, <2>4, <2>5, <2>6, <2>7, <2>8, <2>9
            DEF Next, Relay
  <1>2. TypeOK /\ IInv /\ [Next]_vars =>
          [\A i \in Ids : row[i] = "published" =>
                row'[i] = "published" /\ got'[i] = got[i]]_vars
    BY <1>1
  <1> QED BY <1>2, Invariance, PTL DEF Spec
=============================================================================
