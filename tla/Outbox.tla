------------------------------- MODULE Outbox -------------------------------
(***************************************************************************)
(* The transactional outbox (sql/functions/functions.sql and               *)
(* sql/tables/tables.sql): application transactions insert rows into       *)
(* amqp.outbox with publish_outbox(), relay workers ship them with         *)
(* publish_outbox_batch(), which calls autonomous_publish() for each row.  *)
(*                                                                         *)
(* The workers are transactions of PostgreSQL at READ COMMITTED: a batch's *)
(* query sees the rows committed when it starts, locks them one by one in  *)
(* the order of their ids, skips a row another transaction has locked, and *)
(* looks again at a row that has changed since.  What a worker has sent to *)
(* a broker is not undone when its transaction rolls back.                 *)
(*                                                                         *)
(* attempts and last_error are reports nothing reads and are left out.     *)
(***************************************************************************)
EXTENDS Naturals, FiniteSets

CONSTANTS
    Brokers,    \* broker_id values
    DeadBrokers,\* those that never answer a connect
    Filters,    \* brokers a call relays for: one (broker_id) or all (NULL)
    Workers,    \* sessions that run publish_outbox_batch
    MaxId,      \* bound on outbox.id
    Limit,      \* batch_limit
    MaxFailures \* bound on rolled back batches and on refusals by live brokers

ASSUME OutboxAssumption ==
    /\ IsFiniteSet(Brokers) /\ IsFiniteSet(Workers)
    /\ DeadBrokers \subseteq Brokers /\ Filters \subseteq SUBSET Brokers
    /\ MaxId \in Nat /\ Limit \in Nat /\ MaxFailures \in Nat

Ids == 1..MaxId

VARIABLES
    row,        \* outbox rows by id: not there, inserted by an open
                \* transaction, committed, published
    dest,       \* outbox.broker_id
    wpc,        \* where a worker stands
    todo,       \* rows of a worker's query it has not reached yet
    batch,      \* rows it has locked and not relayed yet
    taken,      \* number of rows its query has returned
    marked,     \* rows it has updated to published, not committed yet
    locks,      \* row locks, by worker
    got,        \* history: copies of each message a broker has received
    sent,       \* history: rows relayed by a worker's open transaction
    redone,     \* history: copies whose batch rolled back afterwards
    failures    \* rolled back batches, and refusals by live brokers

tableVars  == <<row, dest>>
workerVars == <<wpc, todo, batch, taken, marked, locks>>
histVars   == <<got, sent, redone>>
vars       == <<tableVars, workerVars, histVars, failures>>

Init ==
    /\ row = [i \in Ids |-> "none"]
    /\ dest \in [Ids -> Brokers]
    /\ wpc = [w \in Workers |-> "idle"]
    /\ todo = [w \in Workers |-> {}]
    /\ batch = [w \in Workers |-> {}]
    /\ taken = [w \in Workers |-> 0]
    /\ marked = [w \in Workers |-> {}]
    /\ locks = [w \in Workers |-> {}]
    /\ got = [i \in Ids |-> 0]
    /\ sent = [w \in Workers |-> {}]
    /\ redone = [i \in Ids |-> 0]
    /\ failures = 0

Fail == failures < MaxFailures /\ failures' = failures + 1

Least(S) == CHOOSE i \in S : \A j \in S : i <= j

-----------------------------------------------------------------------------
\* The application.

\* publish_outbox: INSERT ... RETURNING id.  bigserial hands the id out when
\* the row is inserted, so ids are not in the order of the commits.
publish_outbox(i) ==
    /\ row[i] = "none" /\ \A j \in Ids : j < i => row[j] # "none"
    /\ row' = [row EXCEPT ![i] = "inserted"]
    /\ UNCHANGED <<dest, workerVars, histVars, failures>>

\* The surrounding transaction ends.
AppEnd(i, outcome) ==
    /\ row[i] = "inserted"
    /\ row' = [row EXCEPT ![i] = outcome]
    /\ UNCHANGED <<dest, workerVars, histVars, failures>>

-----------------------------------------------------------------------------
\* publish_outbox_batch, called as a transaction of its own.

\* published_at IS NULL, among the rows whose transaction has committed.
Unpublished_Bug(i) == row[i] \in {"inserted", "pending"}
Unpublished(i)     == row[i] = "pending"

OpenQuery(w, F) ==
    /\ wpc[w] = "idle"
    /\ wpc' = [wpc EXCEPT ![w] = "loop"]
    /\ todo' = [todo EXCEPT ![w] =
                  {i \in Ids : Unpublished(i) /\ dest[i] \in F}]
    /\ taken' = [taken EXCEPT ![w] = 0]
    /\ UNCHANGED <<tableVars, batch, marked, locks, histVars, failures>>

\* FOR UPDATE SKIP LOCKED: the next row of the query, in the order of ids, is
\* skipped if it is locked or no longer qualifies.
Lockable_Bug(w, i) == \A v \in Workers \ {w} : i \notin locks[v]
Lockable(w, i)     == Unpublished(i) /\ \A v \in Workers : i \notin locks[v]

\* LIMIT batch_limit counts the rows that are returned.
More_Bug(w) == todo[w] # {} /\ taken[w] <= Limit
More(w)     == todo[w] # {} /\ taken[w] < Limit

Fetch(w) ==
    /\ wpc[w] = "loop" /\ More(w)
    /\ LET i == Least(todo[w])
       IN  /\ todo' = [todo EXCEPT ![w] = @ \ {i}]
           /\ IF Lockable(w, i)
                THEN /\ locks' = [locks EXCEPT ![w] = @ \cup {i}]
                     /\ batch' = [batch EXCEPT ![w] = @ \cup {i}]
                     /\ taken' = [taken EXCEPT ![w] = @ + 1]
                ELSE UNCHANGED <<locks, batch, taken>>
    /\ UNCHANGED <<tableVars, wpc, marked, histVars, failures>>

\* The body of the loop: autonomous_publish returned true, after a write that
\* the broker took (n = 1) or never saw (n = 0); set published_at.
Mark_Bug(w, i) == marked[w]
Mark(w, i)     == marked[w] \cup {i}

RelayOk(w, n) ==
    /\ wpc[w] = "loop" /\ batch[w] # {}
    /\ LET i == Least(batch[w])
       IN  /\ dest[i] \notin DeadBrokers
           /\ batch' = [batch EXCEPT ![w] = @ \ {i}]
           /\ marked' = [marked EXCEPT ![w] = Mark(w, i)]
           /\ got' = [got EXCEPT ![i] = @ + n]
           /\ sent' = [sent EXCEPT ![w] = @ \cup {i}]
    /\ UNCHANGED <<tableVars, wpc, todo, taken, locks, redone, failures>>

\* It returned false: only attempts and last_error change.
RelayFalse(w) ==
    /\ wpc[w] = "loop" /\ batch[w] # {}
    /\ LET i == Least(batch[w])
       IN  /\ batch' = [batch EXCEPT ![w] = @ \ {i}]
           /\ IF dest[i] \in DeadBrokers THEN UNCHANGED failures ELSE Fail
    /\ UNCHANGED <<tableVars, wpc, todo, taken, marked, locks, histVars>>

\* The loop is over: RETURN v_count, and the worker's transaction commits ...
CommitBatch(w) ==
    /\ wpc[w] = "loop" /\ batch[w] = {} /\ ~More(w)
    /\ row' = [i \in Ids |-> IF i \in marked[w] THEN "published" ELSE row[i]]
    /\ wpc' = [wpc EXCEPT ![w] = "idle"]
    /\ todo' = [todo EXCEPT ![w] = {}]
    /\ marked' = [marked EXCEPT ![w] = {}]
    /\ locks' = [locks EXCEPT ![w] = {}]
    /\ sent' = [sent EXCEPT ![w] = {}]
    /\ UNCHANGED <<dest, batch, taken, got, redone, failures>>

\* ... or a crash, a cancel or an ERROR rolls it back at any point; the cancel
\* may strike after the broker has the message and before the row is updated.
AbortBatch(w, late) ==
    /\ wpc[w] = "loop" /\ Fail
    /\ late \subseteq {i \in batch[w] : i = Least(batch[w])}
    /\ \A i \in late : dest[i] \notin DeadBrokers
    /\ got' = [i \in Ids |-> IF i \in late THEN got[i] + 1 ELSE got[i]]
    /\ redone' = [i \in Ids |-> IF i \in sent[w] \cup late
                                THEN redone[i] + 1 ELSE redone[i]]
    /\ wpc' = [wpc EXCEPT ![w] = "idle"]
    /\ todo' = [todo EXCEPT ![w] = {}]
    /\ batch' = [batch EXCEPT ![w] = {}]
    /\ marked' = [marked EXCEPT ![w] = {}]
    /\ locks' = [locks EXCEPT ![w] = {}]
    /\ sent' = [sent EXCEPT ![w] = {}]
    /\ UNCHANGED <<tableVars, taken>>

-----------------------------------------------------------------------------
Relay(w) ==
    \/ \E F \in Filters : OpenQuery(w, F)
    \/ Fetch(w)
    \/ \E n \in {0, 1} : RelayOk(w, n)
    \/ RelayFalse(w) \/ CommitBatch(w)

Next ==
    \/ \E i \in Ids : \/ publish_outbox(i)
                      \/ \E outcome \in {"pending", "rolledback"} :
                           AppEnd(i, outcome)
    \/ \E w \in Workers : \/ Relay(w)
                          \/ \E late \in SUBSET batch[w] : AbortBatch(w, late)

Spec == Init /\ [][Next]_vars

\* The relay is called on a schedule, and a batch that is not rolled back
\* proceeds: every call of autonomous_publish returns (PgAmqp).
FairSpec == Spec /\ \A w \in Workers : WF_vars(Relay(w))

-----------------------------------------------------------------------------
\* Properties.

TypeOK ==
    /\ row \in [Ids -> {"none", "inserted", "rolledback", "pending",
                        "published"}]
    /\ dest \in [Ids -> Brokers]
    /\ wpc \in [Workers -> {"idle", "loop"}]
    /\ todo \in [Workers -> SUBSET Ids]
    /\ batch \in [Workers -> SUBSET Ids]
    /\ taken \in [Workers -> 0..Limit]
    /\ marked \in [Workers -> SUBSET Ids]
    /\ locks \in [Workers -> SUBSET Ids]
    /\ got \in [Ids -> Nat]
    /\ sent \in [Workers -> SUBSET Ids]
    /\ redone \in [Ids -> Nat]
    /\ failures \in 0..MaxFailures

\* A broker receives a message only if the transaction that enqueued it has
\* committed, although the relay runs in other sessions at the same time.
NeverIfRolledBack ==
    \A i \in Ids : got[i] > 0 => row[i] \in {"pending", "published"}

\* Concurrent workers never send a row twice: every further copy is paid for
\* by a rollback of the batch that had sent it (FOR UPDATE SKIP LOCKED).
NoNeedlessDuplicate ==
    \A i \in Ids : got[i] <= redone[i] + 1

\* With room in a batch for every row of a dead broker and one more, each
\* committed row for a live broker is shipped in the end.  (Without that
\* room the oldest rows of a dead broker fill every batch.)
Starvable == Cardinality({i \in Ids : dest[i] \in DeadBrokers}) >= Limit

RowsGetShipped ==
    \A i \in Ids :
      (row[i] = "pending" /\ dest[i] \notin DeadBrokers /\ ~Starvable)
        ~> row[i] = "published"
=============================================================================
