------------------------------ MODULE TxPublish ------------------------------
(***************************************************************************)
(* What pg_amqp promises of messages published inside a transaction: they  *)
(* are pending together until the transaction commits, none of them is     *)
(* shown before that or if it does not happen, and afterwards the messages *)
(* of a broker are shown all at once or dropped all at once, and never     *)
(* turn up later.  A direct message is outside of the transaction.         *)
(***************************************************************************)
CONSTANTS Brokers, Msgs

VARIABLES
    state,  \* of each message
    owed,   \* accepted messages that a broker still has to show
    shown   \* messages that consumers can see

vars == <<state, owed, shown>>

States == {"new", "pending", "direct", "committed", "withdrawn"}

Init ==
    /\ state = [m \in Msgs |-> "new"]
    /\ owed = [b \in Brokers |-> {}]
    /\ shown = {}

Publish(m, s) ==
    /\ state[m] = "new" /\ s \in {"pending", "direct", "withdrawn"}
    /\ state' = [state EXCEPT ![m] = s]
    /\ UNCHANGED <<owed, shown>>

\* The caller is told that the message was taken.
Accept(b, m) ==
    /\ state[m] = "pending"
    /\ owed' = [owed EXCEPT ![b] = @ \cup {m}]
    /\ UNCHANGED <<state, shown>>

ShowDirect(m) ==
    /\ state[m] = "direct"
    /\ shown' = shown \cup {m}
    /\ UNCHANGED <<state, owed>>

\* A call fails, a savepoint or the transaction is rolled back.
Withdraw(ms) ==
    /\ \A m \in ms : state[m] \in {"pending", "direct"} /\ m \notin shown
    /\ state' = [m \in Msgs |-> IF m \in ms THEN "withdrawn" ELSE state[m]]
    /\ UNCHANGED shown

Commit ==
    /\ state' = [m \in Msgs |-> IF state[m] = "pending" THEN "committed" ELSE state[m]]
    /\ UNCHANGED <<owed, shown>>

Show(b) ==
    /\ \A m \in owed[b] : state[m] = "committed"
    /\ shown' = shown \cup owed[b]
    /\ owed' = [owed EXCEPT ![b] = {}]
    /\ UNCHANGED state

Drop(b) == UNCHANGED <<shown, state>> /\ owed' = [owed EXCEPT ![b] = {}]

\* The session ends with everything that was not committed.
Crash ==
    /\ Withdraw({m \in Msgs : state[m] = "pending"})
    /\ owed' = [b \in Brokers |-> {}]

Next ==
    \/ \E b \in Brokers : Drop(b) \/ Show(b) \/ \E m \in Msgs : Accept(b, m)
    \/ \E m \in Msgs : ShowDirect(m) \/ \E s \in States : Publish(m, s)
    \/ \E ms \in SUBSET Msgs : Withdraw(ms) /\ UNCHANGED owed
    \/ Commit
    \/ Crash

Spec == Init /\ [][Next]_vars
=============================================================================
