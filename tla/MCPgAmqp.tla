------------------------------ MODULE MCPgAmqp ------------------------------
(* Small instances of PgAmqp for TLC. *)
EXTENDS PgAmqp, TLC

\* Neither messages nor brokers are told apart by the specification.
Symmetry == Permutations(Msgs) \cup Permutations(Brokers)

\* No action reads "lost" and "seen", and the runs that use this view check
\* nothing that tells causes of loss apart or looks at "seen".
View == <<callVars, bs, [b \in Brokers |-> [link[b] EXCEPT !.seen = {}]],
          counted, UNION {lost[c] : c \in Causes}, xactVars, msgVars, upsets>>
=============================================================================
