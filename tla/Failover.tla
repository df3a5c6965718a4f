------------------------------ MODULE Failover ------------------------------
(***************************************************************************)
(* local_amqp_get_bs for one broker_id of one backend (src/pg_amqp.c): the *)
(* cached list of hosts, the rotation over it, the handshake with each,    *)
(* the connect budget, and the backoff between attempts that failed.       *)
(*                                                                         *)
(* Two clocks.  While an attempt runs, every step of the handshake takes   *)
(* up to its timeout, in units in which the timeouts and the budget are    *)
(* given.  Between attempts time passes in seconds.                        *)
(***************************************************************************)
EXTENDS Integers, Sequences

CONSTANTS
    RowCounts,        \* possible numbers of amqp.broker rows of the broker
    Healthy,          \* hosts a connect never fails with; with others it may
    Pid,              \* MyProcPid
    ConnectTimeout,   \* pg_amqp.connect_timeout_ms
    HandshakeTimeout, \* pg_amqp.handshake_timeout_ms
    Budget,           \* pg_amqp.connect_budget_ms, 0: none
    MaxCancels        \* bound on query cancels

ASSUME FailoverAssumption ==
    /\ RowCounts \subseteq Nat /\ Pid \in Nat
    /\ ConnectTimeout \in Nat \ {0} /\ HandshakeTimeout \in Nat \ {0}
    /\ Budget \in Nat /\ MaxCancels \in Nat

VARIABLES
    rows,     \* rows of amqp.broker, as an administrator last left them
    hosts,    \* bs->nhosts, 0 while bs->hosts is NULL
    filled,   \* entries of bs->hosts that have been filled in
    idx,      \* bs->idx
    cf,       \* bs->consecutive_failures, counted up to ManyFailures
    since,    \* time(NULL) - bs->last_failed_connect, Never if that is 0
    conn,     \* bs->conn: none, half open, or logged in
    pc,       \* where the backend stands in local_amqp_get_bs
    tries,    \* the loop variable of that name
    spent,    \* time since the attempt started
    onhost,   \* time spent on the current host
    quiet,    \* history: seconds since an attempt gave up, up to Base, Never if none did
    recent,   \* history: the last hosts tried, as many as there are
    cancels,  \* cancels taken so far
    clock     \* history: whether the wall clock has been set, and which way

cacheVars == <<rows, hosts, filled, idx, recent>>
waitVars  == <<cf, since, quiet>>
loopVars  == <<pc, tries, spent, onhost>>
upsetVars == <<cancels, clock>>
vars      == <<cacheVars, waitVars, loopVars, conn, upsetVars>>

Base == 2           \* AMQP_RECONNECT_BACKOFF_BASE_SEC
Cap  == 30          \* AMQP_RECONNECT_BACKOFF_CAP_SEC
ManyFailures == 5   \* more make no difference
LongAgo == Cap + Base + 1
Never == LongAgo + 1
MaxBack == 3        \* bound on how far the clock is set back

Handshake == {"login", "open1", "open2", "select"}

Init ==
    /\ rows \in RowCounts
    /\ hosts = 0 /\ filled = 0 /\ idx = 0 /\ recent = << >>
    /\ cf = 0 /\ since = Never /\ quiet = Never
    /\ pc = "idle" /\ tries = 0 /\ spent = 0 /\ onhost = 0
    /\ conn = "none" /\ cancels = 0 /\ clock = "true"

Smaller(a, b) == IF a < b THEN a ELSE b

-----------------------------------------------------------------------------
\* The window after a failure: exponential, capped, plus jitter.
Backoff_Bug(n) == Pid % (Base + 1)
Backoff(n) == Smaller(Base * 2^Smaller(n, 4), Cap) + (Pid % (Base + 1))

\* A call inside the window returns at once, without a connection.
MayTry ==
    /\ pc = "idle" /\ conn = "none"
    /\ since # Never => since >= Backoff(cf)

\* An attempt has failed.
GaveUp ==
    /\ pc' = "idle" /\ tries' = 0 /\ spent' = 0 /\ onhost' = 0
    /\ cf' = Smaller(cf + 1, ManyFailures)
    /\ since' = 0 /\ quiet' = 0

\* local_amqp_load_hosts finds no row.
NoHosts ==
    /\ MayTry /\ hosts = 0 /\ rows = 0
    /\ GaveUp
    /\ UNCHANGED <<cacheVars, conn, upsetVars>>

\* ... or caches the rows, unless it has them, and seeds the rotation.
Attempt ==
    /\ MayTry
    /\ \/ hosts > 0 /\ UNCHANGED <<hosts, filled, idx>>
       \/ /\ hosts = 0 /\ rows > 0
          /\ hosts' = rows /\ filled' = rows /\ idx' = Pid % rows
    /\ pc' = "pick" /\ tries' = hosts'
    /\ UNCHANGED <<rows, recent, waitVars, spent, onhost, conn, upsetVars>>

\* A WARNING ends in CHECK_FOR_INTERRUPTS: a pending cancel leaves the
\* function, and nothing is recorded of the attempt.
Interrupt ==
    /\ cancels < MaxCancels /\ cancels' = cancels + 1
    /\ pc' = "idle" /\ tries' = 0 /\ spent' = 0 /\ onhost' = 0
    /\ UNCHANGED clock

\* The WARNINGs about a row (invalid port, ssl_verify=false) come while the
\* cache is being filled: n entries are complete by then, and the rotation is
\* not seeded.  Without a row there is a WARNING too.
LoadInterrupted(n) ==
    /\ MayTry /\ hosts = 0 /\ n <= rows
    /\ hosts' = rows /\ filled' = n
    /\ Interrupt
    /\ UNCHANGED <<rows, idx, recent, waitVars, conn>>

-----------------------------------------------------------------------------
\* The loop over the hosts.

NextIdx_Bug(i, n)   == i + 1
NextIdx_Stuck(i, n) == IF i + 1 < n THEN i + 1 ELSE i
NextIdx(i, n)       == (i + 1) % n

LastOnes(s, n) == IF Len(s) > n THEN SubSeq(s, Len(s) - n + 1, Len(s)) ELSE s

Pick ==
    /\ pc = "pick"
    /\ idx' = NextIdx(idx, hosts)
    /\ recent' = LastOnes(Append(recent, idx'), hosts)
    /\ conn' = "half" /\ pc' = "socket" /\ onhost' = 0
    /\ UNCHANGED <<rows, hosts, filled, waitVars, tries, spent, upsetVars>>

\* amqp_new_connection returns NULL: break.
NoMemory ==
    /\ pc = "pick" /\ NextIdx(idx, hosts) \notin Healthy
    /\ idx' = NextIdx(idx, hosts)
    /\ recent' = LastOnes(Append(recent, idx'), hosts)
    /\ GaveUp
    /\ UNCHANGED <<rows, hosts, filled, conn, upsetVars>>

Timeout == IF pc = "socket" THEN ConnectTimeout ELSE HandshakeTimeout

Takes(d) == spent' = spent + d /\ onhost' = onhost + d

\* local_amqp_open_socket, login, channel.open, channel.open and tx.select,
\* each within its timeout ...
Answer(d) ==
    /\ pc \in {"socket", "login", "open1", "open2"} /\ idx < filled
    /\ Takes(d)
    /\ pc' = CASE pc = "socket" -> "login" [] pc = "login" -> "open1"
               [] pc = "open1" -> "open2"  [] pc = "open2" -> "select"
    /\ UNCHANGED <<cacheVars, waitVars, tries, conn, upsetVars>>

Connected ==
    /\ pc = "select" /\ idx < filled
    /\ conn' = "ready"
    /\ cf' = 0 /\ since' = Never /\ quiet' = Never
    /\ pc' = "idle" /\ tries' = 0 /\ spent' = 0 /\ onhost' = 0
    /\ UNCHANGED <<cacheVars, upsetVars>>

\* ... or refused, or not answered in time: a WARNING ...
Refuse(d) ==
    /\ pc \in {"socket"} \cup Handshake
    /\ idx \notin Healthy \/ idx >= filled
    /\ Takes(d)
    /\ pc' = "next_host"
    /\ UNCHANGED <<cacheVars, waitVars, tries, conn, upsetVars>>

\* ... in which a cancel leaves bs->conn behind.
RefuseInterrupted ==
    /\ pc \in {"socket"} \cup Handshake
    /\ idx \notin Healthy \/ idx >= filled
    /\ Interrupt /\ quiet' = 0
    /\ UNCHANGED <<cacheVars, cf, since, conn>>

\* The budget is looked at after a host has failed.
OutOfBudget_Bug == FALSE
OutOfBudget     == Budget > 0 /\ spent >= Budget

next_host ==
    /\ pc = "next_host"
    /\ conn' = "none"
    /\ \/ /\ OutOfBudget \/ tries = 1
          /\ GaveUp /\ UNCHANGED upsetVars
       \/ /\ ~OutOfBudget /\ tries > 1
          /\ pc' = "pick" /\ tries' = tries - 1
          /\ UNCHANGED <<spent, onhost, waitVars, upsetVars>>
       \/ /\ OutOfBudget \/ tries > 1        \* both emit a WARNING
          /\ Interrupt /\ quiet' = 0 /\ UNCHANGED <<cf, since>>
    /\ UNCHANGED cacheVars

-----------------------------------------------------------------------------
\* The rest of the backend and of the world.

\* local_amqp_disconnect_bs, wherever a publish or a callback drops the
\* connection.
Drop ==
    /\ pc = "idle" /\ conn # "none"
    /\ conn' = "none"
    /\ UNCHANGED <<cacheVars, waitVars, loopVars, upsetVars>>

\* local_amqp_disconnect: amqp.disconnect() forgets everything.
free_hosts == hosts' = 0 /\ filled' = 0

Disconnect ==
    /\ pc = "idle"
    /\ conn' = "none"
    /\ free_hosts /\ idx' = 0 /\ recent' = << >>
    /\ cf' = 0 /\ since' = Never /\ quiet' = Never
    /\ UNCHANGED <<rows, loopVars, upsetVars>>

Reconfigure ==
    /\ rows' \in RowCounts \ {rows}
    /\ UNCHANGED <<hosts, filled, idx, recent, waitVars, loopVars, conn,
                   upsetVars>>

Later(t, most) == IF t = Never THEN Never ELSE Smaller(t + 1, most)

Tick ==
    /\ pc = "idle"
    /\ since' = Later(since, LongAgo) /\ quiet' = Later(quiet, Base)
    /\ UNCHANGED <<cacheVars, cf, loopVars, conn, upsetVars>>

\* time(NULL) is the wall clock, which an administrator may set, once here, while
\* a failure is remembered.
SetClock ==
    /\ pc = "idle" /\ since # Never /\ clock = "true"
    /\ \/ since' = -MaxBack /\ clock' = "back"
       \/ since' = LongAgo /\ clock' = "forward"
    /\ UNCHANGED <<cacheVars, cf, quiet, loopVars, conn, cancels>>

Call == NoHosts \/ Attempt

Step ==
    \/ Pick \/ NoMemory
    \/ \E d \in 0..Timeout : Answer(d) \/ Refuse(d)
    \/ Connected \/ RefuseInterrupted \/ next_host

Next ==
    \/ Call \/ Step
    \/ \E n \in 0..rows : LoadInterrupted(n)
    \/ Drop \/ Disconnect \/ Reconfigure \/ Tick \/ SetClock

Spec == Init /\ [][Next]_vars

\* Every step of an attempt ends within its timeout, time passes, and the
\* application keeps publishing to the broker.
FairSpec == Spec /\ WF_vars(Step) /\ WF_vars(Tick) /\ WF_vars(Call)

-----------------------------------------------------------------------------
\* Properties.

TypeOK ==
    /\ rows \in RowCounts /\ hosts \in RowCounts \cup {0}
    /\ filled \in 0..hosts /\ idx \in Nat /\ (hosts > 0 => idx < hosts)
    /\ cf \in 0..ManyFailures /\ since \in (-MaxBack)..Never /\ quiet \in 0..Never
    /\ conn \in {"none", "half", "ready"}
    /\ pc \in {"idle", "pick", "socket", "next_host"} \cup Handshake
    /\ tries \in 0..hosts /\ spent \in Nat /\ onhost \in Nat
    /\ recent \in Seq(Nat) /\ cancels \in 0..MaxCancels
    /\ clock \in {"true", "back", "forward"}

\* What one host may cost: the socket and four steps of the handshake.
HostCost == ConnectTimeout + 4 * HandshakeTimeout

\* An attempt ends within the budget and the cost of the host that was being
\* tried when it ran out, or without a budget within the cost of all hosts.
AttemptBounded ==
    /\ spent <= hosts * HostCost
    /\ Budget > 0 => spent < Budget + HostCost

\* No host is tried again before each of the others has been, across attempts,
\* reconnects and exhausted budgets: bs->idx survives all of these.
HostsRotate ==
    \A i, j \in 1..Len(recent) : recent[i] = recent[j] => i = j

\* While one of the cached hosts answers and the application keeps publishing,
\* the backend is connected again and again, whatever the other hosts do, however
\* small the budget is, whatever a cancel left in the cache and after the wall
\* clock was set back, unless
\* amqp.disconnect() keeps resetting the rotation or a connection that a cancel
\* left half open is never dropped.
Reconnects ==
    <>[](Healthy \cap 0..(filled - 1) # {}) =>
        \/ []<><<Disconnect>>_vars
        \/ <>[](conn = "half")
        \/ []<>(conn = "ready")

\* "don't re-attempt (and pay the connect timeout) against a broker we just
\* failed to reach": an attempt that fails keeps the next one away for at
\* least the base of the backoff, unless a cancel taken in one of its WARNINGs
\* kept the failure from being recorded or the wall clock was set forward.
NoEarlyRetry ==
    [][pc = "idle" /\ pc' # "idle" /\ cancels = 0 /\ clock # "forward" =>
          quiet = Never \/ quiet >= Base]_vars

-----------------------------------------------------------------------------
\* What the source says of itself and does not keep.

\* "never block a backend longer than these (per broker host)".
HostBounded == onhost <= ConnectTimeout + HandshakeTimeout

\* "Returns the number of hosts available", and "return all configured failover
\* hosts (do not silently truncate)": no attempt goes over rows that were
\* counted but not copied.
CacheWhole == pc = "pick" => filled = hosts
=============================================================================
