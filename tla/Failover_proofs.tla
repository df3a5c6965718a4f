--------------------------- MODULE Failover_proofs ---------------------------
(* Machine-checked proofs about Failover, for every list of hosts, every   *)
(* timeout and budget, every process id and every number of cancels.       *)
EXTENDS Failover, TLAPS

-----------------------------------------------------------------------------
\* Facts about the operators.

\* bs->idx = (bs->idx + 1) % bs->nhosts steps to the next host or wraps.
LEMMA NextIdxFacts ==
  ASSUME NEW i \in Nat, NEW n \in Nat, i < n
  PROVE  /\ NextIdx(i, n) = IF i + 1 = n THEN 0 ELSE i + 1
         /\ NextIdx(i, n) \in 0..(n - 1)
  BY DEF NextIdx

\* The backoff window is never shorter than its base, whatever the number of
\* failures and the process id.
LEMMA BackoffAtLeastBase ==
  ASSUME NEW n \in 0..ManyFailures
  PROVE  Backoff(n) \in Nat /\ Backoff(n) >= Base
  <1>1. Smaller(n, 4) \in 0..4
    BY DEF Smaller, ManyFailures
  <1>2. 2^0 = 1 /\ 2^1 = 2 /\ 2^2 = 4 /\ 2^3 = 8 /\ 2^4 = 16
    OBVIOUS
  <1>3. 2^Smaller(n, 4) \in Nat \ {0}
    <2>1. Smaller(n, 4) \in {0, 1, 2, 3, 4}
      BY <1>1
    <2> HIDE DEF Smaller
    <2> DEFINE k == Smaller(n, 4)
    <2>2. k = 0 \/ k = 1 \/ k = 2 \/ k = 3 \/ k = 4
      BY <2>1
    <2> HIDE DEF k
    <2>3. 2^k \in {1, 2, 4, 8, 16}
      BY <1>2, <2>2
    <2> QED BY <2>3 DEF k
  <1>4. Smaller(Base * 2^Smaller(n, 4), Cap) \in Nat
        /\ Smaller(Base * 2^Smaller(n, 4), Cap) >= Base
    BY <1>3 DEF Smaller, Base, Cap
  <1>5. Pid % (Base + 1) \in Nat
    BY FailoverAssumption DEF Base
  <1> QED BY <1>4, <1>5 DEF Backoff, Base

\* The window of hosts a history keeps is a sequence of indexes.
LEMMA LastOnesType ==
  ASSUME NEW s \in Seq(Nat), NEW n \in Nat
  PROVE  LastOnes(s, n) \in Seq(Nat)
  <1>1. CASE Len(s) > n
    <2>1. LastOnes(s, n) = SubSeq(s, Len(s) - n + 1, Len(s))
      BY <1>1 DEF LastOnes
    <2>2. Len(s) \in Nat /\ Len(s) - n + 1 \in 1..(Len(s) + 1)
      BY <1>1
    <2> QED BY <2>1, <2>2
  <1>2. CASE ~(Len(s) > n)
    BY <1>2 DEF LastOnes
  <1> QED BY <1>1, <1>2

-----------------------------------------------------------------------------
\* Types.

\* An attempt runs over a list of hosts that is not empty; a list that was
\* freed left the rotation at its start.
LoopSound ==
    /\ pc # "idle" => tries \in 1..hosts
    /\ pc = "idle" => spent = 0 /\ tries = 0
    /\ hosts = 0 => idx = 0 /\ recent = << >>

TInv == TypeOK /\ LoopSound

\* A new backend has loaded no hosts and is not in an attempt.
LEMMA InitType == Init => TInv
  BY FailoverAssumption
     DEF Init, TInv, TypeOK, LoopSound, Never, LongAgo, Cap, Base, MaxBack,
         ManyFailures, Handshake

\* Every step keeps the types: bs->idx stays an index of the list, also when an
\* attempt gives up, is cancelled, or frees the list.
LEMMA TypeStep == TInv /\ [Next]_vars => TInv'
  <1> SUFFICES ASSUME TInv, [Next]_vars PROVE TInv'
    OBVIOUS
  <1> USE FailoverAssumption
      DEF TInv, TypeOK, LoopSound, vars, cacheVars, waitVars, loopVars, upsetVars
  <1> USE DEF Never, LongAgo, Cap, Base, MaxBack, ManyFailures, Handshake, Smaller
  <1>0. hosts \in Nat /\ rows \in Nat
    OBVIOUS
  <1>1. CASE UNCHANGED vars
    BY <1>1
  <1>2. CASE NoHosts
    BY <1>2 DEF NoHosts, MayTry, GaveUp
  <1>3. CASE Attempt
    BY <1>3 DEF Attempt, MayTry
  <1>4. CASE Pick
    <2>1. hosts > 0 /\ idx < hosts /\ idx' = NextIdx(idx, hosts)
      BY <1>4 DEF Pick
    <2>2. idx' \in Nat /\ idx' < hosts
      BY <1>0, <2>1, NextIdxFacts
    <2>3. recent' \in Seq(Nat)
      <3>1. recent' = LastOnes(Append(recent, idx'), hosts)
        BY <1>4 DEF Pick
      <3>2. Append(recent, idx') \in Seq(Nat)
        BY <2>2
      <3> QED BY <1>0, <3>1, <3>2, LastOnesType
    <2> QED BY <1>0, <1>4, <2>1, <2>2, <2>3 DEF Pick
  <1>5. CASE NoMemory
    <2>1. hosts > 0 /\ idx < hosts /\ idx' = NextIdx(idx, hosts)
      BY <1>5 DEF NoMemory
    <2>2. idx' \in Nat /\ idx' < hosts
      BY <1>0, <2>1, NextIdxFacts
    <2>3. recent' \in Seq(Nat)
      <3>1. recent' = LastOnes(Append(recent, idx'), hosts)
        BY <1>5 DEF NoMemory
      <3>2. Append(recent, idx') \in Seq(Nat)
        BY <2>2
      <3> QED BY <1>0, <3>1, <3>2, LastOnesType
    <2> QED BY <1>0, <1>5, <2>1, <2>2, <2>3 DEF NoMemory, GaveUp
  <1>6. ASSUME NEW d \in 0..Timeout, Answer(d) PROVE TInv'
    <2>1. d \in Nat
      BY DEF Timeout
    <2>2. pc' \in Handshake /\ pc # "idle"
      BY <1>6 DEF Answer
    <2>3. spent' \in Nat /\ onhost' \in Nat
      <3>1. spent' = spent + d /\ onhost' = onhost + d
        BY <1>6 DEF Answer, Takes
      <3> QED BY <2>1, <3>1
    <2> QED BY <1>6, <2>2, <2>3 DEF Answer
  <1>7. ASSUME NEW d \in 0..Timeout, Refuse(d) PROVE TInv'
    BY <1>7 DEF Refuse, Takes, Timeout
  <1>8. CASE Connected
    BY <1>8 DEF Connected
  <1>9. CASE RefuseInterrupted
    BY <1>9 DEF RefuseInterrupted, Interrupt
  <1>10. CASE next_host
    <2>1. UNCHANGED cacheVars /\ conn' = "none" /\ pc = "next_host"
      BY <1>10 DEF next_host
    <2>2. CASE GaveUp /\ UNCHANGED upsetVars
      BY <2>1, <2>2 DEF GaveUp
    <2>3. CASE Interrupt /\ quiet' = 0 /\ UNCHANGED <<cf, since>>
      BY <2>1, <2>3 DEF Interrupt
    <2>4. CASE /\ tries > 1 /\ pc' = "pick" /\ tries' = tries - 1
               /\ UNCHANGED <<spent, onhost, waitVars, upsetVars>>
      BY <1>0, <2>1, <2>4
    <2> QED BY <1>10, <2>2, <2>3, <2>4 DEF next_host
  <1>11. ASSUME NEW n \in 0..rows, LoadInterrupted(n) PROVE TInv'
    BY <1>11 DEF LoadInterrupted, MayTry, Interrupt
  <1>12. CASE Drop
    BY <1>12 DEF Drop
  <1>13. CASE Disconnect
    BY <1>13 DEF Disconnect, free_hosts
  <1>14. CASE Reconfigure
    BY <1>14 DEF Reconfigure
  <1>15. CASE Tick
    BY <1>15 DEF Tick, Later
  <1>16. CASE SetClock
    BY <1>16 DEF SetClock
  <1> HIDE DEF TInv
  <1> QED BY <1>1, <1>2, <1>3, <1>4, <1>5, <1>6, <1>7, <1>8, <1>9, <1>10, <1>11,
             <1>12, <1>13, <1>14, <1>15, <1>16 DEF Next, Call, Step

\* The cache, the clocks and the rotation of a brokerstate stay well typed;
\* bs->idx is a valid index whenever there is a list of hosts.
THEOREM TypeCorrect == Spec => []TypeOK
  <1>1. Spec => []TInv
    BY InitType, TypeStep, PTL DEF Spec
  <1> QED BY <1>1, PTL DEF TInv

-----------------------------------------------------------------------------
\* The time of an attempt.

\* A host costs at least a unit of time.
LEMMA CostFacts == /\ HostCost \in Nat \ {0}
                   /\ ConnectTimeout \in Nat /\ HandshakeTimeout \in Nat
  BY FailoverAssumption DEF HostCost

\* What the current host may have cost when the backend stands at p.
CostAt(p) ==
    CASE p = "socket" -> 0
      [] p = "login"  -> ConnectTimeout
      [] p = "open1"  -> ConnectTimeout + HandshakeTimeout
      [] p = "open2"  -> ConnectTimeout + 2 * HandshakeTimeout
      [] p = "select" -> ConnectTimeout + 3 * HandshakeTimeout
      [] p = "next_host" -> HostCost

\* The same, place by place, for the provers.
LEMMA CostAtFacts ==
    /\ CostAt("socket") = 0
    /\ CostAt("login") = ConnectTimeout
    /\ CostAt("open1") = ConnectTimeout + HandshakeTimeout
    /\ CostAt("open2") = ConnectTimeout + 2 * HandshakeTimeout
    /\ CostAt("select") = ConnectTimeout + 3 * HandshakeTimeout
    /\ CostAt("next_host") = ConnectTimeout + 4 * HandshakeTimeout
  BY DEF CostAt, HostCost

\* What the hosts cost that an attempt with t tries left has behind it.
Past(h, t) == (h - t) * HostCost

\* Every host that is left behind adds its cost, and no more.
LEMMA PastFacts ==
  ASSUME NEW h \in Nat, NEW t \in 0..h
  PROVE  /\ Past(h, t) \in Nat
         /\ Past(h, h) = 0
         /\ t > 0 => Past(h, t - 1) = Past(h, t) + HostCost
         /\ Past(h, t) <= h * HostCost
  <1>1. h - t \in Nat /\ HostCost \in Nat
    BY CostFacts
  <1>2. \A a, c \in Nat : a * c \in Nat /\ (a + 1) * c = a * c + c
    OBVIOUS
  <1>3. \A a, b, c \in Nat : a <= b => a * c <= b * c
    OBVIOUS
  <1>4. Past(h, t) \in Nat /\ Past(h, t) <= h * HostCost
    BY <1>1, <1>2, <1>3 DEF Past
  <1>5. Past(h, h) = 0
    BY <1>1 DEF Past
  <1>6. ASSUME t > 0 PROVE Past(h, t - 1) = Past(h, t) + HostCost
    <2>1. h - (t - 1) = (h - t) + 1
      BY <1>6
    <2> QED BY <1>1, <1>2, <2>1 DEF Past
  <1> QED BY <1>4, <1>5, <1>6

\* The hosts left behind, then the current one; and the budget was not
\* exhausted when the current host was picked.
TimeSpent ==
    /\ pc \in {"socket", "next_host"} \cup Handshake =>
         /\ onhost <= CostAt(pc)
         /\ spent <= Past(hosts, tries) + onhost
         /\ Budget > 0 => spent < Budget + onhost
    /\ pc = "pick" =>
         /\ spent <= Past(hosts, tries)
         /\ Budget > 0 => spent < Budget

\* No attempt runs at the start.
LEMMA InitTime == Init => TimeSpent
  BY DEF Init, TimeSpent, Handshake

\* Each of the steps of an attempt accounts for the time it takes.
LEMMA TimeStep == TInv /\ TInv' /\ TimeSpent /\ [Next]_vars => TimeSpent'
  <1> SUFFICES ASSUME TInv, TInv', TimeSpent, [Next]_vars PROVE TimeSpent'
    OBVIOUS
  <1>0. /\ hosts \in Nat /\ tries \in 0..hosts
        /\ hosts' \in Nat /\ tries' \in 0..hosts'
        /\ spent \in Nat /\ onhost \in Nat /\ spent' \in Nat /\ onhost' \in Nat
        /\ pc \in {"idle", "pick", "socket", "next_host"} \cup Handshake
        /\ pc = "idle" => spent = 0
        /\ Budget \in Nat
    BY FailoverAssumption DEF TInv, TypeOK, LoopSound
  <1>00. Past(hosts, tries) \in Nat /\ Past(hosts', tries') \in Nat
    BY <1>0, PastFacts
  <1> USE DEF vars, cacheVars, waitVars, loopVars, upsetVars, TimeSpent, Handshake
  <1>1. CASE UNCHANGED vars
    BY <1>1 DEF Past
  <1>2. CASE pc' = "idle"
    BY <1>2
  <1>3. CASE Attempt
    BY <1>0, <1>3, PastFacts DEF Attempt, MayTry
  <1>4. CASE Pick
    <2>1. CostAt("socket") = 0
      BY CostAtFacts
    <2>2. /\ pc = "pick" /\ pc' = "socket" /\ onhost' = 0
          /\ UNCHANGED <<spent, hosts, tries>>
      BY <1>4 DEF Pick
    <2>3. Past(hosts', tries') = Past(hosts, tries)
      BY <2>2
    <2> QED BY <1>0, <1>00, <2>1, <2>2, <2>3
  <1>5. ASSUME NEW d \in 0..Timeout, Answer(d) \/ Refuse(d) PROVE TimeSpent'
    <2>1. /\ pc \in {"socket"} \cup Handshake
          /\ pc' \in Handshake \cup {"next_host"}
          /\ UNCHANGED <<hosts, tries>>
          /\ spent' = spent + d /\ onhost' = onhost + d
      BY <1>5 DEF Answer, Refuse, Takes
    <2>2. d \in Nat /\ d <= (IF pc = "socket" THEN ConnectTimeout
                                              ELSE HandshakeTimeout)
      BY CostFacts DEF Timeout
    <2>3. onhost' <= CostAt(pc')
      <3>1. onhost <= CostAt(pc)
        BY <2>1
      <3>2. \/ /\ pc = "socket" /\ pc' = "login"
            \/ /\ pc = "login" /\ pc' = "open1"
            \/ /\ pc = "open1" /\ pc' = "open2"
            \/ /\ pc = "open2" /\ pc' = "select"
            \/ pc' = "next_host"
        BY <1>5 DEF Answer, Refuse
      <3> QED BY <1>0, <2>1, <2>2, <3>1, <3>2, CostAtFacts, CostFacts
    <2>4. Past(hosts', tries') = Past(hosts, tries)
      BY <2>1
    <2> QED BY <1>0, <1>00, <2>1, <2>2, <2>3, <2>4
  <1>6. CASE next_host /\ pc' # "idle"
    <2>1. /\ pc = "next_host" /\ pc' = "pick" /\ tries' = tries - 1 /\ tries > 1
          /\ spent' = spent /\ hosts' = hosts /\ ~OutOfBudget
      BY <1>6 DEF next_host, GaveUp, Interrupt
    <2>2. Past(hosts', tries') = Past(hosts, tries) + HostCost
      BY <1>0, <2>1, PastFacts
    <2>3. onhost <= HostCost
      BY <2>1, CostAtFacts DEF HostCost
    <2> QED BY <1>0, <1>00, <2>1, <2>2, <2>3, CostFacts DEF OutOfBudget
  <1>7. CASE Drop \/ Disconnect \/ Tick \/ SetClock
    BY <1>2, <1>7 DEF Drop, Disconnect, Tick, SetClock
  <1>8. CASE Reconfigure
    BY <1>8 DEF Reconfigure, Past
  <1>9. pc' = "idle" \/ ~(NoHosts \/ NoMemory \/ Connected \/ RefuseInterrupted)
    BY DEF NoHosts, NoMemory, Connected, RefuseInterrupted, GaveUp, Interrupt
  <1>10. pc' = "idle" \/ ~ \E n \in 0..rows : LoadInterrupted(n)
    BY DEF LoadInterrupted, Interrupt
  <1> HIDE DEF TimeSpent
  <1> QED BY <1>1, <1>2, <1>3, <1>4, <1>5, <1>6, <1>7, <1>8, <1>9, <1>10
          DEF Next, Call, Step

\* A backend is held up for no longer than the budget and the host it was
\* trying when the budget ran out, and never for longer than all hosts cost.
THEOREM AttemptBoundedCorrect == Spec => []AttemptBounded
  <1>1. TInv /\ TimeSpent => AttemptBounded
    <2> SUFFICES ASSUME TInv, TimeSpent PROVE AttemptBounded
      OBVIOUS
    <2>1. /\ hosts \in Nat /\ spent \in Nat /\ onhost \in Nat /\ Budget \in Nat
          /\ pc \in {"idle", "pick", "socket", "next_host"} \cup Handshake
          /\ pc = "idle" => spent = 0
          /\ pc # "idle" => tries \in 1..hosts
      BY FailoverAssumption DEF TInv, TypeOK, LoopSound
    <2>2. CASE pc = "idle"
      <3>1. hosts * HostCost \in Nat
        BY <2>1, CostFacts
      <3> QED BY <2>1, <2>2, <3>1, CostFacts DEF AttemptBounded
    <2>3. CASE pc # "idle"
      <3>1. /\ Past(hosts, tries) \in Nat
            /\ Past(hosts, tries) + HostCost <= hosts * HostCost
        <4>1. /\ Past(hosts, tries - 1) = Past(hosts, tries) + HostCost
              /\ Past(hosts, tries) \in Nat
          BY <2>1, <2>3, PastFacts
        <4>2. tries - 1 \in 0..hosts
          BY <2>1, <2>3
        <4>3. Past(hosts, tries - 1) <= hosts * HostCost
          BY <2>1, <4>2, PastFacts
        <4> QED BY <4>1, <4>3
      <3>2. \A p \in {"socket", "next_host"} \cup Handshake :
              CostAt(p) \in Nat /\ CostAt(p) <= HostCost
        BY CostAtFacts, CostFacts DEF HostCost, Handshake
      <3>3. /\ spent <= Past(hosts, tries) + HostCost
            /\ Budget > 0 => spent < Budget + HostCost
        BY <2>1, <2>3, <3>1, <3>2, CostFacts DEF TimeSpent
      <3>4. hosts * HostCost \in Nat
        BY <2>1, CostFacts
      <3> QED BY <2>1, <3>1, <3>3, <3>4, CostFacts DEF AttemptBounded
    <2> QED BY <2>2, <2>3
  <1> QED BY <1>1, InitType, TypeStep, InitTime, TimeStep, PTL DEF Spec

-----------------------------------------------------------------------------
\* The backoff.

\* As long as no cancel was taken and the clock was not set forward, the
\* backend never believes that a failure is older than it is.
FailureRemembered ==
    cancels = 0 /\ clock # "forward" =>
      \/ quiet = Never
      \/ since # Never /\ (quiet >= Base \/ quiet >= since)

\* Nothing has failed yet.
LEMMA InitBackoff == Init => FailureRemembered
  BY DEF Init, FailureRemembered

\* Failures are recorded, and time passes for the backend as it does outside.
LEMMA BackoffStep ==
  TInv /\ FailureRemembered /\ [Next]_vars => FailureRemembered'
  <1> SUFFICES ASSUME TInv, FailureRemembered, [Next]_vars
               PROVE  FailureRemembered'
    OBVIOUS
  <1>0. /\ since \in (-MaxBack)..Never /\ quiet \in 0..Never
        /\ cancels \in 0..MaxCancels /\ MaxCancels \in Nat
    BY FailoverAssumption DEF TInv, TypeOK
  <1> USE DEF vars, cacheVars, waitVars, loopVars, upsetVars, FailureRemembered
  <1> USE DEF Never, LongAgo, Cap, Base, MaxBack
  <1>1. CASE UNCHANGED waitVars /\ UNCHANGED upsetVars
    BY <1>1
  <1>2. CASE GaveUp
    BY <1>0, <1>2 DEF GaveUp
  <1>3. CASE Interrupt
    BY <1>0, <1>3 DEF Interrupt
  <1>4. CASE Connected \/ Disconnect
    BY <1>4 DEF Connected, Disconnect
  <1>5. CASE Tick
    BY <1>0, <1>5 DEF Tick, Later, Smaller
  <1>6. CASE SetClock
    BY <1>0, <1>6 DEF SetClock
  <1>7. CASE Attempt \/ Pick \/ Drop \/ Reconfigure
             \/ \E d \in 0..Timeout : Answer(d) \/ Refuse(d)
    BY <1>1, <1>7 DEF Attempt, Pick, Drop, Reconfigure, Answer, Refuse
  <1>8. CASE NoHosts \/ NoMemory
    BY <1>2, <1>8 DEF NoHosts, NoMemory
  <1>9. CASE RefuseInterrupted \/ \E n \in 0..rows : LoadInterrupted(n)
    BY <1>3, <1>9 DEF RefuseInterrupted, LoadInterrupted
  <1>10. CASE next_host
    BY <1>1, <1>2, <1>3, <1>10 DEF next_host
  <1>11. CASE UNCHANGED vars
    BY <1>1, <1>11
  <1> HIDE DEF FailureRemembered
  <1> QED BY <1>4, <1>5, <1>6, <1>7, <1>8, <1>9, <1>10, <1>11 DEF Next, Call, Step

\* An attempt that failed keeps the next one away for at least
\* AMQP_RECONNECT_BACKOFF_BASE_SEC seconds, for every process id and number of
\* failures, unless a cancel or a clock set forward hides the failure.
THEOREM NoEarlyRetryCorrect == Spec => NoEarlyRetry
  <1>1. ASSUME TInv, FailureRemembered, [Next]_vars, pc = "idle", pc' # "idle",
               cancels = 0, clock # "forward"
        PROVE  quiet = Never \/ quiet >= Base
    <2>1. Attempt
      <3>1. ~(NoHosts \/ Drop \/ Disconnect \/ Reconfigure \/ Tick \/ SetClock)
        BY <1>1 DEF NoHosts, GaveUp, Drop, Disconnect, Reconfigure, Tick, SetClock,
                    loopVars
      <3>2. ~ \E n \in 0..rows : LoadInterrupted(n)
        BY <1>1 DEF LoadInterrupted, Interrupt
      <3>3. ~Step
        BY <1>1 DEF Step, Pick, NoMemory, Answer, Refuse, Connected,
                    RefuseInterrupted, next_host, Handshake
      <3>4. ~UNCHANGED vars
        BY <1>1 DEF vars, loopVars
      <3> QED BY <1>1, <3>1, <3>2, <3>3, <3>4 DEF Next, Call
    <2>2. since # Never => since >= Backoff(cf)
      BY <2>1 DEF Attempt, MayTry
    <2>3. cf \in 0..ManyFailures /\ since \in Int /\ quiet \in Int
      BY <1>1 DEF TInv, TypeOK, MaxBack, Never, LongAgo, Cap, Base
    <2>4. Backoff(cf) \in Int /\ Backoff(cf) >= Base
      BY <2>3, BackoffAtLeastBase
    <2> QED BY <1>1, <2>2, <2>3, <2>4 DEF FailureRemembered, Base
  <1> QED BY <1>1, InitType, TypeStep, InitBackoff, BackoffStep, PTL
          DEF Spec, NoEarlyRetry

-----------------------------------------------------------------------------
\* The rotation.

\* The host k places before idx in the rotation over h hosts.
Before(h, i, k) == IF k <= i THEN i - k ELSE i - k + h

\* A stretch of the rotation that ends with host i.
Stretch(h, i, r) ==
    /\ Len(r) <= h
    /\ \A k \in 1..Len(r) : r[k] = Before(h, i, Len(r) - k)

\* The history is the last stretch of the rotation, up to bs->idx.
InRotation == Stretch(hosts, idx, recent)

\* No host has been tried.
LEMMA InitRotation == Init => InRotation
  BY FailoverAssumption DEF Init, InRotation, Stretch

\* Trying the next host moves the stretch on by one.
LEMMA RotationMoves ==
  ASSUME NEW r \in Seq(Nat), NEW h \in Nat, NEW i \in Nat, i < h,
         Stretch(h, i, r)
  PROVE  Stretch(h, NextIdx(i, h), LastOnes(Append(r, NextIdx(i, h)), h))
  <1> DEFINE j == NextIdx(i, h)
             q == LastOnes(Append(r, j), h)
  <1>0. /\ Len(r) <= h
        /\ \A k \in 1..Len(r) : r[k] = Before(h, i, Len(r) - k)
    BY DEF Stretch
  <1>1. j \in Nat /\ j = (IF i + 1 = h THEN 0 ELSE i + 1)
    BY NextIdxFacts
  <1> HIDE DEF j
  <1> DEFINE a == Append(r, j)
  <1>2. /\ a \in Seq(Nat) /\ Len(r) \in Nat /\ Len(a) = Len(r) + 1
        /\ a[Len(a)] = j /\ \A k \in 1..Len(r) : a[k] = r[k]
    BY <1>1
  <1>3. \A k \in 1..Len(a) : Len(a) - k < h => a[k] = Before(h, j, Len(a) - k)
    <2> SUFFICES ASSUME NEW k \in 1..Len(a), Len(a) - k < h
                 PROVE  a[k] = Before(h, j, Len(a) - k)
      OBVIOUS
    <2> HIDE DEF a
    <2>1. CASE k = Len(a)
      BY <1>1, <1>2, <2>1 DEF Before
    <2>2. CASE k # Len(a)
      <3>1. k \in 1..Len(r)
        BY <1>2, <2>2
      <3>2. a[k] = r[k] /\ r[k] = Before(h, i, Len(r) - k)
        BY <1>0, <1>2, <3>1, Zenon
      <3>3. Before(h, i, Len(r) - k) = Before(h, j, Len(a) - k)
        <4> DEFINE m == Len(r) - k
        <4>1. m \in Nat /\ Len(a) - k = m + 1 /\ m + 1 < h
          BY <1>2, <3>1
        <4> HIDE DEF m
        <4>2. Before(h, i, m) = Before(h, j, m + 1)
          BY <1>1, <4>1 DEF Before
        <4> QED BY <4>1, <4>2 DEF m
      <3> QED BY <3>2, <3>3
    <2> QED BY <2>1, <2>2
  <1> HIDE DEF a, q
  <1>4. ASSUME Len(a) <= h PROVE Stretch(h, j, q)
    <2>1. q = a
      BY <1>2, <1>4 DEF LastOnes, a, q
    <2>2. \A k \in 1..Len(a) : Len(a) - k < h
      BY <1>2, <1>4
    <2> QED BY <1>3, <1>4, <2>1, <2>2, Zenon DEF Stretch
  <1>5. ASSUME Len(a) > h PROVE Stretch(h, j, q)
    <2>1. q = SubSeq(a, Len(a) - h + 1, Len(a))
      BY <1>2, <1>5 DEF LastOnes, a, q
    <2> DEFINE m == Len(a) - h
    <2>2. m \in Nat /\ Len(a) \in Nat /\ Len(a) = m + h
      BY <1>2, <1>5
    <2>3. q = SubSeq(a, m + 1, m + h)
      BY <2>1, <2>2
    <2> HIDE DEF m
    <2>4. Len(q) = h
      BY <1>2, <2>2, <2>3
    <2>5. \A k \in 1..h : q[k] = a[m + k]
      BY <1>2, <2>2, <2>3
    <2>6. ASSUME NEW k \in 1..h PROVE q[k] = Before(h, j, h - k)
      <3>1. m + k \in 1..Len(a) /\ Len(a) - (m + k) = h - k /\ h - k < h
        BY <2>2
      <3>2. a[m + k] = Before(h, j, Len(a) - (m + k))
        BY <1>3, <3>1
      <3> QED BY <2>5, <3>1, <3>2
    <2> QED BY <2>4, <2>6 DEF Stretch
  <1>6. Stretch(h, j, q)
    BY <1>2, <1>4, <1>5
  <1> QED BY <1>6 DEF q, j

\* Only trying a host and freeing the list touch the rotation.
LEMMA RotationStep == TInv /\ InRotation /\ [Next]_vars => InRotation'
  <1> SUFFICES ASSUME TInv, InRotation, [Next]_vars PROVE InRotation'
    OBVIOUS
  <1>0. /\ hosts \in Nat /\ idx \in Nat /\ recent \in Seq(Nat)
        /\ pc # "idle" => hosts > 0
        /\ hosts > 0 => idx < hosts
        /\ hosts = 0 => recent = << >>
        /\ rows \in Nat
    BY FailoverAssumption DEF TInv, TypeOK, LoopSound
  <1> USE DEF vars, cacheVars, waitVars, loopVars, upsetVars
  <1>1. CASE UNCHANGED <<hosts, idx, recent>>
    BY <1>1 DEF InRotation
  <1>2. CASE recent' = << >> /\ hosts' \in Nat
    BY <1>2 DEF InRotation, Stretch
  <1>3. CASE Pick \/ NoMemory
    <2>1. /\ hosts > 0 /\ hosts' = hosts /\ idx' = NextIdx(idx, hosts)
          /\ recent' = LastOnes(Append(recent, idx'), hosts)
      BY <1>0, <1>3 DEF Pick, NoMemory
    <2> QED BY <1>0, <2>1, RotationMoves DEF InRotation
  <1>4. CASE Attempt
    BY <1>0, <1>1, <1>2, <1>4 DEF Attempt
  <1>5. ASSUME NEW n \in 0..rows, LoadInterrupted(n) PROVE InRotation'
    BY <1>0, <1>2, <1>5 DEF LoadInterrupted
  <1>6. CASE Disconnect
    BY <1>2, <1>6 DEF Disconnect, free_hosts
  <1>7. CASE NoHosts \/ Connected \/ RefuseInterrupted \/ next_host \/ Drop
             \/ Reconfigure \/ Tick \/ SetClock
             \/ \E d \in 0..Timeout : Answer(d) \/ Refuse(d)
    BY <1>1, <1>7 DEF NoHosts, Connected, RefuseInterrupted, next_host, Drop,
                      Reconfigure, Tick, SetClock, Answer, Refuse
  <1>8. CASE UNCHANGED vars
    BY <1>1, <1>8
  <1> QED BY <1>3, <1>4, <1>5, <1>6, <1>7, <1>8 DEF Next, Call, Step

\* However many hosts there are, each of the others is tried before a host is
\* tried again: bs->idx survives budgets, drops and failed attempts.
THEOREM HostsRotateCorrect == Spec => []HostsRotate
  <1>1. TInv /\ InRotation => HostsRotate
    <2> SUFFICES ASSUME TInv, InRotation, NEW i \in 1..Len(recent),
                        NEW j \in 1..Len(recent), recent[i] = recent[j]
                 PROVE  i = j
      BY DEF HostsRotate
    <2>1. /\ hosts \in Nat /\ idx \in Nat /\ Len(recent) \in Nat
          /\ hosts > 0 => idx < hosts
          /\ Len(recent) <= hosts
      BY FailoverAssumption DEF TInv, TypeOK, InRotation, Stretch
    <2>2. Before(hosts, idx, Len(recent) - i) = Before(hosts, idx, Len(recent) - j)
      BY DEF InRotation, Stretch
    <2> QED BY <2>1, <2>2 DEF Before
  <1> QED BY <1>1, InitType, TypeStep, InitRotation, RotationStep, PTL DEF Spec
=============================================================================
