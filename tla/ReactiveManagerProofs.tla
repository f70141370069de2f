------------------------ MODULE ReactiveManagerProofs ------------------------
(***************************************************************************)
(* At most MaxSpawns investigations an hour, and no threshold rule fires   *)
(* for fewer entries than it asks for, for every set of rules, every       *)
(* number of threads and every limit.                                      *)
(*                                                                         *)
(* Both rest on the same fact about a deque: what is only appended to at   *)
(* one end and popped from the other is the end of all that was appended.  *)
(* SpawnLimit needs that the times only grow, ThresholdSound that they     *)
(* grow, so that popleft() stops at the first that is within the window.   *)
(*                                                                         *)
(* Of the sequences, no occurrence stands unnoticed after the last match:  *)
(* the buffer has every entry that such an occurrence could use, and the   *)
(* search finds the earliest (SequenceProofs). That no entry is used twice *)
(* needs entries in the order of their times (Skew = 0, as in the run      *)
(* reactive_notify); with late entries it is false (reactive_consumed).    *)
(***************************************************************************)
EXTENDS ReactiveManager, SequenceProofs, SequenceTheorems

\* The deque holds the newest spawns, as many of them as it has room for.
DequeIsNewest ==
  /\ Len(spawnTimes) = IF Len(spawns) < MaxSpawns THEN Len(spawns) ELSE MaxSpawns
  /\ \A i \in 1..Len(spawnTimes) :
       spawnTimes[i] = spawns[Len(spawns) - Len(spawnTimes) + i]

SpawnInv ==
  /\ now \in Nat /\ spawns \in Seq(Nat) /\ spawnTimes \in Seq(Nat)
  /\ DequeIsNewest
  /\ SpawnLimit

\* Initially nothing was spawned (__init__ leaves an empty deque).
LEMMA SpawnInvInit == Init => SpawnInv
<1> SUFFICES ASSUME Init PROVE SpawnInv
  OBVIOUS
<1>1. now = 1 /\ spawns = <<>> /\ spawnTimes = <<>>
  BY DEF Init
<1>2. MaxSpawns \in Nat \ {0}
  BY LimitAssumption
<1> QED
  BY <1>1, <1>2, SMT DEF SpawnInv, DequeIsNewest, SpawnLimit

\* Counting a spawn: the deque drops its oldest time, and the new spawn is an
\* hour after the one MaxSpawns before it, since AtLimit looked at that one.
LEMMA SpawnInvCounted == SpawnInv /\ SpawnCounted => SpawnInv'
<1> SUFFICES ASSUME SpawnInv, SpawnCounted PROVE SpawnInv'
  OBVIOUS
<1>1. MaxSpawns \in Nat \ {0} /\ Hour \in Nat
  BY LimitAssumption
<1>2. /\ now \in Nat /\ now' = now
      /\ spawns \in Seq(Nat) /\ spawnTimes \in Seq(Nat)
  BY DEF SpawnInv, SpawnCounted, clockVars
<1>3. spawns' = Append(spawns, now) /\ spawnTimes' = PushSpawn(now)
  BY DEF SpawnCounted
<1>4. Len(spawns') = Len(spawns) + 1 /\ spawns' \in Seq(Nat)
  BY <1>2, <1>3
<1>5. spawnTimes' \in Seq(Nat) /\ DequeIsNewest'
  <2>1. CASE Len(spawnTimes) = MaxSpawns
    <3>1. spawnTimes' = Append(Tail(spawnTimes), now)
      BY <2>1, <1>3 DEF PushSpawn
    <3>2. Tail(spawnTimes) \in Seq(Nat) /\ Len(Tail(spawnTimes)) = MaxSpawns - 1
      BY <2>1, <1>1, <1>2
    <3>3. \A i \in 1..(MaxSpawns - 1) : Tail(spawnTimes)[i] = spawnTimes[i + 1]
      BY <2>1, <1>1, <1>2
    <3>4. Len(spawns) >= MaxSpawns
      BY <2>1, <1>1, <1>2 DEF SpawnInv, DequeIsNewest
    <3>5. spawnTimes' \in Seq(Nat) /\ Len(spawnTimes') = MaxSpawns
      BY <3>1, <3>2, <1>1, <1>2
    <3>6. ASSUME NEW i \in 1..(MaxSpawns - 1)
          PROVE  spawnTimes'[i] = spawns'[Len(spawns') - MaxSpawns + i]
      <4>1. spawnTimes'[i] = spawnTimes[i + 1]
        BY <3>1, <3>2, <3>3, <1>1, <1>2
      <4>2. spawnTimes[i + 1] = spawns[Len(spawns) - MaxSpawns + (i + 1)]
        <5>1. i + 1 \in 1..Len(spawnTimes)
          BY <2>1, <1>1
        <5>2. spawnTimes[i + 1] = spawns[Len(spawns) - Len(spawnTimes) + (i + 1)]
          BY <5>1 DEF SpawnInv, DequeIsNewest
        <5> QED
          BY <5>2, <2>1
      <4>3. Len(spawns) - MaxSpawns + (i + 1) \in 1..Len(spawns)
        BY <3>4, <1>1, <1>2
      <4>4. Len(spawns') - MaxSpawns + i = Len(spawns) - MaxSpawns + (i + 1)
        BY <1>1, <1>2, <1>4
      <4>5. \A k \in 1..Len(spawns) : spawns'[k] = spawns[k]
        BY <1>2, <1>3
      <4> QED
        BY <4>1, <4>2, <4>3, <4>4, <4>5
    <3>7. spawnTimes'[MaxSpawns] = now /\ spawns'[Len(spawns')] = now
      BY <3>1, <3>2, <1>1, <1>2, <1>3, <1>4
    <3>8. \A i \in 1..MaxSpawns : spawnTimes'[i] = spawns'[Len(spawns') - MaxSpawns + i]
      <4> SUFFICES ASSUME NEW i \in 1..MaxSpawns
                   PROVE  spawnTimes'[i] = spawns'[Len(spawns') - MaxSpawns + i]
        OBVIOUS
      <4>1. CASE i = MaxSpawns
        <5>1. Len(spawns') - MaxSpawns + i = Len(spawns')
          BY <4>1, <1>1, <1>2, <1>4
        <5> QED
          BY <4>1, <5>1, <3>7
      <4>2. CASE i # MaxSpawns
        <5>1. i \in 1..(MaxSpawns - 1)
          BY <4>2, <1>1
        <5> QED
          BY <5>1, <3>6
      <4> QED
        BY <4>1, <4>2
    <3>9. ~(Len(spawns') < MaxSpawns)
      BY <3>4, <1>1, <1>2, <1>4
    <3> QED
      BY <3>5, <3>8, <3>9 DEF DequeIsNewest
  <2>2. CASE Len(spawnTimes) # MaxSpawns
    <3>1. spawnTimes' = Append(spawnTimes, now)
      BY <2>2, <1>3 DEF PushSpawn
    <3>2. Len(spawnTimes) = Len(spawns) /\ Len(spawns) < MaxSpawns
      BY <2>2, <1>1, <1>2 DEF SpawnInv, DequeIsNewest
    <3>3. spawnTimes' \in Seq(Nat) /\ Len(spawnTimes') = Len(spawns')
      BY <3>1, <3>2, <1>2, <1>4
    <3>4. \A i \in 1..Len(spawns) : spawnTimes[i] = spawns[i]
      <4> SUFFICES ASSUME NEW i \in 1..Len(spawns) PROVE spawnTimes[i] = spawns[i]
        OBVIOUS
      <4>1. spawnTimes[i] = spawns[Len(spawns) - Len(spawnTimes) + i]
        BY <3>2 DEF SpawnInv, DequeIsNewest
      <4>2. Len(spawns) - Len(spawnTimes) + i = i
        BY <3>2, <1>2
      <4> QED
        BY <4>1, <4>2
    <3>5. \A i \in 1..Len(spawns') : spawnTimes'[i] = spawns'[i]
      <4> SUFFICES ASSUME NEW i \in 1..Len(spawns')
                   PROVE  spawnTimes'[i] = spawns'[i]
        OBVIOUS
      <4>1. CASE i \in 1..Len(spawns)
        <5>1. i \in 1..Len(spawnTimes)
          BY <4>1, <3>2
        <5>2. spawnTimes'[i] = spawnTimes[i]
          BY <5>1, <3>1, <1>2
        <5>3. spawns'[i] = spawns[i]
          BY <4>1, <1>2, <1>3
        <5> QED
          BY <4>1, <5>2, <5>3, <3>4
      <4>2. CASE i = Len(spawns) + 1
        <5>1. spawnTimes'[Len(spawnTimes) + 1] = now
          BY <3>1, <1>2
        <5>2. spawns'[Len(spawns) + 1] = now
          BY <1>2, <1>3
        <5> QED
          BY <4>2, <5>1, <5>2, <3>2
      <4> QED
        BY <4>1, <4>2, <1>2, <1>4
    <3>6. \A i \in 1..Len(spawns') : Len(spawns') - Len(spawnTimes') + i = i
      BY <3>3, <1>4
    <3>7. Len(spawns') < MaxSpawns \/ Len(spawns') = MaxSpawns
      BY <3>2, <1>1, <1>2, <1>4
    <3> QED
      <4>1. Len(spawnTimes') = IF Len(spawns') < MaxSpawns THEN Len(spawns') ELSE MaxSpawns
        BY <3>3, <3>7
      <4>2. \A i \in 1..Len(spawnTimes') :
              spawnTimes'[i] = spawns'[Len(spawns') - Len(spawnTimes') + i]
        BY <3>3, <3>5, <3>6
      <4> QED
        BY <3>3, <4>1, <4>2 DEF DequeIsNewest
  <2> QED
    BY <2>1, <2>2
<1>6. SpawnLimit'
  <2> SUFFICES ASSUME NEW i \in 1..(Len(spawns') - MaxSpawns)
               PROVE  spawns'[i + MaxSpawns] - spawns'[i] >= Hour
    BY DEF SpawnLimit
  <2>1. CASE i + MaxSpawns <= Len(spawns)
    BY <2>1, <1>1, <1>2, <1>3, <1>4 DEF SpawnInv, SpawnLimit
  <2>2. CASE i + MaxSpawns = Len(spawns) + 1
    <3>1. Len(spawnTimes) = MaxSpawns
      BY <2>2, <1>1, <1>2 DEF SpawnInv, DequeIsNewest
    <3>2. spawnTimes[1] = spawns[i]
      <4>1. spawnTimes[1] = spawns[Len(spawns) - Len(spawnTimes) + 1]
        <5>1. 1 \in 1..Len(spawnTimes)
          BY <3>1, <1>1
        <5> QED
          BY <5>1 DEF SpawnInv, DequeIsNewest
      <4>2. Len(spawns) - Len(spawnTimes) + 1 = i
        BY <3>1, <2>2, <1>1, <1>2
      <4> QED
        BY <4>1, <4>2
    <3>3. now - spawnTimes[1] >= Hour
      <4>1. spawnTimes[1] \in Nat
        BY <3>1, <1>1, <1>2
      <4>2. ~(now - spawnTimes[1] < Hour)
        BY <3>1, <1>1 DEF SpawnCounted, AtLimit
      <4> QED
        BY <4>1, <4>2, <1>1, <1>2
    <3>4. spawns'[i] = spawns[i] /\ spawns'[i + MaxSpawns] = now
      BY <2>2, <1>1, <1>2, <1>3
    <3> QED
      BY <3>2, <3>3, <3>4
  <2>3. i + MaxSpawns <= Len(spawns) \/ i + MaxSpawns = Len(spawns) + 1
    <3>1. Len(spawns) \in Nat
      BY <1>2
    <3> QED
      BY <3>1, <1>1, <1>4
  <2> QED
    BY <2>1, <2>2, <2>3
<1> QED
  BY <1>2, <1>4, <1>5, <1>6 DEF SpawnInv

\* Every step keeps it: nothing else touches the deque, and time goes on.
LEMMA SpawnInvNext == SpawnInv /\ [Next]_vars => SpawnInv'
<1> SUFFICES ASSUME SpawnInv, [Next]_vars PROVE SpawnInv'
  OBVIOUS
<1>1. CASE SpawnCounted
  BY <1>1, SpawnInvCounted
<1>2. CASE Tick
  BY <1>2 DEF Tick, SpawnInv, DequeIsNewest, SpawnLimit
<1>3. CASE UNCHANGED <<now, spawns, spawnTimes>>
  BY <1>3 DEF SpawnInv, DequeIsNewest, SpawnLimit
<1>4. ASSUME Next, ~SpawnCounted, ~Tick PROVE UNCHANGED <<now, spawns, spawnTimes>>
  <2>1. CASE OthersLog
    BY <2>1 DEF OthersLog
  <2>2. CASE BreakChain
    BY <2>2 DEF BreakChain
  <2>3. CASE Evaluate
    BY <2>3 DEF Evaluate, clockVars
  <2>4. CASE Notify
    BY <2>4 DEF Notify, clockVars
  <2>5. CASE SpawnRefused
    BY <2>5 DEF SpawnRefused, clockVars
  <2>6. CASE Submit
    BY <2>6 DEF Submit
  <2>7. CASE SubmitFails
    BY <2>7 DEF SubmitFails
  <2>8. ASSUME NEW w \in Worker, Work(w) PROVE UNCHANGED <<now, spawns, spawnTimes>>
    BY <2>8 DEF Work, TakeJob, CircuitBreak, FinishJob, clockVars
  <2>9. CASE Shutdown
    BY <2>9 DEF Shutdown, clockVars
  <2> QED
    BY <1>4, <2>1, <2>2, <2>3, <2>4, <2>5, <2>6, <2>7, <2>8, <2>9 DEF Next, Watch
<1>5. CASE UNCHANGED vars
  BY <1>3, <1>5 DEF vars, clockVars
<1> QED
  BY <1>1, <1>2, <1>3, <1>4, <1>5

\* Of the investigations _handle_investigate starts, over all rules, any
\* MaxSpawns + 1 in a row span an hour.
THEOREM SpawnsLimited == Spec => []SpawnLimit
<1>1. SpawnInv => SpawnLimit
  BY DEF SpawnInv
<1> QED
  BY <1>1, SpawnInvInit, SpawnInvNext, PTL DEF Spec

-----------------------------------------------------------------------------
(* ---- what a threshold counts ---------------------------------------------- *)

Rising(s) == \A i, j \in 1..Len(s) : i <= j => s[i] <= s[j]
UpTo(s, t) == \A i \in 1..Len(s) : s[i] <= t

\* A deque that was only appended to and popped from is the end of all.
Newest(s, all) ==
  /\ Len(s) <= Len(all)
  /\ \A i \in 1..Len(s) : s[i] = all[Len(all) - Len(s) + i]

WindowInv ==
  /\ now \in Nat
  /\ windows \in [RuleIds -> Seq(Nat)]
  /\ unfired \in [RuleIds -> Seq(Nat)]
  /\ \A r \in RuleIds : Rising(unfired[r]) /\ UpTo(unfired[r], now)
  /\ \A r \in RuleIds : IsThreshold(r) => Newest(windows[r], unfired[r])

\* Windows and counts are numbers.
LEMMA RuleWindow == \A r \in RuleIds : Rules[r].window \in Int /\ Rules[r].count \in Nat
<1> SUFFICES ASSUME NEW r \in 1..Len(Rules) PROVE Rules[r].window \in Int /\ Rules[r].count \in Nat
  BY DEF RuleIds
<1>1. Rules[r] \in Rule
  BY LimitAssumption
<1> QED
  BY <1>1 DEF Rule, Unparsed

\* The end of the end is the end; the same appended to both keeps it so.
LEMMA NewestOf ==
  ASSUME NEW s \in Seq(Nat), NEW t \in Seq(Nat), NEW u \in Seq(Nat), NEW x \in Nat
  PROVE  /\ Newest(s, t) /\ Newest(t, u) => Newest(s, u)
         /\ Newest(s, t) => Newest(Append(s, x), Append(t, x))
         /\ Newest(<<>>, t)
<1>1. Len(s) \in Nat /\ Len(t) \in Nat /\ Len(u) \in Nat
  OBVIOUS
<1>2. ASSUME Newest(s, t), Newest(t, u) PROVE Newest(s, u)
  <2>1. Len(s) <= Len(u)
    BY <1>1, <1>2 DEF Newest
  <2>2. ASSUME NEW i \in 1..Len(s) PROVE s[i] = u[Len(u) - Len(s) + i]
    <3>1. s[i] = t[Len(t) - Len(s) + i]
      BY <1>2 DEF Newest
    <3> PICK j : j = Len(t) - Len(s) + i
      OBVIOUS
    <3>2. j \in 1..Len(t) /\ Len(u) - Len(t) + j = Len(u) - Len(s) + i
      BY <1>1, <1>2 DEF Newest
    <3>3. t[j] = u[Len(u) - Len(t) + j]
      BY <1>2, <3>2 DEF Newest
    <3> QED
      BY <3>1, <3>2, <3>3
  <2> QED
    BY <2>1, <2>2 DEF Newest
<1>3. ASSUME Newest(s, t) PROVE Newest(Append(s, x), Append(t, x))
  <2> PICK a : a = Append(s, x)
    OBVIOUS
  <2> PICK b : b = Append(t, x)
    OBVIOUS
  <2>1. /\ Len(a) = Len(s) + 1 /\ Len(b) = Len(t) + 1 /\ a[Len(s) + 1] = x /\ b[Len(t) + 1] = x
        /\ \A i \in 1..Len(s) : a[i] = s[i]
        /\ \A i \in 1..Len(t) : b[i] = t[i]
    OBVIOUS
  <2>2. Len(s) <= Len(t)
    BY <1>3 DEF Newest
  <2>3. ASSUME NEW i \in 1..Len(a) PROVE a[i] = b[Len(b) - Len(a) + i]
    <3>1. CASE i = Len(s) + 1
      BY <1>1, <2>1, <3>1
    <3>2. CASE i # Len(s) + 1
      <4>1. i \in 1..Len(s)
        BY <1>1, <2>1, <3>2
      <4>2. a[i] = t[Len(t) - Len(s) + i]
        BY <1>3, <2>1, <4>1 DEF Newest
      <4> PICK j : j = Len(t) - Len(s) + i
        OBVIOUS
      <4>3. j \in 1..Len(t) /\ j = Len(b) - Len(a) + i
        BY <1>1, <2>1, <2>2, <4>1
      <4> QED
        BY <2>1, <4>2, <4>3
    <3> QED
      BY <3>1, <3>2
  <2>4. Len(a) <= Len(b)
    BY <1>1, <2>1, <2>2
  <2>5. Newest(a, b)
    BY <2>3, <2>4 DEF Newest
  <2> QED
    BY <2>5
<1>4. Newest(<<>>, t)
  BY <1>1 DEF Newest
<1> QED
  BY <1>2, <1>3, <1>4

\* Rising is kept by popping from the front.
LEMMA NewestRises ==
  ASSUME NEW s \in Seq(Nat), NEW t \in Seq(Nat), Newest(s, t), Rising(t)
  PROVE  Rising(s)
<1>1. Len(s) \in Nat /\ Len(t) \in Nat /\ Len(s) <= Len(t)
  BY DEF Newest
<1> SUFFICES ASSUME NEW i \in 1..Len(s), NEW j \in 1..Len(s), i <= j PROVE s[i] <= s[j]
  BY DEF Rising
<1> PICK k : k = Len(t) - Len(s) + i
  OBVIOUS
<1> PICK l : l = Len(t) - Len(s) + j
  OBVIOUS
<1>2. k \in 1..Len(t) /\ l \in 1..Len(t) /\ k <= l
  BY <1>1
<1>3. s[i] = t[k] /\ s[j] = t[l]
  BY DEF Newest
<1> QED
  BY <1>2, <1>3 DEF Rising

\* From any place on a sequence is its end.
LEMMA EndOf ==
  ASSUME NEW s \in Seq(Nat), NEW m \in 1..Len(s), NEW c, \A k \in m..Len(s) : s[k] >= c
  PROVE  LET t == SubSeq(s, m, Len(s))
         IN t \in Seq(Nat) /\ Newest(t, s) /\ \A i \in 1..Len(t) : t[i] >= c
<1> PICK n : n = Len(s)
  OBVIOUS
<1> PICK l : l = n - m + 1
  OBVIOUS
<1> PICK t : t = SubSeq(s, m, n)
  OBVIOUS
<1>1. m \in Nat /\ n \in Nat /\ 1 <= m /\ m <= n /\ l \in Nat /\ l <= n
  OBVIOUS
<1>2. m \in Int /\ n \in Int /\ \A i \in m..n : s[i] \in Nat
  BY <1>1
<1>3. /\ t \in Seq(Nat) /\ Len(t) = IF m <= n THEN n - m + 1 ELSE 0
      /\ \A i \in 1..(n - m + 1) : t[i] = s[m + i - 1]
  BY <1>2, SubSeqProperties
<1>4. Len(t) = l /\ \A i \in 1..l : t[i] = s[m + i - 1]
  BY <1>1, <1>3
<1>5. ASSUME NEW i \in 1..l PROVE m + i - 1 \in m..n /\ n - l + i = m + i - 1
  BY <1>1
<1>6. Newest(t, s)
  BY <1>1, <1>4, <1>5 DEF Newest
<1>7. \A i \in 1..l : t[i] >= c
  BY <1>4, <1>5
<1> QED
  BY <1>3, <1>4, <1>6, <1>7

\* What popleft() leaves is the end of the times, and all of it in the window.
LEMMA InWindowIsNewest ==
  ASSUME now \in Nat, NEW r \in RuleIds, NEW s \in Seq(Nat), Rising(s)
  PROVE  /\ InWindow(r, s) \in Seq(Nat) /\ Newest(InWindow(r, s), s)
         /\ \A i \in 1..Len(InWindow(r, s)) : InWindow(r, s)[i] >= now - Rules[r].window
<1> PICK c : c = now - Rules[r].window
  OBVIOUS
<1> PICK n : n = Len(s)
  OBVIOUS
<1> DEFINE kept == {i \in 1..n : s[i] >= c}
<1>1. c \in Int /\ n \in Nat /\ DOMAIN s = 1..n /\ \A i \in 1..n : s[i] \in Nat
  BY RuleWindow
<1>2. InWindow(r, s) = IF kept = {} THEN <<>> ELSE SubSeq(s, Min(kept), n)
  BY <1>1 DEF InWindow
<1>3. CASE kept = {}
  BY <1>1, <1>2, <1>3, NewestOf
<1>4. CASE kept # {}
  <2>1. kept \subseteq Nat
    BY <1>1
  <2> PICK m \in kept : m = Min(kept)
    BY <1>4, <2>1, Least
  <2>2. m \in 1..n /\ s[m] >= c
    OBVIOUS
  <2>3. InWindow(r, s) = SubSeq(s, m, n)
    BY <1>2, <1>4
  <2>4. ASSUME NEW k \in m..n PROVE s[k] >= c
    <3>1. k \in 1..n /\ m <= k
      BY <1>1, <2>2
    <3>2. s[m] <= s[k] /\ s[m] \in Nat /\ s[k] \in Nat
      BY <1>1, <2>2, <3>1 DEF Rising
    <3> QED
      BY <1>1, <2>2, <3>2
  <2> QED
    BY <2>2, <2>3, <2>4, EndOf
<1> QED
  BY <1>3, <1>4

\* The entries of the window are among those the rule has not fired for.
LEMMA EnoughUnfired ==
  ASSUME NEW c \in Int, NEW s \in Seq(Nat), NEW all \in Seq(Nat), Newest(s, all),
         \A i \in 1..Len(s) : s[i] >= c
  PROVE  LET found == {i \in DOMAIN all : all[i] >= c}
         IN Cardinality(found) \in Nat /\ Cardinality(found) >= Len(s)
<1> PICK n : n = Len(all)
  OBVIOUS
<1> PICK m : m = Len(s)
  OBVIOUS
<1> DEFINE found == {i \in DOMAIN all : all[i] >= c}
           last == (n - m + 1)..n
<1>1. n \in Nat /\ m \in Nat /\ m <= n /\ DOMAIN all = 1..n
  BY DEF Newest
<1>2. IsFiniteSet(found)
  <2>1. IsFiniteSet(1..n)
    BY <1>1, FS_Interval
  <2>2. found \in SUBSET (1..n)
    BY <1>1
  <2> QED
    BY <2>1, <2>2, FS_Subset
<1>3. last \subseteq found
  <2> SUFFICES ASSUME NEW k \in last PROVE k \in found
    OBVIOUS
  <2> PICK i : i = k - (n - m)
    OBVIOUS
  <2>1. i \in 1..m /\ n - m + i = k /\ k \in 1..n
    BY <1>1
  <2>2. all[k] = s[i]
    BY <2>1 DEF Newest
  <2> QED
    BY <1>1, <2>1, <2>2
<1>4. Cardinality(last) = m
  <2> PICK k : k = n - m + 1
    OBVIOUS
  <2>1. k \in Int /\ n \in Int
    BY <1>1
  <2>2. Cardinality(k..n) = IF k > n THEN 0 ELSE n - k + 1
    BY <2>1, FS_Interval
  <2> QED
    BY <1>1, <2>1, <2>2
<1>5. Cardinality(found) \in Nat
  BY <1>2, FS_CardinalityType
<1>6. Cardinality(last) <= Cardinality(found)
  BY <1>2, <1>3, FS_Subset
<1> QED
  BY <1>4, <1>5, <1>6

\* No entry has been counted yet.
LEMMA WindowInit == Init => WindowInv
<1> SUFFICES ASSUME Init PROVE WindowInv
  OBVIOUS
<1>1. now = 1 /\ windows = [r \in RuleIds |-> <<>>] /\ unfired = [r \in RuleIds |-> <<>>]
  BY DEF Init
<1>2. <<>> \in Seq(Nat) /\ Newest(<<>>, <<>>) /\ Rising(<<>>) /\ UpTo(<<>>, 1)
  BY DEF Newest, Rising, UpTo
<1> QED
  BY <1>1, <1>2 DEF WindowInv

\* An entry evaluated now is the newest.
LEMMA NowIsNewest ==
  ASSUME now \in Nat, NEW s \in Seq(Nat), Rising(s), UpTo(s, now)
  PROVE  LET t == Append(s, now)
         IN t \in Seq(Nat) /\ Rising(t) /\ UpTo(t, now)
<1> PICK n : n = Len(s)
  OBVIOUS
<1> PICK t : t = Append(s, now)
  OBVIOUS
<1>1. /\ n \in Nat /\ t \in Seq(Nat) /\ Len(t) = n + 1 /\ t[n + 1] = now
      /\ \A i \in 1..n : t[i] = s[i] /\ s[i] \in Nat
  OBVIOUS
<1>2. \A i \in 1..n : s[i] <= now
  BY DEF UpTo
<1>3. \A i \in 1..(n + 1) : t[i] <= now /\ t[i] \in Nat
  BY <1>1, <1>2
<1>4. ASSUME NEW i \in 1..(n + 1), NEW j \in 1..(n + 1), i <= j PROVE t[i] <= t[j]
  <2>1. CASE j = n + 1
    BY <1>1, <1>3, <2>1
  <2>2. CASE j # n + 1
    <3>1. i \in 1..n /\ j \in 1..n
      BY <1>1, <1>4, <2>2
    <3> QED
      BY <1>1, <1>4, <3>1 DEF Rising
  <2> QED
    BY <2>1, <2>2
<1> QED
  BY <1>1, <1>3, <1>4 DEF Rising, UpTo

\* The window of a threshold rule, and what it counts of the entry evaluated.
LEMMA CountingIsNewest ==
  ASSUME WindowInv, NEW r \in RuleIds, IsThreshold(r)
  PROVE  /\ InWindow(r, windows[r]) \in Seq(Nat) /\ Newest(InWindow(r, windows[r]), unfired[r])
         /\ \A i \in 1..Len(InWindow(r, windows[r])) :
              InWindow(r, windows[r])[i] >= now - Rules[r].window
         /\ Counting(r) \in Seq(Nat) /\ Newest(Counting(r), Append(unfired[r], now))
<1>1. /\ now \in Nat /\ windows[r] \in Seq(Nat) /\ unfired[r] \in Seq(Nat)
      /\ Rising(unfired[r]) /\ Newest(windows[r], unfired[r])
  BY DEF WindowInv
<1>2. Rising(windows[r])
  BY <1>1, NewestRises
<1> PICK w : w = InWindow(r, windows[r])
  OBVIOUS
<1>3. w \in Seq(Nat) /\ Newest(w, windows[r]) /\ \A i \in 1..Len(w) : w[i] >= now - Rules[r].window
  BY <1>1, <1>2, InWindowIsNewest
<1>4. Newest(w, unfired[r])
  BY <1>1, <1>3, NewestOf
<1>5. Newest(Append(w, now), Append(unfired[r], now)) /\ Append(w, now) \in Seq(Nat)
  BY <1>1, <1>3, <1>4, NewestOf
<1> QED
  BY <1>3, <1>4, <1>5 DEF Counting

\* A threshold rule that reached its count starts anew, whether it fires or not.
LEMMA WindowEvaluate == WindowInv /\ Evaluate => WindowInv'
<1> SUFFICES ASSUME WindowInv, Evaluate PROVE WindowInv'
  OBVIOUS
<1> PICK e : e = log[fed + 1]
  OBVIOUS
<1> DEFINE firing == {r \in Reached(e) : Fires(r, e) /\ Reached(e) = RuleIds}
<1>1. /\ now' = now /\ now \in Nat
      /\ windows' = [r \in RuleIds |-> IF r \in Reached(e) THEN Counted(r, e) ELSE windows[r]]
      /\ unfired' = [r \in RuleIds |->
            IF ~(r \in Reached(e) /\ Counts(r, e)) THEN unfired[r]
            ELSE IF r \in firing THEN <<>> ELSE Append(unfired[r], now)]
  BY DEF Evaluate, clockVars, WindowInv
<1>0. \A r \in firing : Fires(r, e)
  OBVIOUS
<1> HIDE DEF firing
<1>2. ASSUME NEW r \in RuleIds
      PROVE  /\ windows'[r] = IF r \in Reached(e) THEN Counted(r, e) ELSE windows[r]
             /\ unfired'[r] = IF ~(r \in Reached(e) /\ Counts(r, e)) THEN unfired[r]
                              ELSE IF r \in firing THEN <<>> ELSE Append(unfired[r], now)
  BY <1>1
<1>3. ASSUME NEW r \in RuleIds
      PROVE  unfired'[r] \in Seq(Nat) /\ Rising(unfired'[r]) /\ UpTo(unfired'[r], now)
  <2>1. unfired[r] \in Seq(Nat) /\ Rising(unfired[r]) /\ UpTo(unfired[r], now)
    BY DEF WindowInv
  <2>2. <<>> \in Seq(Nat) /\ Rising(<<>>) /\ UpTo(<<>>, now)
    BY DEF Rising, UpTo
  <2>3. unfired'[r] \in {unfired[r], <<>>, Append(unfired[r], now)}
    BY <1>2
  <2> QED
    BY <1>1, <2>1, <2>2, <2>3, NowIsNewest
<1>4. ASSUME NEW r \in RuleIds
      PROVE  windows'[r] \in Seq(Nat) /\ (IsThreshold(r) => Newest(windows'[r], unfired'[r]))
  <2>1. windows[r] \in Seq(Nat) /\ (IsThreshold(r) => Newest(windows[r], unfired[r]))
    BY DEF WindowInv
  <2>2. CASE ~(r \in Reached(e) /\ Counts(r, e) /\ IsThreshold(r))
    <3>1. windows'[r] = windows[r]
      BY <1>2, <2>2 DEF Counted
    <3>2. IsThreshold(r) => unfired'[r] = unfired[r]
      BY <1>2, <2>2
    <3> QED
      BY <2>1, <3>1, <3>2
  <2>3. CASE r \in Reached(e) /\ Counts(r, e) /\ IsThreshold(r) /\ Len(Counting(r)) >= Rules[r].count
    <3>1. windows'[r] = <<>> /\ <<>> \in Seq(Nat)
      BY <1>2, <2>3 DEF Counted
    <3> QED
      BY <1>3, <3>1, NewestOf
  <2>4. CASE r \in Reached(e) /\ Counts(r, e) /\ IsThreshold(r) /\ ~(Len(Counting(r)) >= Rules[r].count)
    <3>1. windows'[r] = Counting(r)
      BY <1>2, <2>4 DEF Counted
    <3>2. r \notin firing
      BY <1>0, <2>4 DEF Fires, Ready, Counts
    <3>3. unfired'[r] = Append(unfired[r], now)
      BY <1>2, <2>4, <3>2
    <3> QED
      BY <2>4, <3>1, <3>3, CountingIsNewest
  <2> QED
    BY <2>2, <2>3, <2>4
<1>5. windows' \in [RuleIds -> Seq(Nat)]
  BY <1>1, <1>4
<1>6. unfired' \in [RuleIds -> Seq(Nat)]
  BY <1>1, <1>3
<1> QED
  BY <1>1, <1>3, <1>4, <1>5, <1>6 DEF WindowInv

\* No other step counts, and the clock does not go back.
LEMMA WindowNext == WindowInv /\ [Next]_vars => WindowInv'
<1> SUFFICES ASSUME WindowInv, [Next]_vars PROVE WindowInv'
  OBVIOUS
<1>1. CASE Evaluate
  BY <1>1, WindowEvaluate
<1>2. CASE Tick
  <2>1. now \in Nat /\ now' = now + 1 /\ windows' = windows /\ unfired' = unfired
    BY <1>2 DEF Tick, ruleVars, WindowInv
  <2>2. ASSUME NEW r \in RuleIds PROVE UpTo(unfired[r], now')
    <3>1. unfired[r] \in Seq(Nat) /\ \A i \in 1..Len(unfired[r]) : unfired[r][i] <= now
      BY DEF WindowInv, UpTo
    <3>2. \A i \in 1..Len(unfired[r]) : unfired[r][i] \in Nat
      BY <3>1
    <3> QED
      BY <2>1, <3>1, <3>2 DEF UpTo
  <2> QED
    BY <2>1, <2>2 DEF WindowInv
<1>3. CASE UNCHANGED <<now, windows, unfired>>
  BY <1>3 DEF WindowInv
<1>4. ASSUME Next, ~Evaluate, ~Tick PROVE UNCHANGED <<now, windows, unfired>>
  <2>1. CASE OthersLog \/ BreakChain
    BY <2>1 DEF OthersLog, BreakChain, ruleVars
  <2>2. CASE Notify \/ SpawnRefused \/ SpawnCounted \/ Submit \/ SubmitFails
    BY <2>2 DEF Notify, SpawnRefused, SpawnCounted, Submit, SubmitFails, clockVars, ruleVars
  <2>3. ASSUME NEW w \in Worker, Work(w) PROVE UNCHANGED <<now, windows, unfired>>
    BY <2>3 DEF Work, TakeJob, CircuitBreak, FinishJob, clockVars, ruleVars
  <2>4. CASE Shutdown
    BY <2>4 DEF Shutdown, clockVars, ruleVars
  <2> QED
    BY <1>4, <2>1, <2>2, <2>3, <2>4 DEF Next, Watch
<1>5. CASE UNCHANGED vars
  BY <1>3, <1>5 DEF vars, clockVars, ruleVars
<1> QED
  BY <1>1, <1>2, <1>3, <1>4, <1>5

\* A rule that fires has been evaluated just now, and its window reached the count.
LEMMA FiresForEnough ==
  ASSUME WindowInv, [Next]_vars, NEW r \in RuleIds, IsThreshold(r), FiresNow(r)
  PROVE  Cardinality(Unfired(r)) + 1 >= Rules[r].count
<1>1. Evaluate
  <2>1. todo = {} /\ todo' # todo
    BY DEF FiresNow
  <2> QED
    BY <2>1 DEF Next, Watch, Work, vars, Tick, OthersLog, BreakChain, Notify, NextIs, SpawnRefused,
                SpawnCounted, Submit, SubmitFails, TakeJob, CircuitBreak, FinishJob, Shutdown
<1> PICK e : e = log[fed + 1]
  OBVIOUS
<1>2. Fires(r, e)
  BY <1>1 DEF Evaluate, FiresNow
<1> PICK w : w = InWindow(r, windows[r])
  OBVIOUS
<1>3. Counts(r, e) /\ Len(Append(w, now)) >= Rules[r].count
  BY <1>2 DEF Fires, Ready, Counts, Counting, IsThreshold
<1>4. /\ w \in Seq(Nat) /\ Newest(w, unfired[r]) /\ unfired[r] \in Seq(Nat)
      /\ \A i \in 1..Len(w) : w[i] >= now - Rules[r].window
  BY CountingIsNewest DEF WindowInv
<1>5. now - Rules[r].window \in Int /\ Rules[r].count \in Nat
  BY RuleWindow DEF WindowInv
<1>6. Cardinality(Unfired(r)) \in Nat /\ Cardinality(Unfired(r)) >= Len(w)
  BY <1>4, <1>5, EnoughUnfired DEF Unfired
<1>7. Len(Append(w, now)) = Len(w) + 1 /\ Len(w) \in Nat
  BY <1>4
<1> QED
  BY <1>3, <1>5, <1>6, <1>7

\* However the entries come, a rule fires only when as many of those that it has
\* not fired for lie in its window as it asks for: clear() forgets what a
\* cooldown suppressed, it never counts an entry twice.
THEOREM ThresholdCounts == Spec => ThresholdSound
<1>1. WindowInv /\ [Next]_vars =>
        [\A r \in RuleIds : IsThreshold(r) /\ FiresNow(r) =>
           Cardinality(Unfired(r)) + 1 >= Rules[r].count]_vars
  BY FiresForEnough
<1> QED
  BY <1>1, WindowInit, WindowNext, PTL DEF Spec, ThresholdSound

-----------------------------------------------------------------------------
(* ---- what a sequence rule matches ------------------------------------------ *)

AnyKind == EnvKinds \cup STRING \cup {"CIRCUIT_BREAKER", "CHAIN_TAMPERED"}

EntriesTyped ==
  /\ now \in Nat \ {0}
  /\ log \in Seq(MatchEntry(AnyKind)) /\ \A i \in 1..Len(log) : log[i].ts >= 1
  /\ fed \in 0..Len(log)
  /\ marks \in [RuleIds -> Nat] /\ matchedAt \in [RuleIds -> Nat]

Oldest(n) == Max({1, n - BufferLen + 1})

\* The places in the log of the candidates of r when n entries are evaluated.
Considered(r, n) == {i \in DOMAIN log : Oldest(n) <= i /\ i <= n /\ log[i].ts > marks[r]}

\* The steps of r are met at no places that it considers.
NoneLeft(r, n) ==
  \A F : /\ Occurs(Rules[r].steps, log, F)
         /\ log[F[Len(Rules[r].steps)]].ts - log[F[1]].ts <= Rules[r].window
         => \E k \in 1..Len(Rules[r].steps) : F[k] \notin Considered(r, n)

\* Its mark is the time of the entry that completed the last match.
Marked(r) ==
  /\ matchedAt[r] <= fed
  /\ marks[r] = IF matchedAt[r] = 0 THEN 0 ELSE log[matchedAt[r]].ts

MatchInv ==
  /\ EntriesTyped
  /\ Ordered(log) => \A r \in RuleIds : IsSequence(r) => Marked(r) /\ NoneLeft(r, fed)

LEMMA GreaterOf ==
  ASSUME NEW x \in Int, NEW y \in Int
  PROVE  Max({x, y}) \in {x, y} /\ Max({x, y}) >= x /\ Max({x, y}) >= y
<1>1. \E m \in {x, y} : \A i \in {x, y} : m >= i
  BY x >= y \/ y >= x
<1> QED
  BY <1>1, Zenon DEF Max

LEMMA SeqWider ==
  ASSUME NEW S, NEW T, S \subseteq T, NEW s \in Seq(S)
  PROVE  s \in Seq(T)
OBVIOUS

LEMMA SequenceRule ==
  ASSUME NEW r \in RuleIds
  PROVE  Rules[r].steps \in Seq(SUBSET AnyKind) /\ Rules[r].window \in Int /\ (IsSequence(r) <=> Rules[r].steps # <<>>)
<1>1. r \in 1..Len(Rules)
  BY DEF RuleIds
<1>2. Rules[r] \in Rule
  BY <1>1, LimitAssumption
<1>3. Rules[r].steps \in Seq(SUBSET STRING) /\ Rules[r].window \in Int
  BY <1>2 DEF Rule, Unparsed
<1>4. SUBSET STRING \subseteq SUBSET AnyKind
  BY DEF AnyKind
<1>5. Rules[r].steps \in Seq(SUBSET AnyKind)
  BY ONLY <1>3, <1>4, SeqWider
<1> QED
  BY <1>3, <1>5 DEF IsSequence

\* What is logged has a time, and a kind.
LEMMA LoggedTyped ==
  ASSUME EntriesTyped, NEW kind \in AnyKind, Logged(kind)
  PROVE  \E ts \in Nat \ {0} : ts <= now /\ (Skew = 0 => ts = now) /\ log' = Append(log, [kind |-> kind, ts |-> ts])
<1>1. now \in Nat /\ now >= 1 /\ Skew \in Nat
  BY LimitAssumption DEF EntriesTyped
<1>2. PICK ts \in Max({1, now - Skew})..now : log' = Append(log, [kind |-> kind, ts |-> ts])
  BY DEF Logged
<1>3. Max({1, now - Skew}) \in Int /\ Max({1, now - Skew}) >= 1 /\ Max({1, now - Skew}) >= now - Skew
  <2>1. now - Skew \in Int /\ 1 \in Int
    BY <1>1
  <2>2. Max({1, now - Skew}) \in {1, now - Skew} /\ Max({1, now - Skew}) >= 1 /\ Max({1, now - Skew}) >= now - Skew
    BY ONLY <2>1, GreaterOf
  <2> QED
    BY <2>1, <2>2
<1>4. ts \in Nat \ {0} /\ ts <= now /\ (Skew = 0 => ts = now)
  BY <1>1, <1>2, <1>3
<1> QED
  BY <1>2, <1>4

\* The candidates of r are the entries considered, in their order.
LEMMA CandidatesAre ==
  ASSUME EntriesTyped, NEW r \in RuleIds, NEW n \in 0..Len(log)
  PROVE  Part(AnyKind, Rules[r].steps, log, Candidates(r, n), Considered(r, n))
<1> PICK a : a = Oldest(n)
  OBVIOUS
<1> PICK L : L = Len(log)
  OBVIOUS
<1>0. L \in Nat /\ n \in Nat /\ n <= L /\ BufferLen \in Nat \ {0} /\ DOMAIN log = 1..L
  BY LimitAssumption DEF EntriesTyped
<1>1. a \in 1..(n + 1) /\ a >= n - BufferLen + 1
  <2>1. n - BufferLen + 1 \in Int /\ 1 \in Int /\ n - BufferLen + 1 <= n
    BY <1>0
  <2>2. a \in {1, n - BufferLen + 1} /\ a >= 1 /\ a >= n - BufferLen + 1
    BY <2>1, GreaterOf DEF Oldest
  <2> QED
    BY <1>0, <2>1, <2>2
<1> PICK s : s = Recent(n)
  OBVIOUS
<1>2. /\ s \in Seq(MatchEntry(AnyKind)) /\ Len(s) = n - a + 1
      /\ \A i \in 1..(n - a + 1) : s[i] = log[a + i - 1]
  <2>1. s = SubSeq(log, a, n)
    BY DEF Recent, Oldest
  <2>2. \A i \in a..n : log[i] \in MatchEntry(AnyKind)
    BY <1>0, <1>1 DEF EntriesTyped
  <2>3. a \in Int /\ n \in Int
    BY <1>0, <1>1
  <2>4. /\ SubSeq(log, a, n) \in Seq(MatchEntry(AnyKind))
        /\ Len(SubSeq(log, a, n)) = IF a <= n THEN n - a + 1 ELSE 0
        /\ \A i \in 1..(n - a + 1) : SubSeq(log, a, n)[i] = log[a + i - 1]
    BY <2>2, <2>3, SubSeqProperties
  <2> QED
    BY <1>0, <1>1, <2>1, <2>4
<1> PICK m : m = marks[r]
  OBVIOUS
<1> DEFINE I == {i \in DOMAIN s : s[i].ts > m}
<1>3. Candidates(r, n) = Sublist(s, I)
  BY DEF Candidates, Kept
<1>4. I \in SUBSET DOMAIN s
  OBVIOUS
<1> HIDE DEF I
<1>5. Sublist(s, I) \in Seq(MatchEntry(AnyKind)) /\ \E c \in Nat : \E e : CountedOut(Sublist(s, I), s, I, c, e)
  BY ONLY <1>2, <1>4, SublistAt
<1>6. PICK c, e : c \in Nat /\ CountedOut(Sublist(s, I), s, I, c, e)
  BY <1>5
<1> PICK t : t = Sublist(s, I)
  OBVIOUS
<1>7. /\ Len(t) = c /\ DOMAIN t = 1..c
      /\ e \in [1..c -> I]
      /\ \A k \in 1..c : t[k] = s[e[k]]
      /\ \A i \in I : \E k \in 1..c : e[k] = i
      /\ \A k, l \in 1..c : k < l => e[k] < e[l]
  BY <1>6 DEF CountedOut
<1>8. \A i \in I : i \in 1..(n - a + 1) /\ s[i].ts > m
  BY <1>0, <1>1, <1>2 DEF I
<1> DEFINE g == [k \in 1..c |-> a + e[k] - 1]
<1> PICK P : P = Considered(r, n)
  OBVIOUS
<1>9. P = {i \in 1..L : a <= i /\ i <= n /\ log[i].ts > m}
  BY <1>0 DEF Considered
<1>10. \A k \in 1..c : e[k] \in I /\ g[k] = a + e[k] - 1
  BY <1>7
<1>11. ASSUME NEW k \in 1..c PROVE g[k] \in P /\ t[k] = log[g[k]]
  <2>1. e[k] \in 1..(n - a + 1) /\ s[e[k]].ts > m /\ t[k] = s[e[k]] /\ g[k] = a + e[k] - 1
    BY <1>7, <1>8, <1>10
  <2>2. s[e[k]] = log[g[k]] /\ g[k] \in 1..L /\ a <= g[k] /\ g[k] <= n
    BY <1>0, <1>1, <1>2, <2>1
  <2> QED
    BY <1>9, <2>1, <2>2
<1>12. ASSUME NEW j \in P PROVE \E k \in 1..c : g[k] = j
  <2> PICK i : i = j - a + 1
    OBVIOUS
  <2>1. j \in 1..L /\ a <= j /\ j <= n /\ log[j].ts > m
    BY <1>9
  <2>2. i \in 1..(n - a + 1) /\ a + i - 1 = j
    BY <1>0, <1>1, <2>1
  <2>3. s[i] = log[j]
    BY <1>2, <2>2
  <2>4. i \in I
    <3>1. DOMAIN s = 1..(n - a + 1)
      BY <1>2
    <3>2. s[i].ts > m
      BY <2>1, <2>3
    <3> QED
      BY <2>2, <3>1, <3>2 DEF I
  <2>5. PICK k \in 1..c : e[k] = i
    BY <1>7, <2>4
  <2> QED
    BY <1>10, <2>2, <2>5
<1>13. ASSUME NEW k \in 1..c, NEW l \in 1..c, k < l PROVE g[k] < g[l]
  <2>1. e[k] < e[l] /\ e[k] \in 1..(n - a + 1) /\ e[l] \in 1..(n - a + 1)
    BY <1>7, <1>8, <1>10, <1>13
  <2> QED
    BY <1>0, <1>1, <1>10, <2>1
<1>14. g \in [1..c -> P]
  BY <1>11
<1> HIDE DEF g
<1>15. CountedOut(t, log, P, c, g)
  BY <1>7, <1>11, <1>12, <1>13, <1>14 DEF CountedOut
<1>16. log \in Seq(MatchEntry(AnyKind)) /\ P \subseteq 1..Len(log) /\ Rules[r].steps \in Seq(SUBSET AnyKind)
  BY <1>9, SequenceRule DEF EntriesTyped
<1> QED
  BY <1>3, <1>5, <1>15, <1>16 DEF Part

\* The buffer drops its oldest entries only.
LEMMA OldestRises ==
  ASSUME NEW n \in Nat
  PROVE  Oldest(n) \in Nat /\ Oldest(n + 1) \in Nat /\ Oldest(n) <= Oldest(n + 1) /\ Oldest(n) >= 1
<1>1. BufferLen \in Nat \ {0}
  BY LimitAssumption
<1>2. n - BufferLen + 1 \in Int /\ (n + 1) - BufferLen + 1 \in Int /\ 1 \in Int
  BY <1>1
<1>3. Oldest(n) \in {1, n - BufferLen + 1} /\ Oldest(n) >= 1 /\ Oldest(n) >= n - BufferLen + 1
  BY ONLY <1>2, GreaterOf DEF Oldest
<1>4. /\ Oldest(n + 1) \in {1, (n + 1) - BufferLen + 1} /\ Oldest(n + 1) >= 1
      /\ Oldest(n + 1) >= (n + 1) - BufferLen + 1
  BY ONLY <1>2, GreaterOf DEF Oldest
<1> QED
  BY <1>1, <1>2, <1>3, <1>4

\* What the next evaluation of r finds, of entries in the order of their times:
\* nothing, or a match that the entry evaluated completes.
LEMMA MatchFound ==
  ASSUME EntriesTyped, Ordered(log), NEW r \in RuleIds, IsSequence(r), Marked(r), NoneLeft(r, fed), fed < Len(log)
  PROVE  \/ MatchEnd(r, fed + 1) = None /\ NoneLeft(r, fed + 1)
         \/ /\ MatchEnd(r, fed + 1) # None /\ MatchEnd(r, fed + 1) = log[fed + 1].ts
            /\ fed + 1 - matchedAt[r] >= Len(Rules[r].steps)
<1>1. PICK n : n = fed + 1
  OBVIOUS
<1>2. PICK s : s = Rules[r].steps
  OBVIOUS
<1>3. PICK w : w = Rules[r].window
  OBVIOUS
<1>4. PICK P : P = Considered(r, n)
  OBVIOUS
<1>5. PICK end : end = MatchEnd(r, n)
  OBVIOUS
<1>6. /\ n \in 0..Len(log) /\ n \in Nat /\ n >= 1 /\ fed \in Nat /\ n = fed + 1
      /\ Len(log) \in Nat /\ log \in Seq(MatchEntry(AnyKind)) /\ DOMAIN log = 1..Len(log)
  BY <1>1 DEF EntriesTyped
<1>7. s \in Seq(SUBSET AnyKind) /\ s # <<>> /\ w \in Int
  BY <1>2, <1>3, SequenceRule
<1>8. \A i \in P : i \in 1..Len(log) /\ i <= n /\ Oldest(n) <= i /\ log[i].ts > marks[r]
  BY <1>4, <1>6 DEF Considered
<1>9. Part(AnyKind, s, log, Candidates(r, n), P)
  BY <1>2, <1>4, <1>6, CandidatesAre
<1>10. end = FindMatchEnd(s, w, Candidates(r, n))
  BY <1>2, <1>3, <1>5 DEF MatchEnd
<1>11. \/ /\ end = None
          /\ \A F : Occurs(s, log, F) /\ log[F[Len(s)]].ts - log[F[1]].ts <= w => \E k \in 1..Len(s) : F[k] \notin P
       \/ /\ end # None
          /\ \E F : /\ Occurs(s, log, F) /\ log[F[Len(s)]].ts - log[F[1]].ts <= w
                    /\ \A k \in 1..Len(s) : F[k] \in P
                    /\ end = log[F[Len(s)]].ts
  BY ONLY Ordered(log), <1>7, <1>9, <1>10, FoundInPart
<1>12. CASE end = None
  <2>1. NoneLeft(r, n)
    BY <1>2, <1>3, <1>4, <1>11, <1>12 DEF NoneLeft
  <2> QED
    BY <1>1, <1>5, <1>12, <2>1
<1>13. CASE end # None
  <2>1. PICK F : /\ Occurs(s, log, F) /\ log[F[Len(s)]].ts - log[F[1]].ts <= w
                 /\ \A k \in 1..Len(s) : F[k] \in P
                 /\ end = log[F[Len(s)]].ts
    BY <1>11, <1>13
  <2>2. /\ 1 \in 1..Len(s) /\ Len(s) \in 1..Len(s) /\ Len(s) \in Nat
        /\ \A k \in 1..Len(s) : F[k] \in 1..Len(log) /\ F[k] <= F[Len(s)]
        /\ F[Len(s)] - F[1] >= Len(s) - 1
    BY ONLY <1>6, <1>7, <2>1, OccursRises
  <2>3. \A k \in 1..Len(s) : F[k] \in Nat /\ F[k] <= n /\ Oldest(n) <= F[k] /\ log[F[k]].ts > marks[r]
    BY <1>8, <2>1, <2>2
  <2>4. F[Len(s)] = n
    <3> SUFFICES ASSUME F[Len(s)] # n PROVE FALSE
      OBVIOUS
    <3>1. F[Len(s)] <= fed
      BY <1>6, <2>2, <2>3
    <3>2. Oldest(fed) \in Nat /\ Oldest(n) \in Nat /\ Oldest(fed) <= Oldest(n)
      BY <1>6, OldestRises
    <3>3. ASSUME NEW k \in 1..Len(s) PROVE F[k] \in Considered(r, fed)
      <4>1. F[k] \in 1..Len(log) /\ F[k] \in Nat /\ F[k] <= F[Len(s)] /\ Oldest(n) <= F[k] /\ log[F[k]].ts > marks[r]
        BY <2>2, <2>3
      <4>2. F[k] <= fed
        BY <1>6, <2>2, <3>1, <4>1
      <4>3. Oldest(fed) <= F[k]
        BY <3>2, <4>1
      <4> QED
        BY <1>6, <4>1, <4>2, <4>3 DEF Considered
    <3> QED
      BY <1>2, <1>3, <2>1, <3>3 DEF NoneLeft
  <2>5. matchedAt[r] \in Nat /\ matchedAt[r] < F[1]
    <3>1. matchedAt[r] \in Nat /\ matchedAt[r] <= fed /\ F[1] \in 1..Len(log) /\ log[F[1]].ts > marks[r]
      BY <2>2, <2>3 DEF EntriesTyped, Marked
    <3> SUFFICES ASSUME F[1] <= matchedAt[r] PROVE FALSE
      BY <3>1
    <3>2. matchedAt[r] \in 1..Len(log)
      BY <1>6, <3>1
    <3>3. marks[r] = log[matchedAt[r]].ts
      BY <3>2 DEF Marked
    <3>4. log[F[1]].ts <= log[matchedAt[r]].ts
      BY <1>6, <3>1, <3>2, OrderedAll
    <3>5. log[F[1]].ts \in Nat /\ log[matchedAt[r]].ts \in Nat
      BY <1>6, <3>1, <3>2, EntryTime
    <3> QED
      BY <3>1, <3>3, <3>4, <3>5
  <2>6. n - matchedAt[r] >= Len(s)
    <3>1. F[1] \in Nat /\ F[Len(s)] \in Nat
      BY <2>2, <2>3
    <3> QED
      BY <1>6, <2>2, <2>4, <2>5, <3>1
  <2>7. end = log[n].ts
    BY <2>1, <2>4
  <2> QED
    BY <1>1, <1>2, <1>5, <1>6, <1>13, <2>5, <2>6, <2>7
<1> QED
  BY <1>12, <1>13

LEMMA MatchInit == Init => MatchInv
<1> SUFFICES ASSUME Init PROVE MatchInv
  OBVIOUS
<1>1. /\ now = 1 /\ log = <<>> /\ fed = 0
      /\ marks = [r \in RuleIds |-> 0] /\ matchedAt = [r \in RuleIds |-> 0]
  BY DEF Init
<1>2. EntriesTyped
  BY <1>1 DEF EntriesTyped
<1>3. ASSUME NEW r \in RuleIds, IsSequence(r) PROVE Marked(r) /\ NoneLeft(r, fed)
  <2>1. Marked(r)
    BY <1>1 DEF Marked
  <2>2. Considered(r, fed) = {}
    BY <1>1 DEF Considered
  <2>3. 1 \in 1..Len(Rules[r].steps)
    BY <1>3, SequenceRule
  <2> QED
    BY <2>1, <2>2, <2>3 DEF NoneLeft
<1> QED
  BY <1>2, <1>3 DEF MatchInv

\* An entry that is not evaluated yet is not considered.
LEMMA MatchLogged ==
  ASSUME MatchInv, NEW kind \in AnyKind, Logged(kind), UNCHANGED <<now, fed, marks, matchedAt>>
  PROVE  MatchInv'
<1>1. EntriesTyped
  BY DEF MatchInv
<1>2. PICK ts \in Nat \ {0} : log' = Append(log, [kind |-> kind, ts |-> ts])
  BY <1>1, LoggedTyped
<1> PICK x : x = [kind |-> kind, ts |-> ts]
  OBVIOUS
<1> PICK L : L = Len(log)
  OBVIOUS
<1>3. x \in MatchEntry(AnyKind) /\ x.ts = ts
  BY DEF MatchEntry
<1>4. /\ log \in Seq(MatchEntry(AnyKind)) /\ log' \in Seq(MatchEntry(AnyKind)) /\ L \in Nat /\ Len(log') = L + 1
      /\ DOMAIN log = 1..L /\ DOMAIN log' = 1..(L + 1)
      /\ \A i \in 1..L : log'[i] = log[i]
      /\ log'[L + 1] = x /\ fed \in 0..L
  BY <1>1, <1>2, <1>3 DEF EntriesTyped
<1>5. EntriesTyped'
  <2>1. \A i \in 1..L : log[i].ts >= 1
    BY <1>1 DEF EntriesTyped
  <2>2. \A i \in 1..(L + 1) : log'[i].ts >= 1
    BY <1>3, <1>4, <2>1
  <2>3. fed' \in 0..(L + 1)
    BY <1>4
  <2>4. (marks \in [RuleIds -> Nat])' /\ (matchedAt \in [RuleIds -> Nat])' /\ now' \in Nat \ {0}
    BY <1>1 DEF EntriesTyped, RuleIds
  <2> QED
    BY <1>4, <2>2, <2>3, <2>4 DEF EntriesTyped
<1>6. ASSUME Ordered(log') PROVE Ordered(log)
  <2> SUFFICES ASSUME NEW i \in 2..L PROVE log[i - 1].ts <= log[i].ts
    BY DEF Ordered
  <2>1. i \in 2..(L + 1) /\ i \in 1..L /\ i - 1 \in 1..L
    BY <1>4
  <2>2. log'[i - 1].ts <= log'[i].ts
    BY <1>4, <1>6, <2>1 DEF Ordered
  <2> QED
    BY <1>4, <2>1, <2>2
<1>7. ASSUME NEW r \in RuleIds, IsSequence(r), Marked(r), NoneLeft(r, fed) PROVE Marked(r)' /\ NoneLeft(r, fed)'
  <2>1. Marked(r)'
    <3>1. matchedAt[r] \in Nat /\ matchedAt[r] <= fed
      BY <1>1, <1>7 DEF Marked, EntriesTyped
    <3>2. matchedAt[r] # 0 => log'[matchedAt[r]] = log[matchedAt[r]]
      BY <1>4, <3>1
    <3> QED
      BY <1>7, <3>1, <3>2 DEF Marked
  <2>2. Considered(r, fed)' = Considered(r, fed)
    BY <1>4 DEF Considered, Oldest
  <2> PICK s : s = Rules[r].steps
    OBVIOUS
  <2> PICK P : P = Considered(r, fed)
    OBVIOUS
  <2>3. P \subseteq 1..L
    BY <1>4 DEF Considered
  <2>4. s \in Seq(SUBSET AnyKind) /\ s # <<>> /\ 1 \in 1..Len(s) /\ Len(s) \in 1..Len(s)
    BY <1>7, SequenceRule
  <2>5. NoneLeft(r, fed)'
    <3> SUFFICES ASSUME NEW F, Occurs(s, log', F), log'[F[Len(s)]].ts - log'[F[1]].ts <= Rules[r].window,
                        \A k \in 1..Len(s) : F[k] \in P
                 PROVE  FALSE
      BY <2>2 DEF NoneLeft
    <3>1. \A k \in 1..Len(s) : F[k] \in 1..L /\ log'[F[k]] = log[F[k]]
      BY <1>4, <2>3
    <3>2. Occurs(s, log, F)
      BY <1>4, <3>1 DEF Occurs
    <3>3. log[F[Len(s)]].ts - log[F[1]].ts <= Rules[r].window
      BY <2>4, <3>1
    <3> QED
      BY <1>7, <3>2, <3>3 DEF NoneLeft
  <2> QED
    BY <2>1, <2>5
<1>8. ASSUME Ordered(log'), NEW r \in RuleIds, IsSequence(r) PROVE Marked(r)' /\ NoneLeft(r, fed)'
  BY <1>6, <1>7, <1>8 DEF MatchInv
<1> QED
  BY <1>5, <1>8 DEF MatchInv, RuleIds, IsSequence

\* Where every window can be parsed, evaluate() reaches every rule.
AllParsed == \A r \in RuleIds : Rules[r].window # Unparsed

LEMMA AllReached == ASSUME AllParsed, NEW e PROVE Reached(e) = RuleIds
<1> SUFFICES ASSUME NEW r \in RuleIds, NEW q \in 1..r PROVE ~Stumbles(q, e)
  BY DEF Reached
<1>1. q \in RuleIds
  BY DEF RuleIds
<1> QED
  BY <1>1 DEF AllParsed, Stumbles

\* A match is consumed up to the entry that completes it.
LEMMA MatchEvaluate == AllParsed /\ MatchInv /\ Evaluate => MatchInv'
<1> SUFFICES ASSUME AllParsed, MatchInv, Evaluate PROVE MatchInv'
  OBVIOUS
<1>1. EntriesTyped
  BY DEF MatchInv
<1> PICK e : e = log[fed + 1]
  OBVIOUS
<1>2. /\ fed < Len(log) /\ fed' = fed + 1 /\ log' = log /\ now' = now
      /\ marks' = [r \in RuleIds |-> Advance(r, e)]
      /\ matchedAt' = [r \in RuleIds |-> IF IsSequence(r) /\ Ready(r, e) THEN fed + 1 ELSE matchedAt[r]]
  BY AllReached DEF Evaluate, clockVars
<1>3. fed \in Nat /\ Len(log) \in Nat /\ fed + 1 \in 1..Len(log) /\ log \in Seq(MatchEntry(AnyKind))
  BY <1>1, <1>2 DEF EntriesTyped
<1>4. \A i \in 1..Len(log) : log[i].ts \in Nat
  BY <1>3, EntryTime
<1>5. ASSUME NEW r \in RuleIds, IsSequence(r)
      PROVE  Ready(r, e) <=> MatchEnd(r, fed + 1) # None
  BY <1>5 DEF Ready, Counts
<1>6. ASSUME NEW r \in RuleIds PROVE Advance(r, e) \in Nat
  <2>1. CASE IsSequence(r) /\ Ready(r, e)
    <3> PICK C : C = Candidates(r, fed + 1)
      OBVIOUS
    <3>1. fed + 1 \in 0..Len(log)
      BY <1>3
    <3>2. C \in Seq(MatchEntry(AnyKind))
      BY <1>1, <3>1, CandidatesAre DEF Part
    <3>3. /\ Rules[r].steps \in Seq(SUBSET AnyKind) /\ Rules[r].steps # <<>> /\ Rules[r].window \in Int
          /\ Len(Rules[r].steps) \in 1..Len(Rules[r].steps)
      BY <2>1, SequenceRule
    <3>4. MatchEnd(r, fed + 1) # None
      BY <1>5, <2>1
    <3>5. PICK f \in Occurrences(Rules[r].steps, Rules[r].window, C) : MatchEnd(r, fed + 1) = C[f[Len(Rules[r].steps)]].ts
      BY <3>2, <3>3, <3>4, FindsFirst DEF MatchEnd
    <3>6. f[Len(Rules[r].steps)] \in 1..Len(C)
      BY <3>3 DEF Occurrences
    <3>7. MatchEnd(r, fed + 1) \in Nat
      BY <3>2, <3>5, <3>6, EntryTime
    <3> QED
      BY <2>1, <3>7 DEF Advance
  <2>2. CASE ~(IsSequence(r) /\ Ready(r, e))
    BY <1>1, <2>2 DEF Advance, EntriesTyped
  <2> QED
    BY <2>1, <2>2
<1>7. EntriesTyped'
  <2>1. marks' \in [RuleIds -> Nat]
    BY <1>2, <1>6
  <2>2. matchedAt' \in [RuleIds -> Nat]
    BY <1>1, <1>2, <1>3 DEF EntriesTyped
  <2> QED
    BY <1>1, <1>2, <1>3, <2>1, <2>2 DEF EntriesTyped, RuleIds
<1>8. ASSUME Ordered(log), NEW r \in RuleIds, IsSequence(r) PROVE Marked(r)' /\ NoneLeft(r, fed)'
  <2>1. Marked(r) /\ NoneLeft(r, fed)
    BY <1>8 DEF MatchInv
  <2>2. CASE MatchEnd(r, fed + 1) = None /\ NoneLeft(r, fed + 1)
    <3>1. marks'[r] = marks[r] /\ matchedAt'[r] = matchedAt[r]
      BY <1>2, <1>5, <1>8, <2>2 DEF Advance
    <3>2. Marked(r)'
      <4>1. matchedAt[r] \in Nat /\ matchedAt[r] <= fed /\ marks[r] = IF matchedAt[r] = 0 THEN 0 ELSE log[matchedAt[r]].ts
        BY <1>1, <2>1 DEF Marked, EntriesTyped
      <4>2. matchedAt[r] <= fed + 1
        BY <1>3, <4>1
      <4> QED
        BY <1>2, <3>1, <4>1, <4>2 DEF Marked
    <3>3. Considered(r, fed)' = Considered(r, fed + 1)
      BY <1>2, <3>1 DEF Considered, Oldest
    <3>4. NoneLeft(r, fed)'
      BY <1>2, <2>2, <3>3 DEF NoneLeft
    <3> QED
      BY <3>2, <3>4
  <2>3. CASE MatchEnd(r, fed + 1) # None /\ MatchEnd(r, fed + 1) = log[fed + 1].ts
    <3>1. marks'[r] = log[fed + 1].ts /\ matchedAt'[r] = fed + 1
      BY <1>2, <1>5, <1>8, <2>3 DEF Advance
    <3>2. Marked(r)'
      BY <1>2, <1>3, <3>1 DEF Marked
    <3>3. Considered(r, fed)' = {}
      <4> SUFFICES ASSUME NEW i \in DOMAIN log, i <= fed + 1, log[i].ts > log[fed + 1].ts PROVE FALSE
        BY <1>2, <3>1 DEF Considered
      <4>1. i \in 1..Len(log)
        BY <1>3
      <4>2. log[i].ts <= log[fed + 1].ts
        BY <1>3, <1>8, <4>1, OrderedAll
      <4> QED
        BY <1>3, <1>4, <4>1, <4>2
    <3>4. 1 \in 1..Len(Rules[r].steps)
      BY <1>8, SequenceRule
    <3>5. NoneLeft(r, fed)'
      BY <3>3, <3>4 DEF NoneLeft
    <3> QED
      BY <3>2, <3>5
  <2> QED
    BY <1>1, <1>2, <1>8, <2>1, <2>2, <2>3, MatchFound
<1> QED
  BY <1>2, <1>7, <1>8 DEF MatchInv, RuleIds, IsSequence

LEMMA MatchSame == MatchInv /\ UNCHANGED <<log, fed, marks, matchedAt>> /\ now' \in Nat \ {0} => MatchInv'
<1> SUFFICES ASSUME MatchInv, log' = log, fed' = fed, marks' = marks, matchedAt' = matchedAt, now' \in Nat \ {0}
             PROVE  MatchInv'
  OBVIOUS
<1>1. EntriesTyped'
  BY DEF MatchInv, EntriesTyped, RuleIds
<1>2. ASSUME NEW r \in RuleIds PROVE (Marked(r) => Marked(r)') /\ (NoneLeft(r, fed) => NoneLeft(r, fed)')
  <2>1. Considered(r, fed)' = Considered(r, fed)
    BY DEF Considered, Oldest
  <2> QED
    BY <2>1 DEF Marked, NoneLeft
<1>3. ASSUME NEW r \in RuleIds, IsSequence(r), Ordered(log') PROVE Marked(r)' /\ NoneLeft(r, fed)'
  BY <1>2, <1>3 DEF MatchInv
<1> QED
  BY <1>1, <1>3 DEF MatchInv, RuleIds, IsSequence

\* Only an evaluation moves the marks.
LEMMA MatchNext == AllParsed /\ MatchInv /\ [Next]_vars => MatchInv'
<1> SUFFICES ASSUME AllParsed, MatchInv, [Next]_vars PROVE MatchInv'
  OBVIOUS
<1>0. now \in Nat \ {0}
  BY DEF MatchInv, EntriesTyped
<1>1. CASE Tick
  BY <1>0, <1>1, MatchSame DEF Tick, ruleVars
<1>2. CASE UNCHANGED <<now, log, fed, marks, matchedAt>>
  BY <1>0, <1>2, MatchSame
<1>3. ASSUME NEW kind \in AnyKind, Logged(kind), UNCHANGED <<now, fed, marks, matchedAt>> PROVE MatchInv'
  BY <1>3, MatchLogged
<1>11. "CIRCUIT_BREAKER" \in AnyKind /\ "CHAIN_TAMPERED" \in AnyKind
  BY DEF AnyKind
<1>4. CASE OthersLog
  BY <1>3, <1>4 DEF OthersLog, ruleVars, AnyKind
<1>5. ASSUME ChainChecked, UNCHANGED <<now, fed, marks, matchedAt>> PROVE MatchInv'
  BY <1>2, <1>3, <1>5, <1>11 DEF ChainChecked
<1>6. CASE Submit
  BY <1>5, <1>6 DEF Submit, ruleVars
<1>7. CASE SubmitFails
  BY <1>2, <1>5, <1>7 DEF SubmitFails, ruleVars
<1>8. CASE BreakChain \/ Notify \/ SpawnRefused \/ SpawnCounted \/ Shutdown
  BY <1>2, <1>8 DEF BreakChain, Notify, SpawnRefused, SpawnCounted, Shutdown, clockVars, ruleVars
<1>9. ASSUME NEW w \in Worker, Work(w) PROVE MatchInv'
  <2>1. CASE CircuitBreak(w)
    BY <1>3, <1>11, <2>1 DEF CircuitBreak, ruleVars
  <2>2. CASE TakeJob(w) \/ FinishJob(w)
    BY <1>2, <2>2 DEF TakeJob, FinishJob, clockVars, ruleVars
  <2> QED
    BY <1>9, <2>1, <2>2 DEF Work
<1>10. CASE UNCHANGED vars
  BY <1>2, <1>10 DEF vars, clockVars, ruleVars
<1> QED
  BY <1>1, <1>4, <1>6, <1>7, <1>8, <1>9, <1>10, MatchEvaluate DEF Next, Watch

\* For any rules whose windows can be parsed, any buffer, threads and entries: while the times of the entries rise, no
\* occurrence of a sequence is left in the buffer after the last match (evaluate,
\* _sequence_marks).
THEOREM NothingOverlooked == AllParsed => (Spec => []NothingPending)
<1> SUFFICES ASSUME AllParsed PROVE Spec => []NothingPending
  OBVIOUS
<1>1. MatchInv => NothingPending
  <2> SUFFICES ASSUME MatchInv, \A i \in 2..Len(log) : log[i - 1].ts < log[i].ts,
                      NEW r \in RuleIds, IsSequence(r),
                      NEW f \in Occurrences(Rules[r].steps, Rules[r].window,
                                            SubSeq(log, Max({matchedAt[r] + 1, fed - BufferLen + 1}), fed))
               PROVE  FALSE
    BY DEF NothingPending
  <2>1. /\ EntriesTyped /\ log \in Seq(MatchEntry(AnyKind)) /\ Len(log) \in Nat /\ fed \in 0..Len(log) /\ fed \in Nat
        /\ matchedAt[r] \in Nat /\ BufferLen \in Nat \ {0} /\ DOMAIN log = 1..Len(log) /\ marks[r] \in Nat
    BY LimitAssumption DEF MatchInv, EntriesTyped
  <2>2. \A i \in 1..Len(log) : log[i].ts \in Nat /\ log[i].ts >= 1
    BY <2>1, EntryTime DEF EntriesTyped
  <2>3. Ordered(log)
    <3> SUFFICES ASSUME NEW i \in 2..Len(log) PROVE log[i - 1].ts <= log[i].ts
      BY DEF Ordered
    <3>1. log[i - 1].ts < log[i].ts /\ i \in 1..Len(log) /\ i - 1 \in 1..Len(log)
      BY <2>1
    <3> QED
      BY <2>2, <3>1
  <2>4. Marked(r) /\ NoneLeft(r, fed)
    BY <2>3 DEF MatchInv
  <2>5. PICK a : a = Max({matchedAt[r] + 1, fed - BufferLen + 1})
    OBVIOUS
  <2>6. a \in Int /\ a >= matchedAt[r] + 1 /\ a >= fed - BufferLen + 1
    <3>1. matchedAt[r] + 1 \in Int /\ fed - BufferLen + 1 \in Int
      BY <2>1
    <3>2. /\ a \in {matchedAt[r] + 1, fed - BufferLen + 1}
          /\ a >= matchedAt[r] + 1 /\ a >= fed - BufferLen + 1
      BY ONLY <2>5, <3>1, GreaterOf
    <3> QED
      BY <3>1, <3>2
  <2>7. Oldest(fed) \in Int /\ Oldest(fed) <= a
    <3>1. fed - BufferLen + 1 \in Int /\ 1 \in Int
      BY <2>1
    <3>2. Oldest(fed) \in {1, fed - BufferLen + 1}
      BY <3>1, GreaterOf DEF Oldest
    <3> QED
      BY <2>1, <2>6, <3>1, <3>2
  <2>8. PICK t : t = SubSeq(log, a, fed)
    OBVIOUS
  <2>9. /\ t \in Seq(MatchEntry(AnyKind)) /\ Len(t) = IF a <= fed THEN fed - a + 1 ELSE 0
        /\ \A i \in 1..(fed - a + 1) : t[i] = log[a + i - 1]
    <3>1. \A i \in a..fed : log[i] \in MatchEntry(AnyKind)
      BY <2>1, <2>6
    <3>2. fed \in Int
      BY <2>1
    <3> QED
      BY ONLY <2>6, <2>8, <3>1, <3>2, SubSeqProperties
  <2>10. PICK s : s = Rules[r].steps
    OBVIOUS
  <2>11. s \in Seq(SUBSET AnyKind) /\ s # <<>> /\ 1 \in 1..Len(s) /\ Len(s) \in 1..Len(s)
    BY <2>10, SequenceRule
  <2>12. Occurs(s, t, f) /\ t[f[Len(s)]].ts - t[f[1]].ts <= Rules[r].window
    BY <2>5, <2>8, <2>10, OccurrencesAre
  <2> DEFINE F == [k \in 1..Len(s) |-> a + f[k] - 1]
  <2>13. ASSUME NEW k \in 1..Len(s)
         PROVE  /\ F[k] \in 1..Len(log) /\ F[k] \in Nat /\ a <= F[k] /\ F[k] <= fed /\ f[k] \in Int
                /\ t[f[k]] = log[F[k]] /\ F[k] = a + f[k] - 1
    <3>1. f[k] \in 1..Len(t) /\ F[k] = a + f[k] - 1
      BY <2>12 DEF Occurs
    <3> HIDE DEF F
    <3>2. a <= fed /\ f[k] \in 1..(fed - a + 1)
      BY <2>1, <2>6, <2>9, <3>1
    <3>3. t[f[k]] = log[F[k]]
      BY <2>9, <3>1, <3>2
    <3>6. f[k] \in Int /\ 1 <= f[k] /\ f[k] <= fed - a + 1 /\ F[k] = a + f[k] - 1 /\ fed \in Int /\ a \in Int
      BY <2>1, <2>6, <3>1, <3>2
    <3>7. 1 <= a
      BY <2>1, <2>6
    <3>4. F[k] \in Int /\ a <= F[k] /\ F[k] <= fed /\ 1 <= a /\ f[k] \in Int
      BY <3>6, <3>7
    <3>5. F[k] \in 1..Len(log) /\ F[k] \in Nat
      BY <2>1, <2>6, <3>4
    <3> QED
      BY <3>1, <3>3, <3>4, <3>5
  <2> HIDE DEF F
  <2>14. ASSUME NEW k \in 1..Len(s) PROVE log[F[k]].ts > marks[r]
    <3>1. F[k] \in 1..Len(log) /\ F[k] \in Nat /\ F[k] >= matchedAt[r] + 1
      BY <2>1, <2>6, <2>13
    <3>2. CASE matchedAt[r] = 0
      BY <2>2, <2>4, <3>1, <3>2 DEF Marked
    <3>3. CASE matchedAt[r] # 0
      <4>1. F[k] \in 2..Len(log) /\ F[k] - 1 \in 1..Len(log) /\ matchedAt[r] \in 1..Len(log) /\ matchedAt[r] <= F[k] - 1
        BY <2>1, <3>1, <3>3
      <4>2. log[F[k] - 1].ts < log[F[k]].ts
        BY <4>1
      <4>3. log[matchedAt[r]].ts <= log[F[k] - 1].ts
        BY ONLY <2>1, <2>3, <4>1, OrderedAll
      <4>4. marks[r] = log[matchedAt[r]].ts
        BY <2>4, <3>3 DEF Marked
      <4>5. log[F[k]].ts \in Nat /\ log[F[k] - 1].ts \in Nat /\ log[matchedAt[r]].ts \in Nat
        BY <2>2, <3>1, <4>1
      <4> QED
        BY <4>2, <4>3, <4>4, <4>5
    <3> QED
      BY <3>2, <3>3
  <2>15. ASSUME NEW k \in 1..Len(s) PROVE F[k] \in Considered(r, fed)
    <3>1. F[k] \in 1..Len(log) /\ a <= F[k] /\ F[k] <= fed /\ log[F[k]].ts > marks[r] /\ F[k] \in Nat
      BY <2>13, <2>14
    <3>2. Oldest(fed) <= F[k]
      BY <2>6, <2>7, <3>1
    <3> QED
      BY <2>1, <3>1, <3>2 DEF Considered
  <2>16. Occurs(s, log, F)
    <3>1. F \in [1..Len(s) -> 1..Len(log)]
      BY <2>13 DEF F
    <3>2. \A k \in 1..Len(s) : log[F[k]].kind \in s[k]
      BY <2>12, <2>13 DEF Occurs
    <3>3. ASSUME NEW k \in 1..Len(s), k > 1 PROVE F[k - 1] < F[k]
      <4>1. k - 1 \in 1..Len(s) /\ f[k - 1] < f[k]
        BY <2>12, <3>3 DEF Occurs
      <4>2. f[k - 1] \in Int /\ f[k] \in Int /\ F[k] = a + f[k] - 1 /\ F[k - 1] = a + f[k - 1] - 1
        BY <2>13, <4>1
      <4> QED
        BY <2>6, <4>1, <4>2
    <3> QED
      BY <3>1, <3>2, <3>3 DEF Occurs
  <2>17. log[F[Len(s)]].ts - log[F[1]].ts <= Rules[r].window
    BY <2>11, <2>12, <2>13
  <2> QED
    BY <2>4, <2>10, <2>15, <2>16, <2>17 DEF NoneLeft
<1>2. MatchInv /\ [Next]_vars => MatchInv'
  BY MatchNext
<1> QED
  BY <1>1, <1>2, MatchInit, PTL DEF Spec

\* If log() gives every entry the time of its append, the entries are in order.
NoLateEntry == \A i \in 1..Len(log) : log[i].ts <= now

OrderInv == MatchInv /\ Ordered(log) /\ NoLateEntry

LEMMA OrderLogged ==
  ASSUME Skew = 0, OrderInv, NEW kind \in AnyKind, Logged(kind), now' = now
  PROVE  Ordered(log)' /\ NoLateEntry'
<1>1. EntriesTyped
  BY DEF OrderInv, MatchInv
<1>2. PICK ts \in Nat \ {0} : ts = now /\ log' = Append(log, [kind |-> kind, ts |-> ts])
  BY <1>1, LoggedTyped
<1>3. PICK x : x = [kind |-> kind, ts |-> ts]
  OBVIOUS
<1>4. PICK L : L = Len(log)
  OBVIOUS
<1>5. log \in Seq(MatchEntry(AnyKind)) /\ x \in MatchEntry(AnyKind) /\ x.ts = now /\ log' = Append(log, x) /\ now \in Nat
  BY <1>1, <1>2, <1>3 DEF EntriesTyped, MatchEntry
<1>6. L \in Nat /\ Len(log') = L + 1 /\ (\A i \in 1..L : log'[i] = log[i]) /\ log'[L + 1] = x
  BY <1>4, <1>5
<1>7. \A i \in 1..(L + 1) : log'[i].ts <= now
  <2>1. \A i \in 1..L : log[i].ts <= now
    BY <1>4 DEF OrderInv, NoLateEntry
  <2> QED
    BY <1>5, <1>6, <2>1
<1>8. ASSUME NEW i \in 2..(L + 1) PROVE log'[i - 1].ts <= log'[i].ts
  <2>1. CASE i = L + 1
    <3>1. i - 1 \in 1..(L + 1)
      BY <1>6
    <3> QED
      BY <1>5, <1>6, <1>7, <2>1, <3>1
  <2>2. CASE i # L + 1
    <3>1. i \in 2..L /\ i \in 1..L /\ i - 1 \in 1..L
      BY <1>6, <2>2
    <3>2. log[i - 1].ts <= log[i].ts
      BY <1>4, <3>1 DEF OrderInv, Ordered
    <3> QED
      BY <1>6, <3>1, <3>2
  <2> QED
    BY <2>1, <2>2
<1> QED
  BY <1>6, <1>7, <1>8 DEF Ordered, NoLateEntry

LEMMA OrderNext == AllParsed /\ Skew = 0 /\ OrderInv /\ [Next]_vars => OrderInv'
<1> SUFFICES ASSUME AllParsed, Skew = 0, OrderInv, [Next]_vars PROVE Ordered(log)' /\ NoLateEntry'
  BY MatchNext DEF OrderInv
<1>1. CASE UNCHANGED <<now, log>>
  BY <1>1 DEF OrderInv, Ordered, NoLateEntry
<1>2. ASSUME NEW kind \in AnyKind, Logged(kind), now' = now PROVE Ordered(log)' /\ NoLateEntry'
  BY <1>2, OrderLogged
<1>3. "CIRCUIT_BREAKER" \in AnyKind /\ "CHAIN_TAMPERED" \in AnyKind
  BY DEF AnyKind
<1>4. CASE Tick
  <2>1. log' = log /\ now' = now + 1 /\ now \in Nat /\ log \in Seq(MatchEntry(AnyKind))
    BY <1>4 DEF Tick, OrderInv, MatchInv, EntriesTyped
  <2>2. \A i \in 1..Len(log) : log[i].ts \in Nat /\ log[i].ts <= now
    BY <2>1, EntryTime DEF OrderInv, NoLateEntry
  <2> QED
    BY <2>1, <2>2 DEF OrderInv, Ordered, NoLateEntry
<1>5. CASE OthersLog
  BY <1>2, <1>5 DEF OthersLog, AnyKind
<1>6. ASSUME ChainChecked, now' = now PROVE Ordered(log)' /\ NoLateEntry'
  BY <1>1, <1>2, <1>3, <1>6 DEF ChainChecked
<1>7. CASE Submit
  BY <1>6, <1>7 DEF Submit
<1>8. CASE SubmitFails
  BY <1>1, <1>6, <1>8 DEF SubmitFails
<1>9. CASE Evaluate \/ BreakChain \/ Notify \/ SpawnRefused \/ SpawnCounted \/ Shutdown
  BY <1>1, <1>9 DEF Evaluate, BreakChain, Notify, SpawnRefused, SpawnCounted, Shutdown, clockVars
<1>10. ASSUME NEW w \in Worker, Work(w) PROVE Ordered(log)' /\ NoLateEntry'
  <2>1. CASE CircuitBreak(w)
    BY <1>2, <1>3, <2>1 DEF CircuitBreak
  <2>2. CASE TakeJob(w) \/ FinishJob(w)
    BY <1>1, <2>2 DEF TakeJob, FinishJob, clockVars
  <2> QED
    BY <1>10, <2>1, <2>2 DEF Work
<1>11. CASE UNCHANGED vars
  BY <1>1, <1>11 DEF vars, clockVars
<1> QED
  BY <1>4, <1>5, <1>7, <1>8, <1>9, <1>10, <1>11 DEF Next, Watch

\* For any rules whose windows can be parsed, any buffer and threads: if log() gives every entry the time of its append,
\* as many entries as a rule has steps are evaluated from one of its matches to the
\* next, so that none counts for two (evaluate, _sequence_marks). With late entries the
\* code does not keep this (reactive_consumed).
THEOREM MatchesFresh == AllParsed /\ Skew = 0 => (Spec => FreshMatches)
<1> SUFFICES ASSUME AllParsed, Skew = 0 PROVE Spec => FreshMatches
  OBVIOUS
<1>1. Init => OrderInv
  <2> SUFFICES ASSUME Init PROVE Ordered(log) /\ NoLateEntry
    BY MatchInit DEF OrderInv
  <2>1. log = <<>>
    BY DEF Init
  <2> QED
    BY <2>1 DEF Ordered, NoLateEntry
<1>2. OrderInv /\ [Next]_vars =>
        [\A r \in RuleIds : matchedAt'[r] # matchedAt[r] => matchedAt'[r] - matchedAt[r] >= Len(Rules[r].steps)]_vars
  <2> SUFFICES ASSUME OrderInv, [Next]_vars, NEW r \in RuleIds, matchedAt'[r] # matchedAt[r]
               PROVE  matchedAt'[r] - matchedAt[r] >= Len(Rules[r].steps)
    OBVIOUS
  <2>1. Evaluate
    BY DEF Next, Watch, Work, vars, ruleVars, Tick, OthersLog, BreakChain, Notify, SpawnRefused,
           SpawnCounted, Submit, SubmitFails, TakeJob, CircuitBreak, FinishJob, Shutdown
  <2>2. PICK e : e = log[fed + 1]
    OBVIOUS
  <2>3. fed < Len(log) /\ matchedAt'[r] = fed + 1 /\ IsSequence(r) /\ Ready(r, e)
    BY <2>1, <2>2 DEF Evaluate
  <2>4. MatchEnd(r, fed + 1) # None
    BY <2>3 DEF Ready, Counts
  <2>5. EntriesTyped /\ Ordered(log) /\ Marked(r) /\ NoneLeft(r, fed)
    BY <2>3 DEF OrderInv, MatchInv
  <2>6. fed + 1 - matchedAt[r] >= Len(Rules[r].steps)
    BY <2>3, <2>4, <2>5, MatchFound
  <2>7. fed \in Nat /\ matchedAt[r] \in Nat
    BY <2>5 DEF EntriesTyped
  <2>8. matchedAt'[r] = fed + 1
    BY <2>3
  <2> QED
    BY <2>6, <2>7, <2>8
<1>3. OrderInv /\ [Next]_vars => OrderInv'
  BY OrderNext
<1> QED
  BY <1>1, <1>2, <1>3, PTL DEF Spec, FreshMatches
=============================================================================
