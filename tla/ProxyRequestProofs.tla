------------------------- MODULE ProxyRequestProofs -------------------------
(***************************************************************************)
(* The rate limiter, the coalescing of its entries, the escalation tracker *)
(* and the refresh of the Anthropic key: for any hosts, limits, windows    *)
(* and intervals.                                                          *)
(*                                                                         *)
(* Each part has an invariant of its own, which the other parts and the    *)
(* clock keep. That of the limiter says that a deque holds the newest of   *)
(* the requests under the limit and that all older ones are out of the     *)
(* window; that of the engine, that the coalescing time of a host is the   *)
(* time of its last entry; that of the tracker, that a count is the length *)
(* of the host's last run of anomalies, and a host without one has none    *)
(* that could go on; that of the key, that a refresh later than the last   *)
(* change of auth.json has read what is there now.                         *)
(***************************************************************************)
EXTENDS ProxyRequest, WellFoundedInduction, SequenceTheorems, TLAPS

Clock == now \in Nat /\ now <= MaxTime /\ 1 <= now
ClockMoves == Clock /\ now' \in Nat /\ now <= now' /\ now' <= MaxTime

(* ---- the timestamps that popleft() leaves ------------------------------- *)

Before == {p \in Nat \X Nat : p[1] < p[2]}

\* A set of numbers has a least one.
LEMMA Least ==
  ASSUME NEW T, T \subseteq Nat, T # {}
  PROVE  \E x \in T : \A y \in T : x <= y
<1>1. IsWellFoundedOn(Before, Nat)
  <2>1. OpToRel(<, Nat) = Before
    BY Zenon DEF OpToRel, Before
  <2> QED
    BY <2>1, NatLessThanWellFounded, Zenon
<1>2. PICK x \in T : \A y \in T : ~(<<y, x>> \in Before)
  BY <1>1, WFMin, Zenon
<1>3. ASSUME NEW y \in T PROVE x <= y
  <2>1. x \in Nat /\ y \in Nat /\ <<y, x>> \notin Before
    BY <1>2
  <2> QED
    BY <2>1 DEF Before
<1> QED
  BY <1>3

\* popleft() ends, at the first time within the window or at the end.
LEMMA FirstInWindowExists ==
  ASSUME Clock, NEW times \in Seq(Nat)
  PROVE  LET k == FirstInWindow(times)
         IN /\ k \in 1..(Len(times) + 1)
            /\ \A i \in 1..(k - 1) : times[i] < now - Window
<1> DEFINE Late == {k \in 1..Len(times) : times[k] >= now - Window} \cup {Len(times) + 1}
<1>1. Window \in Nat /\ now \in Nat /\ Len(times) \in Nat
  BY ProxyAssumption DEF Clock
<1>2. Late \subseteq Nat /\ Late # {}
  BY <1>1
<1>3. PICK k \in Late : \A y \in Late : k <= y
  BY <1>2, Least
<1>4. k \in 1..(Len(times) + 1)
  BY <1>1, <1>3
<1>5. \A i \in 1..(k - 1) : times[i] < now - Window
  <2> SUFFICES ASSUME NEW i \in 1..(k - 1) PROVE times[i] < now - Window
    OBVIOUS
  <2>1. i \in 1..Len(times) /\ i \notin Late
    BY <1>1, <1>3, <1>4
  <2>2. times[i] \in Nat
    BY <2>1
  <2> QED
    BY <1>1, <2>1, <2>2
<1>6. k <= Len(times) => times[k] >= now - Window
  BY <1>1, <1>3
<1> QED
  BY <1>4, <1>5, <1>6 DEF FirstInWindow

(* ---- the limiter -------------------------------------------------------- *)

\* The deque of h; a host that was pruned, or never seen, has none.
Kept(h) == IF h \in DOMAIN timestamps THEN timestamps[h] ELSE <<>>

\* Some times are the newest of all of them, in order, and the others are out of
\* the window.
Newest(times, all) ==
  LET older == Len(all) - Len(times)
  IN /\ older >= 0
     /\ \A i \in 1..Len(times) : times[i] = all[older + i]
     /\ \A i \in 1..older : all[i] < now - Window
     /\ \A i, j \in 1..Len(times) : i <= j => times[i] <= times[j]

LimiterInv ==
  /\ limiterPruned \in Time
  /\ IsDictionary(timestamps, Seq(Time))
  /\ under \in HostTimes
  /\ \A h \in Host : Len(Kept(h)) <= Limit /\ Newest(Kept(h), under[h])
  /\ RateWindow

\* The times of a host are numbers.
LEMMA TimesAreNumbers ==
  ASSUME Clock, NEW s \in Seq(Time)
  PROVE  /\ s \in Seq(Nat) /\ Len(s) \in Nat
         /\ \A i \in 1..Len(s) : s[i] \in Nat /\ 1 <= s[i] /\ s[i] <= now
         /\ ClockMoves => s \in Seq(Time')
<1>1. Len(s) \in Nat /\ s \in [1..Len(s) -> Time]
  OBVIOUS
<1>2. \A i \in 1..Len(s) : s[i] \in Nat /\ 1 <= s[i] /\ s[i] <= now
  BY <1>1 DEF Time, Clock
<1>3. s \in Seq(Nat)
  BY <1>1, <1>2
<1>4. ASSUME ClockMoves PROVE s \in Seq(Time')
  <2>1. \A i \in 1..Len(s) : s[i] \in Time'
    <3> SUFFICES ASSUME NEW i \in 1..Len(s) PROVE s[i] \in Time'
      OBVIOUS
    <3>1. s[i] \in Nat /\ 1 <= s[i] /\ s[i] <= now
      BY <1>2
    <3>2. now \in Nat /\ now' \in Nat /\ now <= now'
      BY <1>4 DEF ClockMoves, Clock
    <3> QED
      BY <3>1, <3>2 DEF Time
  <2> QED
    BY <1>1, <2>1
<1> QED
  BY <1>1, <1>2, <1>3, <1>4

\* No request, and an empty deque for each host.
LEMMA LimiterInit == Init => Clock /\ LimiterInv
<1> SUFFICES ASSUME Init PROVE Clock /\ LimiterInv
  OBVIOUS
<1>1. Clock /\ 1 \in Time
  BY ProxyAssumption DEF Init, Clock, Time
<1>2. DOMAIN timestamps = {} /\ IsDictionary(timestamps, Seq(Time))
  BY DEF Init, Empty, IsDictionary
<1>3. under \in HostTimes /\ \A h \in Host : under[h] = <<>>
  BY DEF Init, HostTimes
<1>4. \A h \in Host : Len(Kept(h)) <= Limit /\ Newest(Kept(h), under[h])
  BY <1>2, <1>3, ProxyAssumption DEF Kept, Newest
<1>5. RateWindow
  BY <1>3, ProxyAssumption DEF RateWindow
<1> QED
  BY <1>1, <1>2, <1>3, <1>4, <1>5 DEF LimiterInv, Init

\* The other parts, and the clock.
LEMMA LimiterKept == LimiterInv /\ ClockMoves /\ UNCHANGED limiterVars => LimiterInv'
<1> SUFFICES ASSUME LimiterInv, ClockMoves, UNCHANGED limiterVars PROVE LimiterInv'
  OBVIOUS
<1> USE DEF limiterVars
<1>1. limiterPruned' \in Time'
  BY DEF LimiterInv, ClockMoves, Clock, Time
<1>2. IsDictionary(timestamps, Seq(Time))'
  BY TimesAreNumbers DEF LimiterInv, ClockMoves, IsDictionary
<1>3. under' \in HostTimes'
  BY TimesAreNumbers DEF LimiterInv, ClockMoves, HostTimes
<1>4. ASSUME NEW h \in Host PROVE (Len(Kept(h)) <= Limit /\ Newest(Kept(h), under[h]))'
  <2>1. Kept(h)' = Kept(h) /\ Len(Kept(h)) <= Limit /\ Newest(Kept(h), under[h])
    BY DEF LimiterInv, Kept
  <2>2. under[h] \in Seq(Time)
    BY DEF LimiterInv, HostTimes
  <2>3. \A i \in 1..Len(under[h]) : under[h][i] \in Nat
    BY <2>2, TimesAreNumbers DEF ClockMoves
  <2>4. Kept(h) \in Seq(Time)
    BY DEF LimiterInv, IsDictionary, Kept
  <2>5. Window \in Nat /\ Len(under[h]) \in Nat /\ Len(Kept(h)) \in Nat
    BY <2>2, <2>4, ProxyAssumption
  <2> QED
    <3> DEFINE older == Len(under[h]) - Len(Kept(h))
    <3>1. ASSUME NEW i \in 1..older PROVE under[h][i] < now' - Window
      <4>1. i \in 1..Len(under[h])
        BY <2>5
      <4>2. under[h][i] \in Nat /\ under[h][i] < now - Window
        BY <2>1, <2>3, <4>1 DEF Newest
      <4> QED
        BY <2>5, <4>2 DEF ClockMoves, Clock
    <3>2. under' = under
      OBVIOUS
    <3> QED
      BY <2>1, <3>1, <3>2 DEF Newest
<1>5. RateWindow'
  BY DEF LimiterInv, RateWindow
<1> QED
  BY <1>1, <1>2, <1>3, <1>4, <1>5 DEF LimiterInv

\* A host whose newest request is out of the window has none in it.
LEMMA StaleIsOld ==
  ASSUME Clock, LimiterInv, NEW h \in Host, h \in StaleHosts
  PROVE  Newest(<<>>, under[h])
<1>1. h \in DOMAIN timestamps /\ Kept(h) = timestamps[h] /\ Newest(Kept(h), under[h])
  BY DEF StaleHosts, LimiterInv, Kept
<1>2. Kept(h) \in Seq(Time) /\ under[h] \in Seq(Time)
  BY <1>1 DEF LimiterInv, IsDictionary, HostTimes
<1>3. /\ \A i \in 1..Len(Kept(h)) : Kept(h)[i] \in Nat
      /\ \A i \in 1..Len(under[h]) : under[h][i] \in Nat
      /\ Len(Kept(h)) \in Nat /\ Len(under[h]) \in Nat
  BY <1>2, TimesAreNumbers
<1>4. Window \in Nat /\ now \in Nat
  BY ProxyAssumption DEF Clock
<1>5. Kept(h) # <<>> => Kept(h)[Len(Kept(h))] < now - Window
  BY <1>1 DEF StaleHosts
<1>6. \A i \in 1..Len(Kept(h)) : Kept(h)[i] < now - Window
  <2> SUFFICES ASSUME NEW i \in 1..Len(Kept(h)) PROVE Kept(h)[i] < now - Window
    OBVIOUS
  <2>1. Kept(h) # <<>> /\ Len(Kept(h)) \in 1..Len(Kept(h)) /\ i <= Len(Kept(h))
    BY <1>3
  <2>2. Kept(h)[i] <= Kept(h)[Len(Kept(h))]
    BY <1>1, <2>1 DEF Newest
  <2> QED
    BY <1>3, <1>4, <1>5, <2>1, <2>2
<1>7. \A i \in 1..Len(under[h]) : under[h][i] < now - Window
  <2> SUFFICES ASSUME NEW i \in 1..Len(under[h]) PROVE under[h][i] < now - Window
    OBVIOUS
  <2> DEFINE older == Len(under[h]) - Len(Kept(h))
  <2>1. CASE i <= older
    BY <1>1, <1>3, <2>1 DEF Newest
  <2>2. CASE i > older
    <3>1. i - older \in 1..Len(Kept(h)) /\ older + (i - older) = i
      <4>1. Len(Kept(h)) \in Nat /\ older \in Int /\ i \in Nat /\ i <= older + Len(Kept(h))
        BY <1>3
      <4> HIDE DEF older
      <4> QED
        BY <2>2, <4>1
    <3>2. Kept(h)[i - older] = under[h][older + (i - older)]
      BY <1>1, <3>1 DEF Newest
    <3> QED
      BY <1>6, <3>1, <3>2
  <2> QED
    BY <1>3, <2>1, <2>2
<1> QED
  BY <1>3, <1>7 DEF Newest

\* What the limiter counts are the newest requests of the host, and all of
\* those that are in the window.
LEMMA InWindowIsNewest ==
  ASSUME Clock, LimiterInv, NEW h \in Host
  PROVE  /\ InWindow(h) \in Seq(Time)
         /\ Len(InWindow(h)) <= Limit
         /\ Newest(InWindow(h), under[h])
<1>1. under[h] \in Seq(Time) /\ Kept(h) \in Seq(Time) /\ Newest(Kept(h), under[h]) /\ Len(Kept(h)) <= Limit
  BY DEF LimiterInv, IsDictionary, HostTimes, Kept
<1>2. Limit \in Nat /\ Window \in Nat /\ now \in Nat
  BY ProxyAssumption DEF Clock
<1>3. /\ \A i \in 1..Len(Kept(h)) : Kept(h)[i] \in Nat
      /\ \A i \in 1..Len(under[h]) : under[h][i] \in Nat
      /\ Len(Kept(h)) \in Nat /\ Len(under[h]) \in Nat /\ Kept(h) \in Seq(Nat)
  BY <1>1, TimesAreNumbers
<1>4. CASE h \in DOMAIN timestamps \ StaleHosts
  <2> DEFINE n == Len(Kept(h))
             k == FirstInWindow(Kept(h))
             left == InWindow(h)
  <2>1. k \in 1..(n + 1) /\ \A i \in 1..(k - 1) : Kept(h)[i] < now - Window
    BY <1>3, FirstInWindowExists
  <2>0. k \in Nat /\ n \in Nat /\ Len(under[h]) \in Nat /\ 1 <= k /\ k <= n + 1
    BY <1>3, <2>1
  <2>2. left = SubSeq(Kept(h), k, n)
    BY <1>4 DEF InWindow, Kept
  <2>3. k \in Int /\ n \in Int /\ \A i \in k..n : Kept(h)[i] \in Time
    BY <1>1, <1>3, <2>1
  <2>4. /\ left \in Seq(Time)
        /\ Len(left) = IF k <= n THEN n - k + 1 ELSE 0
        /\ \A i \in 1..(n - k + 1) : left[i] = Kept(h)[k + i - 1]
    <3> HIDE DEF k, n, left
    <3> QED
      BY <2>2, <2>3, SubSeqProperties
  <2>5. Len(left) = n - k + 1
    BY <1>3, <2>1, <2>4
  <2> DEFINE gap == Len(under[h]) - n
  <2>6. \A i \in 1..Len(left) : left[i] = under[h][(gap + k - 1) + i]
    <3> SUFFICES ASSUME NEW i \in 1..Len(left) PROVE left[i] = under[h][(gap + k - 1) + i]
      OBVIOUS
    <3>1. k + i - 1 \in 1..n /\ gap + (k + i - 1) = (gap + k - 1) + i
      <4>1. i \in Nat /\ 1 <= i /\ i <= n - k + 1 /\ gap \in Int
        BY <2>0, <2>5
      <4> HIDE DEF k, n, gap
      <4> QED
        BY <2>0, <4>1
    <3>2. Kept(h)[k + i - 1] = under[h][gap + (k + i - 1)]
      BY <1>1, <3>1 DEF Newest
    <3> QED
      BY <2>4, <2>5, <3>1, <3>2
  <2>7. \A i \in 1..(gap + k - 1) : under[h][i] < now - Window
    <3> SUFFICES ASSUME NEW i \in 1..(gap + k - 1) PROVE under[h][i] < now - Window
      OBVIOUS
    <3>1. CASE i <= gap
      BY <1>1, <1>3, <3>1 DEF Newest
    <3>2. CASE i > gap
      <4>1. i - gap \in 1..(k - 1) /\ i - gap \in 1..n /\ gap + (i - gap) = i
        <5>1. gap \in Int /\ i \in Int /\ i <= gap + k - 1
          BY <2>0
        <5> HIDE DEF gap, k, n
        <5> QED
          BY <2>0, <3>2, <5>1
      <4>2. Kept(h)[i - gap] = under[h][gap + (i - gap)]
        BY <1>1, <4>1 DEF Newest
      <4> QED
        BY <2>1, <4>1, <4>2
    <3> QED
      BY <1>3, <2>1, <3>1, <3>2
  <2>8. \A i, j \in 1..Len(left) : i <= j => left[i] <= left[j]
    <3> SUFFICES ASSUME NEW i \in 1..Len(left), NEW j \in 1..Len(left), i <= j
                 PROVE  left[i] <= left[j]
      OBVIOUS
    <3>1. k + i - 1 \in 1..n /\ k + j - 1 \in 1..n /\ k + i - 1 <= k + j - 1
      <4>1. i \in Nat /\ j \in Nat /\ 1 <= i /\ i <= n - k + 1 /\ 1 <= j /\ j <= n - k + 1
        BY <2>0, <2>5
      <4> HIDE DEF k, n
      <4> QED
        BY <2>0, <4>1
    <3>2. Kept(h)[k + i - 1] <= Kept(h)[k + j - 1]
      BY <1>1, <3>1 DEF Newest
    <3> QED
      BY <2>4, <2>5, <3>2
  <2>9. Len(under[h]) - Len(left) = gap + k - 1 /\ gap + k - 1 >= 0 /\ Len(left) <= Limit
    BY <1>1, <1>2, <1>3, <2>1, <2>5 DEF Newest
  <2>10. Newest(left, under[h])
    <3> HIDE DEF left, gap, k
    <3> QED
      BY <2>6, <2>7, <2>8, <2>9 DEF Newest
  <2> QED
    BY <2>4, <2>9, <2>10
<1>5. CASE h \in StaleHosts
  BY <1>2, <1>5, StaleIsOld DEF InWindow
<1>6. CASE h \notin DOMAIN timestamps
  BY <1>1, <1>2, <1>6 DEF InWindow, Kept
<1> QED
  BY <1>4, <1>5, <1>6

Joins(time, times, new) == new = Append(times, time)

\* A request under the limit joins both; the one Limit before it is out of the window.
LEMMA UnderLimit ==
  ASSUME Clock, LimiterInv, NEW h \in Host, Len(InWindow(h)) < Limit,
         NEW new, Joins(now, under[h], new), NEW times, Joins(now, InWindow(h), times)
  PROVE  /\ new \in Seq(Time) /\ times \in Seq(Time) /\ Len(times) <= Limit
         /\ Newest(times, new)
         /\ \A i \in 1..(Len(new) - Limit) : new[i + Limit] - new[i] > Window
<1> DEFINE left == InWindow(h)
           n == Len(under[h])
           m == Len(left)
           older == n - m
<1>1. under[h] \in Seq(Time) /\ left \in Seq(Time) /\ now \in Time /\ Newest(left, under[h])
  BY InWindowIsNewest DEF LimiterInv, HostTimes, Clock, Time
<1>2. /\ n \in Nat /\ m \in Nat /\ older >= 0 /\ m < Limit
      /\ Limit \in Nat /\ Limit >= 1 /\ Window \in Nat /\ now \in Nat
  BY <1>1, ProxyAssumption DEF Clock, Newest
<1>3. /\ \A i \in 1..n : under[h][i] \in Nat /\ under[h][i] <= now
      /\ \A i \in 1..m : left[i] \in Nat /\ left[i] <= now
  BY <1>1, TimesAreNumbers
<1>4. /\ new \in Seq(Time) /\ Len(new) = n + 1 /\ new[n + 1] = now
      /\ \A i \in 1..n : new[i] = under[h][i]
  BY <1>1 DEF Joins
<1>5. /\ times \in Seq(Time) /\ Len(times) = m + 1 /\ times[m + 1] = now
      /\ \A i \in 1..m : times[i] = left[i]
  BY <1>1 DEF Joins
<1>6. /\ \A i \in 1..m : left[i] = under[h][older + i]
      /\ \A i \in 1..older : under[h][i] < now - Window
      /\ \A i, j \in 1..m : i <= j => left[i] <= left[j]
  BY <1>1 DEF Newest
<1>7. \A i \in 1..(n - Limit) : under[h][i + Limit] - under[h][i] > Window
  BY DEF LimiterInv, RateWindow
<1> HIDE DEF left, n, m
<1>8. older \in Nat /\ Len(new) - Len(times) = older
  BY <1>2, <1>4, <1>5
<1>9. ASSUME NEW i \in 1..(m + 1) PROVE times[i] = new[older + i]
  <2>1. CASE i = m + 1
    <3>1. older + i = n + 1
      BY <1>2, <2>1
    <3> QED
      BY <1>4, <1>5, <2>1, <3>1
  <2>2. CASE i # m + 1
    <3>1. i \in 1..m /\ older + i \in 1..n
      BY <1>2, <2>2
    <3> QED
      BY <1>4, <1>5, <1>6, <3>1
  <2> QED
    BY <2>1, <2>2
<1>10. ASSUME NEW i \in 1..older PROVE new[i] < now - Window
  <2>1. i \in 1..n
    BY <1>2
  <2> QED
    BY <1>4, <1>6, <2>1
<1>11. ASSUME NEW i \in 1..(m + 1), NEW j \in 1..(m + 1), i <= j PROVE times[i] <= times[j]
  <2>1. i \in 1..m \/ i = m + 1
    BY <1>2
  <2>2. j \in 1..m \/ j = m + 1
    BY <1>2
  <2>3. CASE i = m + 1
    <3>1. j = m + 1
      BY <1>2, <1>11, <2>2, <2>3
    <3> QED
      BY <1>2, <1>5, <2>3, <3>1
  <2>4. CASE i \in 1..m /\ j = m + 1
    BY <1>3, <1>5, <2>4
  <2>5. CASE i \in 1..m /\ j \in 1..m
    BY <1>5, <1>6, <1>11, <2>5
  <2> QED
    BY <2>1, <2>2, <2>3, <2>4, <2>5
<1>12. ASSUME NEW i \in 1..(Len(new) - Limit) PROVE new[i + Limit] - new[i] > Window
  <2>0. i \in 1..(n + 1 - Limit)
    BY <1>2, <1>4
  <2>1. i \in 1..n /\ new[i] = under[h][i] /\ under[h][i] \in Nat
    <3>1. i \in 1..n
      BY <1>2, <2>0
    <3> QED
      BY <1>3, <1>4, <3>1
  <2>2. CASE i + Limit = n + 1
    <3>1. i \in 1..older
      BY <1>2, <2>0, <2>2
    <3>2. new[i + Limit] = now /\ new[i] \in Nat /\ new[i] < now - Window
      BY <1>4, <1>6, <2>1, <2>2, <3>1
    <3> QED
      BY <1>2, <3>2
  <2>3. CASE i + Limit # n + 1
    <3>1. i + Limit \in 1..n /\ i \in 1..(n - Limit)
      BY <1>2, <2>0, <2>3
    <3> QED
      BY <1>4, <1>7, <2>1, <3>1
  <2> QED
    BY <2>2, <2>3
<1> HIDE DEF older
<1>13. Newest(times, new)
  BY <1>5, <1>8, <1>9, <1>10, <1>11 DEF Newest
<1>14. Len(times) <= Limit
  BY <1>2, <1>5
<1> QED
  BY <1>4, <1>5, <1>12, <1>13, <1>14

\* _check_rate_limit.
LEMMA LimiterRequest ==
  ASSUME Clock, LimiterInv, NEW h \in Host, CheckRateLimit(h), now' = now
  PROVE  LimiterInv'
<1> DEFINE over == Len(InWindow(h)) >= Limit
           times == IF over THEN InWindow(h) ELSE Append(InWindow(h), now)
<1>1. /\ timestamps' = Put(Without(timestamps, StaleHosts), h, times)
      /\ limiterPruned' \in {limiterPruned, now}
      /\ under' = IF over THEN under ELSE [under EXCEPT ![h] = Append(@, now)]
  BY DEF CheckRateLimit
<1>2. /\ Limit \in Nat /\ now \in Time /\ Time' = Time
      /\ under \in HostTimes /\ InWindow(h) \in Seq(Time) /\ Len(InWindow(h)) \in Nat
  BY InWindowIsNewest, ProxyAssumption DEF Clock, Time, LimiterInv
<1>3. /\ times \in Seq(Time) /\ Len(times) <= Limit
      /\ under' \in HostTimes
      /\ \A g \in Host \ {h} : under'[g] = under[g]
      /\ Newest(times, under'[h])
      /\ \A i \in 1..(Len(under'[h]) - Limit) : under'[h][i + Limit] - under'[h][i] > Window
  <2>1. CASE over
    <3>1. under' = under /\ times = InWindow(h)
      BY <1>1, <2>1
    <3>2. Newest(times, under[h]) /\ times \in Seq(Time) /\ Len(times) <= Limit
      BY <3>1, InWindowIsNewest
    <3>3. \A i \in 1..(Len(under[h]) - Limit) : under[h][i + Limit] - under[h][i] > Window
      BY DEF LimiterInv, RateWindow
    <3> HIDE DEF times
    <3> QED
      BY <1>2, <3>1, <3>2, <3>3
  <2>2. CASE ~over
    <3>1. /\ under' = [under EXCEPT ![h] = Append(@, now)]
          /\ times = Append(InWindow(h), now) /\ Len(InWindow(h)) < Limit
      BY <1>1, <1>2, <2>2
    <3>2. under'[h] = Append(under[h], now) /\ \A g \in Host \ {h} : under'[g] = under[g]
      BY <1>2, <3>1 DEF HostTimes
    <3> HIDE DEF times
    <3>3. /\ times \in Seq(Time) /\ Len(times) <= Limit /\ under'[h] \in Seq(Time)
          /\ Newest(times, under'[h])
          /\ \A i \in 1..(Len(under'[h]) - Limit) : under'[h][i + Limit] - under'[h][i] > Window
      BY <3>1, <3>2, UnderLimit DEF Joins
    <3>4. under' \in HostTimes
      BY <1>2, <3>1, <3>2, <3>3 DEF HostTimes
    <3> QED
      BY <3>2, <3>3, <3>4
  <2> QED
    BY <2>1, <2>2
<1> HIDE DEF times, over
<1>4. /\ DOMAIN timestamps' = (DOMAIN timestamps \ StaleHosts) \cup {h}
      /\ timestamps'[h] = times
      /\ \A g \in DOMAIN timestamps' \ {h} : timestamps'[g] = timestamps[g]
  BY <1>1 DEF Put, Without, Restrict
<1>5. IsDictionary(timestamps, Seq(Time))'
  BY <1>2, <1>3, <1>4 DEF LimiterInv, IsDictionary
<1>6. ASSUME NEW g \in Host PROVE (Len(Kept(g)) <= Limit /\ Newest(Kept(g), under[g]))'
  <2>1. CASE g = h
    <3>1. Kept(g)' = times
      BY <1>4, <2>1 DEF Kept
    <3> QED
      BY <1>3, <2>1, <3>1 DEF Newest
  <2>2. CASE g # h
    <3>1. under'[g] = under[g]
      BY <1>3, <2>2
    <3>2. CASE g \in StaleHosts
      <4>1. Kept(g)' = <<>> /\ Newest(<<>>, under[g])
        BY <1>4, <2>2, <3>2, StaleIsOld DEF Kept
      <4> QED
        BY <1>2, <3>1, <4>1 DEF Newest
    <3>3. CASE g \notin StaleHosts
      <4>1. Kept(g)' = Kept(g) /\ Newest(Kept(g), under[g]) /\ Len(Kept(g)) <= Limit
        BY <1>4, <2>2, <3>3 DEF Kept, LimiterInv
      <4> QED
        BY <3>1, <4>1 DEF Newest
    <3> QED
      BY <3>2, <3>3
  <2> QED
    BY <2>1, <2>2
<1>7. RateWindow'
  BY <1>3 DEF RateWindow, LimiterInv
<1>8. limiterPruned' \in Time' /\ under' \in HostTimes'
  BY <1>1, <1>2, <1>3 DEF LimiterInv, HostTimes
<1> QED
  BY <1>5, <1>6, <1>7, <1>8 DEF LimiterInv

(* ---- the coalescing of RATE_ANOMALY entries ----------------------------- *)

Latest(times) == times[Len(times)]

\* The coalescing time of a host is the time of its last entry; a host that has
\* an entry and no such time has none within the window.
OnRecord(h) ==
  /\ Apart(reported[h])
  /\ h \in DOMAIN coalesced => reported[h] # <<>> /\ coalesced[h] = Latest(reported[h])
  /\ h \notin DOMAIN coalesced /\ reported[h] # <<>> => now - Latest(reported[h]) >= Window

EngineInv ==
  /\ enginePruned \in Time
  /\ IsDictionary(coalesced, Time)
  /\ reported \in HostTimes
  /\ unwritten \in BOOLEAN
  /\ ~unwritten => \A h \in Host : OnRecord(h)

\* No entry was suppressed or written.
LEMMA EngineInit == Init => EngineInv
<1> SUFFICES ASSUME Init PROVE EngineInv
  OBVIOUS
<1>0. unwritten \in BOOLEAN
  BY DEF Init
<1>1. enginePruned \in Time
  BY DEF Init, Time
<1>2. DOMAIN coalesced = {} /\ IsDictionary(coalesced, Time)
  BY DEF Init, Empty, IsDictionary
<1>3. reported \in HostTimes /\ \A h \in Host : reported[h] = <<>>
  BY DEF Init, HostTimes
<1>4. \A h \in Host : OnRecord(h)
  BY <1>2, <1>3 DEF OnRecord, Apart
<1> QED
  BY <1>0, <1>1, <1>2, <1>3, <1>4 DEF EngineInv

\* The time of an entry of the engine is a number.
LEMMA LatestIsTime ==
  ASSUME Clock, NEW times \in Seq(Time), times # <<>>
  PROVE  Latest(times) \in Nat /\ Latest(times) <= now
<1>1. Len(times) \in 1..Len(times)
  OBVIOUS
<1> QED
  BY <1>1, TimesAreNumbers DEF Latest

\* Later, fewer entries are recent.
LEMMA EngineKept == EngineInv /\ ClockMoves /\ UNCHANGED engineVars => EngineInv'
<1> SUFFICES ASSUME EngineInv, ClockMoves, UNCHANGED engineVars PROVE EngineInv'
  OBVIOUS
<1> USE DEF engineVars
<1>1. ASSUME NEW t \in Time PROVE t \in Time'
  BY DEF ClockMoves, Clock, Time
<1>2. enginePruned' \in Time' /\ IsDictionary(coalesced, Time)'
  BY <1>1 DEF EngineInv, IsDictionary
<1>3. reported' \in HostTimes'
  BY TimesAreNumbers DEF EngineInv, ClockMoves, HostTimes
<1>4. ASSUME ~unwritten, NEW h \in Host PROVE OnRecord(h)'
  <2>1. OnRecord(h) /\ reported[h] \in Seq(Time)
    BY <1>4 DEF EngineInv, HostTimes
  <2>2. ASSUME h \notin DOMAIN coalesced, reported[h] # <<>>
        PROVE  now' - Latest(reported[h]) >= Window
    <3>1. Latest(reported[h]) \in Nat /\ now - Latest(reported[h]) >= Window
      BY <2>1, <2>2, LatestIsTime DEF OnRecord, ClockMoves
    <3> QED
      BY <3>1, ProxyAssumption DEF ClockMoves, Clock
  <2> QED
    BY <2>1, <2>2 DEF OnRecord
<1> QED
  BY <1>2, <1>3, <1>4 DEF EngineInv

\* Dropping the times that are older than the window.
LEMMA PrunedOnRecord ==
  ASSUME Clock, EngineInv, ~unwritten, NEW h \in Host, h \notin DOMAIN coalesced \ StaleKeys
  PROVE  Apart(reported[h]) /\ (reported[h] # <<>> => now - Latest(reported[h]) >= Window)
<1>1. OnRecord(h) /\ reported[h] \in Seq(Time)
  BY DEF EngineInv, HostTimes
<1>2. CASE h \notin DOMAIN coalesced
  BY <1>1, <1>2 DEF OnRecord
<1>3. CASE h \in StaleKeys
  <2>1. h \in DOMAIN coalesced /\ coalesced[h] < now - Window
    BY <1>3 DEF StaleKeys
  <2>2. reported[h] # <<>> /\ coalesced[h] = Latest(reported[h]) /\ Latest(reported[h]) \in Nat
    BY <1>1, <2>1, LatestIsTime DEF OnRecord
  <2>3. now - Latest(reported[h]) >= Window
    BY <2>1, <2>2, ProxyAssumption DEF Clock
  <2> QED
    BY <1>1, <2>3 DEF OnRecord
<1> QED
  BY <1>2, <1>3

\* The keys that are dropped are out of the window: nothing on record is hidden.
LEMMA EngineCoalesce == Clock /\ EngineInv /\ Coalesce => EngineInv'
<1> SUFFICES ASSUME Clock, EngineInv, Coalesce PROVE EngineInv'
  OBVIOUS
<1>1. /\ coalesced' = Without(coalesced, StaleKeys) /\ enginePruned' \in {enginePruned, now}
      /\ now' = now /\ reported' = reported /\ unwritten' = unwritten
  BY DEF Coalesce
<1>2. /\ DOMAIN coalesced' = DOMAIN coalesced \ StaleKeys
      /\ \A h \in DOMAIN coalesced' : coalesced'[h] = coalesced[h]
  BY <1>1 DEF Without, Restrict
<1>3. enginePruned' \in Time' /\ reported' \in HostTimes' /\ unwritten' \in BOOLEAN
  BY <1>1 DEF EngineInv, Clock, Time, HostTimes
<1>4. IsDictionary(coalesced, Time)'
  BY <1>1, <1>2 DEF EngineInv, IsDictionary, Time
<1>5. ASSUME ~unwritten, NEW h \in Host PROVE OnRecord(h)'
  <2>1. OnRecord(h)
    BY <1>5 DEF EngineInv
  <2>2. CASE h \in DOMAIN coalesced \ StaleKeys
    BY <1>1, <1>2, <2>1, <2>2 DEF OnRecord
  <2>3. CASE h \notin DOMAIN coalesced \ StaleKeys
    BY <1>1, <1>2, <1>5, <2>3, PrunedOnRecord DEF OnRecord
  <2> QED
    BY <2>2, <2>3
<1> QED
  BY <1>1, <1>3, <1>4, <1>5 DEF EngineInv

\* An entry that is written now, and the one before it.
LEMMA Extended ==
  ASSUME Clock, NEW times \in Seq(Time), NEW new, Joins(now, times, new),
         times # <<>> => now - Latest(times) >= Window
  PROVE  new \in Seq(Time) /\ new # <<>> /\ new # times /\ Latest(new) = now /\ Apart(new)
<1>1. now \in Time
  BY DEF Clock, Time
<1>2. /\ new \in Seq(Time) /\ Len(new) = Len(times) + 1 /\ new[Len(times) + 1] = now
      /\ \A i \in 1..Len(times) : new[i] = times[i]
  BY <1>1 DEF Joins
<1>3. Latest(new) = now /\ new # <<>> /\ new # times
  BY <1>2 DEF Latest
<1>4. ASSUME ~(Len(new) < 2) PROVE new[Len(new)] - new[Len(new) - 1] >= Window
  <2>1. times # <<>> /\ Len(times) \in 1..Len(times) /\ Len(new) - 1 = Len(times)
    BY <1>2, <1>4
  <2>2. new[Len(new)] = now /\ new[Len(new) - 1] = Latest(times)
    BY <1>2, <2>1 DEF Latest
  <2> QED
    BY <2>1, <2>2
<1> QED
  BY <1>2, <1>3, <1>4 DEF Apart

\* An entry is written, or the trail raises and that is remembered.
LEMMA EngineReport == Clock /\ EngineInv /\ host \in Host /\ Report => EngineInv'
<1> SUFFICES ASSUME Clock, EngineInv, host \in Host, Report PROVE EngineInv'
  OBVIOUS
<1>1. /\ coalesced' = Put(Without(coalesced, StaleKeys), host, now)
      /\ enginePruned' \in {enginePruned, now} /\ now' = now
  BY DEF Report
<1>2. /\ DOMAIN coalesced' = (DOMAIN coalesced \ StaleKeys) \cup {host}
      /\ coalesced'[host] = now
      /\ \A h \in DOMAIN coalesced' \ {host} : coalesced'[h] = coalesced[h]
  BY <1>1 DEF Put, Without, Restrict
<1>3. enginePruned' \in Time' /\ now \in Time
  BY <1>1 DEF EngineInv, Clock, Time
<1>4. IsDictionary(coalesced, Time)'
  BY <1>1, <1>2, <1>3 DEF EngineInv, IsDictionary, Time
<1>5. CASE reported' = reported /\ unwritten'
  <2>1. unwritten' \in BOOLEAN
    BY <1>5 DEF Report
  <2> QED
    BY <1>1, <1>3, <1>4, <1>5, <2>1 DEF EngineInv, HostTimes, Time
<1>6. CASE reported' = [reported EXCEPT ![host] = Append(@, now)] /\ unwritten' = unwritten
  <2>1. /\ Joins(now, reported[host], reported'[host])
        /\ \A h \in Host \ {host} : reported'[h] = reported[h]
    BY <1>6 DEF EngineInv, HostTimes, Joins
  <2>2. reported' \in HostTimes'
    BY <1>1, <1>3, <1>6 DEF EngineInv, HostTimes, Time
  <2>3. ASSUME ~unwritten, NEW h \in Host PROVE OnRecord(h)'
    <3>1. OnRecord(h) /\ reported[h] \in Seq(Time)
      BY <2>3 DEF EngineInv, HostTimes
    <3>2. CASE h = host
      <4>1. reported[h] # <<>> => now - Latest(reported[h]) >= Window
        <5>1. CASE h \notin DOMAIN coalesced \ StaleKeys
          BY <2>3, <5>1, PrunedOnRecord
        <5>2. CASE h \in DOMAIN coalesced \ StaleKeys
          <6>1. ~(now - coalesced[h] < Window)
            BY <3>2, <5>2 DEF Report, Fresh
          <6>2. reported[h] # <<>> /\ coalesced[h] = Latest(reported[h])
            BY <3>1, <5>2 DEF OnRecord
          <6>3. Latest(reported[h]) \in Nat
            BY <3>1, <6>2, LatestIsTime
          <6> QED
            BY <6>1, <6>2, <6>3, ProxyAssumption DEF Clock
        <5> QED
          BY <5>1, <5>2
      <4>2. reported'[h] # <<>> /\ Latest(reported'[h]) = now /\ Apart(reported'[h])
        BY <2>1, <3>1, <3>2, <4>1, Extended
      <4> QED
        BY <1>2, <3>2, <4>2 DEF OnRecord, Apart, Latest
    <3>3. CASE h # host
      <4>1. reported'[h] = reported[h]
        BY <2>1, <3>3
      <4>2. CASE h \in DOMAIN coalesced \ StaleKeys
        BY <1>1, <1>2, <3>1, <3>3, <4>1, <4>2 DEF OnRecord
      <4>3. CASE h \notin DOMAIN coalesced \ StaleKeys
        BY <1>1, <1>2, <2>3, <3>3, <4>1, <4>3, PrunedOnRecord DEF OnRecord
      <4> QED
        BY <4>2, <4>3
    <3> QED
      BY <3>2, <3>3
  <2> QED
    BY <1>3, <1>4, <1>6, <2>2, <2>3 DEF EngineInv
<1> QED
  BY <1>5, <1>6 DEF Report

(* ---- the refresh of the key --------------------------------------------- *)

\* A refresh later than the last change of auth.json has read what is there.
AuthInv ==
  /\ refreshes \in BOOLEAN /\ FirstKey /\ authFile \in Key \cup {Unusable}
  /\ authSince \in Time /\ authRefreshed \in {-RefreshInterval} \cup Time
  /\ refreshes /\ authFile # Unusable /\ authRefreshed > authSince => secret = authFile

\* Nothing was read or changed.
LEMMA AuthInit == Init => AuthInv
BY ProxyAssumption DEF Init, AuthInv, FirstKey, Time

\* The clock and the other parts leave it as it is.
LEMMA AuthKept == AuthInv /\ ClockMoves /\ UNCHANGED authVars => AuthInv'
<1> SUFFICES ASSUME AuthInv, ClockMoves, UNCHANGED authVars PROVE AuthInv'
  OBVIOUS
<1>1. ASSUME NEW t \in Time PROVE t \in Time'
  BY DEF ClockMoves, Clock, Time
<1> QED
  BY <1>1 DEF AuthInv, FirstKey, authVars

\* A refresh reads what is there, or fails and waits.
LEMMA AuthRefresh ==
  ASSUME Clock, AuthInv, refreshes, NEW force \in BOOLEAN, RefreshAuth(force), now' = now
  PROVE  AuthInv'
<1>1. now \in Time /\ Time' = Time /\ authFile' = authFile /\ authSince' = authSince /\ refreshes' = refreshes
  BY DEF RefreshAuth, Clock, Time
<1>2. \/ authRefreshed' = authRefreshed /\ secret' = secret
      \/ authRefreshed' = now /\ secret' = IF authFile # Unusable THEN authFile ELSE secret
  BY DEF RefreshAuth
<1> QED
  BY <1>1, <1>2 DEF AuthInv, FirstKey

\* A change is not earlier than any refresh.
LEMMA AuthChange == Clock /\ AuthInv /\ AuthChanges => AuthInv'
<1> SUFFICES ASSUME Clock, AuthInv, AuthChanges PROVE AuthInv'
  OBVIOUS
<1>1. now \in Time /\ Time' = Time
  BY DEF AuthChanges, Clock, Time
<1>2. ~(authRefreshed > now)
  BY ProxyAssumption DEF AuthInv, Clock, Time
<1> QED
  BY <1>1, <1>2 DEF AuthInv, FirstKey, AuthChanges

(* ---- the tracker and the flow ------------------------------------------- *)

TrackerTypes ==
  /\ IsDictionary(escalation, [count : Nat \ {0}, last : Time])
  /\ trackerPruned \in Time /\ anomalies \in HostTimes

FlowTypes ==
  /\ requests \in 0..MaxRequests
  /\ at \in Steps /\ host \in Host /\ (at = "escalate" => Escalating)
  /\ outcome \in {"none", "passed", "killed", "raised"}

\* No host has anomalies.
LEMMA TrackerInit == Init => TrackerTypes
<1> SUFFICES ASSUME Init PROVE TrackerTypes
  OBVIOUS
<1>1. trackerPruned \in Time
  BY DEF Init, Time
<1>2. DOMAIN escalation = {} /\ IsDictionary(escalation, [count : Nat \ {0}, last : Time])
  BY DEF Init, Empty, IsDictionary
<1>3. anomalies \in HostTimes
  BY DEF Init, HostTimes
<1> QED
  BY <1>1, <1>2, <1>3 DEF TrackerTypes

\* The clock and the other parts leave it as it is.
LEMMA TrackerKept == TrackerTypes /\ ClockMoves /\ UNCHANGED trackerVars => TrackerTypes'
<1> SUFFICES ASSUME TrackerTypes, ClockMoves, UNCHANGED trackerVars PROVE TrackerTypes'
  OBVIOUS
<1> USE DEF trackerVars
<1>1. ASSUME NEW t \in Time PROVE t \in Time'
  BY DEF ClockMoves, Clock, Time
<1>2. anomalies' \in HostTimes'
  BY TimesAreNumbers DEF TrackerTypes, ClockMoves, HostTimes
<1>3. \A e \in [count : Nat \ {0}, last : Time] : e \in [count : Nat \ {0}, last : Time']
  BY <1>1
<1> QED
  BY <1>1, <1>2, <1>3 DEF TrackerTypes, IsDictionary

\* An anomaly is counted, and some hosts forgotten.
LEMMA TrackerRecords ==
  Clock /\ TrackerTypes /\ host \in Host /\ RecordAnomaly => TrackerTypes'
<1> SUFFICES ASSUME Clock, TrackerTypes, host \in Host, RecordAnomaly PROVE TrackerTypes'
  OBVIOUS
<1> DEFINE known == IF host \in Forgotten THEN 0 ELSE Remaining(host)
           new == [count |-> known + 1, last |-> now]
           Remembered == [count : Nat \ {0}, last : Time]
<1>1. now \in Time /\ Time' = Time /\ trackerPruned' \in {trackerPruned, now}
  BY DEF RecordAnomaly, Clock, Time
<1>2. known \in Nat
  <2>1. Remaining(host) \in Nat
    <3>1. CASE host \in DOMAIN escalation
      <4>1. escalation[host] \in Remembered
        BY <3>1 DEF TrackerTypes, IsDictionary
      <4> QED
        BY <4>1 DEF Remaining
    <3>2. CASE host \notin DOMAIN escalation
      BY <3>2 DEF Remaining
    <3> QED
      BY <3>1, <3>2
  <2> QED
    BY <2>1
<1>3. new \in Remembered
  <2> HIDE DEF known
  <2> QED
    BY <1>1, <1>2
<1>4. escalation' = Put(Without(escalation, Forgotten), host, new)
  BY DEF RecordAnomaly
<1> HIDE DEF new, known
<1>5. /\ DOMAIN escalation' = (DOMAIN escalation \ Forgotten) \cup {host}
      /\ escalation'[host] = new
      /\ \A h \in DOMAIN escalation' \ {host} : escalation'[h] = escalation[h]
  BY <1>4 DEF Put, Without, Restrict
<1>6. DOMAIN escalation' \subseteq Host /\ \A h \in DOMAIN escalation' : escalation'[h] \in Remembered
  <2> HIDE DEF Remembered
  <2>1. DOMAIN escalation \subseteq Host /\ \A h \in DOMAIN escalation : escalation[h] \in Remembered
    BY DEF TrackerTypes, IsDictionary, Remembered
  <2> QED
    BY <1>3, <1>5, <2>1
<1>7. anomalies' \in HostTimes
  BY <1>1 DEF RecordAnomaly, TrackerTypes, HostTimes
<1> QED
  BY <1>1, <1>6, <1>7 DEF TrackerTypes, IsDictionary, HostTimes

\* What the request is about stays what it is.
LEMMA FlowKept ==
  ASSUME FlowTypes, Next
  PROVE  FlowTypes'
<1> USE DEF FlowTypes, Steps, flowVars
<1>1. CASE Tick \/ AuthChanges \/ Unauthorized
  BY <1>1 DEF Tick, AuthChanges, Unauthorized
<1>2. ASSUME NEW h \in Host, Request(h) PROVE FlowTypes'
  <2>1. requests' \in 0..MaxRequests
    BY <1>2, ProxyAssumption DEF Request
  <2>2. at' \in {"anomaly", "route"}
    BY <1>2 DEF Request, CheckRateLimit
  <2> QED
    BY <1>2, <2>1, <2>2 DEF Request
<1>3. CASE Coalesce \/ Report
  BY <1>3 DEF Coalesce, Report, GoesTo, Ends, AfterAnomaly
<1>4. CASE RecordAnomaly
  <2>1. Blocked \/ GoesTo("route")
    BY <1>4 DEF RecordAnomaly
  <2> QED
    BY <2>1 DEF Blocked, Ends, GoesTo
<1>5. CASE RouteAnthropic \/ Pass \/ Reject
  BY <1>5 DEF RouteAnthropic, Pass, Reject, Blocked, Ends
<1> QED
  BY <1>1, <1>2, <1>3, <1>4, <1>5 DEF Next

(* ---- the whole request --------------------------------------------------- *)

ProxyInv == Clock /\ FlowTypes /\ LimiterInv /\ EngineInv /\ AuthInv /\ TrackerTypes

\* All the invariants hold at first.
LEMMA ProxyInit == Init => ProxyInv
<1>1. Init => FlowTypes
  BY ProxyAssumption DEF Init, FlowTypes, Steps
<1> QED
  BY <1>1, LimiterInit, EngineInit, AuthInit, TrackerInit DEF ProxyInv

\* Every step keeps them all.
LEMMA ProxyNext == ProxyInv /\ [Next]_vars => ProxyInv'
<1> SUFFICES ASSUME ProxyInv, [Next]_vars PROVE ProxyInv'
  OBVIOUS
<1>1. /\ Clock /\ FlowTypes /\ LimiterInv /\ EngineInv /\ AuthInv /\ TrackerTypes
      /\ host \in Host
  BY DEF ProxyInv, FlowTypes
<1>2. ASSUME now' = now PROVE ClockMoves /\ Clock'
  BY <1>1, <1>2 DEF ClockMoves, Clock
<1>3. CASE UNCHANGED vars
  <2>1. FlowTypes'
    BY <1>1, <1>3 DEF FlowTypes, vars, flowVars
  <2> QED
    BY <1>1, <1>2, <1>3, <2>1, LimiterKept, EngineKept, AuthKept, TrackerKept DEF ProxyInv, vars
<1>4. CASE Next
  <2>0. FlowTypes'
    BY <1>1, <1>4, FlowKept
  <2>1. CASE Tick
    <3>1. ClockMoves /\ Clock'
      BY <1>1, <2>1, ProxyAssumption DEF Tick, ClockMoves, Clock
    <3> QED
      BY <1>1, <2>0, <2>1, <3>1, LimiterKept, EngineKept, AuthKept, TrackerKept DEF ProxyInv, Tick
  <2>2. CASE AuthChanges
    BY <1>1, <1>2, <2>0, <2>2, LimiterKept, EngineKept, AuthChange, TrackerKept DEF ProxyInv, AuthChanges
  <2>3. ASSUME NEW h \in Host, Request(h) PROVE ProxyInv'
    BY <1>1, <1>2, <2>0, <2>3, LimiterRequest, EngineKept, AuthKept, TrackerKept DEF ProxyInv, Request
  <2>4. CASE Coalesce
    BY <1>1, <1>2, <2>0, <2>4, LimiterKept, EngineCoalesce, AuthKept, TrackerKept DEF ProxyInv, Coalesce
  <2>5. CASE Report
    BY <1>1, <1>2, <2>0, <2>5, LimiterKept, EngineReport, AuthKept, TrackerKept DEF ProxyInv, Report
  <2>6. CASE RecordAnomaly
    BY <1>1, <1>2, <2>0, <2>6, LimiterKept, EngineKept, AuthKept, TrackerRecords DEF ProxyInv, RecordAnomaly
  <2>7. CASE RouteAnthropic
    <3>1. AuthInv'
      BY <1>1, <1>2, <2>7, AuthRefresh, AuthKept DEF RouteAnthropic
    <3> QED
      BY <1>1, <1>2, <2>0, <2>7, <3>1, LimiterKept, EngineKept, TrackerKept DEF ProxyInv, RouteAnthropic
  <2>8. CASE Pass \/ Reject
    BY <1>1, <1>2, <2>0, <2>8, LimiterKept, EngineKept, AuthKept, TrackerKept DEF ProxyInv, Pass, Reject
  <2>9. CASE Unauthorized
    BY <1>1, <1>2, <2>0, <2>9, LimiterKept, EngineKept, AuthRefresh, TrackerKept DEF ProxyInv, Unauthorized
  <2> QED
    BY <1>4, <2>1, <2>2, <2>3, <2>4, <2>5, <2>6, <2>7, <2>8, <2>9 DEF Next
<1> QED
  BY <1>3, <1>4

\* They hold in every reachable state.
LEMMA ProxyInvHolds == Spec => []ProxyInv
<1> QED
  BY ProxyInit, ProxyNext, PTL DEF Spec

\* Every variable keeps its type, and no deque grows beyond the limit.
THEOREM TypeCorrect == Spec => []TypeOK
<1>1. ProxyInv => TypeOK
  <2> SUFFICES ASSUME ProxyInv PROVE TypeOK
    OBVIOUS
  <2>1. now \in 1..MaxTime
    BY ProxyAssumption DEF ProxyInv, Clock
  <2>2. \A h \in DOMAIN timestamps : Len(timestamps[h]) <= Limit
    BY DEF ProxyInv, LimiterInv, IsDictionary, Kept
  <2> QED
    BY <2>1, <2>2 DEF ProxyInv, FlowTypes, LimiterInv, EngineInv, AuthInv, TrackerTypes, TypeOK
<1> QED
  BY <1>1, ProxyInvHolds, PTL

\* Whatever is pruned and whenever the clock moves, no more than Limit requests of
\* a host go unnoticed in a window, for any limit, window and number of hosts.
THEOREM WindowNeverExceeded == Spec => []RateWindow
<1>1. ProxyInv => RateWindow
  BY DEF ProxyInv, LimiterInv
<1> QED
  BY <1>1, ProxyInvHolds, PTL

\* As long as the audit trail did not raise, a request over the limit goes on only
\* with an entry of its host on record, and entries are a window apart.
THEOREM BurstsOnRecord == Spec => AnomaliesReported
<1> DEFINE Recorded ==
      at = "anomaly" /\ at' \in {"escalate", "route"}
        => \/ unwritten
           \/ /\ reported'[host] # <<>>
              /\ \/ reported'[host] # reported[host]
                 \/ now - reported[host][Len(reported[host])] < Window
              /\ Apart(reported'[host])
<1>1. ProxyInv /\ ProxyInv' /\ [Next]_vars => [Recorded]_vars
  <2> SUFFICES ASSUME ProxyInv, ProxyInv', [Next]_vars, at = "anomaly",
                      at' \in {"escalate", "route"}, ~unwritten
               PROVE  /\ reported'[host] # <<>>
                      /\ \/ reported'[host] # reported[host]
                         \/ now - reported[host][Len(reported[host])] < Window
                      /\ Apart(reported'[host])
    BY DEF Recorded
  <2>1. Coalesce \/ (Report /\ reported' = [reported EXCEPT ![host] = Append(@, now)] /\ unwritten' = unwritten)
    BY DEF Next, vars, flowVars, Tick, AuthChanges, Request, Report, Ends, RecordAnomaly,
           RouteAnthropic, Pass, Reject, Unauthorized
  <2>2. host \in Host /\ host' = host /\ reported[host] \in Seq(Time) /\ OnRecord(host)
    BY <2>1 DEF ProxyInv, FlowTypes, EngineInv, HostTimes, Coalesce, Report, GoesTo, Ends
  <2>3. CASE Coalesce
    BY <2>2, <2>3 DEF Coalesce, Fresh, OnRecord, Latest
  <2>4. CASE Report /\ reported' = [reported EXCEPT ![host] = Append(@, now)] /\ unwritten' = unwritten
    <3>1. reported'[host] = Append(reported[host], now)
      BY <2>2, <2>4 DEF ProxyInv, EngineInv, HostTimes
    <3>2. OnRecord(host)'
      BY <2>2, <2>4 DEF ProxyInv, EngineInv
    <3>3. Len(reported'[host]) = Len(reported[host]) + 1 /\ reported'[host] # <<>>
      BY <2>2, <3>1
    <3> QED
      BY <2>2, <3>2, <3>3 DEF OnRecord, Apart
  <2> QED
    BY <2>1, <2>3, <2>4
<1> HIDE DEF Recorded
<1>2. Spec => [][Recorded]_vars
  BY <1>1, ProxyInvHolds, PTL DEF Spec
<1> QED
  BY <1>2 DEF AnomaliesReported, Recorded

\* Where the addon refreshes, a key that auth.json has offered for the interval is
\* the one injected; where it does not, the vault's key stays.
THEOREM KeyUsedInTime == Spec => KeyInTime
<1> DEFINE InTime ==
      IF refreshes
        THEN (/\ at = "route" /\ host = Anthropic /\ at' = "idle"
              /\ authFile # Unusable /\ now - authSince >= RefreshInterval)
               => secret' = authFile
        ELSE secret' = secret
<1>1. ProxyInv /\ [Next]_vars => [InTime]_vars
  <2> SUFFICES ASSUME ProxyInv, [Next]_vars PROVE InTime
    BY DEF InTime
  <2>1. ASSUME refreshes, at = "route", host = Anthropic, at' = "idle",
               authFile # Unusable, now - authSince >= RefreshInterval
        PROVE  secret' = authFile
    <3>1. RouteAnthropic
      BY <2>1 DEF Next, vars, flowVars, Tick, AuthChanges, Request, CheckRateLimit, Coalesce, Report,
             RecordAnomaly, Pass, Reject, Unauthorized
    <3>2. RefreshAuth(FALSE)
      BY <2>1, <3>1 DEF RouteAnthropic
    <3>3. CASE now - authRefreshed >= RefreshInterval
      BY <2>1, <3>2, <3>3 DEF RefreshAuth
    <3>4. CASE ~(now - authRefreshed >= RefreshInterval)
      <4>1. authRefreshed > authSince
        BY <2>1, <3>4, ProxyAssumption DEF ProxyInv, Clock, AuthInv, Time
      <4> QED
        BY <2>1, <3>2, <3>4, <4>1 DEF RefreshAuth, ProxyInv, AuthInv
    <3> QED
      BY <3>3, <3>4
  <2>2. ASSUME ~refreshes PROVE secret' = secret
    BY <2>2 DEF Next, vars, authVars, Tick, AuthChanges, Request, Coalesce, Report, RecordAnomaly,
           RouteAnthropic, Pass, Reject, Unauthorized
  <2> QED
    BY <2>1, <2>2 DEF InTime
<1> HIDE DEF InTime
<1>2. Spec => [][InTime]_vars
  BY <1>1, ProxyInvHolds, PTL DEF Spec
<1> QED
  BY <1>2 DEF KeyInTime, InTime

(* ---- the level of a host ------------------------------------------------- *)

\* The last k of some times, counted from the newest, without a gap of more than Decay ...
Joined(k, times) ==
  \A i \in (Len(times) - k + 2)..Len(times) : times[i] - times[i - 1] <= Decay

\* ... and no more of them.
LongestRun(k, times) ==
  LET n == Len(times)
  IN /\ k \in 1..n /\ Joined(k, times)
     /\ k < n => times[n - k + 1] - times[n - k] > Decay

\* A host's count is that of the last run of its anomalies, whether it goes on
\* or not; a host without one has none that could.
LevelInv ==
  \A h \in Host :
    /\ h \in DOMAIN escalation =>
         /\ LongestRun(escalation[h].count, anomalies[h])
         /\ escalation[h].last = Latest(anomalies[h])
    /\ h \notin DOMAIN escalation /\ anomalies[h] # <<>> => now - Latest(anomalies[h]) > Decay

\* Anomalies are numbers up to now.
LEMMA AnomalyTimes ==
  ASSUME Clock, TrackerTypes, NEW h \in Host
  PROVE  /\ anomalies[h] \in Seq(Time) /\ Len(anomalies[h]) \in Nat
         /\ \A i \in 1..Len(anomalies[h]) : anomalies[h][i] \in Nat
BY TimesAreNumbers DEF TrackerTypes, HostTimes

\* There are none at first.
LEMMA LevelInit == Init => LevelInv
BY DEF Init, Empty, LevelInv

\* Time passes, and other parts work.
LEMMA LevelKept ==
  ASSUME LevelInv, TrackerTypes, ClockMoves, UNCHANGED trackerVars
  PROVE  LevelInv'
<1> SUFFICES ASSUME NEW h \in Host, h \notin DOMAIN escalation, anomalies[h] # <<>>
             PROVE  now' - Latest(anomalies[h]) > Decay
  BY DEF LevelInv, trackerVars, Latest
<1>1. now - Latest(anomalies[h]) > Decay
  BY DEF LevelInv
<1>2. Latest(anomalies[h]) \in Nat /\ now \in Nat /\ now' \in Nat /\ now <= now' /\ Decay \in Nat
  BY LatestIsTime, AnomalyTimes, ProxyAssumption DEF ClockMoves, Clock
<1> QED
  BY <1>1, <1>2

\* A run goes on, or one begins.
LEMMA RunGrows ==
  ASSUME Clock, NEW times \in Seq(Time), NEW new, Joins(now, times, new), NEW k \in Nat,
         k = 0 => (times # <<>> => now - Latest(times) > Decay),
         k > 0 => LongestRun(k, times) /\ now - Latest(times) <= Decay
  PROVE  LongestRun(k + 1, new) /\ Latest(new) = now /\ new # <<>>
<1> DEFINE n == Len(times)
<1>1. n \in Nat /\ Decay \in Nat /\ \A i \in 1..n : times[i] \in Nat
  BY TimesAreNumbers, ProxyAssumption
<1>2. /\ Len(new) = n + 1 /\ new[n + 1] = now
      /\ \A i \in 1..n : new[i] = times[i]
  BY <1>1 DEF Joins
<1> HIDE DEF n
<1>3. Latest(new) = now /\ new # <<>>
  BY <1>1, <1>2 DEF Latest, Joins
<1>4. CASE k = 0
  <2>1. Joined(1, new)
    BY <1>1, <1>2 DEF Joined
  <2>2. 1 < n + 1 => now - times[n] > Decay
    BY <1>1, <1>4 DEF Latest, n
  <2> QED
    BY <1>1, <1>2, <1>3, <1>4, <2>1, <2>2 DEF LongestRun
<1>5. CASE k > 0
  <2>1. k \in 1..n /\ Joined(k, times) /\ (k < n => times[n - k + 1] - times[n - k] > Decay)
        /\ now - times[n] <= Decay
    BY <1>5 DEF LongestRun, Latest, n
  <2>2. ASSUME NEW i \in (n + 1 - (k + 1) + 2)..(n + 1) PROVE new[i] - new[i - 1] <= Decay
    <3>1. CASE i = n + 1
      BY <1>1, <1>2, <2>1, <3>1
    <3>2. CASE i # n + 1
      <4>1. i \in (n - k + 2)..n /\ i - 1 \in 1..n /\ i \in 1..n
        BY <1>1, <2>1, <3>2
      <4>2. times[i] - times[i - 1] <= Decay
        BY <2>1, <4>1 DEF Joined, n
      <4> QED
        BY <1>2, <4>1, <4>2
    <3> QED
      BY <3>1, <3>2
  <2>3. Joined(k + 1, new)
    <3>1. Len(new) - (k + 1) + 2 = n + 1 - (k + 1) + 2 /\ Len(new) = n + 1
      BY <1>1, <1>2
    <3> QED
      BY <2>2, <3>1, Zenon DEF Joined
  <2>4. k + 1 < n + 1 => new[n + 1 - (k + 1) + 1] - new[n + 1 - (k + 1)] > Decay
    <3> SUFFICES ASSUME k < n PROVE new[n - k + 1] - new[n - k] > Decay
      BY <1>1
    <3>1. n - k \in 1..n /\ n - k + 1 \in 1..n
      BY <1>1, <2>1
    <3> QED
      BY <1>2, <2>1, <3>1
  <2> QED
    BY <1>1, <1>2, <1>3, <2>1, <2>3, <2>4 DEF LongestRun
<1> QED
  BY <1>4, <1>5

\* What the tracker knows of a host before it counts the next anomaly: nothing,
\* if the run is over, and else all of it.
LEMMA KnownIsRun ==
  ASSUME Clock, TrackerTypes, LevelInv, NEW h \in Host,
         NEW k, k = (IF h \in Forgotten THEN 0 ELSE Remaining(h)) \/ k = Remaining(h)
  PROVE  /\ k \in Nat
         /\ k = 0 => (anomalies[h] # <<>> => now - Latest(anomalies[h]) > Decay)
         /\ k > 0 => LongestRun(k, anomalies[h]) /\ now - Latest(anomalies[h]) <= Decay
<1>1. now \in Nat /\ Decay \in Nat /\ (anomalies[h] # <<>> => Latest(anomalies[h]) \in Nat)
  BY LatestIsTime, AnomalyTimes, ProxyAssumption DEF Clock
<1>2. CASE h \notin DOMAIN escalation
  BY <1>1, <1>2 DEF LevelInv, Remaining, Forgotten
<1>3. CASE h \in DOMAIN escalation
  <2>1. /\ LongestRun(escalation[h].count, anomalies[h])
        /\ escalation[h].last = Latest(anomalies[h])
    BY <1>3 DEF LevelInv
  <2>2. escalation[h].count \in Nat \ {0} /\ anomalies[h] # <<>>
    BY <2>1, AnomalyTimes DEF LongestRun
  <2>3. CASE now - Latest(anomalies[h]) <= Decay
    <3>1. Remaining(h) = escalation[h].count
      BY <1>3, <2>1, <2>3 DEF Remaining
    <3>2. h \notin Forgotten
      BY <1>1, <2>1, <2>2, <2>3 DEF Forgotten
    <3> QED
      BY <2>1, <2>2, <2>3, <3>1, <3>2
  <2>4. CASE ~(now - Latest(anomalies[h]) <= Decay)
    <3>1. Remaining(h) = 0
      BY <1>3, <2>1, <2>4 DEF Remaining
    <3> QED
      BY <1>1, <2>2, <2>4, <3>1
  <2> QED
    BY <2>3, <2>4
<1> QED
  BY <1>2, <1>3

\* An anomaly lengthens the run of its host; of the hosts forgotten it is over.
LEMMA LevelRecords ==
  ASSUME Clock, TrackerTypes, LevelInv, host \in Host, RecordAnomaly
  PROVE  LevelInv'
<1> DEFINE known == IF host \in Forgotten THEN 0 ELSE Remaining(host)
<1>1. now' = now /\ anomalies' = [anomalies EXCEPT ![host] = Append(@, now)]
  BY DEF RecordAnomaly
<1>2. escalation' = Put(Without(escalation, Forgotten), host, [count |-> known + 1, last |-> now])
  BY DEF RecordAnomaly
<1> PICK k : k = known
  OBVIOUS
<1>3. /\ DOMAIN escalation' = (DOMAIN escalation \ Forgotten) \cup {host}
      /\ escalation'[host] = [count |-> k + 1, last |-> now]
      /\ \A h \in DOMAIN escalation' \ {host} : escalation'[h] = escalation[h]
  BY <1>2 DEF Put, Without, Restrict
<1>4. /\ k \in Nat
      /\ k = 0 => (anomalies[host] # <<>> => now - Latest(anomalies[host]) > Decay)
      /\ k > 0 => LongestRun(k, anomalies[host]) /\ now - Latest(anomalies[host]) <= Decay
  BY KnownIsRun
<1>5. anomalies \in [Host -> Seq(Time)]
  BY DEF TrackerTypes, HostTimes
<1>6. Joins(now, anomalies[host], anomalies'[host]) /\ \A h \in Host \ {host} : anomalies'[h] = anomalies[h]
  BY <1>1, <1>5 DEF Joins
<1>7. LongestRun(k + 1, anomalies'[host]) /\ Latest(anomalies'[host]) = now
  BY <1>4, <1>5, <1>6, RunGrows
<1> SUFFICES ASSUME NEW h \in Host
             PROVE  /\ h \in DOMAIN escalation' =>
                         /\ LongestRun(escalation'[h].count, anomalies'[h])
                         /\ escalation'[h].last = Latest(anomalies'[h])
                    /\ h \notin DOMAIN escalation' /\ anomalies'[h] # <<>> =>
                         now - Latest(anomalies'[h]) > Decay
  BY <1>1 DEF LevelInv, LongestRun, Joined, Latest
<1>8. CASE h = host
  BY <1>3, <1>7, <1>8
<1>9. CASE h # host
  <2>1. anomalies'[h] = anomalies[h] /\ (h \in DOMAIN escalation' => escalation'[h] = escalation[h])
    BY <1>3, <1>6, <1>9
  <2>2. CASE h \in Forgotten
    <3>1. h \in DOMAIN escalation /\ escalation[h].last < now - 2 * Decay
      BY <2>2 DEF Forgotten
    <3>2. escalation[h].last = Latest(anomalies[h]) /\ LongestRun(escalation[h].count, anomalies[h])
      BY <3>1 DEF LevelInv
    <3>3. now \in Nat /\ Decay \in Nat /\ Latest(anomalies[h]) \in Nat
      BY <3>2, AnomalyTimes, LatestIsTime, ProxyAssumption DEF Clock, LongestRun
    <3> QED
      BY <1>3, <1>9, <2>1, <2>2, <3>1, <3>2, <3>3
  <2>3. CASE h \notin Forgotten
    BY <1>3, <1>9, <2>1, <2>3 DEF LevelInv
  <2> QED
    BY <2>2, <2>3
<1> QED
  BY <1>8, <1>9

\* Every step keeps what counts mean.
LEMMA LevelNext == ProxyInv /\ LevelInv /\ [Next]_vars => LevelInv'
<1> SUFFICES ASSUME ProxyInv, LevelInv, [Next]_vars PROVE LevelInv'
  OBVIOUS
<1>1. Clock /\ TrackerTypes /\ host \in Host
  BY DEF ProxyInv, FlowTypes
<1>2. CASE RecordAnomaly
  BY <1>1, <1>2, LevelRecords
<1>3. CASE ~RecordAnomaly
  <2>1. UNCHANGED trackerVars
    BY <1>3 DEF Next, Tick, AuthChanges, Request, Coalesce, Report, RouteAnthropic, Pass, Reject,
       Unauthorized, vars
  <2>2. ClockMoves
    <3>1. now' = now \/ Tick
      BY <1>3 DEF Next, Tick, AuthChanges, Request, Coalesce, Report, RouteAnthropic, Pass, Reject,
         Unauthorized, vars
    <3> QED
      BY <1>1, <3>1, ProxyAssumption DEF Tick, ClockMoves, Clock
  <2> QED
    BY <1>1, <2>1, <2>2, LevelKept
<1> QED
  BY <1>2, <1>3

\* Lazy decay and pruning never show: what the tracker would go by is the number
\* of the host's anomalies without a gap of more than the decay period.
THEOREM LevelCorrect == Spec => []LevelIsOfRun
<1>1. ProxyInv /\ LevelInv => LevelIsOfRun
  <2> SUFFICES ASSUME Clock, TrackerTypes, LevelInv, NEW h \in Host
               PROVE  Remaining(h) = Run(h)
    BY DEF ProxyInv, LevelIsOfRun
  <2> DEFINE times == anomalies[h]
             n == Len(times)
             Unbroken(k) == /\ k > 0 => now - times[n] <= Decay
                            /\ Joined(k, times)
             Chosen(k) == Unbroken(k) /\ (k < n => ~Unbroken(k + 1))
  <2>1. Run(h) = CHOOSE k \in 0..n : Chosen(k)
    BY DEF Run, Joined
  <2> PICK r : r = Remaining(h)
    OBVIOUS
  <2>2. /\ r \in Nat
        /\ r = 0 => (times # <<>> => now - times[n] > Decay)
        /\ r > 0 => LongestRun(r, times) /\ now - times[n] <= Decay
    BY KnownIsRun DEF Latest
  <2>3. n \in Nat /\ Decay \in Nat /\ now \in Nat /\ \A i \in 1..n : times[i] \in Nat
    BY AnomalyTimes, ProxyAssumption DEF Clock
  <2>4. n > 0 => times # <<>>
    OBVIOUS
  <2>5. Joined(0, times)
    BY <2>3 DEF Joined
  <2> DEFINE Length == n
  <2>6. r \in 0..n /\ Chosen(r) /\ \A k \in 0..n : Chosen(k) => k = r
    <3>1. CASE r = 0
      BY <2>2, <2>3, <2>4, <2>5, <3>1
    <3>2. CASE r > 0
      <4>1. /\ r \in 1..n /\ Joined(r, times) /\ now - times[n] <= Decay
            /\ r < n => times[n - r + 1] - times[n - r] > Decay
        BY <2>2, <3>2 DEF LongestRun
      <4>2. ASSUME NEW k \in 0..n, k > r PROVE ~Unbroken(k)
        <5>1. /\ n - r + 1 \in (n - k + 2)..n /\ r < n /\ (n - r + 1) - 1 = n - r
              /\ n - r \in 1..n /\ n - r + 1 \in 1..n
          <6> HIDE DEF n
          <6> QED
            BY <2>3, <4>1, <4>2
        <5>2. Joined(k, times) => times[n - r + 1] - times[(n - r + 1) - 1] <= Decay
          BY <5>1 DEF Joined
        <5>3. times[n - r + 1] \in Nat /\ times[n - r] \in Nat
          BY <2>3, <5>1
        <5>4. ~(times[n - r + 1] - times[n - r] <= Decay)
          <6>1. times[n - r + 1] - times[n - r] > Decay
            BY <4>1, <5>1
          <6> HIDE DEF n, times
          <6> QED
            BY <2>3, <5>3, <6>1
        <5>5. ~Joined(k, times)
          <6> HIDE DEF n, times
          <6> QED
            BY <5>1, <5>2, <5>4
        <5> QED
          BY <5>5
      <4>3. ASSUME NEW k \in 0..n, k < r PROVE Unbroken(k + 1)
        <5>1. (n - (k + 1) + 2)..n \subseteq (n - r + 2)..n
          BY <2>3, <4>1, <4>3
        <5> QED
          BY <4>1, <5>1 DEF Joined
      <4>4. r < n => ~Unbroken(r + 1)
        BY <2>3, <4>1, <4>2
      <4>5. Chosen(r)
        BY <4>1, <4>4
      <4>6. ASSUME NEW k \in 0..n, Chosen(k) PROVE k = r
        BY <2>3, <4>1, <4>2, <4>3, <4>6
      <4> QED
        BY <2>3, <4>1, <4>5, <4>6
    <3> QED
      BY <2>2, <3>1, <3>2
  <2> HIDE DEF Chosen, n, times
  <2> QED
    BY <2>1, <2>6
<1> QED
  BY <1>1, ProxyInvHolds, LevelInit, LevelNext, PTL DEF Spec
=============================================================================
