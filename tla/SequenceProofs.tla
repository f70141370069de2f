---------------------------- MODULE SequenceProofs ----------------------------
(***************************************************************************)
(* What list comprehensions (Sublists) and the search of                   *)
(* find_match_end (SequenceTrigger) return, for all sequences.             *)
(***************************************************************************)
EXTENDS Sublists, SequenceTrigger, SequencesExt, FiniteSetTheorems, SequenceTheorems, WellFoundedInduction, TLAPS

(* -------- positions -------------------------------------------------------- *)

\* The number of positions up to i.
Rank(I, i) == Cardinality({j \in I : j <= i})

\* Places are counted from 1 to the number of positions, and rise with them.
LEMMA RankRises ==
  ASSUME NEW n \in Nat, NEW I, I \subseteq 1..n
  PROVE  /\ IsFiniteSet(I) /\ Cardinality(I) \in Nat /\ Cardinality(I) <= n
         /\ \A i \in I : Rank(I, i) \in 1..Cardinality(I)
         /\ \A i, j \in I : i < j => Rank(I, i) < Rank(I, j)
<1>1. IsFiniteSet(I) /\ Cardinality(I) \in Nat /\ Cardinality(I) <= n
  <2>1. IsFiniteSet(1..n) /\ Cardinality(1..n) = n
    BY FS_Interval
  <2> QED
    BY <2>1, FS_Subset, FS_CardinalityType
<1>2. ASSUME NEW i \in I PROVE Rank(I, i) \in 1..Cardinality(I)
  <2>1. {j \in I : j <= i} \subseteq I /\ i \in {j \in I : j <= i}
    OBVIOUS
  <2>2. IsFiniteSet({j \in I : j <= i}) /\ Cardinality({j \in I : j <= i}) <= Cardinality(I)
    BY <1>1, <2>1, FS_Subset
  <2>3. Cardinality({j \in I : j <= i}) \in Nat
    BY <2>2, FS_CardinalityType
  <2>4. Cardinality({j \in I : j <= i}) # 0
    BY <2>1, <2>2, FS_EmptySet
  <2> QED
    BY <1>1, <2>2, <2>3, <2>4 DEF Rank
<1>3. ASSUME NEW i \in I, NEW j \in I, i < j PROVE Rank(I, i) < Rank(I, j)
  <2> DEFINE A == {k \in I : k <= i}
             B == {k \in I : k <= j}
  <2>1. (\A k \in I : k \in Int) /\ i \in Int /\ j \in Int
    OBVIOUS
  <2>2. A \subseteq B /\ B \subseteq I /\ j \in B /\ j \notin A
    <3>1. \A k \in I : k <= i => k <= j
      BY <1>3, <2>1
    <3>2. j <= j /\ ~(j <= i)
      BY <1>3, <2>1
    <3> QED
      BY <3>1, <3>2
  <2>3. IsFiniteSet(B)
    BY <1>1, <2>2, FS_Subset
  <2>4. Cardinality(A) <= Cardinality(B) /\ Cardinality(A) # Cardinality(B)
    BY <2>2, <2>3, FS_Subset
  <2>5. Cardinality(A) \in Nat /\ Cardinality(B) \in Nat
    BY <2>2, <2>3, FS_Subset, FS_CardinalityType
  <2> QED
    BY <2>4, <2>5 DEF Rank
<1> QED
  BY <1>1, <1>2, <1>3

\* Every place is that of one position.
LEMMA NthRank ==
  ASSUME NEW n \in Nat, NEW I, I \subseteq 1..n
  PROVE  /\ \A k \in 1..Cardinality(I) : Nth(I, k) \in I /\ Rank(I, Nth(I, k)) = k
         /\ \A i \in I : Nth(I, Rank(I, i)) = i
         /\ \A k, l \in 1..Cardinality(I) : k < l => Nth(I, k) < Nth(I, l)
<1> DEFINE N == Cardinality(I)
           f == [i \in I |-> Rank(I, i)]
<1>1. /\ IsFiniteSet(I) /\ N \in Nat
      /\ \A i \in I : i \in Int /\ Rank(I, i) \in 1..N
      /\ \A i, j \in I : i < j => Rank(I, i) < Rank(I, j)
  <2>1. \A i \in I : i \in Int
    OBVIOUS
  <2> QED
    BY <2>1, RankRises
<1>2. \A i, j \in I : Rank(I, i) = Rank(I, j) => i = j
  <2> SUFFICES ASSUME NEW i \in I, NEW j \in I, i # j PROVE Rank(I, i) # Rank(I, j)
    OBVIOUS
  <2>1. i < j \/ j < i
    BY <1>1
  <2>2. Rank(I, i) \in Int /\ Rank(I, j) \in Int
    BY <1>1
  <2> QED
    BY <1>1, <2>1, <2>2
<1>3. f \in Injection(I, 1..N)
  BY <1>1, <1>2 DEF Injection, IsInjective
<1>4. f \in Surjection(I, 1..N)
  <2>1. IsFiniteSet(1..N) /\ Cardinality(1..N) = N
    BY <1>1, FS_Interval
  <2> QED
    BY <1>3, <2>1, FS_Injection
<1>5. ASSUME NEW k \in 1..N PROVE Nth(I, k) \in I /\ Rank(I, Nth(I, k)) = k
  <2>1. \E i \in I : Rank(I, i) = k
    BY <1>4 DEF Surjection
  <2> QED
    BY <2>1 DEF Nth, Rank
<1>6. ASSUME NEW i \in I PROVE Nth(I, Rank(I, i)) = i
  BY <1>1, <1>2, <1>5
<1>7. ASSUME NEW k \in 1..N, NEW l \in 1..N, k < l PROVE Nth(I, k) < Nth(I, l)
  <2> PICK i \in I : i = Nth(I, k)
    BY <1>5
  <2> PICK j \in I : j = Nth(I, l)
    BY <1>5
  <2>1. Rank(I, i) = k /\ Rank(I, j) = l
    BY <1>5
  <2>2. ~(j < i) /\ i # j
    BY <1>1, <1>7, <2>1
  <2> QED
    BY <1>1, <2>2
<1> QED
  BY <1>5, <1>6, <1>7

\* What counts the positions in order is Nth.
Enumerates(f, m, I) ==
  /\ f \in [1..m -> I]
  /\ \A k, l \in 1..m : k < l => f[k] < f[l]
  /\ \A i \in I : \E k \in 1..m : f[k] = i

LEMMA NthUnique ==
  ASSUME NEW n \in Nat, NEW I \in SUBSET (1..n), NEW m \in Nat, NEW f, Enumerates(f, m, I)
  PROVE  m = Cardinality(I) /\ \A k \in 1..m : Nth(I, k) = f[k]
<1> SUFFICES ASSUME f \in [1..m -> I],
                    \A k, l \in 1..m : k < l => f[k] < f[l],
                    \A i \in I : \E k \in 1..m : f[k] = i
             PROVE  m = Cardinality(I) /\ \A k \in 1..m : Nth(I, k) = f[k]
  BY DEF Enumerates
<1>0. \A k \in 1..m : f[k] \in I /\ f[k] \in Int
  <2>1. \A i \in I : i \in Int
    OBVIOUS
  <2> QED
    BY <2>1
<1>1. \A k, l \in 1..m : f[k] = f[l] => k = l
  <2> SUFFICES ASSUME NEW k \in 1..m, NEW l \in 1..m, k # l PROVE f[k] # f[l]
    OBVIOUS
  <2>1. k < l \/ l < k
    OBVIOUS
  <2> QED
    BY <1>0, <2>1
<1>2. f \in Bijection(1..m, I)
  BY <1>1 DEF Bijection, Injection, Surjection, IsInjective
<1>3. m = Cardinality(I)
  BY <1>2, FS_CountingElements DEF ExistsBijection
<1>4. ASSUME NEW k \in 1..m PROVE Nth(I, k) = f[k]
  <2> DEFINE A == {j \in I : j <= f[k]}
             g == [l \in 1..k |-> f[l]]
  <2>1. ASSUME NEW l \in 1..m PROVE f[l] <= f[k] <=> l <= k
    <3>1. l = k \/ l < k \/ k < l
      OBVIOUS
    <3> QED
      BY <1>0, <3>1
  <2>2. g \in [1..k -> A]
    BY <2>1
  <2>3. ASSUME NEW j \in A PROVE \E l \in 1..k : g[l] = j
    BY <2>1
  <2>4. g \in Bijection(1..k, A)
    BY <1>1, <2>2, <2>3 DEF Bijection, Injection, Surjection, IsInjective
  <2>5. Cardinality(A) = k
    BY <2>4, FS_CountingElements DEF ExistsBijection
  <2>6. Rank(I, f[k]) = k
    BY <2>5 DEF Rank
  <2> QED
    BY <1>0, <2>6, NthRank
<1> QED
  BY <1>3, <1>4

(* -------- comprehensions ----------------------------------------------------- *)

\* A sublist has an entry for each position, and those of the sequence there.
LEMMA SublistOf ==
  ASSUME NEW S, NEW s \in Seq(S), NEW I, I \subseteq DOMAIN s
  PROVE  /\ Sublist(s, I) \in Seq(S) /\ Len(Sublist(s, I)) = Cardinality(I)
         /\ Cardinality(I) \in 0..Len(s)
         /\ \A k \in 1..Cardinality(I) : Nth(I, k) \in I /\ Sublist(s, I)[k] = s[Nth(I, k)]
         /\ \A i \in I : Rank(I, i) \in 1..Cardinality(I) /\ Sublist(s, I)[Rank(I, i)] = s[i]
         /\ \A k, l \in 1..Cardinality(I) : k < l => Nth(I, k) < Nth(I, l)
<1>1. Len(s) \in Nat /\ I \subseteq 1..Len(s)
  OBVIOUS
<1>2. Cardinality(I) \in 0..Len(s) /\ \A i \in I : Rank(I, i) \in 1..Cardinality(I)
  BY <1>1, RankRises
<1>3. /\ \A k \in 1..Cardinality(I) : Nth(I, k) \in I
      /\ \A i \in I : Nth(I, Rank(I, i)) = i
      /\ \A k, l \in 1..Cardinality(I) : k < l => Nth(I, k) < Nth(I, l)
  BY <1>1, NthRank
<1>4. \A k \in 1..Cardinality(I) : s[Nth(I, k)] \in S
  BY <1>3
<1>5. Sublist(s, I) \in Seq(S) /\ Len(Sublist(s, I)) = Cardinality(I)
  BY <1>2, <1>4 DEF Sublist
<1> QED
  BY <1>2, <1>3, <1>5 DEF Sublist

\* The whole is its own sublist, and the only one of its length.
LEMMA SublistWhole ==
  ASSUME NEW S, NEW s \in Seq(S), NEW I, I \subseteq DOMAIN s,
         I = DOMAIN s \/ Cardinality(I) = Len(s)
  PROVE  I = DOMAIN s /\ Sublist(s, I) = s
<1>1. Len(s) \in Nat /\ DOMAIN s = 1..Len(s)
  OBVIOUS
<1>2. I = 1..Len(s)
  <2>1. IsFiniteSet(1..Len(s)) /\ Cardinality(1..Len(s)) = Len(s)
    <3>1. \A l \in Nat : IsFiniteSet(1..l) /\ Cardinality(1..l) = l
      BY FS_Interval
    <3> QED
      BY <1>1, <3>1
  <2>2. I \in SUBSET (1..Len(s)) /\ (I = 1..Len(s) \/ Cardinality(I) = Cardinality(1..Len(s)))
    BY <1>1, <2>1
  <2> QED
    BY <2>1, <2>2, FS_Subset
<1> DEFINE f == [k \in 1..Len(s) |-> k]
<1>3. Len(s) = Cardinality(I) /\ \A k \in 1..Len(s) : Nth(I, k) = f[k]
  <2>1. f \in [1..Len(s) -> I] /\ I \in SUBSET (1..Len(s))
    BY <1>2
  <2>2. \A k, l \in 1..Len(s) : k < l => f[k] < f[l]
    OBVIOUS
  <2>3. \A i \in I : \E k \in 1..Len(s) : f[k] = i
    BY <1>2
  <2> HIDE DEF f
  <2>4. Enumerates(f, Len(s), I)
    BY <2>1, <2>2, <2>3 DEF Enumerates
  <2> QED
    BY ONLY <1>1, <2>1, <2>4, NthUnique
<1>4. Sublist(s, I) = [k \in 1..Len(s) |-> s[k]]
  BY <1>3 DEF Sublist
<1> QED
  BY <1>1, <1>2, <1>4

LEMMA SublistSet ==
  ASSUME NEW S, NEW s \in Seq(S), NEW I, I \subseteq DOMAIN s
  PROVE  /\ ToSet(Sublist(s, I)) = {s[i] : i \in I}
         /\ ToSet(Sublist(s, I)) \subseteq ToSet(s)
<1> DEFINE t == Sublist(s, I)
<1>1. t \in Seq(S) /\ DOMAIN t = 1..Cardinality(I)
  BY SublistOf
<1>2. \A k \in DOMAIN t : Nth(I, k) \in I /\ t[k] = s[Nth(I, k)]
  BY <1>1, SublistOf
<1>3. \A i \in I : \E k \in DOMAIN t : t[k] = s[i]
  <2> SUFFICES ASSUME NEW i \in I PROVE \E k \in DOMAIN t : t[k] = s[i]
    OBVIOUS
  <2>1. Rank(I, i) \in 1..Cardinality(I) /\ t[Rank(I, i)] = s[i]
    BY SublistOf
  <2> QED
    BY <1>1, <2>1
<1> HIDE DEF t
<1>4. ToSet(t) = {s[i] : i \in I}
  BY <1>2, <1>3 DEF ToSet
<1> QED
  BY <1>4 DEF t, ToSet

\* Different entries of a sublist stand at different positions.
LEMMA SublistApart ==
  ASSUME NEW S, NEW s \in Seq(S), NEW I, I \subseteq DOMAIN s,
         NEW k \in DOMAIN Sublist(s, I), NEW l \in DOMAIN Sublist(s, I), k # l
  PROVE  \E i, j \in I : i # j /\ Sublist(s, I)[k] = s[i] /\ Sublist(s, I)[l] = s[j]
<1>1. k \in 1..Cardinality(I) /\ l \in 1..Cardinality(I) /\ (k < l \/ l < k)
  <2>1. DOMAIN Sublist(s, I) = 1..Cardinality(I) /\ Cardinality(I) \in Nat
    BY SublistOf
  <2> QED
    BY <2>1
<1>2. Nth(I, k) \in I /\ Nth(I, l) \in I /\ (Nth(I, k) < Nth(I, l) \/ Nth(I, l) < Nth(I, k))
  BY <1>1, SublistOf
<1>3. \A i \in I : i \in Int
  OBVIOUS
<1>4. Nth(I, k) # Nth(I, l)
  BY <1>2, <1>3
<1>5. Sublist(s, I)[k] = s[Nth(I, k)] /\ Sublist(s, I)[l] = s[Nth(I, l)]
  BY <1>1, SublistOf
<1> QED
  BY <1>2, <1>4, <1>5

(* -------- the least of a set ----------------------------------------------- *)

Before == {p \in Nat \X Nat : p[1] < p[2]}

\* A set of numbers has a least one.
LEMMA Least ==
  ASSUME NEW T, T \subseteq Nat, T # {}
  PROVE  /\ \E x \in T : \A y \in T : x <= y
         /\ Min(T) \in T /\ \A y \in T : Min(T) <= y
<1>1. IsWellFoundedOn(Before, Nat)
  <2>1. OpToRel(<, Nat) = Before
    BY Zenon DEF OpToRel, Before
  <2> QED
    BY <2>1, NatLessThanWellFounded, Zenon
<1>2. PICK x \in T : \A y \in T : ~(<<y, x>> \in Before)
  BY <1>1, WFMin, Zenon
<1>3. ASSUME NEW y \in T PROVE x <= y
  <2>1. x \in Nat /\ y \in Nat /\ <<y, x>> \notin Before
    BY <1>2
  <2> QED
    BY <2>1 DEF Before
<1>4. \E m \in T : \A y \in T : m <= y
  BY <1>2, <1>3
<1> QED
  BY <1>4, Zenon DEF Min

\* What stands after a kept entry and is kept stands after it still.
LEMMA SublistLater ==
  ASSUME NEW S, NEW s \in Seq(S), NEW I, I \subseteq DOMAIN s, NEW k \in DOMAIN Sublist(s, I)
  PROVE  \E i \in I : /\ Sublist(s, I)[k] = s[i]
                      /\ \A j \in I : i < j => \E l \in DOMAIN Sublist(s, I) : k < l /\ Sublist(s, I)[l] = s[j]
<1> PICK t : t = Sublist(s, I)
  OBVIOUS
<1>1. /\ DOMAIN t = 1..Cardinality(I) /\ Cardinality(I) \in Nat /\ DOMAIN s = 1..Len(s) /\ Len(s) \in Nat
      /\ \A m \in 1..Cardinality(I) : Nth(I, m) \in I /\ t[m] = s[Nth(I, m)]
      /\ \A i \in I : Rank(I, i) \in 1..Cardinality(I) /\ t[Rank(I, i)] = s[i]
      /\ \A m, l \in 1..Cardinality(I) : m < l => Nth(I, m) < Nth(I, l)
  BY SublistOf
<1>2. \A i \in I : Nth(I, Rank(I, i)) = i
  BY <1>1, NthRank
<1>3. ASSUME NEW j \in I, Nth(I, k) < j PROVE k < Rank(I, j) /\ t[Rank(I, j)] = s[j]
  <2>1. Rank(I, j) \in 1..Cardinality(I) /\ k \in 1..Cardinality(I) /\ Nth(I, Rank(I, j)) = j
    BY <1>1, <1>2
  <2>2. ~(Rank(I, j) < k) /\ Rank(I, j) # k
    BY <1>1, <1>3, <2>1
  <2> QED
    BY <1>1, <2>1, <2>2
<1> QED
  BY <1>1, <1>3

LEMMA Greatest ==
  ASSUME NEW n \in Nat, NEW T, T \subseteq 1..n, T # {}
  PROVE  \E x \in T : \A y \in T : y <= x
<1> DEFINE U == {m \in Nat : n - m \in T}
<1>1. PICK x \in T : TRUE
  OBVIOUS
<1>2. n - x \in Nat /\ n - (n - x) = x
  OBVIOUS
<1>3. U \subseteq Nat /\ U # {}
  BY <1>1, <1>2
<1>4. PICK m \in U : \A l \in U : m <= l
  <2> HIDE DEF U
  <2> QED
    BY <1>3, Least
<1>5. \A y \in T : y \in 1..n /\ n - y \in Nat /\ n - (n - y) = y
  OBVIOUS
<1>6. \A y \in T : n - y \in U
  BY <1>5
<1> QED
  BY <1>4, <1>5, <1>6

\* A finite set as a list: each of its members once.
LEMMA SetToSeqOf ==
  ASSUME NEW S, IsFiniteSet(S)
  PROVE  /\ SetToSeq(S) \in Seq(S) /\ DOMAIN SetToSeq(S) = 1..Cardinality(S) /\ Cardinality(S) \in Nat
         /\ \A x \in S : \E i \in DOMAIN SetToSeq(S) : SetToSeq(S)[i] = x
         /\ \A i, j \in DOMAIN SetToSeq(S) : SetToSeq(S)[i] = SetToSeq(S)[j] => i = j
<1> PICK n : n = Cardinality(S)
  OBVIOUS
<1>1. n \in Nat /\ ExistsBijection(1..n, S)
  BY FS_CardinalityType
<1>2. \E f \in [1..n -> S] : IsInjective(f)
  BY <1>1 DEF ExistsBijection, Bijection, Injection, IsInjective
<1> PICK f : f = SetToSeq(S)
  OBVIOUS
<1>3. f \in [1..n -> S] /\ IsInjective(f)
  BY <1>2 DEF SetToSeq
<1>4. f \in Injection(1..n, S)
  BY <1>3 DEF Injection, IsInjective
<1>5. IsFiniteSet(1..n) /\ Cardinality(1..n) = n
  BY <1>1, FS_Interval
<1>6. f \in Surjection(1..n, S)
  BY <1>4, <1>5, FS_Injection
<1> QED
  BY <1>1, <1>3, <1>6 DEF Surjection, IsInjective

\* One list after the other.
Joined(M, s, t) ==
  /\ Len(M) = Len(s) + Len(t) /\ DOMAIN M = 1..(Len(s) + Len(t))
  /\ \A i \in 1..Len(s) : M[i] = s[i]
  /\ \A i \in 1..(Len(s) + Len(t)) : i > Len(s) => i - Len(s) \in 1..Len(t) /\ M[i] = t[i - Len(s)]
  /\ \A i \in 1..Len(t) : i + Len(s) \in 1..(Len(s) + Len(t)) /\ M[i + Len(s)] = t[i]

LEMMA JoinedAt ==
  ASSUME NEW S, NEW s \in Seq(S), NEW t \in Seq(S)
  PROVE  s \o t \in Seq(S) /\ Joined(s \o t, s, t)
<1> PICK n, m : n = Len(s) /\ m = Len(t)
  OBVIOUS
<1>1. n \in Nat /\ m \in Nat
  OBVIOUS
<1>2. s \o t \in Seq(S) /\ Len(s \o t) = n + m /\ DOMAIN (s \o t) = 1..(n + m)
  OBVIOUS
<1>3. \A i \in 1..n : (s \o t)[i] = s[i]
  OBVIOUS
<1>4. ASSUME NEW i \in 1..(n + m), i > n PROVE i - n \in 1..m /\ (s \o t)[i] = t[i - n]
  BY <1>1, <1>4
<1>5. ASSUME NEW i \in 1..m PROVE i + n \in 1..(n + m) /\ (s \o t)[i + n] = t[i]
  <2>1. i + n \in 1..(n + m) /\ i + n > n /\ (i + n) - n = i
    BY <1>1
  <2> QED
    BY <1>4, <2>1
<1> QED
  BY <1>1, <1>2, <1>3, <1>4, <1>5 DEF Joined

\* The places of a part are counted out by Nth: t has the entries of s at I.
CountedOut(t, s, I, c, e) ==
  /\ Len(t) = c /\ DOMAIN t = 1..c
  /\ e \in [1..c -> I]
  /\ \A k \in 1..c : t[k] = s[e[k]]
  /\ \A i \in I : \E k \in 1..c : e[k] = i
  /\ \A k, l \in 1..c : k < l => e[k] < e[l]

LEMMA SublistAt ==
  ASSUME NEW S, NEW s \in Seq(S), NEW I \in SUBSET DOMAIN s
  PROVE  Sublist(s, I) \in Seq(S) /\ \E c \in Nat : \E e : CountedOut(Sublist(s, I), s, I, c, e)
<1> PICK t : t = Sublist(s, I)
  OBVIOUS
<1>1. DOMAIN s = 1..Len(s) /\ Len(s) \in Nat /\ I \subseteq 1..Len(s)
  OBVIOUS
<1>2. /\ t \in Seq(S) /\ Len(t) = Cardinality(I)
      /\ Cardinality(I) \in 0..Len(s)
      /\ \A k \in 1..Cardinality(I) : Nth(I, k) \in I /\ t[k] = s[Nth(I, k)]
      /\ \A i \in I : Rank(I, i) \in 1..Cardinality(I)
      /\ \A k, l \in 1..Cardinality(I) : k < l => Nth(I, k) < Nth(I, l)
  BY SublistOf
<1>3. \A i \in I : Nth(I, Rank(I, i)) = i
  BY <1>1, NthRank
<1> PICK c \in Nat : c = Cardinality(I)
  BY <1>1, <1>2
<1> DEFINE e == [k \in 1..c |-> Nth(I, k)]
<1>4. e \in [1..c -> I] /\ DOMAIN t = 1..c /\ Len(t) = c
  BY <1>2
<1>5. /\ \A k \in 1..c : t[k] = s[e[k]]
      /\ \A k, l \in 1..c : k < l => e[k] < e[l]
  BY <1>2
<1>6. \A i \in I : \E k \in 1..c : e[k] = i
  BY <1>2, <1>3
<1> HIDE DEF e
<1>7. CountedOut(t, s, I, c, e)
  BY <1>4, <1>5, <1>6 DEF CountedOut
<1> QED
  BY <1>2, <1>7

\* Two parts with the same entries in the same order are the same list.
Aligned(s, I, t, J, e) ==
  /\ \A i \in I : e[i] \in J /\ s[i] = t[e[i]]
  /\ \A i, j \in I : i < j => e[i] < e[j]
  /\ \A j \in J : \E i \in I : e[i] = j

LEMMA SublistSame ==
  ASSUME NEW S, NEW s \in Seq(S), NEW t \in Seq(S), NEW I \in SUBSET DOMAIN s, NEW J \in SUBSET DOMAIN t,
         NEW e, Aligned(s, I, t, J, e)
  PROVE  Sublist(s, I) = Sublist(t, J)
<1>1. /\ \A i \in I : e[i] \in J /\ s[i] = t[e[i]]
      /\ \A i, j \in I : i < j => e[i] < e[j]
      /\ \A j \in J : \E i \in I : e[i] = j
  BY DEF Aligned
<1>2. PICK m \in Nat : m = Cardinality(I)
  BY SublistOf
<1>3. /\ \A k \in 1..m : Nth(I, k) \in I
      /\ \A i \in I : Rank(I, i) \in 1..m
      /\ \A k, l \in 1..m : k < l => Nth(I, k) < Nth(I, l)
  BY <1>2, SublistOf
<1>4. \A i \in I : Nth(I, Rank(I, i)) = i
  <2>1. Len(s) \in Nat /\ I \subseteq 1..Len(s)
    OBVIOUS
  <2> QED
    BY <2>1, NthRank
<1> DEFINE f == [k \in 1..m |-> e[Nth(I, k)]]
<1>5. f \in [1..m -> J]
  BY <1>1, <1>3
<1>6. \A k, l \in 1..m : k < l => f[k] < f[l]
  BY <1>1, <1>3
<1>7. ASSUME NEW j \in J PROVE \E k \in 1..m : f[k] = j
  <2>1. PICK i \in I : e[i] = j
    BY <1>1
  <2>2. Rank(I, i) \in 1..m /\ Nth(I, Rank(I, i)) = i
    BY <1>3, <1>4
  <2> QED
    BY <2>1, <2>2
<1>8. \A k \in 1..m : f[k] = e[Nth(I, k)]
  OBVIOUS
<1> HIDE DEF f
<1>9. Enumerates(f, m, J)
  BY <1>5, <1>6, <1>7 DEF Enumerates
<1>10. m = Cardinality(J) /\ \A k \in 1..m : Nth(J, k) = f[k]
  <2>1. Len(t) \in Nat /\ J \in SUBSET (1..Len(t))
    OBVIOUS
  <2> QED
    BY ONLY <1>2, <1>9, <2>1, NthUnique
<1>11. \A k \in 1..m : s[Nth(I, k)] = t[Nth(J, k)]
  BY <1>1, <1>3, <1>8, <1>10
<1> QED
  BY <1>2, <1>10, <1>11 DEF Sublist

(* -------- find_match_end --------------------------------------------------- *)

MatchEntry(Kind) == [kind : Kind, ts : Nat]

\* Where step k is first met after the position i.
NextMet(s, es, k, i) == Min({j \in (i + 1)..Len(es) : es[j].kind \in s[k]} \cup {Len(es) + 1})

LEMMA NextMetIs ==
  ASSUME NEW Kind, NEW s \in Seq(SUBSET Kind), NEW es \in Seq(MatchEntry(Kind)), NEW k \in 1..Len(s), NEW i \in 0..(Len(es) + 1)
  PROVE  /\ NextMet(s, es, k, i) \in 1..(Len(es) + 1)
         /\ NextMet(s, es, k, i) <= Len(es) => i < NextMet(s, es, k, i) /\ es[NextMet(s, es, k, i)].kind \in s[k]
         /\ \A j \in 1..Len(es) : i < j /\ es[j].kind \in s[k] => NextMet(s, es, k, i) <= j
<1> PICK n \in Nat : n = Len(es)
  OBVIOUS
<1> DEFINE T == {j \in (i + 1)..n : es[j].kind \in s[k]} \cup {n + 1}
<1>1. T \subseteq Nat /\ T # {}
  OBVIOUS
<1>2. \A j \in T : j \in 1..(n + 1) /\ (j <= n => i < j /\ es[j].kind \in s[k])
  OBVIOUS
<1>3. \A j \in 1..n : i < j /\ es[j].kind \in s[k] => j \in T
  OBVIOUS
<1>4. NextMet(s, es, k, i) = Min(T)
  BY DEF NextMet
<1> HIDE DEF T
<1>5. Min(T) \in T /\ \A j \in T : Min(T) <= j
  BY <1>1, Least
<1> QED
  BY <1>2, <1>3, <1>4, <1>5

\* What a search that begins at start meets.
Meets(s, es, start, at) ==
  at = [k \in 0..Len(s) |->
          IF k = 0 THEN start - 1
          ELSE Min({i \in (at[k - 1] + 1)..Len(es) : es[i].kind \in s[k]} \cup {Len(es) + 1})]

Greedy(s, es, start, m, at) ==
  /\ at \in [0..m -> 0..(Len(es) + 1)]
  /\ at[0] = start - 1
  /\ \A k \in 1..m : at[k] = NextMet(s, es, k, at[k - 1])

LEMMA GreedyExists ==
  ASSUME NEW Kind, NEW s \in Seq(SUBSET Kind), NEW es \in Seq(MatchEntry(Kind)), NEW start \in 1..(Len(es) + 1)
  PROVE  \E at : Greedy(s, es, start, Len(s), at)
<1> PICK n \in Nat : n = Len(es)
  OBVIOUS
<1> PICK K \in Nat : K = Len(s)
  OBVIOUS
<1> SUFFICES ASSUME ~\E at : Greedy(s, es, start, K, at) PROVE FALSE
  OBVIOUS
<1> DEFINE T == {m \in Nat : m <= K /\ ~\E at : Greedy(s, es, start, m, at)}
<1>1. T \subseteq Nat /\ K \in T
  OBVIOUS
<1>2. PICK m \in T : \A l \in T : m <= l
  <2> HIDE DEF T
  <2> QED
    BY <1>1, Least
<1>3. m \in Nat /\ m <= K /\ ~\E at : Greedy(s, es, start, m, at)
  OBVIOUS
<1>4. CASE m = 0
  <2>1. Greedy(s, es, start, 0, [k \in 0..0 |-> start - 1])
    BY DEF Greedy
  <2> QED
    BY <1>3, <1>4, <2>1
<1>5. CASE m # 0
  <2>1. m - 1 \in Nat /\ m - 1 <= K /\ m - 1 \notin T
    <3>1. m - 1 \in Nat /\ m - 1 <= K /\ ~(m <= m - 1)
      BY <1>3, <1>5
    <3> QED
      BY <1>2, <3>1
  <2>2. PICK f : Greedy(s, es, start, m - 1, f)
    BY <2>1
  <2> DEFINE at == [k \in 0..m |-> IF k = m THEN NextMet(s, es, m, f[m - 1]) ELSE f[k]]
  <2>3. f[m - 1] \in 0..(n + 1) /\ m \in 1..K
    BY <1>3, <1>5, <2>1, <2>2 DEF Greedy
  <2>4. NextMet(s, es, m, f[m - 1]) \in 1..(n + 1)
    BY <2>3, NextMetIs
  <2>5. at \in [0..m -> 0..(n + 1)]
    <3> SUFFICES ASSUME NEW k \in 0..m PROVE at[k] \in 0..(n + 1)
      OBVIOUS
    <3>1. CASE k = m
      BY <2>4, <3>1
    <3>2. CASE k # m
      <4>1. k \in 0..(m - 1)
        BY <1>3, <3>2
      <4> QED
        BY <2>2, <3>2, <4>1 DEF Greedy
    <3> QED
      BY <3>1, <3>2
  <2>6. at[0] = start - 1
    BY <1>3, <1>5, <2>1, <2>2 DEF Greedy
  <2>7. ASSUME NEW k \in 1..m PROVE at[k] = NextMet(s, es, k, at[k - 1])
    <3>1. k - 1 \in 0..(m - 1) /\ at[k - 1] = f[k - 1]
      BY <1>3
    <3>2. CASE k = m
      BY <3>1, <3>2
    <3>3. CASE k # m
      <4>1. k \in 1..(m - 1) /\ at[k] = f[k]
        BY <1>3, <3>3
      <4> QED
        BY <2>2, <3>1, <4>1 DEF Greedy
    <3> QED
      BY <3>2, <3>3
  <2> HIDE DEF at
  <2>8. Greedy(s, es, start, m, at)
    BY <2>5, <2>6, <2>7 DEF Greedy
  <2> QED
    BY <1>3, <2>8
<1> QED
  BY <1>4, <1>5

LEMMA WalkGreedy ==
  ASSUME NEW Kind, NEW s \in Seq(SUBSET Kind), NEW es \in Seq(MatchEntry(Kind)), NEW start \in 1..(Len(es) + 1)
  PROVE  Greedy(s, es, start, Len(s), Walk(s, es, start))
<1> PICK n \in Nat : n = Len(es)
  OBVIOUS
<1> PICK K \in Nat : K = Len(s)
  OBVIOUS
<1>1. PICK f : Greedy(s, es, start, K, f)
  BY GreedyExists
<1>2. Meets(s, es, start, f)
  <2> DEFINE g == [k \in 0..K |-> IF k = 0 THEN start - 1
                                   ELSE Min({i \in (f[k - 1] + 1)..n : es[i].kind \in s[k]} \cup {n + 1})]
  <2>1. DOMAIN f = 0..K /\ f = [k \in 0..K |-> f[k]]
    BY <1>1 DEF Greedy
  <2>2. ASSUME NEW k \in 0..K PROVE f[k] = g[k]
    <3>1. k = 0 \/ k \in 1..K
      OBVIOUS
    <3> QED
      BY <1>1, <3>1 DEF Greedy, NextMet
  <2>3. f = g
    BY <2>1, <2>2
  <2> QED
    BY <2>3 DEF Meets
<1>3. Meets(s, es, start, Walk(s, es, start))
  BY <1>2 DEF Walk, Meets, Matches
<1> PICK at : at = Walk(s, es, start)
  OBVIOUS
<1>4. at = [k \in 0..K |-> IF k = 0 THEN start - 1 ELSE NextMet(s, es, k, at[k - 1])]
  BY <1>3 DEF Meets, NextMet
<1>5. at[0] = start - 1 /\ \A k \in 1..K : at[k] = NextMet(s, es, k, at[k - 1])
  BY <1>4
<1>6. ASSUME NEW k \in 0..K PROVE at[k] = f[k]
  <2> DEFINE T == {m \in Nat : m <= K /\ at[m] # f[m]}
  <2> SUFFICES ASSUME T # {} PROVE FALSE
    OBVIOUS
  <2>1. T \subseteq Nat
    OBVIOUS
  <2>2. PICK m \in T : \A l \in T : m <= l
    <3> HIDE DEF T
    <3> QED
      BY <2>1, Least
  <2>3. m # 0
    BY <1>1, <1>5 DEF Greedy
  <2>4. m \in 1..K /\ m - 1 \in Nat /\ m - 1 <= K /\ ~(m <= m - 1)
    BY <2>3
  <2>5. at[m - 1] = f[m - 1]
    BY <2>2, <2>4
  <2> QED
    BY <1>1, <1>5, <2>4, <2>5 DEF Greedy
<1>7. at = f
  BY <1>1, <1>4, <1>6 DEF Greedy
<1> QED
  BY <1>1, <1>7

\* The search meets the steps in order, each no later than anything does that
\* starts no earlier.
Occurs(s, es, f) ==
  /\ f \in [1..Len(s) -> 1..Len(es)]
  /\ \A k \in 1..Len(s) : es[f[k]].kind \in s[k]
  /\ \A k \in 1..Len(s) : k > 1 => f[k - 1] < f[k]

LEMMA WalkFirst ==
  ASSUME NEW Kind, NEW s \in Seq(SUBSET Kind), s # <<>>, NEW es \in Seq(MatchEntry(Kind)), NEW start \in 1..(Len(es) + 1), NEW at,
         at = Walk(s, es, start)
  PROVE  /\ at[Len(s)] \in 1..(Len(es) + 1) /\ at[1] >= start /\ at[1] \in 1..(Len(es) + 1)
         /\ at[Len(s)] <= Len(es) => at[1] <= Len(es) /\ Occurs(s, es, [k \in 1..Len(s) |-> at[k]])
         /\ \A f : Occurs(s, es, f) /\ f[1] >= start => \A k \in 1..Len(s) : at[k] <= f[k]
<1> PICK n \in Nat : n = Len(es)
  OBVIOUS
<1> PICK K \in Nat : K = Len(s) /\ K # 0
  OBVIOUS
<1>1. /\ at \in [0..K -> 0..(n + 1)]
      /\ at[0] = start - 1
      /\ \A k \in 1..K : at[k] = NextMet(s, es, k, at[k - 1])
  BY WalkGreedy DEF Greedy
<1>2. ASSUME NEW k \in 1..K
      PROVE  /\ at[k] \in 1..(n + 1) /\ at[k - 1] \in 0..(n + 1)
             /\ at[k] <= n => at[k - 1] < at[k] /\ es[at[k]].kind \in s[k]
             /\ \A j \in 1..n : at[k - 1] < j /\ es[j].kind \in s[k] => at[k] <= j
  <2>1. k - 1 \in 0..K /\ k \in 0..K
    OBVIOUS
  <2>2. at[k - 1] \in 0..(n + 1) /\ at[k] = NextMet(s, es, k, at[k - 1])
    BY <1>1, <2>1
  <2> QED
    BY <2>2, NextMetIs
<1>3. at[1] >= start /\ 1 \in 1..K /\ K \in 1..K
  <2>1. 1 \in 1..K /\ K \in 1..K /\ 1 - 1 = 0
    OBVIOUS
  <2>2. at[1] \in 1..(n + 1) /\ (at[1] <= n => at[0] < at[1])
    BY <1>2, <2>1
  <2> QED
    BY <1>1, <2>1, <2>2
<1>4. ASSUME at[K] <= n, NEW k \in 1..K PROVE at[k] <= n
  <2> DEFINE T == {l \in 1..K : at[l] > n}
  <2> SUFFICES ASSUME T # {} PROVE FALSE
    BY <1>2
  <2>1. T \subseteq 1..K
    OBVIOUS
  <2>2. PICK l \in T : \A m \in T : m <= l
    <3> HIDE DEF T
    <3> QED
      BY <2>1, Greatest
  <2>3. l \in 1..K /\ at[l] > n /\ l # K
    BY <1>4, <1>2
  <2>4. l + 1 \in 1..K /\ (l + 1) - 1 = l /\ ~(l + 1 <= l)
    BY <2>3
  <2>5. at[l + 1] \in 1..(n + 1) /\ (at[l + 1] <= n => at[l] < at[l + 1])
    BY <1>2, <2>4
  <2>6. l + 1 \notin T
    BY <2>2, <2>4
  <2>7. at[l + 1] <= n
    BY <2>4, <2>5, <2>6
  <2> QED
    BY <1>2, <2>3, <2>5, <2>7
<1>5. ASSUME at[K] <= n PROVE Occurs(s, es, [k \in 1..K |-> at[k]])
  <2> DEFINE f == [k \in 1..K |-> at[k]]
  <2>1. f \in [1..K -> 1..n]
    BY <1>2, <1>4, <1>5
  <2>2. \A k \in 1..K : es[f[k]].kind \in s[k]
    BY <1>2, <1>4, <1>5
  <2>3. ASSUME NEW k \in 1..K, k > 1 PROVE f[k - 1] < f[k]
    <3>1. k - 1 \in 1..K
      BY <2>3
    <3> QED
      BY <1>2, <1>4, <1>5, <3>1
  <2> HIDE DEF f
  <2>4. Occurs(s, es, f)
    BY <2>1, <2>2, <2>3 DEF Occurs
  <2> QED
    BY <2>4 DEF f
<1>6. ASSUME NEW f, Occurs(s, es, f), f[1] >= start, NEW k \in 1..K PROVE at[k] <= f[k]
  <2> DEFINE T == {m \in Nat : m \in 1..K /\ ~(at[m] <= f[m])}
  <2> SUFFICES ASSUME T # {} PROVE FALSE
    OBVIOUS
  <2>1. T \subseteq Nat
    OBVIOUS
  <2>2. PICK m \in T : \A l \in T : m <= l
    <3> HIDE DEF T
    <3> QED
      BY <2>1, Least
  <2>3. m \in 1..K /\ ~(at[m] <= f[m])
    OBVIOUS
  <2>4. f[m] \in 1..n /\ es[f[m]].kind \in s[m] /\ (m > 1 => f[m - 1] < f[m])
    BY <1>6, <2>3 DEF Occurs
  <2>5. at[m - 1] < f[m]
    <3>1. CASE m = 1
      BY <1>1, <1>6, <2>4, <3>1
    <3>2. CASE m # 1
      <4>1. m - 1 \in 1..K /\ ~(m <= m - 1) /\ m - 1 \in Nat /\ m > 1
        BY <2>3, <3>2
      <4>2. m - 1 \notin T
        BY <2>2, <4>1
      <4>3. at[m - 1] <= f[m - 1]
        BY <4>1, <4>2
      <4>4. f[m - 1] \in 1..n /\ at[m - 1] \in 0..(n + 1)
        BY <1>2, <1>6, <2>3, <4>1 DEF Occurs
      <4> QED
        BY <2>4, <4>1, <4>3, <4>4
    <3> QED
      BY <3>1, <3>2
  <2> QED
    BY <1>2, <2>3, <2>4, <2>5
<1>7. at[K] \in 1..(n + 1) /\ at[1] \in 1..(n + 1) /\ (at[K] <= n => at[1] <= n)
  BY <1>2, <1>3, <1>4
<1> QED
  BY <1>3, <1>5, <1>6, <1>7

LEMMA EntryTime ==
  ASSUME NEW Kind, NEW es \in Seq(MatchEntry(Kind))
  PROVE  \A i \in 1..Len(es) : es[i].ts \in Nat
<1> SUFFICES ASSUME NEW i \in 1..Len(es) PROVE es[i].ts \in Nat
  OBVIOUS
<1>1. es[i] \in MatchEntry(Kind)
  OBVIOUS
<1> QED
  BY <1>1 DEF MatchEntry

LEMMA OrderedAll ==
  ASSUME NEW Kind, NEW es \in Seq(MatchEntry(Kind)), Ordered(es),
         NEW i \in 1..Len(es), NEW j \in 1..Len(es), i <= j
  PROVE  es[i].ts <= es[j].ts
<1> PICK n \in Nat : n = Len(es)
  OBVIOUS
<1> DEFINE T == {m \in Nat : m \in i..n /\ ~(es[i].ts <= es[m].ts)}
<1> SUFFICES ASSUME T # {} PROVE FALSE
  OBVIOUS
<1>1. T \subseteq Nat
  OBVIOUS
<1>2. PICK m \in T : \A l \in T : m <= l
  <2> HIDE DEF T
  <2> QED
    BY <1>1, Least
<1>3. \A l \in 1..n : es[l].ts \in Nat
  BY EntryTime
<1>4. m # i /\ m \in i..n
  BY <1>3
<1>5. m - 1 \in Nat /\ m - 1 \in i..n /\ ~(m <= m - 1) /\ m \in 2..n
  BY <1>4
<1>6. es[i].ts <= es[m - 1].ts
  BY <1>2, <1>5
<1>7. es[m - 1].ts <= es[m].ts
  BY <1>5 DEF Ordered
<1>8. m - 1 \in 1..n /\ m \in 1..n
  BY <1>5
<1> QED
  BY <1>3, <1>6, <1>7, <1>8

\* What the search answers that begins at start, when g answers those that
\* begin later.
Answer(s, w, es, g, start) ==
  IF start > Len(es) \/ Walk(s, es, start)[Len(s)] > Len(es) THEN None
  ELSE IF es[Walk(s, es, start)[Len(s)]].ts - es[Walk(s, es, start)[1]].ts <= w
       THEN es[Walk(s, es, start)[Len(s)]].ts
  ELSE g[Walk(s, es, start)[1] + 1]

Answers(s, w, es, g) == g = [start \in 1..(Len(es) + 1) |-> Answer(s, w, es, g, start)]

\* The answers of g from start on depend on later ones only.
LEMMA AnswerLater ==
  ASSUME NEW Kind, NEW s \in Seq(SUBSET Kind), s # <<>>, NEW es \in Seq(MatchEntry(Kind)), NEW w,
         NEW start \in 1..(Len(es) + 1), NEW f, NEW g,
         \A i \in 1..(Len(es) + 1) : i > start => f[i] = g[i]
  PROVE  Answer(s, w, es, f, start) = Answer(s, w, es, g, start)
<1> PICK n \in Nat : n = Len(es)
  OBVIOUS
<1> PICK at : at = Walk(s, es, start)
  OBVIOUS
<1>1. /\ at[Len(s)] \in 1..(n + 1) /\ at[1] >= start /\ at[1] \in 1..(n + 1)
      /\ at[Len(s)] <= n => at[1] <= n
  BY WalkFirst
<1>2. at[Len(s)] <= n => f[at[1] + 1] = g[at[1] + 1]
  <2> SUFFICES ASSUME at[Len(s)] <= n PROVE f[at[1] + 1] = g[at[1] + 1]
    OBVIOUS
  <2>1. at[1] + 1 \in 1..(n + 1) /\ at[1] + 1 > start
    BY <1>1
  <2> QED
    BY <2>1
<1>3. ~(at[Len(s)] > n) => at[Len(s)] <= n
  BY <1>1
<1> QED
  BY <1>2, <1>3 DEF Answer

LEMMA AnswersExist ==
  ASSUME NEW Kind, NEW s \in Seq(SUBSET Kind), s # <<>>, NEW es \in Seq(MatchEntry(Kind)), NEW w
  PROVE  \E g : Answers(s, w, es, g)
<1> PICK n \in Nat : n = Len(es)
  OBVIOUS
<1> DEFINE From(m, g) == /\ g = [i \in 1..(n + 1) |-> g[i]]
                         /\ \A start \in 1..(n + 1) : start >= n + 2 - m => g[start] = Answer(s, w, es, g, start)
           T == {m \in Nat : m <= n + 1 /\ ~\E g : From(m, g)}
<1>1. T = {}
  <2> SUFFICES ASSUME T # {} PROVE FALSE
    OBVIOUS
  <2>1. T \subseteq Nat
    OBVIOUS
  <2>2. PICK m \in T : \A l \in T : m <= l
    <3> HIDE DEF T
    <3> QED
      BY <2>1, Least
  <2>3. m \in Nat /\ m <= n + 1 /\ ~\E g : From(m, g)
    OBVIOUS
  <2>4. m # 0
    <3>1. From(0, [i \in 1..(n + 1) |-> None])
      OBVIOUS
    <3> QED
      BY <2>3, <3>1
  <2>5. m - 1 \in Nat /\ m - 1 <= n + 1 /\ ~(m <= m - 1)
    BY <2>3, <2>4
  <2>6. PICK f : From(m - 1, f)
    BY <2>2, <2>5
  <2> DEFINE first == n + 2 - m
             v == Answer(s, w, es, f, first)
             g == [i \in 1..(n + 1) |-> IF i = first THEN v ELSE f[i]]
  <2>7. first \in 1..(n + 1)
    BY <2>3, <2>4
  <2>8. /\ g[first] = v
        /\ \A i \in 1..(n + 1) : i # first => g[i] = f[i]
        /\ g = [i \in 1..(n + 1) |-> g[i]]
    BY <2>7
  <2> HIDE DEF g
  <2>9. ASSUME NEW start \in 1..(n + 1), start >= first PROVE g[start] = Answer(s, w, es, g, start)
    <3>1. \A i \in 1..(n + 1) : i > start => f[i] = g[i]
      BY <2>7, <2>8, <2>9
    <3>2. Answer(s, w, es, f, start) = Answer(s, w, es, g, start)
      BY <3>1, AnswerLater
    <3>3. CASE start = first
      BY <2>8, <3>2, <3>3
    <3>4. CASE start # first
      <4>1. start >= n + 2 - (m - 1)
        BY <2>3, <2>9, <3>4
      <4>2. f[start] = Answer(s, w, es, f, start)
        BY <2>6, <4>1
      <4> QED
        BY <2>8, <3>2, <3>4, <4>2
    <3> QED
      BY <3>3, <3>4
  <2>10. From(m, g)
    BY <2>8, <2>9
  <2> QED
    BY <2>3, <2>10
<1>2. n + 1 \in Nat /\ n + 1 <= n + 1 /\ n + 1 \notin T
  <2> HIDE DEF T
  <2> QED
    BY <1>1
<1>3. PICK g : From(n + 1, g)
  BY <1>2
<1>4. \A start \in 1..(n + 1) : g[start] = Answer(s, w, es, g, start)
  BY <1>3
<1> QED
  BY <1>3, <1>4 DEF Answers

LEMMA FindIsAnswer ==
  ASSUME NEW Kind, NEW s \in Seq(SUBSET Kind), s # <<>>, NEW es \in Seq(MatchEntry(Kind)), NEW w
  PROVE  \E g : Answers(s, w, es, g) /\ FindMatchEnd(s, w, es) = g[1]
<1>1. \E g : Answers(s, w, es, g)
  BY AnswersExist
<1>2. FindMatchEnd(s, w, es) = (CHOOSE g : Answers(s, w, es, g))[1]
  BY DEF FindMatchEnd, Answers, Answer
<1> QED
  BY <1>1, <1>2

LEMMA OccurrencesAre ==
  ASSUME NEW s, NEW w, NEW es, NEW f
  PROVE  f \in Occurrences(s, w, es) <=> Occurs(s, es, f) /\ es[f[Len(s)]].ts - es[f[1]].ts <= w
<1>1. f \in Occurrences(s, w, es) <=> /\ f \in [1..Len(s) -> 1..Len(es)]
                                      /\ \A k \in DOMAIN f : es[f[k]].kind \in s[k]
                                      /\ \A k \in DOMAIN f : k > 1 => f[k - 1] < f[k]
                                      /\ es[f[Len(s)]].ts - es[f[1]].ts <= w
  BY DEF Occurrences, Matches
<1>2. f \in [1..Len(s) -> 1..Len(es)] => DOMAIN f = 1..Len(s)
  OBVIOUS
<1> QED
  BY <1>1, <1>2 DEF Occurs

\* What find_match_end answers is the end of an occurrence; and of entries in
\* the order of their timestamps, of none that ends later than another.
LEMMA FindsFirst ==
  ASSUME NEW Kind, NEW s \in Seq(SUBSET Kind), s # <<>>, NEW es \in Seq(MatchEntry(Kind)), NEW w \in Int
  PROVE  /\ \/ FindMatchEnd(s, w, es) = None
            \/ \E f \in Occurrences(s, w, es) : FindMatchEnd(s, w, es) = es[f[Len(s)]].ts
         /\ Ordered(es) => \A f \in Occurrences(s, w, es) :
              FindMatchEnd(s, w, es) # None /\ FindMatchEnd(s, w, es) <= es[f[Len(s)]].ts
<1> PICK n \in Nat : n = Len(es)
  OBVIOUS
<1> PICK K \in Nat : K = Len(s) /\ K # 0
  OBVIOUS
<1>1. PICK g : Answers(s, w, es, g) /\ FindMatchEnd(s, w, es) = g[1]
  BY FindIsAnswer
<1>2. \A start \in 1..(n + 1) : g[start] = Answer(s, w, es, g, start)
  BY <1>1 DEF Answers
<1>3. \A i \in 1..n : es[i].ts \in Nat
  BY EntryTime
<1>4. 1 \in 1..K /\ K \in 1..K
  OBVIOUS
<1> DEFINE Occ == Occurrences(s, w, es)
           Q(start) == /\ g[start] = None \/ \E f \in Occ : g[start] = es[f[K]].ts
                       /\ Ordered(es) => \A f \in Occ : f[1] >= start => g[start] # None /\ g[start] <= es[f[K]].ts
           T == {start \in 1..(n + 1) : ~Q(start)}
<1>5. \A f : f \in Occ <=> Occurs(s, es, f) /\ es[f[K]].ts - es[f[1]].ts <= w
  BY OccurrencesAre
<1>6. \A f \in Occ : f[1] \in 1..n /\ f[K] \in 1..n
  BY <1>4, <1>5 DEF Occurs
<1>7. T = {}
  <2> SUFFICES ASSUME T # {} PROVE FALSE
    OBVIOUS
  <2>1. T \subseteq 1..(n + 1)
    OBVIOUS
  <2>2. PICK start \in T : \A l \in T : l <= start
    <3> HIDE DEF T
    <3>1. n + 1 \in Nat
      OBVIOUS
    <3> QED
      BY ONLY <2>1, <3>1, T # {}, Greatest
  <2>3. start \in 1..(n + 1) /\ ~Q(start)
    OBVIOUS
  <2>4. \A l \in 1..(n + 1) : l > start => Q(l)
    BY <2>2, <2>3
  <2> PICK at : at = Walk(s, es, start)
    OBVIOUS
  <2>5. /\ at[K] \in 1..(n + 1) /\ at[1] >= start /\ at[1] \in 1..(n + 1)
        /\ at[K] <= n => at[1] <= n /\ Occurs(s, es, [k \in 1..K |-> at[k]])
        /\ \A f : Occurs(s, es, f) /\ f[1] >= start => \A k \in 1..K : at[k] <= f[k]
    BY <2>3, WalkFirst
  <2> HIDE DEF Occ, Q, T
  <2>6. \A f \in Occ : f[1] >= start => at[1] <= f[1] /\ at[K] <= f[K]
    BY <1>4, <1>5, <2>5
  <2>7. g[start] = IF start > n \/ at[K] > n THEN None
                   ELSE IF es[at[K]].ts - es[at[1]].ts <= w THEN es[at[K]].ts
                   ELSE g[at[1] + 1]
    BY <1>2, <2>3 DEF Answer
  <2>8. CASE start > n \/ at[K] > n
    <3>1. g[start] = None
      BY <2>7, <2>8
    <3>2. \A f \in Occ : ~(f[1] >= start)
      BY <1>6, <2>3, <2>5, <2>6, <2>8
    <3> QED
      BY <2>3, <3>1, <3>2 DEF Q
  <2>9. ASSUME ~(start > n \/ at[K] > n), es[at[K]].ts - es[at[1]].ts <= w PROVE FALSE
    <3>1. g[start] = es[at[K]].ts /\ at[K] \in 1..n /\ at[1] \in 1..n
      BY <2>5, <2>7, <2>9
    <3>2. [k \in 1..K |-> at[k]] \in Occ
      <4> PICK f : f = [k \in 1..K |-> at[k]]
        OBVIOUS
      <4>1. f[K] = at[K] /\ f[1] = at[1] /\ Occurs(s, es, f)
        BY <1>4, <2>5, <3>1
      <4> QED
        BY <1>5, <2>9, <4>1
    <3>3. \E f \in Occ : g[start] = es[f[K]].ts
      <4>1. [k \in 1..K |-> at[k]][K] = at[K]
        BY <1>4
      <4> QED
        BY <3>1, <3>2, <4>1
    <3>4. ASSUME Ordered(es), NEW f \in Occ, f[1] >= start PROVE g[start] # None /\ g[start] <= es[f[K]].ts
      <4>1. at[K] <= f[K] /\ f[K] \in 1..n
        BY <1>6, <2>6, <3>4
      <4>2. es[at[K]].ts <= es[f[K]].ts
        BY <3>1, <3>4, <4>1, OrderedAll
      <4> QED
        BY <1>3, <3>1, <4>2 DEF None
    <3> QED
      BY <2>3, <3>3, <3>4 DEF Q
  <2>10. ASSUME ~(start > n \/ at[K] > n), ~(es[at[K]].ts - es[at[1]].ts <= w) PROVE FALSE
    <3>1. g[start] = g[at[1] + 1] /\ at[1] + 1 \in 1..(n + 1) /\ at[1] + 1 > start /\ at[1] \in 1..n /\ at[K] \in 1..n
      BY <2>3, <2>5, <2>7, <2>10
    <3>2. Q(at[1] + 1)
      BY <2>4, <3>1
    <3>3. ASSUME Ordered(es), NEW f \in Occ, f[1] >= start PROVE f[1] >= at[1] + 1
      <4>1. at[1] <= f[1] /\ at[K] <= f[K] /\ f[1] \in 1..n /\ f[K] \in 1..n
        BY <1>6, <2>6, <3>3
      <4>2. es[at[K]].ts <= es[f[K]].ts
        BY <3>1, <3>3, <4>1, OrderedAll
      <4>3. es[f[K]].ts - es[f[1]].ts <= w
        BY <1>5, <3>3
      <4>4. f[1] # at[1]
        <5> SUFFICES ASSUME f[1] = at[1] PROVE FALSE
          OBVIOUS
        <5>1. es[at[K]].ts \in Nat /\ es[f[K]].ts \in Nat /\ es[at[1]].ts \in Nat
          BY <1>3, <3>1, <4>1
        <5> QED
          BY <2>10, <4>2, <4>3, <5>1
      <4> QED
        BY <3>1, <4>1, <4>4
    <3> QED
      BY <2>3, <3>1, <3>2, <3>3 DEF Q
  <2> QED
    BY <2>8, <2>9, <2>10
<1>8. Q(1)
  BY <1>7
<1> QED
  BY <1>1, <1>6, <1>8

\* The positions of an occurrence are apart, those of later steps later.
LEMMA OccursApart ==
  ASSUME NEW Kind, NEW s \in Seq(SUBSET Kind), NEW es \in Seq(MatchEntry(Kind)), NEW f, Occurs(s, es, f),
         NEW k \in 1..Len(s), NEW l \in 1..Len(s), k <= l
  PROVE  f[l] - f[k] >= l - k
<1> DEFINE T == {m \in Nat : m \in k..Len(s) /\ ~(f[m] - f[k] >= m - k)}
<1> SUFFICES ASSUME T # {} PROVE FALSE
  OBVIOUS
<1>1. T \subseteq Nat
  OBVIOUS
<1>2. PICK m \in T : \A i \in T : m <= i
  <2> HIDE DEF T
  <2> QED
    BY <1>1, Least
<1>3. \A i \in 1..Len(s) : f[i] \in 1..Len(es)
  BY DEF Occurs
<1>4. m # k /\ m \in k..Len(s) /\ m \in 1..Len(s)
  BY <1>3
<1>5. m - 1 \in Nat /\ m - 1 \in k..Len(s) /\ ~(m <= m - 1) /\ m > 1 /\ m - 1 \in 1..Len(s)
  BY <1>4
<1>6. f[m - 1] - f[k] >= (m - 1) - k
  BY <1>2, <1>5
<1>7. f[m - 1] < f[m]
  BY <1>4, <1>5 DEF Occurs
<1>8. f[m - 1] \in Int /\ f[m] \in Int /\ f[k] \in Int /\ m \in Int /\ k \in Int
  BY <1>3, <1>4, <1>5
<1>9. f[m] - f[k] >= m - k
  BY <1>6, <1>7, <1>8
<1> QED
  BY <1>9

\* The entries es are those of all at the places I, in their order.
Part(Kind, s, all, es, I) ==
  /\ s \in Seq(SUBSET Kind) /\ all \in Seq(MatchEntry(Kind)) /\ es \in Seq(MatchEntry(Kind))
  /\ I \subseteq 1..Len(all)
  /\ \E c, e : CountedOut(es, all, I, c, e)

\* What occurs in a part of the entries occurs in all of them, in that part.
LEMMA OccursInAll ==
  ASSUME NEW Kind, NEW s, NEW all, NEW es, NEW I, Part(Kind, s, all, es, I)
  PROVE  \A f : Occurs(s, es, f) =>
           \E F : Occurs(s, all, F) /\ \A k \in 1..Len(s) : F[k] \in I /\ all[F[k]] = es[f[k]]
<1> SUFFICES ASSUME NEW f, Occurs(s, es, f)
             PROVE  \E F : Occurs(s, all, F) /\ \A k \in 1..Len(s) : F[k] \in I /\ all[F[k]] = es[f[k]]
  OBVIOUS
<1>0. /\ s \in Seq(SUBSET Kind) /\ all \in Seq(MatchEntry(Kind)) /\ es \in Seq(MatchEntry(Kind))
      /\ I \subseteq 1..Len(all)
  BY DEF Part
<1> PICK c, e : CountedOut(es, all, I, c, e)
  BY DEF Part
<1> DEFINE F == [k \in 1..Len(s) |-> e[f[k]]]
<1>1. /\ Len(es) = c /\ e \in [1..c -> I]
      /\ \A k \in 1..c : es[k] = all[e[k]]
      /\ \A k, l \in 1..c : k < l => e[k] < e[l]
  BY DEF CountedOut
<1>2. \A k \in 1..Len(s) : f[k] \in 1..c /\ es[f[k]].kind \in s[k] /\ (k > 1 => f[k - 1] < f[k])
  BY <1>1 DEF Occurs
<1>3. \A k \in 1..Len(s) : F[k] = e[f[k]] /\ F[k] \in I /\ all[F[k]] = es[f[k]] /\ F[k] \in 1..Len(all)
  BY <1>0, <1>1, <1>2
<1>4. ASSUME NEW k \in 1..Len(s), k > 1 PROVE F[k - 1] < F[k]
  <2>1. k - 1 \in 1..Len(s)
    BY <1>4
  <2> QED
    BY <1>1, <1>2, <1>3, <1>4, <2>1
<1>5. F \in [1..Len(s) -> 1..Len(all)]
  BY <1>3
<1> HIDE DEF F
<1>6. Occurs(s, all, F)
  BY <1>2, <1>3, <1>4, <1>5 DEF Occurs
<1> QED
  BY <1>3, <1>6

\* What occurs at places of that part occurs in it.
LEMMA OccursInPart ==
  ASSUME NEW Kind, NEW s, NEW all, NEW es, NEW I, Part(Kind, s, all, es, I)
  PROVE  \A F : Occurs(s, all, F) /\ (\A k \in 1..Len(s) : F[k] \in I) =>
           \E f : Occurs(s, es, f) /\ \A k \in 1..Len(s) : es[f[k]] = all[F[k]]
<1> SUFFICES ASSUME NEW F, Occurs(s, all, F), \A k \in 1..Len(s) : F[k] \in I
             PROVE  \E f : Occurs(s, es, f) /\ \A k \in 1..Len(s) : es[f[k]] = all[F[k]]
  OBVIOUS
<1>0. /\ s \in Seq(SUBSET Kind) /\ all \in Seq(MatchEntry(Kind)) /\ es \in Seq(MatchEntry(Kind))
      /\ I \subseteq 1..Len(all)
  BY DEF Part
<1> PICK c, e : CountedOut(es, all, I, c, e)
  BY DEF Part
<1> DEFINE f == [k \in 1..Len(s) |-> CHOOSE i \in 1..c : e[i] = F[k]]
<1>1. /\ Len(es) = c /\ c \in Nat /\ e \in [1..c -> I]
      /\ \A k \in 1..c : es[k] = all[e[k]]
      /\ \A i \in I : \E k \in 1..c : e[k] = i
      /\ \A k, l \in 1..c : k < l => e[k] < e[l]
  BY DEF CountedOut
<1>2. \A k \in 1..Len(s) : f[k] \in 1..c /\ e[f[k]] = F[k]
  BY <1>1
<1>3. \A k \in 1..Len(s) : F[k] \in Int /\ all[F[k]].kind \in s[k] /\ (k > 1 => F[k - 1] < F[k])
  BY DEF Occurs
<1>4. f \in [1..Len(s) -> 1..Len(es)]
  BY <1>1, <1>2
<1> HIDE DEF f
<1>5. \A k \in 1..Len(s) : es[f[k]] = all[F[k]]
  BY <1>1, <1>2
<1>6. ASSUME NEW k \in 1..Len(s), k > 1 PROVE f[k - 1] < f[k]
  <2>1. k - 1 \in 1..Len(s)
    BY <1>6
  <2>2. f[k - 1] \in 1..c /\ f[k] \in 1..c /\ e[f[k - 1]] < e[f[k]]
    BY <1>2, <1>3, <1>6, <2>1
  <2>3. e[f[k - 1]] \in Int /\ e[f[k]] \in Int
    BY <1>2, <1>3, <2>1
  <2>4. f[k - 1] # f[k]
    BY <2>2, <2>3
  <2>5. ~(f[k] < f[k - 1])
    <3> SUFFICES ASSUME f[k] < f[k - 1] PROVE FALSE
      OBVIOUS
    <3>1. e[f[k]] < e[f[k - 1]]
      BY <1>1, <2>2
    <3> QED
      BY <2>2, <2>3, <3>1
  <2> QED
    BY <2>2, <2>4, <2>5
<1>7. Occurs(s, es, f)
  BY <1>3, <1>4, <1>5, <1>6 DEF Occurs
<1> QED
  BY <1>5, <1>7

\* A part of entries in order is in order.
LEMMA PartOrdered ==
  ASSUME NEW Kind, NEW s, NEW all, NEW es, NEW I, Part(Kind, s, all, es, I), Ordered(all)
  PROVE  Ordered(es)
<1>0. all \in Seq(MatchEntry(Kind)) /\ es \in Seq(MatchEntry(Kind)) /\ I \subseteq 1..Len(all)
  BY DEF Part
<1> PICK c, e : CountedOut(es, all, I, c, e)
  BY DEF Part
<1>1. /\ Len(es) = c /\ c \in Nat /\ e \in [1..c -> I] /\ Len(all) \in Nat
      /\ \A k \in 1..c : es[k] = all[e[k]]
      /\ \A k, l \in 1..c : k < l => e[k] < e[l]
  BY <1>0 DEF CountedOut
<1> SUFFICES ASSUME NEW i \in 2..Len(es) PROVE es[i - 1].ts <= es[i].ts
  BY DEF Ordered
<1>2. i - 1 \in 1..c /\ i \in 1..c /\ i - 1 < i
  BY <1>1
<1>3. e[i - 1] \in 1..Len(all) /\ e[i] \in 1..Len(all) /\ e[i - 1] < e[i]
  BY <1>0, <1>1, <1>2
<1>4. e[i - 1] <= e[i]
  BY <1>3
<1>5. all[e[i - 1]].ts <= all[e[i]].ts
  BY <1>0, <1>3, <1>4, OrderedAll
<1> QED
  BY <1>1, <1>2, <1>5

LEMMA OccursRises ==
  ASSUME NEW Kind, NEW s \in Seq(SUBSET Kind), s # <<>>, NEW es \in Seq(MatchEntry(Kind)), NEW f, Occurs(s, es, f)
  PROVE  /\ 1 \in 1..Len(s) /\ Len(s) \in 1..Len(s) /\ Len(s) \in Nat
         /\ \A k \in 1..Len(s) : f[k] \in 1..Len(es) /\ f[k] <= f[Len(s)]
         /\ f[Len(s)] - f[1] >= Len(s) - 1
<1>1. 1 \in 1..Len(s) /\ Len(s) \in 1..Len(s) /\ Len(s) \in Nat
  OBVIOUS
<1>2. \A k \in 1..Len(s) : f[k] \in 1..Len(es)
  BY DEF Occurs
<1>3. ASSUME NEW k \in 1..Len(s) PROVE f[Len(s)] - f[k] >= Len(s) - k
  <2>1. k <= Len(s)
    BY <1>1
  <2> QED
    BY <1>1, <2>1, OccursApart
<1>4. ASSUME NEW k \in 1..Len(s) PROVE f[k] <= f[Len(s)]
  <2>1. f[Len(s)] \in Int /\ f[k] \in Int /\ Len(s) - k >= 0
    BY <1>1, <1>2
  <2> QED
    BY <1>1, <1>3, <2>1
<1> QED
  BY <1>1, <1>2, <1>3, <1>4

\* The search in a part of entries in order finds one of the occurrences that lie in it.
LEMMA FoundInPart ==
  ASSUME NEW Kind, NEW s, NEW all, NEW es, NEW I, Part(Kind, s, all, es, I), s # <<>>, NEW w \in Int, Ordered(all)
  PROVE  \/ /\ FindMatchEnd(s, w, es) = None
            /\ \A F : Occurs(s, all, F) /\ all[F[Len(s)]].ts - all[F[1]].ts <= w => \E k \in 1..Len(s) : F[k] \notin I
         \/ /\ FindMatchEnd(s, w, es) # None
            /\ \E F : /\ Occurs(s, all, F) /\ all[F[Len(s)]].ts - all[F[1]].ts <= w
                      /\ \A k \in 1..Len(s) : F[k] \in I
                      /\ FindMatchEnd(s, w, es) = all[F[Len(s)]].ts
<1>0. 1 \in 1..Len(s) /\ Len(s) \in 1..Len(s) /\ s \in Seq(SUBSET Kind) /\ es \in Seq(MatchEntry(Kind))
  BY DEF Part
<1>5. \A f : Occurs(s, es, f) =>
         \E F : Occurs(s, all, F) /\ \A k \in 1..Len(s) : F[k] \in I /\ all[F[k]] = es[f[k]]
  BY OccursInAll
<1>6. \A F : Occurs(s, all, F) /\ (\A k \in 1..Len(s) : F[k] \in I) =>
         \E f : Occurs(s, es, f) /\ \A k \in 1..Len(s) : es[f[k]] = all[F[k]]
  BY OccursInPart
<1>1. Ordered(es)
  BY PartOrdered
<1>2. /\ \/ FindMatchEnd(s, w, es) = None
         \/ \E f \in Occurrences(s, w, es) : FindMatchEnd(s, w, es) = es[f[Len(s)]].ts
      /\ \A f \in Occurrences(s, w, es) : FindMatchEnd(s, w, es) # None
  BY <1>0, <1>1, FindsFirst
<1>3. ASSUME FindMatchEnd(s, w, es) = None, NEW F, Occurs(s, all, F), all[F[Len(s)]].ts - all[F[1]].ts <= w,
             \A k \in 1..Len(s) : F[k] \in I
      PROVE  FALSE
  <2>1. PICK f : Occurs(s, es, f) /\ \A k \in 1..Len(s) : es[f[k]] = all[F[k]]
    BY <1>3, <1>6
  <2>2. es[f[Len(s)]].ts - es[f[1]].ts <= w
    BY <1>0, <1>3, <2>1
  <2>3. f \in Occurrences(s, w, es)
    BY <2>1, <2>2, OccurrencesAre
  <2> QED
    BY <1>2, <1>3, <2>3
<1>4. ASSUME FindMatchEnd(s, w, es) # None
      PROVE  \E F : /\ Occurs(s, all, F) /\ all[F[Len(s)]].ts - all[F[1]].ts <= w
                    /\ \A k \in 1..Len(s) : F[k] \in I
                    /\ FindMatchEnd(s, w, es) = all[F[Len(s)]].ts
  <2>1. PICK f \in Occurrences(s, w, es) : FindMatchEnd(s, w, es) = es[f[Len(s)]].ts
    BY <1>2, <1>4
  <2>2. Occurs(s, es, f) /\ es[f[Len(s)]].ts - es[f[1]].ts <= w
    BY <2>1, OccurrencesAre
  <2>3. PICK F : Occurs(s, all, F) /\ \A k \in 1..Len(s) : F[k] \in I /\ all[F[k]] = es[f[k]]
    BY <2>2, <1>5
  <2>4. all[F[Len(s)]].ts - all[F[1]].ts <= w /\ FindMatchEnd(s, w, es) = all[F[Len(s)]].ts
    BY <1>0, <2>1, <2>2, <2>3
  <2> QED
    BY <2>3, <2>4
<1> QED
  BY <1>3, <1>4

(* -------- texts: sequences of numbers ---------------------------------------- *)

\* The numbers from i up to j.
Run(i, j) == [k \in 1..(j - i) |-> i + k - 1]

\* Equal texts have equal characters.
LEMMA SameText ==
  ASSUME NEW s \in Seq(Nat), NEW t \in Seq(Nat), Len(s) = Len(t), \A i \in 1..Len(s) : s[i] = t[i]
  PROVE  s = t
BY SeqEqual

LEMMA RunIs ==
  ASSUME NEW i \in Nat, NEW j \in Nat, i <= j
  PROVE  /\ Run(i, j) \in Seq(Nat) /\ Len(Run(i, j)) = j - i
         /\ \A k \in 1..(j - i) : Run(i, j)[k] = i + k - 1
<1>1. j - i \in Nat /\ \A k \in 1..(j - i) : i + k - 1 \in Nat
  OBVIOUS
<1> QED
  BY <1>1 DEF Run

LEMMA TextsJoin ==
  ASSUME NEW s \in Seq(Nat), NEW t \in Seq(Nat), NEW u \in Seq(Nat)
  PROVE  (s \o t) \o u = s \o (t \o u)
BY ConcatAssociative

Lacks(t, c) == \A k \in 1..Len(t) : t[k] # c

LEMMA LacksBoth ==
  ASSUME NEW a \in Seq(Nat), NEW b \in Seq(Nat), NEW c, Lacks(a, c), Lacks(b, c)
  PROVE  Lacks(a \o b, c)
<1>1. /\ Len(a) \in Nat /\ Len(b) \in Nat /\ Len(a \o b) = Len(a) + Len(b)
      /\ \A i \in 1..(Len(a) + Len(b)) : (a \o b)[i] = IF i <= Len(a) THEN a[i] ELSE b[i - Len(a)]
  BY ConcatProperties
<1> SUFFICES ASSUME NEW k \in 1..(Len(a) + Len(b)) PROVE (a \o b)[k] # c
  BY <1>1 DEF Lacks
<1>2. CASE k <= Len(a)
  BY <1>1, <1>2 DEF Lacks
<1>3. CASE ~(k <= Len(a))
  <2>1. k - Len(a) \in 1..Len(b)
    BY <1>1, <1>3
  <2> QED
    BY <1>1, <1>3, <2>1 DEF Lacks
<1> QED
  BY <1>2, <1>3

LEMMA RunStep ==
  ASSUME NEW m \in Nat, NEW j \in Nat, m < j
  PROVE  Run(m, j) = <<m>> \o Run(m + 1, j)
<1> PICK a : a = Run(m + 1, j)
  OBVIOUS
<1> PICK c : c = Run(m, j)
  OBVIOUS
<1>1. a \in Seq(Nat) /\ Len(a) = j - (m + 1) /\ \A k \in 1..(j - (m + 1)) : a[k] = (m + 1) + k - 1
  <2>1. m + 1 \in Nat /\ m + 1 <= j
    OBVIOUS
  <2> QED
    BY <2>1, RunIs
<1>2. c \in Seq(Nat) /\ Len(c) = j - m /\ \A k \in 1..(j - m) : c[k] = m + k - 1
  <2>1. m <= j
    OBVIOUS
  <2> QED
    BY <2>1, RunIs
<1> PICK b : b = <<m>> \o a
  OBVIOUS
<1>3. b \in Seq(Nat) /\ Len(b) = j - m /\ b[1] = m /\ \A k \in 2..(j - m) : b[k] = a[k - 1]
  <2>1. <<m>> \in Seq(Nat) /\ Len(<<m>>) = 1 /\ <<m>>[1] = m
    OBVIOUS
  <2>2. /\ b \in Seq(Nat) /\ Len(b) = 1 + Len(a)
        /\ \A i \in 1..(1 + Len(a)) : b[i] = IF i <= 1 THEN <<m>>[i] ELSE a[i - 1]
    BY <1>1, <2>1, ConcatProperties
  <2> QED
    BY <1>1, <2>1, <2>2
<1>4. \A k \in 1..(j - m) : b[k] = m + k - 1
  <2> SUFFICES ASSUME NEW k \in 1..(j - m) PROVE b[k] = m + k - 1
    OBVIOUS
  <2>1. CASE k = 1
    BY <1>3, <2>1
  <2>2. CASE k # 1
    <3>1. k \in 2..(j - m) /\ k - 1 \in 1..(j - (m + 1))
      BY <2>2
    <3> QED
      BY <1>1, <1>3, <3>1
  <2> QED
    BY <2>1, <2>2
<1>5. b = c
  BY <1>2, <1>3, <1>4, SameText
<1> QED
  BY <1>5

LEMMA RunFromOne ==
  ASSUME NEW f \in Nat, f >= 1
  PROVE  Run(1, f) \in Seq(Nat) /\ Len(Run(1, f)) = f - 1 /\ \A k \in 1..(f - 1) : Run(1, f)[k] = k
<1>1. 1 \in Nat /\ 1 <= f
  OBVIOUS
<1>2. Run(1, f) \in Seq(Nat) /\ Len(Run(1, f)) = f - 1 /\ \A k \in 1..(f - 1) : Run(1, f)[k] = 1 + k - 1
  BY <1>1, RunIs
<1>3. \A k \in 1..(f - 1) : 1 + k - 1 = k
  OBVIOUS
<1> QED
  BY <1>2, <1>3

\* A text that begins with the original, and goes on otherwise from f on.
LEMMA RunBegins ==
  ASSUME NEW f \in Nat, f >= 1, NEW b \in Seq(Nat)
  PROVE  /\ Run(1, f) \o b \in Seq(Nat) /\ Len(Run(1, f) \o b) = (f - 1) + Len(b)
         /\ \A k \in 1..((f - 1) + Len(b)) : (Run(1, f) \o b)[k] = IF k <= f - 1 THEN k ELSE b[k - (f - 1)]
<1>1. Run(1, f) \in Seq(Nat) /\ Len(Run(1, f)) = f - 1 /\ \A k \in 1..(f - 1) : Run(1, f)[k] = k
  BY RunFromOne
<1>2. /\ Run(1, f) \o b \in Seq(Nat) /\ Len(Run(1, f) \o b) = Len(Run(1, f)) + Len(b)
      /\ \A k \in 1..(Len(Run(1, f)) + Len(b)) :
           (Run(1, f) \o b)[k] = IF k <= Len(Run(1, f)) THEN Run(1, f)[k] ELSE b[k - Len(Run(1, f))]
  BY <1>1, ConcatProperties
<1>3. \A k \in 1..((f - 1) + Len(b)) : k <= f - 1 => k \in 1..(f - 1)
  OBVIOUS
<1> QED
  BY <1>1, <1>2, <1>3

LEMMA CutBefore ==
  ASSUME NEW p \in Nat, p >= 1, NEW f \in Nat, p <= f, NEW b \in Seq(Nat)
  PROVE  SubSeq(Run(1, f) \o b, 1, p - 1) = Run(1, p)
<1>0. f >= 1
  OBVIOUS
<1>1. PICK t : t = Run(1, f) \o b
  OBVIOUS
<1>2. PICK L \in Nat : L = Len(b)
  OBVIOUS
<1>3. \A k \in 1..((f - 1) + L) : t[k] = IF k <= f - 1 THEN k ELSE b[k - (f - 1)]
  BY <1>0, <1>1, <1>2, RunBegins
<1>4. \A i \in 1..(p - 1) : t[i] = i /\ t[i] \in Nat
  <2>1. \A i \in 1..(p - 1) : i \in Nat /\ i <= f - 1 /\ i \in 1..((f - 1) + L)
    OBVIOUS
  <2> QED
    BY <1>3, <2>1
<1>5. PICK c : c = SubSeq(t, 1, p - 1)
  OBVIOUS
<1>6. PICK e \in Int : e = p - 1
  OBVIOUS
<1>7. /\ c \in Seq(Nat) /\ Len(c) = IF 1 <= e THEN e - 1 + 1 ELSE 0
      /\ \A i \in 1..(e - 1 + 1) : c[i] = t[1 + i - 1]
  <2>1. 1 \in Int /\ \A i \in 1..e : t[i] \in Nat
    BY <1>4, <1>6
  <2>2. c = SubSeq(t, 1, e)
    BY <1>5, <1>6
  <2> QED
    BY <2>1, <2>2, SubSeqProperties
<1>8. Len(c) = p - 1
  BY <1>6, <1>7
<1>9. \A i \in 1..(p - 1) : c[i] = i
  <2>1. \A i \in 1..(p - 1) : i \in 1..(e - 1 + 1) /\ 1 + i - 1 = i
    BY <1>6
  <2> QED
    BY <1>4, <1>7, <2>1
<1>10. Run(1, p) \in Seq(Nat) /\ Len(Run(1, p)) = p - 1 /\ \A i \in 1..(p - 1) : Run(1, p)[i] = i
  BY RunFromOne
<1>11. c = Run(1, p)
  BY <1>7, <1>8, <1>9, <1>10, SameText
<1> QED
  BY <1>1, <1>5, <1>11

LEMMA CutAfter ==
  ASSUME NEW q \in Nat, q >= 1, NEW f \in Nat, q <= f, NEW b \in Seq(Nat)
  PROVE  SubSeq(Run(1, f) \o b, q, Len(Run(1, f) \o b)) = Run(q, f) \o b
<1>0. f >= 1
  OBVIOUS
<1>1. PICK t : t = Run(1, f) \o b
  OBVIOUS
<1>2. PICK L \in Nat : L = Len(b)
  OBVIOUS
<1>3. PICK n \in Nat : n = (f - q) + L
  OBVIOUS
<1>4. PICK z \in Nat : z = (f - 1) + L
  BY <1>0
<1>5. /\ t \in Seq(Nat) /\ Len(t) = z
      /\ \A k \in 1..z : t[k] = IF k <= f - 1 THEN k ELSE b[k - (f - 1)]
  BY <1>0, <1>1, <1>2, <1>4, RunBegins
<1>6. PICK d : d = Run(q, f)
  OBVIOUS
<1>7. d \in Seq(Nat) /\ Len(d) = f - q /\ \A k \in 1..(f - q) : d[k] = q + k - 1
  BY <1>6, RunIs
<1>8. PICK e : e = d \o b
  OBVIOUS
<1>9. /\ e \in Seq(Nat) /\ Len(e) = n
      /\ \A k \in 1..n : e[k] = IF k <= f - q THEN d[k] ELSE b[k - (f - q)]
  <2>1. /\ e \in Seq(Nat) /\ Len(e) = Len(d) + Len(b)
        /\ \A k \in 1..(Len(d) + Len(b)) : e[k] = IF k <= Len(d) THEN d[k] ELSE b[k - Len(d)]
    BY <1>7, <1>8, ConcatProperties
  <2> QED
    BY <1>2, <1>3, <1>7, <2>1
<1>10. PICK c : c = SubSeq(t, q, z)
  OBVIOUS
<1>11. /\ c \in Seq(Nat) /\ Len(c) = IF q <= z THEN z - q + 1 ELSE 0
       /\ \A i \in 1..(z - q + 1) : c[i] = t[q + i - 1]
  <2>1. \A i \in q..z : i \in 1..z
    OBVIOUS
  <2>2. \A i \in q..z : t[i] \in Nat
    BY <1>5, <2>1
  <2> QED
    BY <1>10, <2>2, SubSeqProperties
<1>12. z - q + 1 = n /\ (q <= z \/ n = 0)
  BY <1>3, <1>4
<1>13. Len(c) = n /\ \A i \in 1..n : c[i] = t[q + i - 1]
  BY <1>11, <1>12
<1>14. \A k \in 1..n : c[k] = e[k]
  <2> SUFFICES ASSUME NEW k \in 1..n PROVE c[k] = e[k]
    OBVIOUS
  <2>1. q + k - 1 \in 1..z /\ (q + k - 1) - (f - 1) = k - (f - q) /\ (q + k - 1 <= f - 1 <=> k <= f - q)
    BY <1>3, <1>4
  <2>2. c[k] = IF q + k - 1 <= f - 1 THEN q + k - 1 ELSE b[(q + k - 1) - (f - 1)]
    BY <1>5, <1>13, <2>1
  <2>3. CASE k <= f - q
    <3>1. k \in 1..(f - q)
      BY <2>3
    <3>2. e[k] = q + k - 1
      BY <1>7, <1>9, <2>3, <3>1
    <3> QED
      BY <2>1, <2>2, <2>3, <3>2
  <2>4. CASE ~(k <= f - q)
    <3>1. e[k] = b[k - (f - q)]
      BY <1>9, <2>4
    <3> QED
      BY <2>1, <2>2, <2>4, <3>1
  <2> QED
    BY <2>3, <2>4
<1>15. c = e
  BY <1>9, <1>11, <1>13, <1>14, SameText
<1> QED
  BY <1>1, <1>5, <1>6, <1>8, <1>10, <1>15
=============================================================================
