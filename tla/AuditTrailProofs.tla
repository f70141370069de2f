-------------------------- MODULE AuditTrailProofs --------------------------
(***************************************************************************)
(* Theorems about AuditTrail, for any number of threads and instances.     *)
(*                                                                         *)
(* A stale cache or tail shows only at the next append.  So an invariant   *)
(* about the links says besides what caches and threads have in hand: all  *)
(* of it agrees with the file until something overlaps (Settled), and      *)
(* whenever every overlap so far has broken its link (Balanced).           *)
(***************************************************************************)
EXTENDS AuditTrail, FiniteSetTheorems, TLAPS

\* How many threads are inside a log(): a natural number, zero only if none.
LEMMA MidLogCounts ==
  ASSUME NEW T \in SUBSET Thread
  PROVE  /\ MidLog(T) \in Nat
         /\ MidLog(T) = 0 => \A u \in T : ~InWindow(u)
<1> DEFINE W == {u \in T : InWindow(u)}
<1>1. IsFiniteSet(W)
  BY ThreadAssumption, FS_Subset
<1>2. Cardinality(W) \in Nat
  BY <1>1, FS_CardinalityType
<1>3. Cardinality(W) = 0 => W = {}
  BY <1>1, FS_EmptySet
<1> QED
  BY <1>2, <1>3 DEF MidLog

\* The hash of the last line is a natural number.
LEMMA TailHashType == TypeOK => TailHash \in Nat
<1> SUFFICES ASSUME TypeOK PROVE TailHash \in Nat
  OBVIOUS
<1>1. CASE lines = <<>>
  BY <1>1 DEF TailHash, Chain!LastHash
<1>2. CASE lines # <<>>
  <2>1. lines[Len(lines)] \in Entry
    BY <1>2 DEF TypeOK
  <2> QED
    BY <1>2, <2>1 DEF TailHash, Chain!LastHash, Entry
<1> QED
  BY <1>1, <1>2

\* "No signature" has the type of a signature ...
LEMMA NoSigType == NoSig \in Signature
  BY DEF NoSig, Signature

\* ... and so has the result of a stat().
LEMMA StatType == TypeOK => Stat \in Signature
  BY DEF TypeOK, Stat, Signature

-----------------------------------------------------------------------------
(* Type correctness. *)

\* A thread that has read the tail finds a hash, not None, in the cache: only
\* the end of the whole process empties the cache.
WarmAtSign == \A t \in Thread : pc[t] = "sign" => cache[Home[t]] # Cold

\* Only Restart empties a cache, and it puts the threads back to "idle".
LEMMA WarmStep == TypeOK /\ WarmAtSign /\ [Next]_vars => WarmAtSign'
<1> SUFFICES ASSUME TypeOK, WarmAtSign, [Next]_vars,
                    NEW u \in Thread, pc'[u] = "sign"
             PROVE  cache'[Home[u]] # Cold
  BY DEF WarmAtSign
<1> USE HomeAssumption DEF WarmAtSign
<1>1. ASSUME NEW t \in Thread, Step(t) PROVE cache'[Home[u]] # Cold
  <2>1. CASE Log(t)
    BY <2>1 DEF TypeOK, Log, Goto
  <2>2. CASE Absent(t)
    BY <2>2 DEF TypeOK, Absent, Construct, Goto, Cold
  <2>3. CASE StatHit(t) \/ StatMiss(t) \/ Sign(t) \/ Vanished(t)
    BY <2>3 DEF TypeOK, StatHit, StatMiss, Sign, Vanished, Construct, Goto
  <2>4. CASE ReadTail(t)
    BY <2>4, TailHashType DEF TypeOK, ReadTail, Goto, Cold
  <2>5. CASE AppendLine(t) \/ Restat(t)
    BY <2>5 DEF TypeOK, AppendLine, Restat, Goto
  <2>6. CASE Refresh(t)
    <3>1. entry[t].id # Cold
      BY DEF TypeOK, Entry, Cold
    <3> QED
      BY <2>6, <3>1 DEF TypeOK, Refresh, Goto
  <2> QED
    BY <1>1, <2>1, <2>2, <2>3, <2>4, <2>5, <2>6 DEF Step
<1>2. ASSUME NEW i \in Instance, Restart(i) PROVE cache'[Home[u]] # Cold
  BY <1>2 DEF TypeOK, Restart
<1>3. CASE ClearArchive \/ ClearUnlink \/ ClearKilled \/ UNCHANGED vars
  BY <1>3 DEF ClearArchive, ClearUnlink, ClearKilled, vars
<1> QED
  BY <1>1, <1>2, <1>3 DEF Next

\* Every step keeps the types.
LEMMA TypeStep == TypeOK /\ WarmAtSign /\ [Next]_vars => TypeOK'
<1> SUFFICES ASSUME TypeOK, WarmAtSign, [Next]_vars PROVE TypeOK'
  OBVIOUS
<1> USE HomeAssumption, BoundAssumption
<1>1. ASSUME NEW t \in Thread, Step(t) PROVE TypeOK'
  <2>1. CASE Log(t)
    BY <2>1 DEF TypeOK, Log, Goto, Steps
  <2>2. CASE Absent(t)
    BY <2>2, NoSigType DEF TypeOK, Absent, Construct, Goto, Steps, Entry
  <2>3. CASE StatHit(t)
    <3>1. cache[Home[t]] \in Nat
      BY <2>3 DEF TypeOK, StatHit, Cold
    <3> QED
      BY <2>3, <3>1 DEF TypeOK, StatHit, Construct, Goto, Steps, Entry
  <2>4. CASE StatMiss(t)
    BY <2>4, StatType DEF TypeOK, StatMiss, Goto, Steps
  <2>5. CASE ReadTail(t)
    BY <2>5, TailHashType DEF TypeOK, ReadTail, Goto, Steps
  <2>6. CASE Sign(t)
    <3>1. cache[Home[t]] \in Nat
      BY <2>6 DEF TypeOK, WarmAtSign, Sign, Cold
    <3> QED
      BY <2>6, <3>1, NoSigType DEF TypeOK, Sign, Construct, Goto, Steps, Entry
  <2>7. CASE Vanished(t)
    BY <2>7, NoSigType DEF TypeOK, Vanished, Goto, Steps
  <2>8. CASE AppendLine(t)
    BY <2>8, MidLogCounts DEF TypeOK, AppendLine, Goto, Steps
  <2>9. CASE Refresh(t)
    BY <2>9 DEF TypeOK, Refresh, Goto, Steps, Entry
  <2>10. CASE Restat(t)
    BY <2>10, StatType, NoSigType DEF TypeOK, Restat, Goto, Steps, NoEntry, Entry
  <2> QED
    BY <1>1, <2>1, <2>2, <2>3, <2>4, <2>5, <2>6, <2>7, <2>8, <2>9, <2>10 DEF Step
<1>2. ASSUME NEW i \in Instance, Restart(i) PROVE TypeOK'
  <2>1. NoEntry \in Entry
    BY DEF NoEntry, Entry
  <2>2. /\ cache' \in [Instance -> Nat \cup {Cold}]
        /\ sig' \in [Instance -> Signature]
    BY <1>2, NoSigType DEF TypeOK, Restart
  <2>3. /\ pc' \in [Thread -> Steps]
        /\ seen' \in [Thread -> Signature]
        /\ entry' \in [Thread -> Entry]
    BY <1>2, <2>1, NoSigType DEF TypeOK, Restart, Steps
  <2> QED
    BY <1>2, <2>2, <2>3 DEF TypeOK, Restart
<1>3. CASE ClearArchive
  BY <1>3 DEF TypeOK, ClearArchive, Chain!Lines
<1>4. CASE ClearUnlink
  <2>1. MidLog(Thread) \in Nat
    BY MidLogCounts
  <2>2. lines' \in Seq(Entry)
    BY <1>4 DEF ClearUnlink
  <2>3. gen' \in Nat \ {0} /\ overlaps' \in Nat
    BY <1>4, <2>1 DEF TypeOK, ClearUnlink
  <2>4. clearing' \in BOOLEAN
    BY <1>4 DEF ClearUnlink
  <2> QED
    BY <1>4, <2>2, <2>3, <2>4 DEF TypeOK, ClearUnlink
<1>5. CASE ClearKilled
  BY <1>5 DEF TypeOK, ClearKilled
<1>6. CASE UNCHANGED vars
  BY <1>6 DEF TypeOK, vars
<1> QED
  BY <1>1, <1>2, <1>3, <1>4, <1>5, <1>6 DEF Next

\* The initial state is well typed.
LEMMA TypeInit == Init => TypeOK /\ WarmAtSign
<1> SUFFICES ASSUME Init PROVE TypeOK /\ WarmAtSign
  OBVIOUS
<1>1. NoEntry \in Entry
  BY DEF NoEntry, Entry
<1>2. pc \in [Thread -> Steps] /\ entry \in [Thread -> Entry]
  BY <1>1 DEF Init, Steps
<1>3. seen \in [Thread -> Signature] /\ sig \in [Instance -> Signature]
  BY NoSigType DEF Init
<1>4. cache \in [Instance -> Nat \cup {Cold}] /\ lines \in Seq(Entry)
  BY DEF Init
<1>5. gen \in Nat \ {0} /\ nextHash \in Nat \ {0} /\ overlaps \in Nat
  BY SMT DEF Init
<1>6. archived \subseteq Entry /\ clearing \in BOOLEAN
  BY Zenon DEF Init
<1>7. WarmAtSign
  BY Zenon DEF Init, WarmAtSign
<1> QED
  BY <1>2, <1>3, <1>4, <1>5, <1>6, <1>7 DEF TypeOK

\* Every reachable state is well typed, for all values of the constants.
THEOREM TypeCorrect == Spec => [](TypeOK /\ WarmAtSign)
  BY TypeInit, TypeStep, WarmStep, PTL DEF Spec
-----------------------------------------------------------------------------
(***************************************************************************)
(* The hash chain breaks only by an overlap.  BrokenOnlyByOverlap is not   *)
(* inductive: a cache that does not hold the tail's hash although its      *)
(* signature is current breaks the chain only at the next log().  The      *)
(* strengthening says, for every step of log(), what the step may rely on  *)
(* as long as nothing has overlapped.                                      *)
(***************************************************************************)

\* A signature was taken from this incarnation, not beyond its present end,
\* or from an earlier incarnation.
InPast(s) == s[1] < gen \/ (s[1] = gen /\ s[2] <= Len(lines))

SignaturesInPast ==
  /\ \A i \in Instance : InPast(sig[i])
  /\ \A t \in Thread : InPast(seen[t])

\* A current signature vouches for the cache ...
CacheCurrent == Exists => \A i \in Instance : sig[i] = Stat => cache[i] = TailHash

\* ... and a thread within a log() is not behind the file.
ThreadCurrent(t) ==
  /\ pc[t] = "absent" => ~Exists
  /\ pc[t] = "sign" => cache[Home[t]] = TailHash
  /\ pc[t] = "append" => entry[t].prev = TailHash
  /\ pc[t] \in {"refresh", "restat"} => entry[t].id = TailHash
  /\ pc[t] = "restat" => cache[Home[t]] = TailHash

Current == CacheCurrent /\ \A t \in Thread : ThreadCurrent(t)

Settled ==
  overlaps = 0 =>
    /\ Intact
    /\ Current
    /\ clearing => Chain!Lines(lines) \subseteq archived

ChainInv == TypeOK /\ WarmAtSign /\ SignaturesInPast /\ Settled

-----------------------------------------------------------------------------
\* A recorded signature is never ahead of the file: files only grow, and an
\* unlink starts the next incarnation.
LEMMA SignaturesStep == TypeOK /\ SignaturesInPast /\ [Next]_vars => SignaturesInPast'
<1> SUFFICES ASSUME TypeOK, SignaturesInPast, [Next]_vars
             PROVE  SignaturesInPast'
  OBVIOUS
<1> USE HomeAssumption DEF SignaturesInPast, InPast
<1>a. gen \in Nat \ {0} /\ Len(lines) \in Nat
  BY DEF TypeOK
<1>b. NoSig[1] < gen /\ NoSig[2] = 0 /\ Stat[1] = gen /\ Stat[2] = Len(lines)
  BY <1>a DEF NoSig, Stat
<1>c. ASSUME UNCHANGED <<gen, lines, sig, seen>> PROVE SignaturesInPast'
  BY <1>c
<1>1. ASSUME NEW t \in Thread, Step(t) PROVE SignaturesInPast'
  <2>1. CASE Log(t) \/ StatHit(t) \/ ReadTail(t) \/ Refresh(t)
    BY <2>1, <1>c DEF Log, StatHit, ReadTail, Refresh
  <2>2. CASE Absent(t)
    BY <2>2, <1>b DEF TypeOK, Absent
  <2>3. CASE StatMiss(t)
    BY <2>3, <1>a, <1>b DEF TypeOK, StatMiss
  <2>4. CASE Sign(t)
    BY <2>4, <1>b DEF TypeOK, Sign
  <2>5. CASE Vanished(t)
    BY <2>5, <1>b DEF TypeOK, Vanished
  <2>6. CASE AppendLine(t)
    <3>1. Len(lines') = Len(lines) + 1
      BY <2>6 DEF TypeOK, AppendLine
    <3> QED
      BY <2>6, <3>1, <1>a DEF TypeOK, Signature, AppendLine
  <2>7. CASE Restat(t)
    BY <2>7, <1>a, <1>b DEF TypeOK, Restat
  <2> QED
    BY <1>1, <2>1, <2>2, <2>3, <2>4, <2>5, <2>6, <2>7 DEF Step
<1>2. ASSUME NEW i \in Instance, Restart(i) PROVE SignaturesInPast'
  BY <1>2, <1>b DEF TypeOK, Restart
<1>3. CASE ClearArchive \/ ClearKilled \/ UNCHANGED vars
  BY <1>3, <1>c DEF ClearArchive, ClearKilled, vars
<1>4. CASE ClearUnlink
  <2>1. gen' = gen + 1 /\ UNCHANGED <<sig, seen>>
    BY <1>4 DEF ClearUnlink
  <2>2. ASSUME NEW i \in Instance PROVE sig[i][1] \in Nat /\ sig[i][1] <= gen
    <3>1. sig[i] \in Signature
      BY DEF TypeOK
    <3> QED
      BY <1>a, <3>1 DEF Signature
  <2>3. ASSUME NEW t \in Thread PROVE seen[t][1] \in Nat /\ seen[t][1] <= gen
    <3>1. seen[t] \in Signature
      BY DEF TypeOK
    <3> QED
      BY <1>a, <3>1 DEF Signature
  <2> QED
    BY <1>a, <2>1, <2>2, <2>3
<1> QED
  BY <1>1, <1>2, <1>3, <1>4 DEF Next

-----------------------------------------------------------------------------
\* Only an append and an unlink touch the file.
LEMMA FileUntouched ==
  ASSUME [Next]_vars, \A t \in Thread : ~AppendLine(t), ~ClearUnlink
  PROVE  UNCHANGED <<lines, overlaps>>
BY DEF Next, Step, Log, Absent, StatHit, StatMiss, ReadTail, Sign, Vanished, Refresh, Restat,
       Restart, ClearArchive, ClearKilled, vars

\* Every step that leaves the file alone keeps what the steps of log() rely on.
LEMMA CurrentStep ==
  ASSUME TypeOK, Current, [Next]_vars, \A t \in Thread : ~AppendLine(t), ~ClearUnlink
  PROVE  Current'
<1> USE HomeAssumption
<1>0. UNCHANGED <<lines, overlaps>>
  BY FileUntouched
<1>b. CacheCurrent /\ \A t \in Thread : ThreadCurrent(t)
  BY DEF Current
<1>c. TailHash' = TailHash /\ (Exists' <=> Exists)
  BY <1>0 DEF TailHash, Chain!LastHash, Exists
<1>1. ASSUME NEW t \in Thread, Step(t)
      PROVE  CacheCurrent' /\ \A u \in Thread : ThreadCurrent(u)'
  <2>1. CASE Log(t) \/ StatMiss(t) \/ Vanished(t)
    <3>1. UNCHANGED <<lines, gen, archived, clearing, cache, sig, entry>>
      BY <2>1 DEF Log, StatMiss, Vanished
    <3>2. \A u \in Thread \ {t} : pc'[u] = pc[u]
      BY <2>1 DEF TypeOK, Log, StatMiss, Vanished, Goto
    <3>3. pc'[t] \in {"stat", "read", "idle"} \/ (pc'[t] = "absent" /\ ~Exists)
      BY <2>1 DEF TypeOK, Log, StatMiss, Vanished, Goto
    <3>4. CacheCurrent'
      BY <3>1, <1>b, <1>c DEF CacheCurrent, Stat
    <3>5. \A u \in Thread : ThreadCurrent(u)'
      BY <3>1, <3>2, <3>3, <1>b, <1>c DEF ThreadCurrent
    <3> QED
      BY <3>1, <3>4, <3>5, <1>b, <1>c
  <2>2. CASE Absent(t)
    <3>1. UNCHANGED <<lines, gen, archived, clearing>> /\ ~Exists /\ TailHash = 0
      BY <2>2, <1>b DEF Absent, ThreadCurrent, Exists, TailHash, Chain!LastHash
    <3>2. /\ \A u \in Thread \ {t} : pc'[u] = pc[u] /\ entry'[u] = entry[u]
          /\ pc'[t] = "append" /\ entry'[t].prev = 0
      BY <2>2 DEF TypeOK, Absent, Construct, Goto
    <3>3. cache' = [cache EXCEPT ![Home[t]] = 0]
      BY <2>2 DEF Absent
    <3>4. \A u \in Thread : ThreadCurrent(u)'
      BY <3>1, <3>2, <3>3, <1>b, <1>c DEF TypeOK, ThreadCurrent
    <3> QED
      BY <3>1, <3>4, <1>b, <1>c DEF CacheCurrent
  <2>3. CASE StatHit(t)
    <3>1. UNCHANGED <<lines, gen, archived, clearing, cache, sig>>
      BY <2>3 DEF StatHit
    <3>2. cache[Home[t]] = TailHash
      BY <2>3, <1>b DEF StatHit, CacheCurrent
    <3>3. /\ \A u \in Thread \ {t} : pc'[u] = pc[u] /\ entry'[u] = entry[u]
          /\ pc'[t] = "append" /\ entry'[t].prev = TailHash
      BY <2>3, <3>2 DEF TypeOK, StatHit, Construct, Goto
    <3>4. \A u \in Thread : ThreadCurrent(u)'
      BY <3>1, <3>3, <1>b, <1>c DEF ThreadCurrent
    <3> QED
      BY <3>1, <3>4, <1>b, <1>c DEF CacheCurrent, Stat
  <2>4. CASE ReadTail(t)
    <3>1. UNCHANGED <<lines, gen, archived, clearing, sig, entry>>
      BY <2>4 DEF ReadTail
    <3>2. \A i \in Instance : cache'[i] = cache[i] \/ cache'[i] = TailHash
      BY <2>4 DEF TypeOK, ReadTail
    <3>3. cache'[Home[t]] = TailHash
      BY <2>4 DEF TypeOK, ReadTail
    <3>4. (\A u \in Thread \ {t} : pc'[u] = pc[u]) /\ pc'[t] = "sign"
      BY <2>4 DEF TypeOK, ReadTail, Goto
    <3>5. \A u \in Thread : ThreadCurrent(u)'
      BY <3>1, <3>2, <3>3, <3>4, <1>b, <1>c DEF ThreadCurrent
    <3> QED
      BY <3>1, <3>2, <3>5, <1>b, <1>c DEF CacheCurrent, Stat
  <2>5. CASE Sign(t)
    <3>1. UNCHANGED <<lines, gen, archived, clearing, cache>>
      BY <2>5 DEF Sign
    <3>2. cache[Home[t]] = TailHash
      BY <2>5, <1>b DEF Sign, ThreadCurrent
    <3>3. /\ \A u \in Thread \ {t} : pc'[u] = pc[u] /\ entry'[u] = entry[u]
          /\ pc'[t] = "append" /\ entry'[t].prev = TailHash
      BY <2>5, <3>2 DEF TypeOK, Sign, Construct, Goto
    <3>4. \A i \in Instance : sig'[i] = sig[i] \/ cache[i] = TailHash
      BY <2>5, <3>2 DEF TypeOK, Sign
    <3>5. \A u \in Thread : ThreadCurrent(u)'
      BY <3>1, <3>3, <1>b, <1>c DEF ThreadCurrent
    <3> QED
      BY <3>1, <3>4, <3>5, <1>b, <1>c DEF CacheCurrent, Stat
  <2>7. CASE Refresh(t)
    <3>1. UNCHANGED <<lines, gen, archived, clearing, sig, entry>>
      BY <2>7 DEF Refresh
    <3>2. entry[t].id = TailHash
      BY <2>7, <1>b DEF Refresh, ThreadCurrent
    <3>3. /\ \A i \in Instance : cache'[i] = cache[i] \/ cache'[i] = TailHash
          /\ cache'[Home[t]] = TailHash
      BY <2>7, <3>2 DEF TypeOK, Refresh
    <3>4. (\A u \in Thread \ {t} : pc'[u] = pc[u]) /\ pc'[t] = "restat"
      BY <2>7 DEF TypeOK, Refresh, Goto
    <3>5. \A u \in Thread : ThreadCurrent(u)'
      BY <3>1, <3>2, <3>3, <3>4, <1>b, <1>c DEF ThreadCurrent
    <3> QED
      BY <3>1, <3>3, <3>5, <1>b, <1>c DEF CacheCurrent, Stat
  <2>8. CASE Restat(t)
    <3>1. UNCHANGED <<lines, gen, archived, clearing, cache>>
      BY <2>8 DEF Restat
    <3>2. cache[Home[t]] = TailHash
      BY <2>8, <1>b DEF Restat, ThreadCurrent
    <3>3. \A i \in Instance : sig'[i] = sig[i] \/ cache[i] = TailHash
      BY <2>8, <3>2 DEF TypeOK, Restat
    <3>4. /\ \A u \in Thread \ {t} : pc'[u] = pc[u] /\ entry'[u] = entry[u]
          /\ pc'[t] = "idle"
      BY <2>8 DEF TypeOK, Restat, Goto
    <3>5. \A u \in Thread : ThreadCurrent(u)'
      BY <3>1, <3>4, <1>b, <1>c DEF ThreadCurrent
    <3> QED
      BY <3>1, <3>3, <3>5, <1>b, <1>c DEF CacheCurrent, Stat
  <2> QED
    BY <1>0, <1>1, <2>1, <2>2, <2>3, <2>4, <2>5, <2>7, <2>8 DEF Step
<1>2. ASSUME NEW i \in Instance, Restart(i)
      PROVE  CacheCurrent' /\ \A u \in Thread : ThreadCurrent(u)'
  <2>1. UNCHANGED <<lines, gen, archived, clearing>>
    BY <1>2 DEF Restart
  <2>2. Exists => sig'[i] # Stat
    <3>1. gen # 0
      BY DEF TypeOK
    <3> QED
      BY <1>2, <3>1 DEF TypeOK, Restart, NoSig, Stat
  <2>3. \A j \in Instance \ {i} : sig'[j] = sig[j] /\ cache'[j] = cache[j]
    BY <1>2 DEF TypeOK, Restart
  <2>4. \A u \in Thread : \/ pc'[u] = "idle"
                          \/ /\ Home[u] # i /\ pc'[u] = pc[u]
                             /\ entry'[u] = entry[u]
                             /\ cache'[Home[u]] = cache[Home[u]]
    BY <1>2 DEF TypeOK, Restart
  <2>5. \A u \in Thread : ThreadCurrent(u)'
    BY <2>1, <2>4, <1>b, <1>c DEF ThreadCurrent
  <2> QED
    BY <2>1, <2>2, <2>3, <2>5, <1>b, <1>c DEF CacheCurrent, Stat
<1>3. ASSUME ClearArchive \/ ClearKilled \/ UNCHANGED vars
      PROVE  CacheCurrent' /\ \A u \in Thread : ThreadCurrent(u)'
  <2>1. UNCHANGED <<lines, gen, cache, sig, pc, entry>>
    BY <1>3 DEF ClearArchive, ClearKilled, vars
  <2>2. \A u \in Thread : ThreadCurrent(u)'
    BY <2>1, <1>b, <1>c DEF ThreadCurrent
  <2> QED
    BY <2>1, <2>2, <1>b, <1>c DEF Current, CacheCurrent, Stat
<1> QED
  BY <1>0, <1>1, <1>2, <1>3 DEF Next, Current

\* After an append that hit nobody midway nothing lags behind, whatever did before:
\* no signature is that of the longer file, and no other log() knows the old tail.
LEMMA AppendedAlone ==
  ASSUME TypeOK, SignaturesInPast, NEW t \in Thread, AppendLine(t), overlaps' = overlaps
  PROVE  Current' /\ ~clearing
<1>0. MidLog(Thread \ {t}) \in Nat /\ overlaps \in Nat
  BY MidLogCounts DEF TypeOK
<1>1. \A u \in Thread \ {t} : ~InWindow(u)
  <2>1. MidLog(Thread \ {t}) = 0
    BY <1>0 DEF AppendLine
  <2> QED
    BY <2>1, MidLogCounts
<1>2. ~clearing
  BY <1>0 DEF AppendLine
<1>3. /\ entry[t] \in Entry /\ lines \in Seq(Entry)
      /\ lines' = Append(lines, entry[t])
  BY DEF TypeOK, AppendLine
<1>4. /\ Len(lines') = Len(lines) + 1
      /\ lines'[Len(lines) + 1] = entry[t]
  BY <1>3
<1>5. TailHash' = entry[t].id
  BY <1>3, <1>4 DEF TailHash, Chain!LastHash
<1>6. \A i \in Instance : sig'[i] # Stat'
  <2>1. gen' = gen /\ sig' = sig
    BY DEF AppendLine
  <2>2. Stat' = <<gen, Len(lines) + 1>>
    BY <1>4, <2>1 DEF Stat
  <2>3. gen \in Nat /\ Len(lines) \in Nat
    BY DEF TypeOK
  <2>4. \A i \in Instance : InPast(sig[i])
    BY DEF SignaturesInPast
  <2> QED
    BY <2>1, <2>2, <2>3, <2>4 DEF InPast
<1>7. /\ pc'[t] = "refresh" /\ \A u \in Thread \ {t} : pc'[u] = pc[u]
      /\ UNCHANGED <<entry, cache, clearing>>
  BY DEF TypeOK, AppendLine, Goto
<1>8. \A u \in Thread : ThreadCurrent(u)'
  BY <1>1, <1>5, <1>7 DEF ThreadCurrent, InWindow
<1> QED
  BY <1>2, <1>6, <1>8 DEF Current, CacheCurrent

\* So it is after an unlink that hit nobody midway.
LEMMA UnlinkedAlone ==
  ASSUME TypeOK, ClearUnlink, overlaps' = overlaps
  PROVE  Current' /\ ~clearing'
<1>1. \A u \in Thread : ~InWindow(u)
  <2>1. MidLog(Thread) \in Nat
    BY MidLogCounts
  <2>2. MidLog(Thread) = 0
    BY <2>1 DEF ClearUnlink, TypeOK
  <2> QED
    BY <2>2, MidLogCounts
<1>2. lines' = <<>> /\ ~clearing' /\ pc' = pc
  BY DEF ClearUnlink
<1>3. \A u \in Thread : ThreadCurrent(u)'
  BY <1>1, <1>2 DEF ThreadCurrent, InWindow
<1> QED
  BY <1>2, <1>3 DEF Current, CacheCurrent, Exists

\* Every step keeps what the steps of log() rely on: an append hits nobody
\* else midway, since overlaps stays 0, and every other step leaves the file.
LEMMA SettledStep ==
  TypeOK /\ SignaturesInPast /\ Settled /\ [Next]_vars => Settled'
<1> SUFFICES ASSUME TypeOK, SignaturesInPast, Settled, [Next]_vars, overlaps' = 0
             PROVE  /\ Intact'
                    /\ Current'
                    /\ clearing' => Chain!Lines(lines') \subseteq archived'
  BY DEF Settled
<1>0. overlaps = 0
  <2>1. MidLog(Thread) \in Nat /\ \A t \in Thread : MidLog(Thread \ {t}) \in Nat
    BY MidLogCounts
  <2>2. ASSUME NEW t \in Thread, Step(t) PROVE overlaps = 0
    BY <2>1, <2>2 DEF TypeOK, Step, Log, Absent, StatHit, StatMiss, ReadTail,
       Sign, Vanished, AppendLine, Refresh, Restat
  <2> QED
    BY <2>1, <2>2 DEF TypeOK, Next, Restart, ClearArchive, ClearUnlink,
       ClearKilled, vars
<1>1. /\ Intact /\ Current
      /\ clearing => Chain!Lines(lines) \subseteq archived
  BY <1>0 DEF Settled
<1>2. ASSUME NEW t \in Thread, AppendLine(t)
      PROVE  Intact' /\ Current' /\ ~clearing'
  <2>1. /\ entry[t] \in Entry /\ lines \in Seq(Entry)
        /\ lines' = Append(lines, entry[t])
        /\ entry[t].prev = TailHash
    BY <1>1, <1>2 DEF TypeOK, AppendLine, Current, ThreadCurrent
  <2>2. /\ Len(lines') = Len(lines) + 1
        /\ lines'[Len(lines) + 1] = entry[t]
        /\ \A k \in 1..Len(lines) : lines'[k] = lines[k]
    BY <2>1
  <2>3. Intact'
    BY <2>1, <2>2, <1>1 DEF Intact, Chain!Chained, TailHash, Chain!LastHash
  <2> QED
    BY <1>0, <1>2, <2>3, AppendedAlone DEF AppendLine
<1>3. CASE ClearUnlink
  <2>1. Intact'
    BY <1>3 DEF ClearUnlink, Intact, Chain!Chained
  <2> QED
    BY <1>0, <1>3, <2>1, UnlinkedAlone
<1>4. ASSUME \A t \in Thread : ~AppendLine(t), ~ClearUnlink
      PROVE  /\ Intact' /\ Current'
             /\ clearing' => Chain!Lines(lines') \subseteq archived'
  <2>1. UNCHANGED lines /\ Current'
    BY <1>1, <1>4, FileUntouched, CurrentStep
  <2>2. Intact'
    BY <1>1, <2>1 DEF Intact, Chain!Chained
  <2>3. /\ archived \subseteq archived'
        /\ clearing' => clearing \/ Chain!Lines(lines) \subseteq archived'
    BY <1>4 DEF Next, Step, Log, Absent, StatHit, StatMiss, ReadTail, Sign, Vanished, Refresh,
                Restat, Restart, ClearArchive, ClearKilled, vars
  <2> QED
    BY <1>1, <2>1, <2>2, <2>3
<1> QED
  BY <1>2, <1>3, <1>4

\* The strengthened invariant holds of every reachable state.
LEMMA ChainInvariant == Spec => []ChainInv
<1>1. Init => ChainInv
  <2> SUFFICES ASSUME Init PROVE SignaturesInPast /\ Settled
    BY TypeInit DEF ChainInv
  <2>1. SignaturesInPast
    BY DEF Init, SignaturesInPast, InPast, NoSig
  <2>2. ~Exists /\ Intact /\ ~clearing /\ \A t \in Thread : pc[t] = "idle"
    BY DEF Init, Exists, Intact, Chain!Chained
  <2>3. Settled
    BY <2>2 DEF Settled, Current, CacheCurrent, ThreadCurrent
  <2> QED
    BY <2>1, <2>3
<1>2. ChainInv /\ [Next]_vars => ChainInv'
  BY TypeStep, WarmStep, SignaturesStep, SettledStep DEF ChainInv
<1> QED
  BY <1>1, <1>2, PTL DEF Spec

\* The signature does what it is for: without an overlap, verify_chain holds,
\* whatever the writers, their restarts and the clears.
THEOREM ChainBrokenOnlyByOverlap == Spec => []BrokenOnlyByOverlap
<1>1. ChainInv => BrokenOnlyByOverlap
  BY DEF ChainInv, Settled, BrokenOnlyByOverlap
<1> QED
  BY <1>1, ChainInvariant, PTL
-----------------------------------------------------------------------------
(***************************************************************************)
(* What an overlap may cost. While every overlap has been paid for with a  *)
(* broken link, nothing lags behind the file; so a line that will break    *)
(* the chain is always covered by an overlap that has not done so yet. An  *)
(* append that hits somebody midway adds one for each of them, and one     *)
(* that hits nobody leaves nothing behind that lags, whatever it breaks    *)
(* itself.                                                                 *)
(***************************************************************************)

Balanced ==
  /\ Cardinality(BrokenLinks) <= overlaps
  /\ Cardinality(BrokenLinks) = overlaps => Current

\* The broken links of a file can be counted.
LEMMA BrokenCounts ==
  ASSUME TypeOK
  PROVE  IsFiniteSet(BrokenLinks) /\ Cardinality(BrokenLinks) \in Nat
<1>1. Len(lines) \in Nat
  BY DEF TypeOK
<1>2. IsFiniteSet(1..Len(lines))
  BY <1>1, FS_Interval
<1>3. BrokenLinks \in SUBSET (1..Len(lines))
  BY DEF BrokenLinks
<1>4. IsFiniteSet(BrokenLinks)
  BY <1>2, <1>3, FS_Subset
<1> QED
  BY <1>4, FS_CardinalityType

\* A line adds its own link to them, or none.
LEMMA BrokenByAppend ==
  ASSUME TypeOK, NEW t \in Thread, AppendLine(t)
  PROVE  /\ Cardinality(BrokenLinks') \in Nat
         /\ Cardinality(BrokenLinks') <= Cardinality(BrokenLinks) + 1
         /\ Current => Cardinality(BrokenLinks') = Cardinality(BrokenLinks)
<1> PICK n : n = Len(lines)
  OBVIOUS
<1>1. /\ entry[t] \in Entry /\ lines \in Seq(Entry) /\ n \in Nat
      /\ lines' = Append(lines, entry[t])
  BY DEF TypeOK, AppendLine
<1>2. /\ Len(lines') = n + 1
      /\ lines'[n + 1] = entry[t]
      /\ \A k \in 1..n : lines'[k] = lines[k]
  BY <1>1
<1>3. ASSUME NEW i \in 1..n PROVE i \in BrokenLinks' <=> i \in BrokenLinks
  <2>1. i = 1 \/ i - 1 \in 1..n
    BY <1>1
  <2> QED
    BY <1>1, <1>2, <2>1 DEF BrokenLinks
<1>4. BrokenLinks' \subseteq 1..(n + 1) /\ BrokenLinks \subseteq 1..n
  BY <1>2 DEF BrokenLinks
<1>5. BrokenLinks' \subseteq BrokenLinks \cup {n + 1} /\ BrokenLinks \subseteq BrokenLinks'
  BY <1>1, <1>3, <1>4
<1>6. IsFiniteSet(BrokenLinks) /\ Cardinality(BrokenLinks) \in Nat /\ n + 1 \notin BrokenLinks
  BY <1>1, <1>4, BrokenCounts
<1>7. /\ IsFiniteSet(BrokenLinks \cup {n + 1})
      /\ Cardinality(BrokenLinks \cup {n + 1}) = Cardinality(BrokenLinks) + 1
  BY <1>6, FS_AddElement
<1>8. Cardinality(BrokenLinks') <= Cardinality(BrokenLinks) + 1 /\ Cardinality(BrokenLinks') \in Nat
  BY <1>5, <1>7, FS_Subset, FS_CardinalityType
<1>9. ASSUME Current PROVE BrokenLinks' = BrokenLinks
  <2>1. entry[t].prev = TailHash
    BY <1>9 DEF Current, ThreadCurrent, AppendLine
  <2>2. TailHash = IF n = 0 THEN 0 ELSE lines[n].id
    BY <1>1 DEF TailHash, Chain!LastHash
  <2>3. n + 1 \notin BrokenLinks'
    <3>1. CASE n = 0
      BY <1>1, <1>2, <2>1, <2>2, <3>1 DEF BrokenLinks
    <3>2. CASE n # 0
      <4>1. n + 1 # 1 /\ n + 1 - 1 = n /\ lines'[n] = lines[n]
        BY <1>1, <1>2, <3>2
      <4> QED
        BY <1>2, <2>1, <2>2, <3>2, <4>1 DEF BrokenLinks
    <3> QED
      BY <3>1, <3>2
  <2> QED
    BY <1>5, <2>3
<1> QED
  BY <1>8, <1>9

\* Every step keeps the balance.
LEMMA BalancedStep ==
  TypeOK /\ SignaturesInPast /\ Balanced /\ [Next]_vars => Balanced'
<1> SUFFICES ASSUME TypeOK, SignaturesInPast, Balanced, [Next]_vars PROVE Balanced'
  OBVIOUS
<1>1. overlaps \in Nat /\ Cardinality(BrokenLinks) \in Nat
  BY BrokenCounts DEF TypeOK
<1>2. ASSUME NEW t \in Thread, AppendLine(t) PROVE Balanced'
  <2>1. MidLog(Thread \ {t}) \in Nat
    BY MidLogCounts
  <2>2. overlaps' \in Nat /\ overlaps' >= overlaps
    BY <1>1, <1>2, <2>1 DEF AppendLine
  <2> PICK broken : broken = Cardinality(BrokenLinks')
    OBVIOUS
  <2>3. broken \in Nat
    BY <1>2, BrokenByAppend
  <2>4. broken <= Cardinality(BrokenLinks) + 1 /\ (Current => broken = Cardinality(BrokenLinks))
    BY <1>2, BrokenByAppend
  <2>5. broken <= overlaps
    BY <1>1, <2>3, <2>4 DEF Balanced
  <2>6. overlaps' = overlaps => Current'
    BY <1>2, AppendedAlone
  <2> QED
    BY <1>1, <2>2, <2>3, <2>5, <2>6 DEF Balanced
<1>3. CASE ClearUnlink
  <2>1. BrokenLinks' = {}
    BY <1>3 DEF ClearUnlink, BrokenLinks
  <2>2. Cardinality(BrokenLinks') = 0
    BY <2>1, FS_EmptySet
  <2>3. MidLog(Thread) \in Nat /\ overlaps' = overlaps + MidLog(Thread)
    BY <1>3, MidLogCounts DEF ClearUnlink
  <2>4. overlaps' = overlaps => Current'
    BY <1>3, UnlinkedAlone
  <2> QED
    BY <1>1, <2>2, <2>3, <2>4 DEF Balanced
<1>4. ASSUME \A t \in Thread : ~AppendLine(t), ~ClearUnlink PROVE Balanced'
  <2>1. UNCHANGED <<lines, overlaps>>
    BY <1>4, FileUntouched
  <2>2. BrokenLinks' = BrokenLinks
    BY <2>1 DEF BrokenLinks
  <2> QED
    BY <1>4, <2>1, <2>2, CurrentStep DEF Balanced
<1> QED
  BY <1>2, <1>3, <1>4

\* However many writers are stale at once, the links verify_chain would complain
\* of are no more than the times a log() was hit midway: a cache that lost a race
\* breaks the chain once.
THEOREM ForksPaidFor == Spec => []ForkBudget
<1>1. Init => Balanced
  <2> SUFFICES ASSUME Init PROVE Balanced
    OBVIOUS
  <2>1. BrokenLinks = {}
    BY DEF Init, BrokenLinks
  <2>2. Cardinality(BrokenLinks) = 0 /\ overlaps = 0
    BY <2>1, FS_EmptySet DEF Init
  <2>3. Current
    BY DEF Init, Current, CacheCurrent, ThreadCurrent, Exists
  <2> QED
    BY <2>2, <2>3 DEF Balanced
<1>2. Balanced => ForkBudget
  BY DEF Balanced, ForkBudget
<1>3. ChainInv => TypeOK /\ SignaturesInPast
  BY DEF ChainInv
<1> QED
  BY <1>1, <1>2, <1>3, ChainInvariant, BalancedStep, PTL DEF Spec
-----------------------------------------------------------------------------
(* Without an overlap AuditTrail implements HashChain, step by step. *)

\* The digests a behaviour uses are those HashChain is instantiated with.
DigestsBounded ==
  \A t \in Thread : pc[t] = "append" => entry[t].id \in 1..MaxEntries

\* Every step keeps the digests in the range of the instance.
LEMMA DigestsStep == TypeOK /\ DigestsBounded /\ [Next]_vars => DigestsBounded'
<1> SUFFICES ASSUME TypeOK, DigestsBounded, [Next]_vars PROVE DigestsBounded'
  OBVIOUS
<1> USE HomeAssumption, BoundAssumption
<1>1. ASSUME NEW t \in Thread, Step(t) PROVE DigestsBounded'
  <2>1. \A u \in Thread \ {t} : pc'[u] = pc[u] /\ entry'[u] = entry[u]
    BY <1>1 DEF TypeOK, Step, Log, Absent, StatHit, StatMiss, ReadTail, Sign,
       Vanished, AppendLine, Refresh, Restat, Construct, Goto
  <2>2. pc'[t] = "append" => entry'[t].id \in 1..MaxEntries
    <3>1. CASE Absent(t) \/ StatHit(t) \/ Sign(t)
      BY <3>1 DEF TypeOK, Absent, StatHit, Sign, Construct
    <3>2. CASE ~(Absent(t) \/ StatHit(t) \/ Sign(t))
      BY <1>1, <3>2 DEF TypeOK, Step, Log, StatMiss, ReadTail, Vanished,
         AppendLine, Refresh, Restat, Goto
    <3> QED
      BY <3>1, <3>2
  <2> QED
    BY <2>1, <2>2 DEF DigestsBounded
<1>2. ASSUME NEW i \in Instance, Restart(i) PROVE DigestsBounded'
  BY <1>2 DEF TypeOK, DigestsBounded, Restart
<1>3. CASE ClearArchive \/ ClearUnlink \/ ClearKilled \/ UNCHANGED vars
  BY <1>3 DEF DigestsBounded, ClearArchive, ClearUnlink, ClearKilled, vars
<1> QED
  BY <1>1, <1>2, <1>3 DEF Next

\* The digests of the entries under construction are in that range.
LEMMA DigestsInvariant == Spec => []DigestsBounded
<1>1. Init => DigestsBounded
  BY DEF Init, DigestsBounded
<1> QED
  BY <1>1, DigestsStep, TypeCorrect, PTL DEF Spec

\* One step of the code, without an overlap so far, is one of HashChain or a
\* stutter.
LEMMA StepImplements ==
  ASSUME ChainInv, ChainInv', DigestsBounded, [Next]_vars, overlaps' = 0
  PROVE  [Chain!Next]_<<lines, archived>>
<1>a. TypeOK /\ Settled
  BY DEF ChainInv
<1>b. MidLog(Thread) \in Nat /\ \A t \in Thread : MidLog(Thread \ {t}) \in Nat
  BY MidLogCounts
<1>1. ASSUME NEW t \in Thread, AppendLine(t) PROVE Chain!Extend
  <2>1. overlaps = 0
    BY <1>1, <1>a, <1>b DEF TypeOK, AppendLine
  <2>2. entry[t].prev = TailHash /\ entry[t].id \in 1..MaxEntries
    BY <1>1, <1>a, <2>1 DEF Settled, Current, ThreadCurrent, DigestsBounded, AppendLine
  <2>3. entry[t] = [id |-> entry[t].id, prev |-> TailHash]
    BY <2>2, <1>a DEF TypeOK, Entry
  <2> QED
    BY <1>1, <2>2, <2>3 DEF AppendLine, Chain!Extend, TailHash
<1>2. CASE ClearArchive
  BY <1>2 DEF ClearArchive, Chain!Archive, Chain!Next
<1>3. CASE ClearUnlink
  <2>1. overlaps = 0
    BY <1>3, <1>a, <1>b DEF TypeOK, ClearUnlink
  <2>2. clearing => Chain!Lines(lines) \subseteq archived
    BY <1>a, <2>1 DEF Settled
  <2> QED
    BY <1>3, <2>2 DEF ClearUnlink, Chain!Clear, Chain!Next
<1>4. CASE UNCHANGED <<lines, archived>>
  BY <1>4
<1>5. ASSUME NEW t \in Thread, Step(t), ~AppendLine(t) PROVE UNCHANGED <<lines, archived>>
  BY <1>5 DEF Step, Log, Absent, StatHit, StatMiss, ReadTail, Sign, Vanished,
     Refresh, Restat
<1> QED
  BY <1>1, <1>2, <1>3, <1>4, <1>5 DEF Next, Chain!Next, Restart, ClearKilled, vars

\* Until operations overlap, every step of the code is a step of the abstract
\* chain: one append at its end, an archive, or a clear that loses nothing.
THEOREM StepRefinement == Spec => ChainUntilOverlap
<1>1. ChainInv /\ ChainInv' /\ DigestsBounded /\ [Next]_vars
        => [overlaps' = 0 => [Chain!Next]_<<lines, archived>>]_vars
  BY StepImplements
<1> QED
  BY <1>1, ChainInvariant, DigestsInvariant, PTL DEF Spec, ChainUntilOverlap
-----------------------------------------------------------------------------
(* One thread and no clear: nothing can overlap. *)

\* One thread calls log(), and nobody runs `audit clear`.
SoleWriter == Thread = {CHOOSE t : t \in Thread} /\ MaxClears = 0

Undisturbed == overlaps = 0 /\ ~clearing /\ gen = 1

\* Then there is no overlap, and no other incarnation.
LEMMA SoleWriterUndisturbed ==
  ASSUME SoleWriter
  PROVE  Spec => []Undisturbed
<1>1. Init => Undisturbed
  BY DEF Init, Undisturbed
<1>2. Undisturbed /\ [Next]_vars => Undisturbed'
  <2> SUFFICES ASSUME Undisturbed, [Next]_vars PROVE Undisturbed'
    OBVIOUS
  <2>1. ASSUME NEW t \in Thread, AppendLine(t) PROVE Undisturbed'
    <3>1. Thread \ {t} = {}
      BY DEF SoleWriter
    <3>2. MidLog(Thread \ {t}) = 0
      BY <3>1, FS_EmptySet DEF MidLog
    <3> QED
      BY <2>1, <3>2 DEF AppendLine, Undisturbed
  <2>2. ASSUME NEW t \in Thread, Step(t), ~AppendLine(t) PROVE Undisturbed'
    BY <2>2 DEF Undisturbed, Step, Log, Absent, StatHit, StatMiss, ReadTail,
       Sign, Vanished, Refresh, Restat
  <2>3. ~ClearArchive /\ ~ClearUnlink /\ ~ClearKilled
    BY DEF Undisturbed, SoleWriter, ClearArchive, ClearUnlink, ClearKilled
  <2> QED
    BY <2>1, <2>2, <2>3 DEF Next, Undisturbed, Restart, vars
<1> QED
  BY <1>1, <1>2, PTL DEF Spec

\* A single writer, however often its process ends midway and is started
\* again, implements the abstract chain outright.
THEOREM SoleWriterRefinement ==
  ASSUME SoleWriter
  PROVE  Spec => Chain!Spec
<1>1. Init => Chain!Init
  BY DEF Init, Chain!Init
<1>2. ChainInv /\ ChainInv' /\ DigestsBounded /\ Undisturbed' /\ [Next]_vars
        => [Chain!Next]_<<lines, archived>>
  BY StepImplements DEF Undisturbed
<1> QED
  BY <1>1, <1>2, ChainInvariant, DigestsInvariant, SoleWriterUndisturbed, PTL
     DEF Spec, Chain!Spec
-----------------------------------------------------------------------------
(* Even a forked log is a tree: nothing links to a line that is not there. *)

\* h is the empty string or the hash of a line of the file.
OnFile(h) == h = 0 \/ \E j \in 1..Len(lines) : lines[j].id = h

HashesOnFile ==
  gen = 1 =>
    /\ \A i \in Instance : cache[i] = Cold \/ OnFile(cache[i])
    /\ \A t \in Thread : pc[t] = "append" => OnFile(entry[t].prev)
    /\ \A t \in Thread : pc[t] = "refresh" => OnFile(entry[t].id)

LinksInv == LinksPointUp /\ HashesOnFile

\* Every step keeps the links of the file, the cached hashes and the entries
\* to be appended pointing at lines of the file.
LEMMA LinksStep == TypeOK /\ WarmAtSign /\ LinksInv /\ [Next]_vars => LinksInv'
<1> SUFFICES ASSUME TypeOK, WarmAtSign, LinksInv, [Next]_vars, gen' = 1
             PROVE  LinksInv'
  BY DEF LinksInv, LinksPointUp, HashesOnFile
<1> USE HomeAssumption
<1>a. gen = 1 /\ ~ClearUnlink
  <2>1. ~ClearUnlink
    BY DEF TypeOK, ClearUnlink
  <2>2. gen' = gen
    BY <2>1 DEF Next, Step, Log, Absent, StatHit, StatMiss, ReadTail, Sign, Vanished,
       AppendLine, Refresh, Restat, Restart, ClearArchive, ClearKilled, vars
  <2> QED
    BY <2>1, <2>2
<1>b. /\ LinksPointUp
      /\ \A i \in Instance : cache[i] = Cold \/ OnFile(cache[i])
      /\ \A t \in Thread : pc[t] = "append" => OnFile(entry[t].prev)
      /\ \A t \in Thread : pc[t] = "refresh" => OnFile(entry[t].id)
  BY <1>a DEF LinksInv, HashesOnFile
<1>c. ASSUME UNCHANGED lines
      PROVE  LinksPointUp' /\ \A h : OnFile(h)' <=> OnFile(h)
  BY <1>b, <1>c, <1>a DEF LinksPointUp, OnFile
<1>d. OnFile(0) /\ OnFile(TailHash)
  BY DEF TypeOK, OnFile, TailHash, Chain!LastHash
<1>1. ASSUME NEW t \in Thread, Step(t) PROVE LinksInv'
  <2>1. CASE Log(t) \/ StatMiss(t) \/ Vanished(t) \/ Restat(t)
    <3>1. /\ UNCHANGED <<lines, cache>>
          /\ \A u \in Thread : pc'[u] \in {"append", "refresh"}
                                 => pc'[u] = pc[u] /\ entry'[u] = entry[u]
      BY <2>1 DEF TypeOK, Log, StatMiss, Vanished, Restat, Goto
    <3> QED
      BY <3>1, <1>b, <1>c DEF LinksInv, HashesOnFile, OnFile
  <2>2. CASE Absent(t) \/ StatHit(t) \/ Sign(t)
    <3>1. UNCHANGED lines
      BY <2>2 DEF Absent, StatHit, Sign
    <3>2. \A i \in Instance : cache'[i] = cache[i] \/ cache'[i] = 0
      BY <2>2 DEF TypeOK, Absent, StatHit, Sign
    <3>3. /\ \A u \in Thread \ {t} : pc'[u] = pc[u] /\ entry'[u] = entry[u]
          /\ pc'[t] = "append"
          /\ entry'[t].prev = 0 \/ entry'[t].prev = cache[Home[t]]
      BY <2>2 DEF TypeOK, Absent, StatHit, Sign, Construct, Goto
    <3>4. Absent(t) \/ cache[Home[t]] # Cold
      BY <2>2 DEF WarmAtSign, StatHit, Sign
    <3>5. Absent(t) => entry'[t].prev = 0
      BY DEF TypeOK, Absent, Construct
    <3>6. OnFile(entry'[t].prev)
      BY <3>3, <3>4, <3>5, <1>b, <1>d
    <3> QED
      BY <3>1, <3>2, <3>3, <3>6, <1>b, <1>c, <1>d DEF LinksInv, HashesOnFile, OnFile
  <2>3. CASE ReadTail(t)
    <3>1. /\ UNCHANGED <<lines, entry>>
          /\ \A i \in Instance : cache'[i] = cache[i] \/ cache'[i] = TailHash
          /\ \A u \in Thread : pc'[u] \in {"append", "refresh"} => pc'[u] = pc[u]
      BY <2>3 DEF TypeOK, ReadTail, Goto
    <3> QED
      BY <3>1, <1>b, <1>c, <1>d DEF LinksInv, HashesOnFile, OnFile
  <2>4. CASE AppendLine(t)
    <3>1. /\ lines' = Append(lines, entry[t]) /\ UNCHANGED <<cache, entry>>
          /\ pc' = [pc EXCEPT ![t] = "refresh"]
          /\ entry[t] \in Entry /\ lines \in Seq(Entry)
          /\ OnFile(entry[t].prev)
      BY <2>4, <1>b DEF TypeOK, AppendLine, Goto
    <3>2. /\ Len(lines') = Len(lines) + 1 /\ Len(lines) \in Nat
          /\ lines'[Len(lines) + 1] = entry[t]
          /\ \A k \in 1..Len(lines) : lines'[k] = lines[k]
      BY <3>1
    <3>3. \A h : OnFile(h) => OnFile(h)'
      BY <3>2 DEF OnFile
    <3>4. OnFile(entry[t].id)'
      BY <3>1, <3>2 DEF OnFile
    <3>5. LinksPointUp'
      BY <3>1, <3>2, <1>a, <1>b DEF LinksPointUp, OnFile
    <3>6. \A u \in Thread \ {t} : pc'[u] = pc[u]
      BY <3>1 DEF TypeOK
    <3>7. pc'[t] = "refresh"
      BY <3>1 DEF TypeOK
    <3> QED
      BY <3>1, <3>3, <3>4, <3>5, <3>6, <3>7, <1>b DEF LinksInv, HashesOnFile, OnFile
  <2>5. CASE Refresh(t)
    <3>1. /\ UNCHANGED <<lines, entry>>
          /\ \A i \in Instance : cache'[i] = cache[i] \/ cache'[i] = entry[t].id
          /\ \A u \in Thread : pc'[u] \in {"append", "refresh"} => pc'[u] = pc[u]
      BY <2>5 DEF TypeOK, Refresh, Goto
    <3>2. OnFile(entry[t].id)
      BY <2>5, <1>b DEF Refresh
    <3> QED
      BY <3>1, <3>2, <1>b, <1>c DEF LinksInv, HashesOnFile, OnFile
  <2> QED
    BY <1>1, <2>1, <2>2, <2>3, <2>4, <2>5 DEF Step
<1>2. ASSUME NEW i \in Instance, Restart(i) PROVE LinksInv'
  <2>1. /\ UNCHANGED lines
        /\ \A j \in Instance : cache'[j] = cache[j] \/ cache'[j] = Cold
        /\ \A u \in Thread : pc'[u] = "idle" \/ (pc'[u] = pc[u] /\ entry'[u] = entry[u])
    BY <1>2 DEF TypeOK, Restart
  <2> QED
    BY <2>1, <1>b, <1>c DEF LinksInv, HashesOnFile, OnFile
<1>3. CASE ClearArchive \/ ClearKilled \/ UNCHANGED vars
  <2>1. UNCHANGED <<lines, cache, pc, entry>>
    BY <1>3 DEF ClearArchive, ClearKilled, vars
  <2> QED
    BY <2>1, <1>b, <1>c DEF LinksInv, HashesOnFile, OnFile
<1> QED
  BY <1>1, <1>2, <1>3, <1>a DEF Next

\* However the writers interleave, and whichever of them are killed midway,
\* until the first clear every prev_hash is found above in the file.
THEOREM EveryLinkPointsUp == Spec => []LinksPointUp
<1>1. Init => LinksInv
  BY DEF Init, LinksInv, LinksPointUp, HashesOnFile
<1>2. LinksInv => LinksPointUp
  BY DEF LinksInv
<1> QED
  BY <1>1, <1>2, LinksStep, TypeCorrect, PTL DEF Spec
=============================================================================
