------------------------- MODULE AuditWatcherProofs -------------------------
(***************************************************************************)
(* As long as the log is not cleared, the watcher loses no line and        *)
(* repeats only what it had not saved - unless its process once died       *)
(* leaving no readable .watcher-offset, the one case in which a start      *)
(* passes over what nobody was given: for a log of any length and any      *)
(* number of stops, crashes and starts.                                    *)
(*                                                                         *)
(* NothingSkipped alone is not inductive.  A position beyond the end of    *)
(* the log would skip the next line written, so positions lie within the   *)
(* log; and a reset to 0 would repeat what was saved, so the hash          *)
(* remembered is that of the line which still is the first, in memory and  *)
(* on disk; and a watcher that is down left .watcher-offset, or is known   *)
(* not to have (Excused).                                                  *)
(*                                                                         *)
(* Whether the log is cleared or not, the lines of a run come in order and *)
(* once, up to the first replacement noticed too late.  InOrderOnce speaks *)
(* of what was delivered; the invariant it needs, of where to go on: all   *)
(* behind the position is newer than that, and if the log is shorter than  *)
(* the position, the whole log is.                                         *)
(***************************************************************************)
EXTENDS AuditWatcher, TLAPS

Line == Nat \ {0}
Position == [kind : {"offset"}, offset : Nat, hash : Nat]

\* Nothing up to o is unaccounted for, and o is a place in the log.
Safe(o) ==
  /\ o <= Len(lines)
  /\ \A i \in 1..Len(lines) : i <= o => lines[i] \in handled \cup old \cup lost

InMemory ==
  pc # "down" =>
    /\ Safe(offset)
    /\ firstHash # NoHash => Exists /\ firstHash = FirstLine

InRead == pc = "read" => openGen = gen /\ Safe(pos)

OnDisk ==
  saved.kind = "offset" =>
    /\ Safe(saved.offset)
    /\ pc # "down" => saved.offset <= offset
    /\ pc = "read" => saved.offset <= pos

Cursors == gen = 1 => InMemory /\ InRead /\ OnDisk

\* No start finds .watcher-offset missing, torn or of another log unexcused.
Excused ==
  /\ pc = "down" /\ starts > 0 /\ saved = NoFile => helpless
  /\ saved = Torn => helpless
  /\ gen = 1 =>
       /\ ~helpless => lost = {}
       /\ saved.kind = "offset" /\ saved.hash # NoHash => Exists /\ saved.hash = FirstLine

WatcherInv == TypeOK /\ Cursors /\ Excused

-----------------------------------------------------------------------------
\* A log without lines.
LEMMA EmptyLog == <<>> \in Seq(Line) /\ <<>> \in Seq(Nat \ {0})
BY DEF Line

\* A watcher that was never started has no position to be wrong about.
LEMMA InitWatcher == Init => WatcherInv
<1> SUFFICES ASSUME Init PROVE TypeOK /\ Cursors /\ Excused
  BY DEF WatcherInv
<1>1. TypeOK
  <2>1. /\ lines \in Seq(Nat \ {0}) /\ unlinked \in Seq(Nat \ {0})
        /\ delivered \in Seq(Nat \ {0})
    BY EmptyLog DEF Init
  <2>2. saved \in {NoFile, Torn} /\ pc \in {"down", "idle", "open", "read"}
    BY DEF Init
  <2>3. /\ gen \in Nat \ {0} /\ {written, offset, firstHash, pos, openGen, starts} \subseteq Nat
        /\ {handled, old, lost} \subseteq SUBSET (Nat \ {0})
    BY DEF Init, NoHash
  <2>4. due \in BOOLEAN /\ {helpless, outrun} \subseteq BOOLEAN
    BY DEF Init
  <2> QED
    BY <2>1, <2>2, <2>3, <2>4, Zenon DEF TypeOK
<1>2. Cursors
  BY DEF Init, Cursors, InMemory, InRead, OnDisk, NoFile
<1>3. Excused
  BY DEF Init, Excused, NoFile, Torn
<1> QED
  BY <1>1, <1>2, <1>3

\* An append keeps the first line and every safe position.
LEMMA WriteKeeps == WatcherInv /\ Write => WatcherInv'
<1> SUFFICES ASSUME TypeOK, Cursors, Excused, Write
             PROVE  TypeOK' /\ Cursors' /\ Excused'
  BY DEF WatcherInv
<1> USE DEF Write, memVars, histVars
<1>1. lines \in Seq(Line) /\ lines' = Append(lines, written + 1) /\ written + 1 \in Line
  BY DEF TypeOK, Line
<1>2. /\ lines' \in Seq(Line) /\ Len(lines') = Len(lines) + 1
      /\ \A i \in 1..Len(lines) : lines'[i] = lines[i]
  BY <1>1
<1>3. TypeOK'
  BY <1>2 DEF TypeOK, Line
<1>4. ASSUME NEW o \in Nat, Safe(o) PROVE o <= Len(lines') /\ \A i \in 1..Len(lines') : i <= o => lines'[i] \in handled' \cup old' \cup lost'
  BY <1>1, <1>2, <1>4 DEF Safe
<1>5. Exists => Exists' /\ FirstLine' = FirstLine
  <2>1. Exists => Len(lines) > 0
    BY <1>1 DEF Exists
  <2> QED
    BY <1>1, <1>2, <2>1 DEF Exists, FirstLine
<1>6. Cursors'
  <2> SUFFICES ASSUME gen = 1 PROVE InMemory' /\ InRead' /\ OnDisk'
    BY DEF Cursors
  <2>1. InMemory'
    BY <1>4, <1>5 DEF Cursors, InMemory, TypeOK, Safe
  <2>2. InRead'
    BY <1>4 DEF Cursors, InRead, TypeOK, Safe
  <2>3. OnDisk'
    <3> SUFFICES ASSUME saved.kind = "offset" PROVE OnDisk'
      BY DEF OnDisk
    <3>1. saved.offset \in Nat
      BY DEF TypeOK, NoFile, Torn
    <3> QED
      BY <1>4, <3>1 DEF Cursors, OnDisk, Safe
  <2> QED
    BY <2>1, <2>2, <2>3
<1>7. Excused'
  BY <1>5 DEF Excused
<1> QED
  BY <1>3, <1>6, <1>7

\* A cleared log ends what is claimed (gen = 1).
LEMMA ClearKeeps == WatcherInv /\ Clear => WatcherInv'
<1> SUFFICES ASSUME TypeOK, Excused, Clear PROVE TypeOK' /\ gen' # 1 /\ Excused'
  BY DEF WatcherInv, Cursors
<1>1. TypeOK' /\ gen' # 1
  BY DEF Clear, histVars, TypeOK
<1> QED
  BY <1>1 DEF Clear, histVars, Excused

\* A start takes up a position on disk, or passes over the whole log.
LEMMA StartKeeps == WatcherInv /\ Start => WatcherInv'
<1> SUFFICES ASSUME TypeOK, Cursors, Excused, Start
             PROVE  TypeOK' /\ Cursors' /\ Excused'
  BY DEF WatcherInv
<1> USE DEF Started, fileVars
<1>1. lines \in Seq(Line)
  BY DEF TypeOK, Line
<1>2. Exists => FirstLine \in Line
  BY <1>1 DEF Exists, FirstLine
<1>3. LinesOf(lines) \subseteq Line
  BY <1>1 DEF LinesOf
<1>7. ASSUME PassOver
      PROVE  /\ {old', lost'} \subseteq SUBSET (Nat \ {0})
             /\ \A i \in 1..Len(lines) : lines[i] \in handled \cup old' \cup lost'
             /\ starts # 0 => old' = old /\ lost \subseteq lost'
             /\ starts = 0 => lost' = lost
  <2>1. \A i \in 1..Len(lines) : lines[i] \in LinesOf(lines)
    BY DEF LinesOf
  <2>2. {old', lost'} \subseteq SUBSET (Nat \ {0})
    BY <1>3, <1>7 DEF PassOver, TypeOK, Line
  <2>3. starts = 0 => lost' = lost
    BY <1>7 DEF PassOver
  <2> QED
    BY <1>7, <2>1, <2>2, <2>3 DEF PassOver
<1>8. pc = "down" /\ pc' = "idle" /\ UNCHANGED <<lines, gen, saved, handled, helpless>>
  BY DEF Start, StartFirst, StartResumed, StartAtEnd
<1>4. CASE StartFirst
  <2>1. TypeOK'
    <3>1. offset' \in Nat /\ firstHash' \in Nat
      BY <1>1, <1>2, <1>4 DEF StartFirst, NoHash, Line
    <3>2. {old', lost'} \subseteq SUBSET (Nat \ {0})
      BY <1>4, <1>7 DEF StartFirst
    <3> QED
      BY <1>4, <3>1, <3>2, EmptyLog DEF StartFirst, TypeOK
  <2>2. Safe(offset)'
    BY <1>1, <1>4, <1>7 DEF StartFirst, Safe
  <2>3. Cursors'
    BY <1>4, <2>2 DEF StartFirst, Cursors, InMemory, InRead, OnDisk, NoFile, Exists, FirstLine
  <2>4. Excused'
    <3>1. starts = 0 \/ helpless
      BY <1>4, <1>8 DEF StartFirst, Excused, TypeOK
    <3> QED
      BY <1>4, <1>7, <1>8, <3>1 DEF StartFirst, Excused, NoFile, Torn
  <2> QED
    BY <2>1, <2>3, <2>4
<1>5. CASE StartResumed
  <2>1. saved \in Position
    BY <1>5 DEF StartResumed, TypeOK, NoFile, Torn, Position
  <2>2. TypeOK'
    BY <1>5, <2>1 DEF StartResumed, TypeOK, Position
  <2>3. Cursors'
    BY <1>5, <2>1 DEF StartResumed, Cursors, InMemory, InRead, OnDisk, Safe, Position, Exists, FirstLine
  <2>4. Excused'
    BY <1>5, <1>8, <2>1 DEF StartResumed, Excused, Exists, FirstLine
  <2> QED
    BY <2>2, <2>3, <2>4
<1>6. CASE StartAtEnd
  <2>1. TypeOK'
    <3>1. offset' \in Nat /\ firstHash' \in Nat
      BY <1>1, <1>6 DEF StartAtEnd, NoHash
    <3>2. {old', lost'} \subseteq SUBSET (Nat \ {0})
      BY <1>6, <1>7 DEF StartAtEnd
    <3> QED
      BY <1>6, <3>1, <3>2, EmptyLog DEF StartAtEnd, TypeOK
  <2>2. Safe(offset)'
    BY <1>1, <1>6, <1>7 DEF StartAtEnd, Safe
  <2>3. saved.kind = "offset" => (gen = 1 => Safe(saved.offset)')
    BY <1>6, <1>7, <1>8 DEF StartAtEnd, Cursors, OnDisk, Safe
  <2>4. Cursors'
    BY <1>6, <2>2, <2>3 DEF StartAtEnd, Cursors, InMemory, InRead, OnDisk, NoHash, Safe
  <2>5. Excused'
    <3>1. gen = 1 => helpless
      BY <1>6 DEF StartAtEnd, Excused
    <3> QED
      BY <1>8, <3>1 DEF Excused, Exists, FirstLine
  <2> QED
    BY <2>1, <2>4, <2>5
<1> QED
  BY <1>4, <1>5, <1>6 DEF Start

\* Up to open(): the log is never shorter than the offset, and its first line never another.
LEMMA OpenKeeps ==
  WatcherInv /\ (PollSize \/ OpenFresh \/ OpenSame \/ OpenReplaced \/ OpenFails) => WatcherInv'
<1> SUFFICES ASSUME TypeOK, Cursors, Excused,
                    PollSize \/ OpenFresh \/ OpenSame \/ OpenReplaced \/ OpenFails
             PROVE  TypeOK' /\ Cursors' /\ Excused'
  BY DEF WatcherInv
<1> USE DEF Seek, fileVars, histVars
<1>1. lines \in Seq(Line) /\ (Exists => FirstLine \in Line)
  BY DEF TypeOK, Line, Exists, FirstLine
<1>8. pc # "down" /\ pc' # "down" /\ UNCHANGED <<lines, gen, saved, starts, lost, helpless>>
  BY DEF PollSize, OpenFresh, OpenSame, OpenReplaced, OpenFails
<1>9. Excused'
  BY <1>8 DEF Excused, Exists, FirstLine
<1>2. Safe(0)
  BY <1>1 DEF Safe
<1>3. CASE PollSize
  <2>1. TypeOK'
    BY <1>3 DEF PollSize, TypeOK, NoHash
  <2>2. gen = 1 => UNCHANGED <<offset, firstHash>>
    BY <1>1, <1>3 DEF PollSize, Cursors, InMemory, Safe, TypeOK
  <2>3. Cursors'
    BY <1>3, <2>2 DEF PollSize, Cursors, InMemory, InRead, OnDisk, Safe, Exists, FirstLine
  <2> QED
    BY <1>9, <2>1, <2>3
<1>4. CASE OpenFresh
  <2>1. TypeOK'
    BY <1>1, <1>4 DEF OpenFresh, TypeOK, Line
  <2>2. Cursors'
    BY <1>2, <1>4 DEF OpenFresh, Cursors, InMemory, InRead, OnDisk, Safe, Exists, FirstLine
  <2> QED
    BY <1>9, <2>1, <2>2
<1>5. CASE OpenSame
  <2>1. TypeOK'
    BY <1>5 DEF OpenSame, TypeOK
  <2>2. Cursors'
    BY <1>5 DEF OpenSame, Cursors, InMemory, InRead, OnDisk, Safe, Exists, FirstLine
  <2> QED
    BY <1>9, <2>1, <2>2
<1>6. CASE OpenReplaced
  <2>1. TypeOK'
    BY <1>6 DEF OpenReplaced, TypeOK
  <2>2. gen # 1
    BY <1>6 DEF OpenReplaced, Cursors, InMemory
  <2> QED
    BY <1>6, <1>9, <2>1, <2>2 DEF OpenReplaced, Cursors
<1>7. CASE OpenFails
  <2>1. TypeOK'
    BY <1>7 DEF OpenFails, TypeOK
  <2>2. Cursors'
    BY <1>7 DEF OpenFails, Cursors, InMemory, InRead, OnDisk, Safe, Exists, FirstLine
  <2> QED
    BY <1>9, <2>1, <2>2
<1> QED
  BY <1>3, <1>4, <1>5, <1>6, <1>7, <1>9

\* Reading: the callback is given the line that lies before the new position.
LEMMA ReadKeeps == WatcherInv /\ (Deliver \/ EndOfFile) => WatcherInv'
<1> SUFFICES ASSUME TypeOK, Cursors, Excused, Deliver \/ EndOfFile
             PROVE  TypeOK' /\ Cursors' /\ Excused'
  BY DEF WatcherInv
<1> USE DEF fileVars, histVars
<1>1. lines \in Seq(Line) /\ Text \in Seq(Line) /\ pos \in Nat
  BY DEF TypeOK, Line, Text
<1>2. CASE Deliver
  <2>1. pos + 1 \in 1..Len(Text) /\ Text[pos + 1] \in Line
    BY <1>1, <1>2 DEF Deliver
  <2>2. TypeOK'
    <3>1. delivered' \in Seq(Nat \ {0})
      BY <1>2, <2>1 DEF Deliver, TypeOK, Line
    <3>3. handled' \in SUBSET (Nat \ {0})
      BY <1>2, <2>1 DEF Deliver, TypeOK, Line
    <3>2. pos' \in Nat
      BY <1>1, <1>2 DEF Deliver
    <3> QED
      BY <1>2, <3>1, <3>2, <3>3 DEF Deliver, TypeOK
  <2>8. Excused'
    BY <1>2 DEF Deliver, Excused, Exists, FirstLine
  <2> SUFFICES ASSUME gen = 1 PROVE Cursors'
    BY <1>2, <2>2, <2>8 DEF Cursors, Deliver
  <2>3. Text = lines /\ Safe(pos)
    BY <1>2 DEF Deliver, Cursors, InRead, Text
  <2>4. Safe(pos)'
    BY <1>1, <1>2, <2>1, <2>3 DEF Deliver, Safe
  <2>5. ASSUME NEW o, Safe(o) PROVE o <= Len(lines)' /\ \A i \in 1..Len(lines)' : i <= o => lines'[i] \in handled' \cup old' \cup lost'
    BY <1>2, <2>5 DEF Deliver, Safe
  <2>6. InMemory' /\ InRead'
    BY <1>2, <2>4, <2>5 DEF Deliver, Cursors, InMemory, InRead, Safe, Exists, FirstLine
  <2>7. OnDisk'
    <3> SUFFICES ASSUME saved.kind = "offset" PROVE OnDisk'
      BY <1>2 DEF OnDisk, Deliver
    <3>1. saved.offset \in Nat /\ saved.offset <= pos
      BY <1>2 DEF TypeOK, NoFile, Torn, Deliver, Cursors, OnDisk
    <3> QED
      BY <1>1, <1>2, <2>5, <3>1 DEF Deliver, Cursors, OnDisk, Safe
  <2> QED
    BY <2>6, <2>7 DEF Cursors
<1>3. CASE EndOfFile
  <2>1. TypeOK'
    <3>1. saved' \in {NoFile, Torn} \/ saved' \in Position
      BY <1>1, <1>3 DEF EndOfFile, TypeOK, Saved, Position
    <3> QED
      BY <1>1, <1>3, <3>1, EmptyLog DEF EndOfFile, TypeOK, Position
  <2>5. Excused'
    BY <1>3 DEF EndOfFile, Excused, Saved, NoFile, Torn, Cursors, InMemory, Exists, FirstLine
  <2> SUFFICES ASSUME gen = 1 PROVE Cursors'
    BY <2>1, <2>5, <1>3 DEF Cursors, EndOfFile
  <2>2. Safe(pos) /\ Safe(offset)'
    BY <1>3 DEF EndOfFile, Cursors, InRead, Safe
  <2>3. InMemory' /\ InRead'
    BY <1>3, <2>2 DEF EndOfFile, Cursors, InMemory, InRead, Exists, FirstLine
  <2>4. OnDisk'
    <3>1. CASE due
      BY <1>1, <1>3, <2>2, <3>1 DEF EndOfFile, Saved, OnDisk, Safe
    <3>2. CASE ~due
      BY <1>1, <1>3, <3>2 DEF EndOfFile, Cursors, OnDisk, Safe
    <3> QED
      BY <3>1, <3>2
  <2> QED
    BY <2>3, <2>4 DEF Cursors
<1> QED
  BY <1>2, <1>3

\* Positions are saved and forgotten as they are; a torn file holds none.
LEMMA EndKeeps == WatcherInv /\ (PersistInterval \/ Stop \/ Crash \/ CrashPersisting) => WatcherInv'
<1> SUFFICES ASSUME TypeOK, Cursors, Excused, PersistInterval \/ Stop \/ Crash \/ CrashPersisting
             PROVE  TypeOK' /\ Cursors' /\ Excused'
  BY DEF WatcherInv
<1> USE DEF Ended, fileVars, histVars, Excused, Exists, FirstLine
<1>1. CASE PersistInterval
  <2>1. TypeOK'
    BY <1>1 DEF PersistInterval, TypeOK
  <2>2. Cursors'
    BY <1>1 DEF PersistInterval, Cursors, InMemory, InRead, OnDisk, Safe, Exists, FirstLine
  <2>3. Excused'
    BY <1>1 DEF PersistInterval
  <2> QED
    BY <2>1, <2>2, <2>3
<1>2. CASE Stop
  <2>1. TypeOK'
    BY <1>2 DEF Stop, TypeOK, Saved, NoHash
  <2>2. Cursors'
    BY <1>2 DEF Stop, Cursors, InMemory, InRead, OnDisk, Safe, Saved
  <2>3. Excused'
    BY <1>2 DEF Stop, Saved, NoFile, Torn, Cursors, InMemory
  <2> QED
    BY <2>1, <2>2, <2>3
<1>3. CASE Crash
  <2>1. TypeOK'
    BY <1>3 DEF Crash, TypeOK, NoHash
  <2>2. Cursors'
    BY <1>3 DEF Crash, Cursors, InMemory, InRead, OnDisk, Safe
  <2>3. Excused'
    BY <1>3 DEF Crash
  <2> QED
    BY <2>1, <2>2, <2>3
<1>4. CASE CrashPersisting
  <2>1. TypeOK'
    BY <1>4 DEF CrashPersisting, TypeOK, NoHash
  <2>2. Cursors'
    BY <1>4 DEF CrashPersisting, Cursors, InMemory, InRead, OnDisk, Torn
  <2>3. Excused'
    BY <1>4 DEF CrashPersisting, NoFile, Torn
  <2> QED
    BY <2>1, <2>2, <2>3
<1> QED
  BY <1>1, <1>2, <1>3, <1>4

\* What does nothing changes nothing.
LEMMA StutterKeeps == WatcherInv /\ UNCHANGED vars => WatcherInv'
BY DEF vars, fileVars, memVars, histVars, WatcherInv, TypeOK, Cursors, InMemory, InRead, OnDisk,
       Safe, Excused, Exists, FirstLine

\* Every step keeps the positions within the log.
LEMMA InvInductive == WatcherInv /\ [Next]_vars => WatcherInv'
BY WriteKeeps, ClearKeeps, StartKeeps, OpenKeeps, ReadKeeps, EndKeeps, StutterKeeps
   DEF Next, Poll

\* They are there in every reachable state.
LEMMA InvHolds == Spec => []WatcherInv
<1> QED
  BY InitWatcher, InvInductive, PTL DEF Spec

\* The watcher's variables keep their types; in particular .watcher-offset, when
\* it can be read, always has both an offset and a hash.
THEOREM TypeCorrect == Spec => []TypeOK
<1>1. WatcherInv => TypeOK
  BY DEF WatcherInv
<1> QED
  BY <1>1, InvHolds, PTL

\* Without a clear, no position goes beyond a line the callback was not given; and
\* no start passes over such a line, those older than the very first start
\* excepted, unless the process died before and left no readable .watcher-offset.
THEOREM NoLineSkipped == Spec => []NothingSkipped
<1>1. WatcherInv => NothingSkipped
  BY DEF WatcherInv, Cursors, InMemory, InRead, OnDisk, Safe, Excused, NothingSkipped
<1> QED
  BY <1>1, InvHolds, PTL

\* Without a clear, a line that .watcher-offset counts is not delivered again.
THEOREM SavedNotRepeated == Spec => RepeatsOnlyUnsaved
<1>1. WatcherInv => [(gen = 1 /\ Deliver /\ saved.kind = "offset") => pos >= saved.offset]_vars
  <2> SUFFICES ASSUME TypeOK, Cursors, gen = 1, Deliver, saved.kind = "offset"
               PROVE  pos >= saved.offset
    BY DEF WatcherInv
  <2>1. saved.offset \in Nat /\ pos \in Nat
    BY DEF TypeOK, NoFile, Torn
  <2> QED
    BY <2>1 DEF Cursors, OnDisk, Deliver
<1> QED
  BY <1>1, InvHolds, PTL DEF RepeatsOnlyUnsaved

-----------------------------------------------------------------------------
(* ---- order, whether the log is cleared or not ---------------------------- *)

Rising(s) == \A i, j \in 1..Len(s) : i < j => s[i] < s[j]
UpTo(s, n) == \A i \in 1..Len(s) : s[i] <= n
Before(s, t) == \A i \in 1..Len(s), j \in 1..Len(t) : s[i] < t[j]

\* What lies behind a position is newer than anything delivered ...
Ahead(s, o) == \A i \in 1..Len(delivered), j \in 1..Len(s) : o < j => delivered[i] < s[j]

\* ... and if the log is shorter than that, all of it is.
Placed(o) == Ahead(lines, o) /\ (o <= Len(lines) \/ Before(delivered, lines))

Numbered ==
  /\ Rising(lines) /\ Rising(unlinked)
  /\ UpTo(lines, written) /\ UpTo(unlinked, written) /\ UpTo(delivered, written)
  /\ openGen <= gen
  /\ openGen # gen => Before(unlinked, lines)

InPlace ==
  /\ pc \in {"idle", "open"} => Placed(offset)
  /\ pc = "read" =>
       IF openGen = gen THEN Placed(pos)
                        ELSE Ahead(unlinked, pos) /\ Before(delivered, lines)

OrderInv == Numbered /\ (~outrun => Rising(delivered) /\ InPlace)

\* Nothing is written, open or delivered.
LEMMA OrderInit == Init => OrderInv
BY DEF Init, OrderInv, Numbered, InPlace, Rising, UpTo, Before

\* A line newer than all of a rising sequence goes to its end.
LEMMA NewestLast ==
  ASSUME NEW s \in Seq(Nat), NEW d \in Nat, Rising(s), \A i \in 1..Len(s) : s[i] < d
  PROVE  Rising(Append(s, d))
<1> PICK n : n = Len(s)
  OBVIOUS
<1> PICK t : t = Append(s, d)
  OBVIOUS
<1>1. n \in Nat /\ Len(t) = n + 1 /\ t[n + 1] = d /\ \A i \in 1..n : t[i] = s[i]
  OBVIOUS
<1>2. \A i, j \in 1..n : i < j => s[i] < s[j]
  BY DEF Rising
<1>3. \A i \in 1..n : s[i] < d
  OBVIOUS
<1>4. ASSUME NEW i \in 1..(n + 1), NEW j \in 1..(n + 1), i < j PROVE t[i] < t[j]
  <2>1. i \in 1..n
    BY <1>1, <1>4
  <2>2. CASE j = n + 1
    BY <1>1, <1>3, <2>1, <2>2
  <2>3. CASE j # n + 1
    <3>1. j \in 1..n
      BY <1>1, <2>3
    <3> QED
      BY <1>1, <1>2, <1>4, <2>1, <3>1
  <2> QED
    BY <2>2, <2>3
<1> QED
  BY <1>1, <1>4 DEF Rising

\* What is written is newer than all that was.
LEMMA OrderWrite == TypeOK /\ OrderInv /\ Write => OrderInv'
<1> SUFFICES ASSUME TypeOK, OrderInv, Write PROVE OrderInv'
  OBVIOUS
<1> USE DEF Write, memVars, histVars
<1>1. /\ lines \in Seq(Line) /\ written \in Nat /\ \A i \in 1..Len(lines) : lines[i] \in Nat
      /\ unlinked \in Seq(Line) /\ \A i \in 1..Len(unlinked) : unlinked[i] \in Nat
      /\ delivered \in Seq(Line) /\ \A i \in 1..Len(delivered) : delivered[i] \in Nat
      /\ offset \in Nat /\ pos \in Nat
  BY DEF TypeOK, Line
<1>2. /\ Len(lines') = Len(lines) + 1 /\ lines'[Len(lines) + 1] = written + 1
      /\ \A i \in 1..Len(lines) : lines'[i] = lines[i]
  BY <1>1
<1>3. Rising(lines) /\ UpTo(lines, written) /\ UpTo(unlinked, written) /\ UpTo(delivered, written)
  BY DEF OrderInv, Numbered
<1>4. ASSUME NEW s \in Seq(Line), \A i \in 1..Len(s) : s[i] \in Nat, UpTo(s, written)
      PROVE  UpTo(s, written') /\ (Before(s, lines) => Before(s, lines'))
  <2>1. \A i \in 1..Len(s) : s[i] <= written
    BY <1>4 DEF UpTo
  <2> QED
    BY <1>1, <1>2, <1>4, <2>1 DEF UpTo, Before
<1>5. Rising(lines') /\ UpTo(lines', written')
  <2>1. \A i \in 1..Len(lines) : lines[i] <= written
    BY <1>3 DEF UpTo
  <2>2. \A i \in 1..Len(lines) : lines[i] < written + 1
    BY <1>1, <2>1
  <2>3. lines \in Seq(Nat) /\ written + 1 \in Nat /\ lines' = Append(lines, written + 1)
    BY DEF TypeOK
  <2>4. Rising(lines')
    BY <1>3, <2>2, <2>3, NewestLast
  <2>5. UpTo(lines', written')
    BY <1>1, <1>2, <2>1 DEF UpTo
  <2> QED
    BY <2>4, <2>5
<1>6. Numbered'
  BY <1>1, <1>3, <1>4, <1>5 DEF OrderInv, Numbered
<1>7. ASSUME NEW o \in Nat, Ahead(lines, o) PROVE Ahead(lines, o)'
  BY <1>1, <1>2, <1>3, <1>7 DEF Ahead, UpTo
<1>8. ASSUME NEW o \in Nat, Placed(o) PROVE Placed(o)'
  BY <1>1, <1>2, <1>3, <1>4, <1>7, <1>8 DEF Placed
<1>9. InPlace => InPlace'
  BY <1>1, <1>3, <1>4, <1>8 DEF InPlace, Ahead
<1> QED
  BY <1>6, <1>9 DEF OrderInv

\* What is cleared is older than all that is still to come.
LEMMA OrderClear == TypeOK /\ OrderInv /\ Clear => OrderInv'
<1> SUFFICES ASSUME TypeOK, OrderInv, Clear PROVE OrderInv'
  OBVIOUS
<1> USE DEF Clear, histVars
<1>1. lines' = <<>> /\ Len(lines') = 0 /\ gen \in Nat /\ openGen \in Nat
  BY DEF TypeOK
<1>2. \A s : Before(s, lines') /\ Rising(lines') /\ UpTo(lines', written)
  BY <1>1 DEF Before, Rising, UpTo
<1>3. Numbered'
  BY <1>1, <1>2 DEF OrderInv, Numbered
<1>4. \A o : Placed(o)'
  BY <1>1, <1>2 DEF Placed, Ahead
<1>5. openGen' # gen'
  BY <1>1 DEF OrderInv, Numbered
<1>6. InPlace => InPlace'
  <2> SUFFICES ASSUME InPlace, pc = "read" PROVE Ahead(unlinked, pos)' /\ Before(delivered, lines')
    BY <1>4, <1>5 DEF InPlace
  <2>1. CASE openGen = gen
    BY <1>2, <2>1 DEF InPlace, Placed, Ahead
  <2>2. CASE openGen # gen
    BY <1>2, <2>2 DEF InPlace, Ahead
  <2> QED
    BY <2>1, <2>2
<1> QED
  BY <1>3, <1>6 DEF OrderInv

\* The steps that neither write, read nor clear.
LEMMA OrderSeeks ==
  ASSUME TypeOK, OrderInv, UNCHANGED <<fileVars, outrun>>,
         \/ delivered' = delivered
         \/ delivered' = <<>>,
         \/ unlinked' = unlinked /\ openGen' = openGen
         \/ unlinked' = unlinked /\ openGen' = gen
         \/ unlinked' = <<>> /\ openGen' = 0,
         ~outrun => InPlace'
  PROVE  OrderInv'
<1> USE DEF fileVars
<1>1. \A s : UpTo(<<>>, written) /\ Rising(<<>>) /\ Before(<<>>, s)
  BY DEF UpTo, Rising, Before
<1>2. gen \in Nat
  BY DEF TypeOK
<1>3. Numbered'
  BY <1>1, <1>2 DEF OrderInv, Numbered
<1> QED
  BY <1>1, <1>3 DEF OrderInv

\* A position that nothing was delivered to yet, or that the log was cleared before.
LEMMA Beginnings ==
  ASSUME TypeOK
  PROVE  /\ delivered = <<>> => \A o : Placed(o)
         /\ \A o \in Nat : Placed(o) /\ Len(lines) < o => Placed(0)
         /\ Placed(0) => Before(delivered, lines)
<1>1. Len(lines) \in Nat /\ Len(delivered) \in Nat
  BY DEF TypeOK
<1>2. delivered = <<>> => \A o : Placed(o)
  BY <1>1 DEF Placed, Ahead, Before
<1>3. Before(delivered, lines) <=> Ahead(lines, 0)
  BY <1>1 DEF Before, Ahead
<1> QED
  BY <1>1, <1>2, <1>3 DEF Placed

\* Starts, stops and what happens up to open().
LEMMA OrderMoves ==
  ASSUME TypeOK, OrderInv,
         \/ Start \/ PollSize \/ OpenFresh \/ OpenSame \/ OpenFails
         \/ PersistInterval \/ Stop \/ Crash \/ CrashPersisting
  PROVE  OrderInv'
<1> USE DEF fileVars, histVars
<1>1. ASSUME NEW o, UNCHANGED <<lines, delivered>> PROVE Placed(o)' <=> Placed(o)
  BY <1>1 DEF Placed, Ahead, Before
<1>2. offset \in Nat /\ (~outrun => InPlace)
  BY DEF OrderInv, TypeOK
<1>3. CASE Start
  <2>1. pc' = "idle" /\ delivered' = <<>> /\ lines' = lines /\ Len(delivered') = 0
    BY <1>3 DEF Start, StartFirst, StartResumed, StartAtEnd, Started
  <2>2. Before(delivered', lines') /\ Ahead(lines, offset)'
    BY <2>1 DEF Before, Ahead
  <2>3. InPlace'
    BY <2>1, <2>2 DEF InPlace, Placed
  <2> QED
    BY <1>3, <2>1, <2>3, OrderSeeks DEF Start, StartFirst, StartResumed, StartAtEnd, Started
<1>4. CASE PollSize
  <2>1. ~outrun => Placed(offset)'
    BY <1>1, <1>2, <1>4, Beginnings DEF PollSize, InPlace, TypeOK
  <2> QED
    BY <1>4, <2>1, OrderSeeks DEF PollSize, InPlace
<1>5. CASE OpenFresh \/ OpenSame
  <2>1. UNCHANGED <<lines, delivered, offset>> /\ pos' = offset /\ openGen' = gen /\ gen' = gen
        /\ pc' = "read" /\ pc = "open"
    BY <1>5 DEF OpenFresh, OpenSame, Seek
  <2>2. ~outrun => Placed(pos)'
    BY <1>1, <1>2, <2>1 DEF InPlace
  <2> QED
    BY <1>5, <2>1, <2>2, OrderSeeks DEF OpenFresh, OpenSame, Seek, InPlace
<1>6. CASE OpenFails
  <2>1. ~outrun => Placed(offset)'
    BY <1>1, <1>2, <1>6 DEF OpenFails, InPlace
  <2> QED
    BY <1>6, <2>1, OrderSeeks DEF OpenFails, InPlace
<1>7. CASE PersistInterval
  <2>1. ~outrun => InPlace'
    BY <1>2, <1>7 DEF PersistInterval, InPlace, Placed, Ahead, Before
  <2> QED
    BY <1>7, <2>1, OrderSeeks DEF PersistInterval
<1>8. CASE Stop \/ Crash \/ CrashPersisting
  <2>1. pc' = "down"
    BY <1>8 DEF Stop, Crash, CrashPersisting, Ended
  <2> QED
    BY <1>8, <2>1, OrderSeeks DEF Stop, Crash, CrashPersisting, Ended, InPlace
<1> QED
  BY <1>3, <1>4, <1>5, <1>6, <1>7, <1>8

\* A replaced file that was long enough ends what is claimed.
LEMMA OrderReplaced == TypeOK /\ OrderInv /\ OpenReplaced => OrderInv'
<1> SUFFICES ASSUME TypeOK, OrderInv, OpenReplaced PROVE Numbered' /\ outrun'
  BY DEF OrderInv
<1> QED
  BY DEF OpenReplaced, Seek, fileVars, OrderInv, Numbered, TypeOK

\* A line delivered is newer than those before it and older than those behind it.
LEMMA OrderDeliver == TypeOK /\ OrderInv /\ Deliver => OrderInv'
<1> SUFFICES ASSUME TypeOK, OrderInv, Deliver PROVE OrderInv'
  OBVIOUS
<1> USE DEF Deliver, fileVars
<1>1. /\ pos \in Nat /\ pos + 1 \in 1..Len(Text) /\ Len(Text) \in Nat /\ Len(delivered) \in Nat
      /\ \A i \in 1..Len(Text) : Text[i] \in Nat
      /\ \A i \in 1..Len(delivered) : delivered[i] \in Nat
  <2>1. delivered \in Seq(Line) /\ Text \in Seq(Line) /\ pos \in Nat
    BY DEF TypeOK, Line, Text
  <2> QED
    BY <2>1 DEF Line
<1> PICK d : d = Text[pos + 1]
  OBVIOUS
<1>2. /\ Len(delivered') = Len(delivered) + 1 /\ delivered'[Len(delivered) + 1] = d
      /\ \A i \in 1..Len(delivered) : delivered'[i] = delivered[i]
  <2>1. delivered \in Seq(Nat \ {0})
    BY DEF TypeOK
  <2> QED
    BY <2>1
<1>3. UpTo(Text, written) /\ Rising(Text)
  BY DEF OrderInv, Numbered, Text
<1>4. UpTo(delivered', written)
  BY <1>1, <1>2, <1>3 DEF UpTo, OrderInv, Numbered
<1>5. Numbered'
  BY <1>4 DEF OrderInv, Numbered
<1>6. ASSUME ~outrun PROVE Rising(delivered') /\ InPlace'
  <2>1. InPlace /\ Rising(delivered)
    BY <1>6 DEF OrderInv
  <2>2. Ahead(Text, pos)
    BY <2>1 DEF InPlace, Placed, Text
  <2>3. \A i \in 1..Len(delivered) : delivered[i] < d
    BY <1>1, <2>2 DEF Ahead
  <2>4. Rising(delivered')
    <3>1. delivered \in Seq(Nat) /\ d \in Nat /\ delivered' = Append(delivered, d)
      BY <1>1 DEF TypeOK
    <3> QED
      BY <2>1, <2>3, <3>1, NewestLast
  <2>5. \A j \in 1..Len(Text) : pos + 1 < j => d < Text[j]
    BY <1>1, <1>3 DEF Rising
  <2>6. \A i \in 1..Len(delivered'), j \in 1..Len(Text) : pos + 1 < j => delivered'[i] < Text[j]
    BY <1>1, <1>2, <2>2, <2>5 DEF Ahead
  <2>0. /\ pc' = "read" /\ openGen' = openGen /\ gen' = gen /\ pos' = pos + 1
        /\ lines' = lines /\ unlinked' = unlinked
    OBVIOUS
  <2> HIDE DEF Deliver, fileVars
  <2>7. CASE openGen = gen
    <3>1. Text = lines /\ Ahead(lines, pos)'
      BY <2>0, <2>6, <2>7 DEF Text, Ahead
    <3>2. pos' <= Len(lines')
      BY <1>1, <2>0, <3>1
    <3>3. Placed(pos)'
      BY <3>1, <3>2 DEF Placed
    <3> QED
      BY <2>0, <2>4, <2>7, <3>3 DEF InPlace
  <2>8. CASE openGen # gen
    <3>1. Text = unlinked /\ Ahead(unlinked, pos)'
      BY <2>0, <2>6, <2>8 DEF Text, Ahead
    <3>2. Before(delivered, lines) /\ \A j \in 1..Len(lines) : d < lines[j]
      <4>1. Before(delivered, lines)
        BY <2>0, <2>1, <2>8, Deliver DEF InPlace, Deliver
      <4>2. Before(unlinked, lines)
        BY <2>8 DEF OrderInv, Numbered
      <4>3. pos + 1 \in 1..Len(unlinked) /\ d = unlinked[pos + 1]
        BY <1>1, <3>1
      <4> QED
        BY <4>1, <4>2, <4>3 DEF Before
    <3>3. Before(delivered', lines')
      BY <1>2, <2>0, <3>2 DEF Before
    <3> QED
      BY <2>0, <2>4, <2>8, <3>1, <3>3 DEF InPlace
  <2> QED
    BY <2>4, <2>7, <2>8
<1> QED
  BY <1>5, <1>6 DEF OrderInv

\* The position at the end of the file, if it is still there, is where to go on.
LEMMA OrderEndOfFile == TypeOK /\ OrderInv /\ EndOfFile => OrderInv'
<1> SUFFICES ASSUME TypeOK, OrderInv, EndOfFile PROVE OrderInv'
  OBVIOUS
<1> USE DEF EndOfFile, fileVars, histVars
<1>1. ~outrun => Placed(pos)
  <2> SUFFICES ASSUME InPlace PROVE Placed(pos)
    BY DEF OrderInv
  <2>1. CASE openGen # gen
    BY <2>1 DEF InPlace, Placed, Ahead, Before
  <2>2. CASE openGen = gen
    BY <2>2 DEF InPlace
  <2> QED
    BY <2>1, <2>2
<1>2. ~outrun => InPlace'
  BY <1>1 DEF InPlace, Placed, Ahead, Before
<1> QED
  BY <1>2, OrderSeeks

\* Every step keeps the order.
LEMMA OrderNext == TypeOK /\ OrderInv /\ [Next]_vars => OrderInv'
<1> SUFFICES ASSUME TypeOK, OrderInv, [Next]_vars PROVE OrderInv'
  OBVIOUS
<1>1. CASE UNCHANGED vars
  BY <1>1 DEF vars, fileVars, memVars, histVars, OrderInv, Numbered, InPlace, Placed, Ahead, Before
<1> QED
  BY <1>1, OrderWrite, OrderClear, OrderMoves, OrderReplaced, OrderDeliver, OrderEndOfFile
     DEF Next, Poll

\* Whatever is cleared, and however often the watcher is amid a poll meanwhile, it
\* delivers no line twice or after a newer one - until it finds, where it
\* expected the old file, a new one that is no shorter.
THEOREM DeliveredInOrder == Spec => []InOrderOnce
<1>1. OrderInv => InOrderOnce
  BY DEF OrderInv, InOrderOnce, Rising
<1> QED
  BY <1>1, TypeCorrect, OrderInit, OrderNext, PTL DEF Spec
=============================================================================
