---------------------------- MODULE AuditWatcher ----------------------------
(***************************************************************************)
(* src/hermes_aegis/reactive/watcher.py: AuditFileWatcher tails            *)
(* audit.jsonl and hands every new entry to the reactive manager.  It      *)
(* remembers how far it got in memory (_offset, _first_line_hash) and, now *)
(* and then, in the file .watcher-offset.  The log under it grows, may be  *)
(* cleared and grow again, and the watcher's process may stop or die at    *)
(* any step and be started again.                                          *)
(*                                                                         *)
(* A line is a number never used before; the hash of a first line is the   *)
(* line.  Offsets count lines instead of bytes.                            *)
(***************************************************************************)
EXTENDS Naturals, Sequences, FiniteSets

CONSTANTS MaxLines,      \* bound: lines ever written
          MaxClears,     \* bound: `audit clear` runs
          MaxStarts      \* bound: starts of the watcher

ASSUME BoundAssumption == {MaxLines, MaxClears, MaxStarts} \subseteq Nat

VARIABLES
  lines,       \* audit.jsonl; <<>> when it does not exist
  gen,         \* its incarnation
  written,     \* lines written so far, in all incarnations
  offset,      \* _offset
  firstHash,   \* _first_line_hash, NoHash for ""
  due,         \* more than PERSIST_INTERVAL since _last_persist
  pc,          \* where the watcher thread is
  pos,         \* position of the open file
  openGen,     \* the incarnation the open file belongs to, 0 when none is open
  unlinked,    \* contents of the open file after it was unlinked
  saved,       \* .watcher-offset
  starts,      \* starts of the watcher so far
  delivered,   \* history: lines given to the callback since the last start
  handled,     \* history: lines given to the callback, ever
  old,         \* history: lines that were there at the very first start
  lost,        \* history: other lines not delivered that a start passed over
  helpless,    \* history: the process died and left no readable .watcher-offset
  outrun       \* history: a replaced file was as long as the old one, or
               \* longer, when it was noticed

fileVars == <<lines, gen, written>>
memVars == <<offset, firstHash, due, pc, pos, openGen, unlinked>>
histVars == <<delivered, handled, old, lost, helpless, outrun>>
vars == <<fileVars, memVars, saved, starts, histVars>>

-----------------------------------------------------------------------------
NoHash == 0
NoFile == [kind |-> "none"]
Torn == [kind |-> "torn"]         \* truncated, not yet rewritten
Saved(o, h) == [kind |-> "offset", offset |-> o, hash |-> h]

Exists == lines # <<>>
FirstLine == Head(lines)
Text == IF openGen = gen THEN lines ELSE unlinked
LinesOf(s) == { s[i] : i \in 1..Len(s) }

Init ==
  /\ lines = <<>> /\ gen = 1 /\ written = 0
  /\ offset = 0 /\ firstHash = NoHash /\ due = TRUE
  /\ pc = "down" /\ pos = 0 /\ openGen = 0 /\ unlinked = <<>>
  /\ saved = NoFile /\ starts = 0
  /\ delivered = <<>> /\ handled = {} /\ outrun = FALSE
  /\ old = {} /\ lost = {} /\ helpless = FALSE

(* ---- the log ----------------------------------------------------------- *)

\* AuditTrail.log() by some writer.
Write ==
  /\ written < MaxLines
  /\ written' = written + 1
  /\ lines' = Append(lines, written + 1)
  /\ UNCHANGED <<gen, memVars, saved, starts, histVars>>

\* `audit clear` unlinks the file; a watcher that has it open reads on.
Clear ==
  /\ Exists /\ gen <= MaxClears
  /\ lines' = <<>> /\ gen' = gen + 1
  /\ unlinked' = IF openGen = gen THEN lines ELSE unlinked
  /\ UNCHANGED <<written, offset, firstHash, due, pc, pos, openGen, saved, starts, histVars>>

(* ---- start: _load_offset ----------------------------------------------- *)

Started(o, h) ==
  /\ pc = "down" /\ starts < MaxStarts
  /\ starts' = starts + 1
  /\ offset' = o /\ firstHash' = h /\ due' = TRUE
  /\ pc' = "idle"
  /\ delivered' = <<>>
  /\ UNCHANGED <<fileVars, pos, openGen, unlinked, saved, handled, helpless, outrun>>

\* The log's end as the place to start from: what nobody was given is lost,
\* unless it is older than the watcher's first start.
PassOver ==
  /\ old' = IF starts = 0 THEN LinesOf(lines) ELSE old
  /\ lost' = lost \cup (LinesOf(lines) \ (handled \cup old'))

\* "Seek to end on first start", which is any start without .watcher-offset.
StartFirst ==
  /\ saved = NoFile
  /\ Started(Len(lines), IF Exists THEN FirstLine ELSE NoHash)
  /\ PassOver

\* The saved position, when no hash was saved or the first line is the same.
StartResumed ==
  /\ saved.kind = "offset"
  /\ saved.hash = NoHash \/ (Exists /\ saved.hash = FirstLine)
  /\ Started(saved.offset, saved.hash)
  /\ UNCHANGED <<old, lost>>

\* Another first line, or an unreadable .watcher-offset: from the end, and
\* without a hash.
StartAtEnd ==
  /\ \/ saved = Torn
     \/ saved.kind = "offset" /\ saved.hash # NoHash
        /\ (Exists => saved.hash # FirstLine)
  /\ Started(Len(lines), NoHash)
  /\ PassOver

(* ---- _poll_once -------------------------------------------------------- *)

\* Faulty variant: off by one, a single new line is not worth a look.
PollSizeByTwo ==
  /\ pc = "idle" /\ Exists
  /\ Len(lines) # offset /\ Len(lines) # offset + 1
  /\ IF Len(lines) < offset
       THEN offset' = 0 /\ firstHash' = NoHash
       ELSE UNCHANGED <<offset, firstHash>>
  /\ pc' = "open"
  /\ UNCHANGED <<fileVars, due, pos, openGen, unlinked, saved, starts, histVars>>

\* The size decides: shorter than before means rotated, the same means idle.
PollSize ==
  /\ pc = "idle" /\ Exists
  /\ Len(lines) # offset
  /\ IF Len(lines) < offset
       THEN offset' = 0 /\ firstHash' = NoHash
       ELSE UNCHANGED <<offset, firstHash>>
  /\ pc' = "open"
  /\ UNCHANGED <<fileVars, due, pos, openGen, unlinked, saved, starts, histVars>>

\* Faulty variant: the position is not sought.
SeekNot(o) ==
  /\ pc' = "read" /\ pos' = 0 /\ openGen' = gen
  /\ UNCHANGED <<fileVars, due, unlinked, saved, starts, delivered, handled, old, lost, helpless>>

Seek(o) ==
  /\ pc' = "read" /\ pos' = o /\ openGen' = gen
  /\ UNCHANGED <<fileVars, due, unlinked, saved, starts, delivered, handled, old, lost, helpless>>

\* open(), then the first line is compared with the one remembered.
OpenFresh ==
  /\ pc = "open" /\ Exists /\ offset = 0
  /\ firstHash' = FirstLine
  /\ Seek(0)
  /\ UNCHANGED <<offset, outrun>>

OpenSame ==
  /\ pc = "open" /\ Exists /\ offset > 0
  /\ firstHash = NoHash \/ firstHash = FirstLine
  /\ Seek(offset)
  /\ UNCHANGED <<offset, firstHash, outrun>>

\* "file replaced, resetting": the offset is reset, _first_line_hash is not.
OpenReplaced ==
  /\ pc = "open" /\ Exists /\ offset > 0
  /\ firstHash # NoHash /\ firstHash # FirstLine
  /\ offset' = 0
  /\ Seek(0)
  /\ outrun' = TRUE
  /\ UNCHANGED firstHash

\* The file went away after the stat(): open() raises, _run goes on.
OpenFails ==
  /\ pc = "open" /\ ~Exists
  /\ pc' = "idle"
  /\ UNCHANGED <<fileVars, offset, firstHash, due, pos, openGen, unlinked, saved, starts, histVars>>

\* One line to the callback; what the callback raises is swallowed.
Deliver ==
  /\ pc = "read" /\ pos < Len(Text)
  /\ delivered' = Append(delivered, Text[pos + 1])
  /\ handled' = handled \cup {Text[pos + 1]}
  /\ pos' = pos + 1
  /\ UNCHANGED <<fileVars, offset, firstHash, due, pc, openGen, unlinked, saved, starts, old, lost, helpless, outrun>>

\* Faulty variant: the size at the end of the poll instead of the position
\* reached, as if nothing was written meanwhile.
EndOfFileSize ==
  /\ pc = "read"
  /\ offset' = Len(lines)
  /\ saved' = IF due THEN Saved(offset', firstHash) ELSE saved
  /\ due' = FALSE
  /\ pc' = "idle" /\ pos' = 0 /\ openGen' = 0 /\ unlinked' = <<>>
  /\ UNCHANGED <<fileVars, firstHash, starts, histVars>>

\* End of file: _offset = f.tell(), and .watcher-offset when it is due.
EndOfFile ==
  /\ pc = "read" /\ pos >= Len(Text)
  /\ offset' = pos
  /\ saved' = IF due THEN Saved(pos, firstHash) ELSE saved
  /\ due' = FALSE
  /\ pc' = "idle" /\ pos' = 0 /\ openGen' = 0 /\ unlinked' = <<>>
  /\ UNCHANGED <<fileVars, firstHash, starts, histVars>>

PersistInterval ==
  /\ pc # "down" /\ ~due
  /\ due' = TRUE
  /\ UNCHANGED <<fileVars, offset, firstHash, pc, pos, openGen, unlinked, saved, starts, histVars>>

(* ---- the end of the process -------------------------------------------- *)

Ended ==
  /\ pc # "down" /\ pc' = "down"
  /\ offset' = 0 /\ firstHash' = NoHash /\ due' = TRUE
  /\ pos' = 0 /\ openGen' = 0 /\ unlinked' = <<>>
  /\ UNCHANGED <<fileVars, starts, delivered, handled, old, lost, outrun>>

\* stop(): joins the thread for five seconds, so it may still be amid a poll,
\* and persists the offset as it is.
Stop ==
  /\ Ended
  /\ saved' = Saved(offset, firstHash)
  /\ UNCHANGED helpless

Crash ==
  /\ Ended
  /\ helpless' = (helpless \/ saved = NoFile)
  /\ UNCHANGED saved

\* The process dies inside write_text(), at the end of a poll or in stop():
\* the file is truncated, no more.
CrashPersisting ==
  /\ Ended
  /\ saved' = Torn
  /\ helpless' = TRUE

-----------------------------------------------------------------------------
Poll == PollSize \/ OpenFresh \/ OpenSame \/ OpenReplaced \/ OpenFails
          \/ Deliver \/ EndOfFile
Start == StartFirst \/ StartResumed \/ StartAtEnd

Next ==
  \/ Write \/ Clear
  \/ Start \/ Poll \/ PersistInterval
  \/ Stop \/ Crash \/ CrashPersisting

Spec == Init /\ [][Next]_vars

\* _run polls every second for as long as its process lives; nothing obliges
\* anybody to start it again, or to write.
FairSpec == Spec /\ WF_vars(Poll)

-----------------------------------------------------------------------------
\* Every variable has its type; .watcher-offset, when it is readable, always
\* holds both an offset and a hash.
TypeOK ==
  /\ lines \in Seq(Nat \ {0}) /\ gen \in Nat \ {0} /\ written \in Nat
  /\ offset \in Nat /\ firstHash \in Nat /\ due \in BOOLEAN
  /\ pc \in {"down", "idle", "open", "read"} /\ pos \in Nat
  /\ openGen \in Nat /\ unlinked \in Seq(Nat \ {0})
  /\ \/ saved \in {NoFile, Torn}
     \/ saved \in [kind : {"offset"}, offset : Nat, hash : Nat]
  /\ starts \in Nat /\ delivered \in Seq(Nat \ {0})
  /\ {handled, old, lost} \subseteq SUBSET (Nat \ {0})
  /\ {helpless, outrun} \subseteq BOOLEAN

Distinct(s) == \A i, j \in 1..Len(s) : s[i] = s[j] => i = j

\* Between two restarts the callback sees a line at most once, in the order
\* of the file, as long as every replaced file was noticed while shorter than
\* the old one.
InOrderOnce ==
  ~outrun => \A i, j \in 1..Len(delivered) : i < j => delivered[i] < delivered[j]

\* Unless the log is cleared, no position the watcher may resume from, in
\* memory or in .watcher-offset, lies beyond a line the callback has not been
\* given; and no start passes over such a line, those older than the very first
\* start excepted, unless the process once died and left no .watcher-offset, or
\* a torn one.  (A crash between two persists repeats lines, it never loses one;
\* a crash before the first persist, or inside one, may.)
NothingSkipped ==
  gen = 1 =>
    LET safe(o) == \A i \in 1..Len(lines) : i <= o => lines[i] \in handled \cup old \cup lost
    IN /\ ~helpless => lost = {}
       /\ pc # "down" => safe(offset)
       /\ pc = "read" => safe(pos)
       /\ saved.kind = "offset" => safe(saved.offset)

\* Unless the log is cleared, what is repeated after a restart is at most what
\* was delivered since .watcher-offset was last written.
RepeatsOnlyUnsaved ==
  [][(gen = 1 /\ Deliver /\ saved.kind = "offset") => pos >= saved.offset]_vars

\* Unless the log is cleared, a watcher that is left running hands every line
\* to the callback, those written while it was down included, except what a
\* start passed over (NothingSkipped says when).
EveryLineHandled ==
  \A n \in 1..MaxLines :
    (gen = 1 /\ n \in LinesOf(lines))
      ~> (n \in handled \cup old \cup lost \/ pc = "down" \/ gen # 1)

\* AuditFileWatcher: "Tail an append-only JSONL audit file and call back on
\* new entries".
OnlyNewEntries == Distinct(delivered)
=============================================================================
