----------------------------- MODULE AuditTrail -----------------------------
(***************************************************************************)
(* src/hermes_aegis/audit/trail.py: the file-backed, hash-chained audit    *)
(* log, with every writer that shares ~/.hermes-aegis/audit.jsonl.         *)
(*                                                                         *)
(* An Instance is an AuditTrail object (the proxy's, the reactive          *)
(* manager's, that of an `audit event` process).  A Thread runs log() on   *)
(* the instance Home says: the reactive manager's two pool threads and its *)
(* watcher thread share one object.  log() takes no lock, so its steps     *)
(* interleave with those of the other threads and with `audit clear`.      *)
(*                                                                         *)
(* A SHA-256 digest is a number never used before; 0 is the empty string.  *)
(* (st_size, st_mtime_ns) is the incarnation of the file and its length in *)
(* lines: an append changes the length, and a file made after an unlink is *)
(* another incarnation.                                                    *)
(***************************************************************************)
EXTENDS Integers, Sequences, FiniteSets

CONSTANTS Thread, Instance,
          Home,          \* the instance on which a thread calls log()
          MaxEntries,    \* bound: entries created in a behaviour
          MaxClears      \* bound: completed `audit clear` runs

ASSUME ThreadAssumption == IsFiniteSet(Thread)
ASSUME HomeAssumption == Home \in [Thread -> Instance]
ASSUME BoundAssumption == MaxEntries \in Nat /\ MaxClears \in Nat

VARIABLES
  lines,      \* audit.jsonl, line by line; <<>> when the file does not exist
  gen,        \* the incarnation of audit.jsonl
  archived,   \* lines in the archives made by `audit clear`
  clearing,   \* the clear process has its archive and will unlink the file
  cache,      \* [Instance -> _last_hash_cache]
  sig,        \* [Instance -> _last_stat_signature]
  pc,         \* [Thread -> the next step of log()]
  seen,       \* [Thread -> current_signature, local to _get_last_hash]
  entry,      \* [Thread -> the AuditEntry under construction]
  nextHash,   \* the next digest
  overlaps    \* history: appends and unlinks that hit another log() midway

vars == <<lines, gen, archived, clearing, cache, sig, pc, seen, entry,
          nextHash, overlaps>>

-----------------------------------------------------------------------------
Cold  == -1                  \* _last_hash_cache is None
NoSig == <<0, 0>>            \* _last_stat_signature is None
NoEntry == [id |-> 0, prev |-> 0]

Digest == Nat \ {0}

Chain == INSTANCE HashChain WITH chain <- lines, Hash <- 1..MaxEntries

TailHash == Chain!LastHash(lines)
Stat == <<gen, Len(lines)>>
Exists == lines # <<>>

Steps == {"idle", "absent", "stat", "read", "sign", "append", "refresh", "restat"}

\* A log() between learning the tail and recording the signature after its
\* own write: the file must not change under it.
InWindow(t) == pc[t] \in {"absent", "sign", "append", "refresh", "restat"}

MidLog(T) == Cardinality({u \in T : InWindow(u)})

Goto(t, step) == pc' = [pc EXCEPT ![t] = step]

-----------------------------------------------------------------------------
Init ==
  /\ lines = <<>> /\ gen = 1 /\ archived = {} /\ clearing = FALSE
  /\ cache = [i \in Instance |-> Cold]
  /\ sig = [i \in Instance |-> NoSig]
  /\ pc = [t \in Thread |-> "idle"]
  /\ seen = [t \in Thread |-> NoSig]
  /\ entry = [t \in Thread |-> NoEntry]
  /\ nextHash = 1 /\ overlaps = 0

(* ---- _get_last_hash ---------------------------------------------------- *)

\* log() begins, unless MaxEntries are made; `not self._path.exists()` decides
\* the branch.
Log(t) ==
  /\ pc[t] = "idle"
  /\ nextHash <= MaxEntries
  /\ Goto(t, IF Exists THEN "stat" ELSE "absent")
  /\ UNCHANGED <<lines, gen, archived, clearing, cache, sig, seen, entry, nextHash, overlaps>>

\* Faulty variant: links to the last digest computed, not the last on file.
ConstructOnLatest(t, prev) ==
  /\ nextHash <= MaxEntries
  /\ entry' = [entry EXCEPT ![t] = [id |-> nextHash, prev |-> nextHash - 1]]
  /\ nextHash' = nextHash + 1
  /\ Goto(t, "append")

\* The hash of the new entry is fixed as soon as prev_hash is known.
Construct(t, prev) ==
  /\ nextHash <= MaxEntries
  /\ entry' = [entry EXCEPT ![t] = [id |-> nextHash, prev |-> prev]]
  /\ nextHash' = nextHash + 1
  /\ Goto(t, "append")

\* No file: the cache says "empty", with no signature.
Absent(t) ==
  /\ pc[t] = "absent"
  /\ cache' = [cache EXCEPT ![Home[t]] = 0]
  /\ sig' = [sig EXCEPT ![Home[t]] = NoSig]
  /\ Construct(t, 0)
  /\ UNCHANGED <<lines, gen, archived, clearing, seen, overlaps>>

\* Faulty variants: any cached hash will do; a signature of the size alone.
StatHitAlways(t) ==
  /\ pc[t] = "stat" /\ Exists
  /\ cache[Home[t]] # Cold
  /\ Construct(t, cache[Home[t]])
  /\ UNCHANGED <<lines, gen, archived, clearing, cache, sig, seen, overlaps>>

StatHitBySize(t) ==
  /\ pc[t] = "stat" /\ Exists
  /\ cache[Home[t]] # Cold /\ sig[Home[t]][2] = Len(lines)
  /\ Construct(t, cache[Home[t]])
  /\ UNCHANGED <<lines, gen, archived, clearing, cache, sig, seen, overlaps>>

\* stat(): the cache is used while the signature is the recorded one.
StatHit(t) ==
  /\ pc[t] = "stat" /\ Exists
  /\ cache[Home[t]] # Cold /\ sig[Home[t]] = Stat
  /\ Construct(t, cache[Home[t]])
  /\ UNCHANGED <<lines, gen, archived, clearing, cache, sig, seen, overlaps>>

StatMiss(t) ==
  /\ pc[t] = "stat" /\ Exists
  /\ cache[Home[t]] = Cold \/ sig[Home[t]] # Stat
  /\ seen' = [seen EXCEPT ![t] = Stat]
  /\ Goto(t, "read")
  /\ UNCHANGED <<lines, gen, archived, clearing, cache, sig, entry, nextHash, overlaps>>

\* read_text(): the last line as it is now, not as it was at the stat().
ReadTail(t) ==
  /\ pc[t] = "read" /\ Exists
  /\ cache' = [cache EXCEPT ![Home[t]] = TailHash]
  /\ Goto(t, "sign")
  /\ UNCHANGED <<lines, gen, archived, clearing, sig, seen, entry, nextHash, overlaps>>

\* The earlier stat() becomes the signature; what the cache holds by now is
\* returned, whichever thread of this instance wrote it.
Sign(t) ==
  /\ pc[t] = "sign"
  /\ sig' = [sig EXCEPT ![Home[t]] = seen[t]]
  /\ seen' = [seen EXCEPT ![t] = NoSig]
  /\ Construct(t, cache[Home[t]])
  /\ UNCHANGED <<lines, gen, archived, clearing, cache, overlaps>>

\* The file was unlinked after exists(): stat() or read_text() raises, and
\* so does log().
Vanished(t) ==
  /\ pc[t] \in {"stat", "read"} /\ ~Exists
  /\ seen' = [seen EXCEPT ![t] = NoSig]
  /\ Goto(t, "idle")
  /\ UNCHANGED <<lines, gen, archived, clearing, cache, sig, entry, nextHash, overlaps>>

(* ---- log, from open("a") on -------------------------------------------- *)

\* open("a") makes the file when it is not there.
AppendLine(t) ==
  /\ pc[t] = "append"
  /\ lines' = Append(lines, entry[t])
  /\ overlaps' = overlaps + MidLog(Thread \ {t})
                          + (IF clearing THEN 1 ELSE 0)
  /\ Goto(t, "refresh")
  /\ UNCHANGED <<gen, archived, clearing, cache, sig, seen, entry, nextHash>>

Refresh(t) ==
  /\ pc[t] = "refresh"
  /\ cache' = [cache EXCEPT ![Home[t]] = entry[t].id]
  /\ Goto(t, "restat")
  /\ UNCHANGED <<lines, gen, archived, clearing, sig, seen, entry, nextHash, overlaps>>

\* The second stat(); OSError (no file) leaves no signature.
Restat(t) ==
  /\ pc[t] = "restat"
  /\ sig' = [sig EXCEPT ![Home[t]] = IF Exists THEN Stat ELSE NoSig]
  /\ entry' = [entry EXCEPT ![t] = NoEntry]
  /\ Goto(t, "idle")
  /\ UNCHANGED <<lines, gen, archived, clearing, cache, seen, nextHash, overlaps>>

\* Faulty variant: the cache is dropped under a log() that is under way.
RestartUnderLog(i) ==
  /\ cache' = [cache EXCEPT ![i] = Cold]
  /\ sig' = [sig EXCEPT ![i] = NoSig]
  /\ UNCHANGED <<lines, gen, archived, clearing, pc, seen, entry, nextHash, overlaps>>

\* The process that owns instance i ends, at whatever step, and another
\* opens the same file with a new AuditTrail.
Restart(i) ==
  /\ cache' = [cache EXCEPT ![i] = Cold]
  /\ sig' = [sig EXCEPT ![i] = NoSig]
  /\ pc' = [t \in Thread |-> IF Home[t] = i THEN "idle" ELSE pc[t]]
  /\ seen' = [t \in Thread |-> IF Home[t] = i THEN NoSig ELSE seen[t]]
  /\ entry' = [t \in Thread |-> IF Home[t] = i THEN NoEntry ELSE entry[t]]
  /\ UNCHANGED <<lines, gen, archived, clearing, nextHash, overlaps>>

(* ---- hermes-aegis audit clear ------------------------------------------ *)

\* Faulty variant: the archive gets what the summary showed, not the file.
ClearArchiveFirstLine ==
  /\ ~clearing /\ Exists
  /\ gen <= MaxClears
  /\ archived' = archived \cup {lines[1]}
  /\ clearing' = TRUE
  /\ UNCHANGED <<lines, gen, cache, sig, pc, seen, entry, nextHash, overlaps>>

\* read_all(), the confirmation, copy2() to the archive.
ClearArchive ==
  /\ ~clearing /\ Exists
  /\ gen <= MaxClears
  /\ archived' = archived \cup Chain!Lines(lines)
  /\ clearing' = TRUE
  /\ UNCHANGED <<lines, gen, cache, sig, pc, seen, entry, nextHash, overlaps>>

ClearUnlink ==
  /\ clearing
  /\ lines' = <<>> /\ gen' = gen + 1
  /\ clearing' = FALSE
  /\ overlaps' = overlaps + MidLog(Thread)
  /\ UNCHANGED <<archived, cache, sig, pc, seen, entry, nextHash>>

\* The clear process dies between the copy and the unlink.
ClearKilled ==
  /\ clearing
  /\ clearing' = FALSE
  /\ UNCHANGED <<lines, gen, archived, cache, sig, pc, seen, entry, nextHash, overlaps>>

-----------------------------------------------------------------------------
Step(t) ==
  \/ Log(t) \/ Absent(t) \/ StatHit(t) \/ StatMiss(t) \/ ReadTail(t)
  \/ Sign(t) \/ Vanished(t) \/ AppendLine(t) \/ Refresh(t) \/ Restat(t)

Next ==
  \/ \E t \in Thread : Step(t)
  \/ \E i \in Instance : Restart(i)
  \/ ClearArchive \/ ClearUnlink \/ ClearKilled

Spec == Init /\ [][Next]_vars

-----------------------------------------------------------------------------
Signature == Nat \X Nat
Entry == [id : Nat, prev : Nat]

\* Every variable has its type: a cache is None, "" or a digest, and an entry
\* never links to None.
TypeOK ==
  /\ lines \in Seq(Entry) /\ gen \in Nat \ {0}
  /\ archived \subseteq Entry /\ clearing \in BOOLEAN
  /\ cache \in [Instance -> Nat \cup {Cold}]
  /\ sig \in [Instance -> Signature]
  /\ pc \in [Thread -> Steps]
  /\ seen \in [Thread -> Signature]
  /\ entry \in [Thread -> Entry]
  /\ nextHash \in Nat \ {0} /\ overlaps \in Nat

\* What verify_chain checks: every line links to the line before.
Intact == Chain!Chained(lines)

\* verify_chain fails only after two operations on the file overlapped: an
\* append or an unlink while another log() was between reading the tail and
\* recording its own write, or an append while a clear was in progress.
\* This is what the (size, mtime) signature of AuditTrail is for.
BrokenOnlyByOverlap == overlaps = 0 => Intact

\* The lines verify_chain would report, were it to go on after the first.
BrokenLinks ==
  { i \in 1..Len(lines) :
      lines[i].prev # (IF i = 1 THEN 0 ELSE lines[i - 1].id) }

\* One overlap costs at most one broken link: a stale cache heals at the
\* next append by anybody else, it does not break the chain again and again.
ForkBudget == Cardinality(BrokenLinks) <= overlaps

\* Until the first clear, even a forked log is a tree rooted in the empty
\* hash: every prev_hash names a line above, never one that failed to be
\* written or is still to come.
LinksPointUp ==
  gen = 1 => \A i \in 1..Len(lines) :
               \/ lines[i].prev = 0
               \/ \E j \in 1..(i - 1) : lines[j].id = lines[i].prev

\* As long as nothing overlaps, every step is a step of HashChain: log() is
\* one append to the chain's end and clear loses nothing.
ChainUntilOverlap ==
  [][overlaps' = 0 => [Chain!Next]_<<lines, archived>>]_vars

\* audit/trail.py, AuditTrail.__init__: the cache and its signature are there
\* "to stay correct when another AuditTrail instance writes to the same
\* file".  They are not enough: log() holds no lock.
StayCorrect == Intact

\* cli.py, audit clear: "saved to ~/.hermes-aegis/audit.jsonl.<date> before
\* clearing, so nothing is permanently lost".
NothingLost == [][gen' # gen => Chain!Lines(lines) \subseteq archived']_vars
=============================================================================
