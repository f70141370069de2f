--------------------------- MODULE ReactiveManager ---------------------------
(***************************************************************************)
(* src/hermes_aegis/reactive/manager.py: the watcher hands every entry of  *)
(* audit.jsonl to evaluate(), which decides, under the lock, which rules   *)
(* fire, and then runs their side effects outside the lock: a message, or  *)
(* an investigation in a pool of threads.  The manager's own entries       *)
(* (CHAIN_TAMPERED, CIRCUIT_BREAKER) come back through the watcher.        *)
(*                                                                         *)
(* An entry is its kind (decision and middleware) and its timestamp.  The  *)
(* clock counts whole units; log() is one step here (AuditTrail has its    *)
(* interleavings), and whether verify_chain() succeeds is up to others.    *)
(***************************************************************************)
EXTENDS SequenceTrigger, Sublists, SequencesExt

CONSTANTS
  Rules,       \* _rules: a sequence of Rule records, disabled ones left out
  EnvKinds,    \* the kinds of entries other writers log
  Skew,        \* how late an entry may be appended after its timestamp
  BufferLen,   \* maxlen of _sequence_buffer
  MaxSpawns,   \* MAX_SPAWNS_PER_HOUR
  Hour,        \* 3600
  Worker,      \* the threads of the pool
  MaxEntries,  \* bound: entries other writers log
  MaxTime      \* bound: the clock

Unparsed == -1   \* the window of a trigger that parse_duration() cannot read

\* A rule has a sequence of steps, or a set of kinds to match and, when it is
\* a threshold, a count; actions is how many circuit breakers its agent asks
\* for that allowed_actions permits, at most.  load_rules() rejects a sequence
\* whose window cannot be parsed, but no trigger.
Rule == [type : {"notify", "investigate"}, cooldown : Nat, on : SUBSET STRING,
         count : Nat, window : Nat \cup {Unparsed}, steps : Seq(SUBSET STRING),
         actions : Nat]

ASSUME LimitAssumption ==
  /\ Rules \in Seq(Rule)
  /\ \A r \in 1..Len(Rules) : Rules[r].steps # <<>> => Rules[r].window # Unparsed
  /\ {BufferLen, MaxSpawns, MaxTime} \subseteq Nat \ {0}
  /\ {Skew, Hour, MaxEntries} \subseteq Nat

VARIABLES
  now,         \* time.time()
  log,         \* the entries of audit.jsonl
  intact,      \* what verify_chain() returns
  fed,         \* entries given to evaluate()
  windows,     \* _windows: for each rule the times of the entries that count
  lastFired,   \* _cooldowns
  marks,       \* _sequence_marks
  todo,        \* rules whose side effects the watcher's thread has to run,
               \* in their order
  counted,     \* the first of them has passed the spawn limit
  spawnTimes,  \* _spawn_times, a deque of at most MaxSpawns
  queue,       \* investigations waiting for a thread
  job,         \* [Worker -> the circuit breakers still to execute, or Idle]
  shut,        \* shutdown() was called
  matchedAt,   \* history: fed when a sequence last matched
  unfired,     \* history: times of matching entries since the rule last fired
  spawns       \* history: the times of all spawns

clockVars == <<now, log, intact>>
ruleVars == <<fed, windows, lastFired, marks, matchedAt, unfired>>
poolVars == <<queue, job, shut>>
vars == <<clockVars, ruleVars, todo, counted, spawnTimes, spawns, poolVars>>

-----------------------------------------------------------------------------
Never == -1
Idle == -1
RuleIds == 1..Len(Rules)

IsSequence(r) == Rules[r].steps # <<>>
IsThreshold(r) == ~IsSequence(r) /\ Rules[r].count > 0

\* _sequence_buffer when n entries have been evaluated.
Recent(n) == SubSeq(log, Max({1, n - BufferLen + 1}), n)

Cool(r) == lastFired[r] = Never \/ now - lastFired[r] >= Rules[r].cooldown

\* log() by this process or another.
Logged(kind) ==
  \E ts \in Max({1, now - Skew})..now : log' = Append(log, [kind |-> kind, ts |-> ts])

Init ==
  /\ now = 1 /\ log = <<>> /\ intact = TRUE /\ fed = 0
  /\ windows = [r \in RuleIds |-> <<>>]
  /\ lastFired = [r \in RuleIds |-> Never]
  /\ marks = [r \in RuleIds |-> 0]
  /\ todo = {} /\ counted = FALSE /\ spawnTimes = <<>>
  /\ queue = <<>> /\ job = [w \in Worker |-> Idle] /\ shut = FALSE
  /\ matchedAt = [r \in RuleIds |-> 0]
  /\ unfired = [r \in RuleIds |-> <<>>]
  /\ spawns = <<>>

(* ---- the world --------------------------------------------------------- *)

Tick ==
  /\ now < MaxTime
  /\ now' = now + 1
  /\ UNCHANGED <<log, intact, ruleVars, todo, counted, spawnTimes, spawns, poolVars>>

OthersLog ==
  /\ Len(SelectSeq(log, LAMBDA e : e.kind \in EnvKinds)) < MaxEntries
  /\ \E kind \in EnvKinds : Logged(kind)
  /\ UNCHANGED <<now, intact, ruleVars, todo, counted, spawnTimes, spawns, poolVars>>

BreakChain ==
  /\ intact /\ intact' = FALSE
  /\ UNCHANGED <<now, log, ruleVars, todo, counted, spawnTimes, spawns, poolVars>>

(* ---- evaluate ---------------------------------------------------------- *)

\* What the sequence rule r still considers after n entries, and its match.
Candidates(r, n) == Kept(Recent(n), LAMBDA e : e.ts > marks[r])
MatchEnd(r, n) == FindMatchEnd(Rules[r].steps, Rules[r].window, Candidates(r, n))

\* What popleft() leaves of times: from the first that is in the window of r on.
InWindow(r, times) ==
  LET kept == {i \in DOMAIN times : times[i] >= now - Rules[r].window}
  IN IF kept = {} THEN <<>> ELSE SubSeq(times, Min(kept), Len(times))

\* The threshold window of r when an entry has just been counted.
Counting(r) == Append(InWindow(r, windows[r]), now)

Counts(r, e) == ~IsSequence(r) /\ e.kind \in Rules[r].on

Ready(r, e) ==
  \/ IsSequence(r) /\ MatchEnd(r, fed + 1) # None
  \/ Counts(r, e) /\ (IsThreshold(r) => Len(Counting(r)) >= Rules[r].count)

Fires(r, e) == Ready(r, e) /\ Cool(r)

\* window_seconds raises ValueError for r.
Stumbles(r, e) == Counts(r, e) /\ IsThreshold(r) /\ Rules[r].window = Unparsed

\* The rules before the first that stumbles: evaluate() raises there, and the
\* watcher goes on with the next entry.
Reached(e) == {r \in RuleIds : \A q \in 1..r : ~Stumbles(q, e)}

\* Faulty variants: a match is consumed only when the rule fires; the mark is
\* the time of the evaluation.
AdvanceIfFired(r, e) ==
  IF IsSequence(r) /\ Fires(r, e) THEN MatchEnd(r, fed + 1) ELSE marks[r]
AdvanceToNow(r, e) == IF IsSequence(r) /\ Ready(r, e) THEN now ELSE marks[r]

\* The mark moves on even if the cooldown suppresses the rule.
Advance(r, e) ==
  IF IsSequence(r) /\ Ready(r, e) THEN MatchEnd(r, fed + 1) ELSE marks[r]

\* Faulty variant: the window is not emptied.
CountedKept(r, e) ==
  IF Counts(r, e) /\ IsThreshold(r) THEN Counting(r) ELSE windows[r]

\* A window that reached the count is emptied, whether the rule fires or not.
Counted(r, e) ==
  IF ~(Counts(r, e) /\ IsThreshold(r)) THEN windows[r]
  ELSE IF Len(Counting(r)) >= Rules[r].count THEN <<>> ELSE Counting(r)

\* What the rules reached have changed stays, but when evaluate() raises no side
\* effect is run.
Evaluate ==
  /\ todo = {} /\ fed < Len(log)
  /\ LET e == log[fed + 1]
         reached == Reached(e)
         firing == {r \in reached : Fires(r, e) /\ reached = RuleIds}
     IN
       /\ windows' = [r \in RuleIds |-> IF r \in reached THEN Counted(r, e) ELSE windows[r]]
       /\ marks' = [r \in RuleIds |-> IF r \in reached THEN Advance(r, e) ELSE marks[r]]
       /\ lastFired' = [r \in RuleIds |->
            IF r \in reached /\ Fires(r, e) THEN now ELSE lastFired[r]]
       /\ todo' = firing
       /\ matchedAt' = [r \in RuleIds |->
            IF r \in reached /\ IsSequence(r) /\ Ready(r, e) THEN fed + 1 ELSE matchedAt[r]]
       /\ unfired' = [r \in RuleIds |->
            IF ~(r \in reached /\ Counts(r, e)) THEN unfired[r]
            ELSE IF r \in firing THEN <<>> ELSE Append(unfired[r], now)]
  /\ fed' = fed + 1
  /\ UNCHANGED <<clockVars, counted, spawnTimes, spawns, poolVars>>

(* ---- side effects, outside the lock ------------------------------------ *)

First == Min(todo)
NextIs(type) == todo # {} /\ Rules[First].type = type

Notify ==
  /\ NextIs("notify")
  /\ todo' = todo \ {First}
  /\ UNCHANGED <<clockVars, ruleVars, counted, spawnTimes, spawns, poolVars>>

\* deque(maxlen=MAX_SPAWNS_PER_HOUR): an append at the limit drops the oldest.
PushSpawn(t) ==
  IF Len(spawnTimes) = MaxSpawns THEN Append(Tail(spawnTimes), t)
                                 ELSE Append(spawnTimes, t)

\* Faulty variant: a deque is never longer than its maxlen.
AtLimitExceeded == Len(spawnTimes) > MaxSpawns /\ now - spawnTimes[1] < Hour

AtLimit == Len(spawnTimes) >= MaxSpawns /\ now - spawnTimes[1] < Hour

SpawnRefused ==
  /\ NextIs("investigate") /\ ~counted /\ AtLimit
  /\ todo' = todo \ {First}
  /\ UNCHANGED <<clockVars, ruleVars, counted, spawnTimes, spawns, poolVars>>

SpawnCounted ==
  /\ NextIs("investigate") /\ ~counted /\ ~AtLimit
  /\ spawnTimes' = PushSpawn(now)
  /\ spawns' = Append(spawns, now)
  /\ counted' = TRUE
  /\ UNCHANGED <<clockVars, ruleVars, todo, poolVars>>

\* verify_chain(), and its CHAIN_TAMPERED entry.
ChainChecked == IF intact THEN UNCHANGED log ELSE Logged("CHAIN_TAMPERED")

\* Faulty variant: investigations are queued for a pool that was shut down.
SubmitAnyway ==
  /\ counted /\ counted' = FALSE
  /\ ChainChecked
  /\ queue' = Append(queue, First)
  /\ todo' = todo \ {First}
  /\ UNCHANGED <<now, intact, ruleVars, spawnTimes, spawns, job, shut>>

\* A pool that was shut down rejects the investigation.
Submit ==
  /\ counted /\ counted' = FALSE
  /\ ChainChecked
  /\ queue' = IF shut THEN queue ELSE Append(queue, First)
  /\ todo' = todo \ {First}
  /\ UNCHANGED <<now, intact, ruleVars, spawnTimes, spawns, job, shut>>

\* verify_chain(), log() or read_all() raises, on a line that cannot be read:
\* the investigation is given up, its spawn stays counted.
SubmitFails ==
  /\ counted /\ counted' = FALSE
  /\ UNCHANGED log \/ ChainChecked
  /\ todo' = todo \ {First}
  /\ UNCHANGED <<now, intact, ruleVars, spawnTimes, spawns, poolVars>>

(* ---- the pool ---------------------------------------------------------- *)

\* A thread takes an investigation; its agent will ask for some of the
\* circuit breakers the rule allows, or fail and ask for none.
TakeJob(w) ==
  /\ ~shut /\ job[w] = Idle /\ queue # <<>>
  /\ queue' = Tail(queue)
  /\ \E n \in 0..Rules[Head(queue)].actions : job' = [job EXCEPT ![w] = n]
  /\ UNCHANGED <<clockVars, ruleVars, todo, counted, spawnTimes, spawns, shut>>

CircuitBreak(w) ==
  /\ job[w] > 0
  /\ job' = [job EXCEPT ![w] = @ - 1]
  /\ Logged("CIRCUIT_BREAKER")
  /\ UNCHANGED <<now, intact, ruleVars, todo, counted, spawnTimes, spawns, queue, shut>>

FinishJob(w) ==
  /\ job[w] = 0
  /\ job' = [job EXCEPT ![w] = Idle]
  /\ UNCHANGED <<clockVars, ruleVars, todo, counted, spawnTimes, spawns, queue, shut>>

\* shutdown(cancel_futures=True): what is waiting is cancelled, what is
\* running is waited for.
Shutdown ==
  /\ ~shut /\ shut' = TRUE
  /\ queue' = <<>>
  /\ UNCHANGED <<clockVars, ruleVars, todo, counted, spawnTimes, spawns, job>>

-----------------------------------------------------------------------------
Watch == Evaluate \/ Notify \/ SpawnRefused \/ SpawnCounted \/ Submit \/ SubmitFails
Work(w) == TakeJob(w) \/ CircuitBreak(w) \/ FinishJob(w)

Next ==
  \/ Tick \/ OthersLog \/ BreakChain
  \/ Watch
  \/ \E w \in Worker : Work(w)
  \/ Shutdown

Spec == Init /\ [][Next]_vars

\* The watcher polls until it is stopped, just before shutdown(); an agent has
\* a bounded number of iterations, and shutdown() waits for it.
FairSpec ==
  Spec /\ WF_vars(Watch /\ ~shut) /\ \A w \in Worker : WF_vars(Work(w))

-----------------------------------------------------------------------------
(* Properties. *)

\* No entry counts for two matches of a sequence rule: from one match to the
\* next (a match ends with the entry that completes it) at least as many
\* entries are evaluated as the rule has steps.  This is what _sequence_marks
\* is for, whether or not the cooldown lets the rule fire.
FreshMatches ==
  [][\A r \in RuleIds : matchedAt'[r] # matchedAt[r] =>
       matchedAt'[r] - matchedAt[r] >= Len(Rules[r].steps)]_vars

\* No match is overlooked: as long as entries come in the order of their
\* timestamps, the buffer holds no occurrence of a sequence after the last
\* match.  The mark must not move past entries not yet evaluated.  (Of rules
\* whose windows can all be parsed: one that cannot drops what others found.)
NothingPending ==
  LET StrictlyOrdered == \A i \in 2..Len(log) : log[i - 1].ts < log[i].ts
      Since(r) == SubSeq(log, Max({matchedAt[r] + 1, fed - BufferLen + 1}), fed)
  IN StrictlyOrdered => \A r \in RuleIds :
       IsSequence(r) => Occurrences(Rules[r].steps, Rules[r].window, Since(r)) = {}

FiresNow(r) == todo = {} /\ r \in todo'

\* The entries evaluated since r last fired that lie in its window now.
Unfired(r) == {i \in DOMAIN unfired[r] : unfired[r][i] >= now - Rules[r].window}

\* A threshold rule fires only for count entries within its window, the one
\* evaluated among them, that no earlier firing was for.
ThresholdSound ==
  [][\A r \in RuleIds : IsThreshold(r) /\ FiresNow(r) =>
       Cardinality(Unfired(r)) + 1 >= Rules[r].count]_vars

\* docs/reactive-agents.md: at most MAX_SPAWNS_PER_HOUR spawns per hour, over
\* all rules: any MaxSpawns + 1 of them in a row span an hour.
SpawnLimit ==
  \A i \in 1..(Len(spawns) - MaxSpawns) : spawns[i + MaxSpawns] - spawns[i] >= Hour

\* Everything is dealt with again and again, whatever the rules feed back: no
\* investigation waits, no thread is busy, and, until the shutdown, no entry
\* waits either.
Quiesces ==
  []<>( /\ queue = <<>> /\ \A w \in Worker : job[w] = Idle
        /\ shut \/ (fed = Len(log) /\ todo = {}) )
=============================================================================
