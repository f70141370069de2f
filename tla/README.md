# A verification of hermes-aegis in TLA+

hermes-aegis puts a filtering proxy, an audit log and reactive "circuit
breaker" agents around the hermes-agent process. Most of its state lives in a
handful of files under `~/.hermes-aegis/` that several processes and threads
read and write without locks; that, rather than any one algorithm, is where it
can go wrong, and it is what these modules are about. Paths below are relative
to `src/hermes_aegis/` in the repository.

## 1. The system's parts

| Part | State | Operations | Talks to |
|---|---|---|---|
| Audit trail (`audit/trail.py`) | `audit.jsonl`; per object `_last_hash_cache`, `_last_stat_signature` | `log`, `read_all`, `verify_chain` | every writer below, by the file |
| Audit commands (`cli.py`, `audit ...`) | archives `audit.jsonl.<date>` | `clear`, `event`, `show`, `verify`, `summarize` | the file |
| Audit watcher (`reactive/watcher.py`) | `_offset`, `_first_line_hash`, `.watcher-offset` | `start`, `_poll_once`, `_persist_offset`, `stop` | tails the file, calls the manager |
| Reactive manager (`reactive/manager.py`, `rules.py`, `sequences.py`) | windows, cooldowns, spawn times, sequence buffer and marks, a pool of two threads | `evaluate`, `_handle_investigate`, `_run_investigation`, `shutdown` | watcher (callback), audit trail (writes), actions |
| Circuit-breaker actions (`reactive/actions.py`) | `vault.lock`, blocklist, allowlist, settings | `execute` | vault, proxy process, settings, audit trail |
| Rate control (`proxy/addon.py`, `policy/engine.py`, `middleware/rate_escalation.py`) | timestamps per host, coalescing times, anomaly counts | `_check_rate_limit`, `process`, `record_anomaly` | audit trail |
| Proxy request pipeline (`proxy/addon.py`, `injector.py`, `server.py`) | credentials, allowlist, the flow | `request`, `response`, `_refresh_hermes_auth` | rate control, audit trail, auth.json |
| Proxy process (`proxy/runner.py`, `entry.py`, `hook.py`, `cli.py run/start/stop`) | PID file, config file, mitmdump processes, watchdog threads | `start_proxy_process`, `stop_proxy`, `is_proxy_running` | every session |
| Vault (`vault/`) | `vault.enc`, `vault.tmp`, the key in the OS keyring | `set`, `remove`, `get`, `get_all_values` | proxy start, commands |
| Credentials (`vault/migrate.py`, `cli.py` setup, doctor, run) | hermes' `.env`, the credential pool of `auth.json`, `vault.lock` | import, merge, `vault doctor`, clean-up | vault, hermes |
| Rules file (`reactive/rules.py`, `cli.py reactive ...`) | `reactive-agents.json` | `load_rules`, `save_rules`, `init`, `sync-defaults`, `enable`, `disable` | reactive manager |
| Settings, allowlists (`config/`) | JSON files, `_mtime` | `load`, `save`, `get`, `set`, `add`, `remove` | proxy, actions, command line |
| Approvals (`approval/`) | `approval-cache.json` | `check`, `add`, `request_approval` | middleware |
| Middleware chain (`middleware/`) | none of its own | `execute` | approvals, audit trail |
| Patching (`patches.py`, `patching/`) | source files of hermes-agent | `apply`, `revert`, `status` | install and uninstall |
| Reports (`reports/`) | last report time | `run_report_now`, `schedule_report` | audit trail |
| Plugin (`plugins/hermes-aegis`) | `stats.json`, its own audit log | `record_api_request` | hermes processes |
| Containers, sandbox, detectors, patterns | static text, external programs | - | - |

What is hard about them, and what makes each correct:

- **Audit trail.** The proxy, the reactive manager (two pool threads and a
  watcher thread on one object), `audit event` processes and `audit clear`
  share a file without a lock. Correct means: one linear hash chain, nothing
  lost by a clear, and a cache that is never believed when it is stale.
- **Audit watcher.** A reader that remembers its place in memory and on disk
  while the file is appended to, cleared and replaced, and while its own
  process stops or dies. Correct means: every line delivered, in order, none
  passed over as long as there is an offset file to start from, few repeated.
- **Reactive manager.** Time windows, cooldowns and sequence marks over entries
  whose timestamps need not be in order; side effects outside the lock; its own
  entries come back through the watcher. Correct means: cooldown and spawn
  limit hold, a sequence fires once, the feedback dies out.
- **Rate control.** Three sliding windows with different boundaries, each with
  lazy pruning. Correct means: never more than the limit in a window unnoticed,
  pruning changes nothing that can be seen.
- **Request pipeline.** Early returns, and one exception handler around
  everything. Correct means: what must be blocked is blocked on every path.
- **Proxy process.** Concurrent starts and stops that share a PID file.
  Correct means: the recorded proxy is the running one, a session notices when
  it is gone.
- **Vault, settings, allowlists, approvals, rules.** Whole-file
  read-modify-write by several processes, some of which are killed. Correct
  means: commands in turn lose no update, and no stale value is taken to be
  current.
- **Credentials.** Four commands each delete from one place what another has put
  there. Correct means: what the user gave is in one of the places, and the
  doctor's own remedy is one it finds nothing in.
- **Middleware chain, plugin.** Orders, early returns, and an audit trail that
  may raise anywhere. Correct means: what is refused never runs, and what is
  secret is cut out of the result and nothing else is, unless matches overlap.
- **Patching.** Text edits of somebody else's source, which is updated and edited
  meanwhile. Correct means: a pass does all there is to do, and no source is lost.
- **Reports.** An external agent that takes long and fails. Correct means: each
  entry is in some digest, each action on record.

## 2. Modules

| Module | What it is |
|---|---|
| `HashChain` | abstract: what `audit/trail.py` promises of the file |
| `AuditTrail` | `log()` statement by statement, writers, restarts, `audit clear` |
| `AuditWatcher` | the watcher over a growing and cleared log |
| `SequenceTrigger` | `find_match_end` as an operator, and what it is for |
| `Sublists` | Python's list comprehensions, said by positions |
| `ReactiveManager` | rules, spawn limit, pool and feedback of the manager |
| `ProxyRequest` | one request through limiter, coalescing, escalation and routing |
| `ProxyProcess` | mitmdump, its PID and configuration files, `run`, `start`, `stop`, watchdog, gateway hook |
| `VaultStore` | master key, `vault.enc` and `vault.tmp`, file operation by file operation |
| `Credentials` | vault, `.env` and credential pool under import, merge, doctor and clean-up |
| `SharedLists` | allowlists, settings and blocklist, edited by commands, read by the proxy |
| `Approvals` | the approval cache of several sessions |
| `RuleFile` | `reactive-agents.json` under validation, loading and saving |
| `Patches` | the patches of hermes-agent's source, on one file |
| `ToolCall` | a tool call down the middleware chain or the plugin's hooks, and back |
| `Reports` | what becomes of an agent's answer: investigations and digests |
| `...MC` | instances for TLC; `AegisHomeMC` joins the nine parts that share only the home directory |
| `...Proofs` | the theorems of the module of that name; `HomeFilesProofs` (vault, lists, approvals, rules, reports, patches, matcher) and `HomeWorkProofs` (calls, credentials) those of `AegisHomeMC`; `SequenceProofs` the lemmas on `Sublists` and `SequenceTrigger` |

`AuditTrail` refines `HashChain`; `ReactiveManager` uses `SequenceTrigger`;
`Sublists` is shared by the modules that filter a list; the other modules meet in
a file or a call that each models from its side: the circuit breaker's actions in `ReactiveManager` (when), `Reports` (recorded) and
`SharedLists`, `Credentials` (what they change); a trail that raises in
`ProxyRequest`, `ToolCall` and `Reports`; the secrets of the vault in
`VaultStore` (kept), `Credentials` (moved), `ProxyProcess` (handed to mitmdump)
and `ToolCall` (cut out of results).

### AuditTrail

A `Thread` executes `log()` on the `AuditTrail` object `Home` gives it. Between
two file operations or two writes of shared attributes another thread may run:

| Action | Code (`audit/trail.py`) |
|---|---|
| `Log` | entry into `log()` and `exists()` (196) |
| `Absent` | no file: cache `""`, no signature (197-199) |
| `StatHit`, `StatMiss` | `stat()` and the comparison with the cache (201-207) |
| `ReadTail` | `read_text()`, the last line's hash into the cache (210-217) |
| `Sign` | the signature of the *earlier* `stat()` (218-219) |
| `Vanished` | the file was unlinked in between: `log()` raises |
| `AppendLine` | `open("a")`, `write` (266-267) |
| `Refresh`, `Restat` | the cache, then a second `stat()` (271-276) |
| `Restart` | a process ends at whatever step, another opens the file |
| `ClearArchive`, `ClearUnlink`, `ClearKilled` | `audit clear` (`cli.py` 2248-2279) |

`lines` is the file; the hash of an entry is a number never used before, 0 is
the empty string. The signature `(st_size, st_mtime_ns)` is modelled as
`(incarnation, number of lines)`: an append changes the size, and a file
created after an unlink has another mtime. `overlaps` is a history variable: it
counts appends and unlinks that happen while another `log()` stands between
reading the tail and recording its own write, and appends during a clear.

- `BrokenOnlyByOverlap`: the chain verifies as long as nothing overlapped. All
  the caching is in scope: a cache that another writer, a clear, a clear
  followed by growth to the old size, or another thread of the same object made
  stale must never be used.
- `ForkBudget`: k overlaps break at most k links; a stale cache does not break
  the chain again and again.
- `LinksPointUp`: until the first clear, whatever overlaps and dies, every
  `prev_hash` names a line further up.
- `ChainUntilOverlap`: refinement of `HashChain`, with `chain <- lines` and
  `archived <- archived`, as long as nothing has overlapped. With one writer and
  no clear nothing can (`SoleWriterRefinement` in the proofs).
- `StayCorrect`, `NothingLost`: what the docstrings say; both are violated (see
  findings).

### AuditWatcher

Lines are numbers, offsets count lines. `PollSize` is the size test of
`_poll_once`, `OpenFresh`/`OpenSame`/`OpenReplaced`/`OpenFails` are the open and
first-line comparison, `Deliver` is one callback, `EndOfFile` is `f.tell()` and
the periodic save. `StartFirst`, `StartResumed` and `StartAtEnd` are the branches
of `_load_offset`. `Stop` saves the offset as it is, at any step, because
`stop()` waits only five seconds; `Crash` and `CrashPersisting` (an empty offset
file) are the process's death. An open file that is unlinked is still read
(`unlinked`).

- `NothingSkipped`: while the log only grows, no position, in memory or saved,
  lies beyond a line that was not delivered; and no start passes over such a
  line (`lost`), those from before the first start (`old`) excepted, unless the
  process has died and left no offset file, or a torn one (`helpless`).
- `RepeatsOnlyUnsaved`: after a restart, only lines after the saved offset are
  delivered again.
- `InOrderOnce`: with clears, lines are delivered once and in the file's order
  as long as a new file is noticed while it is shorter (`~outrun`).
- `EveryLineHandled`: liveness, under weak fairness of the poll.
- `OnlyNewEntries`: what the class says of itself; violated.

### SequenceTrigger and ReactiveManager

`FindMatchEnd` is the double loop of `reactive/sequences.py`: `Walk` is one pass
of the inner loop, `from` the rewinds of the outer one. `Occurrences` is the
reference definition (any increasing choice of entries within the window).

- `FindsEarliest`: on entries in the order of their timestamps it returns the
  end of the earliest occurrence, and on any entries it invents none.

`ReactiveManager` has one clock (`Tick`), a log to which others write
(`OthersLog`), and the manager's steps:

| Action | Code (`reactive/manager.py`) |
|---|---|
| `Evaluate` | `evaluate()` under the lock (107-213), for the next entry |
| `Notify`, `SpawnRefused`, `SpawnCounted` | side effects, in order (216-252) |
| `Submit`, `SubmitFails` | chain check, CHAIN_TAMPERED entry, `submit()` or an exception (254-275, 222) |
| `TakeJob`, `CircuitBreak`, `FinishJob` | a pool thread (277-336); an allowed action logs CIRCUIT_BREAKER (`actions.py` 41-94) |
| `Shutdown` | `shutdown(cancel_futures=True)` (349) |

Entries have a `kind` and a timestamp, which lies up to `Skew` before the moment
they are appended: `log()` takes the time before it appends, and nothing orders
two writers in between. `evaluate` is only called from the watcher's thread, so
its side effects finish before the next entry; `todo` is the set of rules that
fired, whose side effects run in the order of the rules (`First`). `matchedAt`, `unfired` and
`spawns` are history.

- `NothingPending`: no occurrence of a sequence is left after its last match.
- `FreshMatches`: no entry counts for two matches (holds without skew, violated
  with it).
- `ThresholdSound`: a threshold rule fires only for enough new entries within
  its window. (The converse does not hold: line 201 empties the window although
  the cooldown suppresses the rule, so that a burst of
  `docs/reactive-agents.md:102` counts from zero when the cooldown is over.)
- `SpawnLimit`: any `MaxSpawns` + 1 investigations span an hour.
- `Quiesces`: liveness; although a rule on CHAIN_TAMPERED feeds itself through
  the log, the manager catches up again and again.

### ProxyRequest

mitmproxy runs the hooks of one addon one after the other, so a request is a
sequence of steps (`at`) that no other request interrupts; what does interrupt
it is the clock, which each part reads for itself.

| Action | Code |
|---|---|
| `Request` | `_check_rate_limit` with `_maybe_prune_hosts` (`proxy/addon.py` 94-145, 263) |
| `Coalesce`, `Report` | `PolicyEngine.process` for RATE_ANOMALY (`policy/engine.py` 160-253); the audit trail may raise |
| `RecordAnomaly` | `record_anomaly` and the block at level 3 (`middleware/rate_escalation.py` 65-117, `addon.py` 282-297) |
| `RouteAnthropic` | the refresh of the key and its injection (157-233, 299-316) |
| `Pass`, `Reject` | the other outcomes of routing, allowlist and scanner (299-380) |
| `Unauthorized` | `response()` on a 401 (242-257) |
| `AuthChanges` | hermes-agent writes `auth.json`, or a key in it expires |

An exception of the audit trail ends the request as `raised`: `request()` lets
it pass. Whether a host is allowed and a body clean is a choice. `under`,
`anomalies`, `reported`, `unwritten` and `authSince` are history.

- `RateWindow`: no `Limit` + 1 requests of a host within a closed window are let
  through unflagged, whenever deques and whole hosts are pruned.
- `AnomaliesReported`: suppressed anomalies never extend the suppression, and
  entries of a host are a window apart. The exception `unwritten` is real: the
  key is remembered before the entry is written.
- `LevelIsOfRun`: the tracker's count after decay is the length of the unbroken
  run of anomalies, whatever it forgot on the way.
- `BlockedUntilDecay`: what the docs say of level 3; violated.
- `KeyInTime`: where the addon refreshes, a key that `auth.json` has offered for
  the refresh interval is the one used, although failed reads are charged to the
  interval and 401s restart it; where it does not, the key of the start stays.

Whether it refreshes (`refreshes`) is settled when the proxy is started: only if
the key came from `auth.json` and none from the vault (`cli.py` 286-296). Then the
first key is one of `auth.json`; else it is any, one that is refused with 401
among them (`FirstKey`).

### ProxyProcess

A mitmdump is a number, never used again, with a phase (`spawned`, `read`,
`loaded`, `up`, `dead`); an actor is a hermes-aegis process with its watchdog.
Each step is one probe, one file operation or one kill; a wait ends at any time
once what it waits for has not happened.

| Actions | Code |
|---|---|
| `ReadConfig`, `ScrubConfig`, `Bind` | `_load_addon` (`proxy/entry.py`) in mitmdump, which reads the secrets and overwrites them |
| `ReadPidFile`, `ProbeStale`, `ProbeRunning` | `is_proxy_running` (`proxy/runner.py`) and what each command makes of it |
| `StopRecorded`, `StopUnlink`, `FindAll`, `KillAll` | `stop_proxy`: the PID file first, then pgrep |
| `WriteConfig` ... `Retract` | `start_proxy_process` with its attempts |
| `ReadBack`, `Reuse`, `Notice`, `RestartProxy`, `Recovered`, `GiveUp` | `run` and `_proxy_watchdog` (`cli.py`) |
| `VaultSet` | `vault set` with `_restart_proxy_if_running` |
| `GatewayStartup`, `Poll`, `Probe`, `GatewayShutdown` | the handler that `hook.py` installs |

- `StopLeavesNone`: whatever ran when a stop began is dead when it ends, on file
  or not.
- `SecretsOnDisk`: the configuration holds secrets only while a start is under
  way, which ends when its mitmdump has overwritten the file or the file is
  unlinked. The exceptions are named in the formula: a port that another program
  takes while the mitmdump that was to listen there is late, and overlapping
  commands.
- `NoOrphan`: as long as commands take turns, a proxy that listens is the one
  on file.
- `SessionServed`: liveness; a session's port answers again or hermes is ended.

### VaultStore and Credentials

In `VaultStore` a name is bound to a file, and whoever has a file open keeps it
when the name is bound to another: that is what an atomic rename rests on, and
why two writers of one `vault.tmp` are not safe. `GetKey` and `KeepKey` are
`get_or_create_master_key`; `Load` is the constructor with the change in memory;
`OpenTmp`, `WriteTmp`, `Replace` are `_save`; `Kill` ends a process anywhere.
`intended` is what the commands would have left, executed in turn. A rename gives
back the file that the name was bound to, so that one file more than processes
(`Files`) is enough however writers overlap; `TypeOK` says so.

- `SecretsKept`: until two uses overlap, the vault can be read, holds what is
  intended and nothing else, and the key in the keyring decrypts it.

`Credentials` follows a key through the vault, the lines of `.env` and the
credential pool of `auth.json`. A value is an OAuth token, the placeholder of an
older setup, or anything else. `SyncVault`, `SyncRead`, `Truncate`, `Write` are
`_sync_vault_to_env`; `ImportLoad` ... `Delete` are `migrate_env_to_vault` in
`setup`; `Diagnose...` and `Heal...` are the three looks and the three remedies
of `vault doctor --fix`; `CleanRead` and `Unlink` are `clean_old_setup`;
`EditEnv` and `ToggleLock` are the user and the circuit breaker.

- `KeysKept`: a key to which the user has given a static value, and which was
  neither taken back nor given a token since, is in the vault or in `.env` with
  such a value, in any order of commands that do not overlap. (A key that is an
  OAuth token in one of the two places is not `given`: a merge writes the token
  over the line of `.env`, which a doctor may then remove, or a setup brings it
  back into the vault. With 1 process, 4 commands and 3 edits TLC finds a static
  line lost that way, which the two commands of `home` cannot reach.)
- `DoctorHeals`: what a doctor leaves, the next doctor would not report.
- `MergeRight`: a merge leaves foreign lines alone and in order, and each key of
  the vault stands in `.env` once.

### SharedLists, Approvals, RuleFile

`SharedLists` follows one JSON file of a chosen kind. An edit is `Load`,
`Change`, `Truncate`, `Write`, and for the LAN allowlist `Render`, `Generate`
of the sandbox profile; the proxy's copy is `Ask` (mtime), `Reload` (read),
`Stat` (the mtime it remembers, taken after the read).

- `EditsKept`: edits in turn are all in the file and in the profile.
- `ProxyCurrent`: whenever the proxy takes its copy for current, it is; but for
  changes between its read and its stat, or within one unit of mtime (`raced`).

`Approvals` has the file, a copy per session, and a command that reads in one
step and writes in another. `Request` is `check()`, which drops and saves what has
expired; `Approve` and `Refuse` are the backend's answer. Commands and patterns are sequences of words;
a pattern matches as it is, as a glob with `*` and `?`, or as a part of the
command (`Matches`), so that a leave given for one command serves another. A time
to live of zero or less is for ever (`Until`).

- `CachedWithinGrant`: the cache lets a command through only while a leave that
  matches it lasts, of those that were given and not taken back, although copies
  of an older file are written back; unless a session held the leave in its copy
  when it was taken back (`overtaken`).

`RuleFile` keeps of a rule what validation and saving tell apart: `Valid`,
`Loaded`, `Saved`, `Missing` are those of `rules.py`.

- `RulesSurvive`: after `sync-defaults` the session runs what it ran before, and
  the missing defaults after it.
- `SwitchesHold`: a rule that was enabled or disabled stays so.

### Patches

Each behaviour follows one file with the patches of it. Of a text there is the
version, the targets it has, the patches it contains and those edited by hand.
A patch's sentinel may stand in another patch's text (`sentinelIn`). `ReadStatus`
is `patches_status`; `Read`, `Truncate`, `Write`, `Invalidate` are `apply` and
`revert` of `FilePatch` and `SemanticPatch`; `HermesUpdate`, `Edit`, `Import` are
hermes and its user.

- `AlonePassCompletes`: a pass that nobody disturbs leaves no patch out whose
  target is there, and no bytecode of the unpatched text, whatever earlier
  passes, kills and edits left behind.
- `SourceIntact`: no pass writes an empty source back, even when it read the
  file while another had it truncated.

### ToolCall

A result is a sequence of characters, each the number of its place in what the
tool returned, or `Mark` for one of a placeholder; secrets are spans of the
original, each with the pattern or value (`by`) that finds it. As in
`scan_for_secrets`, a place that two of them find is listed twice, and spans of
two may overlap; all are cut out by the places of one scan (`Redacted`), from the
last start to the first. So what is cut by a position that has moved shows.
`Pre...` and `Post...` are the middlewares' `pre_dispatch` and `post_dispatch`,
`PreHook`, `PostHook`, `transform` the plugin's hooks. Where the audit trail is
written there is a branch in which it raises, and where it is optional one
without it (`LogIfAny`).

- `BlockedNeverRuns`: what is to be blocked never reaches the tool.
- `RedactedExactly`: where no place is found twice and none overlap, the caller
  gets the text without its secrets and otherwise as it was; if the scanner
  redacts and has a trail, that is on record.
- `SecretsGone`: nor is any character of a secret left where one place is found
  twice. (Neither holds of a place within another, nor the first of a place that
  is found twice: see other divergences.)

### Reports

A worker is a pool thread with an investigation, or `report run`. `AgentFails`,
`WriteReport` (which may raise), `LogAction` (or the trail raises) and `Die` are
the failures. What is in a report, and its file, are left out.

- `ActionsOnRecord`: of the actions of an investigation at most the last is off
  the record, and nothing follows it.

- `EntriesDigested`: a digest that fails or dies leaves its entries to the next.

## 3. Runs

| Run | Bounds | Shows |
|---|---|---|
| `writers` | 3 threads, 2 objects, 3 entries, 1 clear, restarts | types, `BrokenOnlyByOverlap`, `ForkBudget`, `LinksPointUp`, `ChainUntilOverlap` with shared and separate caches |
| `stay_correct`, `nothing_lost` | 2 entries | the two violations |
| `watch` | 5 lines, 2 clears, 3 starts | `NothingSkipped`, `RepeatsOnlyUnsaved`, `InOrderOnce`, `EveryLineHandled` |
| `only_new` | 4 lines, 1 clear | the violation |
| `reactive_notify` | 5 entries, buffer of 4, times 1-5, no skew | `NothingPending`, `FreshMatches`, `ThresholdSound` |
| `reactive_consumed` | 4 entries, skew 1 | the violation |
| `reactive_spawns` | 4 rules, the last with a misspelt window, 1 outside entry and the feedback, 2 spawns per hour of 2, times 1-3, skew 1 | `SpawnLimit`, `Quiesces` |
| `requests` | 5 requests to 2 hosts, times 1-5, limit 2 in 3, level 3 at 2 anomalies, decay 1, refresh interval 2, 2 keys | `RateWindow`, `AnomaliesReported`, `LevelIsOfRun`, `KeyInTime` |
| `requests_production` | 5 requests, no tracker | the violation |
| `proxies` | 1 session, 1 shell, 2 ports (one may be taken), 2 attempts, 3 mitmdumps, 2 versions of the secrets, 2 commands, 1 crash or start of the gateway | `StopLeavesNone`, `SecretsOnDisk`, `NoOrphan`, `SessionServed` |
| `home` | see below | types, and the properties of the nine parts |

The run `home` chooses one of nine parts in its initial state, and lets that part
alone take steps; the parts share the directory `~/.hermes-aegis` and nothing in
it, so what another part does could not be told from a stutter. Its bounds:

| Part | Bounds of `home` |
|---|---|
| `vault` | 2 processes, 2 secrets, 3 uses, 1 kill |
| `credentials` | 2 shells, 3 keys with values of 3 kinds, 2 commands, 1 edit or lock from outside, 3 initial `.env` files and 2 pools |
| `lists` | 2 editors, 2 items, 2 edits, 1 kill, 2 times, each of the 4 kinds |
| `approvals` | 2 sessions and a command, commands to approve `ls` and `ls -l`, patterns `ls` and `* -l`, time to live 1 or none, times 1-3, 3 requests or commands |
| `rules` | 2 processes, 3 commands, 2 edits among 4 rules a user may write |
| `patches` | 2 processes, 2 commands, 2 versions that each may lack one target, 1 edit, 1 crash; files with four, two, two and one patches, among them the one whose sentinels overlap |
| `call` | 4 chains with and without a trail, texts of 4 characters, placeholders of 2, 2 patterns, up to 2 secrets |
| `reports` | 2 workers, 1 rule, 3 jobs, 1 outside entry |
| `matcher` | 4 entries, 3 steps, 2 kinds, times 1-3, window 1 |

Why they are enough. Three entries are enough for a fork and its repair (a stale
append, one on top of it, and one by the other writer); four lines and one clear
for a file to be replaced by one of the same length; three starts for a saved
position to be saved, resumed and resumed again. Five entries are two matches of
a two-step sequence and noise, with one entry more than the buffer holds; three
units of time with an hour of two let spawns of the first hour leave the deque
and the feedback start anew. Five requests with a limit of two are a burst, an
anomaly in the same window after the tracker has pruned the host, and one more; a
window of three and five units of time let whole windows age out. Three mitmdumps
are an unrecorded one, the one on file and the one a watchdog starts; two
versions of the secrets are one that is stale. Three uses of the vault are one
that stores, one that is killed and one that reads what it left, with a temporary
file of the killed one's in its way. Two commands and an edit are an import of
what a merge has written, or a doctor after it. Two edits are an overlap, and with
a kill between them a torn file that is written over. Three jobs are
two digests beside an investigation; four characters with placeholders of two let
a secret be longer or shorter than its placeholder, so that each replacement moves
what comes after it. A leave for `ls` matches `ls -l` as a part of it, and `* -l`
matches only that. Restarts of writers are unbounded.

The deadlock check is on for `writers` and its violations, where a restart is
always possible, and off elsewhere: once the lines, starts, entries, requests or
commands are used up the modelled world stops. Symmetry is that of pool threads,
keys and processes, none of which an action tells apart; runs with liveness use
none.

Fairness: `_run` polls once a second for as long as its process lives, and an
exception in a poll does not end it, so the poll's steps are weakly fair.
For the manager, the watcher's steps are weakly fair until the shutdown, and so
is every pool thread: an agent has a bounded number of iterations, and
`shutdown(wait=True)` waits for those that run. For the proxy, a mitmdump that
was spawned comes up or fails, a command that was begun goes on, since each of
its waits has a timeout, and the watchdog polls every two seconds. Nothing else
is fair: nobody has to write, to clear, to run a command or to start a watcher
again. The other modules state safety only.

Every property of a passing run has a mutant in `PROJECT.json`: a variant of a
modelled definition, kept next to the original under "Faulty variant", that
breaks it.

## 4. Proofs

Eight modules hold theorems, for every value of the constants.

- `AuditTrailProofs`. `TypeCorrect`: `TypeOK` with `WarmAtSign` (a thread that
  has read the tail finds the cache filled: only the end of its own process
  empties it), without which an entry could link to `None`.
  `ChainBrokenOnlyByOverlap`: not inductive, since a wrong cache only shows at
  the next `log()`. `ChainInv` adds that recorded signatures lie in the file's
  past (`SignaturesInPast`), and that, while nothing has overlapped, a current
  signature vouches for the cache (`CacheCurrent`), every thread inside `log()`
  agrees with the tail (`ThreadCurrent`), and a clear in progress has everything
  in its archive. An append or unlink that leaves `overlaps` at 0 meets no thread
  inside the window (`MidLogCounts`), which is what every case of the proof rests
  on. `StepRefinement` and `SoleWriterRefinement`: from `ChainInv`, each step is
  a step of `HashChain` or a stutter; with one thread and no clear nothing can
  overlap. `EveryLinkPointsUp`: a second invariant, `HashesOnFile`, without any
  condition on overlaps.
  `ForksPaidFor`: the links that are broken now are at most as many as the
  overlaps, and, when they are as many, nothing is owed: whatever a cache or a
  thread has in hand agrees with the file (`Balanced`). So a stale cache can
  break the next link only if an overlap has not been paid for yet.
- `AuditWatcherProofs`. `NoLineSkipped`, `SavedNotRepeated`: positions in memory
  and on disk must lie within the log, or they would skip the next line written,
  and the remembered hash must be that of the line which still is the first, or
  a reset would repeat what was saved (`Cursors`, until the first clear). What a
  start may pass over follows from when there is no readable offset file: before
  the first one is saved nothing was delivered that a death could lose, unless the
  process died, and that is `helpless` (`Excused`).
  `DeliveredInOrder`, with any number of clears: lines are numbered as they are
  written, and what was delivered lies before the reader's place, in whichever
  file it has open (`InPlace`), unless a new file was outrun.
- `ReactiveManagerProofs`. `SpawnsLimited`: `SpawnLimit` compares a spawn with
  the one `MaxSpawns` before it, the code looks at `_spawn_times[0]`. The
  invariant says the two are the same: the deque holds the newest spawns, as many
  as it has room for (`DequeIsNewest`). `ThresholdCounts`: the window of a rule is
  the newest end of the entries since it last fired, whatever popleft() and
  clear() have dropped, and times only grow, so that what popleft() leaves is what
  is within the window (`WindowInv`); a rule that is not reached keeps both.
  `NothingOverlooked`: the last match is what the mark stands for (`Marked`), and
  no occurrence lies after it in what the buffer still has (`NoneLeft`); a new
  entry can only complete one that ends with it, which the search over the
  entries after the mark then finds. `MatchesFresh` needs entries in the order
  of their times, so it assumes `Skew = 0`, as the run does; with late entries it
  is false, which is finding 6. Both assume that every window can be parsed
  (`AllParsed`), since a rule that is not reached overlooks the entry: finding 5.
- `ProxyRequestProofs`. One invariant for each part, which the others and the
  clock keep. `WindowNeverExceeded`: a deque holds the newest requests under the
  limit, and all older ones are out of the window, whether popleft() or the
  pruning of whole hosts dropped them. `BurstsOnRecord`: the coalescing time of a
  host is the time of its last entry. `KeyUsedInTime`: where the addon refreshes, a
  refresh later than the last change of `auth.json` has read what is there; where
  it does not, no step touches the key. `LevelCorrect`: a host that
  the tracker has is counted from its last gap longer than the decay on; one that it
  has forgotten has been without an anomaly for as long (`LevelInv`).
- `SequenceProofs`. The entries that pass a test are those at certain positions, so
  that what a filter returns follows from counting positions (`NthRank`,
  `SublistOf`). `find_match_end` is a recursion, and the library's induction
  theorems are out of reach; but a recursive function that is given by its
  equation has a first place where a claim fails, if it has one (`Least`,
  `Greatest`), and there it does not fail. So one pass of the inner loop meets
  each step no later than any occurrence does (`WalkFirst`), and the answer is
  the earliest (`FindsFirst`).
- `ProxyProcessProofs`. `NoneLeft`: nothing follows from the first kill of
  `stop_proxy`, since the PID file may have been rewritten. `StopsSwept` says
  that what ran before the stop is dead or in pgrep's list; numbers are only
  added and the dead stay dead (`ProcsGrow`), and no step but the sweep and its
  kill enters or leaves that place (`ActorsGoOn`).
  `TurnsTaken`: as long as no command overlaps another, one
  is busy at most, and at each of its steps the mitmdumps, the PID file and the
  configuration are as that step needs them (`Turns`, with `Found` between
  commands): a mitmdump that is not dead is on file, being started, or on the
  list about to be killed. `ListeningOnFile` and `SecretsRemoved` are two of the
  things this says.
- `HomeFilesProofs`. `VaultKeepsSecrets`: until two uses meet, one process at most
  is inside, and at each of its steps its entries are what the vault is to hold
  next; nobody else can have open the file that `vault.tmp` names (`VaultInv`).
  `EditsStay`: the same of an edit of a list (`EditInv`). `ProxyReadsAgain`: a copy
  of the proxy's that has the file's mtime was read from the file as it is, since
  a later write within the same unit is what `raced` records (`AskerInv`).
  `CacheWithinGrant`: whatever anybody holds, in the file, in a copy or about to
  be written, is a leave that was given with that pattern and expiry, or one that has
  run out; what was taken back is in no copy unless it was `overtaken` (`GrantInv`).
  What matches what does not matter to it: the entry found is the leave. `SwitchesStay`,
  `RulesReload`: files written by commands in turn have each name once and only
  what loading and saving leave as it is, so that a rule is found again under its
  name (`RuleInv`).
  `NoEntryLeftOut`: the prompt of each digest that is to answer, with what
  others covered, holds every entry from before it was asked (`InPrompt`).
  `RecordLagsByOne`: an action off the record is the last of its investigation,
  which stands before its entry (`LastAtMost`); it needs that jobs are numbered
  and no two workers are at one. 
  `SourceStaysIntact`: a truncated file has neither a target nor a patch, so
  that another process finds nothing to write back (`SourceHeld`).
  `PassCompletes`: a pass that is alone has, at each patch, settled those
  before it, or reverted those after it; and where the bytecode is old, none of
  those before is in the text (`PassSoFar`). `MatcherFindsEarliest` is
  `FindsFirst` for every state of the part.
- `HomeWorkProofs`. `StoppedCallsNeverRun`: on the way down the call has been
  cleared by every middleware it has passed.
  `CallerGetsNoSecret`: on the way up the result is the original until it has
  passed one who looks for secrets, and then what is expected (`ResultSoFar`).
  Expected is the original read from the left, and so it can be read off any place
  in it (`Reading`); cutting from the last match to the first keeps the original up
  to the match and has the reading of it behind (`CutFrom`), so that the order of
  the cuts does not show and no place is stale. A second scan finds nothing, for
  no placeholder is a secret and none of the characters of a secret is left
  (`ScanMakes`). All this is for places found once and apart; of the others there is
  only the type (`RedactedText`).
  `KeysStay`: each key given has no token in the vault, no token in its last line
  that an import would take, and a static value in one of the two (`Held`); who is
  about to write `.env` has that of its lines (`SafeAt`). `DoctorLeavesNothing`:
  what each step of a doctor has looked at and healed (`Treated`).
  `MergeKeepsForeign`: of the lemmas on sublists. `TypesHold` (all parts of `home`):
  most types are in the invariants above; beyond them it needs, of the vault,
  that a process holds a file open only while it writes and that the vault is
  never the file of `vault.tmp`, so that one file more than processes is enough
  (`VaultKinds`, `FileLeft`), of the lists that no mtime is ahead of the clock (`ListKinds`), of the approvals that a pattern
  stands once (`PatternsOnce`), of the patches that none is both whole and edited
  (`PatchKinds`), and of a result that each place to be cut lies in what is left
  when its turn comes, even where secrets overlap (`RedactedText`).

The theorems about parts of `home` are of its `Spec`, and state the property the
run checks. The assumptions are those named in the modules: `Thread` is finite,
`Home` maps threads to objects, bounds, limits and intervals are natural numbers,
so are ports (`PortAssumption`) and the lengths of texts and placeholders
and the number of patterns (`TextAssumption`), times to live are numbers and a
command has words (`AskAssumption`), timestamps and windows are numbers (`MatchAssumption`), no rule is called as a digest is
(`RuleAssumption`), the files followed are files that have patches
(`FileAssumption`), the lists are the four that are edited alike
(`KindAssumption`), and there are finitely many processes (`BoundAssumption`,
which also says that the bounds on uses and versions are numbers). TLC evaluates
all of them.

Model-checked only:

- `EveryLineHandled`, `Quiesces`, `SessionServed`: liveness, out of the prover's
  reach, as is `ENABLED`.
- `SecretsGone`: what the second cut of one place takes depends on how its length
  compares with the placeholder's and on what follows it, up to the end of the
  text; the run goes through all of it for four characters.

## 5. Findings

1. Two writers fork the chain (`stay_correct`).
2. `audit clear` can lose entries (`nothing_lost`).
3. After a replaced file is noticed by its first line, everything in it is
   delivered twice (`only_new`).
4. A late entry sets a sequence rule's mark back, and consumed entries match
   again (`reactive_consumed`).
5. The documented blocking of hosts at escalation level 3 never happens, since
   `proxy/entry.py` builds the addon without a tracker; with one, only requests
   over the limit are blocked (`requests_production`; `Escalating = TRUE` and
   `MaxRequests = 7` in the same configuration shows the second half).

Other divergences met while modelling, which the models contain as the code has
them and which properties step around by a named condition:

- **Redaction.** Matches are cut out from the last start to the first by the
  places of one scan, so that when one secret stands within another, the inner is
  replaced first, the end of the outer has moved, and if the placeholder is longer
  than what it replaced, the end of the outer secret stays, against "All detected
  secrets are replaced" (`output_scanner.py:15-16`, 94-96). A place that two
  patterns find, or a pattern and a value of the vault, is cut twice; where the
  placeholder is shorter than the secret, the text behind it goes, too, against
  the comment at 92. `SecretsGone` without its condition on overlaps, and
  `RedactedExactly` without `Disjoint`, fail of these.
- **Watcher.** It "persists read position across restarts" (`watcher.py:4`), but
  starts at the end of the log when there is no `.watcher-offset` (118-129), which
  is so until the first poll with new lines has ended, and when the file is torn
  (153-155). What was not delivered then never is (`lost`, `helpless`).
- **Rule windows.** `_validate_rule` parses the window of a sequence, but not that
  of a trigger, which the docs say it rejects (`docs/reactive-agents.md:151-156`).
  A threshold rule with a misspelt one makes `evaluate()` raise at
  `manager.py:187` for every entry it counts (`Stumbles`): the rules before it
  (`Reached`) have changed, later ones do not see the entry, and nothing runs.
  The run `reactive_spawns` has such a rule.
- **Proxy process.** A retry after a timeout finds the configuration scrubbed by
  the mitmdump that was late, although the hash on file says it has the secrets
  (`runner.py:136-137`). The PID file is written before mitmdump binds, so the
  gateway's probe (`hook.py:107`) may find a file and no proxy, and runs without
  one. When no port is free, the configuration stays on disk with its secrets
  (`NoPort`). A proxy that is reused and loses its PID file is not watched
  (`unwatched`), and `run` ends with an exception if the file is gone when the
  port is read back. The restart after `vault set` does not hand over hermes'
  own credentials.
- **Vault.** Overlapping writers share `vault.tmp`: the vault can be torn, a
  rename can fail, and two first uses make two keys (`store.py:122` calls the
  write "safe against mid-write corruption", which holds in turn). `vault.lock`
  stops `get` and `get_all_values` only.
- **Credentials.** Doctor speaks of "vault and .env" (`cli.py:2090-2095`), but an
  empty or locked vault returns before the merge, so an OAuth line may stay until
  a fix; a quoted token is not recognised; overlapping commands clobber `.env`
  against the docstring at 135-138; `setup` brings an older value of `.env` back;
  `vault remove` leaves the copy that was merged into `.env`.
- **Lists.** Removing the last domain allows all domains, and `tighten_rate_limit`
  has no bound on its factor, against `actions.py:3-4` ("never expand"); nothing
  reads the blocklist; the profile follows the LAN list on Darwin only
  (`cli.py:2693-2695`).
- **Approvals.** A cached "deny" does not deny: `backends.py:184-193` asks the
  backend. The docstring at 169 says the key is a pattern, but what is cached is
  the exact command.
- **Rules.** `sync-defaults` says existing rules are "preserved untouched"
  (`cli.py:3116-3121`), but invalid ones are dropped and unknown fields are lost.
- **Patches.** The sentinel of `docker_exec_proxy_translate` also stands in the
  text of `docker_network_isolation` (`patches.py:100-101`, 129, 196), so a
  missing patch may count as applied; `browser_tool_strip_proxy_env` relies on a
  name of another patch (354). A crash between truncation and write leaves an
  empty source; concurrent passes can leave a patch out; `run` applies patches
  only if one is "skipped".
- **Tool calls.** The order of `post_dispatch`
  is reversed against the comment at `chain.py:175`; the blocker logs arguments
  unredacted as `args_redacted`; a trail that raises after the call loses the
  result.
- **Reports.** "Actions Taken" lists what was requested, before it is checked;
  entries logged while the agent runs are in no digest; a digest whose file
  cannot be written after the time was set is lost.

## 6. Not modelled

- Policy classification (`policy/`): a table, whose rules change nothing here.
- Containers, sandbox builder, seccomp profile, honcho sidecar: they produce
  static arguments and files for other programs. The one file that follows state
  of this program, the sandbox profile, is in `SharedLists`.
- Regular expressions and entropy, prompts, templates, banners, tables, argument
  parsing, certificates and environment variables: text, about which no property
  here is. Where a match begins and ends is in `ToolCall`.
- Torn or malformed lines in the log: an entry is one `write` of one line. What a
  trail that raises does to its callers is in three modules.
- Several `run` sessions' watchers and managers at once: all save to one
  `.watcher-offset` and each has windows and limits of its own; nothing in the
  code relates two of them, and a second one multiplies the states beyond what
  TLC can check. It is listed as a hazard without a property.
- Of the proxy process: `terminate()` is instantaneous and PIDs are not reused.
  The archive name of two clears within a second, an entry that raises before
  `flow.kill()` (documented as fail-open at `addon.py:239`) and the plugin's
  statistics, which every process overwrites, are left out.
- `src/hermes_aegis/migration.py`, which renames the directory of an older
  release once; the in-memory mode of the audit trail, which only tests use.

What would add most next: the sessions' watchers over one offset file as a
composition of two `AuditWatcher`s with smaller bounds, and the proxy's copy of
the allowlist together with the requests it decides.
