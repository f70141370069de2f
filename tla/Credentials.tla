---------------------------- MODULE Credentials ----------------------------
(***************************************************************************)
(* The credentials hermes-aegis keeps in step: the vault, hermes' .env     *)
(* file and the pool of credentials in its auth.json. The commands are the *)
(* merge of the vault into .env (at the end of run and setup), the import  *)
(* of .env into the vault (setup, with or without the deletion of .env),   *)
(* vault set, vault remove, vault doctor --fix, and the clean-up of        *)
(* placeholders (install, uninstall).                                      *)
(*                                                                         *)
(* Each read, each truncation and each write of a shared file is a step.   *)
(* The steps inside a save of the vault are VaultStore's; here a command   *)
(* loads it in one step and saves it in another. Of .env only the lines    *)
(* KEY=VALUE are kept, comments and empty lines mean nothing to anybody.   *)
(***************************************************************************)
EXTENDS Sublists, SequencesExt

CONSTANTS
  Shell,                             \* hermes-aegis processes
  MaxShellCommands, MaxOutside       \* bounds: commands; edits and locks

\* A key the proxy injects, one of _NEVER_INJECT_ENV, and any other.
Key == {"ANTHROPIC_API_KEY", "ANTHROPIC_TOKEN", "DISCORD_BOT_TOKEN"}
NeverInject == {"ANTHROPIC_TOKEN"}
OAuth == "oauth"               \* sk-ant-oat01-*, sk-ant-ort01-*
Placeholder == "aegis-managed"
Static == "static"             \* any other value
Line == [key : Key, val : {OAuth, Placeholder, Static}]
Offered == {[key |-> k, val |-> Static] : k \in Key}
             \cup {[key |-> k, val |-> OAuth] : k \in {"ANTHROPIC_API_KEY", "ANTHROPIC_TOKEN"}}

VARIABLES
  vault,      \* the decrypted entries of the vault: [some keys -> value]
  vaultLock,  \* vault.lock exists
  envFile,    \* ~/.hermes/.env: [exists, lines]
  pool,       \* credential_pool.anthropic of auth.json, a set of credentials
  shell,      \* [Shell -> its step and the locals of its command]
  shellCommands, outside,  \* bounds
  given,      \* history: keys with a static value the user has given and not taken back
  shared      \* history: a command overlapped another or an edit

credVars == <<vault, vaultLock, envFile, pool, shell, shellCommands, outside, given, shared>>
credFiles == <<vault, vaultLock, envFile, pool>>

-----------------------------------------------------------------------------
Empty == [k \in {} |-> Static]
NoEnv == [exists |-> FALSE, lines |-> <<>>]
EnvOf(lines) == [exists |-> TRUE, lines |-> lines]
Credential == {"env exhausted", "env ok", "claude_code ok"}

Idle == [step |-> "idle", op |-> "none", vault |-> Empty, lines |-> <<>>,
         found |-> {}, pool |-> {}]
Mine(p) == shell[p]
Busy(p) == Mine(p).step # "idle"
AnyBusy == \E p \in Shell : Busy(p)
At(p, step) == Mine(p).step = step
Goto(p, me) == shell' = [shell EXCEPT ![p] = me]
Done(p) == Goto(p, Idle)

Init ==
  /\ vault = Empty /\ vaultLock = FALSE
  /\ envFile \in {NoEnv, EnvOf(<<[key |-> "DISCORD_BOT_TOKEN", val |-> Static]>>),
                  EnvOf(<<[key |-> "ANTHROPIC_API_KEY", val |-> Placeholder]>>)}
  /\ pool \in {{}, {"env exhausted", "claude_code ok"}}
  /\ shell = [p \in Shell |-> Idle]
  /\ shellCommands = 0 /\ outside = 0
  /\ given = {l.key : l \in {m \in ToSet(envFile.lines) : m.val = Static}}
  /\ shared = FALSE

Begin(p, op, step) ==
  /\ ~Busy(p) /\ shellCommands < MaxShellCommands
  /\ shellCommands' = shellCommands + 1
  /\ shared' = (shared \/ AnyBusy)
  /\ Goto(p, [Idle EXCEPT !.step = step, !.op = op])
  /\ UNCHANGED <<credFiles, outside, given>>

Run(p) == Begin(p, "run", "sync vault")
Setup(p) == \E op \in {"setup", "setup delete"} : Begin(p, op, "import load")
Doctor(p) == Begin(p, "doctor", "diagnose vault")
Clean(p) == Begin(p, "clean", "clean read")

(* ---- _sync_vault_to_env ------------------------------------------------ *)

\* What is put into .env; get() raises when the vault is locked.
Exported(v) == [k \in DOMAIN v \ NeverInject |-> v[k]]

SyncVault(p) ==
  /\ At(p, "sync vault")
  /\ IF \/ vault = Empty
        \/ vaultLock /\ Exported(vault) # Empty
        \/ Exported(vault) = Empty /\ ~envFile.exists
     THEN Done(p)
     ELSE Goto(p, [Mine(p) EXCEPT !.step = "sync read", !.vault = Exported(vault)])
  /\ UNCHANGED <<credFiles, shellCommands, outside, given, shared>>

Leaked(line) == line.key \in NeverInject /\ line.val = OAuth

\* Faulty variant: a key of the vault is appended, wherever it stood before.
MergedAppends(lines, v) ==
  LET own == Kept(lines, LAMBDA l : ~Leaked(l))
  IN own \o SetToSeq({[key |-> k, val |-> v[k]] : k \in DOMAIN v})

\* Lines of the vault's keys get its values and lose their repetitions, OAuth
\* lines go, all others stay; what is missing is appended.
Merged(lines, v) ==
  LET first(i) == \A j \in 1..(i - 1) : lines[j].key # lines[i].key
      keep == {i \in DOMAIN lines : IF lines[i].key \in DOMAIN v THEN first(i) ELSE ~Leaked(lines[i])}
      new(line) == IF line.key \in DOMAIN v THEN [line EXCEPT !.val = v[line.key]] ELSE line
      missing == DOMAIN v \ {l.key : l \in ToSet(lines)}
  IN Sublist([i \in DOMAIN lines |-> new(lines[i])], keep)
     \o SetToSeq({[key |-> k, val |-> v[k]] : k \in missing})

SyncRead(p) ==
  /\ At(p, "sync read")
  /\ Goto(p, [Mine(p) EXCEPT !.step = "truncate", !.lines = Merged(envFile.lines, Mine(p).vault)])
  /\ UNCHANGED <<credFiles, shellCommands, outside, given, shared>>

\* write_text of whoever rewrites .env.
Truncate(p) ==
  /\ At(p, "truncate")
  /\ envFile' = EnvOf(<<>>)
  /\ Goto(p, [Mine(p) EXCEPT !.step = "write"])
  /\ UNCHANGED <<vault, vaultLock, pool, shellCommands, outside, given, shared>>

Write(p) ==
  /\ At(p, "write")
  /\ envFile' = EnvOf(Mine(p).lines)
  /\ IF Mine(p).op = "doctor" THEN Goto(p, [Mine(p) EXCEPT !.step = "heal pool", !.lines = <<>>])
     ELSE Done(p)
  /\ UNCHANGED <<vault, vaultLock, pool, shellCommands, outside, given, shared>>

(* ---- migrate_env_to_vault, setup ---------------------------------------- *)

\* set() of every line in order, but the placeholders; not stopped by the lock.
Imported(v, lines) ==
  LET real(k) == {i \in DOMAIN lines : lines[i].key = k /\ lines[i].val # Placeholder}
      last(k) == CHOOSE i \in real(k) : \A j \in real(k) : j <= i
  IN [k \in DOMAIN v \cup {l \in Key : real(l) # {}} |->
        IF real(k) # {} THEN lines[last(k)].val ELSE v[k]]

ImportLoad(p) ==
  /\ At(p, "import load")
  /\ Goto(p, IF envFile.exists THEN [Mine(p) EXCEPT !.step = "import", !.vault = vault]
             ELSE [Mine(p) EXCEPT !.step = "sync vault"])
  /\ UNCHANGED <<credFiles, shellCommands, outside, given, shared>>

\* Faulty variant: the original is deleted before it was read again.
ImportDeletes(p) ==
  /\ At(p, "import")
  /\ vault' = IF Mine(p).op = "setup" THEN Imported(Mine(p).vault, envFile.lines) ELSE Mine(p).vault
  /\ envFile' = IF Mine(p).op = "setup" THEN envFile ELSE NoEnv
  /\ Goto(p, [Mine(p) EXCEPT !.step = "sync vault", !.vault = Empty])
  /\ UNCHANGED <<vaultLock, pool, shellCommands, outside, given, shared>>

\* When the user has confirmed it, all of it once more, with the deletion.
Import(p) ==
  /\ At(p, "import") /\ envFile.exists
  /\ vault' = Imported(Mine(p).vault, envFile.lines)
  /\ Goto(p, [Mine(p) EXCEPT !.step = IF Mine(p).op = "setup" THEN "sync vault" ELSE "delete load",
                             !.vault = Empty])
  /\ UNCHANGED <<vaultLock, envFile, pool, shellCommands, outside, given, shared>>

DeleteLoad(p) ==
  /\ At(p, "delete load")
  /\ Goto(p, IF envFile.exists THEN [Mine(p) EXCEPT !.step = "delete", !.vault = vault]
             ELSE [Mine(p) EXCEPT !.step = "sync vault"])
  /\ UNCHANGED <<credFiles, shellCommands, outside, given, shared>>

\* The file is gone since it was found: the command dies.
EnvGone(p) ==
  /\ Mine(p).step \in {"import", "delete"} /\ ~envFile.exists
  /\ Done(p)
  /\ UNCHANGED <<credFiles, shellCommands, outside, given, shared>>

\* The overwriting with zeros is not told apart from the removal.
Delete(p) ==
  /\ At(p, "delete") /\ envFile.exists
  /\ vault' = Imported(Mine(p).vault, envFile.lines)
  /\ envFile' = NoEnv
  /\ Goto(p, [Mine(p) EXCEPT !.step = "sync vault", !.vault = Empty])
  /\ UNCHANGED <<vaultLock, pool, shellCommands, outside, given, shared>>

(* ---- vault set, vault remove ------------------------------------------- *)

\* The guard refuses OAuth tokens, unless --allow-oauth. (An OAuth line of the
\* key in .env makes the next setup put that back: the key is not given.)
VaultSet(p, k, v, allow) ==
  /\ ~Busy(p) /\ shellCommands < MaxShellCommands
  /\ v = OAuth => allow
  /\ shellCommands' = shellCommands + 1
  /\ vault' = [n \in DOMAIN vault \cup {k} |-> IF n = k THEN v ELSE vault[n]]
  /\ given' = IF v = Static /\ [key |-> k, val |-> OAuth] \notin ToSet(envFile.lines)
              THEN given \cup {k} ELSE given \ {k}
  /\ shared' = (shared \/ AnyBusy)
  /\ UNCHANGED <<vaultLock, envFile, pool, shell, outside>>

VaultRemove(p, k) ==
  /\ ~Busy(p) /\ shellCommands < MaxShellCommands
  /\ shellCommands' = shellCommands + 1
  /\ vault' = [n \in DOMAIN vault \ {k} |-> vault[n]]
  /\ given' = given \ {k}
  /\ shared' = (shared \/ AnyBusy)
  /\ UNCHANGED <<vaultLock, envFile, pool, shell, outside>>

(* ---- vault doctor --fix ------------------------------------------------- *)

Stale(credentials) == credentials \cap {"env exhausted"}
OAuthKeys(v) == {k \in DOMAIN v : v[k] = OAuth}

\* What each of the three looks makes a finding of severity error or warning;
\* a locked vault is not looked into.
VaultFinding == IF ~vaultLock /\ OAuthKeys(vault) # {} THEN {"vault"} ELSE {}
EnvFinding == IF \E l \in ToSet(envFile.lines) : Leaked(l) THEN {"env"} ELSE {}
PoolFinding == IF Stale(pool) # {} THEN {"pool"} ELSE {}
Findings == VaultFinding \cup EnvFinding \cup PoolFinding

\* The keys to remove are remembered.
DiagnoseVault(p) ==
  /\ At(p, "diagnose vault")
  /\ Goto(p, [Mine(p) EXCEPT !.step = "diagnose env", !.found = VaultFinding,
                             !.vault = IF VaultFinding = {} THEN Empty
                                       ELSE [k \in OAuthKeys(vault) |-> OAuth]])
  /\ UNCHANGED <<credFiles, shellCommands, outside, given, shared>>

DiagnoseEnv(p) ==
  /\ At(p, "diagnose env")
  /\ Goto(p, [Mine(p) EXCEPT !.step = "diagnose pool", !.found = @ \cup EnvFinding])
  /\ UNCHANGED <<credFiles, shellCommands, outside, given, shared>>

DiagnosePool(p) ==
  LET found == Mine(p).found \cup PoolFinding
  IN /\ At(p, "diagnose pool")
     /\ IF found = {} THEN Done(p) ELSE Goto(p, [Mine(p) EXCEPT !.step = "heal vault", !.found = found])
     /\ UNCHANGED <<credFiles, shellCommands, outside, given, shared>>

\* Faulty variant: the first finding that can be healed is the last.
HealVaultOnly(p) ==
  /\ At(p, "heal vault")
  /\ vault' = [k \in DOMAIN vault \ DOMAIN Mine(p).vault |-> vault[k]]
  /\ IF "vault" \in Mine(p).found THEN Done(p)
     ELSE Goto(p, [Mine(p) EXCEPT !.step = "heal env", !.vault = Empty])
  /\ UNCHANGED <<vaultLock, envFile, pool, shellCommands, outside, given, shared>>

\* remove() of each key, not stopped by the lock.
HealVault(p) ==
  /\ At(p, "heal vault")
  /\ vault' = [k \in DOMAIN vault \ DOMAIN Mine(p).vault |-> vault[k]]
  /\ Goto(p, [Mine(p) EXCEPT !.step = "heal env", !.vault = Empty])
  /\ UNCHANGED <<vaultLock, envFile, pool, shellCommands, outside, given, shared>>

HealEnv(p) ==
  /\ At(p, "heal env")
  /\ Goto(p, IF "env" \in Mine(p).found /\ envFile.exists
             THEN [Mine(p) EXCEPT !.step = "truncate",
                                  !.lines = Kept(envFile.lines, LAMBDA l : ~Leaked(l))]
             ELSE [Mine(p) EXCEPT !.step = "heal pool"])
  /\ UNCHANGED <<credFiles, shellCommands, outside, given, shared>>

\* auth.json is read here, and written in one step (what the doctor drops of
\* it is put there by hermes, which writes it too).
HealPool(p) ==
  /\ At(p, "heal pool")
  /\ IF "pool" \in Mine(p).found
     THEN Goto(p, [Mine(p) EXCEPT !.step = "write pool", !.pool = pool \ Stale(pool)])
     ELSE Done(p)
  /\ UNCHANGED <<credFiles, shellCommands, outside, given, shared>>

WritePool(p) ==
  /\ At(p, "write pool")
  /\ pool' = Mine(p).pool
  /\ Done(p)
  /\ UNCHANGED <<vault, vaultLock, envFile, shellCommands, outside, given, shared>>

(* ---- clean_old_setup ----------------------------------------------------- *)

\* Without a placeholder nothing is written; without anything else the file goes.
CleanRead(p) ==
  LET left == Kept(envFile.lines, LAMBDA l : l.val # Placeholder)
  IN /\ At(p, "clean read")
     /\ IF ~envFile.exists \/ Len(left) = Len(envFile.lines) THEN Done(p)
        ELSE Goto(p, [Mine(p) EXCEPT !.step = IF left = <<>> THEN "unlink" ELSE "truncate",
                                     !.lines = left])
     /\ UNCHANGED <<credFiles, shellCommands, outside, given, shared>>

Unlink(p) ==
  /\ At(p, "unlink")
  /\ envFile' = NoEnv
  /\ Done(p)
  /\ UNCHANGED <<vault, vaultLock, pool, shellCommands, outside, given, shared>>

(* ---- hermes, the user and the circuit breaker ---------------------------- *)

\* A line is appended to .env. (Of a key that the vault holds with an OAuth token
\* the next merge writes that over the line: the key is not given.)
EditEnv(line) ==
  /\ outside < MaxOutside
  /\ outside' = outside + 1
  /\ envFile' = EnvOf(Append(envFile.lines, line))
  /\ given' = IF line.val = Static /\ line.key \notin OAuthKeys(vault)
              THEN given \cup {line.key} ELSE given \ {line.key}
  /\ shared' = (shared \/ AnyBusy)
  /\ UNCHANGED <<vault, vaultLock, pool, shell, shellCommands>>

\* lock_vault, and vault unlock.
ToggleLock ==
  /\ outside < MaxOutside
  /\ outside' = outside + 1
  /\ vaultLock' = ~vaultLock
  /\ shared' = (shared \/ AnyBusy)
  /\ UNCHANGED <<vault, envFile, pool, shell, shellCommands, given>>

-----------------------------------------------------------------------------
Next ==
  \/ \E p \in Shell :
       \/ Run(p) \/ SyncVault(p) \/ SyncRead(p) \/ Truncate(p) \/ Write(p)
       \/ Setup(p) \/ ImportLoad(p) \/ Import(p) \/ DeleteLoad(p) \/ Delete(p) \/ EnvGone(p)
       \/ \E secret \in Offered, allow \in BOOLEAN : VaultSet(p, secret.key, secret.val, allow)
       \/ \E k \in Key : VaultRemove(p, k)
       \/ Doctor(p) \/ DiagnoseVault(p) \/ DiagnoseEnv(p) \/ DiagnosePool(p)
       \/ HealVault(p) \/ HealEnv(p) \/ HealPool(p) \/ WritePool(p)
       \/ Clean(p) \/ CleanRead(p) \/ Unlink(p)
  \/ \E line \in Offered : EditEnv(line)
  \/ ToggleLock

Spec == Init /\ [][Next]_credVars

-----------------------------------------------------------------------------
TypeOK ==
  /\ DOMAIN vault \subseteq Key /\ \A k \in DOMAIN vault : vault[k] \in {Static, OAuth}
  /\ envFile.exists \in BOOLEAN /\ ToSet(envFile.lines) \subseteq Line
  /\ ~envFile.exists => envFile.lines = <<>>
  /\ pool \subseteq Credential /\ given \subseteq Key
  /\ \A p \in Shell : ToSet(Mine(p).lines) \subseteq Line

\* A key the user has given stays in the vault or in .env, with a value of its
\* own, whatever is imported, merged, deleted, healed and cleaned afterwards, in
\* any order, one at a time.
Somewhere ==
  {k \in DOMAIN vault : vault[k] = Static}
    \cup {l.key : l \in {m \in ToSet(envFile.lines) : m.val = Static}}
KeysKept == (~shared /\ ~AnyBusy) => given \subseteq Somewhere

\* A doctor at work on its own, on a vault that is not locked, leaves nothing
\* that it or the next doctor would report as an error.
DoctorHeals ==
  \A p \in Shell :
    (Mine(p).op = "doctor" /\ Busy(p) /\ ~Busy(p)' /\ ~vaultLock /\ ~shared) => Findings' = {}

\* A merge on its own leaves every line alone that is not of a key of the vault
\* ("do NOT clobber unrelated entries"), in order, but for the OAuth lines; and
\* hermes finds every key of the vault once, with the value of the vault.
Foreign(lines, v) == Kept(lines, LAMBDA l : l.key \notin DOMAIN Exported(v) /\ ~Leaked(l))
Exact(lines, v) ==
  \A k \in DOMAIN Exported(v) :
    Cardinality({i \in DOMAIN lines : lines[i].key = k}) = 1
    /\ [key |-> k, val |-> v[k]] \in ToSet(lines)
MergeRight ==
  \A p \in Shell :
    (At(p, "sync read") /\ At(p, "truncate")') =>
       /\ Foreign(Mine(p)'.lines, Mine(p).vault) = Foreign(envFile.lines, Mine(p).vault)
       /\ Exact(Mine(p)'.lines, Mine(p).vault)
=============================================================================
