----------------------------- MODULE VaultStore -----------------------------
(***************************************************************************)
(* The vault: the master key in the OS keyring (vault/keyring_store.py),   *)
(* the file of encrypted secrets (vault/store.py) with its temporary file, *)
(* and the commands of cli.py that read and write it. The lock, which only *)
(* stops a read after it was loaded, is with the commands of Credentials.  *)
(*                                                                         *)
(* A name is bound to a file, and whoever has a file open keeps it when    *)
(* the name is bound to another: every writer opens the same vault.tmp.    *)
(* A call to the keyring, a read, an open, a write and a rename are the    *)
(* steps.                                                                  *)
(***************************************************************************)
EXTENDS Integers, FiniteSets

CONSTANTS
  Client,                            \* hermes-aegis processes
  SecretName,                        \* names of secrets
  MaxUses, MaxKills                  \* bounds

VARIABLES
  keyring,    \* the master key, the number of the use that made it
  vaultFile,  \* the file vault.enc names
  tmpFile,    \* the file vault.tmp names
  contents,   \* [file -> what it holds]
  client,     \* [Client -> its step and the locals of its command]
  uses, kills,  \* bounds
  intended,   \* history: the secrets, if the commands had been executed in turn
  met         \* history: two uses of the vault overlapped

vaultVars == <<keyring, vaultFile, tmpFile, contents, client, uses, kills, intended, met>>
counters == <<uses, kills>>

-----------------------------------------------------------------------------
NoKey == 0
NoFile == 0
Files == 1..(Cardinality(Client) + 1)   \* a rename gives back the file the name was bound to

\* A file holds the entries of a JSON object, or nothing of that kind.
Nothing == [name \in {} |-> 0]
Holding(entries) == [json |-> TRUE, entries |-> entries]
Torn == [json |-> FALSE, entries |-> Nothing]

\* An entry: the use that stored it and the master key it is encrypted with.
Entry(use, key) == [use |-> use, key |-> key]
With(entries, name, e) == [n \in DOMAIN entries \cup {name} |-> IF n = name THEN e ELSE entries[n]]
Without(entries, name) == [n \in DOMAIN entries \ {name} |-> entries[n]]

Out == [step |-> "out", op |-> "none", name |-> "none", use |-> 0, key |-> NoKey,
        entries |-> Nothing, fd |-> NoFile]
Me(c) == client[c]
In(c) == Me(c).step # "out"
Become(c, me) == client' = [client EXCEPT ![c] = me]
Leave(c) == Become(c, Out)

Init ==
  /\ keyring = NoKey /\ vaultFile = NoFile /\ tmpFile = NoFile
  /\ contents = [f \in Files |-> Torn]
  /\ client = [c \in Client |-> Out]
  /\ uses = 0 /\ kills = 0
  /\ intended = Nothing /\ met = FALSE

(* ---- commands ---------------------------------------------------------- *)

Use(c, op, name) ==
  /\ ~In(c) /\ uses < MaxUses
  /\ uses' = uses + 1
  /\ Become(c, [Out EXCEPT !.step = "key", !.op = op, !.name = name, !.use = uses + 1])
  /\ met' = (met \/ \E d \in Client : In(d))
  /\ UNCHANGED <<keyring, vaultFile, tmpFile, contents, kills, intended>>

\* vault set, setup and the import of .env, for each name; vault remove and
\* vault doctor --fix; run, start and whoever else reads the secrets.
Set(c, name) == Use(c, "set", name)
Remove(c, name) == Use(c, "remove", name)
ReadAll(c) == Use(c, "read", "none")

(* ---- get_or_create_master_key ------------------------------------------ *)

GetKey(c) ==
  /\ Me(c).step = "key"
  /\ Become(c, IF keyring = NoKey THEN [Me(c) EXCEPT !.step = "keep"]
               ELSE [Me(c) EXCEPT !.step = "load", !.key = keyring])
  /\ UNCHANGED <<keyring, vaultFile, tmpFile, contents, counters, intended, met>>

KeepKey(c) ==
  /\ Me(c).step = "keep"
  /\ keyring' = Me(c).use
  /\ Become(c, [Me(c) EXCEPT !.step = "load", !.key = Me(c).use])
  /\ UNCHANGED <<vaultFile, tmpFile, contents, counters, intended, met>>

(* ---- VaultStore --------------------------------------------------------- *)

OnDisk == IF vaultFile = NoFile THEN Holding(Nothing) ELSE contents[vaultFile]

Changed(me, entries) ==
  CASE me.op = "set" -> With(entries, me.name, Entry(me.use, me.key))
    [] me.op = "remove" -> Without(entries, me.name)
    [] OTHER -> entries

\* Faulty variant: the object starts without the entries on disk.
LoadNothing(c) ==
  /\ Me(c).step = "load"
  /\ Become(c, [Me(c) EXCEPT !.step = IF Me(c).op = "read" THEN "decrypt" ELSE "open",
                             !.entries = Changed(Me(c), Nothing)])
  /\ UNCHANGED <<keyring, vaultFile, tmpFile, contents, counters, intended, met>>

\* The constructor, and the change in memory; a torn file is an exception.
Load(c) ==
  /\ Me(c).step = "load"
  /\ IF ~OnDisk.json THEN Leave(c)
     ELSE Become(c, [Me(c) EXCEPT !.step = IF Me(c).op = "read" THEN "decrypt" ELSE "open",
                                  !.entries = Changed(Me(c), OnDisk.entries)])
  /\ UNCHANGED <<keyring, vaultFile, tmpFile, contents, counters, intended, met>>

\* get and get_all_values.
Decrypt(c) ==
  /\ Me(c).step = "decrypt"
  /\ Leave(c)
  /\ UNCHANGED <<keyring, vaultFile, tmpFile, contents, counters, intended, met>>

\* Files nobody has a name for, or has open.
Unused == Files \ ({vaultFile, tmpFile} \cup {Me(c).fd : c \in Client})

\* write_text of vault.tmp truncates the file of that name, if there is one.
OpenTmp(c) ==
  LET f == IF tmpFile # NoFile THEN tmpFile ELSE CHOOSE g \in Unused : TRUE
  IN /\ Me(c).step = "open"
     /\ tmpFile' = f
     /\ contents' = [contents EXCEPT ![f] = Torn]
     /\ Become(c, [Me(c) EXCEPT !.step = "write", !.fd = f])
     /\ UNCHANGED <<keyring, vaultFile, counters, intended, met>>

\* What is written over a longer text leaves its end standing.
WriteTmp(c) ==
  LET f == Me(c).fd
      longer == contents[f].json
                /\ Cardinality(DOMAIN contents[f].entries) > Cardinality(DOMAIN Me(c).entries)
  IN /\ Me(c).step = "write"
     /\ contents' = [contents EXCEPT ![f] = IF longer THEN Torn ELSE Holding(Me(c).entries)]
     /\ Become(c, [Me(c) EXCEPT !.step = "replace", !.fd = NoFile, !.entries = Nothing])
     /\ UNCHANGED <<keyring, vaultFile, tmpFile, counters, intended, met>>

\* The rename; without a file of that name it is an exception.
Replace(c) ==
  /\ Me(c).step = "replace"
  /\ IF tmpFile = NoFile THEN UNCHANGED <<vaultFile, tmpFile>>
     ELSE vaultFile' = tmpFile /\ tmpFile' = NoFile
  /\ intended' = Changed(Me(c), intended)
  /\ Leave(c)
  /\ UNCHANGED <<keyring, contents, counters, met>>

Kill(c) ==
  /\ In(c) /\ kills < MaxKills
  /\ kills' = kills + 1
  /\ Leave(c)
  /\ UNCHANGED <<keyring, vaultFile, tmpFile, contents, uses, intended, met>>

-----------------------------------------------------------------------------
Next ==
  \E c \in Client :
    \/ \E name \in SecretName : Set(c, name) \/ Remove(c, name)
    \/ ReadAll(c)
    \/ GetKey(c) \/ KeepKey(c) \/ Load(c) \/ Decrypt(c)
    \/ OpenTmp(c) \/ WriteTmp(c) \/ Replace(c) \/ Kill(c)

Spec == Init /\ [][Next]_vaultVars

-----------------------------------------------------------------------------
TypeOK ==
  /\ keyring \in 0..MaxUses /\ {vaultFile, tmpFile} \subseteq {NoFile} \cup Files
  /\ vaultFile # NoFile => vaultFile # tmpFile
  /\ \A f \in Files : DOMAIN contents[f].entries \subseteq SecretName
  /\ \A c \in Client : DOMAIN Me(c).entries \subseteq SecretName
  /\ \A c \in Client : Me(c).step = "open" /\ tmpFile = NoFile => Unused # {}

\* Commands in turn, among them some that are killed wherever they are, lose no
\* secret and revive none: the vault can be read ("safe against mid-write
\* corruption"), what is in it is what was set last and has not been removed, and
\* the master key in the keyring decrypts it.
SecretsKept ==
  ~met =>
    /\ OnDisk.json
    /\ DOMAIN OnDisk.entries = DOMAIN intended
    /\ \A name \in DOMAIN intended :
         OnDisk.entries[name].use = intended[name].use /\ OnDisk.entries[name].key = keyring
=============================================================================
