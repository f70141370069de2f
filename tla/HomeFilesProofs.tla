--------------------------- MODULE HomeFilesProofs ---------------------------
(***************************************************************************)
(* The files that hermes-aegis and what runs beside it rewrite: what the   *)
(* run of AegisHomeMC shows of the vault, the lists, the approvals, the    *)
(* rules file, the reports and the patches of hermes-agent's source, for   *)
(* any number of processes, of secrets, items, commands, versions, edits   *)
(* and kills.                                                              *)
(*                                                                         *)
(* Uses of the vault in turn lose no secret and revive none: until two     *)
(* uses meet, one process at most is inside, and it is enough to say at    *)
(* each of its steps what it holds: its entries are what the vault is to   *)
(* hold next, and nobody can have the file open that vault.tmp names.      *)
(*                                                                         *)
(* Edits of a list are alike, without a second file. The proxy's copy is   *)
(* read before the mtime it is remembered with, so that what matters is    *)
(* that nothing is written in between, or within one unit of it.           *)
(*                                                                         *)
(* Whoever holds a copy of the approvals holds leaves that were given, and *)
(* a revocation while somebody else holds one is an overtaking. A rules    *)
(* file that only commands and edits in turn have written has every name   *)
(* once, so that what is saved is what was loaded, switched or completed.  *)
(*                                                                         *)
(* A digest takes long, and others may answer, fail or die meanwhile. What *)
(* makes the answer of each safe is that its prompt, with what others      *)
(* covered, holds every entry from before it was asked (InPrompt). An      *)
(* action is unrecorded only from its execution to its entry, which no     *)
(* other step of the same investigation can come between (LastAtMost).     *)
(*                                                                         *)
(* A truncated file has neither a target nor a patch, so that who reads it *)
(* writes nothing, and who truncated it has the source (SourceHeld). A     *)
(* pass that is alone has done, at each patch, what those before it, or    *)
(* after it when it reverts, called for (PassSoFar).                       *)
(*                                                                         *)
(* The matcher keeps no state: what it answers is a fact about the search  *)
(* (FindsFirst of SequenceProofs).                                         *)
(*                                                                         *)
(* Most types are in these invariants; those that are not hold however     *)
(* processes overlap, as that a file is free for vault.tmp (VaultKinds).   *)
(***************************************************************************)
EXTENDS AegisHomeMC, SequenceProofs

(* -------- the vault ------------------------------------------------------- *)

Secret == [use : Nat, key : Nat]
Dictionary == UNION {[D -> Secret] : D \in SUBSET SecretName}
ClientState ==
  [step : {"out", "key", "keep", "load", "decrypt", "open", "write", "replace"},
   op : {"none", "set", "remove", "read"}, name : SecretName \cup {"none"},
   use : Nat, key : Nat, entries : Dictionary, fd : {Vault!NoFile} \cup Vault!Files]

VaultData ==
  /\ uses \in Nat /\ keyring \in Nat
  /\ vaultFile \in {Vault!NoFile} \cup Vault!Files /\ tmpFile \in {Vault!NoFile} \cup Vault!Files
  /\ contents \in [Vault!Files -> [json : BOOLEAN, entries : Dictionary]]
  /\ intended \in Dictionary

VaultTyped == VaultData /\ client \in [Process -> ClientState]

\* Entries are the ones intended, under the master key in the keyring.
Hold(held, meant) ==
  /\ DOMAIN held = DOMAIN meant
  /\ \A name \in DOMAIN meant : held[name].use = meant[name].use /\ held[name].key = keyring

\* What a process has made sure of when it is at its step.
Prepared(c) ==
  LET me == Vault!Me(c)
      next == Vault!Changed(me, intended)
  IN /\ Vault!In(c) => me.use # 0
     /\ me.op = "set" => me.name \in SecretName
     /\ me.step # "write" => me.fd = Vault!NoFile
     /\ me.step = "keep" => keyring = Vault!NoKey
     /\ me.step \in {"load", "decrypt", "open", "write", "replace"} =>
          me.key = keyring /\ keyring # Vault!NoKey
     /\ me.step \in {"open", "write"} => Hold(me.entries, next)
     /\ me.step = "write" => tmpFile # Vault!NoFile /\ me.fd = tmpFile /\ ~contents[tmpFile].json
     /\ me.step = "replace" =>
          tmpFile # Vault!NoFile /\ contents[tmpFile].json /\ Hold(contents[tmpFile].entries, next)

VaultSound ==
  /\ Vault!OnDisk.json /\ Hold(Vault!OnDisk.entries, intended)
  /\ keyring = Vault!NoKey => DOMAIN intended = {}
  /\ tmpFile # Vault!NoFile => tmpFile # vaultFile

Sole(c) == \A d \in Process \ {c} : ~Vault!In(d)

VaultInv ==
  ~met => /\ VaultTyped /\ VaultSound
          /\ \A c \in Process : Vault!In(c) => Sole(c)
          /\ \A c \in Process : Prepared(c)

(* ---- dictionaries ------------------------------------------------------- *)

\* Names and what is stored under them.
LEMMA DictionaryType ==
  ASSUME NEW E \in Dictionary
  PROVE  DOMAIN E \subseteq SecretName /\ \A n \in DOMAIN E : E[n] \in Secret
BY DEF Dictionary

\* A dictionary without names.
LEMMA NothingType == Vault!Nothing \in Dictionary /\ DOMAIN Vault!Nothing = {}
<1>1. Vault!Nothing \in [{} -> Secret]
  BY DEF Vault!Nothing
<1>2. {} \in SUBSET SecretName
  OBVIOUS
<1> QED
  BY <1>1, <1>2, Zenon DEF Dictionary, Vault!Nothing

\* The change of a command to some entries (With, Without) is a dictionary.
LEMMA ChangedType ==
  ASSUME NEW me \in ClientState, me.op = "set" => me.name \in SecretName, NEW E \in Dictionary
  PROVE  Vault!Changed(me, E) \in Dictionary
<1>1. DOMAIN E \subseteq SecretName /\ \A n \in DOMAIN E : E[n] \in Secret
  BY DictionaryType
<1>2. CASE me.op = "set"
  <2>1. Vault!Changed(me, E) = Vault!With(E, me.name, Vault!Entry(me.use, me.key))
    BY <1>2 DEF Vault!Changed
  <2>2. Vault!Entry(me.use, me.key) \in Secret
    BY DEF Vault!Entry, Secret, ClientState
  <2>3. Vault!With(E, me.name, Vault!Entry(me.use, me.key)) \in [DOMAIN E \cup {me.name} -> Secret]
    BY <1>1, <2>2 DEF Vault!With
  <2>4. DOMAIN E \cup {me.name} \in SUBSET SecretName
    BY <1>1, <1>2
  <2> QED
    BY <2>1, <2>3, <2>4, Zenon DEF Dictionary
<1>3. CASE me.op = "remove"
  <2>1. Vault!Changed(me, E) = Vault!Without(E, me.name)
    BY <1>3 DEF Vault!Changed
  <2>2. Vault!Without(E, me.name) \in [DOMAIN E \ {me.name} -> Secret]
    BY <1>1 DEF Vault!Without
  <2>3. DOMAIN E \ {me.name} \in SUBSET SecretName
    BY <1>1
  <2> QED
    BY <2>1, <2>2, <2>3, Zenon DEF Dictionary
<1>4. CASE me.op \notin {"set", "remove"}
  BY <1>4 DEF Vault!Changed
<1> QED
  BY <1>2, <1>3, <1>4

\* A command changes what is there as it changes what is meant.
LEMMA ChangedHolds ==
  ASSUME NEW me \in ClientState, me.key = keyring,
         NEW E \in Dictionary, NEW I \in Dictionary, Hold(E, I)
  PROVE  Hold(Vault!Changed(me, E), Vault!Changed(me, I))
<1>1. CASE me.op = "set"
  <2>1. Vault!Entry(me.use, me.key).key = keyring
    BY DEF Vault!Entry
  <2> QED
    BY <1>1, <2>1 DEF Vault!Changed, Vault!With, Hold
<1>2. CASE me.op = "remove"
  BY <1>2 DEF Vault!Changed, Vault!Without, Hold
<1>3. CASE me.op \notin {"set", "remove"}
  BY <1>3 DEF Vault!Changed
<1> QED
  BY <1>1, <1>2, <1>3

(* ---- one step of the process inside ------------------------------------- *)

Inside(c) == VaultTyped /\ VaultSound /\ Sole(c) /\ \A d \in Process : Prepared(d)

\* A step of the only process inside leaves the others where they are: what is to
\* be shown is about the files and its own step.
LEMMA StepAlone ==
  ASSUME NEW c \in Process, NEW me \in ClientState, Inside(c), Vault!Become(c, me),
         VaultData', VaultSound', Vault!Me(c)' = me => Prepared(c)'
  PROVE  VaultInv'
<1>1. /\ client' \in [Process -> ClientState] /\ Vault!Me(c)' = me
      /\ \A d \in Process \ {c} : Vault!Me(d)' = Vault!Me(d)
  BY DEF Vault!Become, Inside, VaultTyped, Vault!Me
<1>2. VaultTyped'
  BY <1>1 DEF VaultData, VaultTyped
<1>3. Sole(c)' /\ \A d \in Process \ {c} : ~Vault!In(d)'
  BY <1>1 DEF Sole, Vault!In, Inside
<1>4. \A d \in Process : Vault!In(d)' => Sole(d)'
  BY <1>3 DEF Sole
<1>5. ASSUME NEW d \in Process \ {c} PROVE Prepared(d)'
  <2>1. Vault!Me(d)'.step = "out" /\ Vault!Me(d)' = Vault!Me(d)
    BY <1>1, <1>3 DEF Vault!In
  <2>2. Vault!Me(d)'.fd = Vault!NoFile /\ (Vault!Me(d)'.op = "set" => Vault!Me(d)'.name \in SecretName)
    BY <2>1 DEF Inside, Prepared
  <2> QED
    BY <2>1, <2>2 DEF Prepared, Vault!In
<1> QED
  BY <1>1, <1>2, <1>4, <1>5 DEF VaultInv

\* A process outside the vault.
LEMMA OutType == Vault!Out \in ClientState
BY NothingType DEF Vault!Out, ClientState, Vault!NoKey

\* A process that ends leaves nothing to be shown of it.
LEMMA LeaveAlone ==
  ASSUME NEW c \in Process, Inside(c), Vault!Leave(c), VaultData', VaultSound'
  PROVE  VaultInv'
<1>1. Vault!Out \in ClientState /\ Vault!Become(c, Vault!Out)
  BY OutType DEF Vault!Leave
<1>2. Vault!Me(c)' = Vault!Out => Prepared(c)'
  BY DEF Prepared, Vault!Out, Vault!In
<1> QED
  BY <1>1, <1>2, StepAlone

\* What is on disk and in the keyring is as it was.
LEMMA SameVaultData ==
  ASSUME NEW c \in Process, Inside(c),
         UNCHANGED <<keyring, vaultFile, tmpFile, contents, intended>>, uses' \in Nat
  PROVE  VaultData' /\ VaultSound'
<1>1. VaultData'
  BY DEF Inside, VaultTyped, VaultData
<1>2. VaultSound'
  BY DEF Inside, VaultSound, Vault!OnDisk, Hold
<1> QED
  BY <1>1, <1>2

\* A command begins when nobody is inside, or two have met.
LEMMA UseAlone ==
  ASSUME VaultInv, NEW c \in Process, NEW op \in {"set", "remove", "read"},
         NEW name \in SecretName \cup {"none"}, op = "set" => name \in SecretName,
         Vault!Use(c, op, name), ~met'
  PROVE  VaultInv'
<1> DEFINE me == [Vault!Out EXCEPT !.step = "key", !.op = op, !.name = name, !.use = uses + 1]
<1>1. ~met /\ \A d \in Process : ~Vault!In(d)
  BY DEF Vault!Use
<1>2. Inside(c)
  BY <1>1 DEF VaultInv, Inside, Sole
<1>3. uses \in Nat
  BY <1>2 DEF Inside, VaultTyped, VaultData
<1>4. me \in ClientState
  <2>1. ASSUME NEW o \in ClientState, NEW use \in Nat
        PROVE  [o EXCEPT !.step = "key", !.op = op, !.name = name, !.use = use] \in ClientState
    BY DEF ClientState
  <2>2. uses + 1 \in Nat
    BY <1>3
  <2> QED
    BY <2>1, <2>2, OutType
<1>5. VaultData' /\ VaultSound'
  BY <1>2, <1>3, SameVaultData DEF Vault!Use
<1>6. me.step = "key" /\ me.use # 0 /\ me.fd = Vault!NoFile /\ me.op = op /\ me.name = name
  BY <1>3 DEF Vault!Out
<1>7. Vault!Me(c)' = me => Prepared(c)'
  BY <1>6 DEF Prepared
<1>8. Vault!Become(c, me)
  BY DEF Vault!Use
<1> HIDE DEF me
<1> QED
  BY <1>2, <1>4, <1>5, <1>7, <1>8, StepAlone

\* get_or_create_master_key: the key of the keyring, or one to be kept.
LEMMA GetKeyAlone ==
  ASSUME NEW c \in Process, Inside(c), Vault!GetKey(c) PROVE VaultInv'
<1> DEFINE me == IF keyring = Vault!NoKey THEN [Vault!Me(c) EXCEPT !.step = "keep"]
                 ELSE [Vault!Me(c) EXCEPT !.step = "load", !.key = keyring]
<1>1. Vault!Me(c) \in ClientState /\ keyring \in Nat /\ uses \in Nat
  BY DEF Inside, VaultTyped, VaultData, Vault!Me
<1>2. me \in ClientState
  BY <1>1 DEF ClientState
<1>3. VaultData' /\ VaultSound'
  BY <1>1, SameVaultData DEF Vault!GetKey, Vault!counters
<1>4. Vault!Me(c).use # 0 /\ Vault!Me(c).fd = Vault!NoFile /\ (Vault!Me(c).op = "set" => Vault!Me(c).name \in SecretName)
  BY DEF Inside, Prepared, Vault!GetKey, Vault!In
<1>5. /\ me.use = Vault!Me(c).use /\ me.fd = Vault!Me(c).fd /\ me.op = Vault!Me(c).op /\ me.name = Vault!Me(c).name
      /\ \/ keyring = Vault!NoKey /\ me.step = "keep"
         \/ keyring # Vault!NoKey /\ me.step = "load" /\ me.key = keyring
  BY <1>1 DEF ClientState
<1>6. Vault!Me(c)' = me => Prepared(c)'
  BY <1>4, <1>5 DEF Prepared, Vault!GetKey
<1>7. Vault!Become(c, me)
  BY DEF Vault!GetKey
<1> HIDE DEF me
<1> QED
  BY <1>2, <1>3, <1>6, <1>7, StepAlone

\* A new master key is kept while the vault is empty.
LEMMA KeepKeyAlone ==
  ASSUME NEW c \in Process, Inside(c), Vault!KeepKey(c) PROVE VaultInv'
<1> DEFINE me == [Vault!Me(c) EXCEPT !.step = "load", !.key = Vault!Me(c).use]
<1>1. Vault!Me(c) \in ClientState /\ VaultData /\ VaultSound
  BY DEF Inside, VaultTyped, Vault!Me
<1>2. me \in ClientState /\ Vault!Me(c).use \in Nat
  BY <1>1 DEF ClientState
<1>3. /\ Vault!Me(c).use # 0 /\ Vault!Me(c).fd = Vault!NoFile /\ (Vault!Me(c).op = "set" => Vault!Me(c).name \in SecretName)
      /\ keyring = Vault!NoKey
  BY DEF Inside, Prepared, Vault!KeepKey, Vault!In
<1>4. VaultData'
  BY <1>1, <1>2 DEF Vault!KeepKey, VaultData, Vault!counters
<1>5. VaultSound'
  BY <1>1, <1>3 DEF Vault!KeepKey, VaultSound, Vault!OnDisk, Hold, Vault!NoKey
<1>6. /\ me.use = Vault!Me(c).use /\ me.fd = Vault!Me(c).fd /\ me.op = Vault!Me(c).op /\ me.name = Vault!Me(c).name
      /\ me.step = "load" /\ me.key = Vault!Me(c).use
  BY <1>1 DEF ClientState
<1>7. Vault!Me(c)' = me => Prepared(c)'
  BY <1>3, <1>6 DEF Prepared, Vault!KeepKey, Vault!NoKey
<1>8. Vault!Become(c, me)
  BY DEF Vault!KeepKey
<1> HIDE DEF me
<1> QED
  BY <1>2, <1>4, <1>5, <1>7, <1>8, StepAlone

\* VaultStore: what was read is changed in memory as it is meant to be changed.
LEMMA LoadAlone ==
  ASSUME NEW c \in Process, Inside(c), Vault!Load(c) PROVE VaultInv'
<1> DEFINE E == Vault!Changed(Vault!Me(c), Vault!OnDisk.entries)
           after == IF Vault!Me(c).op = "read" THEN "decrypt" ELSE "open"
           me == [Vault!Me(c) EXCEPT !.step = after, !.entries = E]
<1>1. Vault!Me(c) \in ClientState /\ VaultData /\ VaultSound /\ uses' = uses /\ uses \in Nat
  BY DEF Inside, VaultTyped, VaultData, Vault!Me, Vault!Load, Vault!counters
<1>2. /\ Vault!Me(c).use # 0 /\ Vault!Me(c).fd = Vault!NoFile /\ (Vault!Me(c).op = "set" => Vault!Me(c).name \in SecretName)
      /\ Vault!Me(c).key = keyring /\ keyring # Vault!NoKey
  BY DEF Inside, Prepared, Vault!Load, Vault!In
<1>3. Vault!OnDisk.entries \in Dictionary /\ intended \in Dictionary
  BY <1>1, NothingType DEF Vault!OnDisk, VaultData, Vault!Holding
<1>4. E \in Dictionary
  BY <1>1, <1>2, <1>3, ChangedType
<1>5. Hold(Vault!OnDisk.entries, intended)
  BY <1>1 DEF VaultSound
<1>6. Hold(E, Vault!Changed(Vault!Me(c), intended))
  BY <1>1, <1>2, <1>3, <1>5, ChangedHolds
<1>7. Vault!Become(c, me) /\ UNCHANGED <<keyring, vaultFile, tmpFile, contents, intended>>
  BY <1>1 DEF Vault!Load, VaultSound
<1>8. VaultData' /\ VaultSound'
  BY <1>1, <1>7, SameVaultData
<1>9. /\ me \in ClientState
      /\ me.use = Vault!Me(c).use /\ me.fd = Vault!Me(c).fd /\ me.op = Vault!Me(c).op /\ me.name = Vault!Me(c).name
      /\ me.key = Vault!Me(c).key /\ me.step \in {"decrypt", "open"} /\ me.entries = E
  <2> HIDE DEF E
  <2> QED
    BY <1>1, <1>4 DEF ClientState
<1>10. Vault!Changed(me, intended) = Vault!Changed(Vault!Me(c), intended)
  <2> HIDE DEF me
  <2> QED
    BY <1>9 DEF Vault!Changed
<1> HIDE DEF me, E
<1>11. Vault!Me(c)' = me => Prepared(c)'
  <2> SUFFICES ASSUME Vault!Me(c)' = me PROVE Prepared(c)'
    OBVIOUS
  <2>1. Vault!Changed(Vault!Me(c)', intended') = Vault!Changed(Vault!Me(c), intended) /\ keyring' = keyring
    BY <1>7, <1>10
  <2> QED
    BY <1>2, <1>6, <1>7, <1>9, <2>1 DEF Prepared, Vault!In, Hold
<1> QED
  BY <1>7, <1>8, <1>9, <1>11, StepAlone

\* There are files enough: somebody about to open one finds one that nobody has
\* open and that the vault's name is not bound to.
LEMMA FileLeft ==
  ASSUME NEW c \in Process, Vault!Me(c).fd = Vault!NoFile, tmpFile = Vault!NoFile
  PROVE  /\ Vault!Unused # {}
         /\ \A f \in Vault!Unused : f \in Vault!Files /\ f # vaultFile /\ f # Vault!NoFile
<1>1. PICK n : n = Cardinality(Process)
  OBVIOUS
<1>2. n \in Nat /\ IsFiniteSet(Process)
  BY <1>1, BoundAssumption, FS_CardinalityType
<1>3. Vault!Files = 1..(n + 1)
  <2>1. Vault!Cardinality(Process) = Cardinality(Process)
    BY Zenon DEF Vault!Cardinality, Cardinality
  <2> QED
    BY <1>1, <2>1 DEF Vault!Files
<1> DEFINE Others == Process \ {c}
           Opened == {Vault!Me(d).fd : d \in Others}
           Taken == Opened \cup {vaultFile}
<1>4. IsFiniteSet(Others) /\ Cardinality(Others) = n - 1
  BY <1>1, <1>2, FS_RemoveElement
<1>5. IsFiniteSet(Opened) /\ Cardinality(Opened) <= n - 1
  <2>1. [d \in Others |-> Vault!Me(d).fd] \in Surjection(Others, Opened)
    BY DEF Surjection
  <2> HIDE DEF Others, Opened
  <2> QED
    BY <1>4, <2>1, FS_Surjection
<1>6. IsFiniteSet(Taken) /\ Cardinality(Taken) <= n
  <2> HIDE DEF Opened
  <2>1. Cardinality(Opened) \in Nat
    BY <1>5, FS_CardinalityType
  <2>2. /\ IsFiniteSet(Opened \cup {vaultFile})
        /\ Cardinality(Opened \cup {vaultFile}) =
             IF vaultFile \in Opened THEN Cardinality(Opened) ELSE Cardinality(Opened) + 1
    BY <1>5, FS_AddElement, Zenon
  <2> QED
    BY <1>2, <1>5, <2>1, <2>2
<1>7. \E f \in 1..(n + 1) : f \notin Taken
  <2> SUFFICES ASSUME 1..(n + 1) \subseteq Taken PROVE FALSE
    OBVIOUS
  <2> HIDE DEF Taken
  <2>1. Cardinality(1..(n + 1)) <= Cardinality(Taken)
    BY <1>6, FS_Subset
  <2>2. Cardinality(1..(n + 1)) = n + 1
    BY <1>2, FS_Interval
  <2>3. Cardinality(Taken) \in Nat
    BY <1>6, FS_CardinalityType
  <2> QED
    BY <1>2, <1>6, <2>1, <2>2, <2>3
<1>8. \A f : f \in Vault!Unused <=> f \in 1..(n + 1) /\ f \notin Taken
  <2>1. \A f \in 1..(n + 1) : f # Vault!NoFile
    BY <1>2 DEF Vault!NoFile
  <2>2. \A f : f \in {Vault!Me(d).fd : d \in Process} <=> f \in Opened \/ f = Vault!NoFile
    OBVIOUS
  <2> QED
    BY <1>3, <2>1, <2>2 DEF Vault!Unused
<1>9. \A f \in 1..(n + 1) : f # Vault!NoFile
  BY <1>2 DEF Vault!NoFile
<1> QED
  BY <1>3, <1>7, <1>8, <1>9

\* vault.tmp is never the file of the vault, so truncating it harms no secret.
LEMMA OpenTmpAlone ==
  ASSUME NEW c \in Process, Inside(c), Vault!OpenTmp(c) PROVE VaultInv'
<1> DEFINE f == IF tmpFile # Vault!NoFile THEN tmpFile ELSE CHOOSE g \in Vault!Unused : TRUE
           me == [Vault!Me(c) EXCEPT !.step = "write", !.fd = f]
<1>1. Vault!Me(c) \in ClientState /\ VaultData /\ VaultSound /\ Vault!Me(c).step = "open"
  BY DEF Inside, VaultTyped, Vault!Me, Vault!OpenTmp
<1>2. /\ Vault!Me(c).use # 0 /\ Vault!Me(c).fd = Vault!NoFile /\ (Vault!Me(c).op = "set" => Vault!Me(c).name \in SecretName)
      /\ Vault!Me(c).key = keyring /\ keyring # Vault!NoKey /\ Hold(Vault!Me(c).entries, Vault!Changed(Vault!Me(c), intended))
  BY <1>1 DEF Inside, Prepared, Vault!In
<1>3. f \in Vault!Files /\ f # vaultFile /\ f # Vault!NoFile
  <2>1. CASE tmpFile # Vault!NoFile
    <3>1. \A g \in Vault!Files : g # Vault!NoFile
      BY DEF Vault!Files, Vault!NoFile
    <3> QED
      BY <2>1, <3>1, <1>1 DEF VaultData, VaultSound
  <2>2. CASE tmpFile = Vault!NoFile
    <3>1. Vault!Unused # {} /\ \A g \in Vault!Unused : g \in Vault!Files /\ g # vaultFile /\ g # Vault!NoFile
      BY <1>2, <2>2, FileLeft
    <3>2. f \in Vault!Unused
      BY <2>2, <3>1
    <3> QED
      BY <3>1, <3>2
  <2> QED
    BY <2>1, <2>2
<1>4. /\ tmpFile' = f /\ contents' = [contents EXCEPT ![f] = Vault!Torn] /\ Vault!Become(c, me)
      /\ UNCHANGED <<keyring, vaultFile, uses, intended>>
  BY DEF Vault!OpenTmp, Vault!counters
<1> HIDE DEF f
<1>5. Vault!Torn \in [json : BOOLEAN, entries : Dictionary] /\ ~Vault!Torn.json
  BY NothingType DEF Vault!Torn
<1>6. VaultData'
  BY <1>1, <1>3, <1>4, <1>5 DEF VaultData
<1>7. Vault!OnDisk' = Vault!OnDisk
  BY <1>1, <1>3, <1>4 DEF Vault!OnDisk, VaultData
<1>8. VaultSound'
  BY <1>1, <1>3, <1>4, <1>7 DEF VaultSound, Hold
<1>9. /\ me \in ClientState
      /\ me.use = Vault!Me(c).use /\ me.op = Vault!Me(c).op /\ me.name = Vault!Me(c).name
      /\ me.key = Vault!Me(c).key /\ me.entries = Vault!Me(c).entries /\ me.step = "write" /\ me.fd = f
  BY <1>1, <1>3 DEF ClientState
<1> HIDE DEF me
<1>10. Vault!Changed(me, intended) = Vault!Changed(Vault!Me(c), intended)
  BY <1>9 DEF Vault!Changed
<1>11. ~contents'[f].json
  BY <1>1, <1>3, <1>4, <1>5 DEF VaultData
<1>12. Vault!Me(c)' = me => Prepared(c)'
  BY <1>2, <1>3, <1>4, <1>9, <1>10, <1>11 DEF Prepared, Hold
<1> QED
  BY <1>4, <1>6, <1>8, <1>9, <1>12, StepAlone

\* What is written into vault.tmp is what the vault is to hold.
LEMMA WriteTmpAlone ==
  ASSUME NEW c \in Process, Inside(c), Vault!WriteTmp(c) PROVE VaultInv'
<1> DEFINE f == Vault!Me(c).fd
           me == [Vault!Me(c) EXCEPT !.step = "replace", !.fd = Vault!NoFile, !.entries = Vault!Nothing]
<1>1. Vault!Me(c) \in ClientState /\ VaultData /\ VaultSound /\ Vault!Me(c).step = "write"
  BY DEF Inside, VaultTyped, Vault!Me, Vault!WriteTmp
<1>2. /\ Vault!Me(c).use # 0 /\ (Vault!Me(c).op = "set" => Vault!Me(c).name \in SecretName)
      /\ Vault!Me(c).key = keyring /\ keyring # Vault!NoKey /\ Hold(Vault!Me(c).entries, Vault!Changed(Vault!Me(c), intended))
      /\ tmpFile # Vault!NoFile /\ f = tmpFile /\ ~contents[tmpFile].json
  BY <1>1 DEF Inside, Prepared, Vault!In
<1>3. f \in Vault!Files /\ f # vaultFile
  BY <1>1, <1>2 DEF VaultData, VaultSound
<1>4. /\ contents' = [contents EXCEPT ![f] = Vault!Holding(Vault!Me(c).entries)] /\ Vault!Become(c, me)
      /\ UNCHANGED <<keyring, vaultFile, tmpFile, uses, intended>>
  BY <1>2 DEF Vault!WriteTmp, Vault!counters
<1>5. Vault!Holding(Vault!Me(c).entries) \in [json : BOOLEAN, entries : Dictionary]
  BY <1>1 DEF Vault!Holding, ClientState
<1>6. VaultData'
  BY <1>1, <1>3, <1>4, <1>5 DEF VaultData
<1>7. Vault!OnDisk' = Vault!OnDisk
  BY <1>1, <1>3, <1>4 DEF Vault!OnDisk, VaultData
<1>8. VaultSound'
  BY <1>1, <1>4, <1>7 DEF VaultSound, Hold
<1>9. /\ me \in ClientState
      /\ me.use = Vault!Me(c).use /\ me.op = Vault!Me(c).op /\ me.name = Vault!Me(c).name
      /\ me.key = Vault!Me(c).key /\ me.step = "replace" /\ me.fd = Vault!NoFile
  BY <1>1, NothingType DEF ClientState
<1> HIDE DEF me
<1>10. Vault!Changed(me, intended) = Vault!Changed(Vault!Me(c), intended)
  BY <1>9 DEF Vault!Changed
<1>11. contents'[tmpFile] = Vault!Holding(Vault!Me(c).entries)
  BY <1>1, <1>2, <1>3, <1>4 DEF VaultData
<1>12. contents'[tmpFile].json /\ contents'[tmpFile].entries = Vault!Me(c).entries
  BY <1>11 DEF Vault!Holding
<1>13. Vault!Me(c)' = me => Prepared(c)'
  BY <1>2, <1>4, <1>9, <1>10, <1>12 DEF Prepared, Hold
<1> QED
  BY <1>4, <1>6, <1>8, <1>9, <1>13, StepAlone

\* The rename puts it into the vault, when it is meant to be there.
LEMMA ReplaceAlone ==
  ASSUME NEW c \in Process, Inside(c), Vault!Replace(c) PROVE VaultInv'
<1>1. Vault!Me(c) \in ClientState /\ VaultData /\ Vault!Me(c).step = "replace"
  BY DEF Inside, VaultTyped, Vault!Me, Vault!Replace
<1>2. /\ Vault!Me(c).op = "set" => Vault!Me(c).name \in SecretName
      /\ keyring # Vault!NoKey /\ tmpFile # Vault!NoFile /\ contents[tmpFile].json
      /\ Hold(contents[tmpFile].entries, Vault!Changed(Vault!Me(c), intended))
  BY <1>1 DEF Inside, Prepared
<1>3. /\ vaultFile' = tmpFile /\ tmpFile' = Vault!NoFile /\ intended' = Vault!Changed(Vault!Me(c), intended)
      /\ UNCHANGED <<keyring, contents, uses>> /\ Vault!Leave(c)
  BY <1>2 DEF Vault!Replace, Vault!counters
<1>4. intended' \in Dictionary
  BY <1>1, <1>2, <1>3, ChangedType DEF VaultData
<1>5. VaultData'
  BY <1>1, <1>3, <1>4 DEF VaultData
<1>6. Vault!OnDisk' = contents[tmpFile]
  BY <1>2, <1>3 DEF Vault!OnDisk
<1>7. VaultSound'
  BY <1>2, <1>3, <1>6 DEF VaultSound, Hold
<1> QED
  BY <1>3, <1>5, <1>7, LeaveAlone

(* ---- every step ----------------------------------------------------------- *)

\* An empty vault, and nobody inside.
LEMMA InitAlone == ASSUME Vault!Init PROVE VaultInv
<1>1. /\ keyring = 0 /\ vaultFile = 0 /\ tmpFile = 0 /\ uses = 0 /\ intended = Vault!Nothing
      /\ contents = [f \in Vault!Files |-> Vault!Torn] /\ client = [c \in Process |-> Vault!Out]
  BY DEF Vault!Init, Vault!NoKey, Vault!NoFile
<1>2. Vault!Torn \in [json : BOOLEAN, entries : Dictionary]
  BY NothingType DEF Vault!Torn
<1>3. VaultData
  BY <1>1, <1>2, NothingType DEF VaultData, Vault!NoFile
<1>4. client \in [Process -> ClientState] /\ \A c \in Process : Vault!Me(c) = Vault!Out
  BY <1>1, OutType DEF Vault!Me
<1>5. Vault!OnDisk = Vault!Holding(Vault!Nothing)
  BY <1>1 DEF Vault!OnDisk, Vault!NoFile
<1>6. VaultSound
  BY <1>1, <1>5, NothingType DEF VaultSound, Hold, Vault!Holding, Vault!NoFile
<1>7. \A c \in Process : ~Vault!In(c)
  BY <1>4 DEF Vault!In, Vault!Out
<1>8. \A c \in Process : Prepared(c)
  BY <1>4 DEF Prepared, Vault!In, Vault!Out
<1> QED
  BY <1>3, <1>4, <1>6, <1>7, <1>8 DEF VaultInv, VaultTyped

\* A process inside is the only one.
LEMMA InsideOf ==
  ASSUME VaultInv, ~met, NEW c \in Process, Vault!In(c) PROVE Inside(c)
BY DEF VaultInv, Inside

\* Every step keeps the invariant.
LEMMA NextAlone == ASSUME VaultInv, Vault!Next PROVE VaultInv'
<1>1. CASE met'
  BY <1>1 DEF VaultInv
<1>2. CASE ~met'
  <2>1. PICK c \in Process :
          \/ \E name \in SecretName : Vault!Set(c, name) \/ Vault!Remove(c, name)
          \/ Vault!ReadAll(c)
          \/ Vault!GetKey(c) \/ Vault!KeepKey(c) \/ Vault!Load(c) \/ Vault!Decrypt(c)
          \/ Vault!OpenTmp(c) \/ Vault!WriteTmp(c) \/ Vault!Replace(c) \/ Vault!Kill(c)
    BY DEF Vault!Next
  <2>2. CASE \E name \in SecretName : Vault!Set(c, name) \/ Vault!Remove(c, name)
    BY <1>2, <2>2, UseAlone DEF Vault!Set, Vault!Remove
  <2>3. CASE Vault!ReadAll(c)
    BY <1>2, <2>3, UseAlone DEF Vault!ReadAll
  <2>4. CASE Vault!GetKey(c) \/ Vault!KeepKey(c) \/ Vault!Load(c) \/ Vault!Decrypt(c)
               \/ Vault!OpenTmp(c) \/ Vault!WriteTmp(c) \/ Vault!Replace(c) \/ Vault!Kill(c)
    <3>1. Vault!In(c) /\ met' = met
      BY <2>4 DEF Vault!GetKey, Vault!KeepKey, Vault!Load, Vault!Decrypt, Vault!OpenTmp, Vault!WriteTmp, Vault!Replace, Vault!Kill, Vault!In
    <3>2. Inside(c)
      BY <1>2, <3>1, InsideOf
    <3>3. uses \in Nat
      BY <3>2 DEF Inside, VaultTyped, VaultData
    <3>4. CASE Vault!GetKey(c)
      BY <3>2, <3>4, GetKeyAlone
    <3>5. CASE Vault!KeepKey(c)
      BY <3>2, <3>5, KeepKeyAlone
    <3>6. CASE Vault!Load(c)
      BY <3>2, <3>6, LoadAlone
    <3>7. CASE Vault!Decrypt(c) \/ Vault!Kill(c)
      <4>1. Vault!Leave(c) /\ UNCHANGED <<keyring, vaultFile, tmpFile, contents, uses, intended>>
        BY <3>7 DEF Vault!Decrypt, Vault!Kill, Vault!counters
      <4> QED
        BY <3>2, <3>3, <4>1, SameVaultData, LeaveAlone
    <3>8. CASE Vault!OpenTmp(c)
      BY <3>2, <3>8, OpenTmpAlone
    <3>9. CASE Vault!WriteTmp(c)
      BY <3>2, <3>9, WriteTmpAlone
    <3>10. CASE Vault!Replace(c)
      BY <3>2, <3>10, ReplaceAlone
    <3> QED
      BY <2>4, <3>4, <3>5, <3>6, <3>7, <3>8, <3>9, <3>10
  <2> QED
    BY <2>1, <2>2, <2>3, <2>4
<1> QED
  BY <1>1, <1>2

(* ---- the vault in its home ------------------------------------------------ *)

\* Only the part at work takes steps.
LEMMA VaultSteps ==
  ASSUME [Next]_homeVars, At("vault")
  PROVE  At("vault")' /\ (Vault!Next \/ UNCHANGED vaultVars)
BY DEF Next, homeVars, At

\* As long as uses of the vault do not overlap, whichever of them are killed and
\* wherever: vault.enc can be read, it holds what was set last and not removed
\* since, and the master key in the keyring decrypts all of it (store.py,
\* keyring_store.py).
THEOREM VaultKeepsSecrets == Spec => []SecretsKept
<1> DEFINE Inv == At("vault") => VaultInv
<1>1. Init => Inv
  BY InitAlone DEF Init
<1>2. Inv /\ [Next]_homeVars => Inv'
  <2> SUFFICES ASSUME Inv, [Next]_homeVars, At("vault")' PROVE VaultInv'
    OBVIOUS
  <2>1. At("vault") /\ VaultInv
    BY DEF Next, homeVars, At
  <2>2. CASE Vault!Next
    BY <2>1, <2>2, NextAlone
  <2>3. CASE UNCHANGED vaultVars
    BY <2>1, <2>3 DEF vaultVars, VaultInv, VaultTyped, VaultData, VaultSound, Vault!OnDisk, Hold,
                      Sole, Vault!In, Vault!Me, Prepared, Vault!Changed
  <2> QED
    BY <2>1, <2>2, <2>3, VaultSteps
<1>3. Inv => SecretsKept
  BY DEF VaultInv, VaultSound, Hold, SecretsKept, Vault!SecretsKept
<1> QED
  BY <1>1, <1>2, <1>3, PTL DEF Spec

(* -------- the lists ------------------------------------------------------- *)

EditState ==
  [step : {"rest", "load", "change", "truncate", "write", "render", "generate"},
   op : {"none", "add", "remove", "shrink"}, todo : SUBSET Item, items : SUBSET Item]
ListFile == [there : BOOLEAN, torn : BOOLEAN, items : SUBSET Item, mtime : Nat]

InProfile == kind = "lan" => profile = Lists!Items

\* What holds when a process is at its step: what its copy is to the items that
\* are wanted, the file to its copy, and the profile to the file. A removal is of
\* one item.
Edited(e) ==
  LET me == Lists!Ed(e)
  IN /\ me.step = "load" => Lists!Items = wanted /\ InProfile
     /\ me.step \in {"change", "render", "generate"} => Lists!Items = wanted
     /\ me.step \in {"change", "truncate", "write", "generate"} => me.items = wanted
     /\ me.step = "change" /\ me.op # "add" /\ me.todo # {} => InProfile
     /\ Lists!Editing(e) /\ me.op # "add" => \A i, j \in me.todo : i = j
     /\ me.op # "add" /\ me.step \in {"truncate", "write"} => me.todo = {}

OneEdits == \A d, e \in Process : Lists!Editing(d) /\ Lists!Editing(e) => d = e

EditSound == OneEdits /\ (\A e \in Process : Edited(e)) /\ Lists!EditsKept
EditTyped == list \in ListFile /\ editor \in [Process -> EditState]
EditInv == EditTyped /\ (~crossed => EditSound)

\* A process that is at no edit.
LEMMA RestType == Lists!Rest \in EditState /\ Lists!Rest.step = "rest"
BY DEF Lists!Rest, EditState

\* What is read of the file are items.
LEMMA ItemsType == ASSUME list \in ListFile PROVE Lists!Items \in SUBSET Item
<1>1. list.items \in SUBSET Item
  BY DEF ListFile
<1> QED
  BY <1>1 DEF Lists!Items

\* A step of a process is its own.
LEMMA SetOne ==
  ASSUME EditTyped, NEW e \in Process, NEW me \in EditState, Lists!Set(e, me)
  PROVE  /\ editor' \in [Process -> EditState] /\ Lists!Ed(e)' = me
         /\ \A d \in Process \ {e} : Lists!Ed(d)' = Lists!Ed(d)
BY DEF EditTyped, Lists!Set, Lists!Ed

\* The step of the only process that edits: what is to be shown is about itself,
\* or about the files once it is done.
LEMMA EditAlone ==
  ASSUME EditTyped, OneEdits, NEW e \in Process, NEW me \in EditState, Lists!Set(e, me),
         Lists!Editing(e), list' \in ListFile,
         me.step # "rest" /\ Lists!Ed(e)' = me => Edited(e)',
         me.step = "rest" => (Lists!Items = wanted /\ InProfile)'
  PROVE  EditTyped' /\ EditSound'
<1>1. /\ editor' \in [Process -> EditState] /\ Lists!Ed(e)' = me
      /\ \A d \in Process \ {e} : Lists!Ed(d)' = Lists!Ed(d) /\ Lists!Ed(d).step = "rest"
  BY SetOne DEF OneEdits, Lists!Editing
<1>2. OneEdits'
  BY <1>1 DEF OneEdits, Lists!Editing
<1>3. \A d \in Process : Edited(d)'
  <2> SUFFICES ASSUME NEW d \in Process, d # e \/ me.step = "rest" PROVE Edited(d)'
    BY <1>1
  <2>1. Lists!Ed(d)'.step = "rest"
    BY <1>1
  <2> QED
    BY <2>1 DEF Edited, Lists!Editing
<1>4. Lists!EditsKept'
  <2> SUFFICES ASSUME Lists!Nobody' PROVE (Lists!Items = wanted /\ InProfile)'
    BY DEF Lists!EditsKept, InProfile
  <2>1. me.step = "rest"
    BY <1>1 DEF Lists!Nobody, Lists!Editing
  <2> QED
    BY <2>1
<1> QED
  BY <1>1, <1>2, <1>3, <1>4 DEF EditTyped, EditSound

\* A command begins.
LEMMA EditBegins ==
  ASSUME EditInv, NEW e \in Process, NEW op \in {"add", "remove", "shrink"}, NEW todo \in SUBSET Item,
         op # "add" => \A i, j \in todo : i = j, Lists!Edit(e, op, todo)
  PROVE  EditInv'
<1> DEFINE me == [Lists!Rest EXCEPT !.step = "load", !.op = op, !.todo = todo]
<1>1. me \in EditState /\ me.step = "load" /\ me.op = op /\ me.todo = todo
  BY DEF Lists!Rest, EditState
<1>2. /\ Lists!Set(e, me) /\ crossed' = (crossed \/ ~Lists!Nobody)
      /\ UNCHANGED <<kind, list, profile, wanted>>
  BY DEF Lists!Edit, Lists!Same
<1> HIDE DEF me
<1>3. /\ editor' \in [Process -> EditState] /\ Lists!Ed(e)' = me
      /\ \A d \in Process \ {e} : Lists!Ed(d)' = Lists!Ed(d)
  BY <1>1, <1>2, SetOne DEF EditInv
<1>4. EditTyped'
  BY <1>2, <1>3 DEF EditInv, EditTyped
<1>5. ASSUME ~crossed' PROVE EditSound'
  <2>1. /\ \A d \in Process \ {e} : Lists!Ed(d)'.step = "rest"
        /\ Lists!Items = wanted /\ InProfile
    BY <1>2, <1>3, <1>5 DEF EditInv, EditSound, Lists!EditsKept, Lists!Nobody, Lists!Editing, InProfile
  <2>2. (Lists!Items = wanted /\ InProfile)'
    BY <1>2, <2>1 DEF Lists!Items, InProfile
  <2>3. \A d \in Process : Edited(d)'
    BY <1>1, <1>3, <2>1, <2>2 DEF Edited, Lists!Editing
  <2> QED
    BY <1>1, <1>3, <2>1, <2>2, <2>3 DEF EditSound, OneEdits, Lists!EditsKept, Lists!Editing, InProfile
<1> QED
  BY <1>4, <1>5 DEF EditInv

\* What a step of an edit says of the files, if it overlaps no other.
EditStep(e) ==
  \E me \in EditState :
    /\ Lists!Editing(e) /\ Lists!Set(e, me)
    /\ list' \in ListFile
    /\ ~crossed' => ~crossed
    /\ ~crossed' /\ EditSound /\ me.step # "rest" /\ Lists!Ed(e)' = me => Edited(e)'
    /\ ~crossed' /\ EditSound /\ me.step = "rest" => (Lists!Items = wanted /\ InProfile)'

\* It keeps the invariant.
LEMMA EditGoesOn == \A e \in Process : EditInv /\ EditStep(e) => EditInv'
<1> SUFFICES ASSUME NEW e \in Process, EditInv, EditStep(e) PROVE EditInv'
  OBVIOUS
<1>1. PICK me \in EditState :
        /\ Lists!Editing(e) /\ Lists!Set(e, me)
        /\ list' \in ListFile
        /\ ~crossed' => ~crossed
        /\ ~crossed' /\ EditSound /\ me.step # "rest" /\ Lists!Ed(e)' = me => Edited(e)'
        /\ ~crossed' /\ EditSound /\ me.step = "rest" => (Lists!Items = wanted /\ InProfile)'
  BY DEF EditStep
<1>2. EditTyped'
  BY <1>1, SetOne DEF EditInv, EditTyped
<1>3. ASSUME ~crossed' PROVE EditSound'
  BY <1>1, <1>3, EditAlone DEF EditInv, EditSound
<1> QED
  BY <1>2, <1>3 DEF EditInv

\* The file is read.
LEMMA LoadKeeps == \A e \in Process : EditInv /\ (Lists!Load(e) \/ Lists!Render(e)) => EditInv'
<1> SUFFICES ASSUME NEW e \in Process, EditInv, (Lists!Load(e) \/ Lists!Render(e)) PROVE EditInv'
  OBVIOUS
<1> DEFINE old == Lists!Ed(e)
           next == IF old.step = "load" THEN "change" ELSE "generate"
           me == [old EXCEPT !.step = next, !.items = Lists!Items]
<1>1. old \in EditState /\ Lists!Items \in SUBSET Item
  BY ItemsType DEF EditInv, EditTyped, Lists!Ed
<1>2. me \in EditState /\ me.step = next /\ me.items = Lists!Items /\ me.op = old.op /\ me.todo = old.todo
  BY <1>1 DEF EditState
<1>3. /\ old.step \in {"load", "render"} /\ Lists!Set(e, me)
      /\ UNCHANGED <<kind, list, profile, wanted, crossed>>
  BY Zenon DEF Lists!Load, Lists!Render, Lists!Same
<1> HIDE DEF me
<1>4. list' \in ListFile
  BY <1>3 DEF EditInv, EditTyped
<1>5. ASSUME EditSound, Lists!Ed(e)' = me PROVE Edited(e)'
  <2>1. Edited(e)
    BY <1>5 DEF EditSound
  <2> QED
    BY <1>2, <1>3, <1>5, <2>1 DEF Edited, Lists!Editing, Lists!Items, InProfile
<1> QED
  BY <1>2, <1>3, <1>4, <1>5, EditGoesOn DEF EditStep, Lists!Editing

\* The file is truncated.
LEMMA TruncateKeeps == \A e \in Process : EditInv /\ Lists!Truncate(e) /\ listClock \in Nat => EditInv'
<1> SUFFICES ASSUME NEW e \in Process, EditInv, Lists!Truncate(e), listClock \in Nat PROVE EditInv'
  OBVIOUS
<1> DEFINE old == Lists!Ed(e)
           me == [old EXCEPT !.step = "write"]
<1>1. old \in EditState
  BY DEF EditInv, EditTyped, Lists!Ed
<1>2. me \in EditState /\ me.step = "write" /\ me.items = old.items /\ me.op = old.op /\ me.todo = old.todo
  BY <1>1 DEF EditState
<1>3. /\ old.step = "truncate" /\ Lists!Set(e, me)
      /\ list' = [there |-> TRUE, torn |-> TRUE, items |-> {}, mtime |-> listClock]
      /\ UNCHANGED <<kind, profile, wanted, crossed>>
  BY DEF Lists!Truncate, Lists!Same, Lists!Step
<1> HIDE DEF me
<1>4. list' \in ListFile
  BY <1>3 DEF ListFile
<1>5. ASSUME EditSound, Lists!Ed(e)' = me PROVE Edited(e)'
  <2>1. Edited(e)
    BY <1>5 DEF EditSound
  <2> QED
    BY <1>2, <1>3, <1>5, <2>1 DEF Edited, Lists!Editing
<1> QED
  BY <1>2, <1>3, <1>4, <1>5, EditGoesOn DEF EditStep, Lists!Editing

\* The copy is written.
LEMMA WriteKeeps == \A e \in Process : EditInv /\ Lists!Write(e) /\ listClock \in Nat => EditInv'
<1> SUFFICES ASSUME NEW e \in Process, EditInv, Lists!Write(e), listClock \in Nat PROVE EditInv'
  OBVIOUS
<1> DEFINE old == Lists!Ed(e)
           me == [old EXCEPT !.step = "change"]
<1>1. old \in EditState
  BY DEF EditInv, EditTyped, Lists!Ed
<1>2. me \in EditState /\ me.step = "change" /\ me.items = old.items /\ me.op = old.op /\ me.todo = old.todo
  BY <1>1 DEF EditState
<1>3. /\ old.step = "write" /\ Lists!Set(e, me)
      /\ list' = [there |-> TRUE, torn |-> FALSE, items |-> old.items, mtime |-> listClock]
      /\ UNCHANGED <<kind, profile, wanted, crossed>>
  BY DEF Lists!Write, Lists!Same, Lists!Step
<1> HIDE DEF me
<1>4. list' \in ListFile /\ Lists!Items' = old.items
  BY <1>1, <1>3 DEF ListFile, EditState, Lists!Items
<1>5. ASSUME EditSound, Lists!Ed(e)' = me PROVE Edited(e)'
  <2>1. Edited(e)
    BY <1>5 DEF EditSound
  <2> QED
    BY <1>2, <1>3, <1>4, <1>5, <2>1 DEF Edited, Lists!Editing
<1> QED
  BY <1>2, <1>3, <1>4, <1>5, EditGoesOn DEF EditStep, Lists!Editing

\* The profile is written.
LEMMA GenerateKeeps == \A e \in Process : EditInv /\ Lists!Generate(e) => EditInv'
<1> SUFFICES ASSUME NEW e \in Process, EditInv, Lists!Generate(e) PROVE EditInv'
  OBVIOUS
<1>1. /\ Lists!Ed(e).step = "generate" /\ Lists!Set(e, Lists!Rest) /\ profile' = Lists!Ed(e).items
      /\ UNCHANGED <<kind, list, wanted, crossed>>
  BY DEF Lists!Generate, Lists!Same
<1>2. list' \in ListFile
  BY <1>1 DEF EditInv, EditTyped
<1>3. ASSUME EditSound PROVE (Lists!Items = wanted /\ InProfile)'
  <2>1. Lists!Items = wanted /\ Lists!Ed(e).items = wanted
    BY <1>1, <1>3 DEF EditSound, Edited
  <2> QED
    BY <1>1, <2>1 DEF Lists!Items, InProfile
<1> QED
  BY <1>1, <1>2, <1>3, RestType, EditGoesOn DEF EditStep, Lists!Editing

\* A process dies, without the others' knowledge unless it had begun to write.
LEMMA EditKilled == \A e \in Process : EditInv /\ Lists!Kill(e) => EditInv'
<1> SUFFICES ASSUME NEW e \in Process, EditInv, Lists!Kill(e) PROVE EditInv'
  OBVIOUS
<1>1. /\ Lists!Editing(e) /\ Lists!Set(e, Lists!Rest)
      /\ crossed' = (crossed \/ Lists!Ed(e).step \in Lists!Unfinished)
      /\ UNCHANGED <<kind, list, profile, wanted>>
  BY DEF Lists!Kill, Lists!Same
<1>2. list' \in ListFile /\ Lists!Ed(e) \in EditState
  BY <1>1 DEF EditInv, EditTyped, Lists!Ed
<1>3. ASSUME EditSound, ~crossed' PROVE (Lists!Items = wanted /\ InProfile)'
  <2>1. Lists!Ed(e).step = "load" \/ (Lists!Ed(e).step = "change" /\ kind # "lan")
    BY <1>1, <1>2, <1>3 DEF Lists!Unfinished, EditState, Lists!Editing
  <2>2. Lists!Items = wanted /\ InProfile
    BY <1>3, <2>1 DEF EditSound, Edited, InProfile
  <2> QED
    BY <1>1, <2>2 DEF Lists!Items, InProfile
<1> QED
  BY <1>1, <1>2, <1>3, RestType, EditGoesOn DEF EditStep

\* The next item is added to the copy or removed from it.
LEMMA ChangeKeeps == \A e \in Process : EditInv /\ Lists!Change(e) => EditInv'
<1> SUFFICES ASSUME NEW e \in Process, EditInv, Lists!Change(e) PROVE EditInv'
  OBVIOUS
<1> DEFINE old == Lists!Ed(e)
<1>1. /\ old \in EditState /\ old.step = "change" /\ list' \in ListFile
      /\ Lists!Editing(e) /\ UNCHANGED <<kind, list, profile, crossed>>
  BY DEF EditInv, EditTyped, Lists!Ed, Lists!Change, Lists!Editing, Lists!Same
<1>2. EditSound => /\ Lists!Items = wanted /\ old.items = wanted
                   /\ old.op # "add" /\ old.todo # {} => InProfile
                   /\ old.op # "add" => \A i, j \in old.todo : i = j
  BY <1>1 DEF EditSound, Edited
<1>3. Lists!Items' = Lists!Items /\ (InProfile' <=> InProfile)
  BY <1>1 DEF Lists!Items, InProfile
<1>4. CASE old.todo = {}
  <2>1. wanted' = wanted /\ Lists!Finish(e)
    BY <1>4 DEF Lists!Change
  <2>2. CASE kind = "lan"
    <3> DEFINE me == [old EXCEPT !.step = "render"]
    <3>1. me \in EditState /\ me.step = "render" /\ me.todo = {}
      BY <1>1, <1>4 DEF EditState
    <3>2. Lists!Set(e, me)
      BY <2>1, <2>2 DEF Lists!Finish, Lists!Step
    <3> HIDE DEF me
    <3>3. ASSUME EditSound, Lists!Ed(e)' = me PROVE Edited(e)'
      BY <1>2, <1>3, <2>1, <3>1, <3>3 DEF Edited
    <3> QED
      BY <1>1, <3>1, <3>2, <3>3, EditGoesOn DEF EditStep
  <2>3. CASE kind # "lan"
    <3>1. Lists!Set(e, Lists!Rest)
      BY <2>1, <2>3 DEF Lists!Finish
    <3>2. ASSUME EditSound PROVE (Lists!Items = wanted /\ InProfile)'
      BY <1>1, <1>2, <1>3, <2>1, <2>3, <3>2 DEF InProfile
    <3> QED
      BY <1>1, <3>1, <3>2, RestType, EditGoesOn DEF EditStep
  <2> QED
    BY <2>2, <2>3
<1>5. CASE old.todo # {}
  <2> DEFINE New(i) == IF old.op = "add" THEN old.items \cup {i} ELSE old.items \ {i}
  <2>1. PICK i \in old.todo :
          /\ wanted' = IF old.op = "add" THEN wanted \cup {i} ELSE wanted \ {i}
          /\ IF New(i) # old.items \/ kind = "settings"
             THEN Lists!Set(e, [old EXCEPT !.step = "truncate", !.todo = @ \ {i}, !.items = New(i)])
             ELSE IF old.op = "add" THEN Lists!Set(e, [old EXCEPT !.todo = @ \ {i}])
             ELSE Lists!Set(e, Lists!Rest)
    BY <1>5, Zenon DEF Lists!Change
  <2>2. New(i) \in SUBSET Item /\ old.todo \ {i} \in SUBSET Item /\ (EditSound => wanted' = New(i))
    BY <1>1, <1>2, <2>1 DEF EditState
  <2>3. CASE New(i) # old.items \/ kind = "settings"
    <3> DEFINE me == [old EXCEPT !.step = "truncate", !.todo = @ \ {i}, !.items = New(i)]
    <3>1. Lists!Set(e, me)
      BY <2>1, <2>3
    <3> HIDE DEF New
    <3>2. me \in EditState /\ me.step = "truncate" /\ me.todo = old.todo \ {i} /\ me.items = New(i) /\ me.op = old.op
      BY <1>1, <2>2 DEF EditState
    <3> HIDE DEF me
    <3>3. ASSUME EditSound, Lists!Ed(e)' = me PROVE Edited(e)'
      BY <1>2, <1>3, <2>1, <2>2, <3>2, <3>3 DEF Edited, Lists!Editing
    <3> QED
      BY <1>1, <3>1, <3>2, <3>3, EditGoesOn DEF EditStep
  <2>4. CASE New(i) = old.items /\ kind # "settings" /\ old.op = "add"
    <3> DEFINE me == [old EXCEPT !.todo = @ \ {i}]
    <3>1. Lists!Set(e, me)
      BY <2>1, <2>4
    <3> HIDE DEF New
    <3>2. me \in EditState /\ me.step = "change" /\ me.items = old.items /\ me.op = "add"
      BY <1>1, <2>2, <2>4 DEF EditState
    <3> HIDE DEF me
    <3>3. ASSUME EditSound, Lists!Ed(e)' = me PROVE Edited(e)'
      BY <1>2, <1>3, <2>2, <2>4, <3>2, <3>3 DEF Edited, Lists!Editing
    <3> QED
      BY <1>1, <3>1, <3>2, <3>3, EditGoesOn DEF EditStep
  <2>5. CASE New(i) = old.items /\ kind # "settings" /\ old.op # "add"
    <3>1. Lists!Set(e, Lists!Rest)
      BY <2>1, <2>5
    <3> HIDE DEF New
    <3>2. ASSUME EditSound PROVE (Lists!Items = wanted /\ InProfile)'
      BY <1>2, <1>3, <1>5, <2>2, <2>5, <3>2
    <3> QED
      BY <1>1, <3>1, <3>2, RestType, EditGoesOn DEF EditStep
  <2> QED
    BY <2>3, <2>4, <2>5
<1> QED
  BY <1>4, <1>5

(* ---- the proxy's copy ------------------------------------------------------ *)

Asker == [step : {"rest", "read", "stat"}, items : SUBSET Item, mtime : Nat]

\* At its read the proxy remembers another time than the file's, and at its stat
\* its copy is the file, but for the changes it cannot notice.
AskerInv ==
  /\ asker \in Asker /\ listClock \in Nat
  /\ asker.step \in {"read", "stat"} => list.there
  /\ ~raced =>
       /\ asker.step = "read" => asker.mtime # list.mtime
       /\ asker.step = "stat" => ~list.torn /\ asker.items = list.items
       /\ Lists!ProxyCurrent

\* Whatever is written to the file, its time is that of the clock.
LEMMA TouchedKeeps ==
  ASSUME AskerInv, list'.there, list'.mtime = listClock, Lists!Touched, UNCHANGED <<asker, listClock>>
  PROVE  AskerInv'
BY DEF AskerInv, Asker, Lists!Touched, Lists!ProxyCurrent

\* A reload takes the whole file, unless it is torn.
LEMMA ReloadKeeps == list \in ListFile /\ AskerInv /\ Lists!Reload => AskerInv'
<1> SUFFICES ASSUME list \in ListFile, AskerInv, Lists!Reload PROVE AskerInv'
  OBVIOUS
<1>1. /\ asker \in Asker /\ asker.step = "read" /\ list.there /\ list.torn \in BOOLEAN /\ Lists!Items \in SUBSET Item
      /\ UNCHANGED <<list, listClock>> /\ raced' = (raced /\ list.torn)
  BY ItemsType DEF Lists!Reload, Lists!Same, AskerInv, ListFile
<1>2. CASE list.torn
  <2>1. asker' = [asker EXCEPT !.step = "rest", !.items = Lists!Items]
    BY <1>2, Zenon DEF Lists!Reload
  <2>2. asker' \in Asker /\ asker'.step = "rest" /\ asker'.mtime = asker.mtime
    BY <1>1, <2>1 DEF Asker
  <2> QED
    BY <1>1, <1>2, <2>2 DEF AskerInv, Lists!ProxyCurrent
<1>3. CASE ~list.torn
  <2>1. asker' = [asker EXCEPT !.step = "stat", !.items = Lists!Items]
    BY <1>3, Zenon DEF Lists!Reload
  <2>2. asker' \in Asker /\ asker'.step = "stat" /\ asker'.items = list.items
    BY <1>1, <1>3, <2>1 DEF Asker, Lists!Items
  <2> QED
    BY <1>1, <1>3, <2>2 DEF AskerInv, Lists!ProxyCurrent
<1> QED
  BY <1>2, <1>3

\* Its other steps: whether to read, and the time it remembers.
LEMMA AskerKeeps == list \in ListFile /\ AskerInv /\ (Lists!Ask \/ Lists!Stat) => AskerInv'
<1> SUFFICES ASSUME list \in ListFile, AskerInv, Lists!Ask \/ Lists!Stat PROVE AskerInv'
  OBVIOUS
<1>1. CASE Lists!Ask
  <2>1. /\ asker' \in Asker /\ asker'.step = "read" /\ asker'.mtime = asker.mtime
        /\ list.there /\ list.mtime # asker.mtime /\ UNCHANGED <<list, listClock, raced>>
    BY <1>1 DEF Lists!Ask, Lists!Same, AskerInv, Asker
  <2> QED
    BY <2>1 DEF AskerInv, Lists!ProxyCurrent
<1>2. CASE Lists!Stat
  <2>1. /\ asker' \in Asker /\ asker'.step = "rest" /\ asker'.items = asker.items
        /\ asker.step = "stat" /\ UNCHANGED <<list, listClock, raced>>
    BY <1>2 DEF Lists!Stat, Lists!Same, AskerInv, Asker, ListFile
  <2> QED
    BY <2>1 DEF AskerInv, Lists!ProxyCurrent
<1> QED
  BY <1>1, <1>2

(* ---- the lists in their home ------------------------------------------------ *)

ListInv == EditInv /\ AskerInv

\* Nobody edits, and nothing was read.
LEMMA ListInit == Lists!Init => ListInv
<1> SUFFICES ASSUME Lists!Init PROVE ListInv
  OBVIOUS
<1>1. list \in ListFile /\ ~list.torn /\ (list.there => list.mtime = 1) /\ (~list.there => list.items = {})
  <2>1. CASE list = [there |-> FALSE, torn |-> FALSE, items |-> {}, mtime |-> 0]
    BY <2>1 DEF ListFile
  <2>2. ASSUME NEW i \in Item, list = [there |-> TRUE, torn |-> FALSE, items |-> {i}, mtime |-> 1]
        PROVE  list \in ListFile /\ ~list.torn /\ list.there /\ list.mtime = 1
    <3>1. {i} \in SUBSET Item
      OBVIOUS
    <3> QED
      BY <2>2, <3>1 DEF ListFile
  <2> QED
    BY <2>1, <2>2 DEF Lists!Init
<1>2. editor \in [Process -> EditState] /\ \A e \in Process : Lists!Ed(e) = Lists!Rest
  BY RestType DEF Lists!Init, Lists!Ed
<1>3. Lists!Items = wanted /\ InProfile
  BY <1>1 DEF Lists!Init, Lists!Items, InProfile
<1>4. EditInv
  BY <1>1, <1>2, <1>3, RestType DEF EditInv, EditTyped, EditSound, OneEdits, Edited, Lists!EditsKept,
     InProfile, Lists!Editing
<1>5. AskerInv
  <2>1. asker \in Asker /\ asker.step = "rest" /\ asker.mtime = 0 /\ listClock = 1
    BY DEF Lists!Init, Asker
  <2> QED
    BY <1>1, <2>1 DEF AskerInv, Lists!ProxyCurrent
<1> QED
  BY <1>4, <1>5 DEF ListInv

\* Every step keeps the invariant of the lists.
LEMMA ListStep == ListInv /\ (Lists!Next \/ UNCHANGED listVars) => ListInv'
<1> SUFFICES ASSUME ListInv, Lists!Next \/ UNCHANGED listVars PROVE ListInv'
  OBVIOUS
<1>1. EditInv /\ AskerInv /\ list \in ListFile /\ listClock \in Nat
  BY DEF ListInv, EditInv, EditTyped, AskerInv
<1>2. ASSUME UNCHANGED <<kind, list, profile, editor, wanted, crossed>> PROVE EditInv'
  BY <1>1, <1>2 DEF EditInv, EditTyped, EditSound, OneEdits, Edited, InProfile, Lists!EditsKept,
     Lists!Nobody, Lists!Editing, Lists!Ed, Lists!Items
<1>3. ASSUME UNCHANGED <<list, asker, listClock, raced>> PROVE AskerInv'
  BY <1>1, <1>3 DEF AskerInv, Lists!ProxyCurrent
<1>4. ASSUME NEW e \in Process, NEW op \in {"add", "remove", "shrink"}, NEW todo \in SUBSET Item,
             op # "add" => \A i, j \in todo : i = j, Lists!Edit(e, op, todo)
      PROVE  ListInv'
  <2>1. AskerInv'
    BY <1>3, <1>4 DEF Lists!Edit, Lists!Same
  <2> QED
    BY <1>1, <1>4, <2>1, EditBegins DEF ListInv
<1>5. ASSUME NEW e \in Process, NEW i \in Item, Lists!Add(e, i) \/ Lists!Remove(e, i) \/ Lists!Shrink(e, i)
      PROVE  ListInv'
  <2>1. {i} \in SUBSET Item /\ \A j, k \in {i} : j = k
    OBVIOUS
  <2> QED
    BY <1>4, <1>5, <2>1 DEF Lists!Add, Lists!Remove, Lists!Shrink
<1>6. ASSUME NEW e \in Process, Lists!AddSeveral(e) \/ Lists!AutoSync(e) PROVE ListInv'
  BY <1>4, <1>6 DEF Lists!AddSeveral, Lists!AutoSync
<1>7. ASSUME NEW e \in Process, Lists!Load(e) \/ Lists!Render(e) \/ Lists!Change(e) \/ Lists!Generate(e) \/ Lists!Kill(e)
      PROVE  ListInv'
  <2>1. UNCHANGED <<list, asker, listClock, raced>>
    BY <1>7 DEF Lists!Load, Lists!Render, Lists!Change, Lists!Generate, Lists!Kill, Lists!Same
  <2> QED
    BY <1>1, <1>3, <1>7, <2>1, LoadKeeps, ChangeKeeps, GenerateKeeps, EditKilled DEF ListInv
<1>8. ASSUME NEW e \in Process, Lists!Truncate(e) \/ Lists!Write(e) PROVE ListInv'
  <2>1. list'.there /\ list'.mtime = listClock /\ Lists!Touched /\ UNCHANGED <<asker, listClock>>
    BY <1>8 DEF Lists!Truncate, Lists!Write, Lists!Same
  <2> QED
    BY <1>1, <1>8, <2>1, TouchedKeeps, TruncateKeeps, WriteKeeps DEF ListInv
<1>9. CASE Lists!Ask \/ Lists!Reload \/ Lists!Stat
  <2>1. UNCHANGED <<kind, list, profile, editor, wanted, crossed>>
    BY <1>9 DEF Lists!Ask, Lists!Reload, Lists!Stat, Lists!Same
  <2> QED
    BY <1>1, <1>2, <1>9, <2>1, ReloadKeeps, AskerKeeps DEF ListInv
<1>10. CASE Lists!Tick
  <2>1. /\ UNCHANGED <<kind, list, profile, editor, wanted, crossed, asker, raced>>
        /\ listClock' \in Nat
    BY <1>1, <1>10 DEF Lists!Tick
  <2>2. AskerInv'
    BY <1>1, <2>1 DEF AskerInv, Lists!ProxyCurrent
  <2> QED
    BY <1>2, <2>1, <2>2 DEF ListInv
<1>11. CASE UNCHANGED listVars
  BY <1>2, <1>3, <1>11 DEF listVars, ListInv
<1> QED
  BY <1>5, <1>6, <1>7, <1>8, <1>9, <1>10, <1>11 DEF Lists!Next

\* The lists of the home keep it too.
LEMMA ListsKeep ==
  ASSUME At("lists") => ListInv, [Next]_homeVars
  PROVE  (At("lists") => ListInv)'
<1> SUFFICES ASSUME At("lists")' PROVE ListInv'
  OBVIOUS
<1>1. ListInv /\ (Lists!Next \/ UNCHANGED listVars)
  BY DEF Next, homeVars, At
<1> QED
  BY <1>1, ListStep

\* For any processes, items and kills: edits of a list that neither overlap nor die
\* as they save are all in the file, and in the sandbox profile made from it
\* (DomainAllowlist, LanAllowlist, Settings and their commands).
THEOREM EditsStay == Spec => []EditsKept
<1> DEFINE Inv == At("lists") => ListInv
<1>1. Init => Inv
  BY ListInit DEF Init
<1>2. Inv /\ [Next]_homeVars => Inv'
  BY ListsKeep
<1>3. Inv => EditsKept
  <2> SUFFICES ASSUME ListInv PROVE Lists!EditsKept
    BY DEF EditsKept
  <2> QED
    BY DEF ListInv, EditInv, EditSound, Lists!EditsKept
<1> QED
  BY <1>1, <1>2, <1>3, PTL DEF Spec

\* For any number of edits at any time: when the proxy takes its copy to be
\* current it is the list, but for a change in the granularity of the file's time
\* or between its read and its stat (the reload of DomainAllowlist and Settings).
THEOREM ProxyReadsAgain == Spec => []ProxyCurrent
<1> DEFINE Inv == At("lists") => ListInv
<1>1. Init => Inv
  BY ListInit DEF Init
<1>2. Inv /\ [Next]_homeVars => Inv'
  BY ListsKeep
<1>3. Inv => ProxyCurrent
  <2> SUFFICES ASSUME ListInv PROVE Lists!ProxyCurrent
    BY DEF ProxyCurrent
  <2> QED
    BY DEF ListInv, AskerInv, Lists!ProxyCurrent
<1> QED
  BY <1>1, <1>2, <1>3, PTL DEF Spec

(* -------- the approvals ------------------------------------------------------ *)

ApprovalEntry == [pattern : Approval!Pattern, decision : {"allow", "deny"}, until : Int]

RevisionOps == {"none", "add", "remove", "clear", "list"}

\* A pattern has one entry at most.
Once(es) == \A i, j \in DOMAIN es : es[i].pattern = es[j].pattern => i = j
Listing(es) == es \in Seq(ApprovalEntry) /\ Once(es)

ApprovalTyped ==
  /\ askClock \in Int /\ Listing(cache)
  /\ DOMAIN mine \subseteq Process /\ mine \in [DOMAIN mine -> Seq(ApprovalEntry)]
  /\ \A s \in DOMAIN mine : Listing(mine[s])
  /\ asked \in [Process -> AskedCommand \cup {Approval!Nothing}]
  /\ \A s \in Process : asked[s] # Approval!Nothing => s \in DOMAIN mine
  /\ revising \in [op : RevisionOps, entry : ApprovalEntry, entries : Seq(ApprovalEntry)]
  /\ Listing(revising.entries)

\* A list lets through only what was given and not taken back.
Given(es) == \A i \in DOMAIN es : es[i].decision = "allow" => es[i] \in granted
LeavesGiven == ~overtaken => Given(cache) /\ \A s \in DOMAIN mine : Given(mine[s])

GrantInv == ApprovalTyped /\ LeavesGiven

(* ---- lists of approvals ------------------------------------------------------ *)

LEMMA ApprovalLists ==
  ASSUME NEW es \in Seq(ApprovalEntry), NEW p
  PROVE  /\ Approval!Fresh(es) = Sublist(es, {i \in DOMAIN es : ~Approval!Expired(es[i])})
         /\ Approval!Other(es, p) = Sublist(es, {i \in DOMAIN es : es[i].pattern # p})
<1>0. \A S : Approval!Cardinality(S) = Cardinality(S)
  BY Zenon DEF Approval!Cardinality, Cardinality
<1>1. \A I : \A k : Approval!Nth(I, k) = Nth(I, k)
  BY <1>0 DEF Approval!Nth, Nth
<1>2. \A I : Approval!Sublist(es, I) = Sublist(es, I)
  BY <1>0, <1>1 DEF Approval!Sublist, Sublist
<1>3. Approval!Fresh(es) = Approval!Sublist(es, {i \in DOMAIN es : ~Approval!Expired(es[i])})
  BY DEF Approval!Fresh, Approval!Kept
<1>4. Approval!Other(es, p) = Approval!Sublist(es, {i \in DOMAIN es : es[i].pattern # p})
  BY DEF Approval!Other, Approval!Kept
<1> QED
  BY <1>2, <1>3, <1>4

\* What is dropped from a list leaves a list, of entries that it had.
LEMMA PartListing ==
  ASSUME NEW es, Listing(es), NEW I, I \subseteq DOMAIN es
  PROVE  /\ Listing(Sublist(es, I)) /\ Len(Sublist(es, I)) \in 0..Len(es)
         /\ Given(es) => Given(Sublist(es, I))
         /\ \A k \in DOMAIN Sublist(es, I) : \E i \in I : Sublist(es, I)[k] = es[i]
         /\ \A i \in I : \E k \in DOMAIN Sublist(es, I) : Sublist(es, I)[k] = es[i]
<1> PICK t : t = Sublist(es, I)
  OBVIOUS
<1>0. es \in Seq(ApprovalEntry)
  BY DEF Listing
<1>1. t \in Seq(ApprovalEntry) /\ Len(t) = Cardinality(I) /\ Len(t) \in 0..Len(es) /\ DOMAIN t = 1..Len(t)
  BY <1>0, SublistOf
<1>2. \A k \in DOMAIN t : \E i \in I : t[k] = es[i]
  BY <1>0, <1>1, SublistOf
<1>3. \A i \in I : \E k \in DOMAIN t : t[k] = es[i]
  <2> SUFFICES ASSUME NEW i \in I PROVE \E k \in DOMAIN t : t[k] = es[i]
    OBVIOUS
  <2>1. Rank(I, i) \in 1..Cardinality(I) /\ t[Rank(I, i)] = es[i]
    BY <1>0, SublistOf
  <2> QED
    BY <1>1, <2>1
<1>4. Once(t)
  <2> SUFFICES ASSUME NEW k \in DOMAIN t, NEW l \in DOMAIN t, k # l PROVE t[k].pattern # t[l].pattern
    BY DEF Once
  <2>1. PICK i \in I, j \in I : i # j /\ t[k] = es[i] /\ t[l] = es[j]
    BY <1>0, SublistApart
  <2> QED
    BY <2>1 DEF Listing, Once
<1>5. Given(es) => Given(t)
  BY <1>2 DEF Given
<1> QED
  BY <1>1, <1>2, <1>3, <1>4, <1>5 DEF Listing

LEMMA FreshListing ==
  ASSUME NEW es, Listing(es)
  PROVE  /\ Listing(Approval!Fresh(es)) /\ (Given(es) => Given(Approval!Fresh(es)))
         /\ \A k \in DOMAIN Approval!Fresh(es) : ~Approval!Expired(Approval!Fresh(es)[k])
         /\ Len(Approval!Fresh(es)) = Len(es) => Approval!Fresh(es) = es
<1> DEFINE I == {i \in DOMAIN es : ~Approval!Expired(es[i])}
<1>1. Approval!Fresh(es) = Sublist(es, I) /\ es \in Seq(ApprovalEntry)
  BY ApprovalLists DEF Listing
<1>2. I \subseteq DOMAIN es
  OBVIOUS
<1>3. Len(Sublist(es, I)) = Len(es) => Sublist(es, I) = es
  <2> HIDE DEF I
  <2> QED
    BY <1>1, <1>2, SublistOf, SublistWhole
<1>4. /\ Listing(Sublist(es, I)) /\ (Given(es) => Given(Sublist(es, I)))
      /\ \A k \in DOMAIN Sublist(es, I) : \E i \in I : Sublist(es, I)[k] = es[i]
  <2> HIDE DEF I
  <2> QED
    BY <1>2, PartListing
<1>5. \A k \in DOMAIN Sublist(es, I) : ~Approval!Expired(Sublist(es, I)[k])
  BY <1>4
<1> QED
  BY <1>1, <1>3, <1>4, <1>5

LEMMA OtherListing ==
  ASSUME NEW es, Listing(es), NEW p
  PROVE  /\ Listing(Approval!Other(es, p)) /\ (Given(es) => Given(Approval!Other(es, p)))
         /\ \A k \in DOMAIN Approval!Other(es, p) : Approval!Other(es, p)[k].pattern # p
         /\ \A k \in DOMAIN Approval!Other(es, p) : \E i \in DOMAIN es : Approval!Other(es, p)[k] = es[i]
         /\ Len(Approval!Other(es, p)) = Len(es) => Approval!Other(es, p) = es
<1> DEFINE I == {i \in DOMAIN es : es[i].pattern # p}
<1>1. Approval!Other(es, p) = Sublist(es, I) /\ es \in Seq(ApprovalEntry)
  BY ApprovalLists DEF Listing
<1>2. I \subseteq DOMAIN es
  OBVIOUS
<1>3. Len(Sublist(es, I)) = Len(es) => Sublist(es, I) = es
  <2> HIDE DEF I
  <2> QED
    BY <1>1, <1>2, SublistOf, SublistWhole
<1>4. /\ Listing(Sublist(es, I)) /\ (Given(es) => Given(Sublist(es, I)))
      /\ \A k \in DOMAIN Sublist(es, I) : \E i \in I : Sublist(es, I)[k] = es[i]
  <2> HIDE DEF I
  <2> QED
    BY <1>2, PartListing
<1>5. \A k \in DOMAIN Sublist(es, I) :
        Sublist(es, I)[k].pattern # p /\ \E i \in DOMAIN es : Sublist(es, I)[k] = es[i]
  BY <1>4
<1> QED
  BY <1>1, <1>3, <1>4, <1>5

LEMMA AddedListing ==
  ASSUME NEW es, Listing(es), NEW e \in ApprovalEntry
  PROVE  /\ Listing(Approval!Added(es, e))
         /\ \A k \in DOMAIN Approval!Added(es, e) :
              \/ Approval!Added(es, e)[k] = e
              \/ /\ Approval!Added(es, e)[k].pattern # e.pattern
                 /\ \E i \in DOMAIN es : Approval!Added(es, e)[k] = es[i]
         /\ \E k \in DOMAIN Approval!Added(es, e) : Approval!Added(es, e)[k] = e
<1> PICK t : t = Approval!Other(es, e.pattern)
  OBVIOUS
<1>1. /\ t \in Seq(ApprovalEntry) /\ Once(t)
      /\ \A k \in DOMAIN t : t[k].pattern # e.pattern /\ \E i \in DOMAIN es : t[k] = es[i]
  BY OtherListing DEF Listing
<1> PICK u : u = Append(t, e)
  OBVIOUS
<1>2. /\ u \in Seq(ApprovalEntry) /\ DOMAIN u = 1..(Len(t) + 1) /\ DOMAIN t = 1..Len(t) /\ Len(t) \in Nat
      /\ u[Len(t) + 1] = e /\ \A k \in 1..Len(t) : u[k] = t[k]
  BY <1>1
<1>3. \A k \in DOMAIN u : k = Len(t) + 1 \/ k \in DOMAIN t
  BY <1>2
<1>4. Once(u)
  BY <1>1, <1>2, <1>3 DEF Once
<1>5. Approval!Added(es, e) = u
  BY DEF Approval!Added
<1>6. Len(t) + 1 \in DOMAIN u
  BY <1>2
<1> QED
  BY <1>1, <1>2, <1>3, <1>4, <1>5, <1>6 DEF Listing

(* ---- steps --------------------------------------------------------------------- *)

LEMMA NoRevisionTyped ==
  /\ Approval!NoRevision \in [op : RevisionOps, entry : ApprovalEntry, entries : Seq(ApprovalEntry)]
  /\ Listing(Approval!NoRevision.entries) /\ Listing(<<>>) /\ \A k \in DOMAIN <<>> : FALSE
<1>1. <<>> \in Seq(ApprovalEntry) /\ DOMAIN <<>> = {}
  OBVIOUS
<1>2. Approval!Entry(Approval!Nothing, "deny", Approval!Never) \in ApprovalEntry
  BY DEF Approval!Entry, Approval!Pattern, Approval!Never, ApprovalEntry
<1> QED
  BY <1>1, <1>2 DEF Approval!NoRevision, RevisionOps, Listing, Once

LEMMA GrantInit == Approval!Init => GrantInv
<1> SUFFICES ASSUME Approval!Init PROVE GrantInv
  OBVIOUS
<1>1. ApprovalTyped
  BY NoRevisionTyped DEF Approval!Init, ApprovalTyped
<1>2. LeavesGiven
  BY NoRevisionTyped DEF LeavesGiven, Given, Approval!Init
<1> QED
  BY <1>1, <1>2 DEF GrantInv

LEMMA GrantStart ==
  ASSUME GrantInv, NEW s \in Process, Approval!Start(s)
  PROVE  GrantInv'
<1>1. \A t \in DOMAIN mine' : mine'[t] = cache \/ (t \in DOMAIN mine /\ mine'[t] = mine[t])
  BY DEF Approval!Start
<1>2. DOMAIN mine' = DOMAIN mine \cup {s} /\ mine' \in [DOMAIN mine' -> Seq(ApprovalEntry)]
  BY DEF Approval!Start, GrantInv, ApprovalTyped, Listing
<1>3. ApprovalTyped'
  BY <1>1, <1>2 DEF Approval!Start, GrantInv, ApprovalTyped, Listing, Once
<1>4. LeavesGiven'
  BY <1>1 DEF Approval!Start, GrantInv, LeavesGiven, Given
<1> QED
  BY <1>3, <1>4 DEF GrantInv

LEMMA GrantRequest ==
  ASSUME GrantInv, NEW s \in Process, NEW c \in AskedCommand, Approval!Request(s, c)
  PROVE  GrantInv'
<1> PICK es : es = Approval!Fresh(mine[s])
  OBVIOUS
<1>0. s \in DOMAIN mine
  BY DEF Approval!Request, Approval!Started
<1>1. Listing(es) /\ (Given(mine[s]) => Given(es))
  BY <1>0, FreshListing DEF GrantInv, ApprovalTyped
<1>2. /\ mine' = [mine EXCEPT ![s] = es] /\ cache' \in {cache, es}
      /\ asked' \in {[asked EXCEPT ![s] = Approval!Nothing], [asked EXCEPT ![s] = c]}
      /\ UNCHANGED <<revising, askClock, granted, overtaken>>
  BY DEF Approval!Request
<1>3. ApprovalTyped'
  <2>1. DOMAIN mine' = DOMAIN mine /\ \A t \in DOMAIN mine : mine'[t] = IF t = s THEN es ELSE mine[t]
    BY <1>2 DEF GrantInv, ApprovalTyped
  <2>2. \A t \in DOMAIN mine' : Listing(mine'[t])
    BY <1>1, <2>1 DEF GrantInv, ApprovalTyped
  <2>3. mine' \in [DOMAIN mine' -> Seq(ApprovalEntry)]
    BY <1>1, <1>2, <2>1 DEF GrantInv, ApprovalTyped, Listing
  <2>4. Listing(cache')
    BY <1>1, <1>2 DEF GrantInv, ApprovalTyped
  <2>5. asked' \in [Process -> AskedCommand \cup {Approval!Nothing}] /\ \A t \in Process : asked'[t] # Approval!Nothing => t \in DOMAIN mine
    BY <1>0, <1>2 DEF GrantInv, ApprovalTyped
  <2> QED
    BY <1>2, <2>1, <2>2, <2>3, <2>4, <2>5 DEF GrantInv, ApprovalTyped, Listing, Once
<1>4. LeavesGiven'
  BY <1>0, <1>1, <1>2 DEF GrantInv, ApprovalTyped, LeavesGiven, Given
<1> QED
  BY <1>3, <1>4 DEF GrantInv

LEMMA UntilTyped == ASSUME GrantInv, NEW ttl \in TTL PROVE Approval!Until(ttl) \in Int
<1>1. askClock \in Int /\ ttl \in Int
  BY AskAssumption DEF GrantInv, ApprovalTyped
<1> QED
  BY <1>1 DEF Approval!Until, Approval!Never

LEMMA GrantApprove ==
  ASSUME GrantInv, NEW s \in Process, NEW ttl \in TTL, Approval!Approve(s, ttl)
  PROVE  GrantInv'
<1> PICK e : e = Approval!Entry(asked[s], "allow", Approval!Until(ttl))
  OBVIOUS
<1>0. asked[s] \in AskedCommand /\ s \in DOMAIN mine /\ Approval!Until(ttl) \in Int
  BY UntilTyped DEF Approval!Approve, GrantInv, ApprovalTyped
<1>1. e \in ApprovalEntry
  BY <1>0 DEF Approval!Entry, ApprovalEntry, Approval!Pattern
<1> PICK es : es = Approval!Added(mine[s], e)
  OBVIOUS
<1>2. Listing(es) /\ \A k \in DOMAIN es : es[k] = e \/ \E i \in DOMAIN mine[s] : es[k] = mine[s][i]
  BY <1>0, <1>1, AddedListing DEF GrantInv, ApprovalTyped
<1>3. /\ mine' = [mine EXCEPT ![s] = es] /\ cache' = es
      /\ granted' = granted \cup {e}
      /\ asked' = [asked EXCEPT ![s] = Approval!Nothing]
      /\ UNCHANGED <<revising, askClock, overtaken>>
  BY <1>0 DEF Approval!Approve, GrantInv, ApprovalTyped
<1>4. ApprovalTyped'
  BY <1>0, <1>2, <1>3 DEF GrantInv, ApprovalTyped, Listing, Once
<1>5. LeavesGiven'
  <2> SUFFICES ASSUME ~overtaken PROVE Given(cache)' /\ \A t \in DOMAIN mine' : Given(mine[t])'
    BY <1>3 DEF LeavesGiven
  <2>1. \A t \in DOMAIN mine : \A i \in DOMAIN mine[t] : mine[t][i].decision = "allow" => mine[t][i] \in granted'
    BY <1>3 DEF GrantInv, LeavesGiven, Given
  <2>2. Given(es)'
    <3> SUFFICES ASSUME NEW k \in DOMAIN es, es[k].decision = "allow" PROVE es[k] \in granted'
      BY DEF Given
    <3>1. e \in granted'
      BY <1>3
    <3> QED
      BY <1>0, <1>2, <2>1, <3>1
  <2>3. DOMAIN mine' = DOMAIN mine /\ \A t \in DOMAIN mine : mine'[t] = IF t = s THEN es ELSE mine[t]
    BY <1>3 DEF GrantInv, ApprovalTyped
  <2> QED
    BY <1>3, <2>1, <2>2, <2>3 DEF Given
<1> QED
  BY <1>4, <1>5 DEF GrantInv

LEMMA GrantRevise ==
  ASSUME GrantInv, NEW op \in RevisionOps, NEW e \in ApprovalEntry, Approval!Revise(op, e)
  PROVE  GrantInv'
<1>1. ApprovalTyped'
  BY DEF Approval!Revise, GrantInv, ApprovalTyped, Listing, Once
<1>2. LeavesGiven'
  BY DEF Approval!Revise, GrantInv, LeavesGiven, Given
<1> QED
  BY <1>1, <1>2 DEF GrantInv

\* What a command writes are entries it has read, but the one it adds.
LEMMA RevisedListing ==
  ASSUME GrantInv
  PROVE  /\ Listing(Approval!Revised)
         /\ \A k \in DOMAIN Approval!Revised :
              \/ revising.op = "add" /\ Approval!Revised[k] = revising.entry
              \/ /\ \E i \in DOMAIN revising.entries : Approval!Revised[k] = revising.entries[i]
                 /\ revising.op = "add" => Approval!Revised[k].pattern # revising.entry.pattern
         /\ revising.op \in {"remove", "list"} /\ Len(Approval!Revised) = Len(revising.entries)
              => Approval!Revised = revising.entries
<1> PICK es, e, op : es = revising.entries /\ e = revising.entry /\ op = revising.op
  OBVIOUS
<1>0. Listing(es) /\ e \in ApprovalEntry
  BY DEF GrantInv, ApprovalTyped
<1>1. CASE op = "add"
  <2>1. Approval!Revised = Approval!Added(es, e)
    BY <1>1 DEF Approval!Revised
  <2> QED
    BY <1>0, <1>1, <2>1, AddedListing
<1>2. CASE op = "remove"
  <2>1. Approval!Revised = Approval!Other(es, e.pattern)
    BY <1>2 DEF Approval!Revised
  <2> QED
    BY <1>0, <1>2, <2>1, OtherListing
<1>3. CASE op = "clear"
  <2>1. Approval!Revised = <<>>
    BY <1>3 DEF Approval!Revised
  <2>2. <<>> \in Seq(ApprovalEntry) /\ DOMAIN <<>> = {}
    OBVIOUS
  <2> QED
    BY <1>3, <2>1, <2>2 DEF Listing, Once
<1>4. CASE op \notin {"add", "remove", "clear"}
  <2>1. Approval!Revised = Approval!Fresh(es)
    BY <1>4 DEF Approval!Revised
  <2> PICK t : t = Approval!Fresh(es)
    OBVIOUS
  <2>2. Listing(t) /\ (Len(t) = Len(es) => t = es)
    BY <1>0, FreshListing
  <2>3. \A k \in DOMAIN t : \E i \in DOMAIN es : t[k] = es[i]
    <3> DEFINE I == {i \in DOMAIN es : ~Approval!Expired(es[i])}
    <3>1. t = Sublist(es, I)
      BY <1>0, ApprovalLists DEF Listing
    <3>2. I \subseteq DOMAIN es
      OBVIOUS
    <3> HIDE DEF I
    <3> QED
      BY <1>0, <3>1, <3>2, PartListing
  <2> QED
    BY <1>4, <2>1, <2>2, <2>3
<1> QED
  BY <1>1, <1>2, <1>3, <1>4

LEMMA GrantSave ==
  ASSUME GrantInv, Approval!SaveRevised
  PROVE  GrantInv'
<1> PICK es, e, op, new : es = revising.entries /\ e = revising.entry /\ op = revising.op /\ new = Approval!Revised
  OBVIOUS
<1>0. Listing(es) /\ e \in ApprovalEntry
  BY DEF GrantInv, ApprovalTyped
<1>1. /\ Listing(new)
      /\ \A k \in DOMAIN new :
           \/ op = "add" /\ new[k] = e
           \/ (\E i \in DOMAIN es : new[k] = es[i]) /\ (op = "add" => new[k].pattern # e.pattern)
      /\ op \in {"remove", "list"} /\ Len(new) = Len(es) => new = es
  BY RevisedListing
<1>2. /\ cache' = IF Len(new) = Len(es) /\ op \in {"remove", "list"} THEN cache ELSE new
      /\ revising' = Approval!NoRevision
      /\ UNCHANGED <<mine, asked, askClock>>
  BY DEF Approval!SaveRevised
<1>4. ApprovalTyped'
  BY <1>1, <1>2, NoRevisionTyped DEF GrantInv, ApprovalTyped, Listing, Once
<1> DEFINE gone == Approval!Patterns(es) \ Approval!Patterns(new)
           back == {g \in granted : g.pattern \in gone \/ (op = "add" /\ g.pattern = e.pattern)}
<1>5. ~overtaken' => /\ ~overtaken /\ cache = es
                     /\ \A s \in DOMAIN mine : {g.pattern : g \in back} \cap Approval!Patterns(mine[s]) = {}
  <2>1. overtaken' = \/ overtaken \/ cache # es
                     \/ \E s \in Process : s \in DOMAIN mine /\ {g.pattern : g \in back} \cap Approval!Patterns(mine[s]) # {}
    BY DEF Approval!SaveRevised, Approval!Started
  <2>2. DOMAIN mine \subseteq Process
    BY DEF GrantInv, ApprovalTyped
  <2> HIDE DEF back
  <2> QED
    BY <2>1, <2>2
<1>6. granted' = (granted \ back) \cup IF op = "add" /\ e.decision = "allow" THEN {e} ELSE {}
  BY DEF Approval!SaveRevised
<1>7. \A s \in {es, new} \cup {mine[t] : t \in DOMAIN mine} :
        \A k \in DOMAIN s : s[k].pattern \in Approval!Patterns(s)
  BY DEF Approval!Patterns, ToSet, Approval!Range
<1>8. ASSUME ~overtaken' PROVE \A k \in DOMAIN cache' : cache'[k].decision = "allow" => cache'[k] \in granted'
  <2>1. \A k \in DOMAIN new : new[k].pattern \notin gone
    BY <1>7
  <2>2. \A i \in DOMAIN es : es[i].decision = "allow" => es[i] \in granted
    BY <1>5, <1>8 DEF GrantInv, LeavesGiven, Given
  <2>3. cache' = new
    BY <1>1, <1>2, <1>5, <1>8
  <2> SUFFICES ASSUME NEW k \in DOMAIN new, new[k].decision = "allow" PROVE new[k] \in granted'
    BY <2>3
  <2>4. CASE op = "add" /\ new[k] = e
    BY <1>6, <2>4
  <2>5. CASE (\E i \in DOMAIN es : new[k] = es[i]) /\ (op = "add" => new[k].pattern # e.pattern)
    <3>1. new[k] \in granted
      BY <2>2, <2>5
    <3>2. new[k] \notin back
      BY <2>1, <2>5
    <3> QED
      BY <1>6, <3>1, <3>2
  <2> QED
    BY <1>1, <2>4, <2>5
<1>9. ASSUME ~overtaken', NEW s \in DOMAIN mine PROVE \A k \in DOMAIN mine[s] : mine[s][k].decision = "allow" => mine[s][k] \in granted'
  <2> SUFFICES ASSUME NEW k \in DOMAIN mine[s], mine[s][k].decision = "allow" PROVE mine[s][k] \in granted'
    OBVIOUS
  <2>1. mine[s][k] \in granted
    BY <1>5, <1>9 DEF GrantInv, LeavesGiven, Given
  <2>2. mine[s][k].pattern \in Approval!Patterns(mine[s])
    BY <1>7
  <2>3. mine[s][k] \notin back
    <3>1. {g.pattern : g \in back} \cap Approval!Patterns(mine[s]) = {}
      BY <1>5, <1>9
    <3> HIDE DEF back
    <3> QED
      BY <2>2, <3>1
  <2> QED
    BY <1>6, <2>1, <2>3
<1> HIDE DEF back, gone
<1>10. LeavesGiven'
  BY <1>2, <1>8, <1>9 DEF LeavesGiven, Given
<1> QED
  BY <1>4, <1>10 DEF GrantInv

LEMMA GrantNext == GrantInv /\ [Approval!Next]_approvalVars => GrantInv'
<1> SUFFICES ASSUME GrantInv, [Approval!Next]_approvalVars PROVE GrantInv'
  OBVIOUS
<1>1. CASE UNCHANGED approvalVars
  BY <1>1 DEF approvalVars, GrantInv, ApprovalTyped, LeavesGiven, Given, Listing, Once
<1>2. ASSUME NEW s \in Process, Approval!Refuse(s) PROVE GrantInv'
  BY <1>2 DEF Approval!Refuse, GrantInv, ApprovalTyped, LeavesGiven, Given, Listing, Once
<1>3. CASE Approval!Revisions
  <2>1. \A p \in Approval!Pattern, d \in {"allow", "deny"}, until \in Int : Approval!Entry(p, d, until) \in ApprovalEntry
    BY DEF Approval!Entry, ApprovalEntry
  <2>2. /\ \A ttl \in TTL : Approval!Until(ttl) \in Int
        /\ Approval!Never \in Int /\ Approval!Nothing \in Approval!Pattern /\ Phrase \subseteq Approval!Pattern
    BY UntilTyped DEF Approval!Never, Approval!Pattern
  <2>3. PICK op \in RevisionOps, e \in ApprovalEntry : Approval!Revise(op, e)
    <3>1. CASE \E p \in Phrase, d \in {"allow", "deny"}, ttl \in TTL :
                 Approval!Revise("add", Approval!Entry(p, d, Approval!Until(ttl)))
      BY <2>1, <2>2, <3>1 DEF RevisionOps
    <3>2. CASE \E p \in Phrase : Approval!Revise("remove", Approval!Entry(p, "deny", Approval!Never))
      BY <2>1, <2>2, <3>2 DEF RevisionOps
    <3>3. CASE \E op \in {"clear", "list"} : Approval!Revise(op, Approval!Entry(Approval!Nothing, "deny", Approval!Never))
      BY <2>1, <2>2, <3>3 DEF RevisionOps
    <3> QED
      BY <1>3, <3>1, <3>2, <3>3 DEF Approval!Revisions
  <2> QED
    BY <2>3, GrantRevise
<1>4. CASE Approval!Tick
  BY <1>4 DEF Approval!Tick, GrantInv, ApprovalTyped, LeavesGiven, Given, Listing, Once
<1>5. \/ UNCHANGED approvalVars \/ Approval!Revisions \/ Approval!SaveRevised \/ Approval!Tick
      \/ \E s \in Process : \/ Approval!Start(s) \/ Approval!Refuse(s)
                            \/ \E ttl \in TTL : Approval!Approve(s, ttl)
                            \/ \E c \in AskedCommand : Approval!Request(s, c)
  BY DEF Approval!Next
<1> QED
  BY <1>1, <1>2, <1>3, <1>4, <1>5, GrantStart, GrantApprove, GrantRequest, GrantSave

\* What the cache lets through matches an entry that was given and still holds.
LEMMA AllowsGiven ==
  ASSUME NEW es, Listing(es), Given(es), NEW c, Approval!Allows(es, c)
  PROVE  \E k \in DOMAIN es : es[k] \in granted /\ Approval!Matches(es[k].pattern, c)
<1> PICK H : H = Approval!Hits(es, c)
  OBVIOUS
<1>1. H \subseteq DOMAIN es /\ H # {} /\ \A i \in H : Approval!Matches(es[i].pattern, c)
  BY DEF Approval!Allows, Approval!Hits
<1>2. \E i \in H : \A j \in H : i <= j
  <2>1. H \subseteq Nat
    BY <1>1 DEF Listing
  <2> QED
    BY <1>1, <2>1, Least
<1>3. PICK k \in H : Approval!First(es, c) = es[k]
  BY <1>2 DEF Approval!First
<1> QED
  BY <1>1, <1>3 DEF Approval!Allows, Given

LEMMA GrantAction == GrantInv => Approval!CachedWithinGrant
<1> SUFFICES ASSUME GrantInv, NEW s \in Process, NEW c \in AskedCommand,
                    Approval!Request(s, c), asked'[s] = Approval!Nothing, ~overtaken
             PROVE  \E g \in granted : Approval!Matches(g.pattern, c) /\ ~Approval!Expired(g)
  BY DEF Approval!CachedWithinGrant
<1> PICK es : es = Approval!Fresh(mine[s])
  OBVIOUS
<1>1. s \in DOMAIN mine
  BY DEF Approval!Request, Approval!Started
<1>2. Listing(es) /\ Given(es) /\ \A k \in DOMAIN es : ~Approval!Expired(es[k])
  BY <1>1, FreshListing DEF GrantInv, ApprovalTyped, LeavesGiven
<1>0. Approval!Nothing \notin AskedCommand
  BY AskAssumption DEF Approval!Nothing
<1>3. Approval!Allows(es, c)
  BY <1>0 DEF Approval!Request, GrantInv, ApprovalTyped
<1> QED
  BY <1>2, <1>3, AllowsGiven

\* For any processes, commands, patterns and times to live: a cached leave answers
\* only while a leave for the command lasts that was given and not taken back, unless
\* a session had a copy of it when it was taken back (CachedApprovalBackend,
\* ApprovalCache and the approvals commands).
THEOREM CacheWithinGrant == Spec => CachedWithinGrant
<1> DEFINE Inv == At("approvals") => GrantInv
<1>1. Init => Inv
  BY GrantInit DEF Init
<1>2. Inv /\ [Next]_homeVars => Inv'
  <2> SUFFICES ASSUME Inv, [Next]_homeVars, At("approvals")' PROVE GrantInv'
    OBVIOUS
  <2>1. GrantInv /\ (Approval!Next \/ UNCHANGED approvalVars)
    BY DEF Next, homeVars, At
  <2> QED
    BY <2>1, GrantNext
<1>3. Inv => (At("approvals") => Approval!CachedWithinGrant)
  BY GrantAction
<1> QED
  BY <1>1, <1>2, <1>3, PTL DEF Spec, CachedWithinGrant

(* -------- the rules file ------------------------------------------------------- *)

RuleNames == {"mine", "block-alert", "exfiltration-sequence"}
FileRule ==
  [name : RuleNames, enabled : BOOLEAN, type : {"notify", "investigate"}, critical : BOOLEAN,
   actions : SUBSET {"lock_vault"}, filter : BOOLEAN, sequence : {"none", "steps"},
   cooldown : {"2m", "30m", "2 minutes"}, template : BOOLEAN]
RuleOps == {"none", "init", "sync", "enable", "disable"}

RuleTyped ==
  /\ ruleFile \in [there : BOOLEAN, rules : Seq(FileRule)]
  /\ admin \in [Process -> [op : RuleOps, name : RuleNames \cup {"none"}, rules : Seq(FileRule)]]
  /\ switched \in [DOMAIN switched -> BOOLEAN]
  /\ entangled \in BOOLEAN
  /\ \A a \in Process : admin[a].op = "none" => admin[a] = Rules!Free

\* Saving writes the rule as it is.
Plain(r) == (r.type = "investigate" => r.template = FALSE) /\ (r.type = "notify" => r.actions = {})

\* Every name once, and every rule as it is saved.
Tidy(rules) ==
  /\ \A i, j \in DOMAIN rules : rules[i].name = rules[j].name => i = j
  /\ \A i \in DOMAIN rules : Plain(rules[i])

\* What was switched is in the list, valid, and as it was switched.
SwitchedIn(rules, how) ==
  /\ \A n \in DOMAIN how : \E i \in DOMAIN rules : Rules!Valid(rules[i]) /\ rules[i].name = n
  /\ \A i \in DOMAIN rules : Rules!Valid(rules[i]) /\ rules[i].name \in DOMAIN how
                               => rules[i].enabled = how[rules[i].name]

\* A rule of the name is switched.
Turned(rules, name, on, next) ==
  \E i \in DOMAIN rules : rules[i].name = name /\ next = [rules EXCEPT ![i].enabled = on]

\* What sync-defaults puts together: the valid rules, the missing ones after them.
Synced(rules) == Rules!Loaded(rules) \o Rules!Missing(Rules!Loaded(rules))

\* What a command is about to save, in terms of the file as it still is.
Intended(a) ==
  LET op == admin[a].op
      rules == ruleFile.rules
  IN /\ op = "init" => ~ruleFile.there /\ admin[a].rules = Rules!DefaultRules
     /\ op = "sync" => ruleFile.there /\ admin[a].rules = Synced(rules)
     /\ op = "enable" => ruleFile.there /\ Turned(rules, admin[a].name, TRUE, admin[a].rules)
     /\ op = "disable" => ruleFile.there /\ Turned(rules, admin[a].name, FALSE, admin[a].rules)

RulesInTurn ==
  /\ ~ruleFile.there => ruleFile.rules = <<>>
  /\ Tidy(ruleFile.rules) /\ SwitchedIn(ruleFile.rules, switched)
  /\ \A a, b \in Process : admin[a] # Rules!Free /\ admin[b] # Rules!Free => a = b
  /\ \A a \in Process : Intended(a)

RuleInv == RuleTyped /\ (entangled = FALSE => RulesInTurn)

(* ---- lists of rules ------------------------------------------------------------ *)

LEMMA DefaultsTyped ==
  /\ Rules!DefaultRules \in Seq(FileRule) /\ DOMAIN Rules!DefaultRules = {1, 2} /\ Tidy(Rules!DefaultRules)
  /\ \A i \in DOMAIN Rules!DefaultRules : Rules!Valid(Rules!DefaultRules[i])
  /\ Rules!UserRules \in SUBSET FileRule /\ \A r \in Rules!UserRules : Plain(r)
  /\ {"mine"} \cup Rules!Names(Rules!DefaultRules) = RuleNames
<1>1. Rules!Alert \in FileRule /\ Rules!Response \in FileRule
  BY DEF Rules!Alert, Rules!Response, FileRule, RuleNames
<1>2. Rules!DefaultRules = <<Rules!Alert, Rules!Response>>
  BY DEF Rules!DefaultRules
<1>3. Rules!Alert.name # Rules!Response.name /\ Plain(Rules!Alert) /\ Plain(Rules!Response)
  BY DEF Rules!Alert, Rules!Response, Plain
<1>4. Rules!Valid(Rules!Alert) /\ Rules!Valid(Rules!Response)
  BY DEF Rules!Alert, Rules!Response, Rules!Valid
<1>5. Rules!UserRules \in SUBSET FileRule
  BY DEF Rules!UserRules, Rules!Alert, Rules!Response, FileRule, RuleNames
<1>6. \A r \in Rules!UserRules : Plain(r)
  BY DEF Rules!UserRules, Rules!Alert, Rules!Response, Plain
<1>7. Rules!Names(Rules!DefaultRules) = {Rules!Alert.name, Rules!Response.name}
  BY <1>2 DEF Rules!Names, Rules!Range
<1>8. Rules!Alert.name = "block-alert" /\ Rules!Response.name = "exfiltration-sequence"
  BY DEF Rules!Alert, Rules!Response
<1>9. {"mine"} \cup Rules!Names(Rules!DefaultRules) = RuleNames
  BY <1>7, <1>8 DEF RuleNames
<1>10. DOMAIN Rules!DefaultRules = {1, 2} /\ Rules!DefaultRules \in Seq(FileRule)
  BY <1>1, <1>2
<1>11. Tidy(Rules!DefaultRules) /\ \A i \in DOMAIN Rules!DefaultRules : Rules!Valid(Rules!DefaultRules[i])
  BY <1>2, <1>3, <1>4, <1>10 DEF Tidy
<1> QED
  BY <1>5, <1>6, <1>9, <1>10, <1>11

\* The lists that are made of others.
LEMMA RuleLists ==
  ASSUME NEW rules \in Seq(FileRule)
  PROVE  /\ Rules!Loaded(rules) = Sublist(rules, {i \in DOMAIN rules : Rules!Valid(rules[i])})
         /\ Rules!Missing(rules) =
              Sublist(Rules!DefaultRules,
                      {i \in DOMAIN Rules!DefaultRules : Rules!DefaultRules[i].name \notin Rules!Names(rules)})
<1>0. \A S : Rules!Cardinality(S) = Cardinality(S)
  BY Zenon DEF Rules!Cardinality, Cardinality
<1>1. \A I : \A k : Rules!Nth(I, k) = Nth(I, k)
  BY <1>0 DEF Rules!Nth, Nth
<1>2. \A s : \A I : Rules!Sublist(s, I) = Sublist(s, I)
  BY <1>0, <1>1 DEF Rules!Sublist, Sublist
<1>3. Rules!Loaded(rules) = Rules!Sublist(rules, {i \in DOMAIN rules : Rules!Valid(rules[i])})
  BY DEF Rules!Loaded, Rules!Kept
<1>4. Rules!Missing(rules) =
        Rules!Sublist(Rules!DefaultRules,
                {i \in DOMAIN Rules!DefaultRules : Rules!DefaultRules[i].name \notin Rules!Names(rules)})
  BY DEF Rules!Missing, Rules!Kept
<1> QED
  BY <1>2, <1>3, <1>4

\* Part of a tidy list is tidy.
LEMMA PartTidy ==
  ASSUME NEW rules \in Seq(FileRule), Tidy(rules), NEW I, I \subseteq DOMAIN rules
  PROVE  /\ Sublist(rules, I) \in Seq(FileRule) /\ Tidy(Sublist(rules, I))
         /\ \A k \in DOMAIN Sublist(rules, I) : \E i \in I : Sublist(rules, I)[k] = rules[i]
         /\ \A i \in I : \E k \in DOMAIN Sublist(rules, I) : Sublist(rules, I)[k] = rules[i]
<1> PICK t : t = Sublist(rules, I)
  OBVIOUS
<1>1. t \in Seq(FileRule) /\ DOMAIN t = 1..Cardinality(I)
  BY SublistOf
<1>2. \A k \in DOMAIN t : \E i \in I : t[k] = rules[i]
  BY <1>1, SublistOf
<1>3. \A i \in I : \E k \in DOMAIN t : t[k] = rules[i]
  <2> SUFFICES ASSUME NEW i \in I PROVE \E k \in DOMAIN t : t[k] = rules[i]
    OBVIOUS
  <2>1. Rank(I, i) \in 1..Cardinality(I) /\ t[Rank(I, i)] = rules[i]
    BY SublistOf
  <2> QED
    BY <1>1, <2>1
<1>4. \A k, l \in DOMAIN t : t[k].name = t[l].name => k = l
  <2> SUFFICES ASSUME NEW k \in DOMAIN t, NEW l \in DOMAIN t, k # l PROVE t[k].name # t[l].name
    OBVIOUS
  <2>1. PICK i \in I, j \in I : i # j /\ t[k] = rules[i] /\ t[l] = rules[j]
    BY SublistApart
  <2> QED
    BY <2>1 DEF Tidy
<1>5. Tidy(t)
  BY <1>2, <1>4 DEF Tidy
<1> QED
  BY <1>1, <1>2, <1>3, <1>5

\* load_rules: the valid ones, all of them.
LEMMA LoadedTidy ==
  ASSUME NEW rules \in Seq(FileRule), Tidy(rules)
  PROVE  /\ Rules!Loaded(rules) \in Seq(FileRule) /\ Tidy(Rules!Loaded(rules))
         /\ \A k \in DOMAIN Rules!Loaded(rules) :
              Rules!Valid(Rules!Loaded(rules)[k]) /\ \E i \in DOMAIN rules : Rules!Loaded(rules)[k] = rules[i]
         /\ \A i \in DOMAIN rules :
              Rules!Valid(rules[i]) => \E k \in DOMAIN Rules!Loaded(rules) : Rules!Loaded(rules)[k] = rules[i]
<1> DEFINE I == {i \in DOMAIN rules : Rules!Valid(rules[i])}
<1>1. I \subseteq DOMAIN rules /\ (\A i \in I : Rules!Valid(rules[i]))
      /\ \A i \in DOMAIN rules : Rules!Valid(rules[i]) => i \in I
  OBVIOUS
<1>2. Rules!Loaded(rules) = Sublist(rules, I)
  BY RuleLists
<1> HIDE DEF I
<1> QED
  BY <1>1, <1>2, PartTidy

\* The defaults that are missing from a list of rules, none of them in it.
LEMMA MissingTidy ==
  ASSUME NEW rules \in Seq(FileRule)
  PROVE  /\ Rules!Missing(rules) \in Seq(FileRule) /\ Tidy(Rules!Missing(rules))
         /\ \A k \in DOMAIN Rules!Missing(rules) :
              /\ Rules!Valid(Rules!Missing(rules)[k])
              /\ \A i \in DOMAIN rules : Rules!Missing(rules)[k].name # rules[i].name
<1> PICK D : D = Rules!DefaultRules
  OBVIOUS
<1> DEFINE I == {i \in DOMAIN D : D[i].name \notin Rules!Names(rules)}
<1>1. I \subseteq DOMAIN D /\ \A i \in I : D[i].name \notin Rules!Names(rules)
  OBVIOUS
<1>2. Rules!Missing(rules) = Sublist(D, I)
  BY RuleLists
<1>3. \A i \in DOMAIN rules : rules[i].name \in Rules!Names(rules)
  BY DEF Rules!Names, Rules!Range
<1> HIDE DEF I
<1>4. /\ Sublist(D, I) \in Seq(FileRule) /\ Tidy(Sublist(D, I))
      /\ \A k \in DOMAIN Sublist(D, I) : \E i \in I : Sublist(D, I)[k] = D[i]
  BY <1>1, DefaultsTyped, PartTidy
<1>5. ASSUME NEW k \in DOMAIN Sublist(D, I)
      PROVE  Rules!Valid(Sublist(D, I)[k]) /\ \A i \in DOMAIN rules : Sublist(D, I)[k].name # rules[i].name
  <2>1. PICK i \in I : Sublist(D, I)[k] = D[i]
    BY <1>4
  <2> QED
    BY <1>1, <1>3, <2>1, DefaultsTyped
<1> QED
  BY <1>2, <1>4, <1>5

\* load_rules keeps rules.
LEMMA LoadedTyped ==
  ASSUME NEW rules \in Seq(FileRule)
  PROVE  Rules!Loaded(rules) \in Seq(FileRule)
<1> DEFINE I == {i \in DOMAIN rules : Rules!Valid(rules[i])}
<1>1. I \subseteq DOMAIN rules /\ Rules!Loaded(rules) = Sublist(rules, I)
  BY RuleLists
<1> HIDE DEF I
<1> QED
  BY <1>1, SublistOf

\* save_rules: a tidy list is written as it is.
LEMMA SavedTidy ==
  ASSUME NEW all \in Seq(FileRule), Tidy(all)
  PROVE  Rules!Saved(all) = all
<1> DEFINE saved(r) == IF r.type = "investigate" THEN [r EXCEPT !.template = FALSE]
                       ELSE [r EXCEPT !.actions = {}]
<1>1. \A k \in DOMAIN all : all[k] \in FileRule
  OBVIOUS
<1>2. ASSUME NEW r \in FileRule, Plain(r) PROVE saved(r) = r
  <2>1. CASE r.type = "investigate"
    <3>1. [r EXCEPT !.template = r.template] = r
      BY DEF FileRule
    <3> QED
      BY <1>2, <2>1, <3>1, Zenon DEF Plain
  <2>2. CASE r.type # "investigate"
    <3>1. [r EXCEPT !.actions = r.actions] = r /\ r.type = "notify"
      BY <2>2 DEF FileRule
    <3> QED
      BY <1>2, <2>2, <3>1, Zenon DEF Plain
  <2> QED
    BY <2>1, <2>2
<1>3. Rules!Saved(all) = [k \in DOMAIN all |-> saved(all[k])]
  BY Zenon DEF Rules!Saved
<1> HIDE DEF saved
<1>4. [k \in DOMAIN all |-> saved(all[k])] = [k \in DOMAIN all |-> all[k]]
  BY <1>1, <1>2 DEF Tidy
<1>5. [k \in DOMAIN all |-> all[k]] = all
  OBVIOUS
<1> QED
  BY <1>3, <1>4, <1>5

\* It has every name once, all of it is valid and saved as it is.
LEMMA SyncedTidy ==
  ASSUME NEW rules \in Seq(FileRule), Tidy(rules)
  PROVE  /\ Synced(rules) \in Seq(FileRule) /\ Tidy(Synced(rules))
         /\ Rules!Saved(Synced(rules)) = Synced(rules) /\ Rules!Loaded(Synced(rules)) = Synced(rules)
         /\ \A k \in DOMAIN Synced(rules) :
              \/ \E i \in DOMAIN rules : Synced(rules)[k] = rules[i]
              \/ \A i \in DOMAIN rules : Rules!Valid(rules[i]) => Synced(rules)[k].name # rules[i].name
         /\ \A i \in DOMAIN rules :
              Rules!Valid(rules[i]) => \E k \in DOMAIN Synced(rules) : Synced(rules)[k] = rules[i]
<1> PICK all : all = Synced(rules)
  OBVIOUS
<1> PICK own : own = Rules!Loaded(rules)
  OBVIOUS
<1> PICK new : new = Rules!Missing(own)
  OBVIOUS
<1>1. /\ own \in Seq(FileRule) /\ Tidy(own)
      /\ \A k \in DOMAIN own : Rules!Valid(own[k]) /\ \E i \in DOMAIN rules : own[k] = rules[i]
      /\ \A i \in DOMAIN rules : Rules!Valid(rules[i]) => \E k \in DOMAIN own : own[k] = rules[i]
  BY LoadedTidy
<1>2. /\ new \in Seq(FileRule) /\ Tidy(new)
      /\ \A k \in DOMAIN new : Rules!Valid(new[k]) /\ \A i \in DOMAIN own : new[k].name # own[i].name
  BY <1>1, MissingTidy
<1>3. /\ all \in Seq(FileRule) /\ DOMAIN all = 1..(Len(own) + Len(new))
      /\ DOMAIN own = 1..Len(own) /\ DOMAIN new = 1..Len(new) /\ Len(own) \in Nat /\ Len(new) \in Nat
      /\ \A k \in 1..Len(own) : all[k] = own[k]
      /\ \A k \in (Len(own) + 1)..(Len(own) + Len(new)) : all[k] = new[k - Len(own)]
  <2>1. all = own \o new
    BY DEF Synced
  <2> QED
    BY <1>1, <1>2, <2>1
<1>4. \A k \in DOMAIN all : \/ k \in DOMAIN own /\ all[k] = own[k]
                            \/ k - Len(own) \in DOMAIN new /\ all[k] = new[k - Len(own)]
  BY <1>3
<1>5. \A k, l \in DOMAIN all : all[k].name = all[l].name => k = l
  <2> SUFFICES ASSUME NEW k \in DOMAIN all, NEW l \in DOMAIN all, all[k].name = all[l].name PROVE k = l
    OBVIOUS
  <2>1. CASE k \in DOMAIN own /\ all[k] = own[k] /\ l \in DOMAIN own /\ all[l] = own[l]
    BY <1>1, <2>1 DEF Tidy
  <2>2. CASE k - Len(own) \in DOMAIN new /\ all[k] = new[k - Len(own)] /\ l - Len(own) \in DOMAIN new /\ all[l] = new[l - Len(own)]
    <3>1. k - Len(own) = l - Len(own)
      BY <1>2, <2>2 DEF Tidy
    <3>2. k \in Int /\ l \in Int
      BY <1>3
    <3> QED
      BY <1>3, <3>1, <3>2
  <2> QED
    BY <1>2, <1>4, <2>1, <2>2
<1>6. \A k \in DOMAIN all : Plain(all[k]) /\ Rules!Valid(all[k])
  BY <1>1, <1>2, <1>4 DEF Tidy
<1>7. Rules!Saved(all) = all
  BY <1>3, <1>5, <1>6, SavedTidy DEF Tidy
<1>8. Rules!Loaded(all) = all
  <2>1. {i \in DOMAIN all : Rules!Valid(all[i])} = DOMAIN all
    BY <1>6
  <2> QED
    BY <1>3, <2>1, RuleLists, SublistWhole
<1>9. ASSUME NEW k \in DOMAIN all
      PROVE  \/ \E i \in DOMAIN rules : all[k] = rules[i]
             \/ \A i \in DOMAIN rules : Rules!Valid(rules[i]) => all[k].name # rules[i].name
  <2>1. CASE k \in DOMAIN own /\ all[k] = own[k]
    BY <1>1, <2>1
  <2>2. CASE k - Len(own) \in DOMAIN new /\ all[k] = new[k - Len(own)]
    <3>1. \A j \in DOMAIN own : all[k].name # own[j].name
      BY <1>2, <2>2
    <3> QED
      BY <1>1, <3>1
  <2> QED
    BY <1>4, <1>9, <2>1, <2>2
<1>10. \A i \in DOMAIN rules : Rules!Valid(rules[i]) => \E k \in DOMAIN all : all[k] = rules[i]
  <2>1. \A k \in DOMAIN own : k \in DOMAIN all /\ all[k] = own[k]
    BY <1>3
  <2> QED
    BY <1>1, <2>1
<1> QED
  BY <1>3, <1>5, <1>6, <1>7, <1>8, <1>9, <1>10 DEF Tidy

(* ---- the commands on the file ------------------------------------------------------ *)

LEMMA TurnedTyped ==
  ASSUME NEW rules \in Seq(FileRule), NEW i \in DOMAIN rules, NEW on \in BOOLEAN
  PROVE  [rules EXCEPT ![i].enabled = on] \in Seq(FileRule)
<1> PICK r \in FileRule : r = rules[i]
  OBVIOUS
<1>1. [r EXCEPT !.enabled = on] \in FileRule
  BY DEF FileRule
<1> QED
  BY <1>1

LEMMA FreeTyped ==
  /\ Rules!Free \in [op : RuleOps, name : RuleNames \cup {"none"}, rules : Seq(FileRule)]
  /\ Rules!Free.op = "none"
BY DEF Rules!Free, RuleOps, RuleNames

LEMMA RuleInit == Rules!Init => RuleInv
<1> SUFFICES ASSUME Rules!Init PROVE RuleInv
  OBVIOUS
<1>1. Rules!Free \in [op : RuleOps, name : RuleNames \cup {"none"}, rules : Seq(FileRule)] /\ Rules!Free.op = "none"
  BY FreeTyped
<1>2. RuleTyped
  <2>1. admin \in [Process -> [op : RuleOps, name : RuleNames \cup {"none"}, rules : Seq(FileRule)]]
        /\ \A a \in Process : admin[a] = Rules!Free
    BY <1>1 DEF Rules!Init
  <2>2. ruleFile \in [there : BOOLEAN, rules : Seq(FileRule)] /\ entangled \in BOOLEAN
    <3>1. ruleFile = [there |-> FALSE, rules |-> <<>>] /\ entangled = FALSE
      BY Zenon DEF Rules!Init
    <3>2. <<>> \in Seq(FileRule)
      OBVIOUS
    <3> QED
      BY <3>1, <3>2
  <2>3. switched \in [DOMAIN switched -> BOOLEAN]
    BY DEF Rules!Init
  <2> QED
    BY <2>1, <2>2, <2>3 DEF RuleTyped
<1>3. ruleFile.rules = <<>> /\ DOMAIN ruleFile.rules = {} /\ DOMAIN switched = {}
  BY DEF Rules!Init
<1>4. \A a \in Process : admin[a] = Rules!Free
  BY DEF Rules!Init
<1>5. RulesInTurn
  BY <1>1, <1>3, <1>4 DEF RulesInTurn, Tidy, SwitchedIn, Intended
<1> QED
  BY <1>2, <1>5 DEF RuleInv

\* A command has read the file: what it is about to save is said by Intended.
LEMMA RuleTake ==
  ASSUME RuleInv, NEW a \in Process, NEW op \in RuleOps \ {"none"}, NEW name \in RuleNames \cup {"none"},
         NEW rules \in Seq(FileRule), Rules!Take(a, op, name, rules),
         entangled = FALSE =>
           /\ op = "init" => ~ruleFile.there /\ rules = Rules!DefaultRules
           /\ op = "sync" => ruleFile.there /\ rules = Synced(ruleFile.rules)
           /\ op = "enable" => ruleFile.there /\ Turned(ruleFile.rules, name, TRUE, rules)
           /\ op = "disable" => ruleFile.there /\ Turned(ruleFile.rules, name, FALSE, rules)
  PROVE  RuleInv'
<1> PICK job : job = [op |-> op, name |-> name, rules |-> rules]
  OBVIOUS
<1>1. /\ job \in [op : RuleOps, name : RuleNames \cup {"none"}, rules : Seq(FileRule)]
      /\ job.op = op /\ job.name = name /\ job.rules = rules
  OBVIOUS
<1>2. /\ admin' = [admin EXCEPT ![a] = job] /\ admin[a] = Rules!Free
      /\ UNCHANGED <<ruleFile, switched>>
      /\ entangled' = (entangled \/ ~Rules!NobodyAt)
  BY DEF Rules!Take
<1>3. \A b \in Process : admin'[b] = IF b = a THEN job ELSE admin[b]
  BY <1>2 DEF RuleInv, RuleTyped
<1>4. RuleTyped'
  <2>1. entangled' \in BOOLEAN
    BY <1>2 DEF RuleInv, RuleTyped
  <2>2. \A b \in Process : admin'[b].op = "none" => admin'[b] = Rules!Free
    BY <1>1, <1>3 DEF RuleInv, RuleTyped
  <2>3. admin' \in [Process -> [op : RuleOps, name : RuleNames \cup {"none"}, rules : Seq(FileRule)]]
    BY <1>1, <1>2 DEF RuleInv, RuleTyped
  <2> QED
    BY <1>2, <2>1, <2>2, <2>3 DEF RuleInv, RuleTyped
<1>5. ASSUME entangled' = FALSE PROVE RulesInTurn'
  <2>1. entangled = FALSE /\ RulesInTurn /\ \A b \in Process : admin[b] = Rules!Free
    BY <1>2, <1>5 DEF RuleInv, RuleTyped, Rules!NobodyAt
  <2>2. \A b \in Process : Intended(b)'
    <3> SUFFICES ASSUME NEW b \in Process PROVE Intended(b)'
      OBVIOUS
    <3>1. CASE b # a
      <4>1. admin'[b] = Rules!Free
        BY <1>3, <2>1, <3>1
      <4>2. admin'[b].op = "none"
        BY <4>1, FreeTyped
      <4> QED
        BY <4>2 DEF Intended
    <3>2. CASE b = a
      <4>1. admin'[b].op = op /\ admin'[b].name = name /\ admin'[b].rules = rules /\ ruleFile' = ruleFile
        BY <1>1, <1>2, <1>3, <3>2
      <4>2. op = "init" => ~ruleFile'.there /\ admin'[b].rules = Rules!DefaultRules
        BY <2>1, <4>1
      <4>3. op = "sync" => ruleFile'.there /\ admin'[b].rules = Synced(ruleFile'.rules)
        BY <2>1, <4>1
      <4>4. op = "enable" => ruleFile'.there /\ Turned(ruleFile'.rules, admin'[b].name, TRUE, admin'[b].rules)
        BY <2>1, <4>1
      <4>5. op = "disable" => ruleFile'.there /\ Turned(ruleFile'.rules, admin'[b].name, FALSE, admin'[b].rules)
        BY <2>1, <4>1
      <4> QED
        BY <4>1, <4>2, <4>3, <4>4, <4>5, Zenon DEF Intended, Synced
    <3> QED
      BY <3>1, <3>2
  <2> QED
    BY <1>2, <1>3, <2>1, <2>2 DEF RulesInTurn
<1> QED
  BY <1>4, <1>5 DEF RuleInv

\* The user writes a rule: one of its name, tidy as the others are.
LEMMA RuleEdit ==
  ASSUME RuleInv, NEW rule \in Rules!UserRules, Rules!EditRule(rule)
  PROVE  RuleInv'
<1> PICK old, new : old = ruleFile.rules /\ new = ruleFile'.rules
  OBVIOUS
<1>0. rule \in FileRule /\ Plain(rule) /\ old \in Seq(FileRule) /\ rule.name \in RuleNames
  BY DefaultsTyped DEF RuleInv, RuleTyped, FileRule
<1>1. /\ ruleFile' = [there |-> TRUE, rules |-> new]
      /\ new = IF rule.name \in Rules!Names(old)
               THEN [i \in DOMAIN old |-> IF old[i].name = rule.name THEN rule ELSE old[i]]
               ELSE Append(old, rule)
      /\ switched' = [n \in DOMAIN switched \ {rule.name} |-> switched[n]]
      /\ entangled' = (entangled \/ ~Rules!NobodyAt)
      /\ admin' = admin /\ ruleFile.there
  BY DEF Rules!EditRule, RuleInv, RuleTyped
<1>2. /\ new \in Seq(FileRule)
      /\ \A k \in DOMAIN new : \/ new[k] = rule
                               \/ k \in DOMAIN old /\ new[k] = old[k] /\ old[k].name # rule.name
      /\ \A k \in DOMAIN old : old[k].name # rule.name => k \in DOMAIN new /\ new[k] = old[k]
      /\ Tidy(old) => \A k, l \in DOMAIN new : new[k] = rule /\ new[l] = rule => k = l
  <2>1. CASE rule.name \in Rules!Names(old)
    <3>1. DOMAIN new = DOMAIN old /\ \A k \in DOMAIN old : new[k] = IF old[k].name = rule.name THEN rule ELSE old[k]
      BY <1>1, <2>1
    <3>2. new \in Seq(FileRule)
      BY <1>0, <1>1, <2>1
    <3>3. ASSUME Tidy(old), NEW k \in DOMAIN new, NEW l \in DOMAIN new, new[k] = rule, new[l] = rule PROVE k = l
      BY <3>1, <3>3 DEF Tidy
    <3> QED
      BY <3>1, <3>2, <3>3
  <2>2. CASE rule.name \notin Rules!Names(old)
    <3>1. \A k \in DOMAIN old : old[k].name # rule.name
      BY <2>2 DEF Rules!Names, Rules!Range
    <3>2. /\ new \in Seq(FileRule) /\ Len(old) \in Nat /\ DOMAIN old = 1..Len(old)
          /\ DOMAIN new = 1..(Len(old) + 1) /\ new[Len(old) + 1] = rule
          /\ \A k \in DOMAIN old : new[k] = old[k]
      BY <1>0, <1>1, <2>2
    <3>3. \A k \in DOMAIN new : k = Len(old) + 1 \/ k \in DOMAIN old
      BY <3>2
    <3> QED
      BY <3>1, <3>2, <3>3
  <2> QED
    BY <2>1, <2>2
<1>3. RuleTyped'
  <2>1. entangled' \in BOOLEAN
    BY <1>1 DEF RuleInv, RuleTyped
  <2>2. switched' \in [DOMAIN switched' -> BOOLEAN]
    BY <1>1 DEF RuleInv, RuleTyped
  <2>3. ruleFile' \in [there : BOOLEAN, rules : Seq(FileRule)]
    BY <1>1, <1>2
  <2> QED
    BY <1>1, <2>1, <2>2, <2>3 DEF RuleInv, RuleTyped
<1>4. ASSUME entangled' = FALSE PROVE RulesInTurn'
  <2>1. RulesInTurn /\ \A b \in Process : admin[b] = Rules!Free
    BY <1>1, <1>4 DEF RuleInv, RuleTyped, Rules!NobodyAt
  <2>2. Tidy(old) /\ SwitchedIn(old, switched)
    BY <2>1 DEF RulesInTurn
  <2>3. Tidy(new)
    BY <1>0, <1>2, <2>2 DEF Tidy
  <2>4. SwitchedIn(new, switched')
    <3>1. DOMAIN switched' = DOMAIN switched \ {rule.name} /\ \A n \in DOMAIN switched' : switched'[n] = switched[n]
      BY <1>1
    <3> QED
      BY <1>2, <2>2, <3>1 DEF SwitchedIn
  <2>5. \A b \in Process : Intended(b)'
    <3>1. \A b \in Process : admin'[b].op = "none"
      BY <1>1, <2>1, FreeTyped
    <3> QED
      BY <3>1 DEF Intended
  <2> QED
    BY <1>1, <2>1, <2>3, <2>4, <2>5 DEF RulesInTurn
<1> QED
  BY <1>3, <1>4 DEF RuleInv

\* The command saves what it has loaded, switched or completed.
LEMMA RuleSave ==
  ASSUME RuleInv, NEW a \in Process, Rules!SaveRules(a)
  PROVE  RuleInv'
<1> PICK op, old, new, all, name :
      /\ op = admin[a].op /\ old = ruleFile.rules /\ all = admin[a].rules /\ name = admin[a].name
      /\ new = IF op \in {"init", "sync"} THEN Rules!Saved(all) ELSE all
  OBVIOUS
<1> DEFINE counted == op \in {"enable", "disable"} /\ name \in Rules!Names(Rules!Loaded(all))
<1>1. /\ ruleFile' = [there |-> TRUE, rules |-> new] /\ admin' = [admin EXCEPT ![a] = Rules!Free]
      /\ entangled' = entangled /\ admin[a] # Rules!Free
      /\ switched' = IF counted
                     THEN [n \in DOMAIN switched \cup {name} |-> IF n = name THEN op = "enable" ELSE switched[n]]
                     ELSE switched
  BY Zenon DEF Rules!SaveRules
<1>2. /\ op \in RuleOps \ {"none"} /\ all \in Seq(FileRule) /\ old \in Seq(FileRule)
      /\ name \in RuleNames \cup {"none"} /\ entangled \in BOOLEAN /\ switched \in [DOMAIN switched -> BOOLEAN]
  BY <1>1 DEF RuleInv, RuleTyped
<1>3. \A b \in Process : admin'[b] = IF b = a THEN Rules!Free ELSE admin[b]
  BY <1>1 DEF RuleInv, RuleTyped
<1>4. Rules!Free \in [op : RuleOps, name : RuleNames \cup {"none"}, rules : Seq(FileRule)] /\ Rules!Free.op = "none"
  BY FreeTyped
<1>5. new \in Seq(FileRule)
  <2> DEFINE saved(r) == IF r.type = "investigate" THEN [r EXCEPT !.template = FALSE]
                         ELSE [r EXCEPT !.actions = {}]
  <2>1. \A r \in FileRule : saved(r) \in FileRule
    BY DEF FileRule
  <2>2. Rules!Saved(all) = [k \in DOMAIN all |-> saved(all[k])]
    BY Zenon DEF Rules!Saved
  <2> HIDE DEF saved
  <2>3. Rules!Saved(all) \in Seq(FileRule)
    BY <1>2, <2>1, <2>2
  <2> QED
    BY <1>2, <2>3
<1>6. RuleTyped'
  <2>1. switched' \in [DOMAIN switched' -> BOOLEAN]
    <3>1. CASE counted
      <4> DEFINE how == [n \in DOMAIN switched \cup {name} |-> IF n = name THEN op = "enable" ELSE switched[n]]
      <4>1. switched' = how
        BY <1>1, <3>1, Zenon
      <4>2. \A n \in DOMAIN switched : switched[n] \in BOOLEAN
        BY <1>2
      <4>3. how \in [DOMAIN switched \cup {name} -> BOOLEAN] /\ DOMAIN how = DOMAIN switched \cup {name}
        BY <4>2
      <4> HIDE DEF how
      <4> QED
        BY <4>1, <4>3
    <3>2. CASE ~counted
      BY <1>1, <1>2, <3>2, Zenon
    <3> QED
      BY <3>1, <3>2
  <2>2. ruleFile' \in [there : BOOLEAN, rules : Seq(FileRule)] /\ entangled' \in BOOLEAN
    BY <1>1, <1>2, <1>5
  <2>3. \A b \in Process : admin'[b].op = "none" => admin'[b] = Rules!Free
    BY <1>3 DEF RuleInv, RuleTyped
  <2>4. admin' \in [Process -> [op : RuleOps, name : RuleNames \cup {"none"}, rules : Seq(FileRule)]]
    BY <1>1, <1>4 DEF RuleInv, RuleTyped
  <2> QED
    BY <2>1, <2>2, <2>3, <2>4 DEF RuleTyped
<1>7. ASSUME entangled' = FALSE PROVE RulesInTurn'
  <2>1. RulesInTurn /\ Tidy(old) /\ SwitchedIn(old, switched) /\ Intended(a)
    BY <1>1, <1>7 DEF RuleInv, RulesInTurn
  <2>2. \A b \in Process : admin'[b] = Rules!Free
    BY <1>1, <1>3, <2>1 DEF RulesInTurn
  <2>3. Tidy(new) /\ SwitchedIn(new, switched')
    <3>1. CASE op = "init"
      <4>1. ~ruleFile.there /\ all = Rules!DefaultRules /\ old = <<>>
        BY <2>1, <3>1 DEF Intended, RulesInTurn
      <4>2. DOMAIN switched = {} /\ switched' = switched
        <5>1. DOMAIN old = {}
          BY <4>1
        <5>2. DOMAIN switched = {}
          BY <2>1, <5>1 DEF SwitchedIn
        <5> QED
          BY <1>1, <3>1, <5>2
      <4>3. new = Rules!Saved(all) /\ Tidy(all)
        BY <3>1, <4>1, DefaultsTyped
      <4>4. Rules!Saved(all) = all
        BY <1>2, <4>3, SavedTidy
      <4> QED
        BY <4>2, <4>3, <4>4 DEF SwitchedIn
    <3>2. CASE op = "sync"
      <4>1. all = Synced(old)
        BY <2>1, <3>2 DEF Intended
      <4>2. /\ Tidy(all) /\ Rules!Saved(all) = all
            /\ \A k \in DOMAIN all :
                 \/ \E i \in DOMAIN old : all[k] = old[i]
                 \/ \A i \in DOMAIN old : Rules!Valid(old[i]) => all[k].name # old[i].name
            /\ \A i \in DOMAIN old : Rules!Valid(old[i]) => \E k \in DOMAIN all : all[k] = old[i]
        <5>1. old \in Seq(FileRule) /\ Tidy(old)
          BY <1>2, <2>1
        <5> QED
          BY <4>1, <5>1, SyncedTidy
      <4>3. new = all /\ switched' = switched
        BY <1>1, <3>2, <4>2
      <4> QED
        BY <2>1, <4>2, <4>3 DEF SwitchedIn
    <3>3. ASSUME NEW on \in BOOLEAN, op = IF on THEN "enable" ELSE "disable" PROVE Tidy(new) /\ SwitchedIn(new, switched')
      <4>1. Turned(old, name, on, all) /\ new = all
        BY <2>1, <3>3 DEF Intended
      <4>2. PICK i \in DOMAIN old : old[i].name = name /\ all = [old EXCEPT ![i].enabled = on]
        BY <4>1 DEF Turned
      <4>3. /\ DOMAIN all = DOMAIN old /\ \A k \in DOMAIN all : k # i => all[k] = old[k]
            /\ all[i] = [old[i] EXCEPT !.enabled = on]
        BY <4>2
      <4>4. \A k \in DOMAIN old : old[k] \in FileRule
        BY <1>2
      <4>5. all[i].name = name /\ all[i].enabled = on /\ (Plain(old[i]) => Plain(all[i]))
            /\ (Rules!Valid(all[i]) <=> Rules!Valid(old[i]))
        <5> PICK r \in FileRule : r = old[i]
          BY <4>4
        <5> PICK t : t = all[i]
          OBVIOUS
        <5>1. t = [r EXCEPT !.enabled = on]
          BY <4>3
        <5>2. /\ t.name = r.name /\ t.type = r.type /\ t.actions = r.actions /\ t.cooldown = r.cooldown
              /\ t.sequence = r.sequence /\ t.enabled = on
          BY <5>1 DEF FileRule
        <5>3. t.critical = r.critical /\ t.filter = r.filter /\ t.template = r.template
          BY <5>1 DEF FileRule
        <5>4. Plain(r) => Plain(t)
          BY <5>2, <5>3, Zenon DEF Plain
        <5>5. Rules!Valid(t) <=> Rules!Valid(r)
          BY <5>2, <5>3, Zenon DEF Rules!Valid
        <5> QED
          BY <4>2, <5>2, <5>4, <5>5
      <4>6. Tidy(all)
        BY <2>1, <4>2, <4>3, <4>5 DEF Tidy
      <4>7. \A k \in DOMAIN all : (Rules!Valid(all[k]) <=> Rules!Valid(old[k])) /\ all[k].name = old[k].name
        BY <4>2, <4>3, <4>5
      <4>8. \A k \in DOMAIN all : all[k].name = name => k = i
        BY <4>5, <4>6, <4>3 DEF Tidy
      <4>9. SwitchedIn(all, switched')
        <5>1. CASE Rules!Valid(all[i])
          <6>1. name \in Rules!Names(Rules!Loaded(all))
            <7>0. all \in Seq(FileRule) /\ i \in DOMAIN all
              BY <1>2, <4>3
            <7>1. PICK k \in DOMAIN Rules!Loaded(all) : Rules!Loaded(all)[k] = all[i]
              BY <4>6, <5>1, <7>0, LoadedTidy, Zenon
            <7> QED
              BY <4>5, <7>1 DEF Rules!Names, Rules!Range
          <6>2. switched' = [n \in DOMAIN switched \cup {name} |-> IF n = name THEN op = "enable" ELSE switched[n]]
            BY <1>1, <3>3, <6>1
          <6>3. (op = "enable") = on
            BY <3>3
          <6>4. /\ DOMAIN switched' = DOMAIN switched \cup {name} /\ switched'[name] = on
                /\ \A n \in DOMAIN switched : n # name => switched'[n] = switched[n]
            BY <6>2, <6>3
          <6>5. \A n \in DOMAIN switched' : \E k \in DOMAIN all : Rules!Valid(all[k]) /\ all[k].name = n
            BY <2>1, <4>3, <4>5, <4>7, <5>1, <6>4 DEF SwitchedIn
          <6>6. \A k \in DOMAIN all : Rules!Valid(all[k]) /\ all[k].name \in DOMAIN switched'
                                        => all[k].enabled = switched'[all[k].name]
            <7> SUFFICES ASSUME NEW k \in DOMAIN all, Rules!Valid(all[k]), all[k].name \in DOMAIN switched'
                         PROVE  all[k].enabled = switched'[all[k].name]
              OBVIOUS
            <7>1. CASE k = i
              BY <4>5, <6>4, <7>1
            <7>2. CASE k # i
              <8>1. all[k] = old[k] /\ all[k].name # name /\ k \in DOMAIN old
                BY <4>3, <4>8, <7>2
              <8>2. all[k].name \in DOMAIN switched /\ switched'[all[k].name] = switched[all[k].name]
                BY <6>4, <8>1
              <8> QED
                BY <2>1, <8>1, <8>2 DEF SwitchedIn
            <7> QED
              BY <7>1, <7>2
          <6> QED
            BY <6>5, <6>6 DEF SwitchedIn
        <5>2. CASE ~Rules!Valid(all[i])
          <6>1. name \notin Rules!Names(Rules!Loaded(all))
            <7>1. \A k \in DOMAIN Rules!Loaded(all) : Rules!Loaded(all)[k].name # name
              BY <1>2, <4>6, <4>8, <5>2, LoadedTidy
            <7> QED
              BY <7>1 DEF Rules!Names, Rules!Range
          <6>2. switched' = switched
            BY <1>1, <6>1
          <6>3. \A n \in DOMAIN switched : \E k \in DOMAIN all : Rules!Valid(all[k]) /\ all[k].name = n
            BY <2>1, <4>3, <4>7 DEF SwitchedIn
          <6>4. \A k \in DOMAIN all : Rules!Valid(all[k]) => all[k] = old[k]
            BY <4>3, <5>2
          <6> QED
            BY <2>1, <4>3, <6>2, <6>3, <6>4 DEF SwitchedIn
        <5> QED
          BY <5>1, <5>2
      <4> QED
        BY <4>1, <4>6, <4>9
    <3> QED
      BY <1>2, <3>1, <3>2, <3>3 DEF RuleOps
  <2>4. \A b \in Process : Intended(b)'
    <3>1. \A b \in Process : admin'[b].op = "none"
      BY <1>4, <2>2
    <3> QED
      BY <3>1 DEF Intended
  <2> QED
    BY <1>1, <2>2, <2>3, <2>4 DEF RulesInTurn
<1> QED
  BY <1>6, <1>7 DEF RuleInv

LEMMA RuleNext ==
  ASSUME RuleInv, Rules!Next \/ UNCHANGED ruleVars
  PROVE  RuleInv'
<1>0. ruleFile.rules \in Seq(FileRule)
  BY DEF RuleInv, RuleTyped
<1>1. ASSUME NEW a \in Process, Rules!InitRules(a) PROVE RuleInv'
  BY <1>1, DefaultsTyped, RuleTake DEF Rules!InitRules, RuleOps
<1>2. ASSUME NEW a \in Process, Rules!SyncDefaults(a) PROVE RuleInv'
  <2> PICK own : own = Rules!Loaded(ruleFile.rules)
    OBVIOUS
  <2>1. ruleFile.there /\ Rules!Take(a, "sync", "none", own \o Rules!Missing(own))
    BY <1>2, Zenon DEF Rules!SyncDefaults
  <2>2. own \in Seq(FileRule) /\ Rules!Missing(own) \in Seq(FileRule)
    BY <1>0, LoadedTyped, MissingTidy
  <2>3. own \o Rules!Missing(own) \in Seq(FileRule)
    BY <2>2
  <2> QED
    BY <2>1, <2>3, RuleTake DEF RuleOps, Synced
<1>3. ASSUME NEW a \in Process, NEW name \in RuleNames, NEW on \in BOOLEAN, Rules!Switch(a, name, on) PROVE RuleInv'
  <2> PICK rules : rules = ruleFile.rules
    OBVIOUS
  <2> DEFINE first(k) == rules[k].name = name /\ \A j \in 1..(k - 1) : rules[j].name # name
  <2> PICK i : i = CHOOSE k \in DOMAIN rules : first(k)
    OBVIOUS
  <2>1. /\ ruleFile.there /\ name \in Rules!Names(rules)
        /\ Rules!Take(a, IF on THEN "enable" ELSE "disable", name, [rules EXCEPT ![i].enabled = on])
    BY <1>3, Zenon DEF Rules!Switch
  <2>2. i \in DOMAIN rules /\ rules[i].name = name
    <3>1. DOMAIN rules = 1..Len(rules) /\ Len(rules) \in Nat
      BY <1>0
    <3>2. \E k \in 1..Len(rules) : rules[k].name = name
      BY <2>1, <3>1 DEF Rules!Names, Rules!Range
    <3> DEFINE K == {k \in Nat : k \in 1..Len(rules) /\ rules[k].name = name}
    <3>3. K \subseteq Nat /\ K # {}
      BY <3>2
    <3>5. PICK k \in K : \A l \in K : k <= l
      <4> HIDE DEF K
      <4> QED
        BY <3>3, Least
    <3>4. first(k)
      BY <3>1, <3>5
    <3> QED
      BY <3>1, <3>5, <3>4
  <2> PICK new : new = [rules EXCEPT ![i].enabled = on]
    OBVIOUS
  <2>3. new \in Seq(FileRule)
    BY <1>0, <2>2, TurnedTyped
  <2>4. Turned(rules, name, on, new)
    BY <2>2 DEF Turned
  <2>5. CASE on = TRUE
    BY <2>1, <2>3, <2>4, <2>5, RuleTake DEF RuleOps
  <2>6. CASE on = FALSE
    BY <2>1, <2>3, <2>4, <2>6, RuleTake DEF RuleOps
  <2> QED
    BY <2>5, <2>6
<1>4. ASSUME UNCHANGED ruleVars PROVE RuleInv'
  BY <1>4 DEF ruleVars, RuleInv, RuleTyped, RulesInTurn, Intended
<1> QED
  BY <1>1, <1>2, <1>3, <1>4, RuleSave, RuleEdit, DefaultsTyped DEF Rules!Next

\* For any processes and numbers of commands and edits: a valid rule that was
\* enabled or disabled stays so until the user writes it anew (reactive enable,
\* disable, init and sync-defaults), as long as commands do not overlap.
THEOREM SwitchesStay == Spec => []SwitchesHold
<1> DEFINE Inv == At("rules") => RuleInv
<1>1. Init => Inv
  BY RuleInit DEF Init
<1>2. Inv /\ [Next]_homeVars => Inv'
  <2> SUFFICES ASSUME Inv, [Next]_homeVars, At("rules")' PROVE RuleInv'
    OBVIOUS
  <2>1. RuleInv /\ (Rules!Next \/ UNCHANGED ruleVars)
    BY DEF Next, homeVars, At
  <2> QED
    BY <2>1, RuleNext
<1>3. Inv => SwitchesHold
  <2> SUFFICES ASSUME RuleInv, entangled = FALSE, NEW r \in Rules!Range(Rules!Loaded(ruleFile.rules)),
                      r.name \in DOMAIN switched
               PROVE  r.enabled = switched[r.name]
    BY DEF SwitchesHold, Rules!SwitchesHold, RuleInv, RuleTyped
  <2> PICK rules : rules = ruleFile.rules
    OBVIOUS
  <2>1. rules \in Seq(FileRule) /\ Tidy(rules) /\ SwitchedIn(rules, switched)
    BY DEF RuleInv, RuleTyped, RulesInTurn
  <2>2. PICK k \in DOMAIN Rules!Loaded(rules) : r = Rules!Loaded(rules)[k]
    BY DEF Rules!Range
  <2>3. PICK i \in DOMAIN rules : r = rules[i] /\ Rules!Valid(r)
    BY <2>1, <2>2, LoadedTidy
  <2> QED
    BY <2>1, <2>3 DEF SwitchedIn
<1> QED
  BY <1>1, <1>2, <1>3, PTL DEF Spec

\* For any processes and numbers of commands and edits: what a session loads after
\* a sync-defaults on its own is what it would have loaded before, with the missing
\* defaults after it (save_rules, load_rules).
THEOREM RulesReload == Spec => RulesSurvive
<1> DEFINE Inv == At("rules") => RuleInv
<1>1. Init => Inv
  BY RuleInit DEF Init
<1>2. Inv /\ [Next]_homeVars => Inv'
  <2> SUFFICES ASSUME Inv, [Next]_homeVars, At("rules")' PROVE RuleInv'
    OBVIOUS
  <2>1. RuleInv /\ (Rules!Next \/ UNCHANGED ruleVars)
    BY DEF Next, homeVars, At
  <2> QED
    BY <2>1, RuleNext
<1>3. Inv => (At("rules") => Rules!RulesSurvive)
  <2> SUFFICES ASSUME RuleInv, NEW a \in Process, Rules!SaveRules(a), admin[a].op = "sync", entangled = FALSE
               PROVE  Rules!Loaded(ruleFile'.rules) = Synced(ruleFile.rules)
    BY DEF Rules!RulesSurvive, Synced, RuleInv, RuleTyped
  <2> PICK rules : rules = ruleFile.rules
    OBVIOUS
  <2>1. rules \in Seq(FileRule) /\ Tidy(rules) /\ admin[a].rules = Synced(rules)
    BY DEF RuleInv, RuleTyped, RulesInTurn, Intended
  <2>2. ruleFile'.rules = Rules!Saved(Synced(rules))
    BY <2>1 DEF Rules!SaveRules
  <2> QED
    BY <2>1, <2>2, SyncedTidy
<1> QED
  BY <1>1, <1>2, <1>3, PTL DEF Spec, RulesSurvive

(* -------- the reports ------------------------------------------------------ *)

Recorded == [by : Nat, n : Nat, alone : BOOLEAN]
Job ==
  [step : {"rest", "agent", "report", "act", "log"}, id : Nat,
   rule : RuleName \cup {Report!Digest}, todo : Seq({"allowed", "other"}), read : SUBSET Nat]

ReportTyped ==
  /\ trail \in Seq(Recorded)
  /\ lastReport \in Nat /\ lastReport <= Len(trail)
  /\ jobs \in Nat
  /\ worker \in [Process -> Job]

\* Jobs are numbered, no two workers are at the same one, and the action that is
\* to be logged is the first of those left.
Numbered ==
  /\ \A w \in Process : Report!Wk(w).id <= jobs /\ (Report!At(w, "rest") <=> Report!Wk(w).id = 0)
  /\ \A v, w \in Process : Report!Wk(v).id = Report!Wk(w).id /\ Report!Wk(v).id # 0 => v = w
  /\ \A w \in Process : Report!At(w, "log") => Report!Wk(w).todo # <<>>
  /\ \A e \in effects : e.by \in 1..jobs

\* A digest that is to answer has in its prompt what was logged before it was
\* asked, as far as nobody else's digest has covered it.
InPrompt ==
  \A w \in Process : Report!At(w, "agent") /\ Report!Wk(w).rule = Report!Digest =>
    \A i \in 1..Len(trail) : trail[i].alone => i \in covered \cup Report!Wk(w).read

OnTrail(e) == \E i \in DOMAIN trail : trail[i].by = e.by /\ trail[i].n = e.n

\* An action off the record is the last of its investigation.
LastAtMost ==
  \A e \in effects : ~OnTrail(e) =>
    /\ \A d \in effects : d.by = e.by /\ ~OnTrail(d) => d = e
    /\ \A w \in Process : Report!Wk(w).id = e.by => Report!At(w, "log") /\ Len(Report!Wk(w).todo) = e.n

ReportInv == ReportTyped /\ Numbered /\ InPrompt /\ Report!EntriesDigested /\ LastAtMost

-----------------------------------------------------------------------------
\* Entries of the trail, written alone or during a digest.
LEMMA EntryType ==
  ASSUME NEW id \in Nat, NEW n \in Nat
  PROVE  /\ Report!Entry(id, n) \in Recorded
         /\ Report!Entry(id, n).by = id /\ Report!Entry(id, n).n = n
         /\ Report!Digesting => ~Report!Entry(id, n).alone
<1>1. CASE Report!Digesting
  <2>1. Report!Entry(id, n) = [by |-> id, n |-> n, alone |-> FALSE]
    BY <1>1, Zenon DEF Report!Entry
  <2> QED
    BY <2>1 DEF Recorded
<1>2. CASE ~Report!Digesting
  <2>1. Report!Entry(id, n) = [by |-> id, n |-> n, alone |-> TRUE]
    BY <1>2, Zenon DEF Report!Entry
  <2> QED
    BY <1>2, <2>1 DEF Recorded
<1> QED
  BY <1>1, <1>2

\* A worker without a job.
LEMMA RestingType ==
  /\ Report!Resting \in Job
  /\ Report!Resting.step = "rest" /\ Report!Resting.id = 0
BY DEF Report!Resting, Job

\* What an answer asks for.
LEMMA BlocksType == \A blocks \in Report!Blocks : blocks \in Seq({"allowed", "other"})
<1> DEFINE S == {"allowed", "other"}
<1>1. "allowed" \in S /\ "other" \in S
  OBVIOUS
<1> HIDE DEF S
<1>2. <<>> \in Seq(S) /\ <<"other", "allowed", "allowed">> \in Seq(S)
  BY <1>1
<1> QED
  BY <1>2 DEF Report!Blocks, S

\* No entry, no job.
LEMMA ReportInit == Report!Init => ReportInv
<1> SUFFICES ASSUME Report!Init PROVE ReportInv
  OBVIOUS
<1>1. ReportTyped
  BY RestingType DEF Report!Init, ReportTyped
<1>2. \A w \in Process : Report!Wk(w) = Report!Resting
  BY DEF Report!Init, Report!Wk
<1>3. Numbered /\ InPrompt
  BY <1>2, RestingType DEF Report!Init, Numbered, InPrompt, Report!At
<1>4. Report!EntriesDigested /\ LastAtMost
  BY DEF Report!Init, Report!EntriesDigested, LastAtMost
<1> QED
  BY <1>1, <1>3, <1>4 DEF ReportInv

(* ---- the trail grows ------------------------------------------------------ *)

Grows(new) == trail' = Append(trail, new)

\* An entry that is logged while a digest is under way is nobody's to cover.
LEMMA Grown ==
  ASSUME ReportTyped, NEW id \in Nat, NEW n \in Nat, Grows(Report!Entry(id, n))
  PROVE  /\ trail' \in Seq(Recorded) /\ Len(trail') = Len(trail) + 1
         /\ \A i \in 1..Len(trail) : trail'[i] = trail[i]
         /\ trail'[Len(trail) + 1] = Report!Entry(id, n)
         /\ \A e : OnTrail(e) => OnTrail(e)'
<1>1. trail \in Seq(Recorded) /\ Report!Entry(id, n) \in Recorded
  BY EntryType DEF ReportTyped
<1> DEFINE new == Report!Entry(id, n)
<1>2. trail' = Append(trail, new)
  BY DEF Grows
<1> HIDE DEF new
<1>3. /\ trail' \in Seq(Recorded) /\ Len(trail') = Len(trail) + 1
      /\ \A i \in 1..Len(trail) : trail'[i] = trail[i]
      /\ trail'[Len(trail) + 1] = new
  BY <1>1, <1>2 DEF new
<1>4. DOMAIN trail = 1..Len(trail) /\ DOMAIN trail' = 1..(Len(trail) + 1)
  BY <1>1, <1>3
<1>5. \A e : OnTrail(e) => OnTrail(e)'
  BY <1>1, <1>3, <1>4 DEF OnTrail
<1> QED
  BY <1>3, <1>5 DEF new

\* An entry of others is not of an investigation.
LEMMA EventKeeps == ReportInv /\ Report!Event => ReportInv'
<1> SUFFICES ASSUME ReportInv, Report!Event PROVE ReportInv'
  OBVIOUS
<1>1. /\ Grows(Report!Entry(0, 0))
      /\ UNCHANGED <<lastReport, worker, jobs, effects, covered>>
  BY DEF Report!Event, Grows
<1>2. /\ trail' \in Seq(Recorded) /\ Len(trail') = Len(trail) + 1
      /\ \A i \in 1..Len(trail) : trail'[i] = trail[i]
      /\ trail'[Len(trail) + 1] = Report!Entry(0, 0)
      /\ \A e : OnTrail(e) => OnTrail(e)'
  BY <1>1, Grown DEF ReportInv
<1>3. Len(trail) \in Nat /\ (Report!Digesting => ~Report!Entry(0, 0).alone)
  BY EntryType DEF ReportInv, ReportTyped
<1>4. ReportTyped' /\ Numbered'
  BY <1>1, <1>2, <1>3 DEF ReportInv, ReportTyped, Numbered, Report!At, Report!Wk
<1>5. InPrompt'
  <2> SUFFICES ASSUME NEW w \in Process, Report!At(w, "agent"), Report!Wk(w).rule = Report!Digest,
                      NEW i \in 1..Len(trail'), trail'[i].alone
               PROVE  i \in covered \cup Report!Wk(w).read
    BY <1>1 DEF InPrompt, Report!At, Report!Wk
  <2>1. i # Len(trail) + 1
    BY <1>2, <1>3 DEF Report!Digesting
  <2>2. i \in 1..Len(trail)
    BY <1>2, <1>3, <2>1
  <2> QED
    BY <1>2, <2>2 DEF ReportInv, InPrompt
<1>6. Report!EntriesDigested'
  <2> SUFFICES ASSUME NEW i \in 1..lastReport, trail'[i].alone PROVE i \in covered
    BY <1>1 DEF Report!EntriesDigested
  <2>1. i \in 1..Len(trail)
    BY DEF ReportInv, ReportTyped
  <2> QED
    BY <1>2, <2>1 DEF ReportInv, Report!EntriesDigested
<1>7. LastAtMost'
  BY <1>1, <1>2 DEF ReportInv, LastAtMost, Report!At, Report!Wk
<1> QED
  BY <1>4, <1>5, <1>6, <1>7 DEF ReportInv

(* ---- steps of one worker -------------------------------------------------- *)

\* A worker steps, the others stay.
LEMMA Became ==
  ASSUME ReportTyped, NEW w \in Process, NEW me \in Job, Report!Become(w, me)
  PROVE  /\ worker' \in [Process -> Job]
         /\ Report!Wk(w)' = me
         /\ \A v \in Process \ {w} : Report!Wk(v)' = Report!Wk(v)
BY DEF ReportTyped, Report!Become, Report!Wk

\* A worker that goes on with its job, or ends it.
LEMMA SameJob ==
  ASSUME ReportInv, NEW w \in Process, NEW me \in Job, Report!Become(w, me),
         me.id \in {0, Report!Wk(w).id}, me.step = "rest" <=> me.id = 0, me.step # "log",
         jobs' = jobs, effects' = effects
  PROVE  Numbered'
<1>1. /\ Report!Wk(w)' = me
      /\ \A v \in Process \ {w} : Report!Wk(v)' = Report!Wk(v)
  BY Became DEF ReportInv
<1>2. Numbered /\ jobs \in Nat
  BY DEF ReportInv, ReportTyped
<1>3. \A v \in Process : Report!Wk(v)'.id <= jobs' /\ (Report!At(v, "rest")' <=> Report!Wk(v)'.id = 0)
  BY <1>1, <1>2 DEF Numbered, Report!At
<1>4. \A u, v \in Process : Report!Wk(u)'.id = Report!Wk(v)'.id /\ Report!Wk(u)'.id # 0 => u = v
  BY <1>1, <1>2 DEF Numbered
<1>5. \A v \in Process : Report!At(v, "log")' => Report!Wk(v)'.todo # <<>>
  BY <1>1, <1>2 DEF Numbered, Report!At
<1> QED
  BY <1>2, <1>3, <1>4, <1>5 DEF Numbered

\* A job that ends, in whatever way, takes nothing from the record.
LEMMA Ends ==
  ASSUME ReportInv, NEW w \in Process, Report!End(w),
         UNCHANGED <<trail, jobs, effects, covered>>, lastReport' \in {lastReport, 0}
  PROVE  ReportInv'
<1>1. /\ Report!Resting \in Job /\ Report!Become(w, Report!Resting) /\ Report!Resting.step = "rest" /\ Report!Resting.id = 0
  BY RestingType DEF Report!End
<1>2. /\ worker' \in [Process -> Job] /\ Report!Wk(w)' = Report!Resting
      /\ \A v \in Process \ {w} : Report!Wk(v)' = Report!Wk(v)
  BY <1>1, Became DEF ReportInv
<1>3. ReportTyped'
  BY <1>2 DEF ReportInv, ReportTyped
<1>4. Numbered'
  BY <1>1, SameJob
<1>5. InPrompt'
  BY <1>1, <1>2 DEF ReportInv, InPrompt, Report!At
<1>6. Report!EntriesDigested'
  BY DEF ReportInv, ReportTyped, Report!EntriesDigested
<1>7. LastAtMost'
  <2> SUFFICES ASSUME NEW e \in effects, ~OnTrail(e)
               PROVE  /\ \A d \in effects : d.by = e.by /\ ~OnTrail(d) => d = e
                      /\ \A v \in Process : Report!Wk(v)'.id = e.by => Report!At(v, "log")' /\ Len(Report!Wk(v)'.todo) = e.n
    BY DEF LastAtMost, OnTrail
  <2>1. e.by # 0
    BY DEF ReportInv, Numbered, ReportTyped
  <2> QED
    BY <1>1, <1>2, <2>1 DEF ReportInv, LastAtMost, Report!At
<1> QED
  BY <1>3, <1>4, <1>5, <1>6, <1>7 DEF ReportInv

\* A step within a job that neither acts nor logs.
LEMMA GoesOn ==
  ASSUME ReportInv, NEW w \in Process, NEW me \in Job, Report!Become(w, me),
         me.id = Report!Wk(w).id, me.step \in {"report", "act"}, ~Report!At(w, "rest"), ~Report!At(w, "log"),
         UNCHANGED <<trail, jobs, effects>>, covered \subseteq covered',
         lastReport' = lastReport \/ (lastReport' = Len(trail) /\ Report!At(w, "agent") /\
                                      Report!Wk(w).rule = Report!Digest /\ Report!Wk(w).read \subseteq covered')
  PROVE  ReportInv'
<1>1. /\ worker' \in [Process -> Job] /\ Report!Wk(w)' = me
      /\ \A v \in Process \ {w} : Report!Wk(v)' = Report!Wk(v)
  BY Became DEF ReportInv
<1>2. ReportTyped'
  BY <1>1 DEF ReportInv, ReportTyped
<1>3. Numbered'
  BY SameJob DEF ReportInv, Numbered, Report!At
<1>4. InPrompt'
  BY <1>1 DEF ReportInv, InPrompt, Report!At
<1>5. Report!EntriesDigested'
  BY DEF ReportInv, ReportTyped, Report!EntriesDigested, InPrompt
<1>6. LastAtMost'
  <2> SUFFICES ASSUME NEW e \in effects, ~OnTrail(e)
               PROVE  /\ \A d \in effects : d.by = e.by /\ ~OnTrail(d) => d = e
                      /\ \A v \in Process : Report!Wk(v)'.id = e.by => Report!At(v, "log")' /\ Len(Report!Wk(v)'.todo) = e.n
    BY DEF LastAtMost, OnTrail
  <2>1. Report!Wk(w).id # e.by
    BY DEF ReportInv, LastAtMost
  <2> QED
    BY <1>1, <2>1 DEF ReportInv, LastAtMost, Report!At
<1> QED
  BY <1>2, <1>3, <1>4, <1>5, <1>6 DEF ReportInv

\* A job begins: with a new number, and a digest with what is not covered.
LEMMA Begins ==
  ASSUME ReportInv, NEW w \in Process, NEW me \in Job, Report!Become(w, me), Report!At(w, "rest"),
         me.step = "agent", me.id = jobs + 1, jobs' = jobs + 1,
         me.rule = Report!Digest => me.read = (lastReport + 1)..Len(trail),
         UNCHANGED <<trail, lastReport, effects, covered>>
  PROVE  ReportInv'
<1>1. /\ worker' \in [Process -> Job] /\ Report!Wk(w)' = me
      /\ \A v \in Process \ {w} : Report!Wk(v)' = Report!Wk(v)
  BY Became DEF ReportInv
<1>2. jobs \in Nat /\ lastReport \in Nat /\ Len(trail) \in Nat
  BY DEF ReportInv, ReportTyped
<1>3. ReportTyped'
  BY <1>1 DEF ReportInv, ReportTyped
<1>4. Numbered'
  <2>1. \A v \in Process : Report!Wk(v)'.id <= jobs' /\ (Report!At(v, "rest")' <=> Report!Wk(v)'.id = 0)
    <3> SUFFICES ASSUME NEW v \in Process
                 PROVE  Report!Wk(v)'.id <= jobs' /\ (Report!At(v, "rest")' <=> Report!Wk(v)'.id = 0)
      OBVIOUS
    <3>1. CASE v = w
      BY <1>1, <1>2, <3>1 DEF Report!At
    <3>2. CASE v # w
      <4>1. Report!Wk(v).id \in Nat /\ Report!Wk(v).id <= jobs /\ Report!Wk(v)' = Report!Wk(v)
        BY <1>1, <3>2 DEF ReportInv, Numbered, ReportTyped, Report!Wk, Job
      <4> QED
        BY <1>2, <4>1 DEF ReportInv, Numbered, Report!At
    <3> QED
      BY <3>1, <3>2
  <2>2. \A u, v \in Process : Report!Wk(u)'.id = Report!Wk(v)'.id /\ Report!Wk(u)'.id # 0 => u = v
    <3>1. \A v \in Process \ {w} : Report!Wk(v)'.id # me.id
      BY <1>1, <1>2 DEF ReportInv, Numbered
    <3> QED
      BY <1>1, <3>1 DEF ReportInv, Numbered
  <2>3. \A e \in effects : e.by \in 1..jobs'
    BY <1>2 DEF ReportInv, Numbered
  <2>4. \A v \in Process : Report!At(v, "log")' => Report!Wk(v)'.todo # <<>>
    BY <1>1 DEF ReportInv, Numbered, Report!At
  <2> QED
    BY <2>1, <2>2, <2>3, <2>4 DEF Numbered
<1>5. InPrompt'
  <2>1. \A i \in 1..Len(trail) : i \in 1..lastReport \/ i \in (lastReport + 1)..Len(trail)
    BY <1>2
  <2> QED
    BY <1>1, <2>1 DEF ReportInv, InPrompt, Report!EntriesDigested, Report!At
<1>6. Report!EntriesDigested'
  BY DEF ReportInv, Report!EntriesDigested
<1>7. LastAtMost'
  <2> SUFFICES ASSUME NEW e \in effects, ~OnTrail(e)
               PROVE  /\ \A d \in effects : d.by = e.by /\ ~OnTrail(d) => d = e
                      /\ \A v \in Process : Report!Wk(v)'.id = e.by => Report!At(v, "log")' /\ Len(Report!Wk(v)'.todo) = e.n
    BY DEF LastAtMost, OnTrail
  <2>1. me.id # e.by
    BY <1>2 DEF ReportInv, Numbered
  <2> QED
    BY <1>1, <2>1 DEF ReportInv, LastAtMost, Report!At
<1> QED
  BY <1>3, <1>4, <1>5, <1>6, <1>7 DEF ReportInv

\* An action: until its entry is written, the only one of its job off the record.
LEMMA ActKeeps == \A w \in Process : ReportInv /\ Report!Act(w) => ReportInv'
<1> SUFFICES ASSUME NEW w \in Process, ReportInv, Report!Act(w) PROVE ReportInv'
  OBVIOUS
<1> DEFINE old == Report!Wk(w)
           me == [old EXCEPT !.step = "log"]
           act == [by |-> old.id, n |-> Len(old.todo)]
<1>1. /\ old \in Job /\ old.step = "act" /\ Report!Become(w, me) /\ effects' \in {effects, effects \cup {act}}
      /\ UNCHANGED <<trail, lastReport, jobs, covered>> /\ old.todo # <<>>
  BY DEF Report!Act, Report!At, ReportInv, ReportTyped, Report!Wk
<1>2. me \in Job /\ me.id = old.id /\ me.todo = old.todo /\ me.step = "log"
  BY <1>1 DEF Job
<1>3. act.by = old.id /\ act.n = Len(old.todo)
  OBVIOUS
<1> HIDE DEF me, act
<1>4. /\ worker' \in [Process -> Job] /\ Report!Wk(w)' = me
      /\ \A v \in Process \ {w} : Report!Wk(v)' = Report!Wk(v)
  BY <1>1, <1>2, Became DEF ReportInv
<1>5. ReportTyped'
  BY <1>1, <1>4 DEF ReportInv, ReportTyped
<1>6. old.id # 0 /\ old.id \in 1..jobs /\ jobs' = jobs /\ jobs \in Nat
  BY <1>1 DEF ReportInv, Numbered, Report!At, Job, ReportTyped
<1>7. Numbered'
  <2>1. \A v \in Process : Report!Wk(v)'.id <= jobs' /\ (Report!At(v, "rest")' <=> Report!Wk(v)'.id = 0)
    BY <1>2, <1>4, <1>6 DEF ReportInv, Numbered, Report!At
  <2>2. \A u, v \in Process : Report!Wk(u)'.id = Report!Wk(v)'.id /\ Report!Wk(u)'.id # 0 => u = v
    BY <1>2, <1>4 DEF ReportInv, Numbered
  <2>3. \A e \in effects' : e.by \in 1..jobs'
    BY <1>1, <1>3, <1>6 DEF ReportInv, Numbered
  <2>4. \A v \in Process : Report!At(v, "log")' => Report!Wk(v)'.todo # <<>>
    BY <1>1, <1>2, <1>4 DEF ReportInv, Numbered, Report!At
  <2> QED
    BY <2>1, <2>2, <2>3, <2>4 DEF Numbered
<1>8. InPrompt' /\ Report!EntriesDigested'
  BY <1>1, <1>2, <1>4 DEF ReportInv, InPrompt, Report!EntriesDigested, Report!At
<1>9. LastAtMost'
  <2> SUFFICES ASSUME NEW e \in effects', ~OnTrail(e)
               PROVE  /\ \A d \in effects' : d.by = e.by /\ ~OnTrail(d) => d = e
                      /\ \A v \in Process : Report!Wk(v)'.id = e.by => Report!At(v, "log")' /\ Len(Report!Wk(v)'.todo) = e.n
    BY <1>1 DEF LastAtMost, OnTrail
  <2>1. \A d \in effects : d.by = old.id => OnTrail(d)
    BY <1>1 DEF ReportInv, LastAtMost, Report!At
  <2>2. CASE e.by = old.id
    <3>1. e = act
      BY <1>1, <2>1, <2>2
    <3>2. \A v \in Process : Report!Wk(v)'.id = old.id => v = w
      BY <1>2, <1>4, <1>6 DEF ReportInv, Numbered
    <3> QED
      BY <1>1, <1>2, <1>3, <1>4, <2>1, <2>2, <3>1, <3>2 DEF Report!At
  <2>3. CASE e.by # old.id
    <3>1. e \in effects /\ \A d \in effects' : d.by = e.by => d \in effects
      BY <1>1, <1>3, <2>3
    <3> QED
      BY <1>2, <1>4, <2>3, <3>1 DEF ReportInv, LastAtMost, Report!At
  <2> QED
    BY <2>2, <2>3
<1> QED
  BY <1>5, <1>7, <1>8, <1>9 DEF ReportInv

\* Its entry, or the end of the job when the trail raises.
LEMMA LogKeeps == \A w \in Process : ReportInv /\ Report!LogAction(w) => ReportInv'
<1> SUFFICES ASSUME NEW w \in Process, ReportInv, Report!LogAction(w) PROVE ReportInv'
  OBVIOUS
<1>1. UNCHANGED <<lastReport, jobs, effects, covered>> /\ Report!At(w, "log")
  BY DEF Report!LogAction
<1>2. CASE Report!End(w) /\ UNCHANGED trail
  BY <1>1, <1>2, Ends
<1>3. CASE /\ trail' = Append(trail, Report!Entry(Report!Wk(w).id, Len(Report!Wk(w).todo)))
           /\ Report!Become(w, [Report!Wk(w) EXCEPT !.step = "act", !.todo = Tail(@)])
  <2> DEFINE old == Report!Wk(w)
             me == [old EXCEPT !.step = "act", !.todo = Tail(@)]
  <2>1. old \in Job /\ old.step = "log" /\ old.id \in Nat /\ Len(old.todo) \in Nat
    BY <1>1 DEF Report!At, ReportInv, ReportTyped, Report!Wk, Job
  <2>2. me \in Job /\ me.id = old.id /\ me.step = "act"
    <3>1. old.todo # <<>> /\ old.todo \in Seq({"allowed", "other"})
      BY <1>1, <2>1 DEF ReportInv, Numbered, Job
    <3>2. Tail(old.todo) \in Seq({"allowed", "other"})
      BY <3>1
    <3> QED
      BY <2>1, <3>2 DEF Job
  <2> HIDE DEF me
  <2>3. Report!Become(w, me) /\ Grows(Report!Entry(old.id, Len(old.todo)))
    BY <1>3 DEF Grows, me
  <2>4. /\ worker' \in [Process -> Job] /\ Report!Wk(w)' = me
        /\ \A v \in Process \ {w} : Report!Wk(v)' = Report!Wk(v)
    BY <2>2, <2>3, Became DEF ReportInv
  <2> DEFINE new == Report!Entry(old.id, Len(old.todo))
  <2>5. /\ trail' \in Seq(Recorded) /\ Len(trail') = Len(trail) + 1
        /\ \A i \in 1..Len(trail) : trail'[i] = trail[i]
        /\ trail'[Len(trail) + 1] = new
        /\ \A e : OnTrail(e) => OnTrail(e)'
    BY <2>1, <2>3, Grown DEF ReportInv
  <2>6. Len(trail) \in Nat /\ (Report!Digesting => ~new.alone) /\ new.by = old.id /\ new.n = Len(old.todo)
    BY <2>1, EntryType DEF ReportInv, ReportTyped
  <2> HIDE DEF new
  <2>7. ReportTyped'
    BY <1>1, <2>4, <2>5, <2>6 DEF ReportInv, ReportTyped
  <2>8. Numbered'
    <3>1. me.step # "log" /\ (me.step = "rest" <=> me.id = 0)
      BY <2>1, <2>2 DEF ReportInv, Numbered, Report!At
    <3> QED
      BY <1>1, <2>2, <2>3, <3>1, SameJob
  <2>9. InPrompt'
    <3> SUFFICES ASSUME NEW v \in Process, Report!At(v, "agent")', Report!Wk(v)'.rule = Report!Digest,
                        NEW i \in 1..Len(trail'), trail'[i].alone
                 PROVE  i \in covered' \cup Report!Wk(v)'.read
      BY DEF InPrompt
    <3>1. v # w /\ Report!Wk(v)' = Report!Wk(v) /\ Report!At(v, "agent") /\ Report!Wk(v).rule = Report!Digest
      BY <2>2, <2>4 DEF Report!At
    <3>2. i # Len(trail) + 1
      BY <2>5, <2>6, <3>1 DEF Report!Digesting
    <3>3. i \in 1..Len(trail)
      BY <2>5, <2>6, <3>2
    <3> QED
      BY <1>1, <2>5, <3>1, <3>3 DEF ReportInv, InPrompt
  <2>10. Report!EntriesDigested'
    <3> SUFFICES ASSUME NEW i \in 1..lastReport, trail'[i].alone PROVE i \in covered
      BY <1>1 DEF Report!EntriesDigested
    <3>1. i \in 1..Len(trail)
      BY DEF ReportInv, ReportTyped
    <3> QED
      BY <2>5, <3>1 DEF ReportInv, Report!EntriesDigested
  <2>11. LastAtMost'
    <3> SUFFICES ASSUME NEW e \in effects, ~OnTrail(e)'
                 PROVE  /\ \A d \in effects : d.by = e.by /\ ~OnTrail(d)' => d = e
                        /\ \A v \in Process : Report!Wk(v)'.id = e.by => Report!At(v, "log")' /\ Len(Report!Wk(v)'.todo) = e.n
      BY <1>1 DEF LastAtMost
    <3>1. ~OnTrail(e)
      BY <2>5
    <3>2. e.by # old.id
      <4> SUFFICES ASSUME e.by = old.id PROVE FALSE
        OBVIOUS
      <4>1. e.n = Len(old.todo)
        BY <3>1 DEF ReportInv, LastAtMost
      <4>2. Len(trail) + 1 \in DOMAIN trail'
        BY <2>5, <2>6
      <4> QED
        BY <2>5, <2>6, <4>1, <4>2 DEF OnTrail
    <3> QED
      BY <2>2, <2>4, <2>5, <3>1, <3>2 DEF ReportInv, LastAtMost, Report!At
  <2> QED
    BY <2>7, <2>8, <2>9, <2>10, <2>11 DEF ReportInv
<1> QED
  BY <1>2, <1>3 DEF Report!LogAction

\* Every step of a worker keeps the invariant.
LEMMA WorkerKeeps ==
  ASSUME Report!Digest \notin RuleName, ReportInv, NEW w \in Process
  PROVE  /\ Report!Ask(w) => ReportInv'
         /\ \A rule \in RuleName : Report!Investigate(w, rule) => ReportInv'
         /\ Report!AgentFails(w) \/ Report!Deliver(w) \/ Report!Die(w) => ReportInv'
         /\ Report!AgentAnswers(w) \/ Report!WriteReport(w) \/ Report!Refuse(w) => ReportInv'
<1> DEFINE old == Report!Wk(w)
<1>0. old \in Job /\ Report!Resting \in Job
  BY RestingType DEF ReportInv, ReportTyped, Report!Wk
<1>1. ASSUME Report!Ask(w) PROVE ReportInv'
  <2> DEFINE me == [Report!Resting EXCEPT !.step = "agent", !.id = jobs + 1,
                                   !.read = (lastReport + 1)..Len(trail)]
  <2>1. me.step = "agent" /\ me.id = jobs + 1 /\ me.read = (lastReport + 1)..Len(trail)
    BY DEF Report!Resting
  <2>2. me \in Job
    <3>1. (lastReport + 1)..Len(trail) \in SUBSET Nat /\ jobs + 1 \in Nat
      BY DEF ReportInv, ReportTyped
    <3> QED
      BY <1>0, <3>1 DEF Job
  <2>3. Report!Become(w, me) /\ Report!At(w, "rest") /\ jobs' = jobs + 1 /\ UNCHANGED <<trail, lastReport, effects, covered>>
    BY <1>1 DEF Report!Ask
  <2> HIDE DEF me
  <2> QED
    BY <2>1, <2>2, <2>3, Begins
<1>2. ASSUME NEW rule \in RuleName, Report!Investigate(w, rule) PROVE ReportInv'
  <2> DEFINE me == [Report!Resting EXCEPT !.step = "agent", !.id = jobs + 1, !.rule = rule]
  <2>1. me.step = "agent" /\ me.id = jobs + 1 /\ me.rule # Report!Digest
    BY DEF Report!Resting
  <2>2. me \in Job
    <3>1. jobs + 1 \in Nat
      BY DEF ReportInv, ReportTyped
    <3> QED
      BY <1>0, <3>1 DEF Job
  <2>3. Report!Become(w, me) /\ Report!At(w, "rest") /\ jobs' = jobs + 1 /\ UNCHANGED <<trail, lastReport, effects, covered>>
    BY <1>2 DEF Report!Investigate
  <2> HIDE DEF me
  <2> QED
    BY <2>1, <2>2, <2>3, Begins
<1>3. ASSUME Report!AgentFails(w) \/ Report!Deliver(w) \/ Report!Die(w) PROVE ReportInv'
  BY <1>3, Ends DEF Report!AgentFails, Report!Deliver, Report!Die
<1>4. ASSUME Report!AgentAnswers(w) PROVE ReportInv'
  <2>1. old.step = "agent" /\ UNCHANGED <<trail, jobs, effects>>
    BY <1>4 DEF Report!AgentAnswers, Report!At
  <2>2. CASE old.rule = Report!Digest
    <3> DEFINE me == [old EXCEPT !.step = "report"]
    <3>1. me \in Job /\ me.id = old.id /\ me.step = "report"
      BY <1>0 DEF Job
    <3>2. Report!Become(w, me) /\ lastReport' = Len(trail) /\ covered' = covered \cup old.read
      BY <1>4, <2>2 DEF Report!AgentAnswers
    <3> HIDE DEF me
    <3> QED
      BY <2>1, <2>2, <3>1, <3>2, GoesOn DEF Report!At
  <2>3. CASE old.rule # Report!Digest
    <3>1. PICK blocks \in Report!Blocks : Report!Become(w, [old EXCEPT !.step = "report", !.todo = blocks])
      BY <1>4, <2>3 DEF Report!AgentAnswers
    <3> DEFINE me == [old EXCEPT !.step = "report", !.todo = blocks]
    <3>2. blocks \in Seq({"allowed", "other"})
      BY BlocksType
    <3>3. me \in Job /\ me.id = old.id /\ me.step = "report"
      BY <1>0, <3>2 DEF Job
    <3>4. Report!Become(w, me) /\ lastReport' = lastReport /\ covered' = covered
      BY <1>4, <2>3, <3>1 DEF Report!AgentAnswers
    <3> HIDE DEF me
    <3> QED
      BY <2>1, <3>3, <3>4, GoesOn DEF Report!At
  <2> QED
    BY <2>2, <2>3
<1>5. ASSUME Report!WriteReport(w) PROVE ReportInv'
  <2>1. old.step = "report" /\ UNCHANGED <<trail, lastReport, jobs, effects, covered>>
    BY <1>5 DEF Report!WriteReport, Report!At
  <2>2. Report!Become(w, [old EXCEPT !.step = "act"]) \/ Report!End(w)
    BY <1>5 DEF Report!WriteReport
  <2> DEFINE me == [old EXCEPT !.step = "act"]
  <2>3. me \in Job /\ me.id = old.id /\ me.step = "act"
    BY <1>0 DEF Job
  <2> HIDE DEF me
  <2> QED
    BY <2>1, <2>2, <2>3, GoesOn, Ends DEF Report!At, me
<1>6. ASSUME Report!Refuse(w) PROVE ReportInv'
  <2> DEFINE me == [old EXCEPT !.todo = Tail(@)]
  <2>1. /\ old.step = "act" /\ old.todo # <<>> /\ Report!Become(w, me)
        /\ UNCHANGED <<trail, lastReport, jobs, effects, covered>>
    BY <1>6 DEF Report!Refuse, Report!At
  <2>2. Tail(old.todo) \in Seq({"allowed", "other"})
    BY <1>0, <2>1 DEF Job
  <2>3. me \in Job /\ me.id = old.id /\ me.step = "act"
    BY <1>0, <2>1, <2>2 DEF Job
  <2> HIDE DEF me
  <2> QED
    BY <2>1, <2>3, GoesOn DEF Report!At
<1> QED
  BY <1>1, <1>2, <1>3, <1>4, <1>5, <1>6

\* Every step does.
LEMMA StepKeeps == Report!Digest \notin RuleName /\ ReportInv /\ (Report!Next \/ UNCHANGED reportVars) => ReportInv'
<1> SUFFICES ASSUME Report!Digest \notin RuleName, ReportInv, (Report!Next \/ UNCHANGED reportVars) PROVE ReportInv'
  OBVIOUS
<1>1. CASE UNCHANGED reportVars
  <2>1. UNCHANGED <<trail, lastReport, worker, jobs, effects, covered>>
    BY <1>1 DEF reportVars
  <2> QED
    BY <2>1 DEF ReportInv, ReportTyped, Numbered, InPrompt, Report!EntriesDigested, LastAtMost, OnTrail, Report!At, Report!Wk
<1> QED
  BY <1>1, WorkerKeeps, ActKeeps, LogKeeps, EventKeeps DEF Report!Next

(* ---- the reports in their home ---------------------------------------------- *)

\* Every step of the home keeps the invariant of the reports.
LEMMA ReportsKeep ==
  ASSUME At("reports") => ReportInv, [Next]_homeVars
  PROVE  (At("reports") => ReportInv)'
<1> SUFFICES ASSUME At("reports")' PROVE ReportInv'
  OBVIOUS
<1>1. ReportInv /\ (Report!Next \/ UNCHANGED reportVars)
  BY DEF Next, homeVars, At
<1> QED
  BY <1>1, StepKeeps, RuleAssumption

\* For any workers and rules: every entry up to the last digest was in the prompt
\* of a digest, but for those logged while one was under way.
THEOREM NoEntryLeftOut == Spec => []EntriesDigested
<1> DEFINE Inv == At("reports") => ReportInv
<1>1. Init => Inv
  BY ReportInit DEF Init
<1>2. Inv /\ [Next]_homeVars => Inv'
  BY ReportsKeep
<1>3. Inv => EntriesDigested
  BY DEF ReportInv, EntriesDigested
<1> QED
  BY <1>1, <1>2, <1>3, PTL DEF Spec

\* For any workers, rules and failures of the trail: of the actions of an
\* investigation at most the last is off the record.
THEOREM RecordLagsByOne == Spec => []ActionsOnRecord
<1> DEFINE Inv == At("reports") => ReportInv
<1>1. Init => Inv
  BY ReportInit DEF Init
<1>2. Inv /\ [Next]_homeVars => Inv'
  BY ReportsKeep
<1>0. \A S : Report!Cardinality(S) = Cardinality(S)
  BY Zenon DEF Report!Cardinality, Cardinality
<1>3. Inv => ActionsOnRecord
  <2> SUFFICES ASSUME ReportInv, NEW id \in 1..jobs, Report!OffRecord(id) # {}
               PROVE  /\ Cardinality(Report!OffRecord(id)) = 1
                      /\ \A w \in Process : Report!Wk(w).id = id => Report!At(w, "log")
    BY <1>0 DEF ActionsOnRecord, Report!ActionsOnRecord
  <2>1. \A e \in Report!OffRecord(id) : e \in effects /\ e.by = id /\ ~OnTrail(e)
    BY DEF Report!OffRecord, OnTrail
  <2>2. PICK e \in Report!OffRecord(id) : TRUE
    OBVIOUS
  <2>3. Report!OffRecord(id) = {e}
    BY <2>1, <2>2 DEF ReportInv, LastAtMost
  <2>4. Cardinality({e}) = 1
    BY FS_Singleton
  <2> QED
    BY <2>1, <2>2, <2>3, <2>4 DEF ReportInv, LastAtMost
<1> QED
  BY <1>1, <1>2, <1>3, PTL DEF Spec

(* -------- the patches ------------------------------------------------------ *)

\* What is kept of a text, and of a process that patches.
IsText(t) == {"version", "targets", "has", "edited"} \subseteq DOMAIN t /\ t.version \in Nat
IsPatching(me) ==
  {"step", "op", "i", "content", "missing", "alone"} \subseteq DOMAIN me /\ IsText(me.content)

PatchTyped ==
  /\ IsText(text) /\ latest \in Nat /\ patchCrashes \in Nat
  /\ DOMAIN proc = Process /\ \A c \in Process : IsPatching(proc[c])

\* Nobody takes a truncated file for the source, and who truncated it has the
\* source to write.
SourceHeld ==
  /\ text.version = 0 => /\ text.targets = {} /\ text.has = {} /\ text.edited = {}
                         /\ \E c \in Process : Patch!Me(c).step = "write"
  /\ \A c \in Process : Patch!Me(c).step \in {"truncate", "write"} => Patch!Me(c).content.version > 0

PatchInv == PatchTyped /\ (patchCrashes = 0 => SourceHeld)

\* The text of nobody's version, and a process without a command.
LEMMA PatchRest ==
  /\ IsText(Patch!Empty) /\ Patch!Empty.version = 0
  /\ Patch!Empty.targets = {} /\ Patch!Empty.has = {} /\ Patch!Empty.edited = {}
  /\ IsPatching(Patch!Rest) /\ Patch!Rest.step = "idle"
BY DEF IsText, IsPatching, Patch!Empty, Patch!Upstream, Patch!Rest

\* What hermes releases is a text of its version.
LEMMA ReleasedText ==
  ASSUME NEW v \in Nat, NEW t \in Patch!Released(v)
  PROVE  IsText(t) /\ t.version = v /\ t.has = {}
<1>1. PICK ts : t = [version |-> v, targets |-> ts, has |-> {}, edited |-> {}]
  BY DEF Patch!Released, Patch!Upstream
<1> QED
  BY <1>1 DEF IsText

\* The next patch is read, or there is none.
LEMMA NextPatching ==
  ASSUME NEW me, IsPatching(me)
  PROVE  IsPatching(Patch!NextPatch(me)) /\ Patch!NextPatch(me).step \in {"idle", "read"}
BY PatchRest DEF Patch!NextPatch, IsPatching

\* A step of one process.
LEMMA PatchOne ==
  ASSUME PatchInv, NEW c \in Process, NEW me, IsPatching(me), Patch!Become(c, me),
         IsText(text'), UNCHANGED latest, patchCrashes' = patchCrashes,
         patchCrashes = 0 =>
           /\ me.step \in {"truncate", "write"} => me.content.version > 0
           /\ text'.version = 0 =>
                /\ text'.targets = {} /\ text'.has = {} /\ text'.edited = {}
                /\ me.step = "write" \/ (text' = text /\ Patch!Me(c).step # "write")
  PROVE  PatchInv'
<1>1. /\ DOMAIN proc' = Process /\ Patch!Me(c)' = me
      /\ \A d \in Process \ {c} : Patch!Me(d)' = Patch!Me(d)
  BY DEF PatchInv, PatchTyped, Patch!Become, Patch!Me
<1>2. PatchTyped'
  BY <1>1 DEF PatchInv, PatchTyped, Patch!Me
<1>3. ASSUME patchCrashes = 0 PROVE SourceHeld'
  BY <1>1, <1>3 DEF PatchInv, SourceHeld
<1> QED
  BY <1>2, <1>3 DEF PatchInv

\* A step that all processes notice.
LEMMA PatchAll ==
  ASSUME PatchInv, DOMAIN proc' = Process, \A d \in Process : IsPatching(proc'[d]),
         \A d \in Process : \/ Patch!Me(d)'.step = Patch!Me(d).step /\ Patch!Me(d)'.content = Patch!Me(d).content
                            \/ Patch!Me(d).step = "idle" /\ Patch!Me(d)'.step \notin {"truncate", "write"},
         IsText(text'), text' = text \/ text'.version > 0, latest' \in Nat, patchCrashes' = patchCrashes
  PROVE  PatchInv'
<1>1. PatchTyped'
  BY DEF PatchInv, PatchTyped
<1>2. ASSUME patchCrashes = 0 PROVE SourceHeld'
  BY <1>2 DEF PatchInv, SourceHeld
<1> QED
  BY <1>1, <1>2 DEF PatchInv

\* A command begins.
LEMMA CommandKeeps ==
  ASSUME PatchInv, NEW c \in Process, NEW op, NEW first \in {"read", "status"}, NEW i, Patch!Command(c, op, first, i)
  PROVE  PatchInv'
<1>1. PICK alone \in BOOLEAN :
        proc' = [d \in Process |->
          IF d = c THEN [Patch!Rest EXCEPT !.step = first, !.op = op, !.i = i, !.alone = alone]
          ELSE IF Patch!Working(d) THEN [proc[d] EXCEPT !.alone = FALSE] ELSE proc[d]]
  BY DEF Patch!Command
<1>2. ~Patch!Working(c) /\ UNCHANGED <<text, latest, patchCrashes>>
  BY DEF Patch!Command
<1> DEFINE me == [Patch!Rest EXCEPT !.step = first, !.op = op, !.i = i, !.alone = alone]
<1>3. IsPatching(me) /\ me.step = first
  BY PatchRest DEF Patch!Rest, IsPatching
<1> HIDE DEF me
<1>4. \A d \in Process \ {c} : /\ IsPatching(proc'[d])
                               /\ Patch!Me(d)'.step = Patch!Me(d).step /\ Patch!Me(d)'.content = Patch!Me(d).content
  <2> SUFFICES ASSUME NEW d \in Process \ {c}
               PROVE  /\ IsPatching(proc'[d])
                      /\ proc'[d].step = proc[d].step /\ proc'[d].content = proc[d].content
    BY DEF Patch!Me
  <2>1. IsPatching(proc[d]) /\ proc'[d] \in {proc[d], [proc[d] EXCEPT !.alone = FALSE]}
    BY <1>1 DEF PatchInv, PatchTyped
  <2> QED
    BY <2>1 DEF IsPatching
<1>5. proc'[c] = me
  BY <1>1 DEF me
<1>6. IsPatching(proc'[c]) /\ Patch!Me(c).step = "idle" /\ Patch!Me(c)'.step \notin {"truncate", "write"}
  BY <1>2, <1>3, <1>5 DEF Patch!Me, Patch!Working
<1>7. DOMAIN proc' = Process
  BY <1>1
<1>8. IsText(text') /\ latest' \in Nat
  BY <1>2 DEF PatchInv, PatchTyped
<1> QED
  BY <1>2, <1>4, <1>6, <1>7, <1>8, PatchAll

\* hermes update replaces the text.
LEMMA UpdateKeeps == PatchInv /\ Patch!HermesUpdate => PatchInv'
<1> SUFFICES ASSUME PatchInv, Patch!HermesUpdate PROVE PatchInv'
  OBVIOUS
<1>1. /\ latest' \in Nat /\ latest' > 0 /\ text' \in Patch!Released(latest') /\ patchCrashes' = patchCrashes
      /\ proc' = [c \in Process |-> [proc[c] EXCEPT !.alone = @ /\ ~Patch!Working(c)]]
  BY DEF Patch!HermesUpdate, PatchInv, PatchTyped
<1>2. IsText(text') /\ text'.version > 0
  BY <1>1, ReleasedText
<1>3. ASSUME NEW d \in Process
      PROVE  /\ IsPatching(proc'[d])
             /\ proc'[d].step = proc[d].step /\ proc'[d].content = proc[d].content
  <2>1. IsPatching(proc[d]) /\ proc'[d] = [proc[d] EXCEPT !.alone = @ /\ ~Patch!Working(d)]
    BY <1>1 DEF PatchInv, PatchTyped
  <2> QED
    BY <2>1 DEF IsPatching
<1>4. DOMAIN proc' = Process
  BY <1>1
<1> QED
  BY <1>1, <1>2, <1>3, <1>4, PatchAll DEF Patch!Me

\* The user edits while nobody patches, so that there is a source to edit.
LEMMA EditKeeps == PatchInv /\ Patch!Edit => PatchInv'
<1> SUFFICES ASSUME PatchInv, Patch!Edit PROVE PatchInv'
  OBVIOUS
<1>1. PICK n : text' = [text EXCEPT !.has = @ \ {n}, !.edited = @ \cup {n}]
  BY DEF Patch!Edit
<1>2. /\ UNCHANGED <<proc, latest, patchCrashes>> /\ \A c \in Process : ~Patch!Working(c)
      /\ IsText(text') /\ text'.version = text.version
  BY <1>1 DEF Patch!Edit, PatchInv, PatchTyped, IsText
<1>3. PatchTyped'
  BY <1>2 DEF PatchInv, PatchTyped
<1>4. ASSUME patchCrashes = 0 PROVE SourceHeld'
  <2>1. text.version # 0
    BY <1>2, <1>4 DEF PatchInv, SourceHeld, Patch!Working
  <2> QED
    BY <1>2, <1>4, <2>1 DEF PatchInv, SourceHeld, Patch!Me
<1> QED
  BY <1>2, <1>3, <1>4 DEF PatchInv

\* A truncated file has neither a target nor a patch: it is not written back.
LEMMA ReadKeeps == \A c \in Process : PatchInv /\ Patch!Read(c) => PatchInv'
<1> SUFFICES ASSUME NEW c \in Process, PatchInv, Patch!Read(c) PROVE PatchInv'
  OBVIOUS
<1> DEFINE old == Patch!Me(c)
           plan == IF old.op = "apply" THEN Patch!ApplyPlan(text, Patch!This(c))
                   ELSE Patch!RevertPlan(text, Patch!This(c))
           me == IF plan = "next" THEN Patch!NextPatch(old)
                 ELSE [old EXCEPT !.step = plan, !.content = IF plan = "truncate" THEN text ELSE Patch!Empty]
<1>1. IsPatching(old) /\ old.step = "read" /\ Patch!Become(c, me) /\ UNCHANGED <<text, latest, patchCrashes>>
  BY DEF Patch!Read, PatchInv, PatchTyped, Patch!Me
<1>2. IsText(text) /\ IsText(Patch!Empty)
  BY PatchRest DEF PatchInv, PatchTyped
<1>3. plan \in {"next", "invalidate", "truncate"}
  BY DEF Patch!ApplyPlan, Patch!RevertPlan
<1>4. text.targets = {} /\ text.has = {} /\ text.edited = {} => plan = "next"
  BY DEF Patch!ApplyPlan, Patch!RevertPlan, Patch!Status, Patch!HasSentinel, Patch!HasTarget
<1> HIDE DEF plan
<1>5. /\ IsPatching(me) /\ me.step \in {"idle", "read", "invalidate", "truncate"}
      /\ me.step = "truncate" => plan = "truncate" /\ me.content = text
  <2>1. CASE plan = "next"
    BY <1>1, <2>1, NextPatching
  <2>2. CASE plan # "next"
    BY <1>1, <1>2, <1>3, <2>2 DEF IsPatching
  <2> QED
    BY <2>1, <2>2
<1> HIDE DEF me
<1>6. ASSUME patchCrashes = 0
      PROVE  /\ me.step \in {"truncate", "write"} => me.content.version > 0
             /\ text'.version = 0 =>
                  /\ text'.targets = {} /\ text'.has = {} /\ text'.edited = {}
                  /\ me.step = "write" \/ (text' = text /\ old.step # "write")
  <2>1. text.version = 0 => text.targets = {} /\ text.has = {} /\ text.edited = {}
    BY <1>6 DEF PatchInv, SourceHeld
  <2> QED
    BY <1>1, <1>2, <1>4, <1>5, <2>1 DEF IsText
<1>7. IsText(text') /\ latest' = latest /\ patchCrashes' = patchCrashes
  BY <1>1, <1>2
<1> QED
  BY <1>1, <1>5, <1>6, <1>7, PatchOne

\* Between its read and its write a process keeps the source.
LEMMA RewriteKeeps == \A c \in Process : PatchInv /\ (Patch!Truncate(c) \/ Patch!Write(c)) => PatchInv'
<1> SUFFICES ASSUME NEW c \in Process, PatchInv, Patch!Truncate(c) \/ Patch!Write(c) PROVE PatchInv'
  OBVIOUS
<1> DEFINE old == Patch!Me(c)
<1>1. /\ IsPatching(old) /\ UNCHANGED <<latest, patchCrashes>> /\ old.step \in {"truncate", "write"}
      /\ IsText(old.content) /\ (patchCrashes = 0 => old.content.version > 0)
  BY DEF Patch!Truncate, Patch!Write, PatchInv, PatchTyped, SourceHeld, Patch!Me, IsPatching
<1>2. CASE Patch!Truncate(c)
  <2> DEFINE me == [old EXCEPT !.step = "write"]
  <2>1. text' = Patch!Empty /\ Patch!Become(c, me)
    BY <1>2 DEF Patch!Truncate, Patch!Rewrite
  <2>2. IsPatching(me) /\ me.step = "write" /\ me.content = old.content
    BY <1>1 DEF IsPatching
  <2> HIDE DEF me
  <2>3. IsText(text')
    BY <2>1, PatchRest
  <2> QED
    BY <1>1, <2>1, <2>2, <2>3, PatchRest, PatchOne
<1>3. CASE Patch!Write(c)
  <2> DEFINE me == [old EXCEPT !.step = "invalidate", !.content = Patch!Empty]
             new == IF old.op = "apply" THEN Patch!Applied(old.content, Patch!This(c))
                    ELSE Patch!Reverted(old.content, Patch!This(c))
  <2>1. text' = new /\ Patch!Become(c, me)
    BY <1>3 DEF Patch!Write, Patch!Rewrite
  <2>2. IsPatching(me) /\ me.step = "invalidate"
    BY <1>1, PatchRest DEF IsPatching
  <2>3. IsText(new) /\ new.version = old.content.version
    BY <1>1 DEF Patch!Applied, Patch!Reverted, IsText
  <2> HIDE DEF me, new
  <2>4. IsText(text') /\ latest' = latest /\ patchCrashes' = patchCrashes /\ (patchCrashes = 0 => text'.version # 0)
    BY <1>1, <2>1, <2>3
  <2> QED
    BY <2>1, <2>2, <2>4, PatchOne
<1> QED
  BY <1>2, <1>3

\* Its other steps leave the text alone.
LEMMA PatcherKeeps == \A c \in Process : PatchInv /\ (Patch!ReadStatus(c) \/ Patch!Invalidate(c)) => PatchInv'
<1> SUFFICES ASSUME NEW c \in Process, PatchInv, Patch!ReadStatus(c) \/ Patch!Invalidate(c) PROVE PatchInv'
  OBVIOUS
<1> DEFINE old == Patch!Me(c)
<1>1. /\ IsPatching(old) /\ UNCHANGED <<text, latest, patchCrashes>> /\ old.step \in {"status", "invalidate"}
      /\ IsText(text')
  BY DEF Patch!ReadStatus, Patch!Invalidate, PatchInv, PatchTyped, Patch!Me
<1>2. ASSUME NEW me, IsPatching(me), Patch!Become(c, me), me.step \notin {"truncate", "write"} PROVE PatchInv'
  BY <1>1, <1>2, PatchOne DEF PatchInv, SourceHeld
<1>3. CASE Patch!ReadStatus(c)
  <2> DEFINE missing == old.missing \/ Patch!Status(text, Patch!This(c)) = "skipped"
             me1 == [old EXCEPT !.i = @ + 1, !.missing = missing]
             me2 == [old EXCEPT !.step = "read", !.op = "apply", !.i = 1, !.missing = FALSE]
  <2>1. Patch!Become(c, me1) \/ Patch!Become(c, me2) \/ Patch!Become(c, Patch!Rest)
    BY <1>3 DEF Patch!ReadStatus
  <2>2. /\ IsPatching(me1) /\ me1.step = old.step
        /\ IsPatching(me2) /\ me2.step = "read"
    BY <1>1 DEF IsPatching
  <2>3. old.step = "status"
    BY <1>3 DEF Patch!ReadStatus
  <2> HIDE DEF me1, me2
  <2> QED
    BY <1>2, <2>1, <2>2, <2>3, PatchRest
<1>4. CASE Patch!Invalidate(c)
  BY <1>1, <1>2, <1>4, NextPatching DEF Patch!Invalidate
<1> QED
  BY <1>3, <1>4

\* Every step keeps the source, until a process crashes.
LEMMA PatchStep == PatchInv /\ (Patch!Next \/ UNCHANGED patchVars) => PatchInv'
<1> SUFFICES ASSUME PatchInv, Patch!Next \/ UNCHANGED patchVars PROVE PatchInv'
  OBVIOUS
<1>1. ASSUME NEW c \in Process, Patch!Install(c) \/ Patch!Update(c) \/ Patch!Run(c) \/ Patch!Uninstall(c) PROVE PatchInv'
  BY <1>1, CommandKeeps DEF Patch!Install, Patch!Update, Patch!Run, Patch!Uninstall
<1>2. ASSUME NEW c \in Process, Patch!CrashPatching(c) PROVE PatchInv'
  <2>1. Patch!Become(c, Patch!Rest) /\ patchCrashes' = patchCrashes + 1 /\ UNCHANGED <<text, latest>>
    BY <1>2 DEF Patch!CrashPatching
  <2>2. DOMAIN proc' = Process /\ \A d \in Process : proc'[d] \in {proc[d], Patch!Rest}
    BY <2>1 DEF PatchInv, PatchTyped, Patch!Become
  <2>3. PatchTyped' /\ patchCrashes' # 0
    BY <2>1, <2>2, PatchRest DEF PatchInv, PatchTyped
  <2> QED
    BY <2>3 DEF PatchInv
<1>3. CASE Patch!Import \/ UNCHANGED patchVars
  <2>1. UNCHANGED <<text, latest, proc, patchCrashes>>
    BY <1>3 DEF Patch!Import, patchVars
  <2> QED
    BY <2>1 DEF PatchInv, PatchTyped, SourceHeld, Patch!Me
<1> QED
  BY <1>1, <1>2, <1>3, ReadKeeps, RewriteKeeps, PatcherKeeps, UpdateKeeps, EditKeeps DEF Patch!Next

(* ---- a pass that nobody disturbs --------------------------------------------- *)

\* Patches that are there, or cannot be put there.
Settled(content, j) == Patch!Status(content, Patch!Patches[j]) # "skipped"
Missing(content, j) == Patch!Patches[j].name \notin content.has

\* How far the command of a process has come, when nobody disturbs it: patches before the
\* one it is at are settled, or those after it reverted; of the file, or, once it
\* is to be truncated, of what was read; and when a bytecode is old, of those
\* before none is in the text.
PassSoFar(me, t, code) ==
  LET kept == IF me.step \in {"truncate", "write"} THEN me.content ELSE t
  IN \/ /\ me.op = "run" /\ me.step = "status"
        /\ me.missing \/ \A j \in 1..(me.i - 1) : Settled(t, j)
     \/ /\ me.op = "apply" /\ me.step # "status"
        /\ \A j \in 1..(me.i - 1) : Settled(kept, j)
        /\ me.step = "invalidate" => Settled(t, me.i)
        /\ me.step = "read" /\ code = "old" => \A j \in 1..(me.i - 1) : Missing(t, j)
     \/ /\ me.op = "revert" /\ me.step # "status"
        /\ \A j \in (me.i + 1)..Len(Patch!Patches) : Missing(kept, j)
        /\ me.step = "invalidate" => Missing(t, me.i)

InPass(c) == Patch!Working(c) /\ Patch!Me(c).alone

PassTyped ==
  /\ file \in Patch!Files /\ text.has \subseteq Patch!Names
  /\ \A c \in Process :
       /\ Patch!Me(c).content.has \subseteq Patch!Names
       /\ Patch!Working(c) => Patch!Me(c).i \in DOMAIN Patch!Patches
       /\ Patch!Me(c).step = "status" => Patch!Me(c).op = "run"

PassInv ==
  /\ PatchTyped /\ PassTyped
  /\ \A c \in Process : InPass(c) =>
       PassSoFar(Patch!Me(c), text, bytecode) /\ \A d \in Process : Patch!Working(d) => d = c

\* Each file has its patches, and a patch has its sentinel.
LEMMA PatchesListed ==
  ASSUME file \in Patch!Files
  PROVE  /\ Len(Patch!Patches) \in Nat \ {0} /\ DOMAIN Patch!Patches = 1..Len(Patch!Patches)
         /\ \A j \in DOMAIN Patch!Patches : Patch!Patches[j].name \in Patch!Patches[j].sentinelIn
<1> DEFINE Listed(ps) == /\ Len(ps) \in Nat \ {0} /\ DOMAIN ps = 1..Len(ps)
                         /\ \A j \in DOMAIN ps : ps[j].name \in ps[j].sentinelIn
<1>1. /\ Listed(Patch!DockerPatches) /\ Listed(Patch!TerminalPatches) /\ Listed(Patch!BrowserPatches)
      /\ Listed(Patch!UpdatePatches) /\ Listed(Patch!LocalPatches) /\ Listed(Patch!GatewayPatches)
      /\ Listed(Patch!CliPatches) /\ Listed(Patch!BaseEnvPatches)
  BY DEF Patch!DockerPatches, Patch!TerminalPatches, Patch!BrowserPatches, Patch!UpdatePatches,
         Patch!LocalPatches, Patch!GatewayPatches, Patch!CliPatches, Patch!BaseEnvPatches, Patch!Patch
<1> HIDE DEF Listed
<1>2. Listed(Patch!Patches)
  BY <1>1 DEF Patch!Patches, Patch!Files
<1> QED
  BY <1>2 DEF Listed

\* The patches are those of the file.
LEMMA SamePatches ==
  ASSUME UNCHANGED file
  PROVE  Patch!Patches' = Patch!Patches /\ Patch!Names' = Patch!Names
BY DEF Patch!Patches, Patch!Names

\* A step of a process in its command: what it leaves is as its next step needs it.
LEMMA PassOne ==
  ASSUME PassInv, NEW c \in Process, Patch!Working(c), NEW me, IsPatching(me), Patch!Become(c, me),
         UNCHANGED file, IsText(text'), latest' \in Nat, patchCrashes' \in Nat,
         text'.has \subseteq Patch!Names, me.content.has \subseteq Patch!Names,
         me.step = "status" => me.op = "run",
         \/ me = Patch!Rest
         \/ /\ me.i \in DOMAIN Patch!Patches /\ me.alone = Patch!Me(c).alone
            /\ InPass(c) => PassSoFar(me, text', bytecode')
  PROVE  PassInv'
<1>1. /\ DOMAIN proc' = Process /\ Patch!Me(c)' = me
      /\ \A d \in Process \ {c} : Patch!Me(d)' = Patch!Me(d)
  BY DEF PassInv, PatchTyped, Patch!Become, Patch!Me
<1>2. PatchTyped'
  BY <1>1 DEF PassInv, PatchTyped, Patch!Me
<1>3. PassTyped'
  <2>1. me # Patch!Rest => me.i \in DOMAIN Patch!Patches
    OBVIOUS
  <2>2. me = Patch!Rest => me.step = "idle"
    BY PatchRest
  <2> QED
    BY <1>1, <2>1, <2>2, SamePatches DEF PassInv, PassTyped, Patch!Working
<1>4. ASSUME NEW d \in Process, InPass(d)'
      PROVE  PassSoFar(Patch!Me(d), text, bytecode)' /\ \A e \in Process : Patch!Working(e)' => e = d
  <2>1. d = c
    <3> SUFFICES ASSUME d # c PROVE FALSE
      OBVIOUS
    <3>1. InPass(d)
      BY <1>1, <1>4 DEF InPass, Patch!Working
    <3> QED
      BY <3>1 DEF PassInv
  <2>2. me # Patch!Rest
    BY <1>1, <1>4, <2>1, PatchRest DEF InPass, Patch!Working
  <2>3. InPass(c) /\ PassSoFar(me, text', bytecode')
    BY <1>1, <1>4, <2>1, <2>2 DEF InPass
  <2>4. PassSoFar(Patch!Me(d), text, bytecode)'
    BY <1>1, <2>1, <2>3, SamePatches DEF PassSoFar, Settled, Missing
  <2>5. \A e \in Process : Patch!Working(e)' => e = d
    BY <1>1, <2>1, <2>3 DEF PassInv, Patch!Working
  <2> QED
    BY <2>4, <2>5
<1> QED
  BY <1>2, <1>3, <1>4 DEF PassInv

\* A process is through with the patch it is at.
Through(me, t, code) ==
  \/ /\ me.op = "apply" /\ \A j \in 1..me.i : Settled(t, j)
     /\ code = "old" => \A j \in 1..me.i : Missing(t, j)
  \/ me.op = "revert" /\ \A j \in me.i..Len(Patch!Patches) : Missing(t, j)

\* All there is to do was done.
AllDone(op, t, code) ==
  \/ op = "revert" /\ \A j \in DOMAIN Patch!Patches : Missing(t, j)
  \/ /\ op \in {"apply", "run"} /\ \A j \in DOMAIN Patch!Patches : Settled(t, j)
     /\ op = "apply" /\ code = "old" => \A j \in DOMAIN Patch!Patches : Missing(t, j)

\* It goes on with the next patch, or has been through all.
LEMMA NextPass ==
  ASSUME file \in Patch!Files, NEW me, IsPatching(me), me.i \in DOMAIN Patch!Patches, NEW t, NEW code
  PROVE  LET next == Patch!NextPatch(me)
         IN \/ next = Patch!Rest /\ (Through(me, t, code) => AllDone(me.op, t, code))
            \/ /\ IsPatching(next) /\ next.i \in DOMAIN Patch!Patches /\ next.content = Patch!Empty
               /\ next.alone = me.alone /\ next.step = "read"
               /\ Through(me, t, code) => PassSoFar(next, t, code)
<1>1. me.i \in 1..Len(Patch!Patches) /\ Len(Patch!Patches) \in Nat /\ DOMAIN Patch!Patches = 1..Len(Patch!Patches)
  BY PatchesListed
<1>2. CASE Patch!Done(me)
  <2>1. me.op = "apply" => me.i = Len(Patch!Patches)
    BY <1>1, <1>2 DEF Patch!Done, Patch!Following
  <2>2. me.op = "revert" => me.i = 1
    BY <1>1, <1>2 DEF Patch!Done, Patch!Following
  <2>3. Through(me, t, code) => AllDone(me.op, t, code)
    BY <1>1, <2>1, <2>2 DEF Through, AllDone
  <2> QED
    BY <1>2, <2>3 DEF Patch!NextPatch
<1>3. CASE ~Patch!Done(me)
  <2> DEFINE next == [me EXCEPT !.step = "read", !.i = Patch!Following(me), !.content = Patch!Empty]
  <2>1. /\ IsPatching(next) /\ next.i = Patch!Following(me) /\ next.content = Patch!Empty
        /\ next.alone = me.alone /\ next.step = "read" /\ next.op = me.op
    BY PatchRest DEF IsPatching
  <2>2. Patch!NextPatch(me) = next /\ next.i \in DOMAIN Patch!Patches
    BY <1>3, <2>1 DEF Patch!NextPatch, Patch!Done
  <2> HIDE DEF next
  <2>3. next.i = IF me.op = "revert" THEN me.i - 1 ELSE me.i + 1
    BY <2>1 DEF Patch!Following
  <2>4. CASE me.op = "apply"
    <3>1. 1..(next.i - 1) = 1..me.i
      BY <1>1, <2>3, <2>4
    <3> QED
      BY <2>1, <2>2, <2>4, <3>1 DEF Through, PassSoFar
  <2>5. CASE me.op = "revert"
    <3>1. (next.i + 1)..Len(Patch!Patches) = me.i..Len(Patch!Patches)
      BY <1>1, <2>3, <2>5
    <3> QED
      BY <2>1, <2>2, <2>5, <3>1 DEF Through, PassSoFar
  <2> QED
    BY <2>1, <2>2, <2>4, <2>5 DEF Through
<1> QED
  BY <1>2, <1>3

\* A patch that was looked at and passed: its target is not there.
LEMMA ReadPass ==
  ASSUME PassInv, NEW c \in Process, Patch!Read(c)
  PROVE  /\ PassInv'
         /\ InPass(c) /\ proc'[c] = Patch!Rest => AllDone(Patch!Me(c).op, text', bytecode')
<1> DEFINE old == Patch!Me(c)
           plan == IF old.op = "apply" THEN Patch!ApplyPlan(text, Patch!This(c))
                   ELSE Patch!RevertPlan(text, Patch!This(c))
           me == IF plan = "next" THEN Patch!NextPatch(old)
                 ELSE [old EXCEPT !.step = plan, !.content = IF plan = "truncate" THEN text ELSE Patch!Empty]
<1>1. /\ IsPatching(old) /\ old.step = "read" /\ Patch!Become(c, me)
      /\ UNCHANGED <<file, text, bytecode, latest, patchCrashes>>
      /\ IsText(text) /\ latest \in Nat /\ patchCrashes \in Nat /\ proc'[c] = me
  BY DEF Patch!Read, PassInv, PatchTyped, Patch!Me, Patch!Become
<1>2. /\ Patch!Working(c) /\ file \in Patch!Files /\ old.i \in DOMAIN Patch!Patches
      /\ text.has \subseteq Patch!Names /\ (InPass(c) => PassSoFar(old, text, bytecode))
  BY <1>1 DEF PassInv, PassTyped, Patch!Working, InPass
<1>3. plan \in {"next", "invalidate", "truncate"}
  BY DEF Patch!ApplyPlan, Patch!RevertPlan
<1>4. /\ old.i \in 1..Len(Patch!Patches) /\ Len(Patch!Patches) \in Nat
      /\ Patch!This(c) = Patch!Patches[old.i]
      /\ Patch!Patches[old.i].name \in Patch!Patches[old.i].sentinelIn
  BY <1>2, PatchesListed DEF Patch!This
<1>5. plan = "next" /\ old.op = "apply" => Settled(text, old.i) /\ Missing(text, old.i)
  BY <1>4 DEF Patch!ApplyPlan, Patch!Status, Patch!HasSentinel, Settled, Missing
<1>6. plan = "next" /\ old.op = "revert" => Missing(text, old.i)
  BY <1>4 DEF Patch!RevertPlan, Missing
<1>7. plan = "invalidate" => old.op = "apply" /\ Settled(text, old.i)
  BY <1>4 DEF Patch!ApplyPlan, Patch!RevertPlan, Settled
<1> HIDE DEF plan
<1>8. CASE plan = "next"
  <2>1. InPass(c) => Through(old, text, bytecode)
    <3> SUFFICES ASSUME PassSoFar(old, text, bytecode) PROVE Through(old, text, bytecode)
      BY <1>2
    <3>1. CASE old.op = "apply"
      <4>1. \A j \in 1..old.i : j \in 1..(old.i - 1) \/ j = old.i
        BY <1>4
      <4> QED
        BY <1>1, <1>5, <1>8, <3>1, <4>1 DEF PassSoFar, Through
    <3>2. CASE old.op = "revert"
      <4>1. \A j \in old.i..Len(Patch!Patches) : j \in (old.i + 1)..Len(Patch!Patches) \/ j = old.i
        BY <1>4
      <4> QED
        BY <1>1, <1>6, <1>8, <3>2, <4>1 DEF PassSoFar, Through
    <3> QED
      BY <1>1, <3>1, <3>2 DEF PassSoFar
  <2>2. me = Patch!NextPatch(old)
    BY <1>8
  <2> HIDE DEF me
  <2>3. \/ me = Patch!Rest /\ (InPass(c) => AllDone(old.op, text, bytecode))
        \/ /\ me.i \in DOMAIN Patch!Patches /\ me.content = Patch!Empty
           /\ me.alone = old.alone /\ me.step = "read"
           /\ InPass(c) => PassSoFar(me, text, bytecode)
    BY <1>1, <1>2, <2>1, <2>2, NextPass
  <2>4. IsPatching(me) /\ me.content.has \subseteq Patch!Names
    BY <1>1, <2>2, <2>3, NextPatching, PatchRest DEF Patch!Rest
  <2>5. PassInv'
    BY <1>1, <1>2, <2>3, <2>4, PatchRest, PassOne
  <2>6. me.step = "idle" => me = Patch!Rest
    BY <2>3
  <2> QED
    BY <1>1, <2>3, <2>5, <2>6, PatchRest DEF InPass
<1>9. CASE plan # "next"
  <2>1. /\ IsPatching(me) /\ me.step = plan /\ me.i = old.i /\ me.op = old.op /\ me.alone = old.alone
        /\ me.content.has \subseteq Patch!Names /\ (plan = "truncate" => me.content = text)
    BY <1>1, <1>2, <1>9, PatchRest DEF IsPatching
  <2> HIDE DEF me
  <2>2. InPass(c) => PassSoFar(me, text, bytecode)
    BY <1>1, <1>2, <1>3, <1>7, <1>9, <2>1 DEF PassSoFar
  <2>3. PassInv'
    BY <1>1, <1>2, <1>3, <2>1, <2>2, PassOne
  <2> QED
    BY <1>1, <1>3, <1>9, <2>1, <2>3, PatchRest
<1> QED
  BY <1>8, <1>9

\* A truncated file is about to be written with what was read.
LEMMA TruncatePass ==
  ASSUME PassInv, NEW c \in Process, Patch!Truncate(c)
  PROVE  PassInv' /\ proc'[c] # Patch!Rest
<1> DEFINE old == Patch!Me(c)
           me == [old EXCEPT !.step = "write"]
<1>1. /\ IsPatching(old) /\ old.step = "truncate" /\ Patch!Become(c, me) /\ text' = Patch!Empty
      /\ UNCHANGED <<file, latest, patchCrashes>> /\ latest \in Nat /\ patchCrashes \in Nat /\ proc'[c] = me
  BY DEF Patch!Truncate, Patch!Rewrite, PassInv, PatchTyped, Patch!Me, Patch!Become
<1>2. /\ Patch!Working(c) /\ old.i \in DOMAIN Patch!Patches /\ old.content.has \subseteq Patch!Names
      /\ (InPass(c) => PassSoFar(old, text, bytecode))
  BY <1>1 DEF PassInv, PassTyped, Patch!Working, InPass
<1>3. /\ IsPatching(me) /\ me.step = "write" /\ me.i = old.i /\ me.op = old.op /\ me.alone = old.alone
      /\ me.content = old.content
  BY <1>1 DEF IsPatching
<1> HIDE DEF me
<1>4. InPass(c) => PassSoFar(me, text', bytecode')
  BY <1>1, <1>2, <1>3 DEF PassSoFar
<1>5. IsText(text') /\ text'.has \subseteq Patch!Names
  BY <1>1, PatchRest
<1>6. PassInv'
  BY <1>1, <1>2, <1>3, <1>4, <1>5, PassOne
<1> QED
  BY <1>1, <1>3, <1>6, PatchRest

\* What is written has the patch, or has it no more, and else what was read.
LEMMA WritePass ==
  ASSUME PassInv, NEW c \in Process, Patch!Write(c)
  PROVE  PassInv' /\ proc'[c] # Patch!Rest
<1> DEFINE old == Patch!Me(c)
           me == [old EXCEPT !.step = "invalidate", !.content = Patch!Empty]
           new == IF old.op = "apply" THEN Patch!Applied(old.content, Patch!This(c))
                  ELSE Patch!Reverted(old.content, Patch!This(c))
<1>1. /\ IsPatching(old) /\ old.step = "write" /\ Patch!Become(c, me) /\ text' = new
      /\ UNCHANGED <<file, latest, patchCrashes>> /\ latest \in Nat /\ patchCrashes \in Nat /\ proc'[c] = me
  BY DEF Patch!Write, Patch!Rewrite, PassInv, PatchTyped, Patch!Me, Patch!Become
<1>2. /\ Patch!Working(c) /\ file \in Patch!Files /\ old.i \in DOMAIN Patch!Patches
      /\ IsText(old.content) /\ old.content.has \subseteq Patch!Names
      /\ (InPass(c) => PassSoFar(old, text, bytecode))
  BY <1>1 DEF PassInv, PassTyped, Patch!Working, InPass, IsPatching
<1>3. /\ old.i \in 1..Len(Patch!Patches) /\ Len(Patch!Patches) \in Nat
      /\ Patch!This(c) = Patch!Patches[old.i] /\ Patch!Patches[old.i].name \in Patch!Names
      /\ Patch!Patches[old.i].name \in Patch!Patches[old.i].sentinelIn
  BY <1>2, PatchesListed DEF Patch!This, Patch!Names
<1>4. /\ IsPatching(me) /\ me.step = "invalidate" /\ me.i = old.i /\ me.op = old.op /\ me.alone = old.alone
      /\ me.content = Patch!Empty
  BY <1>1, PatchRest DEF IsPatching
<1>5. /\ IsText(new) /\ new.targets = old.content.targets /\ new.edited = old.content.edited
      /\ new.has = IF old.op = "apply" THEN old.content.has \cup {Patch!Patches[old.i].name}
                   ELSE old.content.has \ {Patch!Patches[old.i].name}
  BY <1>2, <1>3 DEF Patch!Applied, Patch!Reverted, IsText
<1> HIDE DEF me, new
<1>6. IsText(text') /\ text'.has \subseteq Patch!Names
  BY <1>1, <1>2, <1>3, <1>5
<1>7. ASSUME InPass(c) PROVE PassSoFar(me, new, bytecode')
  <2>1. CASE old.op = "apply"
    <3>1. Settled(new, old.i)
      BY <1>3, <1>5, <2>1 DEF Settled, Patch!Status, Patch!HasSentinel
    <3>2. ASSUME NEW j \in 1..(old.i - 1) PROVE Settled(new, j)
      <4>1. Settled(old.content, j)
        BY <1>1, <1>2, <1>7, <2>1 DEF PassSoFar
      <4>2. old.content.has \subseteq new.has
        BY <1>5, <2>1
      <4> QED
        BY <1>5, <4>1, <4>2 DEF Settled, Patch!Status, Patch!HasSentinel, Patch!HasTarget
    <3> QED
      BY <1>4, <2>1, <3>1, <3>2 DEF PassSoFar
  <2>2. CASE old.op = "revert"
    <3>1. Missing(new, old.i)
      BY <1>5, <2>2 DEF Missing
    <3>2. ASSUME NEW j \in (old.i + 1)..Len(Patch!Patches) PROVE Missing(new, j)
      <4>1. Missing(old.content, j)
        BY <1>1, <1>2, <1>7, <2>2 DEF PassSoFar
      <4> QED
        BY <1>5, <2>2, <4>1 DEF Missing
    <3> QED
      BY <1>4, <2>2, <3>1, <3>2 DEF PassSoFar
  <2> QED
    BY <1>1, <1>2, <1>7, <2>1, <2>2 DEF PassSoFar
<1>8. PassInv'
  <2>1. me.content.has \subseteq Patch!Names
    BY <1>4, PatchRest
  <2> QED
    BY <1>1, <1>2, <1>4, <1>6, <1>7, <2>1, PassOne
<1> QED
  BY <1>1, <1>4, <1>8, PatchRest

\* The bytecode is gone, whatever was passed before.
LEMMA InvalidatePass ==
  ASSUME PassInv, NEW c \in Process, Patch!Invalidate(c)
  PROVE  /\ PassInv'
         /\ InPass(c) /\ proc'[c] = Patch!Rest => AllDone(Patch!Me(c).op, text', bytecode')
<1> DEFINE old == Patch!Me(c)
<1>1. PICK me : me = Patch!NextPatch(old)
  OBVIOUS
<1>2. /\ IsPatching(old) /\ old.step = "invalidate" /\ Patch!Become(c, me) /\ bytecode' = "none"
      /\ UNCHANGED <<file, text, latest, patchCrashes>>
      /\ IsText(text) /\ latest \in Nat /\ patchCrashes \in Nat /\ proc'[c] = me
  BY <1>1 DEF Patch!Invalidate, PassInv, PatchTyped, Patch!Me, Patch!Become
<1>3. /\ Patch!Working(c) /\ file \in Patch!Files /\ old.i \in DOMAIN Patch!Patches
      /\ text.has \subseteq Patch!Names /\ (InPass(c) => PassSoFar(old, text, bytecode))
  BY <1>2 DEF PassInv, PassTyped, Patch!Working, InPass
<1>4. old.i \in 1..Len(Patch!Patches) /\ Len(Patch!Patches) \in Nat
  BY <1>3, PatchesListed
<1>5. ASSUME InPass(c) PROVE Through(old, text, "none")
  <2>1. CASE old.op = "apply"
    <3>1. \A j \in 1..old.i : j \in 1..(old.i - 1) \/ j = old.i
      BY <1>4
    <3> QED
      BY <1>2, <1>3, <1>5, <2>1, <3>1 DEF PassSoFar, Through
  <2>2. CASE old.op = "revert"
    <3>1. \A j \in old.i..Len(Patch!Patches) : j \in (old.i + 1)..Len(Patch!Patches) \/ j = old.i
      BY <1>4
    <3> QED
      BY <1>2, <1>3, <1>5, <2>2, <3>1 DEF PassSoFar, Through
  <2> QED
    BY <1>2, <1>3, <1>5, <2>1, <2>2 DEF PassSoFar
<1>6. \/ me = Patch!Rest /\ (InPass(c) => AllDone(old.op, text, "none"))
      \/ /\ me.i \in DOMAIN Patch!Patches /\ me.content = Patch!Empty
         /\ me.alone = old.alone /\ me.step = "read"
         /\ InPass(c) => PassSoFar(me, text, "none")
  BY <1>1, <1>2, <1>3, <1>5, NextPass
<1>7. IsPatching(me) /\ me.content.has \subseteq Patch!Names
  BY <1>1, <1>2, <1>6, NextPatching, PatchRest DEF Patch!Rest
<1>8. PassInv'
  BY <1>2, <1>3, <1>6, <1>7, PatchRest, PassOne
<1> QED
  BY <1>2, <1>6, <1>8, PatchRest

\* run has looked for a patch that is missing, and found it or none.
LEMMA StatusPass ==
  ASSUME PassInv, NEW c \in Process, Patch!ReadStatus(c)
  PROVE  /\ PassInv'
         /\ InPass(c) /\ proc'[c] = Patch!Rest => AllDone(Patch!Me(c).op, text', bytecode')
<1> DEFINE old == Patch!Me(c)
           missing == old.missing \/ Patch!Status(text, Patch!This(c)) = "skipped"
           me1 == [old EXCEPT !.i = @ + 1, !.missing = missing]
           me2 == [old EXCEPT !.step = "read", !.op = "apply", !.i = 1, !.missing = FALSE]
           me == IF ~Patch!Done(old) THEN me1 ELSE IF missing THEN me2 ELSE Patch!Rest
<1>1. /\ IsPatching(old) /\ old.step = "status" /\ Patch!Become(c, me)
      /\ UNCHANGED <<file, text, bytecode, latest, patchCrashes>>
      /\ IsText(text) /\ latest \in Nat /\ patchCrashes \in Nat /\ proc'[c] = me
  BY DEF Patch!ReadStatus, PassInv, PatchTyped, Patch!Me, Patch!Become
<1>2. /\ Patch!Working(c) /\ file \in Patch!Files /\ old.i \in DOMAIN Patch!Patches
      /\ text.has \subseteq Patch!Names /\ old.content.has \subseteq Patch!Names
      /\ (InPass(c) => PassSoFar(old, text, bytecode))
  BY <1>1 DEF PassInv, PassTyped, Patch!Working, InPass
<1>3. /\ old.i \in 1..Len(Patch!Patches) /\ Len(Patch!Patches) \in Nat \ {0}
      /\ DOMAIN Patch!Patches = 1..Len(Patch!Patches) /\ Patch!This(c) = Patch!Patches[old.i]
  BY <1>2, PatchesListed DEF Patch!This
<1>4. ASSUME InPass(c), ~missing
      PROVE  old.op = "run" /\ \A j \in 1..old.i : Settled(text, j)
  <2>1. old.op = "run" /\ (old.missing \/ \A j \in 1..(old.i - 1) : Settled(text, j))
    BY <1>1, <1>2, <1>4 DEF PassSoFar
  <2>2. \A j \in 1..old.i : j \in 1..(old.i - 1) \/ j = old.i
    BY <1>3
  <2> QED
    BY <1>3, <1>4, <2>1, <2>2 DEF Settled
<1>5. /\ IsPatching(me1) /\ me1.step = "status" /\ me1.i = old.i + 1 /\ me1.op = old.op
      /\ me1.alone = old.alone /\ me1.content = old.content /\ me1.missing = missing
  BY <1>1 DEF IsPatching
<1>6. /\ IsPatching(me2) /\ me2.step = "read" /\ me2.i = 1 /\ me2.op = "apply"
      /\ me2.alone = old.alone /\ me2.content = old.content
  BY <1>1 DEF IsPatching
<1>7. old.op = "run"
  BY <1>1 DEF PassInv, PassTyped
<1> HIDE DEF missing, me1, me2
<1>8. CASE ~Patch!Done(old)
  <2>1. me = me1 /\ me1.i \in DOMAIN Patch!Patches
    BY <1>5, <1>7, <1>8 DEF Patch!Done, Patch!Following
  <2> HIDE DEF me
  <2>2. (me1.i) - 1 = old.i
    BY <1>3, <1>5
  <2>3. InPass(c) => PassSoFar(me, text', bytecode')
    BY <1>1, <1>4, <1>5, <1>7, <2>1, <2>2 DEF PassSoFar
  <2>4. PassInv'
    BY <1>1, <1>2, <1>5, <1>7, <2>1, <2>3, PassOne
  <2> QED
    BY <1>1, <1>5, <2>1, <2>4, PatchRest
<1>9. CASE Patch!Done(old) /\ missing
  <2>1. me = me2 /\ me2.i \in DOMAIN Patch!Patches
    BY <1>3, <1>6, <1>9
  <2> HIDE DEF me
  <2>2. 1..(me2.i - 1) = {}
    BY <1>6
  <2>3. PassSoFar(me, text', bytecode')
    BY <1>6, <2>1, <2>2 DEF PassSoFar
  <2>4. PassInv'
    BY <1>1, <1>2, <1>6, <2>1, <2>3, PassOne
  <2> QED
    BY <1>1, <1>6, <2>1, <2>4, PatchRest
<1>10. CASE Patch!Done(old) /\ ~missing
  <2>1. me = Patch!Rest
    BY <1>10
  <2> HIDE DEF me
  <2>2. IsPatching(me) /\ me.content.has \subseteq Patch!Names /\ me.step # "status"
    BY <2>1, PatchRest DEF Patch!Rest
  <2>3. PassInv'
    BY <1>1, <1>2, <2>1, <2>2, PassOne
  <2>4. old.i = Len(Patch!Patches)
    BY <1>3, <1>7, <1>10 DEF Patch!Done, Patch!Following
  <2>5. InPass(c) => AllDone(old.op, text', bytecode')
    BY <1>1, <1>3, <1>4, <1>7, <1>10, <2>4 DEF AllDone
  <2> QED
    BY <2>3, <2>5
<1> QED
  BY <1>8, <1>9, <1>10

\* A command begins with nothing done.
LEMMA CommandPass ==
  ASSUME PassInv, NEW c \in Process, NEW op, NEW first, NEW i \in DOMAIN Patch!Patches,
         Patch!Command(c, op, first, i),
         \/ op = "run" /\ first = "status" /\ i = 1
         \/ op = "apply" /\ first = "read" /\ i = 1
         \/ op = "revert" /\ first = "read" /\ i = Len(Patch!Patches)
  PROVE  PassInv'
<1>1. PICK alone \in BOOLEAN :
        /\ alone = \A d \in Process : ~Patch!Working(d)
        /\ proc' = [d \in Process |->
             IF d = c THEN [Patch!Rest EXCEPT !.step = first, !.op = op, !.i = i, !.alone = alone]
             ELSE IF Patch!Working(d) THEN [proc[d] EXCEPT !.alone = FALSE] ELSE proc[d]]
  BY DEF Patch!Command
<1>2. ~Patch!Working(c) /\ UNCHANGED <<file, text, bytecode, latest, patchCrashes>>
  BY DEF Patch!Command
<1> DEFINE me == [Patch!Rest EXCEPT !.step = first, !.op = op, !.i = i, !.alone = alone]
<1>3. /\ IsPatching(me) /\ me.step = first /\ me.op = op /\ me.i = i /\ me.alone = alone
      /\ me.content = Patch!Empty
  BY PatchRest DEF Patch!Rest, IsPatching
<1>4. proc'[c] = me
  BY <1>1
<1> HIDE DEF me
<1>5. ASSUME NEW d \in Process \ {c}
      PROVE  /\ IsPatching(proc'[d]) /\ proc'[d].step = proc[d].step /\ proc'[d].content = proc[d].content
             /\ proc'[d].i = proc[d].i /\ proc'[d].op = proc[d].op
             /\ proc[d].step # "idle" => ~proc'[d].alone
  <2>1. /\ IsPatching(proc[d])
        /\ proc'[d] = IF proc[d].step # "idle" THEN [proc[d] EXCEPT !.alone = FALSE] ELSE proc[d]
    BY <1>1 DEF PassInv, PatchTyped, Patch!Working, Patch!Me
  <2> QED
    BY <2>1 DEF IsPatching
<1>6. PatchTyped'
  <2>1. DOMAIN proc' = Process
    BY <1>1
  <2> QED
    BY <1>2, <1>3, <1>4, <1>5, <2>1 DEF PassInv, PatchTyped
<1>7. PassTyped'
  <2>1. file' \in Patch!Files /\ text'.has \subseteq Patch!Names'
    BY <1>2, SamePatches DEF PassInv, PassTyped
  <2>2. ASSUME NEW d \in Process
        PROVE  /\ proc'[d].content.has \subseteq Patch!Names
               /\ proc'[d].step # "idle" => proc'[d].i \in DOMAIN Patch!Patches
               /\ proc'[d].step = "status" => proc'[d].op = "run"
    <3>1. CASE d = c
      BY <1>3, <1>4, <3>1, PatchRest
    <3>2. CASE d # c
      BY <1>5, <3>2 DEF PassInv, PassTyped, Patch!Me, Patch!Working
    <3> QED
      BY <3>1, <3>2
  <2> QED
    BY <1>2, <2>1, <2>2, SamePatches DEF PassTyped, Patch!Me, Patch!Working
<1>8. ASSUME NEW d \in Process, InPass(d)'
      PROVE  PassSoFar(Patch!Me(d), text, bytecode)' /\ \A e \in Process : Patch!Working(e)' => e = d
  <2>1. d = c
    BY <1>5, <1>8 DEF InPass, Patch!Me, Patch!Working
  <2>2. \A e \in Process : ~Patch!Working(e)
    BY <1>1, <1>3, <1>4, <1>8, <2>1 DEF InPass, Patch!Me
  <2>3. \A e \in Process : Patch!Working(e)' => e = d
    BY <1>5, <2>1, <2>2 DEF Patch!Me, Patch!Working
  <2>4. PassSoFar(me, text', bytecode')
    <3>1. Len(Patch!Patches) \in Nat
      BY PatchesListed DEF PassInv, PassTyped
    <3>2. 1..(1 - 1) = {} /\ (Len(Patch!Patches) + 1)..Len(Patch!Patches) = {}
      BY <3>1
    <3> QED
      BY <1>3, <3>2 DEF PassSoFar
  <2>5. PassSoFar(Patch!Me(d), text, bytecode)'
    BY <1>2, <1>4, <2>1, <2>4, SamePatches DEF PassSoFar, Settled, Missing, Patch!Me
  <2> QED
    BY <2>3, <2>5
<1> QED
  BY <1>6, <1>7, <1>8 DEF PassInv

\* hermes update disturbs all, and the user edits while nobody patches.
LEMMA OthersPass ==
  ASSUME PassInv, Patch!HermesUpdate \/ Patch!Edit \/ Patch!Import \/ UNCHANGED patchVars
  PROVE  PassInv'
<1>1. UNCHANGED <<file, patchCrashes>>
  BY DEF Patch!HermesUpdate, Patch!Edit, Patch!Import, patchVars
<1>2. CASE Patch!HermesUpdate
  <2>1. /\ latest' \in Nat /\ text' \in Patch!Released(latest')
        /\ proc' = [c \in Process |-> [proc[c] EXCEPT !.alone = @ /\ ~Patch!Working(c)]]
    BY <1>2 DEF Patch!HermesUpdate, PassInv, PatchTyped
  <2>2. IsText(text') /\ text'.has = {}
    BY <2>1, ReleasedText
  <2>3. ASSUME NEW d \in Process
        PROVE  /\ IsPatching(proc'[d]) /\ proc'[d].step = proc[d].step /\ proc'[d].content = proc[d].content
               /\ proc'[d].i = proc[d].i /\ proc'[d].op = proc[d].op
               /\ ~(proc'[d].step # "idle" /\ proc'[d].alone)
    <3>1. IsPatching(proc[d]) /\ proc'[d] = [proc[d] EXCEPT !.alone = @ /\ ~(proc[d].step # "idle")]
      BY <2>1 DEF PassInv, PatchTyped, Patch!Working, Patch!Me
    <3> QED
      BY <3>1 DEF IsPatching
  <2>4. PatchTyped'
    BY <1>1, <2>1, <2>2, <2>3 DEF PassInv, PatchTyped
  <2>5. PassTyped'
    BY <1>1, <2>2, <2>3, SamePatches DEF PassInv, PassTyped, Patch!Me, Patch!Working
  <2>6. \A d \in Process : ~InPass(d)'
    BY <2>3 DEF InPass, Patch!Me, Patch!Working
  <2> QED
    BY <2>4, <2>5, <2>6 DEF PassInv
<1>3. CASE Patch!Edit
  <2>1. PICK n \in text.has : text' = [text EXCEPT !.has = @ \ {n}, !.edited = @ \cup {n}]
    BY <1>3 DEF Patch!Edit
  <2>2. IsText(text') /\ text'.has \subseteq text.has
    BY <2>1 DEF PassInv, PatchTyped, IsText
  <2>3. UNCHANGED <<proc, latest>> /\ \A d \in Process : ~Patch!Working(d)
    BY <1>3 DEF Patch!Edit
  <2>4. PatchTyped'
    BY <1>1, <2>2, <2>3 DEF PassInv, PatchTyped
  <2>5. PassTyped'
    BY <1>1, <2>2, <2>3, SamePatches DEF PassInv, PassTyped, Patch!Me, Patch!Working
  <2> QED
    BY <2>3, <2>4, <2>5 DEF PassInv, InPass, Patch!Me, Patch!Working
<1>4. CASE Patch!Import \/ UNCHANGED patchVars
  <2>1. UNCHANGED <<proc, text, latest>> /\ (bytecode' = "old" => bytecode = "old")
    BY <1>4 DEF Patch!Import, patchVars
  <2>2. PatchTyped'
    BY <1>1, <2>1 DEF PassInv, PatchTyped
  <2>3. PassTyped'
    BY <1>1, <2>1, SamePatches DEF PassInv, PassTyped, Patch!Me, Patch!Working
  <2>4. ASSUME NEW d \in Process, InPass(d)'
        PROVE  PassSoFar(Patch!Me(d), text, bytecode)' /\ \A e \in Process : Patch!Working(e)' => e = d
    <3>1. PassSoFar(Patch!Me(d), text, bytecode) /\ \A e \in Process : Patch!Working(e) => e = d
      BY <2>1, <2>4 DEF PassInv, InPass, Patch!Me, Patch!Working
    <3>2. PassSoFar(Patch!Me(d), text, bytecode)'
      BY <1>1, <2>1, <3>1, SamePatches DEF PassSoFar, Settled, Missing, Patch!Me
    <3> QED
      BY <2>1, <3>1, <3>2 DEF Patch!Me, Patch!Working
  <2> QED
    BY <2>2, <2>3, <2>4 DEF PassInv
<1> QED
  BY <1>2, <1>3, <1>4

\* Who is killed leaves nobody else disturbed who was alone.
LEMMA CrashPass ==
  ASSUME PassInv, NEW c \in Process, Patch!CrashPatching(c)
  PROVE  PassInv' /\ patchCrashes' # patchCrashes
<1>1. /\ Patch!Working(c) /\ Patch!Become(c, Patch!Rest) /\ patchCrashes' = patchCrashes + 1
      /\ UNCHANGED <<file, text, latest>> /\ patchCrashes \in Nat
  BY DEF Patch!CrashPatching, PassInv, PatchTyped
<1>2. /\ IsText(text') /\ latest' \in Nat /\ patchCrashes' \in Nat /\ text'.has \subseteq Patch!Names
      /\ Patch!Rest.content.has \subseteq Patch!Names
  BY <1>1, PatchRest DEF PassInv, PatchTyped, PassTyped, Patch!Rest
<1>3. PassInv'
  BY <1>1, <1>2, PatchRest, PassOne
<1> QED
  BY <1>1, <1>3

\* Every step keeps what a pass has done, and one that ends alone has done all.
LEMMA PassStep ==
  ASSUME PassInv, Patch!Next \/ UNCHANGED patchVars
  PROVE  /\ PassInv'
         /\ \A c \in Process : Patch!EndsAlone(c) => AllDone(Patch!Me(c).op, text', bytecode')
<1> DEFINE Ended == \A c \in Process : Patch!EndsAlone(c) => AllDone(Patch!Me(c).op, text', bytecode')
<1> SUFFICES PassInv' /\ Ended
  OBVIOUS
<1>1. ASSUME NEW c \in Process, NEW d \in Process, Patch!EndsAlone(c), Patch!Working(d)
      PROVE  d = c
  BY <1>1 DEF Patch!EndsAlone, PassInv, InPass, Patch!Me
<1>2. ASSUME NEW c \in Process, Patch!EndsAlone(c) PROVE InPass(c) /\ proc'[c] = Patch!Rest
  BY <1>2 DEF Patch!EndsAlone, InPass, Patch!Me
<1>3. ASSUME \A c \in Process : proc'[c].step = proc[c].step \/ ~Patch!Working(c) PROVE Ended
  BY <1>3, PatchRest DEF Patch!EndsAlone, Patch!Working, Patch!Me
<1>4. ASSUME NEW c \in Process,
             Patch!Install(c) \/ Patch!Update(c) \/ Patch!Run(c) \/ Patch!Uninstall(c)
      PROVE  PassInv' /\ Ended
  <2>1. /\ Len(Patch!Patches) \in Nat \ {0} /\ DOMAIN Patch!Patches = 1..Len(Patch!Patches)
    BY PatchesListed DEF PassInv, PassTyped
  <2>2. PICK op, first, i : /\ Patch!Command(c, op, first, i) /\ i \in DOMAIN Patch!Patches
                            /\ \/ op = "run" /\ first = "status" /\ i = 1
                               \/ op = "apply" /\ first = "read" /\ i = 1
                               \/ op = "revert" /\ first = "read" /\ i = Len(Patch!Patches)
    <3>1. 1 \in DOMAIN Patch!Patches /\ Len(Patch!Patches) \in DOMAIN Patch!Patches
      BY <2>1
    <3> QED
      BY <1>4, <3>1 DEF Patch!Install, Patch!Update, Patch!Run, Patch!Uninstall
  <2>3. PassInv'
    BY <2>2, CommandPass
  <2>4. ASSUME NEW d \in Process, Patch!Working(d) PROVE proc'[d].step = proc[d].step
    <3>1. d # c /\ proc'[d] = [proc[d] EXCEPT !.alone = FALSE]
      BY <2>2, <2>4 DEF Patch!Command
    <3> QED
      BY <3>1 DEF PassInv, PatchTyped, IsPatching
  <2>5. Ended
    BY <1>3, <2>4
  <2> QED
    BY <2>3, <2>5
<1>5. ASSUME NEW c \in Process,
             \/ Patch!ReadStatus(c) \/ Patch!Read(c) \/ Patch!Truncate(c) \/ Patch!Write(c)
             \/ Patch!Invalidate(c) \/ Patch!CrashPatching(c)
      PROVE  PassInv' /\ Ended
  <2>1. Patch!Working(c)
    BY <1>5 DEF Patch!ReadStatus, Patch!Read, Patch!Truncate, Patch!Write, Patch!Invalidate,
       Patch!CrashPatching, Patch!Working
  <2>2. PassInv'
    BY <1>5, StatusPass, ReadPass, TruncatePass, WritePass, InvalidatePass, CrashPass
  <2>3. Patch!EndsAlone(c) => AllDone(Patch!Me(c).op, text', bytecode')
    <3> SUFFICES ASSUME Patch!EndsAlone(c) PROVE AllDone(Patch!Me(c).op, text', bytecode')
      OBVIOUS
    <3>1. InPass(c) /\ proc'[c] = Patch!Rest /\ patchCrashes' = patchCrashes
      BY <1>2 DEF Patch!EndsAlone
    <3> QED
      BY <1>5, <3>1, StatusPass, ReadPass, TruncatePass, WritePass, InvalidatePass, CrashPass
  <2>4. Ended
    BY <1>1, <2>1, <2>3
  <2> QED
    BY <2>2, <2>4
<1>6. CASE Patch!HermesUpdate \/ Patch!Edit \/ Patch!Import \/ UNCHANGED patchVars
  <2>1. ASSUME NEW d \in Process PROVE proc'[d].step = proc[d].step
    <3>1. IsPatching(proc[d])
      BY DEF PassInv, PatchTyped
    <3>2. proc'[d] = proc[d] \/ proc'[d] = [proc[d] EXCEPT !.alone = @ /\ ~Patch!Working(d)]
      BY <1>6 DEF Patch!HermesUpdate, Patch!Edit, Patch!Import, patchVars
    <3> QED
      BY <3>1, <3>2 DEF IsPatching
  <2> QED
    BY <1>3, <1>6, <2>1, OthersPass
<1> HIDE DEF Ended
<1>7. CASE \E c \in Process :
             Patch!Install(c) \/ Patch!Update(c) \/ Patch!Run(c) \/ Patch!Uninstall(c)
  BY <1>4, <1>7
<1>8. CASE \E c \in Process :
             \/ Patch!ReadStatus(c) \/ Patch!Read(c) \/ Patch!Truncate(c) \/ Patch!Write(c)
             \/ Patch!Invalidate(c) \/ Patch!CrashPatching(c)
  BY <1>5, <1>8
<1> QED
  BY <1>6, <1>7, <1>8 DEF Patch!Next

(* ---- the patches in their home ---------------------------------------------- *)

\* For any number of processes, whichever files, targets and updates: as long as
\* none of them crashes, hermes-agent's file is a source whenever nobody patches
\* it; what is read of a file truncated by another is not written back
\* (FilePatch.apply and revert).
THEOREM SourceStaysIntact == Spec => []SourceIntact
<1> DEFINE Inv == At("patches") => PatchInv
<1>1. Init => Inv
  <2> SUFFICES ASSUME Patch!Init PROVE PatchInv
    BY DEF Init
  <2>1. IsText(text) /\ text.version = 1
    BY ReleasedText DEF Patch!Init
  <2> QED
    BY <2>1, PatchRest DEF Patch!Init, PatchInv, PatchTyped, SourceHeld, Patch!Me
<1>2. Inv /\ [Next]_homeVars => Inv'
  <2> SUFFICES ASSUME Inv, [Next]_homeVars, At("patches")' PROVE PatchInv'
    OBVIOUS
  <2>1. PatchInv /\ (Patch!Next \/ UNCHANGED patchVars)
    BY DEF Next, homeVars, At
  <2> QED
    BY <2>1, PatchStep
<1>3. Inv => SourceIntact
  <2> SUFFICES ASSUME PatchInv, Patch!Quiet, patchCrashes = 0 PROVE text.version > 0
    BY DEF SourceIntact, Patch!SourceIntact
  <2> QED
    BY DEF PatchInv, PatchTyped, SourceHeld, IsText, Patch!Quiet, Patch!Working
<1> QED
  BY <1>1, <1>2, <1>3, PTL DEF Spec

\* Initially nobody is at work, and the source has no patch.
LEMMA PassInit == ASSUME Patch!Init PROVE PassInv
<1>1. IsText(text) /\ text.has = {} /\ file \in Patch!Files
  <2>1. text \in Patch!Released(1) /\ file \in PatchedFiles
    BY DEF Patch!Init
  <2> QED
    BY <2>1, ReleasedText, FileAssumption
<1>2. PatchTyped
  BY <1>1, PatchRest DEF Patch!Init, PatchTyped
<1>3. \A c \in Process : Patch!Me(c) = Patch!Rest
  BY DEF Patch!Init, Patch!Me
<1>4. Patch!Rest.step = "idle" /\ Patch!Rest.content.has = {}
  BY PatchRest DEF Patch!Rest
<1> QED
  BY <1>1, <1>2, <1>3, <1>4 DEF PassInv, PassTyped, InPass, Patch!Working

\* For any number of processes, whichever file, targets, updates, edits and crashes:
\* a pass over a file that nobody disturbs leaves no patch out whose target is
\* there, and takes out all that stand in the text verbatim; after install no
\* bytecode from before stays (apply_patches, revert_patches, patches_status).
THEOREM PassCompletes == Spec => AlonePassCompletes
<1> DEFINE Inv == At("patches") => PassInv
           Completes == At("patches") => Patch!AlonePassCompletes
<1>1. Init => Inv
  BY PassInit DEF Init
<1>2. Inv /\ [Next]_homeVars => Inv' /\ [Completes]_homeVars
  <2> SUFFICES ASSUME Inv, [Next]_homeVars PROVE Inv' /\ Completes
    OBVIOUS
  <2>1. CASE ~At("patches")
    <3>1. ~At("patches")'
      BY <2>1 DEF Next, homeVars, At
    <3> QED
      BY <2>1, <3>1
  <2>2. CASE At("patches")
    <3>1. PassInv /\ (Patch!Next \/ UNCHANGED patchVars)
      BY <2>2 DEF Next, homeVars, At
    <3>2. PassInv' /\ \A c \in Process : Patch!EndsAlone(c) => AllDone(Patch!Me(c).op, text', bytecode')
      BY <3>1, PassStep
    <3>3. file' = file /\ text'.has \subseteq Patch!Names
      <4>1. file' = file
        BY <3>1 DEF Patch!Next, patchVars, Patch!Install, Patch!Update, Patch!Run, Patch!Uninstall, Patch!Command,
           Patch!ReadStatus, Patch!Read, Patch!Truncate, Patch!Write, Patch!Invalidate, Patch!CrashPatching,
           Patch!Import, Patch!HermesUpdate, Patch!Edit
      <4> QED
        BY <3>2, <4>1, SamePatches DEF PassInv, PassTyped
    <3>4. ASSUME NEW c \in Process, AllDone(proc[c].op, text', bytecode')
          PROVE  /\ IF proc[c].op = "revert" THEN text'.has = {}
                    ELSE \A i \in DOMAIN Patch!Patches : Patch!Status(text', Patch!Patches[i]) # "skipped"
                 /\ proc[c].op = "apply" /\ text'.has # {} => bytecode' # "old"
      <4>1. (\A j \in DOMAIN Patch!Patches : Missing(text', j)) => text'.has = {}
        BY <3>3 DEF Missing, Patch!Names
      <4> QED
        BY <3>4, <4>1 DEF AllDone, Settled
    <3>5. Patch!AlonePassCompletes
      BY <3>2, <3>4 DEF Patch!AlonePassCompletes, Patch!Me
    <3> QED
      BY <3>2, <3>5
  <2> QED
    BY <2>1, <2>2
<1> HIDE DEF Completes
<1>3. Spec => [][Completes]_homeVars
  BY <1>1, <1>2, PTL DEF Spec
<1> QED
  BY <1>3 DEF AlonePassCompletes, Completes

(* -------- the matcher ------------------------------------------------------ *)

MatchTyped ==
  /\ steps \in Seq(SUBSET EntryKinds) /\ window \in Int
  /\ matchLog \in Seq(MatchEntry(EntryKinds))

LEMMA MatcherSame ==
  ASSUME NEW s, NEW w, NEW es
  PROVE  /\ Matcher!FindMatchEnd(s, w, es) = FindMatchEnd(s, w, es)
         /\ Matcher!Occurrences(s, w, es) = Occurrences(s, w, es)
         /\ Matcher!Ordered(es) <=> Ordered(es)
<1>1. Matcher!Ordered(es) <=> Ordered(es)
  BY Zenon DEF Matcher!Ordered, Ordered
<1>2. Matcher!Occurrences(s, w, es) = Occurrences(s, w, es)
  BY Zenon DEF Matcher!Occurrences, Occurrences, Matcher!Matches, Matches
<1>3. \A start : Matcher!Walk(s, es, start) = Walk(s, es, start)
  BY Zenon DEF Matcher!Walk, Walk, Matcher!Matches, Matches, Matcher!Min, Min
<1>4. Matcher!FindMatchEnd(s, w, es) = FindMatchEnd(s, w, es)
  BY Zenon DEF Matcher!FindMatchEnd, FindMatchEnd, Matcher!None, None, Matcher!Walk, Walk, Matcher!Matches, Matches, Matcher!Min, Min
<1> QED
  BY <1>1, <1>2, <1>4

LEMMA MatchInit == Matcher!Init => MatchTyped
<1> SUFFICES ASSUME Matcher!Init PROVE MatchTyped
  OBVIOUS
<1>1. PICK k \in 0..MaxSteps : steps \in [1..k -> SUBSET EntryKinds]
  BY DEF Matcher!Init
<1>2. k \in Nat
  BY MatchAssumption
<1>3. steps \in Seq(SUBSET EntryKinds)
  BY <1>1, <1>2
<1>4. window \in Int /\ matchLog = <<>>
  BY MatchAssumption DEF Matcher!Init
<1> QED
  BY <1>3, <1>4 DEF MatchTyped

LEMMA MatchNext == MatchTyped /\ [Matcher!Log]_matchVars => MatchTyped'
<1> SUFFICES ASSUME MatchTyped, [Matcher!Log]_matchVars PROVE MatchTyped'
  OBVIOUS
<1>1. CASE Matcher!Log
  <2>1. PICK k \in EntryKinds, t \in 1..MaxTs : matchLog' = Append(matchLog, [kind |-> k, ts |-> t])
    BY <1>1 DEF Matcher!Log
  <2>2. t \in Nat
    BY MatchAssumption
  <2>3. [kind |-> k, ts |-> t] \in MatchEntry(EntryKinds)
    BY <2>2 DEF MatchEntry
  <2>4. steps' = steps /\ window' = window
    BY <1>1 DEF Matcher!Log
  <2> QED
    BY <2>1, <2>3, <2>4 DEF MatchTyped
<1>2. CASE UNCHANGED matchVars
  BY <1>2 DEF matchVars, MatchTyped
<1> QED
  BY <1>1, <1>2

\* For any steps, window and entries: what find_match_end answers is the end of an
\* occurrence of the steps, and of the earliest if the entries are in order.
THEOREM MatcherFindsEarliest == Spec => []FindsEarliest
<1> DEFINE Inv == At("matcher") => MatchTyped
<1>1. Init => Inv
  BY MatchInit DEF Init
<1>2. Inv /\ [Next]_homeVars => Inv'
  <2> SUFFICES ASSUME Inv, [Next]_homeVars, At("matcher")' PROVE MatchTyped'
    OBVIOUS
  <2>1. MatchTyped /\ [Matcher!Log]_matchVars
    BY DEF Next, homeVars, At
  <2> QED
    BY <2>1, MatchNext
<1>3. Inv => FindsEarliest
  <2> SUFFICES ASSUME MatchTyped PROVE Matcher!FindsEarliest
    BY DEF FindsEarliest
  <2> DEFINE end == FindMatchEnd(steps, window, matchLog)
             occ == Occurrences(steps, window, matchLog)
             ends == IF steps = <<>> THEN {} ELSE {matchLog[f[Len(steps)]].ts : f \in occ}
  <2> SUFFICES /\ end \in ends \cup {None}
               /\ Ordered(matchLog) => end = IF ends = {} THEN None ELSE Min(ends)
    BY MatcherSame, Zenon DEF Matcher!FindsEarliest, Matcher!None, None, Matcher!Min, Min
  <2>1. CASE steps = <<>>
    BY <2>1 DEF FindMatchEnd
  <2>2. CASE steps # <<>>
    <3>1. /\ end = None \/ \E f \in occ : end = matchLog[f[Len(steps)]].ts
          /\ Ordered(matchLog) => \A f \in occ : end # None /\ end <= matchLog[f[Len(steps)]].ts
      BY <2>2, FindsFirst DEF MatchTyped
    <3>2. ends = {matchLog[f[Len(steps)]].ts : f \in occ}
      BY <2>2
    <3>3. ends \subseteq Nat
      <4>1. \A i \in 1..Len(matchLog) : matchLog[i].ts \in Nat
        BY EntryTime DEF MatchTyped
      <4>2. Len(steps) \in 1..Len(steps)
        BY <2>2 DEF MatchTyped
      <4>3. \A f \in occ : f[Len(steps)] \in 1..Len(matchLog)
        BY <4>2 DEF Occurrences
      <4> QED
        BY <3>2, <4>1, <4>3
    <3> HIDE DEF end, occ, ends
    <3>4. end \in ends \cup {None} /\ (Ordered(matchLog) => \A e \in ends : end # None /\ end <= e)
      BY <3>1, <3>2
    <3>5. ends # {} => Min(ends) \in ends /\ \A e \in ends : Min(ends) <= e
      BY <3>3, Least
    <3>6. ASSUME Ordered(matchLog), ends # {} PROVE end = Min(ends)
      <4>1. Min(ends) \in ends /\ end \in ends /\ end <= Min(ends) /\ Min(ends) <= end
        BY <3>4, <3>5, <3>6
      <4>2. end \in Nat /\ Min(ends) \in Nat
        BY <3>3, <4>1
      <4> QED
        BY <4>1, <4>2
    <3>7. ends = {} => end = None
      BY <3>4
    <3> QED
      BY <3>4, <3>6, <3>7
  <2> QED
    BY <2>1, <2>2
<1> QED
  BY <1>1, <1>2, <1>3, PTL DEF Spec

(* -------- the types ----------------------------------------------------------------- *)

(* ---- the types of the vault ------------------------------------------------ *)

\* However uses of the vault overlap, these are the values they work on.
OwnFile(c) ==
  LET me == Vault!Me(c)
  IN /\ me.use <= uses
     /\ me.op = "set" => me.name \in SecretName
     /\ IF me.step = "write" THEN me.fd # Vault!NoFile ELSE me.fd = Vault!NoFile

VaultKinds ==
  /\ VaultTyped /\ uses <= MaxUses /\ keyring <= uses
  /\ vaultFile # Vault!NoFile => vaultFile # tmpFile
  /\ \A c \in Process : OwnFile(c)

\* One process takes a step.
LEMMA OwnStep ==
  ASSUME VaultKinds, NEW c \in Process, NEW me \in ClientState, Vault!Become(c, me),
         VaultData', uses' <= MaxUses, keyring' <= uses', uses <= uses',
         vaultFile' # Vault!NoFile => vaultFile' # tmpFile',
         Vault!Me(c)' = me => OwnFile(c)'
  PROVE  VaultKinds'
<1>1. /\ client' \in [Process -> ClientState] /\ Vault!Me(c)' = me
      /\ \A d \in Process \ {c} : Vault!Me(d)' = Vault!Me(d) /\ Vault!Me(d) \in ClientState
  BY DEF Vault!Become, VaultKinds, VaultTyped, Vault!Me
<1>2. uses \in Nat /\ uses' \in Nat
  BY DEF VaultKinds, VaultTyped, VaultData
<1>3. ASSUME NEW d \in Process \ {c} PROVE OwnFile(d)'
  <2>1. Vault!Me(d).use \in Nat
    BY <1>1 DEF ClientState
  <2>2. Vault!Me(d).use <= uses'
    BY <1>2, <2>1 DEF VaultKinds, OwnFile
  <2> QED
    BY <1>1, <2>2 DEF VaultKinds, OwnFile
<1> QED
  BY <1>1, <1>3 DEF VaultKinds, VaultTyped

LEMMA OwnLeave ==
  ASSUME VaultKinds, NEW c \in Process, Vault!Leave(c),
         VaultData', uses' = uses, keyring' = keyring,
         vaultFile' # Vault!NoFile => vaultFile' # tmpFile'
  PROVE  VaultKinds'
<1>1. uses \in Nat /\ uses <= uses' /\ keyring' <= uses' /\ uses' <= MaxUses
  BY DEF VaultKinds, VaultTyped, VaultData
<1>2. Vault!Me(c)' = Vault!Out => OwnFile(c)'
  BY <1>1 DEF OwnFile, Vault!Out, VaultKinds, VaultTyped, VaultData
<1> QED
  BY <1>1, <1>2, OutType, OwnStep DEF Vault!Leave

LEMMA OwnUse ==
  ASSUME VaultKinds, NEW c \in Process, NEW op \in {"set", "remove", "read"},
         NEW name \in SecretName \cup {"none"}, op = "set" => name \in SecretName, Vault!Use(c, op, name)
  PROVE  VaultKinds'
<1> DEFINE me == [Vault!Out EXCEPT !.step = "key", !.op = op, !.name = name, !.use = uses + 1]
<1>1. uses \in Nat /\ keyring \in Nat /\ keyring <= uses /\ uses < MaxUses /\ uses' = uses + 1
  BY DEF VaultKinds, VaultTyped, VaultData, Vault!Use
<1>2. me \in ClientState /\ me.use = uses + 1 /\ me.op = op /\ me.name = name /\ me.step = "key" /\ me.fd = Vault!NoFile
  <2>1. ASSUME NEW o \in ClientState, NEW use \in Nat
        PROVE  [o EXCEPT !.step = "key", !.op = op, !.name = name, !.use = use] \in ClientState
    BY DEF ClientState
  <2>2. uses + 1 \in Nat
    BY <1>1
  <2> QED
    BY <2>1, <2>2, OutType DEF Vault!Out
<1>3. Vault!Become(c, me) /\ UNCHANGED <<keyring, vaultFile, tmpFile, contents, intended>>
  BY DEF Vault!Use
<1>4. VaultData'
  BY <1>1, <1>3 DEF VaultKinds, VaultTyped, VaultData
<1> HIDE DEF me
<1>5. Vault!Me(c)' = me => OwnFile(c)'
  BY <1>1, <1>2 DEF OwnFile
<1>6. uses' <= MaxUses /\ keyring' <= uses' /\ uses <= uses'
  BY <1>1, <1>3, BoundAssumption
<1>7. vaultFile' # Vault!NoFile => vaultFile' # tmpFile'
  BY <1>3 DEF VaultKinds
<1> QED
  BY <1>2, <1>3, <1>4, <1>5, <1>6, <1>7, OwnStep

LEMMA OwnKey ==
  ASSUME VaultKinds, NEW c \in Process, Vault!GetKey(c) \/ Vault!KeepKey(c)
  PROVE  VaultKinds'
<1> PICK o : o = Vault!Me(c)
  OBVIOUS
<1>1. o \in ClientState /\ uses \in Nat /\ keyring \in Nat /\ keyring <= uses /\ uses <= MaxUses /\ VaultData
      /\ o.use <= uses /\ (o.op = "set" => o.name \in SecretName)
      /\ (vaultFile # Vault!NoFile => vaultFile # tmpFile)
  BY DEF VaultKinds, VaultTyped, VaultData, Vault!Me, OwnFile
<1>2. o.step \in {"key", "keep"} /\ o.fd = Vault!NoFile /\ UNCHANGED <<vaultFile, tmpFile, contents, uses, intended>>
  BY DEF Vault!GetKey, Vault!KeepKey, Vault!counters, VaultKinds, OwnFile
<1>3. PICK me :
        /\ Vault!Become(c, me) /\ me \in ClientState
        /\ me.use = o.use /\ me.op = o.op /\ me.name = o.name /\ me.fd = o.fd /\ me.step # "write"
        /\ keyring' \in {keyring, o.use}
  <2>1. CASE Vault!GetKey(c)
    <3> DEFINE me == IF keyring = Vault!NoKey THEN [o EXCEPT !.step = "keep"]
                     ELSE [o EXCEPT !.step = "load", !.key = keyring]
    <3>1. Vault!Become(c, me) /\ keyring' = keyring
      BY <2>1 DEF Vault!GetKey
    <3>2. me \in ClientState /\ me.use = o.use /\ me.op = o.op /\ me.name = o.name /\ me.fd = o.fd /\ me.step # "write"
      BY <1>1 DEF ClientState
    <3> HIDE DEF me
    <3> QED
      BY <3>1, <3>2
  <2>2. CASE Vault!KeepKey(c)
    <3> DEFINE me == [o EXCEPT !.step = "load", !.key = o.use]
    <3>1. Vault!Become(c, me) /\ keyring' = o.use
      BY <2>2 DEF Vault!KeepKey
    <3>2. me \in ClientState /\ me.use = o.use /\ me.op = o.op /\ me.name = o.name /\ me.fd = o.fd /\ me.step # "write"
      BY <1>1 DEF ClientState
    <3> HIDE DEF me
    <3> QED
      BY <3>1, <3>2
  <2> QED
    BY <2>1, <2>2
<1>4. o.use \in Nat
  BY <1>1 DEF ClientState
<1>5. VaultData' /\ keyring' <= uses' /\ uses' <= MaxUses /\ uses <= uses'
  BY <1>1, <1>2, <1>3, <1>4 DEF VaultData
<1>6. Vault!Me(c)' = me => OwnFile(c)'
  BY <1>1, <1>2, <1>3 DEF OwnFile
<1> QED
  BY <1>1, <1>2, <1>3, <1>5, <1>6, OwnStep

\* The values in a file that is read, opened, written or renamed.
LEMMA OwnFiles ==
  ASSUME VaultKinds, NEW c \in Process, Vault!Load(c) \/ Vault!OpenTmp(c) \/ Vault!WriteTmp(c)
  PROVE  VaultKinds'
<1> PICK o : o = Vault!Me(c)
  OBVIOUS
<1>1. o \in ClientState /\ uses \in Nat /\ keyring <= uses /\ uses <= MaxUses /\ VaultData
      /\ o.use <= uses /\ (o.op = "set" => o.name \in SecretName)
      /\ (vaultFile # Vault!NoFile => vaultFile # tmpFile)
      /\ IF o.step = "write" THEN o.fd # Vault!NoFile ELSE o.fd = Vault!NoFile
  BY DEF VaultKinds, VaultTyped, VaultData, Vault!Me, OwnFile
<1>2. UNCHANGED <<keyring, vaultFile, uses, intended>>
  BY DEF Vault!Load, Vault!OpenTmp, Vault!WriteTmp, Vault!counters
<1>3. CASE Vault!Load(c) /\ ~Vault!OnDisk.json
  <2>1. VaultData' /\ Vault!Leave(c) /\ tmpFile' = tmpFile
    BY <1>1, <1>3 DEF Vault!Load, VaultData, Vault!counters
  <2> QED
    BY <1>1, <1>2, <2>1, OwnLeave
<1>4. CASE Vault!Load(c) /\ Vault!OnDisk.json
  <2> DEFINE E == Vault!Changed(o, Vault!OnDisk.entries)
             after == IF o.op = "read" THEN "decrypt" ELSE "open"
             me == [o EXCEPT !.step = after, !.entries = E]
  <2>1. Vault!OnDisk.entries \in Dictionary
    BY <1>1, NothingType DEF Vault!OnDisk, VaultData, Vault!Holding
  <2>2. E \in Dictionary
    BY <1>1, <2>1, ChangedType
  <2>3. VaultData' /\ tmpFile' = tmpFile /\ Vault!Become(c, me) /\ o.fd = Vault!NoFile
    BY <1>1, <1>4 DEF Vault!Load, VaultData, Vault!counters
  <2> HIDE DEF E
  <2>4. /\ me \in ClientState /\ me.use = o.use /\ me.op = o.op /\ me.name = o.name /\ me.fd = o.fd
        /\ me.step # "write"
    BY <1>1, <2>2 DEF ClientState
  <2> HIDE DEF me
  <2>5. Vault!Me(c)' = me => OwnFile(c)'
    BY <1>1, <1>2, <2>3, <2>4 DEF OwnFile
  <2> QED
    BY <1>1, <1>2, <2>3, <2>4, <2>5, OwnStep
<1>5. CASE Vault!OpenTmp(c)
  <2> DEFINE f == IF tmpFile # Vault!NoFile THEN tmpFile ELSE CHOOSE g \in Vault!Unused : TRUE
             me == [o EXCEPT !.step = "write", !.fd = f]
  <2>1. f \in Vault!Files /\ f # Vault!NoFile /\ f # vaultFile
    <3>1. CASE tmpFile = Vault!NoFile
      <4>1. o.fd = Vault!NoFile
        BY <1>1, <1>5 DEF Vault!OpenTmp
      <4>2. Vault!Unused # {} /\ \A g \in Vault!Unused : g \in Vault!Files /\ g # vaultFile /\ g # Vault!NoFile
        BY <3>1, <4>1, FileLeft
      <4>3. f \in Vault!Unused
        BY <3>1, <4>2
      <4> QED
        BY <4>2, <4>3
    <3>2. CASE tmpFile # Vault!NoFile
      <4>1. tmpFile \in Vault!Files /\ f = tmpFile
        BY <1>1, <3>2 DEF VaultData
      <4> QED
        BY <1>1, <3>2, <4>1
    <3> QED
      BY <3>1, <3>2
  <2>2. tmpFile' = f /\ contents' = [contents EXCEPT ![f] = Vault!Torn] /\ Vault!Become(c, me)
    BY <1>5 DEF Vault!OpenTmp
  <2> HIDE DEF f
  <2>3. Vault!Torn \in [json : BOOLEAN, entries : Dictionary]
    BY NothingType DEF Vault!Torn
  <2>4. VaultData'
    BY <1>1, <1>2, <2>1, <2>2, <2>3 DEF VaultData
  <2>5. me \in ClientState /\ me.use = o.use /\ me.op = o.op /\ me.name = o.name /\ me.fd = f /\ me.step = "write"
    BY <1>1, <2>1 DEF ClientState
  <2> HIDE DEF me
  <2>6. Vault!Me(c)' = me => OwnFile(c)'
    BY <1>1, <1>2, <2>1, <2>5 DEF OwnFile
  <2> QED
    BY <1>1, <1>2, <2>1, <2>2, <2>4, <2>5, <2>6, OwnStep
<1>6. CASE Vault!WriteTmp(c)
  <2> DEFINE f == o.fd
             me == [o EXCEPT !.step = "replace", !.fd = Vault!NoFile, !.entries = Vault!Nothing]
  <2>1. f \in Vault!Files
    BY <1>1, <1>6 DEF Vault!WriteTmp, ClientState
  <2>2. PICK h : /\ h \in {Vault!Torn, Vault!Holding(o.entries)}
                 /\ contents' = [contents EXCEPT ![f] = h] /\ tmpFile' = tmpFile /\ Vault!Become(c, me)
    BY <1>6 DEF Vault!WriteTmp
  <2>3. h \in [json : BOOLEAN, entries : Dictionary]
    <3>1. Vault!Torn \in [json : BOOLEAN, entries : Dictionary] /\ o.entries \in Dictionary
      BY <1>1, NothingType DEF Vault!Torn, ClientState
    <3>2. Vault!Holding(o.entries) \in [json : BOOLEAN, entries : Dictionary]
      BY <3>1 DEF Vault!Holding
    <3> QED
      BY <2>2, <3>1, <3>2
  <2>4. VaultData'
    BY <1>1, <1>2, <2>1, <2>2, <2>3 DEF VaultData
  <2>5. me \in ClientState /\ me.use = o.use /\ me.op = o.op /\ me.name = o.name /\ me.fd = Vault!NoFile /\ me.step = "replace"
    BY <1>1, NothingType DEF ClientState
  <2> HIDE DEF me
  <2>6. Vault!Me(c)' = me => OwnFile(c)'
    BY <1>1, <1>2, <2>5 DEF OwnFile
  <2> QED
    BY <1>1, <1>2, <2>2, <2>4, <2>5, <2>6, OwnStep
<1> QED
  BY <1>3, <1>4, <1>5, <1>6

LEMMA OwnEnd ==
  ASSUME VaultKinds, NEW c \in Process, Vault!Decrypt(c) \/ Vault!Replace(c) \/ Vault!Kill(c)
  PROVE  VaultKinds'
<1> PICK o : o = Vault!Me(c)
  OBVIOUS
<1>1. o \in ClientState /\ VaultData /\ (o.op = "set" => o.name \in SecretName)
      /\ (vaultFile # Vault!NoFile => vaultFile # tmpFile)
  BY DEF VaultKinds, VaultTyped, Vault!Me, OwnFile
<1>2. Vault!Leave(c) /\ UNCHANGED <<keyring, contents, uses>>
  BY DEF Vault!Decrypt, Vault!Replace, Vault!Kill, Vault!counters
<1>3. intended' \in Dictionary
  <2>1. intended' \in {intended, Vault!Changed(o, intended)} /\ intended \in Dictionary
    BY <1>1 DEF Vault!Decrypt, Vault!Replace, Vault!Kill, VaultData
  <2> QED
    BY <1>1, <2>1, ChangedType
<1>4. \/ vaultFile' = vaultFile /\ tmpFile' = tmpFile
      \/ vaultFile' = tmpFile /\ tmpFile' = Vault!NoFile
  BY DEF Vault!Decrypt, Vault!Replace, Vault!Kill
<1>5. VaultData'
  BY <1>1, <1>2, <1>3, <1>4 DEF VaultData
<1> QED
  BY <1>1, <1>2, <1>4, <1>5, OwnLeave

LEMMA VaultKindsInit == ASSUME Vault!Init PROVE VaultKinds
<1>1. VaultTyped
  BY InitAlone DEF VaultInv, Vault!Init
<1>2. uses = 0 /\ keyring = 0 /\ \A c \in Process : Vault!Me(c) = Vault!Out
  BY DEF Vault!Init, Vault!NoKey, Vault!Me
<1>3. \A c \in Process : OwnFile(c)
  BY <1>2 DEF OwnFile, Vault!Out
<1>4. vaultFile = Vault!NoFile
  BY DEF Vault!Init
<1> QED
  BY <1>1, <1>2, <1>3, <1>4, BoundAssumption DEF VaultKinds

LEMMA VaultKindsNext == ASSUME VaultKinds, Vault!Next PROVE VaultKinds'
<1>1. PICK c \in Process :
        \/ \E name \in SecretName : Vault!Set(c, name) \/ Vault!Remove(c, name)
        \/ Vault!ReadAll(c)
        \/ Vault!GetKey(c) \/ Vault!KeepKey(c) \/ Vault!Load(c) \/ Vault!Decrypt(c)
        \/ Vault!OpenTmp(c) \/ Vault!WriteTmp(c) \/ Vault!Replace(c) \/ Vault!Kill(c)
  BY DEF Vault!Next
<1>2. CASE \/ \E name \in SecretName : Vault!Set(c, name) \/ Vault!Remove(c, name)
           \/ Vault!ReadAll(c)
  BY <1>2, OwnUse DEF Vault!Set, Vault!Remove, Vault!ReadAll
<1> QED
  BY <1>1, <1>2, OwnKey, OwnFiles, OwnEnd

LEMMA VaultKindsMean == ASSUME VaultKinds PROVE Vault!TypeOK
<1>1. keyring \in 0..MaxUses
  BY BoundAssumption DEF VaultKinds, VaultTyped, VaultData
<1>2. \A f \in Vault!Files : DOMAIN contents[f].entries \subseteq SecretName
  BY DictionaryType DEF VaultKinds, VaultTyped, VaultData
<1>3. \A c \in Process : DOMAIN Vault!Me(c).entries \subseteq SecretName
  BY DictionaryType DEF VaultKinds, VaultTyped, ClientState, Vault!Me
<1>4. \A c \in Process : Vault!Me(c).step = "open" /\ tmpFile = Vault!NoFile => Vault!Unused # {}
  BY FileLeft DEF VaultKinds, OwnFile
<1> QED
  BY <1>1, <1>2, <1>3, <1>4 DEF Vault!TypeOK, VaultKinds, VaultTyped, VaultData

(* ---- the types of the lists ------------------------------------------------ *)

\* No time is later than the clock.
ListKinds ==
  /\ kind \in {"domains", "lan", "settings", "blocklist"}
  /\ (list.torn => list.there) /\ list.mtime <= listClock /\ asker.mtime <= listClock
  /\ profile \in SUBSET Item /\ wanted \in SUBSET Item

LEMMA ListKindsInit == ASSUME Lists!Init PROVE ListKinds
<1>1. kind \in Kinds /\ profile = list.items /\ wanted = list.items /\ listClock = 1 /\ asker.mtime = 0
  BY DEF Lists!Init
<1>2. /\ list.items \in SUBSET Item /\ ~list.torn /\ list.mtime \in {0, 1}
  BY DEF Lists!Init
<1> QED
  BY <1>1, <1>2, KindAssumption DEF ListKinds

LEMMA ListKindsEdit ==
  ASSUME ListInv, ListKinds, NEW e \in Process, Lists!Change(e) \/ Lists!Truncate(e) \/ Lists!Write(e) \/ Lists!Generate(e)
  PROVE  ListKinds'
<1>1. Lists!Ed(e) \in EditState /\ listClock \in Nat /\ UNCHANGED <<kind, listClock, asker>>
  BY DEF ListInv, EditInv, EditTyped, AskerInv, Lists!Ed, Lists!Change, Lists!Truncate, Lists!Write, Lists!Generate, Lists!Same
<1>2. Lists!Ed(e).todo \subseteq Item /\ Lists!Ed(e).items \subseteq Item
  BY <1>1 DEF EditState
<1>3. CASE Lists!Change(e)
  <2>1. UNCHANGED <<list, profile>>
    BY <1>3 DEF Lists!Change
  <2>2. \/ wanted' = wanted
        \/ \E i \in Lists!Ed(e).todo : wanted' = wanted \cup {i} \/ wanted' = wanted \ {i}
    BY <1>3 DEF Lists!Change
  <2>3. wanted' \in SUBSET Item
    BY <1>2, <2>2 DEF ListKinds
  <2> QED
    BY <1>1, <2>1, <2>3 DEF ListKinds
<1>4. CASE Lists!Truncate(e) \/ Lists!Write(e)
  <2>1. list'.there /\ list'.mtime = listClock /\ UNCHANGED <<profile, wanted>>
    BY <1>4 DEF Lists!Truncate, Lists!Write
  <2> QED
    BY <1>1, <2>1 DEF ListKinds
<1>5. CASE Lists!Generate(e)
  <2>1. UNCHANGED <<list, wanted>> /\ profile' = Lists!Ed(e).items
    BY <1>5 DEF Lists!Generate
  <2> QED
    BY <1>1, <1>2, <2>1 DEF ListKinds
<1> QED
  BY <1>3, <1>4, <1>5

LEMMA ListKindsAsk == ASSUME ListInv, ListKinds, Lists!Ask \/ Lists!Reload \/ Lists!Stat \/ Lists!Tick PROVE ListKinds'
<1>1. /\ asker \in Asker /\ list \in ListFile /\ listClock \in Nat
      /\ UNCHANGED <<kind, list, profile, wanted>>
  BY DEF ListInv, EditInv, EditTyped, AskerInv, Lists!Ask, Lists!Reload, Lists!Stat, Lists!Tick, Lists!Same
<1>2. asker'.mtime \in {asker.mtime, list.mtime} /\ (listClock' = listClock \/ (listClock' = listClock + 1 /\ asker' = asker))
  <2>1. CASE Lists!Ask
    BY <1>1, <2>1 DEF Lists!Ask, Lists!Same, Asker
  <2>2. CASE Lists!Reload
    BY <1>1, <2>2 DEF Lists!Reload, Lists!Same, Asker
  <2>3. CASE Lists!Stat
    BY <1>1, <2>3 DEF Lists!Stat, Lists!Same, Asker
  <2>4. CASE Lists!Tick
    BY <1>1, <2>4 DEF Lists!Tick
  <2> QED
    BY <2>1, <2>2, <2>3, <2>4
<1>3. asker.mtime \in Nat /\ list.mtime \in Nat
  BY <1>1 DEF Asker, ListFile
<1>4. asker'.mtime <= listClock' /\ list.mtime <= listClock'
  BY <1>1, <1>2, <1>3 DEF ListKinds
<1> QED
  BY <1>1, <1>4 DEF ListKinds

LEMMA ListKindsNext == ASSUME ListInv, ListKinds, Lists!Next PROVE ListKinds'
<1>1. ASSUME UNCHANGED <<kind, list, profile, wanted, asker, listClock>> PROVE ListKinds'
  BY <1>1 DEF ListKinds
<1>2. ASSUME NEW e \in Process,
             \/ \E i \in Item : Lists!Add(e, i) \/ Lists!Remove(e, i) \/ Lists!Shrink(e, i)
             \/ Lists!AddSeveral(e) \/ Lists!AutoSync(e) \/ Lists!Load(e) \/ Lists!Render(e) \/ Lists!Kill(e)
      PROVE  ListKinds'
  BY <1>1, <1>2 DEF Lists!Add, Lists!Remove, Lists!Shrink, Lists!AddSeveral, Lists!AutoSync, Lists!Edit,
     Lists!Load, Lists!Render, Lists!Kill, Lists!Same
<1> QED
  BY <1>2, ListKindsEdit, ListKindsAsk DEF Lists!Next

LEMMA ListKindsMean == ASSUME ListInv, ListKinds PROVE Lists!TypeOK
<1>1. /\ list \in ListFile /\ editor \in [Process -> EditState] /\ asker \in Asker /\ listClock \in Nat
  BY DEF ListInv, EditInv, EditTyped, AskerInv
<1>2. list.items \subseteq Item /\ list.mtime \in 0..listClock
  BY <1>1 DEF ListFile, ListKinds
<1>3. \A e \in Process : Lists!Ed(e).items \subseteq Item /\ Lists!Ed(e).todo \subseteq Item
  BY <1>1 DEF EditState, Lists!Ed
<1>4. asker.step \in {"rest", "read", "stat"} /\ asker.items \subseteq Item /\ asker.mtime \in 0..listClock
  BY <1>1 DEF Asker, ListKinds
<1> QED
  BY <1>2, <1>3, <1>4 DEF Lists!TypeOK, ListKinds

(* ---- the types of the approvals -------------------------------------------- *)

\* As many patterns as entries.
LEMMA PatternsOnce ==
  ASSUME NEW es, Listing(es)
  PROVE  /\ Approval!Cardinality(Approval!Patterns(es)) = Len(es)
         /\ \A e \in Approval!Range(es) : e.pattern \in Approval!Pattern /\ e.decision \in {"allow", "deny"}
<1> PICK n \in Nat : n = Len(es) /\ DOMAIN es = 1..n
  BY DEF Listing
<1> PICK P : P = Approval!Patterns(es)
  OBVIOUS
<1>1. P = {es[i].pattern : i \in 1..n}
  BY DEF Approval!Patterns, Approval!Range
<1> PICK f : f = [i \in 1..n |-> es[i].pattern]
  OBVIOUS
<1>2. f \in [1..n -> P] /\ \A i \in 1..n : f[i] = es[i].pattern
  BY <1>1
<1>3. \A i, j \in 1..n : f[i] = f[j] => i = j
  BY <1>2 DEF Listing, Once
<1>4. \A p \in P : \E i \in 1..n : f[i] = p
  BY <1>1, <1>2
<1>5. f \in Bijection(1..n, P)
  BY <1>2, <1>3, <1>4 DEF Bijection, Injection, Surjection, IsInjective
<1>6. Cardinality(P) = n
  BY <1>5, FS_CountingElements DEF ExistsBijection
<1>7. Approval!Cardinality(P) = Cardinality(P)
  BY Zenon DEF Approval!Cardinality, Cardinality
<1>8. \A e \in Approval!Range(es) : e \in ApprovalEntry
  BY DEF Approval!Range, Listing
<1> QED
  BY <1>6, <1>7, <1>8 DEF ApprovalEntry

LEMMA GrantMeans == ASSUME GrantInv PROVE Approval!TypeOK
<1>1. Listing(cache) /\ \A s \in Process : Approval!Started(s) => Listing(mine[s])
  BY DEF GrantInv, ApprovalTyped, Approval!Started
<1>2. \A s \in Process : asked[s] \in AskedCommand \cup {Approval!Nothing}
  BY DEF GrantInv, ApprovalTyped
<1> QED
  BY <1>1, <1>2, PatternsOnce DEF Approval!TypeOK

(* ---- the types of the rules file --------------------------------------------- *)

RuleKinds == (ruleFile.rules # <<>> => ruleFile.there) /\ DOMAIN switched \subseteq RuleNames

LEMMA RuleKindsInit == ASSUME Rules!Init PROVE RuleKinds
BY DEF Rules!Init, RuleKinds

LEMMA NamesTyped == ASSUME NEW rules \in Seq(FileRule) PROVE Rules!Names(rules) \subseteq RuleNames
<1>1. \A r \in Rules!Range(rules) : r \in FileRule
  BY DEF Rules!Range
<1> QED
  BY <1>1 DEF Rules!Names, FileRule

LEMMA RuleKindsNext ==
  ASSUME RuleInv, RuleKinds, Rules!Next \/ UNCHANGED ruleVars
  PROVE  RuleKinds'
<1>1. ASSUME UNCHANGED <<ruleFile, switched>> PROVE RuleKinds'
  BY <1>1 DEF RuleKinds
<1>2. ASSUME NEW a \in Process, Rules!SaveRules(a) PROVE RuleKinds'
  <2> PICK all \in Seq(FileRule) : all = admin[a].rules
    BY DEF RuleInv, RuleTyped
  <2>1. Rules!Names(Rules!Loaded(all)) \subseteq RuleNames
    BY LoadedTyped, NamesTyped
  <2>2. ruleFile'.there = TRUE
    BY <1>2 DEF Rules!SaveRules
  <2>3. \/ switched' = switched
        \/ /\ DOMAIN switched' = DOMAIN switched \cup {admin[a].name}
           /\ admin[a].name \in Rules!Names(Rules!Loaded(all))
    BY <1>2 DEF Rules!SaveRules
  <2> QED
    BY <2>1, <2>2, <2>3 DEF RuleKinds
<1>3. ASSUME NEW r \in Rules!UserRules, Rules!EditRule(r) PROVE RuleKinds'
  <2>1. ruleFile.there /\ ruleFile'.there = ruleFile.there
    BY <1>3 DEF Rules!EditRule, RuleInv, RuleTyped
  <2>2. DOMAIN switched' \subseteq DOMAIN switched
    BY <1>3 DEF Rules!EditRule
  <2> QED
    BY <2>1, <2>2 DEF RuleKinds
<1>4. \A a \in Process : \/ Rules!InitRules(a) \/ Rules!SyncDefaults(a)
                         \/ \E name \in {"mine"} \cup Rules!Names(Rules!DefaultRules), on \in BOOLEAN : Rules!Switch(a, name, on)
        => UNCHANGED <<ruleFile, switched>>
  BY DEF Rules!InitRules, Rules!SyncDefaults, Rules!Switch, Rules!Take
<1>5. UNCHANGED ruleVars => UNCHANGED <<ruleFile, switched>>
  BY DEF ruleVars
<1> QED
  BY <1>1, <1>2, <1>3, <1>4, <1>5 DEF Rules!Next

LEMMA RuleKindsMean == ASSUME RuleInv, RuleKinds PROVE Rules!TypeOK
<1>1. ruleFile.there \in BOOLEAN /\ ruleFile.rules \in Seq(FileRule)
  BY DEF RuleInv, RuleTyped
<1> QED
  BY <1>1, NamesTyped, DefaultsTyped DEF RuleKinds, Rules!TypeOK

(* ---- the types of the reports ------------------------------------------------- *)

\* What was covered and what is in a prompt is on the trail.
ReportKinds ==
  /\ covered \subseteq 1..Len(trail)
  /\ \A w \in Process : Report!Wk(w).read \subseteq 1..Len(trail)

LEMMA ReportKindsInit == ASSUME Report!Init PROVE ReportKinds
BY DEF Report!Init, ReportKinds, Report!Wk, Report!Resting

\* A step of one worker, on a trail that does not get shorter.
LEMMA ReportOne ==
  ASSUME ReportInv, ReportKinds, NEW w \in Process, NEW me, Report!Become(w, me),
         me.read \subseteq 1..Len(trail'),
         Len(trail') \in Nat, Len(trail) <= Len(trail'), covered' \subseteq 1..Len(trail')
  PROVE  ReportKinds'
<1>1. Report!Wk(w)' = me /\ \A v \in Process \ {w} : Report!Wk(v)' = Report!Wk(v)
  BY DEF ReportInv, ReportTyped, Report!Become, Report!Wk
<1>2. Len(trail) \in Nat /\ 1..Len(trail) \subseteq 1..Len(trail')
  BY DEF ReportInv, ReportTyped
<1>3. \A v \in Process : Report!Wk(v)'.read \subseteq 1..Len(trail')
  BY <1>1, <1>2 DEF ReportKinds
<1> QED
  BY <1>3 DEF ReportKinds

LEMMA ReportKindsNext ==
  ASSUME ReportInv, ReportKinds, Report!Next \/ UNCHANGED reportVars
  PROVE  ReportKinds'
<1>1. Len(trail) \in Nat /\ jobs \in Nat /\ lastReport \in Nat /\ trail \in Seq(Recorded)
  BY DEF ReportInv, ReportTyped
<1>2. ASSUME NEW w \in Process
      PROVE  Report!Wk(w) \in Job /\ Report!Wk(w).read \subseteq 1..Len(trail) /\ Report!Wk(w).id \in 0..jobs
  BY <1>1 DEF ReportInv, ReportTyped, Numbered, ReportKinds, Report!Wk, Job
<1>4. Report!Resting.read = {}
  BY DEF Report!Resting
<1>5. CASE UNCHANGED reportVars
  <2>1. UNCHANGED <<trail, worker, jobs, covered>>
    BY <1>5 DEF reportVars
  <2> QED
    BY <2>1 DEF ReportKinds, Report!Wk
<1>6. CASE Report!Event
  <2>1. Grows(Report!Entry(0, 0)) /\ UNCHANGED <<worker, jobs, covered>>
    BY <1>6 DEF Report!Event, Grows
  <2>2. Len(trail') = Len(trail) + 1
    BY <2>1, Grown DEF ReportInv
  <2>3. 1..Len(trail) \subseteq 1..Len(trail')
    BY <1>1, <2>2
  <2> QED
    BY <2>1, <2>3 DEF ReportKinds, Report!Wk
<1>7. ASSUME NEW w \in Process,
             \/ Report!AgentFails(w) \/ Report!Deliver(w) \/ Report!Die(w) \/ (Report!LogAction(w) /\ Report!End(w) /\ UNCHANGED trail)
      PROVE  ReportKinds'
  <2>1. Report!Become(w, Report!Resting) /\ UNCHANGED <<trail, jobs, covered>>
    BY <1>7 DEF Report!AgentFails, Report!Deliver, Report!Die, Report!LogAction, Report!End
  <2> QED
    BY <1>1, <1>4, <2>1, ReportOne DEF ReportKinds
<1>8. ASSUME NEW w \in Process, Report!Ask(w) \/ \E rule \in RuleName : Report!Investigate(w, rule)
      PROVE  ReportKinds'
  <2>1. PICK me : Report!Become(w, me) /\ (me.read = {} \/ me.read = (lastReport + 1)..Len(trail))
    <3>1. \A r : [Report!Resting EXCEPT !.step = "agent", !.id = jobs + 1, !.rule = r].read = {}
      BY DEF Report!Resting
    <3>2. [Report!Resting EXCEPT !.step = "agent", !.id = jobs + 1, !.read = (lastReport + 1)..Len(trail)].read
            = (lastReport + 1)..Len(trail)
      BY DEF Report!Resting
    <3> QED
      BY <1>8, <3>1, <3>2, Zenon DEF Report!Ask, Report!Investigate
  <2>2. UNCHANGED <<trail, covered>> /\ jobs' = jobs + 1
    BY <1>8 DEF Report!Ask, Report!Investigate
  <2>3. me.read \subseteq 1..Len(trail)
    BY <1>1, <2>1
  <2> QED
    BY <1>1, <2>1, <2>2, <2>3, ReportOne DEF ReportKinds
<1>9. ASSUME NEW w \in Process, Report!AgentAnswers(w) PROVE ReportKinds'
  <2>1. PICK me : Report!Become(w, me) /\ me.read = Report!Wk(w).read
    <3>1. /\ \A b : [Report!Wk(w) EXCEPT !.step = "report", !.todo = b].read = Report!Wk(w).read
          /\ [Report!Wk(w) EXCEPT !.step = "report"].read = Report!Wk(w).read
      BY <1>2 DEF Job
    <3> QED
      BY <1>9, <3>1, Zenon DEF Report!AgentAnswers
  <2>2. UNCHANGED <<trail, jobs>> /\ covered' \subseteq covered \cup Report!Wk(w).read
    BY <1>9 DEF Report!AgentAnswers
  <2>3. covered' \subseteq 1..Len(trail') /\ me.read \subseteq 1..Len(trail') /\ Len(trail') = Len(trail)
    BY <1>2, <2>1, <2>2 DEF ReportKinds
  <2> QED
    BY <1>1, <2>1, <2>3, ReportOne
<1>10. ASSUME NEW w \in Process, Report!WriteReport(w) PROVE ReportKinds'
  <2>1. Report!Become(w, [Report!Wk(w) EXCEPT !.step = "act"]) \/ Report!End(w)
    BY <1>10 DEF Report!WriteReport
  <2>2. PICK me : Report!Become(w, me) /\ (me.read = Report!Wk(w).read \/ me.read = {})
    <3>1. [Report!Wk(w) EXCEPT !.step = "act"].read = Report!Wk(w).read
      BY <1>2 DEF Job
    <3> QED
      BY <1>4, <2>1, <3>1, Zenon DEF Report!End
  <2>3. UNCHANGED <<trail, jobs, covered>>
    BY <1>10 DEF Report!WriteReport
  <2> QED
    BY <1>1, <1>2, <2>2, <2>3, ReportOne DEF ReportKinds
<1>11. ASSUME NEW w \in Process, Report!Refuse(w) \/ Report!Act(w) PROVE ReportKinds'
  <2>1. PICK me : Report!Become(w, me) /\ me.read = Report!Wk(w).read
    <3>1. /\ [Report!Wk(w) EXCEPT !.step = "log"].read = Report!Wk(w).read
          /\ [Report!Wk(w) EXCEPT !.todo = Tail(@)].read = Report!Wk(w).read
      BY <1>2 DEF Job
    <3> QED
      BY <1>11, <3>1, Zenon DEF Report!Refuse, Report!Act
  <2>2. UNCHANGED <<trail, jobs, covered>>
    BY <1>11 DEF Report!Refuse, Report!Act
  <2> QED
    BY <1>1, <1>2, <2>1, <2>2, ReportOne DEF ReportKinds
<1>12. ASSUME NEW w \in Process, Report!LogAction(w), ~(Report!End(w) /\ UNCHANGED trail) PROVE ReportKinds'
  <2> DEFINE me == [Report!Wk(w) EXCEPT !.step = "act", !.todo = Tail(@)]
             n == Len(Report!Wk(w).todo)
  <2>1. Grows(Report!Entry(Report!Wk(w).id, n)) /\ Report!Become(w, me) /\ UNCHANGED <<jobs, covered>>
    BY <1>12 DEF Report!LogAction, Grows
  <2>2. n \in Nat /\ Report!Wk(w).id \in Nat /\ me.read = Report!Wk(w).read
    BY <1>2 DEF Job
  <2> HIDE DEF me, n
  <2>3. Len(trail') = Len(trail) + 1
    BY <2>1, <2>2, Grown DEF ReportInv
  <2>4. 1..Len(trail) \subseteq 1..Len(trail') /\ Len(trail) <= Len(trail') /\ Len(trail') \in Nat
    BY <1>1, <2>3
  <2> QED
    BY <1>2, <2>1, <2>2, <2>4, ReportOne DEF ReportKinds
<1> QED
  BY <1>5, <1>6, <1>7, <1>8, <1>9, <1>10, <1>11, <1>12 DEF Report!Next

LEMMA ReportKindsMean == ASSUME ReportInv, ReportKinds PROVE Report!TypeOK
<1>1. lastReport \in 0..Len(trail)
  BY DEF ReportInv, ReportTyped
<1>2. \A w \in Process : Report!At(w, "rest") \/ Report!Wk(w).id \in 1..jobs
  BY DEF ReportInv, ReportTyped, Numbered, Report!Wk, Job
<1> QED
  BY <1>1, <1>2 DEF ReportKinds, Report!TypeOK

(* ---- the types of the patches -------------------------------------------------- *)

PatchSteps == {"idle", "status", "read", "truncate", "write", "invalidate"}

\* A text of a version that there is, without a patch that is both whole and edited.
TextKind(t, names) ==
  /\ t.version \in 0..MaxVersion
  /\ t.targets \subseteq names /\ t.has \subseteq names /\ t.edited \subseteq names
  /\ t.has \cap t.edited = {}

\* What is to be applied is not in the text, edited or not.
PatchKind(me, ps, names) ==
  /\ me.step \in PatchSteps /\ TextKind(me.content, names)
  /\ me.step \in {"truncate", "write"} /\ me.op = "apply" => ps[me.i].name \notin me.content.edited

PatchKinds ==
  /\ file \in PatchedFiles /\ latest \in 1..MaxVersion /\ bytecode \in {"none", "current", "old"}
  /\ TextKind(text, Patch!Names)
  /\ \A c \in Process : PatchKind(proc[c], Patch!Patches, Patch!Names)

LEMMA EmptyKind ==
  /\ \A names : TextKind(Patch!Empty, names)
  /\ \A ps, names : PatchKind(Patch!Rest, ps, names)
<1>1. \A names : TextKind(Patch!Empty, names)
  BY BoundAssumption DEF TextKind, Patch!Empty, Patch!Upstream
<1>2. Patch!Rest.content = Patch!Empty /\ Patch!Rest.step = "idle"
  BY DEF Patch!Rest
<1> QED
  BY <1>1, <1>2 DEF PatchKind, PatchSteps

LEMMA ReleasedKind ==
  ASSUME NEW v \in 1..MaxVersion, NEW t \in Patch!Released(v)
  PROVE  TextKind(t, Patch!Names)
<1>1. PICK ts \in SUBSET Patch!Names : t = [version |-> v, targets |-> ts, has |-> {}, edited |-> {}]
  BY DEF Patch!Released, Patch!Upstream
<1>2. v \in 0..MaxVersion
  OBVIOUS
<1> QED
  BY <1>1, <1>2 DEF TextKind

LEMMA PatchKindsInit == ASSUME Patch!Init PROVE PatchKinds
<1>1. text \in Patch!Released(1) /\ 1 \in 1..MaxVersion
  BY BoundAssumption DEF Patch!Init
<1>2. TextKind(text, Patch!Names)
  BY <1>1, ReleasedKind
<1>3. \A c \in Process : proc[c] = Patch!Rest
  BY DEF Patch!Init
<1> QED
  BY <1>1, <1>2, <1>3, EmptyKind DEF Patch!Init, PatchKinds

\* A step of one process, in the file followed.
LEMMA KindOne ==
  ASSUME PassInv, PatchKinds, NEW c \in Process, NEW me, Patch!Become(c, me),
         PatchKind(me, Patch!Patches, Patch!Names), TextKind(text', Patch!Names),
         UNCHANGED <<file, latest>>, bytecode' \in {"none", "current", "old"}
  PROVE  PatchKinds'
<1>1. \A d \in Process : proc'[d] = IF d = c THEN me ELSE proc[d]
  BY DEF PassInv, PatchTyped, Patch!Become
<1>2. Patch!Patches' = Patch!Patches /\ Patch!Names' = Patch!Names
  BY SamePatches
<1> QED
  BY <1>1, <1>2 DEF PatchKinds

LEMMA NextKind ==
  ASSUME NEW me, IsPatching(me), NEW ps, NEW names
  PROVE  PatchKind(Patch!NextPatch(me), ps, names)
<1>1. CASE Patch!Done(me)
  BY <1>1, EmptyKind DEF Patch!NextPatch
<1>2. CASE ~Patch!Done(me)
  <2> DEFINE new == [me EXCEPT !.step = "read", !.i = Patch!Following(me), !.content = Patch!Empty]
  <2>1. new.step = "read" /\ new.content = Patch!Empty
    BY DEF IsPatching
  <2> HIDE DEF new
  <2>2. PatchKind(new, ps, names)
    BY <2>1, EmptyKind DEF PatchKind, PatchSteps
  <2> QED
    BY <1>2, <2>2 DEF Patch!NextPatch, new
<1> QED
  BY <1>1, <1>2

LEMMA KindRead ==
  ASSUME PassInv, PatchKinds, NEW c \in Process, Patch!Read(c)
  PROVE  PatchKinds'
<1> DEFINE old == proc[c]
           plan == IF old.op = "apply" THEN Patch!ApplyPlan(text, Patch!This(c))
                   ELSE Patch!RevertPlan(text, Patch!This(c))
           me == [old EXCEPT !.step = plan, !.content = IF plan = "truncate" THEN text ELSE Patch!Empty]
<1>1. /\ IsPatching(old) /\ old.step = "read" /\ UNCHANGED <<file, text, latest, bytecode>>
      /\ Patch!Become(c, IF plan = "next" THEN Patch!NextPatch(old) ELSE me)
  BY DEF Patch!Read, PassInv, PatchTyped, Patch!Me
<1>2. plan \in {"next", "invalidate", "truncate"}
  BY DEF Patch!ApplyPlan, Patch!RevertPlan
<1>3. plan = "truncate" /\ old.op = "apply" => Patch!Patches[old.i].name \notin text.edited
  <2> SUFFICES ASSUME plan = "truncate", old.op = "apply" PROVE Patch!Patches[old.i].name \notin text.edited
    OBVIOUS
  <2>1. Patch!This(c) = Patch!Patches[old.i]
    BY DEF Patch!This, Patch!Me
  <2>2. ~Patch!HasSentinel(text, Patch!Patches[old.i])
    BY <2>1 DEF Patch!ApplyPlan, Patch!Status
  <2>3. file \in Patch!Files /\ old.i \in DOMAIN Patch!Patches
    BY <1>1 DEF PassInv, PassTyped, Patch!Working, Patch!Me
  <2>4. Patch!Patches[old.i].name \in Patch!Patches[old.i].sentinelIn
    BY <2>3, PatchesListed
  <2> QED
    BY <2>2, <2>4 DEF Patch!HasSentinel
<1> HIDE DEF plan
<1>4. ASSUME plan # "next" PROVE PatchKind(me, Patch!Patches, Patch!Names)
  <2>1. /\ me.step = plan /\ me.op = old.op /\ me.i = old.i
        /\ me.content = IF plan = "truncate" THEN text ELSE Patch!Empty
    BY <1>1 DEF IsPatching
  <2> HIDE DEF me
  <2>2. TextKind(me.content, Patch!Names)
    BY <2>1, EmptyKind DEF PatchKinds
  <2>3. me.step \in {"truncate", "write"} => me.step = "truncate" /\ me.content = text
    BY <1>2, <1>4, <2>1
  <2> QED
    BY <1>2, <1>3, <1>4, <2>1, <2>2, <2>3 DEF PatchKind, PatchSteps
<1>5. PatchKind(IF plan = "next" THEN Patch!NextPatch(old) ELSE me, Patch!Patches, Patch!Names)
  BY <1>1, <1>4, NextKind
<1>6. TextKind(text', Patch!Names) /\ bytecode' \in {"none", "current", "old"}
  BY <1>1 DEF PatchKinds
<1> HIDE DEF me
<1> QED
  BY <1>1, <1>5, <1>6, KindOne

LEMMA KindRewrite ==
  ASSUME PassInv, PatchKinds, NEW c \in Process, Patch!Truncate(c) \/ Patch!Write(c)
  PROVE  PatchKinds'
<1> DEFINE old == proc[c]
<1>1. /\ IsPatching(old) /\ UNCHANGED <<file, latest>> /\ old.step \in {"truncate", "write"}
      /\ PatchKind(old, Patch!Patches, Patch!Names)
  BY DEF Patch!Truncate, Patch!Write, PassInv, PatchTyped, PatchKinds, Patch!Me
<1>2. bytecode' \in {"none", "current", "old"}
  BY DEF Patch!Truncate, Patch!Write, Patch!Rewrite
<1>3. CASE Patch!Truncate(c)
  <2> DEFINE me == [old EXCEPT !.step = "write"]
  <2>1. text' = Patch!Empty /\ Patch!Become(c, me)
    BY <1>3 DEF Patch!Truncate, Patch!Rewrite, Patch!Me
  <2>2. me.step = "write" /\ me.content = old.content /\ me.op = old.op /\ me.i = old.i
    BY <1>1 DEF IsPatching
  <2> HIDE DEF me
  <2>3. PatchKind(me, Patch!Patches, Patch!Names)
    BY <1>1, <2>2 DEF PatchKind, PatchSteps
  <2> QED
    BY <1>1, <1>2, <2>1, <2>3, EmptyKind, KindOne
<1>4. CASE Patch!Write(c)
  <2> DEFINE me == [old EXCEPT !.step = "invalidate", !.content = Patch!Empty]
             new == IF old.op = "apply" THEN Patch!Applied(old.content, Patch!This(c))
                    ELSE Patch!Reverted(old.content, Patch!This(c))
  <2>1. text' = new /\ Patch!Become(c, me)
    BY <1>4 DEF Patch!Write, Patch!Rewrite, Patch!Me
  <2>2. me.step = "invalidate" /\ me.content = Patch!Empty
    BY <1>1 DEF IsPatching
  <2> PICK name : name = Patch!Patches[old.i].name
    OBVIOUS
  <2>3. name \in Patch!Names /\ Patch!This(c).name = name
    BY <1>1 DEF PassInv, PassTyped, Patch!Working, Patch!Me, Patch!This, Patch!Names
  <2>4. /\ new.version = old.content.version /\ new.targets = old.content.targets /\ new.edited = old.content.edited
        /\ new.has = IF old.op = "apply" THEN old.content.has \cup {name} ELSE old.content.has \ {name}
    BY <1>1, <2>3 DEF Patch!Applied, Patch!Reverted, IsPatching, IsText
  <2> HIDE DEF me, new
  <2>5. TextKind(old.content, Patch!Names) /\ (old.op = "apply" => name \notin old.content.edited)
    BY <1>1 DEF PatchKind
  <2>6. TextKind(new, Patch!Names)
    BY <2>3, <2>4, <2>5 DEF TextKind
  <2>7. PatchKind(me, Patch!Patches, Patch!Names)
    BY <2>2, EmptyKind DEF PatchKind, PatchSteps
  <2> QED
    BY <1>1, <1>2, <2>1, <2>6, <2>7, KindOne
<1> QED
  BY <1>3, <1>4

LEMMA KindOthers ==
  ASSUME PassInv, PatchKinds, NEW c \in Process, Patch!ReadStatus(c) \/ Patch!Invalidate(c) \/ Patch!CrashPatching(c)
  PROVE  PatchKinds'
<1> DEFINE old == proc[c]
<1>1. /\ IsPatching(old) /\ UNCHANGED <<file, text, latest>> /\ PatchKind(old, Patch!Patches, Patch!Names)
      /\ bytecode' \in {bytecode, "none"}
  BY DEF Patch!ReadStatus, Patch!Invalidate, Patch!CrashPatching, PassInv, PatchTyped, PatchKinds
<1>2. TextKind(text', Patch!Names) /\ bytecode' \in {"none", "current", "old"}
  BY <1>1 DEF PatchKinds
<1>3. ASSUME NEW me, PatchKind(me, Patch!Patches, Patch!Names), Patch!Become(c, me) PROVE PatchKinds'
  BY <1>1, <1>2, <1>3, KindOne
<1>4. CASE Patch!ReadStatus(c)
  <2> DEFINE missing == old.missing \/ Patch!Status(text, Patch!This(c)) = "skipped"
             me1 == [old EXCEPT !.i = @ + 1, !.missing = missing]
             me2 == [old EXCEPT !.step = "read", !.op = "apply", !.i = 1, !.missing = FALSE]
  <2>1. Patch!Become(c, me1) \/ Patch!Become(c, me2) \/ Patch!Become(c, Patch!Rest)
    BY <1>4 DEF Patch!ReadStatus, Patch!Me
  <2>2. /\ me1.step = "status" /\ me1.content = old.content
        /\ me2.step = "read" /\ me2.content = old.content
    BY <1>1, <1>4 DEF IsPatching, Patch!ReadStatus, Patch!Me
  <2> HIDE DEF me1, me2
  <2>3. PatchKind(me1, Patch!Patches, Patch!Names) /\ PatchKind(me2, Patch!Patches, Patch!Names)
    BY <1>1, <2>2 DEF PatchKind, PatchSteps
  <2> QED
    BY <1>3, <2>1, <2>3, EmptyKind
<1>5. CASE Patch!Invalidate(c)
  BY <1>1, <1>3, <1>5, NextKind DEF Patch!Invalidate, Patch!Me
<1>6. CASE Patch!CrashPatching(c)
  BY <1>3, <1>6, EmptyKind DEF Patch!CrashPatching
<1> QED
  BY <1>4, <1>5, <1>6

LEMMA KindCommand ==
  ASSUME PassInv, PatchKinds, NEW c \in Process, NEW op, NEW first \in {"read", "status"}, NEW i,
         Patch!Command(c, op, first, i)
  PROVE  PatchKinds'
<1>1. PICK alone \in BOOLEAN :
        proc' = [d \in Process |->
          IF d = c THEN [Patch!Rest EXCEPT !.step = first, !.op = op, !.i = i, !.alone = alone]
          ELSE IF Patch!Working(d) THEN [proc[d] EXCEPT !.alone = FALSE] ELSE proc[d]]
  BY DEF Patch!Command
<1>2. UNCHANGED <<file, text, latest, bytecode>>
  BY DEF Patch!Command
<1> DEFINE me == [Patch!Rest EXCEPT !.step = first, !.op = op, !.i = i, !.alone = alone]
<1>3. me.step = first /\ me.content = Patch!Empty
  BY DEF Patch!Rest
<1>4. proc'[c] = me
  BY <1>1
<1> HIDE DEF me
<1>5. PatchKind(me, Patch!Patches, Patch!Names)
  BY <1>3, EmptyKind DEF PatchKind, PatchSteps
<1>6. ASSUME NEW d \in Process \ {c} PROVE PatchKind(proc'[d], Patch!Patches, Patch!Names)
  <2>1. /\ IsPatching(proc[d]) /\ proc'[d] \in {proc[d], [proc[d] EXCEPT !.alone = FALSE]}
        /\ PatchKind(proc[d], Patch!Patches, Patch!Names)
    BY <1>1 DEF PassInv, PatchTyped, PatchKinds
  <2>2. /\ proc'[d].step = proc[d].step /\ proc'[d].content = proc[d].content
        /\ proc'[d].op = proc[d].op /\ proc'[d].i = proc[d].i
    BY <2>1 DEF IsPatching
  <2> QED
    BY <2>1, <2>2 DEF PatchKind
<1>7. Patch!Patches' = Patch!Patches /\ Patch!Names' = Patch!Names
  BY <1>2, SamePatches
<1> QED
  BY <1>2, <1>4, <1>5, <1>6, <1>7 DEF PatchKinds

LEMMA KindUpdate ==
  ASSUME PassInv, PatchKinds, Patch!HermesUpdate
  PROVE  PatchKinds'
<1>1. /\ latest' = latest + 1 /\ latest < MaxVersion /\ text' \in Patch!Released(latest + 1) /\ UNCHANGED file
      /\ bytecode' = "none"
      /\ proc' = [c \in Process |-> [proc[c] EXCEPT !.alone = @ /\ ~Patch!Working(c)]]
  BY DEF Patch!HermesUpdate
<1>2. latest + 1 \in 1..MaxVersion
  BY <1>1, BoundAssumption DEF PatchKinds
<1>3. TextKind(text', Patch!Names)
  BY <1>1, <1>2, ReleasedKind
<1>4. ASSUME NEW d \in Process PROVE PatchKind(proc'[d], Patch!Patches, Patch!Names)
  <2>1. /\ IsPatching(proc[d]) /\ proc'[d] = [proc[d] EXCEPT !.alone = @ /\ ~Patch!Working(d)]
        /\ PatchKind(proc[d], Patch!Patches, Patch!Names)
    BY <1>1 DEF PassInv, PatchTyped, PatchKinds
  <2>2. /\ proc'[d].step = proc[d].step /\ proc'[d].content = proc[d].content
        /\ proc'[d].op = proc[d].op /\ proc'[d].i = proc[d].i
    BY <2>1 DEF IsPatching
  <2> QED
    BY <2>1, <2>2 DEF PatchKind
<1>5. Patch!Patches' = Patch!Patches /\ Patch!Names' = Patch!Names
  BY <1>1, SamePatches
<1> QED
  BY <1>1, <1>2, <1>3, <1>4, <1>5 DEF PatchKinds

LEMMA KindEdit ==
  ASSUME PassInv, PatchKinds, Patch!Edit
  PROVE  PatchKinds'
<1>1. PICK n \in text.has : text' = [text EXCEPT !.has = @ \ {n}, !.edited = @ \cup {n}]
  BY DEF Patch!Edit
<1>2. UNCHANGED <<file, latest, proc>> /\ bytecode' = "none"
  BY DEF Patch!Edit
<1>3. /\ text'.version = text.version /\ text'.targets = text.targets
      /\ text'.has = text.has \ {n} /\ text'.edited = text.edited \cup {n}
  BY <1>1 DEF PassInv, PatchTyped, IsText
<1>4. TextKind(text, Patch!Names)
  BY DEF PatchKinds
<1>5. TextKind(text', Patch!Names)
  BY <1>3, <1>4 DEF TextKind
<1>6. Patch!Patches' = Patch!Patches /\ Patch!Names' = Patch!Names
  BY <1>2, SamePatches
<1> QED
  BY <1>2, <1>5, <1>6 DEF PatchKinds

LEMMA PatchKindsNext ==
  ASSUME PassInv, PatchKinds, Patch!Next \/ UNCHANGED patchVars
  PROVE  PatchKinds'
<1>1. ASSUME NEW c \in Process, Patch!Install(c) \/ Patch!Update(c) \/ Patch!Run(c) \/ Patch!Uninstall(c) PROVE PatchKinds'
  BY <1>1, KindCommand DEF Patch!Install, Patch!Update, Patch!Run, Patch!Uninstall
<1>2. CASE Patch!Import \/ UNCHANGED patchVars
  <2>1. UNCHANGED <<file, text, latest, proc>> /\ bytecode' \in {bytecode, "current"}
    BY <1>2 DEF Patch!Import, patchVars
  <2>2. Patch!Patches' = Patch!Patches /\ Patch!Names' = Patch!Names
    BY <2>1, SamePatches
  <2> QED
    BY <2>1, <2>2 DEF PatchKinds
<1> QED
  BY <1>1, <1>2, KindRead, KindRewrite, KindOthers, KindUpdate, KindEdit DEF Patch!Next

LEMMA PatchKindsMean == ASSUME PassInv, PatchKinds PROVE Patch!TypeOK
<1>1. \A t \in {text} \cup {proc[c].content : c \in Process} : TextKind(t, Patch!Names)
  BY DEF PatchKinds, PatchKind
<1>2. \A c \in Process : /\ proc[c].step \in {"idle", "status", "read", "truncate", "write", "invalidate"}
                         /\ Patch!Working(c) => proc[c].i \in DOMAIN Patch!Patches
  BY DEF PatchKinds, PatchKind, PatchSteps, PassInv, PassTyped, Patch!Me
<1> QED
  BY <1>1, <1>2 DEF PatchKinds, TextKind, Patch!TypeOK
=============================================================================
