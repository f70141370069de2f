----------------------------- MODULE AegisHomeMC -----------------------------
(***************************************************************************)
(* The parts of hermes-aegis that share nothing but the home directory,    *)
(* checked in one run: the vault, the credentials the commands move about, *)
(* the lists, the approvals, the rules file, the patches in the source of  *)
(* hermes-agent, a call of a tool, the reports, and the matcher of         *)
(* sequences. The part at work is chosen at the start; the others rest in  *)
(* an initial state.                                                       *)
(***************************************************************************)
EXTENDS Integers, Sequences, FiniteSets, TLC

CONSTANTS
  Parts,                                        \* the parts to check
  Process,                                      \* hermes-aegis processes
  SecretName, MaxUses, MaxKills,                \* VaultStore
  MaxShellCommands, MaxOutside,                 \* Credentials
  Item, Kinds, MaxListEdits, MaxListClock, MaxListKills,    \* SharedLists
  AskedCommand, Phrase, TTL, MaxAskTime, MaxAsks,    \* Approvals
  MaxRuleCommands, MaxRuleEdits,                \* RuleFile
  PatchedFiles, MaxLacking, MaxPatchCommands, MaxVersion, MaxEdits, MaxPatchCrashes, \* Patches
  Length, MarkLength, Finders, MaxSecrets,               \* ToolCall
  RuleName, MaxJobs, MaxEvents,                 \* Reports
  EntryKinds, MaxSteps, MaxLength, MaxTs, Windows           \* SequenceTriggerMC

VARIABLES
  part,
  keyring, vaultFile, tmpFile, contents, client, uses, kills, intended, met,
  vault, vaultLock, envFile, pool, shell, shellCommands, outside, given, shared,
  kind, list, profile, editor, asker, listClock, listEdits, listKills, wanted, crossed, raced,
  cache, mine, asked, revising, askClock, asks, granted, overtaken,
  ruleFile, admin, ruleCommands, ruleEdits, switched, entangled,
  file, text, bytecode, latest, proc, patchCommands, edits, patchCrashes,
  call, step, at, result, entries, ran,
  trail, lastReport, worker, jobs, effects, covered,
  steps, window, matchLog

\* create_default_chain(), two that add the other middlewares, and the hooks of
\* the plugin in either order.
Chains == {<<"blocker", "scanner", "tirith">>, <<"audit", "blocker", "scanner", "redaction">>,
           <<"hook", "transform">>, <<"transform", "hook">>}

\* A command that stands within another, and a pattern that only the other fits.
SomeCommands == {<<"ls">>, <<"ls", "-l">>}
SomePhrases == {<<"ls">>, <<"*", "-l">>}

Vault       == INSTANCE VaultStore WITH Client <- Process
Credentials == INSTANCE Credentials WITH Shell <- Process
Lists       == INSTANCE SharedLists WITH Editor <- Process
Approval    == INSTANCE Approvals WITH Session <- Process, Command <- AskedCommand
Rules       == INSTANCE RuleFile WITH Admin <- Process
Patch       == INSTANCE Patches
Call        == INSTANCE ToolCall
Report      == INSTANCE Reports WITH Worker <- Process
Matcher     == INSTANCE SequenceTriggerMC WITH Kinds <- EntryKinds, entries <- matchLog

\* Bounds are numbers, and there are finitely many processes.
ASSUME BoundAssumption ==
  IsFiniteSet(Process) /\ MaxUses \in Nat /\ MaxVersion \in Nat \ {0}

\* These are the files that are edited so.
ASSUME KindAssumption == Kinds \subseteq {"domains", "lan", "settings", "blocklist"}

\* No rule is called as the reports of a digest are.
ASSUME RuleAssumption == Report!Digest \notin RuleName

\* A duration is a number, and a command has words.
ASSUME AskAssumption == TTL \subseteq Int /\ <<>> \notin AskedCommand

\* Timestamps and windows are numbers.
ASSUME MatchAssumption == {MaxSteps, MaxTs} \subseteq Nat /\ Windows \subseteq Int

\* Texts and placeholders have a length, and patterns and values a number.
ASSUME TextAssumption == {Length, MarkLength, Finders} \subseteq Nat

\* The files followed are files that have patches.
ASSUME FileAssumption == PatchedFiles \subseteq Patch!Files

vaultVars == <<keyring, vaultFile, tmpFile, contents, client, uses, kills, intended, met>>
credVars == <<vault, vaultLock, envFile, pool, shell, shellCommands, outside, given, shared>>
listVars == <<kind, list, profile, editor, asker, listClock, listEdits, listKills, wanted, crossed, raced>>
approvalVars == <<cache, mine, asked, revising, askClock, asks, granted, overtaken>>
ruleVars == <<ruleFile, admin, ruleCommands, ruleEdits, switched, entangled>>
patchVars == <<file, text, bytecode, latest, proc, patchCommands, edits, patchCrashes>>
callVars == <<call, step, at, result, entries, ran>>
reportVars == <<trail, lastReport, worker, jobs, effects, covered>>
matchVars == <<steps, window, matchLog>>
homeVars == <<part, vaultVars, credVars, listVars, approvalVars, ruleVars, patchVars, callVars, reportVars, matchVars>>

-----------------------------------------------------------------------------
At(p) == part = p

\* The parts with several initial states rest in one of them.
Init ==
  /\ part \in Parts
  /\ Vault!Init /\ Approval!Init /\ Rules!Init /\ Report!Init
  /\ Credentials!Init
  /\ At("credentials") \/ (~envFile.exists /\ pool = {})
  /\ Lists!Init
  /\ At("lists") \/ (kind = "domains" /\ ~list.there)
  /\ Patch!Init
  /\ At("patches") \/ (file = "local.py" /\ text = CHOOSE t \in Patch!Released(1) : TRUE)
  /\ Matcher!Init
  /\ At("matcher") \/ (steps = <<>> /\ \A w \in Windows : window <= w)
  /\ IF At("call") THEN Call!Init
     ELSE call = [chain |-> <<>>] /\ step = "pre" /\ at = 1 /\ result = <<>> /\ entries = <<>> /\ ran = FALSE

Next ==
  \/ /\ At("vault") /\ Vault!Next
     /\ UNCHANGED <<part, credVars, listVars, approvalVars, ruleVars, patchVars, callVars, reportVars, matchVars>>
  \/ /\ At("credentials") /\ Credentials!Next
     /\ UNCHANGED <<part, vaultVars, listVars, approvalVars, ruleVars, patchVars, callVars, reportVars, matchVars>>
  \/ /\ At("lists") /\ Lists!Next
     /\ UNCHANGED <<part, vaultVars, credVars, approvalVars, ruleVars, patchVars, callVars, reportVars, matchVars>>
  \/ /\ At("approvals") /\ Approval!Next
     /\ UNCHANGED <<part, vaultVars, credVars, listVars, ruleVars, patchVars, callVars, reportVars, matchVars>>
  \/ /\ At("rules") /\ Rules!Next
     /\ UNCHANGED <<part, vaultVars, credVars, listVars, approvalVars, patchVars, callVars, reportVars, matchVars>>
  \/ /\ At("patches") /\ Patch!Next
     /\ UNCHANGED <<part, vaultVars, credVars, listVars, approvalVars, ruleVars, callVars, reportVars, matchVars>>
  \/ /\ At("call") /\ Call!Next
     /\ UNCHANGED <<part, vaultVars, credVars, listVars, approvalVars, ruleVars, patchVars, reportVars, matchVars>>
  \/ /\ At("reports") /\ Report!Next
     /\ UNCHANGED <<part, vaultVars, credVars, listVars, approvalVars, ruleVars, patchVars, callVars, matchVars>>
  \/ /\ At("matcher") /\ Matcher!Log
     /\ UNCHANGED <<part, vaultVars, credVars, listVars, approvalVars, ruleVars, patchVars, callVars, reportVars>>

Spec == Init /\ [][Next]_homeVars

Symmetry == Permutations(Process)

-----------------------------------------------------------------------------
TypeOK ==
  /\ At("vault") => Vault!TypeOK
  /\ At("credentials") => Credentials!TypeOK
  /\ At("lists") => Lists!TypeOK
  /\ At("approvals") => Approval!TypeOK
  /\ At("rules") => Rules!TypeOK
  /\ At("patches") => Patch!TypeOK
  /\ At("call") => Call!TypeOK
  /\ At("reports") => Report!TypeOK

\* Of the vault: commands in turn, killed ones among them, neither lose nor
\* revive a secret, nor leave one the keyring cannot decrypt.
SecretsKept == At("vault") => Vault!SecretsKept

\* Of the commands on credentials: a key the user gave stays in the vault or in
\* .env, whatever is imported, merged, deleted and healed afterwards.
KeysKept == At("credentials") => Credentials!KeysKept

\* A doctor leaves nothing that the next one would report as an error.
DoctorHeals == [][At("credentials") => Credentials!DoctorHeals]_homeVars

\* A merge writes the keys of the vault once and leaves the lines of others alone.
MergeRight == [][At("credentials") => Credentials!MergeRight]_homeVars

\* Of the lists: edits in turn are all in the file, and in the sandbox profile.
EditsKept == At("lists") => Lists!EditsKept

\* The proxy takes no copy to be current that is not.
ProxyCurrent == At("lists") => Lists!ProxyCurrent

\* Of the approvals: a cached leave lasts no longer than one that was given.
CachedWithinGrant == [][At("approvals") => Approval!CachedWithinGrant]_homeVars

\* Of the rules file: a rule that was switched stays so.
SwitchesHold == At("rules") => Rules!SwitchesHold

\* What is saved is loaded again as it was, with the missing defaults.
RulesSurvive == [][At("rules") => Rules!RulesSurvive]_homeVars

\* Of the patches: without a crash hermes-agent keeps its source.
SourceIntact == At("patches") => Patch!SourceIntact

\* A pass that nobody disturbs does all there is to do.
AlonePassCompletes == [][At("patches") => Patch!AlonePassCompletes]_homeVars

\* Of a call: what the blocker or the plugin stops never reaches the tool.
BlockedNeverRuns == At("call") => Call!BlockedNeverRuns

\* The caller gets the result without its secrets, and else as it was.
RedactedExactly == At("call") => Call!RedactedExactly

\* No character of a secret is left, although a place may be cut twice.
SecretsGone == At("call") => Call!SecretsGone

\* Of the reports: an investigation that cannot record what it did does no more.
ActionsOnRecord == At("reports") => Report!ActionsOnRecord

\* A digest that fails leaves its entries to the next.
EntriesDigested == At("reports") => Report!EntriesDigested

\* Of the matcher: it finds the earliest occurrence, and only occurrences.
FindsEarliest == At("matcher") => Matcher!FindsEarliest
=============================================================================
