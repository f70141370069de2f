------------------------------ MODULE RuleFile ------------------------------
(***************************************************************************)
(* reactive-agents.json: how rules are validated, loaded and saved         *)
(* (reactive/rules.py), and the commands reactive init, sync-defaults,     *)
(* enable and disable, each of which reads the file and writes it in a     *)
(* second step. A session loads the rules when it starts.                  *)
(*                                                                         *)
(* Of a rule in the file only what validation and saving tell apart is     *)
(* kept: a user may write anything into it.                                *)
(***************************************************************************)
EXTENDS Sublists, Functions

CONSTANTS
  Admin,                         \* processes that run a command on the file
  MaxRuleCommands, MaxRuleEdits  \* bounds

VARIABLES
  ruleFile,   \* [there, rules], rules a sequence of records as in the JSON
  admin,      \* [Admin -> the command at work and what it has loaded]
  ruleCommands, ruleEdits,  \* bounds
  switched,   \* history: [names of valid rules -> the last enable or disable of it]
  entangled   \* history: a command overlapped another, or an edit

ruleVars == <<ruleFile, admin, ruleCommands, ruleEdits, switched, entangled>>

-----------------------------------------------------------------------------
\* default_rules(): one that notifies, and one with a sequence and actions.
Alert == [name |-> "block-alert", enabled |-> TRUE, type |-> "notify", critical |-> FALSE,
          actions |-> {}, filter |-> TRUE, sequence |-> "none", cooldown |-> "2m", template |-> TRUE]
Response == [name |-> "exfiltration-sequence", enabled |-> TRUE, type |-> "investigate",
             critical |-> TRUE, actions |-> {"lock_vault"}, filter |-> FALSE,
             sequence |-> "steps", cooldown |-> "30m", template |-> FALSE]
DefaultRules == <<Alert, Response>>

\* Rules a user may write: a valid one, one without a filter, one with actions
\* that is not critical, and a default of which the cooldown is misspelt.
UserRules ==
  { [Alert EXCEPT !.name = "mine"],
    [Alert EXCEPT !.name = "mine", !.filter = FALSE],
    [Response EXCEPT !.critical = FALSE],
    [Alert EXCEPT !.cooldown = "2 minutes"] }

\* _validate_rule: no warnings.
Valid(rule) ==
  /\ rule.type \in {"investigate", "notify"}
  /\ rule.actions # {} => rule.critical
  /\ rule.cooldown # "2 minutes"
  /\ rule.sequence # "no steps"
  /\ rule.sequence = "none" => rule.filter

\* Faulty variant: the sequence is not deserialized.
LoadedPlain(rules) ==
  LET plain(r) == [r EXCEPT !.sequence = "none"]
      valid == Kept(rules, Valid)
  IN [i \in DOMAIN valid |-> plain(valid[i])]

\* load_rules: invalid rules are skipped.
Loaded(rules) == Kept(rules, Valid)

\* save_rules: what belongs to the other type of rule is not written.
Saved(rules) ==
  [i \in DOMAIN rules |->
     IF rules[i].type = "investigate" THEN [rules[i] EXCEPT !.template = FALSE]
     ELSE [rules[i] EXCEPT !.actions = {}]]

Names(rules) == {r.name : r \in Range(rules)}

\* Faulty variant: a default that is disabled counts as missing.
MissingAgain(rules) ==
  Kept(DefaultRules, LAMBDA r : \A own \in Range(rules) : own.name = r.name => ~own.enabled)

Missing(rules) == Kept(DefaultRules, LAMBDA r : r.name \notin Names(rules))

Free == [op |-> "none", name |-> "none", rules |-> <<>>]
NobodyAt == \A a \in Admin : admin[a] = Free

Init ==
  /\ ruleFile = [there |-> FALSE, rules |-> <<>>]
  /\ admin = [a \in Admin |-> Free]
  /\ ruleCommands = 0 /\ ruleEdits = 0
  /\ switched = [n \in {} |-> TRUE]
  /\ entangled = FALSE

(* ---- commands ---------------------------------------------------------------- *)

Take(a, op, name, rules) ==
  /\ admin[a] = Free /\ ruleCommands < MaxRuleCommands
  /\ ruleCommands' = ruleCommands + 1
  /\ entangled' = (entangled \/ ~NobodyAt)
  /\ admin' = [admin EXCEPT ![a] = [op |-> op, name |-> name, rules |-> rules]]
  /\ UNCHANGED <<ruleFile, ruleEdits, switched>>

\* An existing file is left alone.
InitRules(a) == ~ruleFile.there /\ Take(a, "init", "none", DefaultRules)

\* Without anything missing nothing is saved; the user may be asked in between.
SyncDefaults(a) ==
  LET existing == Loaded(ruleFile.rules)
  IN /\ ruleFile.there /\ Missing(existing) # <<>>
     /\ Take(a, "sync", "none", existing \o Missing(existing))

\* enable and disable work on the JSON, valid or not: the first rule of the name.
Switch(a, name, on) ==
  /\ ruleFile.there /\ name \in Names(ruleFile.rules)
  /\ LET i == CHOOSE k \in DOMAIN ruleFile.rules :
                ruleFile.rules[k].name = name
                /\ \A j \in 1..(k - 1) : ruleFile.rules[j].name # name
     IN Take(a, IF on THEN "enable" ELSE "disable", name, [ruleFile.rules EXCEPT ![i].enabled = on])

SaveRules(a) ==
  LET op == admin[a].op
  IN /\ admin[a] # Free
     /\ ruleFile' = [there |-> TRUE, rules |-> IF op \in {"init", "sync"} THEN Saved(admin[a].rules)
                                               ELSE admin[a].rules]
     /\ switched' = IF op \in {"enable", "disable"} /\ admin[a].name \in Names(Loaded(admin[a].rules))
                    THEN [n \in DOMAIN switched \cup {admin[a].name} |->
                            IF n = admin[a].name THEN op = "enable" ELSE switched[n]]
                    ELSE switched
     /\ admin' = [admin EXCEPT ![a] = Free]
     /\ UNCHANGED <<ruleCommands, ruleEdits, entangled>>

\* The user writes a rule into the file, in place of one of its name, or after
\* the others.
EditRule(rule) ==
  /\ ruleFile.there /\ ruleEdits < MaxRuleEdits
  /\ ruleEdits' = ruleEdits + 1
  /\ ruleFile' = [ruleFile EXCEPT !.rules =
                    IF rule.name \in Names(@)
                    THEN [i \in DOMAIN @ |-> IF @[i].name = rule.name THEN rule ELSE @[i]]
                    ELSE Append(@, rule)]
  /\ switched' = [n \in DOMAIN switched \ {rule.name} |-> switched[n]]
  /\ entangled' = (entangled \/ ~NobodyAt)
  /\ UNCHANGED <<admin, ruleCommands>>

-----------------------------------------------------------------------------
Next ==
  \/ \E a \in Admin :
       \/ InitRules(a) \/ SyncDefaults(a) \/ SaveRules(a)
       \/ \E name \in {"mine"} \cup Names(DefaultRules), on \in BOOLEAN : Switch(a, name, on)
  \/ \E rule \in UserRules : EditRule(rule)

Spec == Init /\ [][Next]_ruleVars

-----------------------------------------------------------------------------
TypeOK ==
  /\ ruleFile.there \in BOOLEAN /\ Names(ruleFile.rules) \subseteq {"mine"} \cup Names(DefaultRules)
  /\ ruleFile.rules # <<>> => ruleFile.there
  /\ DOMAIN switched \subseteq {"mine"} \cup Names(DefaultRules)

\* A valid rule that was enabled or disabled stays so through every later
\* command, as long as commands do not overlap. (One that is invalid and has the
\* name of a default comes back enabled with sync-defaults.)
SwitchesHold ==
  ~entangled =>
    \A r \in Range(Loaded(ruleFile.rules)) : r.name \in DOMAIN switched => r.enabled = switched[r.name]

\* What a session runs after a command on its own is what it would have run
\* before, with the rule switched or the missing defaults after the others: what
\* is saved is loaded again as it was.
RulesSurvive ==
  \A a \in Admin :
    (SaveRules(a) /\ admin[a].op = "sync" /\ ~entangled) =>
       LET before == Loaded(ruleFile.rules)
       IN Loaded(ruleFile'.rules) = before \o Missing(before)
=============================================================================
