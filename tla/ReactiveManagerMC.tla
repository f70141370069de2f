-------------------------- MODULE ReactiveManagerMC --------------------------
(* Rules for TLC, after the examples of reactive/templates.py and the docs.  *)
EXTENDS ReactiveManager

Base == [type |-> "notify", cooldown |-> 0, on |-> {}, count |-> 0, window |-> 0,
         steps |-> <<>>, actions |-> 0]

\* "exfiltration-sequence": a blocked request, then a dangerous command; and
\* blocked requests counted, with a cooldown shorter than the window.
NotifyRules ==
  <<[Base EXCEPT !.cooldown = 2, !.window = 2,
                 !.steps = <<{"BLOCKED"}, {"DANGEROUS"}>>],
    [Base EXCEPT !.cooldown = 1, !.on = {"BLOCKED"}, !.count = 2, !.window = 2]>>

\* An investigation whose agent may act, one of the tampered chain (which feeds
\* itself through the log), and a notification of what the agent did, lost at
\* the misspelt window of the last rule.
InvestigateRules ==
  <<[Base EXCEPT !.type = "investigate", !.on = {"BLOCKED"}, !.cooldown = 1,
                 !.actions = 1],
    [Base EXCEPT !.type = "investigate", !.on = {"CHAIN_TAMPERED"}],
    [Base EXCEPT !.on = {"CIRCUIT_BREAKER"}],
    [Base EXCEPT !.on = {"CIRCUIT_BREAKER"}, !.count = 2, !.window = Unparsed]>>
=============================================================================
