------------------------------- MODULE Reports -------------------------------
(***************************************************************************)
(* What becomes of an agent's answer. An investigation in the pool of the  *)
(* reactive manager writes a report, executes the actions the agent asked  *)
(* for, each with an entry in the audit trail, and delivers the report     *)
(* (agent_runner.py, manager.py, actions.py). "report run" digests the     *)
(* entries since the last digest (reports/scheduler.py, generator.py).     *)
(* The agents, the trail and the disk may fail, and any worker may die.    *)
(***************************************************************************)
EXTENDS Integers, Sequences, FiniteSets

CONSTANTS
  Worker,                              \* pool threads, and commands
  RuleName,                            \* rules of type investigate
  MaxJobs, MaxEvents                   \* bounds

VARIABLES
  trail,       \* audit.jsonl: for each entry, the action it records, if any
  lastReport,  \* .last-report-timestamp, as a place in the trail
  worker,      \* [Worker -> its step and the locals of its job]
  jobs,        \* jobs so far
  effects,     \* history: the actions that were executed
  covered      \* history: the entries in the prompt of an answered digest

reportVars == <<trail, lastReport, worker, jobs, effects, covered>>

-----------------------------------------------------------------------------
Digest == "digest"
Resting == [step |-> "rest", id |-> 0, rule |-> Digest, todo |-> <<>>, read |-> {}]
Wk(w) == worker[w]
At(w, step) == Wk(w).step = step
Become(w, me) == worker' = [worker EXCEPT ![w] = me]
End(w) == Become(w, Resting)
Digesting == \E w \in Worker : At(w, "agent") /\ Wk(w).rule = Digest

\* What a report asks for: an action its rule allows, or one it does not, or
\* that does not exist.
Blocks == {<<>>, <<"other", "allowed", "allowed">>}

Init ==
  /\ trail = <<>> /\ lastReport = 0
  /\ worker = [w \in Worker |-> Resting]
  /\ jobs = 0
  /\ effects = {} /\ covered = {}

\* An entry of somebody else; alone: while no digest is under way.
Entry(id, n) == [by |-> id, n |-> n, alone |-> ~Digesting]
Event ==
  /\ Cardinality({i \in DOMAIN trail : trail[i].by = 0}) < MaxEvents
  /\ trail' = Append(trail, Entry(0, 0))
  /\ UNCHANGED <<lastReport, worker, jobs, effects, covered>>

\* _run_investigation begins.
Investigate(w, rule) ==
  /\ At(w, "rest") /\ jobs < MaxJobs
  /\ jobs' = jobs + 1
  /\ Become(w, [Resting EXCEPT !.step = "agent", !.id = jobs + 1, !.rule = rule])
  /\ UNCHANGED <<trail, lastReport, effects, covered>>

\* Faulty variant: the time of the last report is set before the agent is asked.
AskSetsLast(w) ==
  /\ At(w, "rest") /\ jobs < MaxJobs
  /\ jobs' = jobs + 1
  /\ Become(w, [Resting EXCEPT !.step = "agent", !.id = jobs + 1,
                               !.read = (lastReport + 1)..Len(trail)])
  /\ lastReport' = Len(trail)
  /\ UNCHANGED <<trail, effects, covered>>

\* report run, up to the prompt.
Ask(w) ==
  /\ At(w, "rest") /\ jobs < MaxJobs
  /\ jobs' = jobs + 1
  /\ Become(w, [Resting EXCEPT !.step = "agent", !.id = jobs + 1,
                               !.read = (lastReport + 1)..Len(trail)])
  /\ UNCHANGED <<trail, lastReport, effects, covered>>

AgentFails(w) ==
  /\ At(w, "agent")
  /\ End(w)
  /\ UNCHANGED <<trail, lastReport, jobs, effects, covered>>

AgentAnswers(w) ==
  /\ At(w, "agent")
  /\ IF Wk(w).rule = Digest
     THEN /\ lastReport' = Len(trail)
          /\ covered' = covered \cup Wk(w).read
          /\ Become(w, [Wk(w) EXCEPT !.step = "report"])
     ELSE /\ \E blocks \in Blocks : Become(w, [Wk(w) EXCEPT !.step = "report", !.todo = blocks])
          /\ UNCHANGED <<lastReport, covered>>
  /\ UNCHANGED <<trail, jobs, effects>>

\* The report goes to a file of its own; a write that raises ends the job.
WriteReport(w) ==
  /\ At(w, "report")
  /\ \/ Wk(w).rule # Digest /\ Become(w, [Wk(w) EXCEPT !.step = "act"])
     \/ End(w)
  /\ UNCHANGED <<trail, lastReport, jobs, effects, covered>>

\* CircuitBreakerExecutor.execute, of the first block that is left. An action
\* that raises has had no effect, and is recorded nevertheless.
Refuse(w) ==
  /\ At(w, "act") /\ Wk(w).todo # <<>> /\ Head(Wk(w).todo) = "other"
  /\ Become(w, [Wk(w) EXCEPT !.todo = Tail(@)])
  /\ UNCHANGED <<trail, lastReport, jobs, effects, covered>>

Act(w) ==
  /\ At(w, "act") /\ Wk(w).todo # <<>> /\ Head(Wk(w).todo) = "allowed"
  /\ effects' \in {effects, effects \cup {[by |-> Wk(w).id, n |-> Len(Wk(w).todo)]}}
  /\ Become(w, [Wk(w) EXCEPT !.step = "log"])
  /\ UNCHANGED <<trail, lastReport, jobs, covered>>

\* Faulty variant: that the trail raises does not end the investigation.
LogActionAnyway(w) ==
  /\ At(w, "log")
  /\ trail' \in {trail, Append(trail, Entry(Wk(w).id, Len(Wk(w).todo)))}
  /\ Become(w, [Wk(w) EXCEPT !.step = "act", !.todo = Tail(@)])
  /\ UNCHANGED <<lastReport, jobs, effects, covered>>

LogAction(w) ==
  /\ At(w, "log")
  /\ \/ /\ trail' = Append(trail, Entry(Wk(w).id, Len(Wk(w).todo)))
        /\ Become(w, [Wk(w) EXCEPT !.step = "act", !.todo = Tail(@)])
     \/ End(w) /\ UNCHANGED trail
  /\ UNCHANGED <<lastReport, jobs, effects, covered>>

\* The report is read from its file again, and delivered if the rule says so.
Deliver(w) ==
  /\ At(w, "act") /\ Wk(w).todo = <<>>
  /\ End(w)
  /\ UNCHANGED <<trail, lastReport, jobs, effects, covered>>

\* A digest that dies may have truncated the time of the last one, which then
\* counts as never.
Die(w) ==
  /\ ~At(w, "rest")
  /\ lastReport' \in {lastReport} \cup IF Wk(w).rule = Digest /\ At(w, "agent") THEN {0} ELSE {}
  /\ End(w)
  /\ UNCHANGED <<trail, jobs, effects, covered>>

-----------------------------------------------------------------------------
Next ==
  \/ \E w \in Worker :
       \/ Ask(w) \/ \E rule \in RuleName : Investigate(w, rule)
       \/ AgentFails(w) \/ AgentAnswers(w) \/ WriteReport(w)
       \/ Refuse(w) \/ Act(w) \/ LogAction(w) \/ Deliver(w) \/ Die(w)
  \/ Event

Spec == Init /\ [][Next]_reportVars

-----------------------------------------------------------------------------
TypeOK ==
  /\ lastReport \in 0..Len(trail) /\ covered \subseteq 1..Len(trail)
  /\ \A w \in Worker : At(w, "rest") \/ Wk(w).id \in 1..jobs

\* Of the actions of an investigation at most the last one is not on record,
\* and it is the last: an investigation that cannot record what it did does
\* nothing more.
OffRecord(id) ==
  {e \in effects : e.by = id /\ \A i \in DOMAIN trail : trail[i].by # e.by \/ trail[i].n # e.n}
ActionsOnRecord ==
  \A id \in 1..jobs :
    OffRecord(id) # {} =>
      Cardinality(OffRecord(id)) = 1 /\ \A w \in Worker : Wk(w).id = id => At(w, "log")

\* Every entry from before the last digest was in the prompt of a digest, but
\* for those that were logged while one was under way; a digest that fails, or
\* dies, leaves its entries to the next.
EntriesDigested ==
  \A i \in 1..lastReport : trail[i].alone => i \in covered
=============================================================================
