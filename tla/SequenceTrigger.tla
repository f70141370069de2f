--------------------------- MODULE SequenceTrigger ---------------------------
(***************************************************************************)
(* src/hermes_aegis/reactive/sequences.py: does a list of audit entries    *)
(* contain the steps of a sequence rule, in order and within a window?     *)
(*                                                                         *)
(* An entry is a record with fields kind (its decision and middleware) and *)
(* ts (its timestamp).  A step is the set of the kinds its filters accept; *)
(* a step without filters accepts none.                                    *)
(***************************************************************************)
EXTENDS Integers, Sequences, FiniteSetsExt

None == -1           \* find_match_end returns None; timestamps are positive

Matches(step, e) == e.kind \in step

\* One pass of the inner loop: where each step is first met when the search
\* begins at start; Len(entries) + 1 from the first step that is not met on.
Walk(steps, entries, start) ==
  LET n == Len(entries)
      at[k \in 0..Len(steps)] ==
        IF k = 0 THEN start - 1
        ELSE Min({i \in (at[k - 1] + 1)..n : Matches(steps[k], entries[i])}
                   \cup {n + 1})
  IN at

\* Faulty variant: the search goes on after the last entry of the match.
FindMatchEndSkip(steps, window, entries) ==
  LET n == Len(entries)
      k == Len(steps)
      from[start \in 1..(n + 1)] ==
        LET at == Walk(steps, entries, start)
        IN IF start > n \/ at[k] > n THEN None
           ELSE IF entries[at[k]].ts - entries[at[1]].ts <= window THEN entries[at[k]].ts
           ELSE from[at[k] + 1]
  IN IF steps = <<>> THEN None ELSE from[1]

\* A complete match outside the window rewinds to the entry after its first;
\* an incomplete one ends the search.
FindMatchEnd(steps, window, entries) ==
  LET n == Len(entries)
      k == Len(steps)
      from[start \in 1..(n + 1)] ==
        LET at == Walk(steps, entries, start)
        IN IF start > n \/ at[k] > n THEN None
           ELSE IF entries[at[k]].ts - entries[at[1]].ts <= window THEN entries[at[k]].ts
           ELSE from[at[1] + 1]
  IN IF steps = <<>> THEN None ELSE from[1]

-----------------------------------------------------------------------------
(* What it is for. *)

\* All ways to meet the steps in order and within the window.
Occurrences(steps, window, entries) ==
  { f \in [1..Len(steps) -> 1..Len(entries)] :
      /\ \A k \in DOMAIN f : Matches(steps[k], entries[f[k]])
      /\ \A k \in DOMAIN f : k > 1 => f[k - 1] < f[k]
      /\ entries[f[Len(steps)]].ts - entries[f[1]].ts <= window }

Ordered(entries) ==
  \A i \in 2..Len(entries) : entries[i - 1].ts <= entries[i].ts
=============================================================================
