-------------------------- MODULE SequenceTriggerMC --------------------------
(* All short logs, entry by entry, against all short sequence rules.         *)
EXTENDS SequenceTrigger

CONSTANTS Kinds, MaxSteps, MaxLength, MaxTs, Windows

VARIABLES steps, window, entries

Init ==
  /\ \E k \in 0..MaxSteps : steps \in [1..k -> SUBSET Kinds]
  /\ window \in Windows
  /\ entries = <<>>

Log ==
  /\ Len(entries) < MaxLength
  /\ \E kind \in Kinds, ts \in 1..MaxTs :
       entries' = Append(entries, [kind |-> kind, ts |-> ts])
  /\ UNCHANGED <<steps, window>>

Spec == Init /\ [][Log]_<<steps, window, entries>>

\* What find_match_end returns is the timestamp of the last entry of an
\* occurrence, whatever the order of the timestamps; and of entries in the order
\* of their timestamps, of the earliest one, with None only if there is none: the
\* rewind finds a late occurrence that an early start would hide.
FindsEarliest ==
  LET end == FindMatchEnd(steps, window, entries)
      ends == IF steps = <<>> THEN {}
              ELSE {entries[f[Len(steps)]].ts : f \in Occurrences(steps, window, entries)}
  IN /\ end \in ends \cup {None}
     /\ Ordered(entries) => end = IF ends = {} THEN None ELSE Min(ends)
=============================================================================
