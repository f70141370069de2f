------------------------------ MODULE HashChain ------------------------------
(***************************************************************************)
(* What audit/trail.py promises of audit.jsonl: one linear chain of        *)
(* entries.  Every new entry names the hash of the entry that was last     *)
(* when it was written, and a clear throws nothing away that is not in an  *)
(* archive.  AuditTrail.tla is the code; this is what its docstrings say.  *)
(***************************************************************************)
EXTENDS Naturals, Sequences

CONSTANT Hash            \* entry hashes, nonzero; 0 is the empty string

VARIABLES chain,         \* the lines of audit.jsonl, <<>> when there is no file
          archived       \* the set of lines that are in some archive file

Line == [id : Hash, prev : Hash \cup {0}]

Lines(s) == { s[i] : i \in 1..Len(s) }

LastHash(s) == IF s = <<>> THEN 0 ELSE s[Len(s)].id

\* verify_chain: each prev_hash equals the digest of the line before.
Chained(s) ==
  \A i \in 1..Len(s) : s[i].prev = (IF i = 1 THEN 0 ELSE s[i - 1].id)

Init == chain = <<>> /\ archived = {}

\* One AuditTrail.log(), seen as one indivisible step.
Extend ==
  /\ \E h \in Hash :
       chain' = Append(chain, [id |-> h, prev |-> LastHash(chain)])
  /\ UNCHANGED archived

\* `hermes-aegis audit clear`: archive what is there ...
Archive ==
  /\ archived' = archived \cup Lines(chain)
  /\ UNCHANGED chain

\* ... and only then start over.
Clear ==
  /\ Lines(chain) \subseteq archived
  /\ chain' = <<>>
  /\ UNCHANGED archived

Next == Extend \/ Archive \/ Clear

Spec == Init /\ [][Next]_<<chain, archived>>
=============================================================================
