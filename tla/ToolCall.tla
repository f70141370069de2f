------------------------------ MODULE ToolCall ------------------------------
(***************************************************************************)
(* One call of a tool on its way through MiddlewareChain.execute and back  *)
(* (middleware/chain.py and the middlewares), or through the hooks of the  *)
(* plugin. Every middleware looks at the call in order; when none refuses  *)
(* it the tool runs, and every middleware looks at the result in the       *)
(* reverse order. Most of them write to the audit trail, which may raise.  *)
(*                                                                         *)
(* A result is a sequence of characters, each the number of its place in   *)
(* what the tool returned, or Mark for one of a placeholder. What the      *)
(* patterns and the values of the vault would find are spans of it, each   *)
(* with the finder that finds it: two finders may find the same span, or   *)
(* spans that overlap.                                                     *)
(***************************************************************************)
EXTENDS Integers, Sequences, FiniteSets, Functions

CONSTANTS
  Length,        \* characters of a result
  MarkLength,    \* characters of a placeholder
  Finders,       \* how many patterns and values are looked for, in this order
  Chains,        \* the chains to follow
  MaxSecrets     \* bound: secrets in a result

VARIABLES
  call,       \* what is called, and how the chain is configured
  step,       \* "pre", "post", "returned", "denied" or "raised"
  at,         \* the middleware whose turn it is
  result,     \* the result as it comes up the chain
  entries,    \* the decisions in the audit trail
  ran         \* the tool was run

callVars == <<call, step, at, result, entries, ran>>

-----------------------------------------------------------------------------
(* ---- texts ---------------------------------------------------------------- *)

Mark == 0
Placeholder == [i \in 1..MarkLength |-> Mark]
Original == [i \in 1..Length |-> i]
Spans == {s \in [by : 1..Finders, from : 1..Length, to : 2..(Length + 1)] : s.from < s.to}
Chars(s) == s.from..(s.to - 1)
Apart(s, r) == Chars(s) \cap Chars(r) = {}
Disjoint(S) == \A s, r \in S : s # r => Apart(s, r)

\* The places where a span of the original stands in a text.
Found(text, s) ==
  {m \in [by : {s.by}, from : DOMAIN text, to : 2..(Len(text) + 1)] :
     /\ m.to - m.from = s.to - s.from
     /\ \A k \in 0..(s.to - s.from - 1) : text[m.from + k] = s.from + k}

\* scan_for_secrets: a place that two finders find is there twice.
Matches(text, S) == UNION {Found(text, s) : s \in S}

\* Faulty variant: the last character of a match stays.
CutShort(text, m) == SubSeq(text, 1, m.from - 1) \o Placeholder \o SubSeq(text, m.to - 1, Len(text))

\* One match is cut out, by the places it had when the text was scanned.
Cut(text, m) == SubSeq(text, 1, m.from - 1) \o Placeholder \o SubSeq(text, m.to, Len(text))

\* They are cut out one after the other.
CutAll(text, order) ==
  LET after[k \in 0..Len(order)] == IF k = 0 THEN text ELSE Cut(after[k - 1], order[k])
  IN after[Len(order)]

\* The orders in which the places of a set can be listed.
Orders(S) == Injection(1..Cardinality(S), S)

In(name) == name \in Range(call.chain)

\* The matches are replaced from the last to the first. Those that start at the
\* same place come in the order in which they were looked for; the plugin sorts
\* them by where they end, first.
Before(m, n) ==
  \/ m.from > n.from
  \/ m.from = n.from /\ In("transform") /\ m.to < n.to
  \/ m.from = n.from /\ (In("transform") => m.to = n.to) /\ m.by <= n.by
Redacted(text, ms) ==
  {CutAll(text, order) : order \in
     {o \in Orders(ms) : \A i, j \in DOMAIN o : i < j => Before(o[i], o[j])}}

\* Tirith replaces what it found wherever it still stands, the longest first.
Replace(text, s) ==
  IF Found(text, s) = {} THEN text ELSE Cut(text, CHOOSE m \in Found(text, s) : TRUE)
ReplaceEach(text, order) ==
  LET after[k \in 0..Len(order)] == IF k = 0 THEN text ELSE Replace(after[k - 1], order[k])
  IN after[Len(order)]
Replaced(text, S) ==
  {ReplaceEach(text, order) : order \in
     {o \in Orders(S) : \A i, j \in DOMAIN o : i < j => o[i].to - o[i].from >= o[j].to - o[j].from}}

(* ---- the call ------------------------------------------------------------- *)

\* What the patterns and the vault find: one finder finds no two places that overlap.
SecretSets ==
  {S \in SUBSET Spans : /\ Cardinality(S) <= MaxSecrets
                       /\ \A s, r \in S : s # r /\ s.by = r.by => Apart(s, r)}

When(condition, S) == IF condition THEN S ELSE {}

\* A result is a string, {"output": ...}, {"content": ...} or something else.
\* create_default_chain() works without a trail, too; AuditTrailMiddleware and the
\* plugin have one.
Init ==
  /\ \E chain \in Chains, secrets \in SecretSets :
       LET has(name) == name \in Range(chain)
       IN call \in [chain : {chain}, secrets : {secrets}, dangerous : BOOLEAN,
                   trail : {TRUE} \cup When(~has("audit") /\ ~has("hook"), {FALSE}),
                   mode : {"audit"} \cup When(has("blocker"), {"block"}),
                   tirith : {"detect"} \cup When(has("tirith"), {"block"}),
                   leaky : {FALSE} \cup When(has("hook"), {TRUE}),
                   shape : {"string", "output", "content", "other"},
                   threats : {{}} \cup When(has("tirith") /\ Cardinality(secrets) <= 1,
                                           {{s} : s \in {s \in Spans : s.by = 1}})]
  /\ step = "pre" /\ at = 1
  /\ result = <<>> /\ entries = <<>> /\ ran = FALSE

Turn(phase, name) == step = phase /\ at \in DOMAIN call.chain /\ call.chain[at] = name
Log(decision) == entries' = Append(entries, decision)
LogIfAny(decision) == IF call.trail THEN Log(decision) ELSE UNCHANGED entries
Down == step' = step /\ at' = at + 1
Up == step' = step /\ at' = at - 1
End(how) == step' = how /\ at' = at
Raise == End("raised") /\ UNCHANGED <<result, entries>>

\* AuditTrailMiddleware.pre_dispatch, which knows fewer shapes of a command than
\* the blocker.
PreAudit ==
  /\ Turn("pre", "audit")
  /\ \/ \E decision \in {"INITIATED"} \cup IF call.dangerous THEN {"DANGEROUS_COMMAND"} ELSE {} :
          Log(decision) /\ Down /\ UNCHANGED result
     \/ Raise
  /\ UNCHANGED <<call, ran>>

\* Faulty variant: the exception is swallowed together with the refusal.
PreBlockerSwallows ==
  /\ Turn("pre", "blocker")
  /\ IF call.dangerous /\ call.mode = "block"
     THEN (LogIfAny("BLOCKED") /\ End("raised")) \/ (Down /\ UNCHANGED entries)
     ELSE Down /\ UNCHANGED entries
  /\ UNCHANGED <<call, result, ran>>

\* DangerousBlockerMiddleware.pre_dispatch: that the trail raises changes nothing.
PreBlocker ==
  /\ Turn("pre", "blocker")
  /\ IF call.dangerous
     THEN /\ \/ LogIfAny(IF call.mode = "block" THEN "BLOCKED" ELSE "AUDIT")
             \/ UNCHANGED entries
          /\ IF call.mode = "block" THEN End("raised") ELSE Down
     ELSE Down /\ UNCHANGED entries
  /\ UNCHANGED <<call, result, ran>>

\* aegis_pre_tool_call: whatever raises in it refuses the call.
PreHook ==
  /\ Turn("pre", "hook")
  /\ \/ ~call.dangerous /\ ~call.leaky /\ Down /\ UNCHANGED entries
     \/ (call.dangerous \/ call.leaky) /\ End("denied") /\ Log("BLOCKED")
     \/ End("denied") /\ UNCHANGED entries
  /\ UNCHANGED <<call, result, ran>>

PrePass ==
  /\ \E name \in {"scanner", "tirith", "redaction", "transform"} : Turn("pre", name)
  /\ Down
  /\ UNCHANGED <<call, result, entries, ran>>

Handle ==
  /\ step = "pre" /\ at > Len(call.chain)
  /\ ran' = TRUE
  /\ \/ result' = Original /\ step' = "post" /\ at' = Len(call.chain) /\ UNCHANGED entries
     \/ Raise
  /\ UNCHANGED call

\* AuditTrailMiddleware.post_dispatch.
PostAudit ==
  /\ Turn("post", "audit")
  /\ (Log("COMPLETED") /\ Up /\ UNCHANGED result) \/ Raise
  /\ UNCHANGED <<call, ran>>

\* aegis_post_tool_call; hermes-agent goes on when a hook raises.
PostHook ==
  /\ Turn("post", "hook")
  /\ Log("ALLOWED") \/ UNCHANGED entries
  /\ Up
  /\ UNCHANGED <<call, result, ran>>

\* Faulty variant: that the trail raises changes nothing, the result neither.
PostScannerSwallows ==
  LET ms == Matches(result, call.secrets)
  IN /\ Turn("post", "scanner")
     /\ Up
     /\ IF ms = {} \/ call.shape \notin {"string", "output"} THEN UNCHANGED <<result, entries>>
        ELSE \/ result' \in Redacted(result, ms) /\ LogIfAny("OUTPUT_REDACTED")
             \/ call.trail /\ UNCHANGED <<result, entries>>
     /\ UNCHANGED <<call, ran>>

\* OutputScannerMiddleware.post_dispatch looks at strings and at outputs.
PostScanner ==
  LET ms == Matches(result, call.secrets)
  IN /\ Turn("post", "scanner")
     /\ IF ms = {} \/ call.shape \notin {"string", "output"} THEN Up /\ UNCHANGED <<result, entries>>
        ELSE \/ result' \in Redacted(result, ms) /\ LogIfAny("OUTPUT_REDACTED") /\ Up
             \/ call.trail /\ Raise
     /\ UNCHANGED <<call, ran>>

\* SecretRedactionMiddleware.post_dispatch, for strings; aegis_secret_scan.
PostRedact ==
  LET ms == Matches(result, call.secrets)
      text == call.shape = "string" \/ (call.chain[at] = "transform" /\ call.shape = "output")
  IN /\ Turn("post", "redaction") \/ Turn("post", "transform")
     /\ IF text THEN result' \in Redacted(result, ms) ELSE UNCHANGED result
     /\ Up
     /\ UNCHANGED <<call, entries, ran>>

\* TirithScannerMiddleware.post_dispatch.
PostTirith ==
  LET found == {s \in call.threats : Found(result, s) # {}}
  IN /\ Turn("post", "tirith")
     /\ IF found = {} \/ call.shape = "other" THEN Up /\ UNCHANGED <<result, entries>>
        ELSE \/ /\ LogIfAny("TIRITH_DETECT") /\ Up
                /\ IF call.tirith = "block" THEN result' \in Replaced(result, found) ELSE UNCHANGED result
             \/ call.trail /\ Raise
     /\ UNCHANGED <<call, ran>>

PostPass ==
  /\ Turn("post", "blocker")
  /\ Up
  /\ UNCHANGED <<call, result, entries, ran>>

Return ==
  /\ step = "post" /\ at = 0
  /\ End("returned")
  /\ UNCHANGED <<call, result, entries, ran>>

-----------------------------------------------------------------------------
Next ==
  \/ PreAudit \/ PreBlocker \/ PreHook \/ PrePass \/ Handle
  \/ PostAudit \/ PostHook \/ PostScanner \/ PostRedact \/ PostTirith \/ PostPass \/ Return

Spec == Init /\ [][Next]_callVars

-----------------------------------------------------------------------------
TypeOK ==
  /\ step \in {"pre", "post", "returned", "denied", "raised"}
  /\ at \in 0..(Len(call.chain) + 1)
  /\ Range(result) \subseteq 0..Length
  /\ step = "post" => ran

\* A command that the blocker is set to block, or that the plugin finds
\* dangerous or full of secrets, never reaches the tool, whatever raises on its
\* way (dangerous_blocker.py, pre_tool_call.py).
BlockedNeverRuns ==
  ran => ~ \/ call.dangerous /\ In("blocker") /\ call.mode = "block"
           \/ In("hook") /\ (call.dangerous \/ call.leaky)

\* The original, read from the left, with a placeholder for each of the secrets
\* S, and else as it was.
Expected(S) ==
  LET from[i \in 1..(Length + 1)] ==
        IF i = Length + 1 THEN <<>>
        ELSE IF \E s \in S : s.from = i
             THEN Placeholder \o from[(CHOOSE s \in S : s.from = i).to]
             ELSE <<i>> \o from[i + 1]
  IN from[1]

\* Someone in the chain looks for secrets in a result of this shape.
Scanned ==
  \/ (In("scanner") \/ In("transform")) /\ call.shape \in {"string", "output"}
  \/ In("redaction") /\ call.shape = "string"

\* What the caller gets when Tirith changes nothing.
Answered == step = "returned" /\ (call.tirith = "detect" \/ call.threats = {})

\* What the caller gets has lost its secrets and nothing but its secrets, however
\* many middlewares redact, where no place is found twice and none overlap; and
\* when the scanner is the one that redacts, and has a trail, that is on record or
\* the call raises instead (OutputScannerMiddleware, SecretRedactionMiddleware,
\* aegis_secret_scan).
RedactedExactly ==
  (Answered /\ Disjoint(call.secrets)) =>
    /\ result = IF Scanned THEN Expected(call.secrets) ELSE Original
    /\ In("scanner") /\ ~In("redaction") /\ call.trail =>
         ("OUTPUT_REDACTED" \in Range(entries) <=> result # Original)

Left(s) == Chars(s) \cap Range(result)
SamePlace(s, r) == s.from = r.from /\ s.to = r.to

\* A place that two patterns find, or a pattern and the value of the vault, is cut
\* twice, the second time where it no longer is: whatever that cuts, no character
\* of a secret is left, as long as secrets are apart or at the same place.
SecretsGone ==
  (Answered /\ Scanned /\ \A s, r \in call.secrets : Apart(s, r) \/ SamePlace(s, r))
    => \A s \in call.secrets : Left(s) = {}
=============================================================================
