---------------------------- MODULE HomeWorkProofs ----------------------------
(***************************************************************************)
(* What a user entrusts to hermes-aegis: what the run of AegisHomeMC shows *)
(* of a call of a tool and of the commands on credentials, for every chain *)
(* of middlewares in every order, whatever raises on the way, and for any  *)
(* texts, secrets, shells, edits and locks.                                *)
(*                                                                         *)
(* A call goes on down only once cleared (ClearedSoFar). On the way up the *)
(* result is the original until it has passed one who looks for secrets,   *)
(* and then the original read from the left with placeholders for them     *)
(* (ResultSoFar). That reading can begin at any place (Reading), and a cut *)
(* at a match leaves the original before it and the reading behind it      *)
(* (CutFrom), so that all cuts, from the last match to the first, make     *)
(* what is expected, and a second scan finds nothing to cut (ScanMakes).   *)
(*                                                                         *)
(* A key survives the commands on credentials as long as no token stands   *)
(* in its place in the vault, the last of its lines that an import takes   *)
(* is no token, and one of the two has it (Held); of a command at work     *)
(* that holds of what it is about to write (SafeAt).                       *)
(*                                                                         *)
(* The types of all parts come last, those of HomeFilesProofs with them.   *)
(***************************************************************************)
EXTENDS HomeFilesProofs, SequenceTheorems

(* -------- a call ---------------------------------------------------------- *)

Middleware == {"blocker", "scanner", "tirith", "audit", "redaction", "hook", "transform"}

\* The middleware at place i is none that stops the call.
Cleared(i) ==
  ~ \/ call.chain[i] = "blocker" /\ call.dangerous /\ call.mode = "block"
    \/ call.chain[i] = "hook" /\ (call.dangerous \/ call.leaky)

\* On the way down the call has been cleared by those it has passed, and once
\* the tool ran by all.
ClearedSoFar ==
  /\ call.chain \in Seq(Middleware)
  /\ step = "pre" => /\ at \in Nat \ {0} /\ ~ran
                     /\ \A i \in DOMAIN call.chain : i < at => Cleared(i)
  /\ ran => \A i \in DOMAIN call.chain : Cleared(i)

\* The chains are sequences of names.
LEMMA ChainsType == Chains \subseteq Seq(Middleware)
<1>1. {"blocker", "scanner", "tirith", "audit", "redaction", "hook", "transform"} \subseteq Middleware
  BY DEF Middleware
<1>2. Chains \subseteq Seq(Middleware)
  BY <1>1 DEF Chains
<1> QED
  BY <1>2

\* What is known of a call when it begins.
LEMMA CallStarts ==
  ASSUME Call!Init
  PROVE  /\ call.chain \in Chains /\ call.secrets \in SUBSET Call!Spans
         /\ call.threats \in {{}} \cup {{s} : s \in Call!Spans}
         /\ step = "pre" /\ at = 1 /\ result = <<>> /\ entries = <<>> /\ ran = FALSE
<1>1. PICK chain \in Chains, secrets \in Call!SecretSets :
        /\ call.chain = chain /\ call.secrets = secrets
        /\ \/ call.threats = {}
           \/ \E s \in {s \in Call!Spans : s.by = 1} : call.threats = {s}
  BY DEF Call!Init, Call!When
<1>2. secrets \subseteq Call!Spans
  BY DEF Call!SecretSets
<1> QED
  BY <1>1, <1>2 DEF Call!Init

\* Initially nothing was passed, and the tool did not run.
LEMMA ClearedInit == ASSUME Call!Init PROVE ClearedSoFar
<1>1. call.chain \in Seq(Middleware) /\ step = "pre" /\ at = 1 /\ ran = FALSE
  <2>1. call.chain \in Chains /\ step = "pre" /\ at = 1 /\ ran = FALSE
    BY CallStarts
  <2> QED
    BY <2>1, ChainsType
<1>2. DOMAIN call.chain = 1..Len(call.chain) /\ Len(call.chain) \in Nat
  BY <1>1
<1>3. ASSUME NEW i \in DOMAIN call.chain, i < at PROVE Cleared(i)
  BY <1>1, <1>2, <1>3
<1> QED
  BY <1>1, <1>3 DEF ClearedSoFar

\* The step of a middleware on the way down goes on only if that one does not
\* stop the call (the pre_dispatch methods, and the plugin's hook).
LEMMA ClearedDown ==
  ASSUME ClearedSoFar, Call!PreAudit \/ Call!PreBlocker \/ Call!PreHook \/ Call!PrePass
  PROVE  ClearedSoFar'
<1>1. /\ call' = call /\ ran' = ran /\ step = "pre" /\ at \in DOMAIN call.chain
      /\ \/ step' \in {"raised", "denied"}
         \/ step' = "pre" /\ at' = at + 1 /\ Cleared(at)
  <2>1. CASE Call!PreAudit
    BY <2>1 DEF Call!PreAudit, Call!Turn, Call!Down, Call!End, Call!Raise, Cleared
  <2>2. CASE Call!PreBlocker
    BY <2>2 DEF Call!PreBlocker, Call!Turn, Call!LogIfAny, Call!Down, Call!End, Cleared
  <2>3. CASE Call!PreHook
    BY <2>3 DEF Call!PreHook, Call!Turn, Call!Down, Call!End, Cleared
  <2>4. CASE Call!PrePass
    BY <2>4 DEF Call!PrePass, Call!Turn, Call!Down, Cleared
  <2> QED
    BY <2>1, <2>2, <2>3, <2>4
<1>2. CASE step' \in {"raised", "denied"}
  BY <1>1, <1>2 DEF ClearedSoFar, Cleared
<1>3. CASE step' = "pre" /\ at' = at + 1 /\ Cleared(at)
  <2>1. at \in Nat \ {0} /\ ~ran /\ DOMAIN call.chain \subseteq Nat
    BY <1>1 DEF ClearedSoFar
  <2>2. ASSUME NEW i \in DOMAIN call.chain, i < at' PROVE Cleared(i)
    <3>1. i < at \/ i = at
      BY <1>3, <2>1, <2>2
    <3> QED
      BY <3>1, <1>1, <1>3 DEF ClearedSoFar
  <2>3. at' \in Nat \ {0}
    BY <1>3, <2>1
  <2> QED
    BY <1>1, <1>3, <2>1, <2>2, <2>3 DEF ClearedSoFar, Cleared
<1> QED
  BY <1>1, <1>2, <1>3

\* Only MiddlewareChain.execute runs the tool, when all have been passed.
LEMMA ClearedHandle == ASSUME ClearedSoFar, Call!Handle PROVE ClearedSoFar'
<1>1. step = "pre" /\ at > Len(call.chain) /\ ran' = TRUE /\ call' = call /\ step' # "pre"
  BY DEF Call!Handle, Call!Raise, Call!End
<1>2. at \in Nat /\ call.chain \in Seq(Middleware)
  BY <1>1 DEF ClearedSoFar
<1>3. \A i \in DOMAIN call.chain : i < at
  BY <1>1, <1>2
<1>4. \A i \in DOMAIN call.chain : Cleared(i)
  BY <1>1, <1>3 DEF ClearedSoFar
<1> QED
  BY <1>1, <1>2, <1>4 DEF ClearedSoFar, Cleared

\* On the way up the call is past refusal.
LEMMA ClearedUp ==
  ASSUME ClearedSoFar,
         Call!PostAudit \/ Call!PostHook \/ Call!PostScanner \/ Call!PostRedact \/ Call!PostTirith \/ Call!PostPass \/ Call!Return
  PROVE  ClearedSoFar'
<1>1. call' = call /\ ran' = ran /\ step' # "pre"
  <2>1. CASE Call!PostAudit
    BY <2>1 DEF Call!PostAudit, Call!Turn, Call!Up, Call!End, Call!Raise
  <2>2. CASE Call!PostHook
    BY <2>2 DEF Call!PostHook, Call!Turn, Call!Up
  <2>3. CASE Call!PostScanner
    BY <2>3 DEF Call!PostScanner, Call!Turn, Call!Up, Call!End, Call!Raise
  <2>4. CASE Call!PostRedact
    BY <2>4 DEF Call!PostRedact, Call!Turn, Call!Up
  <2>5. CASE Call!PostTirith
    BY <2>5 DEF Call!PostTirith, Call!Turn, Call!Up, Call!End, Call!Raise
  <2>6. CASE Call!PostPass
    BY <2>6 DEF Call!PostPass, Call!Turn, Call!Up
  <2>7. CASE Call!Return
    BY <2>7 DEF Call!Return, Call!End
  <2> QED
    BY <2>1, <2>2, <2>3, <2>4, <2>5, <2>6, <2>7
<1> QED
  BY <1>1 DEF ClearedSoFar, Cleared

\* A call that all have cleared is none that is to be stopped.
LEMMA ClearedMeansBlocked == ASSUME ClearedSoFar PROVE Call!BlockedNeverRuns
<1>1. DOMAIN call.chain = 1..Len(call.chain)
  BY DEF ClearedSoFar
<1>2. ASSUME NEW name, Call!In(name) PROVE \E i \in DOMAIN call.chain : call.chain[i] = name
  BY <1>1, <1>2 DEF Call!In, Call!Range
<1>3. CASE ran
  <2>1. ~(Call!In("blocker") /\ call.dangerous /\ call.mode = "block")
    BY <1>2, <1>3 DEF ClearedSoFar, Cleared
  <2>2. ~(Call!In("hook") /\ (call.dangerous \/ call.leaky))
    BY <1>2, <1>3 DEF ClearedSoFar, Cleared
  <2> QED
    BY <2>1, <2>2 DEF Call!BlockedNeverRuns
<1> QED
  BY <1>3 DEF Call!BlockedNeverRuns

(* ---- the call in its home -------------------------------------------------- *)

\* A dangerous command in a blocking chain, and one the plugin finds dangerous
\* or full of secrets, never reaches the tool, whichever middlewares are around
\* it, in whichever order, and whatever raises (chain.py, dangerous_blocker.py,
\* pre_tool_call.py).
THEOREM StoppedCallsNeverRun == Spec => []BlockedNeverRuns
<1> DEFINE Inv == At("call") => ClearedSoFar
<1>1. Init => Inv
  BY ClearedInit DEF Init, At
<1>2. Inv /\ [Next]_homeVars => Inv'
  <2> SUFFICES ASSUME Inv, [Next]_homeVars, At("call")' PROVE ClearedSoFar'
    OBVIOUS
  <2>1. ClearedSoFar /\ (Call!Next \/ UNCHANGED callVars)
    BY DEF Next, homeVars, At
  <2>2. CASE UNCHANGED callVars
    BY <2>1, <2>2 DEF callVars, ClearedSoFar, Cleared
  <2> QED
    BY <2>1, <2>2, ClearedDown, ClearedHandle, ClearedUp DEF Call!Next
<1>3. Inv => BlockedNeverRuns
  BY ClearedMeansBlocked DEF BlockedNeverRuns
<1> QED
  BY <1>1, <1>2, <1>3, PTL DEF Spec

(* -------- what is cut out of a result ---------------------------------------- *)

TextSpan(s) == s.from \in 1..Length /\ s.to \in 2..(Length + 1) /\ s.from < s.to

IsFrom(S, i) == \E s \in S : s.from = i

\* What Expected reads from the i-th character on, when it has R for the later ones.
Reading(S, R, i) ==
  IF i = Length + 1 THEN <<>>
  ELSE IF IsFrom(S, i) THEN Call!Placeholder \o R[(CHOOSE x \in S : x.from = i).to]
  ELSE <<i>> \o R[i + 1]

Reads(S, m, R) ==
  /\ R \in [m..(Length + 1) -> Seq(Nat)]
  /\ \A i \in m..(Length + 1) : R[i] = Reading(S, R, i)

LEMMA Lengths == Length \in Nat /\ MarkLength \in Nat /\ Finders \in Nat
BY TextAssumption

LEMMA SpansAre == \A s \in Call!Spans : TextSpan(s)
BY DEF Call!Spans, TextSpan

\* Spans that do not overlap lie one after the other.
LEMMA Apart ==
  ASSUME NEW S \in SUBSET Call!Spans, Call!Disjoint(S), NEW s \in S, NEW r \in S, s # r
  PROVE  s.to <= r.from \/ r.to <= s.from
<1>1. TextSpan(s) /\ TextSpan(r) /\ Length \in Nat
  BY SpansAre, Lengths
<1>2. Call!Chars(s) \cap Call!Chars(r) = {}
  BY DEF Call!Disjoint, Call!Apart
<1>3. ASSUME s.from <= r.from, r.from < s.to PROVE FALSE
  <2>1. r.from \in Call!Chars(s) /\ r.from \in Call!Chars(r)
    BY <1>1, <1>3 DEF TextSpan, Call!Chars
  <2> QED
    BY <1>2, <2>1
<1>4. ASSUME r.from <= s.from, s.from < r.to PROVE FALSE
  <2>1. s.from \in Call!Chars(s) /\ s.from \in Call!Chars(r)
    BY <1>1, <1>4 DEF TextSpan, Call!Chars
  <2> QED
    BY <1>2, <2>1
<1> QED
  BY <1>1, <1>3, <1>4 DEF TextSpan

\* The placeholder is a text.
LEMMA PlaceholderText ==
  /\ Call!Placeholder \in Seq(Nat)
  /\ \A k \in 1..Len(Call!Placeholder) : Call!Placeholder[k] = 0
BY Lengths DEF Call!Placeholder, Call!Mark

LEMMA ReadingIs ==
  ASSUME NEW S \in SUBSET Call!Spans, NEW i \in 1..(Length + 1), NEW R,
         \A j \in (i + 1)..(Length + 1) : R[j] \in Seq(Nat),
         NEW Q, \A j \in (i + 1)..(Length + 1) : Q[j] = R[j]
  PROVE  Reading(S, R, i) \in Seq(Nat) /\ Reading(S, Q, i) = Reading(S, R, i)
<1> PICK N \in Nat : N = Length
  BY Lengths
<1>1. CASE i = N + 1
  <2>1. Reading(S, Q, i) = <<>> /\ Reading(S, R, i) = <<>>
    BY <1>1 DEF Reading
  <2> QED
    BY <2>1
<1>2. CASE i # N + 1 /\ IsFrom(S, i)
  <2>1. PICK s : s = CHOOSE x \in S : x.from = i
    OBVIOUS
  <2>2. s \in S /\ s.from = i
    BY <1>2, <2>1 DEF IsFrom
  <2>3. s.to \in (i + 1)..(Length + 1)
    BY <2>2, SpansAre DEF TextSpan
  <2>4. Reading(S, Q, i) = Call!Placeholder \o Q[s.to] /\ Reading(S, R, i) = Call!Placeholder \o R[s.to]
    BY <1>2, <2>1 DEF Reading
  <2>5. R[s.to] \in Seq(Nat)
    BY <2>3
  <2>6. Call!Placeholder \o R[s.to] \in Seq(Nat)
    BY <2>5, PlaceholderText, ConcatProperties
  <2> QED
    BY <2>3, <2>4, <2>6
<1>3. CASE i # N + 1 /\ ~IsFrom(S, i)
  <2>1. i + 1 \in (i + 1)..(Length + 1) /\ i \in Nat
    BY <1>3
  <2>2. Reading(S, Q, i) = <<i>> \o Q[i + 1] /\ Reading(S, R, i) = <<i>> \o R[i + 1]
    BY <1>3 DEF Reading
  <2>3. R[i + 1] \in Seq(Nat) /\ <<i>> \in Seq(Nat)
    BY <2>1
  <2>4. <<i>> \o R[i + 1] \in Seq(Nat)
    BY <2>3, ConcatProperties
  <2> QED
    BY <2>1, <2>2, <2>4
<1> QED
  BY <1>1, <1>2, <1>3

LEMMA ReadsExist ==
  ASSUME NEW S \in SUBSET Call!Spans
  PROVE  \E R : Reads(S, 1, R)
<1> PICK N \in Nat : N = Length
  BY Lengths
<1> DEFINE T == {m \in 1..(N + 1) : ~\E R : Reads(S, m, R)}
<1> SUFFICES ASSUME T # {} PROVE FALSE
  <2>1. 1 \in 1..(N + 1)
    OBVIOUS
  <2> QED
    BY <2>1
<1>1. PICK m \in T : \A l \in T : l <= m
  <2>1. T \subseteq 1..(N + 1) /\ N + 1 \in Nat
    OBVIOUS
  <2> HIDE DEF T
  <2> QED
    BY <2>1, Greatest
<1>2. m \in 1..(N + 1) /\ ~\E R : Reads(S, m, R)
  OBVIOUS
<1>3. CASE m = N + 1
  <2> DEFINE R == [i \in (N + 1)..(N + 1) |-> <<>>]
  <2>1. R[N + 1] = Reading(S, R, N + 1) /\ R[N + 1] = <<>>
    BY DEF Reading
  <2>2. Reads(S, N + 1, R)
    <3>1. \A i \in (N + 1)..(N + 1) : i = N + 1
      OBVIOUS
    <3> HIDE DEF R
    <3>2. R \in [(N + 1)..(N + 1) -> Seq(Nat)]
      BY DEF R
    <3> QED
      BY <2>1, <3>1, <3>2 DEF Reads
  <2> QED
    BY <1>2, <1>3, <2>2
<1>4. CASE m # N + 1
  <2>1. m + 1 \in 1..(N + 1) /\ m \in Nat /\ ~(m + 1 <= m)
    BY <1>2, <1>4
  <2>2. PICK Q : Reads(S, m + 1, Q)
    BY <1>1, <2>1
  <2> DEFINE R == [i \in m..(N + 1) |-> IF i = m THEN Reading(S, Q, m) ELSE Q[i]]
  <2>3. \A j \in (m + 1)..(N + 1) : Q[j] \in Seq(Nat) /\ Q[j] = Reading(S, Q, j)
    BY <2>2 DEF Reads
  <2>4. \A j \in (m + 1)..(N + 1) : R[j] = Q[j]
    BY <2>1
  <2>5. R[m] = Reading(S, Q, m)
    BY <1>2
  <2>6. ASSUME NEW i \in m..(N + 1) PROVE R[i] \in Seq(Nat) /\ R[i] = Reading(S, R, i)
    <3>1. i \in 1..(N + 1) /\ \A j \in (i + 1)..(N + 1) : j \in (m + 1)..(N + 1)
      BY <1>2
    <3> HIDE DEF R
    <3>2. Reading(S, Q, i) \in Seq(Nat) /\ Reading(S, R, i) = Reading(S, Q, i)
      BY <2>3, <2>4, <3>1, ReadingIs
    <3>3. R[i] = Reading(S, Q, i)
      <4>1. i = m \/ i \in (m + 1)..(N + 1)
        BY <1>2
      <4> QED
        BY <2>3, <2>4, <2>5, <4>1
    <3> QED
      BY <3>2, <3>3
  <2>7. DOMAIN R = m..(N + 1) /\ R = [i \in m..(N + 1) |-> R[i]]
    OBVIOUS
  <2> HIDE DEF R
  <2>8. R \in [m..(N + 1) -> Seq(Nat)]
    BY <2>6, <2>7
  <2>9. Reads(S, m, R)
    BY <2>6, <2>8 DEF Reads
  <2> QED
    BY <1>2, <2>9
<1> QED
  BY <1>3, <1>4

\* The equation that Expected's function is chosen by.
Equation(S, R) == R = [i \in 1..(Length + 1) |-> Reading(S, R, i)]

LEMMA ExpectedIs ==
  ASSUME NEW S \in SUBSET Call!Spans
  PROVE  \E R : Reads(S, 1, R) /\ Call!Expected(S) = R[1]
<1> PICK N \in Nat : N = Length
  BY Lengths
<1>1. PICK Q : Reads(S, 1, Q)
  BY ReadsExist
<1>2. Equation(S, Q)
  <2> DEFINE g == [i \in 1..(N + 1) |-> Reading(S, Q, i)]
  <2>1. \A i \in 1..(N + 1) : Q[i] = g[i]
    BY <1>1 DEF Reads
  <2>2. Q \in [1..(N + 1) -> Seq(Nat)]
    BY <1>1 DEF Reads
  <2>3. DOMAIN g = 1..(N + 1) /\ DOMAIN Q = 1..(N + 1) /\ Q = [i \in 1..(N + 1) |-> Q[i]]
    BY <2>2
  <2>4. Q = g
    BY <2>1, <2>3
  <2> QED
    BY <2>4 DEF Equation
<1> DEFINE R == CHOOSE R : Equation(S, R)
<1>3. Equation(S, R)
  BY <1>2
<1>4. Call!Expected(S) = R[1]
  BY DEF Call!Expected, Equation, Reading, IsFrom
<1> HIDE DEF R
<1>5. \A i \in 1..(N + 1) : R[i] = Reading(S, R, i)
  BY <1>3 DEF Equation
<1>6. \A i \in 1..(N + 1) : R[i] = Q[i]
  <2> DEFINE T == {i \in 1..(N + 1) : R[i] # Q[i]}
  <2> SUFFICES ASSUME T # {} PROVE FALSE
    OBVIOUS
  <2>1. PICK m \in T : \A l \in T : l <= m
    <3>1. T \subseteq 1..(N + 1) /\ N + 1 \in Nat
      OBVIOUS
    <3> HIDE DEF T
    <3> QED
      BY <3>1, Greatest
  <2>2. m \in 1..(N + 1) /\ R[m] # Q[m]
    OBVIOUS
  <2>3. \A j \in (m + 1)..(N + 1) : j \in 1..(N + 1) /\ ~(j <= m)
    BY <2>2
  <2>4. \A j \in (m + 1)..(N + 1) : R[j] = Q[j]
    BY <2>1, <2>3
  <2>5. \A i \in 1..(N + 1) : Q[i] \in Seq(Nat) /\ Q[i] = Reading(S, Q, i)
    BY <1>1 DEF Reads
  <2>6. Reading(S, R, m) = Reading(S, Q, m)
    BY <2>2, <2>3, <2>4, <2>5, ReadingIs
  <2> QED
    BY <1>5, <2>2, <2>5, <2>6
<1>7. DOMAIN R = 1..(N + 1) /\ R = [i \in 1..(N + 1) |-> R[i]]
  BY <1>3 DEF Equation
<1>8. R \in [1..(N + 1) -> Seq(Nat)]
  <2>1. \A i \in 1..(N + 1) : R[i] \in Seq(Nat)
    BY <1>1, <1>6 DEF Reads
  <2> QED
    BY <1>7, <2>1
<1>9. Reads(S, 1, R)
  BY <1>5, <1>8 DEF Reads
<1> QED
  BY <1>4, <1>9

\* What is read holds no first character of a span.
LEMMA NoneRead ==
  ASSUME NEW S \in SUBSET Call!Spans, NEW R, Reads(S, 1, R), NEW i \in 1..(Length + 1), NEW s \in S
  PROVE  Lacks(R[i], s.from)
<1> PICK N \in Nat : N = Length
  BY Lengths
<1> DEFINE T == {j \in 1..(N + 1) : ~Lacks(R[j], s.from)}
<1> SUFFICES ASSUME T # {} PROVE FALSE
  <2>1. i \notin T
    OBVIOUS
  <2> QED
    BY <2>1
<1>1. PICK m \in T : \A l \in T : l <= m
  <2>1. T \subseteq 1..(N + 1) /\ N + 1 \in Nat
    OBVIOUS
  <2> HIDE DEF T
  <2> QED
    BY <2>1, Greatest
<1>2. m \in 1..(N + 1) /\ ~Lacks(R[m], s.from)
  OBVIOUS
<1>3. \A j \in 1..(N + 1) : j > m => Lacks(R[j], s.from)
  <2> SUFFICES ASSUME NEW j \in 1..(N + 1), j > m PROVE Lacks(R[j], s.from)
    OBVIOUS
  <2>1. j \notin T
    BY <1>1, <1>2
  <2> QED
    BY <2>1
<1>4. R[m] = Reading(S, R, m) /\ \A j \in 1..(N + 1) : R[j] \in Seq(Nat)
  BY <1>2 DEF Reads
<1>5. s.from \in Nat /\ s.from >= 1
  BY SpansAre DEF TextSpan
<1>6. CASE m = N + 1
  <2>1. R[m] = <<>>
    BY <1>4, <1>6 DEF Reading
  <2> QED
    BY <1>2, <2>1 DEF Lacks
<1>7. CASE m # N + 1 /\ IsFrom(S, m)
  <2>1. PICK r : r = CHOOSE x \in S : x.from = m
    OBVIOUS
  <2>2. r \in S /\ r.from = m
    BY <1>7, <2>1 DEF IsFrom
  <2>3. r.to \in 1..(N + 1) /\ r.to > m
    BY <2>2, SpansAre DEF TextSpan
  <2>4. R[m] = Call!Placeholder \o R[r.to]
    BY <1>4, <1>7, <2>1 DEF Reading
  <2>5. Lacks(R[r.to], s.from) /\ R[r.to] \in Seq(Nat)
    BY <1>3, <1>4, <2>3
  <2>6. Lacks(Call!Placeholder, s.from) /\ Call!Placeholder \in Seq(Nat)
    BY <1>5, PlaceholderText DEF Lacks
  <2>7. Lacks(Call!Placeholder \o R[r.to], s.from)
    BY <2>5, <2>6, LacksBoth
  <2> QED
    BY <1>2, <2>4, <2>7
<1>8. CASE m # N + 1 /\ ~IsFrom(S, m)
  <2>1. m + 1 \in 1..(N + 1) /\ m + 1 > m /\ m \in Nat
    BY <1>2, <1>8
  <2>2. R[m] = <<m>> \o R[m + 1]
    BY <1>4, <1>8 DEF Reading
  <2>3. Lacks(R[m + 1], s.from) /\ R[m + 1] \in Seq(Nat)
    BY <1>3, <1>4, <2>1
  <2>4. m # s.from
    BY <1>8 DEF IsFrom
  <2>5. Lacks(<<m>> \o R[m + 1], s.from)
    <3>1. <<m>> \in Seq(Nat) /\ Lacks(<<m>>, s.from)
      BY <2>1, <2>4 DEF Lacks
    <3> QED
      BY <2>3, <3>1, LacksBoth
  <2> QED
    BY <1>2, <2>2, <2>5
<1> QED
  BY <1>6, <1>7, <1>8

\* Up to the next span the original is read as it is.
LEMMA ReadOn ==
  ASSUME NEW S \in SUBSET Call!Spans, NEW R, Reads(S, 1, R),
         NEW i \in 1..(Length + 1), NEW j \in i..(Length + 1),
         \A s \in S : ~(i <= s.from /\ s.from < j)
  PROVE  R[i] = Run(i, j) \o R[j]
<1> PICK N \in Nat : N = Length
  BY Lengths
<1> DEFINE T == {l \in 1..(N + 1) : i <= l /\ l <= j /\ R[l] # Run(l, j) \o R[j]}
<1> SUFFICES ASSUME T # {} PROVE FALSE
  <2>1. i \notin T
    OBVIOUS
  <2>2. i \in 1..(N + 1) /\ i <= i /\ i <= j
    OBVIOUS
  <2> QED
    BY <2>1, <2>2
<1>1. PICK m \in T : \A l \in T : l <= m
  <2>1. T \subseteq 1..(N + 1) /\ N + 1 \in Nat
    OBVIOUS
  <2> HIDE DEF T
  <2> QED
    BY <2>1, Greatest
<1>2. m \in 1..(N + 1) /\ i <= m /\ m <= j /\ R[m] # Run(m, j) \o R[j]
  OBVIOUS
<1>3. \A l \in 1..(N + 1) : R[l] \in Seq(Nat)
  BY DEF Reads
<1>4. j \in 1..(N + 1) /\ j \in Nat
  OBVIOUS
<1>5. CASE m = j
  <2>1. Run(m, j) \in Seq(Nat) /\ Len(Run(m, j)) = 0
    <3>1. m \in Nat /\ m <= j /\ j - m = 0
      BY <1>2, <1>4, <1>5
    <3> QED
      BY <1>4, <3>1, RunIs
  <2>2. Run(m, j) = <<>>
    BY <2>1, SameText
  <2>3. R[j] \in Seq(Nat)
    BY <1>3, <1>4
  <2> QED
    BY <1>2, <1>5, <2>2, <2>3, ConcatEmptySeq
<1>6. CASE m # j
  <2>1. m + 1 \in 1..(N + 1) /\ m < j /\ m # N + 1 /\ m \in Nat /\ ~(m + 1 <= m) /\ m + 1 <= j /\ i <= m + 1
    BY <1>2, <1>4, <1>6
  <2>2. R[m + 1] = Run(m + 1, j) \o R[j]
    <3>1. m + 1 \notin T
      <4> HIDE DEF T
      <4> QED
        BY <1>1, <2>1
    <3> QED
      BY <2>1, <3>1
  <2>3. ~IsFrom(S, m)
    BY <1>2, <2>1 DEF IsFrom
  <2>4. R[m] = <<m>> \o R[m + 1]
    <3>1. R[m] = Reading(S, R, m)
      BY <1>2 DEF Reads
    <3> QED
      BY <2>1, <2>3, <3>1 DEF Reading
  <2>5. Run(m + 1, j) \in Seq(Nat) /\ R[j] \in Seq(Nat) /\ <<m>> \in Seq(Nat)
    <3>1. m + 1 \in Nat
      BY <2>1
    <3>2. Run(m + 1, j) \in Seq(Nat)
      BY <1>4, <2>1, <3>1, RunIs
    <3> QED
      BY <1>3, <1>4, <2>1, <3>2
  <2>6. (<<m>> \o Run(m + 1, j)) \o R[j] = <<m>> \o (Run(m + 1, j) \o R[j])
    BY <2>5, TextsJoin
  <2>7. <<m>> \o Run(m + 1, j) = Run(m, j)
    BY <1>4, <2>1, RunStep
  <2> QED
    BY <1>2, <2>2, <2>4, <2>6, <2>7
<1> QED
  BY <1>5, <1>6

\* The text once all spans from f on are cut out.
CutFrom(R, f) == Run(1, f) \o R[f]

LEMMA CutOne ==
  ASSUME NEW S \in SUBSET Call!Spans, Call!Disjoint(S), NEW R, Reads(S, 1, R),
         NEW m \in S, NEW f \in 1..(Length + 1), m.to <= f,
         \A s \in S : ~(m.to <= s.from /\ s.from < f)
  PROVE  Call!Cut(CutFrom(R, f), m) = CutFrom(R, m.from)
<1> PICK N \in Nat : N = Length
  BY Lengths
<1>1. /\ m.from \in 1..N /\ m.to \in 1..(N + 1) /\ m.from < m.to /\ m.from <= f
      /\ f \in Nat /\ m.from \in Nat /\ m.to \in Nat /\ m.from >= 1 /\ m.to >= 1
  BY SpansAre DEF TextSpan
<1>2. \A l \in 1..(N + 1) : R[l] \in Seq(Nat)
  BY DEF Reads
<1>3. R[f] \in Seq(Nat) /\ R[m.to] \in Seq(Nat)
  BY <1>1, <1>2
<1>4. SubSeq(CutFrom(R, f), 1, m.from - 1) = Run(1, m.from)
  BY <1>1, <1>3, CutBefore DEF CutFrom
<1>5. SubSeq(CutFrom(R, f), m.to, Len(CutFrom(R, f))) = R[m.to]
  <2>1. SubSeq(CutFrom(R, f), m.to, Len(CutFrom(R, f))) = Run(m.to, f) \o R[f]
    BY <1>1, <1>3, CutAfter DEF CutFrom
  <2>2. f \in (m.to)..(N + 1)
    BY <1>1
  <2> QED
    BY <1>1, <2>1, <2>2, ReadOn
<1>6. R[m.from] = Call!Placeholder \o R[m.to]
  <2>1. IsFrom(S, m.from) /\ m.from # N + 1 /\ m.from \in 1..(N + 1)
    BY <1>1 DEF IsFrom
  <2>2. (CHOOSE x \in S : x.from = m.from) = m
    <3> PICK y : y = CHOOSE x \in S : x.from = m.from
      OBVIOUS
    <3>1. y \in S /\ y.from = m.from
      OBVIOUS
    <3>2. y = m
      <4> SUFFICES ASSUME y # m PROVE FALSE
        OBVIOUS
      <4>1. y.to <= m.from \/ m.to <= y.from
        BY <3>1, Apart
      <4>2. y.from < y.to /\ y.to \in Nat
        BY <3>1, SpansAre, Lengths DEF TextSpan
      <4> QED
        BY <1>1, <3>1, <4>1, <4>2
    <3> QED
      BY <3>2
  <2>3. R[m.from] = Reading(S, R, m.from)
    BY <2>1 DEF Reads
  <2> QED
    BY <2>1, <2>2, <2>3 DEF Reading
<1>7. Call!Cut(CutFrom(R, f), m) = (Run(1, m.from) \o Call!Placeholder) \o R[m.to]
  BY <1>4, <1>5 DEF Call!Cut
<1>8. (Run(1, m.from) \o Call!Placeholder) \o R[m.to] = Run(1, m.from) \o (Call!Placeholder \o R[m.to])
  <2>1. Run(1, m.from) \in Seq(Nat)
    BY <1>1, RunFromOne
  <2> QED
    BY <1>3, <2>1, PlaceholderText, TextsJoin
<1> QED
  BY <1>6, <1>7, <1>8 DEF CutFrom

(* ---- one after the other ------------------------------------------------------ *)

CutsMade(txt, ms, n, g) ==
  /\ g[0] = txt
  /\ \A k \in 1..n : g[k] = Call!Cut(g[k - 1], ms[k])

CutEquation(txt, ms, g) ==
  g = [k \in 0..Len(ms) |-> IF k = 0 THEN txt ELSE Call!Cut(g[k - 1], ms[k])]

LEMMA CutAllIs ==
  ASSUME NEW txt, NEW ms, Len(ms) \in Nat
  PROVE  \E g : CutsMade(txt, ms, Len(ms), g) /\ Call!CutAll(txt, ms) = g[Len(ms)]
<1> PICK K \in Nat : K = Len(ms)
  OBVIOUS
<1>1. \E h : DOMAIN h = 0..K /\ CutsMade(txt, ms, K, h)
  <2> DEFINE Some(m) == \E h : DOMAIN h = 0..m /\ CutsMade(txt, ms, m, h)
             T == {m \in Nat : m <= K /\ ~Some(m)}
  <2> SUFFICES ASSUME T # {} PROVE FALSE
    OBVIOUS
  <2>1. PICK m \in T : \A l \in T : m <= l
    <3>1. T \subseteq Nat
      OBVIOUS
    <3> HIDE DEF T
    <3> QED
      BY <3>1, Least
  <2>2. m \in Nat /\ m <= K /\ ~Some(m)
    OBVIOUS
  <2>3. CASE m = 0
    <3> DEFINE h == [k \in 0..0 |-> txt]
    <3>1. DOMAIN h = 0..0 /\ h[0] = txt
      OBVIOUS
    <3> HIDE DEF h
    <3>2. CutsMade(txt, ms, 0, h)
      BY <3>1 DEF CutsMade
    <3> QED
      BY <2>2, <2>3, <3>1, <3>2
  <2>4. CASE m # 0
    <3>1. m - 1 \in Nat /\ m - 1 <= K /\ ~(m <= m - 1)
      BY <2>2, <2>4
    <3>2. Some(m - 1)
      <4>1. m - 1 \notin T
        <5> HIDE DEF T
        <5> QED
          BY <2>1, <3>1
      <4> QED
        BY <3>1, <4>1
    <3>3. PICK f : DOMAIN f = 0..(m - 1) /\ CutsMade(txt, ms, m - 1, f)
      BY <3>2
    <3> DEFINE h == [k \in 0..m |-> IF k = m THEN Call!Cut(f[m - 1], ms[m]) ELSE f[k]]
    <3>4. DOMAIN h = 0..m /\ h[m] = Call!Cut(f[m - 1], ms[m]) /\ \A k \in 0..(m - 1) : h[k] = f[k]
      BY <2>2, <2>4
    <3> HIDE DEF h
    <3>5. h[0] = txt
      BY <2>2, <2>4, <3>3, <3>4 DEF CutsMade
    <3>6. ASSUME NEW k \in 1..m PROVE h[k] = Call!Cut(h[k - 1], ms[k])
      <4>1. k - 1 \in 0..(m - 1)
        BY <2>2
      <4>2. CASE k = m
        BY <3>4, <4>1, <4>2
      <4>3. CASE k # m
        <5>1. k \in 1..(m - 1) /\ k \in 0..(m - 1)
          BY <2>2, <4>3
        <5> QED
          BY <3>3, <3>4, <4>1, <5>1 DEF CutsMade
      <4> QED
        BY <4>2, <4>3
    <3>7. CutsMade(txt, ms, m, h)
      BY <3>5, <3>6 DEF CutsMade
    <3> QED
      BY <2>2, <3>4, <3>7
  <2> QED
    BY <2>3, <2>4
<1>2. PICK h : DOMAIN h = 0..K /\ CutsMade(txt, ms, K, h)
  BY <1>1
<1>3. \E g : CutEquation(txt, ms, g)
  <2> DEFINE g == [k \in 0..K |-> IF k = 0 THEN txt ELSE Call!Cut(h[k - 1], ms[k])]
  <2>1. \A k \in 0..K : g[k] = h[k]
    <3> SUFFICES ASSUME NEW k \in 0..K PROVE g[k] = h[k]
      OBVIOUS
    <3>1. k = 0 \/ k \in 1..K
      OBVIOUS
    <3> QED
      BY <1>2, <3>1 DEF CutsMade
  <2>2. \A k \in 0..K : k # 0 => h[k - 1] = g[k - 1]
    <3>1. \A k \in 0..K : k # 0 => k - 1 \in 0..K
      OBVIOUS
    <3> HIDE DEF g
    <3> QED
      BY <2>1, <3>1
  <2>3. g = [k \in 0..K |-> IF k = 0 THEN txt ELSE Call!Cut(g[k - 1], ms[k])]
    <3> PICK f : f = g
      OBVIOUS
    <3>1. f = [k \in 0..K |-> IF k = 0 THEN txt ELSE Call!Cut(f[k - 1], ms[k])]
      <4>1. \A k \in 0..K : f[k] = IF k = 0 THEN txt ELSE Call!Cut(f[k - 1], ms[k])
        <5> SUFFICES ASSUME NEW k \in 0..K PROVE f[k] = IF k = 0 THEN txt ELSE Call!Cut(f[k - 1], ms[k])
          OBVIOUS
        <5>1. f[k] = IF k = 0 THEN txt ELSE Call!Cut(h[k - 1], ms[k])
          OBVIOUS
        <5>2. k # 0 => h[k - 1] = f[k - 1]
          BY <2>2
        <5> HIDE DEF g
        <5> QED
          BY <5>1, <5>2
      <4>2. DOMAIN f = 0..K /\ f = [k \in 0..K |-> f[k]]
        OBVIOUS
      <4> HIDE DEF g
      <4> QED
        BY <4>1, <4>2
    <3> QED
      BY <3>1
  <2> HIDE DEF g
  <2> QED
    BY <2>3 DEF CutEquation
<1> DEFINE g == CHOOSE g : CutEquation(txt, ms, g)
<1>4. CutEquation(txt, ms, g)
  BY <1>3
<1>5. Call!CutAll(txt, ms) = g[K]
  BY DEF Call!CutAll, CutEquation
<1> HIDE DEF g
<1>6. \A k \in 0..K : g[k] = IF k = 0 THEN txt ELSE Call!Cut(g[k - 1], ms[k])
  BY <1>4 DEF CutEquation
<1>7. CutsMade(txt, ms, K, g)
  <2>1. 0 \in 0..K /\ \A k \in 1..K : k \in 0..K /\ k # 0
    OBVIOUS
  <2> QED
    BY <1>6, <2>1 DEF CutsMade
<1> QED
  BY <1>5, <1>7

\* Texts have finitely many places.
LEMMA PlacesFinite ==
  ASSUME NEW n \in Nat, NEW B, IsFiniteSet(B)
  PROVE  IsFiniteSet([by : B, from : 1..n, to : 2..(n + 1)])
<1> DEFINE P == (B \X (1..n)) \X (2..(n + 1))
           T == [by : B, from : 1..n, to : 2..(n + 1)]
           f == [p \in P |-> [by |-> p[1][1], from |-> p[1][2], to |-> p[2]]]
<1>1. IsFiniteSet(P)
  <2>1. IsFiniteSet(1..n) /\ IsFiniteSet(2..(n + 1))
    BY FS_Interval
  <2>2. IsFiniteSet(B \X (1..n))
    BY <2>1, FS_Product
  <2> QED
    BY <2>1, <2>2, FS_Product
<1>2. f \in [P -> T]
  OBVIOUS
<1>3. ASSUME NEW r \in T PROVE \E p \in P : f[p] = r
  <2>1. /\ r.by \in B /\ r.from \in 1..n /\ r.to \in 2..(n + 1)
        /\ r = [by |-> r.by, from |-> r.from, to |-> r.to]
    OBVIOUS
  <2>2. <<<<r.by, r.from>>, r.to>> \in P
    BY <2>1
  <2>3. f[<<<<r.by, r.from>>, r.to>>] = [by |-> r.by, from |-> r.from, to |-> r.to]
    BY <2>2
  <2> QED
    BY <2>1, <2>2, <2>3
<1> HIDE DEF f, P, T
<1>4. f \in Surjection(P, T)
  BY <1>2, <1>3 DEF Surjection
<1> USE DEF T
<1> QED
  BY <1>1, <1>4, FS_Surjection DEF T

LEMMA SpansFinite ==
  ASSUME NEW S \in SUBSET Call!Spans
  PROVE  IsFiniteSet(S)
<1>1. IsFiniteSet(1..Finders) /\ Length \in Nat
  BY Lengths, FS_Interval
<1>2. IsFiniteSet([by : 1..Finders, from : 1..Length, to : 2..(Length + 1)])
  BY <1>1, PlacesFinite
<1>3. S \subseteq [by : 1..Finders, from : 1..Length, to : 2..(Length + 1)]
  BY DEF Call!Spans
<1> QED
  BY <1>2, <1>3, FS_Subset

\* A list of all the spans: no two places have one, and each has a place.
AllListed(S, n, o) ==
  /\ o \in [1..n -> S]
  /\ \A i, j \in 1..n : i # j => o[i] # o[j]
  /\ \A s \in S : \E i \in 1..n : o[i] = s

LEMMA OrdersList ==
  ASSUME NEW S, IsFiniteSet(S), NEW o \in Call!Orders(S)
  PROVE  \E n \in Nat : AllListed(S, n, o) /\ Len(o) = n
<1>1. PICK n \in Nat : n = Cardinality(S)
  BY FS_CardinalityType
<1>2. o \in [1..n -> S] /\ \A i, j \in 1..n : i # j => o[i] # o[j]
  <2>1. Call!Cardinality(S) = Cardinality(S)
    BY Zenon DEF Call!Cardinality, Cardinality
  <2> QED
    BY <1>1, <2>1 DEF Call!Orders, Call!Injection, Call!IsInjective
<1>3. o \in Injection(1..n, S)
  BY <1>2 DEF Injection, IsInjective
<1>4. IsFiniteSet(1..n) /\ Cardinality(1..n) = n
  BY FS_Interval
<1>5. o \in Surjection(1..n, S)
  BY <1>1, <1>3, <1>4, FS_Injection
<1>6. \A s \in S : \E i \in 1..n : o[i] = s
  BY <1>5 DEF Surjection
<1>7. Len(o) = n
  BY <1>2
<1> QED
  BY <1>2, <1>6, <1>7 DEF AllListed

\* Of spans in the order of their places, from the last to the first.
LEMMA LastToFirst ==
  ASSUME NEW S \in SUBSET Call!Spans, Call!Disjoint(S), NEW n \in Nat, NEW o, AllListed(S, n, o),
         \A i, j \in 1..n : i < j => o[i].from >= o[j].from
  PROVE  \A i, j \in 1..n : i < j => o[j].to <= o[i].from
<1> SUFFICES ASSUME NEW i \in 1..n, NEW j \in 1..n, i < j PROVE o[j].to <= o[i].from
  OBVIOUS
<1>1. o[i] \in S /\ o[j] \in S /\ o[i] # o[j]
  BY DEF AllListed
<1>2. o[j].to <= o[i].from \/ o[i].to <= o[j].from
  BY <1>1, Apart
<1>3. TextSpan(o[i]) /\ TextSpan(o[j]) /\ Length \in Nat
  BY <1>1, SpansAre, Lengths
<1> QED
  BY <1>2, <1>3 DEF TextSpan

LEMMA RedactedOnce ==
  ASSUME NEW S \in SUBSET Call!Spans, Call!Disjoint(S)
  PROVE  Call!Redacted(Call!Original, S) \subseteq {Call!Expected(S)}
<1>1. PICK N \in Nat : N = Length
  BY Lengths
<1> SUFFICES ASSUME NEW o \in Call!Orders(S), \A i, j \in DOMAIN o : i < j => Call!Before(o[i], o[j])
             PROVE  Call!CutAll(Call!Original, o) = Call!Expected(S)
  BY DEF Call!Redacted
<1>2. PICK n \in Nat : AllListed(S, n, o) /\ Len(o) = n
  BY SpansFinite, OrdersList
<1>3. DOMAIN o = 1..n
  BY <1>2 DEF AllListed
<1>4. PICK R : Reads(S, 1, R) /\ Call!Expected(S) = R[1]
  BY ExpectedIs
<1>5. PICK g : CutsMade(Call!Original, o, n, g) /\ Call!CutAll(Call!Original, o) = g[n]
  BY <1>2, CutAllIs
<1>7. \A i \in 1..n : o[i] \in S /\ TextSpan(o[i])
  BY <1>2, SpansAre DEF AllListed
<1>6. \A i, j \in 1..n : i < j => o[j].to <= o[i].from
  <2>1. \A i, j \in 1..n : i < j => o[i].from >= o[j].from
    BY <1>3, <1>7 DEF Call!Before, TextSpan
  <2> QED
    BY <1>2, <2>1, LastToFirst
<1> DEFINE left(k) == IF k = 0 THEN N + 1 ELSE o[k].from
<1>8. \A k \in 0..n : left(k) \in 1..(N + 1)
  BY <1>1, <1>7 DEF TextSpan
<1>9. R[N + 1] = <<>> /\ \A l \in 1..(N + 1) : R[l] \in Seq(Nat)
  <2>1. R[N + 1] = Reading(S, R, N + 1) /\ \A l \in 1..(N + 1) : R[l] \in Seq(Nat)
    BY <1>1, <1>4 DEF Reads
  <2> QED
    BY <1>1, <2>1 DEF Reading
<1>10. \A k \in 0..n : g[k] = CutFrom(R, left(k))
  <2> DEFINE T == {k \in Nat : k <= n /\ g[k] # CutFrom(R, left(k))}
  <2> SUFFICES ASSUME T # {} PROVE FALSE
    OBVIOUS
  <2>1. PICK k \in T : \A l \in T : k <= l
    <3>1. T \subseteq Nat
      OBVIOUS
    <3> HIDE DEF T
    <3> QED
      BY <3>1, Least
  <2>2. k \in Nat /\ k <= n /\ g[k] # CutFrom(R, left(k))
    OBVIOUS
  <2>3. CASE k = 0
    <3>1. g[0] = Call!Original /\ left(0) = N + 1
      BY <1>5 DEF CutsMade
    <3>2. Call!Original = Run(1, N + 1)
      <4>1. /\ Call!Original \in Seq(Nat) /\ Len(Call!Original) = N
            /\ \A i \in 1..N : Call!Original[i] = i
        BY <1>1 DEF Call!Original
      <4>2. N + 1 \in Nat /\ N + 1 >= 1 /\ N + 1 - 1 = N
        BY <1>1
      <4>3. Run(1, N + 1) \in Seq(Nat) /\ Len(Run(1, N + 1)) = N /\ \A i \in 1..N : Run(1, N + 1)[i] = i
        BY <4>2, RunFromOne
      <4> QED
        BY <4>1, <4>3, SameText
    <3>3. Run(1, N + 1) \o <<>> = Run(1, N + 1)
      <4>1. Run(1, N + 1) \in Seq(Nat)
        <5>1. N + 1 \in Nat /\ N + 1 >= 1
          BY <1>1
        <5> QED
          BY <5>1, RunFromOne
      <4> QED
        BY <4>1, ConcatEmptySeq
    <3> QED
      BY <1>9, <2>2, <2>3, <3>1, <3>2, <3>3 DEF CutFrom
  <2>4. CASE k # 0
    <3>1. k - 1 \in 0..n /\ k \in 1..n /\ ~(k <= k - 1) /\ k - 1 \in Nat /\ k - 1 <= n
      BY <2>2, <2>4
    <3>2. g[k - 1] = CutFrom(R, left(k - 1))
      <4>1. k - 1 \notin T
        <5> HIDE DEF T
        <5> QED
          BY <2>1, <3>1
      <4> QED
        BY <3>1, <4>1
    <3>3. g[k] = Call!Cut(g[k - 1], o[k])
      BY <1>5, <3>1 DEF CutsMade
    <3>4. left(k - 1) \in 1..(Length + 1) /\ o[k] \in S
      BY <1>1, <1>7, <1>8, <3>1
    <3>5. o[k].to <= left(k - 1)
      <4>1. CASE k - 1 = 0
        BY <1>1, <1>7, <3>1, <4>1 DEF TextSpan
      <4>2. CASE k - 1 # 0
        <5>1. k - 1 \in 1..n /\ k - 1 < k
          BY <3>1, <4>2
        <5> QED
          BY <1>6, <3>1, <4>2, <5>1
      <4> QED
        BY <4>1, <4>2
    <3>6. \A s \in S : ~(o[k].to <= s.from /\ s.from < left(k - 1))
      <4> SUFFICES ASSUME NEW s \in S, o[k].to <= s.from, s.from < left(k - 1) PROVE FALSE
        OBVIOUS
      <4>1. PICK i \in 1..n : o[i] = s
        BY <1>2 DEF AllListed
      <4>2. TextSpan(o[i]) /\ TextSpan(o[k])
        BY <1>7, <3>1
      <4>3. CASE i < k
        <5>1. k - 1 # 0 /\ k - 1 \in 1..n /\ (i = k - 1 \/ i < k - 1)
          BY <3>1, <4>3
        <5>2. CASE i = k - 1
          BY <4>1, <4>2, <5>1, <5>2 DEF TextSpan
        <5>3. CASE i < k - 1
          <6>1. o[k - 1].to <= o[i].from /\ TextSpan(o[k - 1])
            BY <1>6, <1>7, <5>1, <5>3
          <6> QED
            BY <1>1, <4>1, <4>2, <5>1, <6>1 DEF TextSpan
        <5> QED
          BY <5>1, <5>2, <5>3
      <4>4. CASE i = k
        BY <1>1, <4>1, <4>2, <4>4 DEF TextSpan
      <4>5. CASE i > k
        <5>1. o[i].to <= o[k].from
          BY <1>6, <3>1, <4>5
        <5> QED
          BY <1>1, <4>1, <4>2, <5>1 DEF TextSpan
      <4> QED
        BY <3>1, <4>3, <4>4, <4>5
    <3>7. Call!Cut(CutFrom(R, left(k - 1)), o[k]) = CutFrom(R, o[k].from)
      <4> HIDE DEF left, T
      <4> QED
        BY <1>4, <3>4, <3>5, <3>6, CutOne
    <3> QED
      BY <2>2, <2>4, <3>2, <3>3, <3>7
  <2> QED
    BY <2>3, <2>4
<1>11. R[1] = CutFrom(R, left(n))
  <2>1. left(n) \in 1..(Length + 1) /\ 1 \in 1..(Length + 1)
    BY <1>1, <1>8
  <2>2. \A s \in S : ~(1 <= s.from /\ s.from < left(n))
    <3> SUFFICES ASSUME NEW s \in S, s.from < left(n) PROVE FALSE
      OBVIOUS
    <3>1. PICK i \in 1..n : o[i] = s
      BY <1>2 DEF AllListed
    <3>2. n # 0 /\ n \in 1..n /\ TextSpan(o[i]) /\ TextSpan(o[n])
      BY <1>7
    <3>3. CASE i = n
      BY <1>1, <3>1, <3>2, <3>3 DEF TextSpan
    <3>4. CASE i < n
      <4>1. o[n].to <= o[i].from
        BY <1>6, <3>2, <3>4
      <4> QED
        BY <1>1, <3>1, <3>2, <4>1 DEF TextSpan
    <3> QED
      BY <3>3, <3>4
  <2> HIDE DEF left
  <2> QED
    BY <1>4, <2>1, <2>2, ReadOn DEF CutFrom
<1> QED
  BY <1>4, <1>5, <1>10, <1>11

\* The secrets stand in the original where they are, and in what is expected not
\* at all.
LEMMA MatchesOriginal ==
  ASSUME NEW S \in SUBSET Call!Spans
  PROVE  Call!Matches(Call!Original, S) = S
<1>1. PICK N \in Nat : N = Length
  BY Lengths
<1>2. PICK t : t = Call!Original
  OBVIOUS
<1>3. DOMAIN t = 1..N /\ Len(t) = N /\ \A i \in 1..N : t[i] = i
  BY <1>1, <1>2 DEF Call!Original
<1>4. ASSUME NEW s \in S PROVE Call!Found(t, s) = {s}
  <2>1. s \in Call!Spans /\ TextSpan(s)
    BY SpansAre
  <2>2. s \in [by : {s.by}, from : 1..N, to : 2..(N + 1)]
    BY <1>1, <2>1 DEF Call!Spans
  <2>3. s \in Call!Found(t, s)
    <3>1. \A k \in 0..(s.to - s.from - 1) : s.from + k \in 1..N
      BY <1>1, <2>1 DEF TextSpan
    <3>2. s \in [by : {s.by}, from : DOMAIN t, to : 2..(Len(t) + 1)]
      BY <1>3, <2>2
    <3> QED
      BY <1>3, <3>1, <3>2 DEF Call!Found
  <2>4. ASSUME NEW m \in Call!Found(t, s) PROVE m = s
    <3>1. /\ m \in [by : {s.by}, from : 1..N, to : 2..(N + 1)]
          /\ m.to - m.from = s.to - s.from
          /\ \A k \in 0..(s.to - s.from - 1) : t[m.from + k] = s.from + k
      BY <1>3 DEF Call!Found
    <3>2. 0 \in 0..(s.to - s.from - 1)
      BY <1>1, <2>1 DEF TextSpan
    <3>3. m.from = s.from
      <4>1. t[m.from + 0] = s.from + 0
        BY <3>1, <3>2
      <4>2. m.from \in 1..N /\ m.from + 0 = m.from /\ s.from + 0 = s.from
        BY <1>1, <2>1, <3>1 DEF TextSpan
      <4> QED
        BY <1>3, <4>1, <4>2
    <3>4. m.to = s.to
      <4>1. m.to \in Int /\ s.to \in Int /\ s.from \in Int
        BY <1>1, <2>1, <3>1 DEF TextSpan
      <4> QED
        BY <3>1, <3>3, <4>1
    <3> QED
      BY <2>2, <3>1, <3>3, <3>4
  <2> QED
    BY <2>3, <2>4
<1>5. Call!Matches(t, S) = S
  BY <1>4 DEF Call!Matches
<1> QED
  BY <1>2, <1>5

LEMMA NoneExpected ==
  ASSUME NEW S \in SUBSET Call!Spans
  PROVE  /\ Call!Matches(Call!Expected(S), S) = {}
         /\ S # {} => Call!Expected(S) # Call!Original
<1>1. PICK N \in Nat : N = Length
  BY Lengths
<1>2. PICK R : Reads(S, 1, R) /\ Call!Expected(S) = R[1]
  BY ExpectedIs
<1>3. PICK t : t = R[1]
  OBVIOUS
<1>4. 1 \in 1..(Length + 1)
  BY <1>1
<1>5. t \in Seq(Nat) /\ DOMAIN t = 1..Len(t) /\ \A s \in S : Lacks(t, s.from)
  <2>1. t \in Seq(Nat)
    BY <1>2, <1>3, <1>4 DEF Reads
  <2>2. \A s \in S : Lacks(t, s.from)
    BY <1>2, <1>3, <1>4, NoneRead
  <2> QED
    BY <2>1, <2>2
<1>6. ASSUME NEW s \in S PROVE Call!Found(t, s) = {}
  <2> SUFFICES ASSUME NEW m \in Call!Found(t, s) PROVE FALSE
    OBVIOUS
  <2>1. TextSpan(s)
    BY SpansAre
  <2>2. m.from \in DOMAIN t /\ \A k \in 0..(s.to - s.from - 1) : t[m.from + k] = s.from + k
    BY DEF Call!Found
  <2>3. 0 \in 0..(s.to - s.from - 1)
    BY <1>1, <2>1 DEF TextSpan
  <2>4. t[m.from + 0] = s.from + 0
    BY <2>2, <2>3
  <2>5. m.from \in 1..Len(t) /\ m.from + 0 = m.from /\ s.from + 0 = s.from
    BY <1>1, <1>5, <2>1, <2>2 DEF TextSpan
  <2> QED
    BY <1>5, <2>4, <2>5 DEF Lacks
<1>7. Call!Matches(t, S) = {}
  BY <1>6 DEF Call!Matches
<1>8. ASSUME NEW s \in S PROVE t # Call!Original
  <2>1. s.from \in 1..N
    BY <1>1, SpansAre DEF TextSpan
  <2>2. Len(Call!Original) = N /\ Call!Original[s.from] = s.from
    BY <1>1, <2>1 DEF Call!Original
  <2> QED
    BY <1>5, <2>1, <2>2 DEF Lacks
<1> QED
  BY <1>2, <1>3, <1>7, <1>8

\* Without a match nothing is replaced.
LEMMA RedactedNone ==
  ASSUME NEW t
  PROVE  Call!Redacted(t, {}) \subseteq {t}
<1> SUFFICES ASSUME NEW o \in Call!Orders({}) PROVE Call!CutAll(t, o) = t
  BY DEF Call!Redacted
<1>1. IsFiniteSet({})
  BY FS_EmptySet
<1>2. PICK n \in Nat : AllListed({}, n, o) /\ Len(o) = n
  BY <1>1, OrdersList
<1>3. n = 0
  <2> SUFFICES ASSUME n # 0 PROVE FALSE
    OBVIOUS
  <2>1. 1 \in 1..n
    OBVIOUS
  <2>2. o[1] \in {}
    BY <1>2, <2>1 DEF AllListed
  <2> QED
    BY <2>2
<1>4. PICK g : CutsMade(t, o, n, g) /\ Call!CutAll(t, o) = g[n]
  BY <1>2, CutAllIs
<1> QED
  BY <1>3, <1>4 DEF CutsMade

\* What a scan makes of a result that is as it was, or redacted already.
LEMMA ScanMakes ==
  ASSUME NEW S \in SUBSET Call!Spans, Call!Disjoint(S), NEW t \in {Call!Original, Call!Expected(S)}
  PROVE  /\ Call!Redacted(t, Call!Matches(t, S)) \subseteq {Call!Expected(S)}
         /\ Call!Matches(t, S) = {} => t = Call!Expected(S)
         /\ Call!Matches(t, S) # {} => t = Call!Original /\ Call!Expected(S) # Call!Original
<1>1. CASE t = Call!Expected(S)
  <2>1. Call!Matches(t, S) = {}
    BY <1>1, NoneExpected
  <2> QED
    BY <1>1, <2>1, RedactedNone
<1>2. CASE t = Call!Original
  <2>1. Call!Matches(t, S) = S
    BY <1>2, MatchesOriginal
  <2>2. Call!Redacted(t, S) \subseteq {Call!Expected(S)}
    BY <1>2, RedactedOnce
  <2>3. S = {} => t = Call!Expected(S)
    <3> SUFFICES ASSUME S = {} PROVE t = Call!Expected(S)
      OBVIOUS
    <3>1. PICK o : o \in Call!Redacted(t, S)
      <4>1. Call!CutAll(t, <<>>) \in Call!Redacted(t, {})
        <5>1. <<>> \in Call!Orders({})
          <6>1. Call!Cardinality({}) = 0
            <7>1. Call!Cardinality({}) = Cardinality({})
              BY Zenon DEF Call!Cardinality, Cardinality
            <7> QED
              BY <7>1, FS_EmptySet
          <6> QED
            BY <6>1 DEF Call!Orders, Call!Injection, Call!IsInjective
        <5> QED
          BY <5>1 DEF Call!Redacted
      <4> QED
        BY <4>1
    <3>2. o = t
      BY <3>1, RedactedNone
    <3> QED
      BY <2>2, <3>1, <3>2
  <2>4. S # {} => Call!Expected(S) # Call!Original
    BY NoneExpected
  <2> QED
    BY <1>2, <2>1, <2>2, <2>3, <2>4
<1> QED
  BY <1>1, <1>2

(* ---- the result on its way up --------------------------------------------------- *)

\* The middleware at place i looks for secrets in results of this shape.
Redacts(i) ==
  \/ call.chain[i] \in {"scanner", "transform"} /\ call.shape \in {"string", "output"}
  \/ call.chain[i] = "redaction" /\ call.shape = "string"

RedactorPassed == \E i \in DOMAIN call.chain : i > at /\ Redacts(i)

Quiet == Call!Disjoint(call.secrets) /\ (call.tirith = "detect" \/ call.threats = {})

Decision ==
  {"INITIATED", "DANGEROUS_COMMAND", "BLOCKED", "AUDIT", "COMPLETED", "ALLOWED", "TIRITH_DETECT",
   "OUTPUT_REDACTED"}

OnRecord(es) == "OUTPUT_REDACTED" \in Call!Range(es)

\* The result has lost its secrets once it has passed who looks for them, and
\* where the scanner is the only one, that is on record.
ResultSoFar ==
  /\ result = IF RedactorPassed THEN Call!Expected(call.secrets) ELSE Call!Original
  /\ Call!In("scanner") /\ ~Call!In("redaction") /\ call.trail => (OnRecord(entries) <=> result # Call!Original)

RedactInv ==
  /\ call.chain \in Chains /\ call.secrets \in SUBSET Call!Spans
  /\ entries \in Seq(Decision)
  /\ step = "pre" => ~OnRecord(entries)
  /\ step \in {"post", "returned"} => at \in 0..Len(call.chain)
  /\ step = "returned" => at = 0
  /\ Quiet /\ step \in {"post", "returned"} => ResultSoFar

\* No chain has the scanner together with the plugin.
LEMMA ChainFacts ==
  ASSUME NEW c \in Chains
  PROVE  /\ DOMAIN c = 1..Len(c) /\ Len(c) \in Nat
         /\ \A i, j \in DOMAIN c : c[i] = "scanner" => c[j] # "transform"
<1>1. DOMAIN c = 1..Len(c) /\ Len(c) \in Nat
  BY ChainsType
<1>2. \A i, j \in DOMAIN c : c[i] = "scanner" => c[j] # "transform"
  BY DEF Chains
<1> QED
  BY <1>1, <1>2

LEMMA DecisionAdded ==
  ASSUME NEW es \in Seq(Decision), NEW d \in Decision
  PROVE  Append(es, d) \in Seq(Decision) /\ (OnRecord(Append(es, d)) <=> OnRecord(es) \/ d = "OUTPUT_REDACTED")
<1>1. PICK x : x = Append(es, d)
  OBVIOUS
<1>2. PICK n \in Nat : n = Len(es)
  OBVIOUS
<1>3. x \in Seq(Decision) /\ DOMAIN x = 1..(n + 1) /\ DOMAIN es = 1..n /\ x[n + 1] = d /\ \A i \in 1..n : x[i] = es[i]
  BY <1>1, <1>2
<1>4. OnRecord(x) <=> \E i \in 1..(n + 1) : x[i] = "OUTPUT_REDACTED"
  BY <1>3 DEF OnRecord, Call!Range
<1>5. OnRecord(es) <=> \E i \in 1..n : es[i] = "OUTPUT_REDACTED"
  BY <1>3 DEF OnRecord, Call!Range
<1>6. \A i : i \in 1..(n + 1) <=> i \in 1..n \/ i = n + 1
  OBVIOUS
<1>7. OnRecord(x) <=> OnRecord(es) \/ d = "OUTPUT_REDACTED"
  BY <1>3, <1>4, <1>5, <1>6
<1> QED
  BY <1>1, <1>3, <1>7

LEMMA RedactInit == ASSUME Call!Init PROVE RedactInv
<1>1. call.chain \in Chains /\ call.secrets \in SUBSET Call!Spans /\ step = "pre" /\ entries = <<>>
  BY CallStarts
<1>2. ~OnRecord(<<>>) /\ <<>> \in Seq(Decision)
  BY DEF OnRecord, Call!Range
<1> QED
  BY <1>1, <1>2 DEF RedactInv

\* On the way down nothing is redacted, and nothing said to be.
LEMMA RedactDown ==
  ASSUME RedactInv, Call!PreAudit \/ Call!PreBlocker \/ Call!PreHook \/ Call!PrePass
  PROVE  RedactInv'
<1>1. /\ call' = call /\ step = "pre" /\ step' \in {"pre", "raised", "denied"}
      /\ \/ entries' = entries
         \/ \E d \in {"INITIATED", "DANGEROUS_COMMAND", "BLOCKED", "AUDIT"} : entries' = Append(entries, d)
  <2>1. CASE Call!PreAudit
    BY <2>1 DEF Call!PreAudit, Call!Turn, Call!Log, Call!Down, Call!End, Call!Raise
  <2>2. CASE Call!PreBlocker
    BY <2>2 DEF Call!PreBlocker, Call!Turn, Call!LogIfAny, Call!Log, Call!Down, Call!End
  <2>3. CASE Call!PreHook
    BY <2>3 DEF Call!PreHook, Call!Turn, Call!Log, Call!Down, Call!End
  <2>4. CASE Call!PrePass
    BY <2>4 DEF Call!PrePass, Call!Turn, Call!Down
  <2> QED
    BY <2>1, <2>2, <2>3, <2>4
<1>2. entries' \in Seq(Decision) /\ ~OnRecord(entries')
  <2>1. entries \in Seq(Decision) /\ ~OnRecord(entries)
    BY <1>1 DEF RedactInv
  <2>2. ASSUME NEW d \in {"INITIATED", "DANGEROUS_COMMAND", "BLOCKED", "AUDIT"}
        PROVE  Append(entries, d) \in Seq(Decision) /\ ~OnRecord(Append(entries, d))
    <3>1. d \in Decision /\ d # "OUTPUT_REDACTED"
      BY DEF Decision
    <3> QED
      BY <2>1, <3>1, DecisionAdded
  <2> QED
    BY <1>1, <2>1, <2>2
<1>3. call.chain \in Chains /\ call.secrets \in SUBSET Call!Spans
  BY DEF RedactInv
<1>4. step' \notin {"post", "returned"}
  BY <1>1
<1> QED
  BY <1>1, <1>2, <1>3, <1>4 DEF RedactInv

LEMMA RedactHandle == ASSUME RedactInv, Call!Handle PROVE RedactInv'
<1>1. call' = call /\ entries' = entries /\ step = "pre"
  BY DEF Call!Handle, Call!Raise
<1>2. \/ step' = "raised"
      \/ step' = "post" /\ result' = Call!Original /\ at' = Len(call.chain)
  BY DEF Call!Handle, Call!Raise, Call!End
<1>3. call.chain \in Chains /\ call.secrets \in SUBSET Call!Spans /\ entries \in Seq(Decision) /\ ~OnRecord(entries)
  BY <1>1 DEF RedactInv
<1>4. CASE step' = "raised"
  BY <1>1, <1>3, <1>4 DEF RedactInv
<1>5. CASE step' = "post" /\ result' = Call!Original /\ at' = Len(call.chain)
  <2>1. DOMAIN call.chain = 1..Len(call.chain) /\ Len(call.chain) \in Nat
    BY <1>3, ChainFacts
  <2>2. ~RedactorPassed'
    BY <1>1, <1>5, <2>1 DEF RedactorPassed
  <2>3. ResultSoFar'
    BY <1>1, <1>3, <1>5, <2>2 DEF ResultSoFar
  <2>4. at' \in 0..Len(call.chain)
    BY <1>5, <2>1
  <2> QED
    BY <1>1, <1>3, <1>5, <2>3, <2>4 DEF RedactInv
<1> QED
  BY <1>2, <1>4, <1>5

\* One middleware on the way up.
LEMMA RedactUp ==
  ASSUME RedactInv, step = "post", at \in DOMAIN call.chain, call' = call, step' = "post", at' = at - 1,
         entries' \in Seq(Decision),
         Quiet => /\ result' = IF Redacts(at) THEN Call!Expected(call.secrets) ELSE result
                  /\ Call!In("scanner") /\ ~Call!In("redaction") /\ call.trail =>
                       (OnRecord(entries') <=> OnRecord(entries) \/ result' # result)
  PROVE  RedactInv'
<1>1. call.chain \in Chains /\ call.secrets \in SUBSET Call!Spans
  BY DEF RedactInv
<1>2. DOMAIN call.chain = 1..Len(call.chain) /\ Len(call.chain) \in Nat
  BY <1>1, ChainFacts
<1>3. at' \in 0..Len(call.chain)
  BY <1>2
<1>4. RedactorPassed' <=> RedactorPassed \/ Redacts(at)
  <2>1. \A i \in DOMAIN call.chain : i > at' <=> i > at \/ i = at
    BY <1>2
  <2>2. \A i : Redacts(i)' <=> Redacts(i)
    BY DEF Redacts
  <2> QED
    BY <2>1, <2>2 DEF RedactorPassed
<1>5. ASSUME Quiet PROVE ResultSoFar'
  <2>1. ResultSoFar
    BY <1>5 DEF RedactInv
  <2>2. result' = IF RedactorPassed' THEN Call!Expected(call.secrets) ELSE Call!Original
    BY <1>4, <1>5, <2>1 DEF ResultSoFar
  <2>3. ASSUME Call!In("scanner"), ~Call!In("redaction"), call.trail PROVE OnRecord(entries') <=> result' # Call!Original
    <3>1. OnRecord(entries) <=> result # Call!Original
      BY <2>1, <2>3 DEF ResultSoFar
    <3>2. OnRecord(entries') <=> OnRecord(entries) \/ result' # result
      BY <1>5, <2>3
    <3>3. result # Call!Original => result' = result
      BY <1>5, <2>1 DEF ResultSoFar
    <3> QED
      BY <3>1, <3>2, <3>3
  <2>4. \A name : Call!In(name)' <=> Call!In(name)
    BY DEF Call!In
  <2> QED
    BY <2>2, <2>3, <2>4 DEF ResultSoFar
<1>6. Quiet' <=> Quiet
  BY DEF Quiet
<1> QED
  BY <1>1, <1>3, <1>5, <1>6 DEF RedactInv

\* A call that raises returns nothing.
LEMMA RedactRaise ==
  ASSUME RedactInv, call' = call, entries' = entries, step' = "raised"
  PROVE  RedactInv'
BY DEF RedactInv

LEMMA RedactOthers ==
  ASSUME RedactInv, Call!PostAudit \/ Call!PostHook \/ Call!PostTirith \/ Call!PostPass
  PROVE  RedactInv'
<1>1. /\ call' = call /\ step = "post" /\ at \in DOMAIN call.chain
      /\ call.chain[at] \notin {"scanner", "transform", "redaction"}
      /\ \/ entries' = entries
         \/ \E d \in {"COMPLETED", "ALLOWED", "TIRITH_DETECT"} : entries' = Append(entries, d)
      /\ \/ step' = "post" /\ at' = at - 1
         \/ step' = "raised" /\ entries' = entries
      /\ Quiet /\ step' = "post" => result' = result
  <2>1. CASE Call!PostAudit
    BY <2>1 DEF Call!PostAudit, Call!Turn, Call!Log, Call!Up, Call!End, Call!Raise
  <2>2. CASE Call!PostHook
    BY <2>2 DEF Call!PostHook, Call!Turn, Call!Log, Call!Up
  <2>3. CASE Call!PostTirith
    <3>1. Quiet => call.tirith # "block" \/ {s \in call.threats : Call!Found(result, s) # {}} = {}
      BY DEF Quiet
    <3> QED
      BY <2>3, <3>1 DEF Call!PostTirith, Call!Turn, Call!LogIfAny, Call!Log, Call!Up, Call!End, Call!Raise
  <2>4. CASE Call!PostPass
    BY <2>4 DEF Call!PostPass, Call!Turn, Call!Up
  <2> QED
    BY <2>1, <2>2, <2>3, <2>4
<1>2. CASE step' = "raised" /\ entries' = entries
  BY <1>1, <1>2, RedactRaise
<1>3. CASE step' = "post" /\ at' = at - 1
  <2>1. entries' \in Seq(Decision) /\ (OnRecord(entries') <=> OnRecord(entries))
    <3>1. entries \in Seq(Decision)
      BY DEF RedactInv
    <3>2. ASSUME NEW d \in {"COMPLETED", "ALLOWED", "TIRITH_DETECT"}
          PROVE  Append(entries, d) \in Seq(Decision) /\ (OnRecord(Append(entries, d)) <=> OnRecord(entries))
      <4>1. d \in Decision /\ d # "OUTPUT_REDACTED"
        BY DEF Decision
      <4> QED
        BY <3>1, <4>1, DecisionAdded
    <3> QED
      BY <1>1, <3>1, <3>2
  <2>2. ~Redacts(at)
    BY <1>1 DEF Redacts
  <2> QED
    BY <1>1, <1>3, <2>1, <2>2, RedactUp
<1> QED
  BY <1>1, <1>2, <1>3

\* Who looks for secrets finds those that are left.
LEMMA ResultKnown ==
  ASSUME RedactInv, Quiet, step = "post"
  PROVE  /\ result \in {Call!Original, Call!Expected(call.secrets)}
         /\ call.secrets \in SUBSET Call!Spans /\ Call!Disjoint(call.secrets)
BY DEF RedactInv, ResultSoFar, Quiet

LEMMA RedactScanner == ASSUME RedactInv, Call!PostScanner PROVE RedactInv'
<1>1. PICK ms : ms = Call!Matches(result, call.secrets)
  OBVIOUS
<1>2. call' = call /\ step = "post" /\ at \in DOMAIN call.chain /\ call.chain[at] = "scanner"
  BY DEF Call!PostScanner, Call!Turn
<1>3. \/ step' = "raised" /\ entries' = entries
      \/ /\ step' = "post" /\ at' = at - 1
         /\ \/ /\ ms = {} \/ call.shape \notin {"string", "output"}
               /\ result' = result /\ entries' = entries
            \/ /\ ms # {} /\ call.shape \in {"string", "output"}
               /\ result' \in Call!Redacted(result, ms)
               /\ entries' = IF call.trail THEN Append(entries, "OUTPUT_REDACTED") ELSE entries
  BY <1>1, <1>2 DEF Call!PostScanner, Call!LogIfAny, Call!Log, Call!Up, Call!End, Call!Raise
<1>4. entries \in Seq(Decision)
  BY DEF RedactInv
<1>5. CASE step' = "raised" /\ entries' = entries
  BY <1>2, <1>5, RedactRaise
<1>6. CASE /\ step' = "post" /\ at' = at - 1 /\ result' = result /\ entries' = entries
           /\ ms = {} \/ call.shape \notin {"string", "output"}
  <2>1. Quiet => result' = IF Redacts(at) THEN Call!Expected(call.secrets) ELSE result
    <3> SUFFICES ASSUME Quiet, Redacts(at) PROVE result = Call!Expected(call.secrets)
      BY <1>6
    <3>1. call.shape \in {"string", "output"}
      BY <1>2 DEF Redacts
    <3> QED
      BY <1>1, <1>2, <1>6, <3>1, ResultKnown, ScanMakes
  <2> QED
    BY <1>2, <1>3, <1>4, <1>6, <2>1, RedactUp
<1>7. CASE /\ step' = "post" /\ at' = at - 1 /\ ms # {} /\ call.shape \in {"string", "output"}
           /\ result' \in Call!Redacted(result, ms)
           /\ entries' = IF call.trail THEN Append(entries, "OUTPUT_REDACTED") ELSE entries
  <2>1. Redacts(at)
    BY <1>2, <1>7 DEF Redacts
  <2>2. entries' \in Seq(Decision) /\ (call.trail => OnRecord(entries'))
    <3>1. "OUTPUT_REDACTED" \in Decision
      BY DEF Decision
    <3> QED
      BY <1>4, <1>7, <3>1, DecisionAdded
  <2>3. Quiet => result' = Call!Expected(call.secrets) /\ result' # result
    <3> SUFFICES ASSUME Quiet PROVE result' = Call!Expected(call.secrets) /\ result' # result
      OBVIOUS
    <3>1. /\ result \in {Call!Original, Call!Expected(call.secrets)}
          /\ call.secrets \in SUBSET Call!Spans /\ Call!Disjoint(call.secrets)
      BY <1>2, ResultKnown
    <3>2. /\ Call!Redacted(result, ms) \subseteq {Call!Expected(call.secrets)}
          /\ ms # {} => result = Call!Original /\ Call!Expected(call.secrets) # Call!Original
      BY <1>1, <3>1, ScanMakes
    <3> QED
      BY <1>7, <3>2
  <2> QED
    BY <1>2, <1>7, <2>1, <2>2, <2>3, RedactUp
<1> QED
  BY <1>3, <1>5, <1>6, <1>7

LEMMA RedactRedact == ASSUME RedactInv, Call!PostRedact PROVE RedactInv'
<1>1. PICK ms : ms = Call!Matches(result, call.secrets)
  OBVIOUS
<1>2. /\ call' = call /\ entries' = entries /\ step = "post" /\ step' = "post" /\ at \in DOMAIN call.chain /\ at' = at - 1
      /\ call.chain[at] \in {"redaction", "transform"}
  BY DEF Call!PostRedact, Call!Turn, Call!Up
<1>3. IF Redacts(at) THEN result' \in Call!Redacted(result, ms) ELSE result' = result
  <2>1. Redacts(at) <=> call.shape = "string" \/ (call.chain[at] = "transform" /\ call.shape = "output")
    BY <1>2 DEF Redacts
  <2> QED
    BY <1>1, <2>1 DEF Call!PostRedact
<1>4. entries \in Seq(Decision) /\ call.chain \in Chains
  BY DEF RedactInv
<1>5. ~(Call!In("scanner") /\ ~Call!In("redaction"))
  <2>1. DOMAIN call.chain = 1..Len(call.chain) /\ \A i, j \in DOMAIN call.chain : call.chain[i] = "scanner" => call.chain[j] # "transform"
    BY <1>4, ChainFacts
  <2>2. \A name : Call!In(name) <=> \E i \in DOMAIN call.chain : call.chain[i] = name
    BY DEF Call!In, Call!Range
  <2> QED
    BY <1>2, <2>1, <2>2
<1>6. Quiet => result' = IF Redacts(at) THEN Call!Expected(call.secrets) ELSE result
  <2> SUFFICES ASSUME Quiet, Redacts(at) PROVE result' = Call!Expected(call.secrets)
    BY <1>3
  <2>1. /\ result \in {Call!Original, Call!Expected(call.secrets)}
        /\ call.secrets \in SUBSET Call!Spans /\ Call!Disjoint(call.secrets)
    BY <1>2, ResultKnown
  <2>2. Call!Redacted(result, ms) \subseteq {Call!Expected(call.secrets)}
    BY <1>1, <2>1, ScanMakes
  <2> QED
    BY <1>3, <2>2
<1> QED
  BY <1>2, <1>4, <1>5, <1>6, RedactUp

LEMMA RedactReturn == ASSUME RedactInv, Call!Return PROVE RedactInv'
<1>1. call' = call /\ entries' = entries /\ result' = result /\ at' = at /\ at = 0 /\ step = "post" /\ step' = "returned"
  BY DEF Call!Return, Call!End
<1>2. /\ call.chain \in Chains /\ call.secrets \in SUBSET Call!Spans /\ entries \in Seq(Decision)
      /\ at \in 0..Len(call.chain) /\ (Quiet => ResultSoFar)
  BY <1>1 DEF RedactInv
<1>3. (Quiet' <=> Quiet) /\ (ResultSoFar' <=> ResultSoFar)
  BY <1>1 DEF Quiet, ResultSoFar, RedactorPassed, Redacts, Call!In
<1> QED
  BY <1>1, <1>2, <1>3 DEF RedactInv

LEMMA RedactNext == ASSUME RedactInv, Call!Next PROVE RedactInv'
BY RedactDown, RedactHandle, RedactOthers, RedactScanner, RedactRedact, RedactReturn DEF Call!Next

LEMMA RedactMeans == ASSUME RedactInv PROVE Call!RedactedExactly
<1> SUFFICES ASSUME step = "returned", Quiet
             PROVE  /\ result = IF Call!Scanned THEN Call!Expected(call.secrets) ELSE Call!Original
                    /\ Call!In("scanner") /\ ~Call!In("redaction") /\ call.trail =>
                         (OnRecord(entries) <=> result # Call!Original)
  BY DEF Call!RedactedExactly, Call!Answered, Quiet, OnRecord
<1>1. ResultSoFar /\ at = 0 /\ call.chain \in Chains
  BY DEF RedactInv
<1>2. DOMAIN call.chain = 1..Len(call.chain)
  BY <1>1, ChainFacts
<1>3. \A name : Call!In(name) <=> \E i \in DOMAIN call.chain : call.chain[i] = name
  BY DEF Call!In, Call!Range
<1>4. RedactorPassed <=> Call!Scanned
  <2>1. \A i \in DOMAIN call.chain : i > at
    BY <1>1, <1>2
  <2> QED
    BY <1>3, <2>1 DEF RedactorPassed, Redacts, Call!Scanned
<1> QED
  BY <1>1, <1>4 DEF ResultSoFar

\* Whatever middlewares there are and whatever raises, what the caller gets has
\* lost its secrets where they do not overlap, and else nothing, however long
\* the text and the placeholders are; and when the scanner redacts, that is on
\* record (output_scanner.py, redaction.py, transforms.py).
THEOREM CallerGetsNoSecret == Spec => []RedactedExactly
<1> DEFINE Inv == At("call") => RedactInv
<1>1. Init => Inv
  BY RedactInit DEF Init, At
<1>2. Inv /\ [Next]_homeVars => Inv'
  <2> SUFFICES ASSUME Inv, [Next]_homeVars, At("call")' PROVE RedactInv'
    OBVIOUS
  <2>1. CASE At("call") /\ Call!Next
    BY <2>1, RedactNext
  <2>2. CASE UNCHANGED <<part, callVars>>
    BY <2>2 DEF At, callVars, RedactInv, Quiet, ResultSoFar, RedactorPassed, Redacts, Call!In
  <2> QED
    BY <2>1, <2>2, Zenon DEF Next, At, homeVars
<1>3. Inv => RedactedExactly
  BY RedactMeans DEF RedactedExactly
<1> QED
  BY <1>1, <1>2, <1>3, PTL DEF Spec

(* -------- the credentials -------------------------------------------------------- *)

EnvKey == Credentials!Key
Value == {"static", "oauth"}
EnvLine == [key : EnvKey, val : {"static", "oauth", "aegis-managed"}]
Entries == UNION {[D -> Value] : D \in SUBSET EnvKey}

Writing == {"truncate", "write", "unlink"}
Healing == {"diagnose vault", "diagnose env", "diagnose pool", "heal vault", "heal env", "heal pool", "write pool"}
ShellStep ==
  {"idle", "sync vault", "sync read", "import load", "import", "delete load", "delete", "clean read"}
    \cup Writing \cup Healing

\* Who is at a step of doctor is a doctor; what is merged is what is exported.
ShellOf(me) ==
  /\ me.step \in Healing => me.op = "doctor"
  /\ me.op = "doctor" => me.step \in Healing \cup {"truncate", "write"}
  /\ me.step = "sync read" => DOMAIN me.vault \cap Credentials!NeverInject = {}
  /\ me.step = "unlink" => me.lines = <<>>
ShellOp == {"none", "run", "setup", "setup delete", "doctor", "clean"}
ShellRecord ==
  [step : ShellStep, op : ShellOp, vault : Entries, lines : Seq(EnvLine), found : SUBSET {"vault", "env", "pool"},
   pool : SUBSET Credentials!Credential]
ShellState == {me \in ShellRecord : ShellOf(me)}

CredFiles ==
  /\ vault \in Entries /\ vaultLock \in BOOLEAN
  /\ envFile \in [exists : BOOLEAN, lines : Seq(EnvLine)] /\ (envFile.exists = FALSE => envFile.lines = <<>>)
  /\ pool \in SUBSET Credentials!Credential /\ given \in SUBSET EnvKey

CredTyped == CredFiles /\ shared \in BOOLEAN /\ shell \in [Process -> ShellState]

\* What a key the user gave needs to stay: the vault has no token in its place,
\* the last of its lines that an import takes is no token, and one of them has it.
StaticAt(k, lines, i) == lines[i].key = k /\ lines[i].val = "static"
TokenAt(k, lines, i) == lines[i].key = k /\ lines[i].val = "oauth"
Later(k, lines) ==
  \A i \in DOMAIN lines : TokenAt(k, lines, i) => \E j \in DOMAIN lines : i < j /\ StaticAt(k, lines, j)
Held(k, v, lines) ==
  /\ k \in DOMAIN v => v[k] = "static"
  /\ Later(k, lines)
  /\ k \in DOMAIN v \/ \E i \in DOMAIN lines : StaticAt(k, lines, i)
Safe(keys, v, lines) == \A k \in keys : Held(k, v, lines)

\* Who is about to write .env has its lines.
SafeAt(me, keys, v, lines) == Safe(keys, v, IF me.step \in Writing THEN me.lines ELSE lines)

NoLeak(lines) == \A i \in DOMAIN lines : ~Credentials!Leaked(lines[i])

\* What a command knows at its step of the files.
Knows(me, v, lines) ==
  /\ me.step \in {"import", "delete"} => me.vault = v
  /\ me.step = "sync read" => me.vault = Credentials!Exported(v)
  /\ me.step \in {"diagnose env", "diagnose pool", "heal vault"} => DOMAIN me.vault \subseteq Credentials!OAuthKeys(v)

\* What a doctor has found and healed so far, of a vault that is not locked.
Treated(me, v, lines, creds) ==
  /\ me.step \in {"diagnose env", "diagnose pool", "heal vault"} => DOMAIN me.vault = Credentials!OAuthKeys(v)
  /\ me.step \in {"diagnose env", "diagnose pool"} /\ "vault" \notin me.found => Credentials!OAuthKeys(v) = {}
  /\ me.op = "doctor" /\ me.step \in Writing \cup {"heal env", "heal pool", "write pool"} => Credentials!OAuthKeys(v) = {}
  /\ me.step \in {"diagnose pool", "heal vault", "heal env"} /\ "env" \notin me.found => NoLeak(lines)
  /\ me.op = "doctor" /\ me.step \in Writing => NoLeak(me.lines)
  /\ me.step \in {"heal pool", "write pool"} => NoLeak(lines)
  /\ me.op = "doctor" /\ me.step \in Writing \cup {"heal vault", "heal env", "heal pool"} /\ "pool" \notin me.found
       => Credentials!Stale(creds) = {}
  /\ me.step = "write pool" => Credentials!Stale(me.pool) = {}

\* Of a command on its own, with what it goes by and what it leaves to be done.
Sound(me, keys, v, lines, creds, lock) ==
  /\ SafeAt(me, keys, v, lines)
  /\ Knows(me, v, lines)
  /\ lock = FALSE => Treated(me, v, lines, creds)

CredInTurn ==
  /\ \A p, q \in Process : Credentials!Busy(p) /\ Credentials!Busy(q) => p = q
  /\ \A p \in Process : Credentials!Busy(p) => Sound(shell[p], given, vault, envFile.lines, pool, vaultLock)
  /\ ~Credentials!AnyBusy => Safe(given, vault, envFile.lines)

CredInv == CredTyped /\ (shared = FALSE => CredInTurn)

(* ---- lines and entries ------------------------------------------------------------- *)

LEMMA CredNames ==
  /\ EnvKey = {"ANTHROPIC_API_KEY", "ANTHROPIC_TOKEN", "DISCORD_BOT_TOKEN"}
  /\ Credentials!NeverInject = {"ANTHROPIC_TOKEN"}
  /\ Credentials!OAuth = "oauth" /\ Credentials!Placeholder = "aegis-managed" /\ Credentials!Static = "static"
  /\ \A l : Credentials!Leaked(l) <=> l.key = "ANTHROPIC_TOKEN" /\ l.val = "oauth"
BY DEF EnvKey, Credentials!Key, Credentials!NeverInject, Credentials!OAuth, Credentials!Placeholder,
       Credentials!Static, Credentials!Leaked

LEMMA EntriesType ==
  ASSUME NEW v
  PROVE  v \in Entries <=> DOMAIN v \subseteq EnvKey /\ v \in [DOMAIN v -> Value]
BY DEF Entries

LEMMA CredSublist ==
  /\ \A s : \A I : Credentials!Sublist(s, I) = Sublist(s, I)
  /\ \A S : Credentials!SetToSeq(S) = SetToSeq(S)
  /\ \A S : Credentials!Cardinality(S) = Cardinality(S)
  /\ \A s : Credentials!ToSet(s) = {s[i] : i \in DOMAIN s}
<1>1. \A S : Credentials!Cardinality(S) = Cardinality(S)
  BY Zenon DEF Credentials!Cardinality, Cardinality
<1>2. \A I : \A k : Credentials!Nth(I, k) = Nth(I, k)
  BY <1>1 DEF Credentials!Nth, Nth
<1>3. \A s : \A I : Credentials!Sublist(s, I) = Sublist(s, I)
  BY <1>1, <1>2 DEF Credentials!Sublist, Sublist
<1>4. \A S : Credentials!SetToSeq(S) = SetToSeq(S)
  BY <1>1 DEF Credentials!SetToSeq, SetToSeq, Credentials!IsInjective, IsInjective
<1> QED
  BY <1>1, <1>3, <1>4 DEF Credentials!ToSet

\* What a filter leaves that lets the user's values pass.
LEMMA PartHeld ==
  ASSUME NEW lines \in Seq(EnvLine), NEW I, I \subseteq DOMAIN lines
  PROVE  /\ Sublist(lines, I) \in Seq(EnvLine)
         /\ \A m \in DOMAIN Sublist(lines, I) : \E i \in I : Sublist(lines, I)[m] = lines[i]
         /\ (\A i \in DOMAIN lines : lines[i].val = "static" => i \in I)
              => \A k : \A v : Held(k, v, lines) => Held(k, v, Sublist(lines, I))
<1> PICK t : t = Sublist(lines, I)
  OBVIOUS
<1>1. t \in Seq(EnvLine) /\ DOMAIN t = 1..Cardinality(I)
  BY SublistOf
<1>2. \A m \in DOMAIN t : \E i \in I : /\ t[m] = lines[i]
                                        /\ \A j \in I : i < j => \E l \in DOMAIN t : m < l /\ t[l] = lines[j]
  BY SublistLater
<1>3. \A i \in I : \E m \in DOMAIN t : t[m] = lines[i]
  <2> SUFFICES ASSUME NEW i \in I PROVE \E m \in DOMAIN t : t[m] = lines[i]
    OBVIOUS
  <2>1. Rank(I, i) \in 1..Cardinality(I) /\ t[Rank(I, i)] = lines[i]
    BY SublistOf
  <2> QED
    BY <1>1, <2>1
<1>4. ASSUME \A i \in DOMAIN lines : lines[i].val = "static" => i \in I,
             NEW k, NEW v, Held(k, v, lines)
      PROVE  Held(k, v, t)
  <2>1. Later(k, t)
    <3> SUFFICES ASSUME NEW m \in DOMAIN t, TokenAt(k, t, m)
                 PROVE  \E l \in DOMAIN t : m < l /\ StaticAt(k, t, l)
      BY DEF Later
    <3>1. PICK i \in I : /\ t[m] = lines[i]
                         /\ \A j \in I : i < j => \E l \in DOMAIN t : m < l /\ t[l] = lines[j]
      BY <1>2
    <3>2. TokenAt(k, lines, i)
      BY <3>1 DEF TokenAt
    <3>3. PICK j \in DOMAIN lines : i < j /\ StaticAt(k, lines, j)
      BY <1>4, <3>2 DEF Held, Later
    <3>4. j \in I
      BY <1>4, <3>3 DEF StaticAt
    <3> QED
      BY <3>1, <3>3, <3>4 DEF StaticAt
  <2>2. k \in DOMAIN v \/ \E l \in DOMAIN t : StaticAt(k, t, l)
    <3>1. CASE k \in DOMAIN v
      BY <3>1
    <3>2. CASE \E i \in DOMAIN lines : StaticAt(k, lines, i)
      <4>1. PICK i \in DOMAIN lines : StaticAt(k, lines, i)
        BY <3>2
      <4>2. i \in I
        BY <1>4, <4>1 DEF StaticAt
      <4> QED
        BY <1>3, <4>1, <4>2 DEF StaticAt
    <3> QED
      BY <1>4, <3>1, <3>2 DEF Held
  <2> QED
    BY <1>4, <2>1, <2>2 DEF Held
<1>5. \A m \in DOMAIN t : \E i \in I : t[m] = lines[i]
  BY <1>2
<1> QED
  BY <1>1, <1>4, <1>5

(* ---- the merge --------------------------------------------------------------------- *)

Keep(lines, v) ==
  {i \in DOMAIN lines : IF lines[i].key \in DOMAIN v THEN \A j \in 1..(i - 1) : lines[j].key # lines[i].key
                        ELSE ~Credentials!Leaked(lines[i])}
Renewed(lines, v) ==
  [i \in DOMAIN lines |-> IF lines[i].key \in DOMAIN v THEN [lines[i] EXCEPT !.val = v[lines[i].key]] ELSE lines[i]]
Added(lines, v) ==
  {[key |-> k, val |-> v[k]] : k \in DOMAIN v \ {l.key : l \in {lines[i] : i \in DOMAIN lines}}}

LEMMA MergedIs ==
  ASSUME NEW lines \in Seq(EnvLine), NEW v \in Entries
  PROVE  Credentials!Merged(lines, v) = Sublist(Renewed(lines, v), Keep(lines, v)) \o SetToSeq(Added(lines, v))
<1>1. Credentials!Merged(lines, v) =
        Credentials!Sublist(Renewed(lines, v), Keep(lines, v)) \o Credentials!SetToSeq(Added(lines, v))
  BY CredSublist DEF Credentials!Merged, Keep, Renewed, Added
<1> QED
  BY <1>1, CredSublist

\* The merged lines M: those of lines at the positions e, with the values of v,
\* and after them what is added.
MergedAs(lines, v, M, c, e) ==
  /\ M \in Seq(EnvLine) /\ c \in 0..Len(M)
  /\ e \in [1..c -> DOMAIN lines] /\ \A k, l \in 1..c : k < l => e[k] < e[l]
  /\ \A k \in 1..c : e[k] \in Keep(lines, v)
  /\ \A i \in Keep(lines, v) : \E k \in 1..c : e[k] = i
  /\ \A k \in 1..c : /\ M[k].key = lines[e[k]].key
                     /\ M[k].key \in DOMAIN v => M[k].val = v[M[k].key]
                     /\ M[k].key \notin DOMAIN v => M[k] = lines[e[k]]
  /\ \A i \in DOMAIN M : i > c => M[i] \in Added(lines, v)
  /\ \A i, j \in DOMAIN M : i > c /\ j > c /\ M[i] = M[j] => i = j
  /\ \A x \in Added(lines, v) : \E i \in DOMAIN M : M[i] = x

LEMMA AddedFinite ==
  ASSUME NEW lines \in Seq(EnvLine), NEW v \in Entries
  PROVE  IsFiniteSet(Added(lines, v)) /\ Added(lines, v) \subseteq EnvLine
<1> DEFINE f == [k \in EnvKey |-> [key |-> k, val |-> v[k]]]
<1>1. Added(lines, v) \subseteq EnvLine
  BY EntriesType DEF Added, Value, EnvLine
<1>2. Added(lines, v) \subseteq {f[k] : k \in EnvKey}
  BY EntriesType DEF Added
<1>3. IsFiniteSet(EnvKey)
  <2>1. IsFiniteSet({"ANTHROPIC_API_KEY"})
    BY FS_Singleton
  <2>2. IsFiniteSet({"ANTHROPIC_API_KEY"} \cup {"ANTHROPIC_TOKEN"})
    BY <2>1, FS_AddElement
  <2>3. IsFiniteSet(({"ANTHROPIC_API_KEY"} \cup {"ANTHROPIC_TOKEN"}) \cup {"DISCORD_BOT_TOKEN"})
    BY <2>2, FS_AddElement
  <2>4. EnvKey = ({"ANTHROPIC_API_KEY"} \cup {"ANTHROPIC_TOKEN"}) \cup {"DISCORD_BOT_TOKEN"}
    BY CredNames
  <2> QED
    BY <2>3, <2>4
<1>4. IsFiniteSet({f[k] : k \in EnvKey})
  <2> PICK g, T : g = f /\ T = {f[k] : k \in EnvKey}
    OBVIOUS
  <2>1. g \in Surjection(EnvKey, T)
    BY DEF Surjection
  <2> QED
    BY <1>3, <2>1, FS_Surjection
<1> QED
  BY <1>1, <1>2, <1>4, FS_Subset

LEMMA RenewedLines ==
  ASSUME NEW lines \in Seq(EnvLine), NEW v \in Entries
  PROVE  /\ Renewed(lines, v) \in Seq(EnvLine) /\ DOMAIN Renewed(lines, v) = DOMAIN lines
         /\ \A i \in DOMAIN lines :
              /\ Renewed(lines, v)[i].key = lines[i].key
              /\ lines[i].key \in DOMAIN v => Renewed(lines, v)[i].val = v[lines[i].key]
              /\ lines[i].key \notin DOMAIN v => Renewed(lines, v)[i] = lines[i]
<1> PICK R : R = Renewed(lines, v)
  OBVIOUS
<1>1. DOMAIN R = DOMAIN lines /\ R = [i \in DOMAIN lines |-> R[i]]
  BY DEF Renewed
<1>2. ASSUME NEW i \in DOMAIN lines
      PROVE  /\ R[i] \in EnvLine /\ R[i].key = lines[i].key
             /\ lines[i].key \in DOMAIN v => R[i].val = v[lines[i].key]
             /\ lines[i].key \notin DOMAIN v => R[i] = lines[i]
  <2> PICK l \in EnvLine : l = lines[i]
    BY <1>2
  <2>1. R[i] = IF l.key \in DOMAIN v THEN [l EXCEPT !.val = v[l.key]] ELSE l
    BY <1>2 DEF Renewed
  <2>2. l.key \in DOMAIN v => v[l.key] \in {"static", "oauth", "aegis-managed"}
    BY EntriesType DEF Value
  <2> QED
    BY <2>1, <2>2 DEF EnvLine
<1>3. R \in Seq(EnvLine)
  <2>1. DOMAIN R = 1..Len(lines) /\ Len(lines) \in Nat
    BY <1>1
  <2> QED
    BY <1>1, <1>2, <2>1
<1> QED
  BY <1>1, <1>2, <1>3

\* A part of R, of the positions e, and what is added, of A, after it.
Assembled(S, M, R, J, A, c, e) ==
  /\ M \in Seq(S) /\ c \in 0..Len(M)
  /\ e \in [1..c -> J]
  /\ \A k, l \in 1..c : k < l => e[k] < e[l]
  /\ \A i \in J : \E k \in 1..c : e[k] = i
  /\ \A k \in 1..c : M[k] = R[e[k]]
  /\ \A i \in DOMAIN M : i > c => M[i] \in A
  /\ \A i, j \in DOMAIN M : i > c /\ j > c /\ M[i] = M[j] => i = j
  /\ \A x \in A : \E i \in DOMAIN M : M[i] = x

LEMMA PartAndMore ==
  ASSUME NEW S, NEW R \in Seq(S), NEW J \in SUBSET DOMAIN R, NEW A \in SUBSET S, IsFiniteSet(A)
  PROVE  \E M : \E c : \E e : M = Sublist(R, J) \o SetToSeq(A) /\ Assembled(S, M, R, J, A, c, e)
<1>1. Sublist(R, J) \in Seq(S) /\ \E c \in Nat : \E e : CountedOut(Sublist(R, J), R, J, c, e)
  BY SublistAt
<1>2. PICK t \in Seq(S) : t = Sublist(R, J)
  BY <1>1
<1>3. PICK c \in Nat : \E e : CountedOut(t, R, J, c, e)
  BY <1>1, <1>2
<1>4. PICK e : CountedOut(t, R, J, c, e)
  BY <1>3
<1>5. /\ SetToSeq(A) \in Seq(A)
      /\ \A x \in A : \E i \in DOMAIN SetToSeq(A) : SetToSeq(A)[i] = x
      /\ \A i, j \in DOMAIN SetToSeq(A) : SetToSeq(A)[i] = SetToSeq(A)[j] => i = j
  BY SetToSeqOf
<1>6. PICK u \in Seq(A) : /\ u = SetToSeq(A)
                          /\ \A x \in A : \E i \in DOMAIN u : u[i] = x
                          /\ \A i, j \in DOMAIN u : u[i] = u[j] => i = j
  BY <1>5
<1>7. u \in Seq(S) /\ Len(u) \in Nat /\ DOMAIN u = 1..Len(u)
  OBVIOUS
<1>8. t \o u \in Seq(S) /\ Joined(t \o u, t, u)
  BY ONLY <1>7, JoinedAt, t \in Seq(S)
<1>9. PICK M \in Seq(S) : M = t \o u /\ Joined(M, t, u)
  BY <1>8
<1>10. /\ Len(t) = c /\ e \in [1..c -> J]
       /\ \A k \in 1..c : t[k] = R[e[k]]
       /\ \A i \in J : \E k \in 1..c : e[k] = i
       /\ \A k, l \in 1..c : k < l => e[k] < e[l]
  BY <1>4 DEF CountedOut
<1>11. PICK d \in Nat : d = Len(u) /\ DOMAIN u = 1..d
  BY <1>7
<1>12. /\ Len(M) = c + d /\ DOMAIN M = 1..(c + d)
       /\ \A i \in 1..c : M[i] = t[i]
       /\ \A i \in 1..(c + d) : i > c => i - c \in 1..d /\ M[i] = u[i - c]
       /\ \A i \in 1..d : i + c \in 1..(c + d) /\ M[i + c] = u[i]
  BY ONLY <1>9, <1>10, <1>11 DEF Joined
<1>13. \A i \in DOMAIN u : u[i] \in A
  OBVIOUS
<1>14. \A i \in DOMAIN M : i > c => M[i] \in A
  BY ONLY <1>11, <1>12, <1>13
<1>15. ASSUME NEW i \in DOMAIN M, NEW j \in DOMAIN M, i > c, j > c, M[i] = M[j] PROVE i = j
  <2>1. i - c \in DOMAIN u /\ j - c \in DOMAIN u /\ u[i - c] = u[j - c]
    BY ONLY <1>11, <1>12, <1>15
  <2>2. i - c = j - c
    BY ONLY <1>6, <2>1
  <2>3. i \in Int /\ j \in Int /\ c \in Int
    BY ONLY <1>12, <1>15, c \in Nat, d \in Nat
  <2> QED
    BY ONLY <2>2, <2>3
<1>16. \A x \in A : \E i \in DOMAIN M : M[i] = x
  <2> SUFFICES ASSUME NEW x \in A PROVE \E i \in DOMAIN M : M[i] = x
    OBVIOUS
  <2>1. PICK i \in DOMAIN u : u[i] = x
    BY <1>6
  <2>2. i + c \in DOMAIN M /\ M[i + c] = x
    BY ONLY <1>11, <1>12, <2>1
  <2> QED
    BY <2>2
<1>17. c \in 0..Len(M) /\ \A k \in 1..c : M[k] = R[e[k]]
  BY ONLY <1>10, <1>12, c \in Nat, d \in Nat
<1>18. M = Sublist(R, J) \o SetToSeq(A)
  BY ONLY <1>2, <1>6, <1>9
<1>19. Assembled(S, M, R, J, A, c, e)
  BY ONLY <1>9, <1>10, <1>14, <1>15, <1>16, <1>17 DEF Assembled
<1> QED
  BY <1>18, <1>19

LEMMA MergedParts ==
  ASSUME NEW lines \in Seq(EnvLine), NEW v \in Entries
  PROVE  \E c : \E e : MergedAs(lines, v, Credentials!Merged(lines, v), c, e)
<1>1. PICK R \in Seq(EnvLine) :
           /\ R = Renewed(lines, v) /\ DOMAIN R = DOMAIN lines
           /\ \A i \in DOMAIN lines :
                /\ R[i].key = lines[i].key
                /\ lines[i].key \in DOMAIN v => R[i].val = v[lines[i].key]
                /\ lines[i].key \notin DOMAIN v => R[i] = lines[i]
  BY RenewedLines
<1>2. PICK J \in SUBSET DOMAIN R : J = Keep(lines, v)
  BY <1>1 DEF Keep
<1>3. PICK A \in SUBSET EnvLine : A = Added(lines, v) /\ IsFiniteSet(A)
  BY AddedFinite
<1>4. \E M : \E c : \E e : M = Sublist(R, J) \o SetToSeq(A) /\ Assembled(EnvLine, M, R, J, A, c, e)
  BY ONLY <1>3, PartAndMore, R \in Seq(EnvLine), J \in SUBSET DOMAIN R, A \in SUBSET EnvLine
<1>a. PICK M : \E c : \E e : M = Sublist(R, J) \o SetToSeq(A) /\ Assembled(EnvLine, M, R, J, A, c, e)
  BY ONLY <1>4
<1>b. PICK c : \E e : M = Sublist(R, J) \o SetToSeq(A) /\ Assembled(EnvLine, M, R, J, A, c, e)
  BY ONLY <1>a
<1>c. PICK e : M = Sublist(R, J) \o SetToSeq(A) /\ Assembled(EnvLine, M, R, J, A, c, e)
  BY ONLY <1>b
<1>5. /\ M \in Seq(EnvLine) /\ c \in 0..Len(M)
      /\ e \in [1..c -> J]
      /\ \A k, l \in 1..c : k < l => e[k] < e[l]
      /\ \A i \in J : \E k \in 1..c : e[k] = i
      /\ \A k \in 1..c : M[k] = R[e[k]]
      /\ \A i \in DOMAIN M : i > c => M[i] \in A
      /\ \A i, j \in DOMAIN M : i > c /\ j > c /\ M[i] = M[j] => i = j
      /\ \A x \in A : \E i \in DOMAIN M : M[i] = x
  BY ONLY <1>c DEF Assembled
<1>6. \A k \in 1..c : e[k] \in J /\ e[k] \in DOMAIN lines
  BY <1>1, <1>5
<1>7. e \in [1..c -> DOMAIN lines]
  BY <1>1, <1>5
<1>8. ASSUME NEW k \in 1..c
      PROVE  /\ M[k].key = lines[e[k]].key
             /\ M[k].key \in DOMAIN v => M[k].val = v[M[k].key]
             /\ M[k].key \notin DOMAIN v => M[k] = lines[e[k]]
  <2>1. PICK i \in DOMAIN lines : i = e[k]
    BY <1>6
  <2>2. M[k] = R[i]
    BY <1>5, <2>1
  <2> QED
    BY ONLY <1>1, <2>1, <2>2
<1>9. MergedAs(lines, v, M, c, e)
  BY ONLY <1>2, <1>3, <1>5, <1>6, <1>7, <1>8 DEF MergedAs
<1>10. Credentials!Merged(lines, v) = M
  BY ONLY <1>1, <1>2, <1>3, <1>c, MergedIs, lines \in Seq(EnvLine), v \in Entries
<1> QED
  BY <1>9, <1>10

\* Every key of v is once among the merged lines, with its value.
LEMMA MergedExact ==
  ASSUME NEW lines \in Seq(EnvLine), NEW v \in Entries, NEW M, NEW c, NEW e, MergedAs(lines, v, M, c, e)
  PROVE  /\ \A i \in DOMAIN M : M[i].key \in DOMAIN v => M[i].val = v[M[i].key]
         /\ \A i, j \in DOMAIN M : M[i].key = M[j].key /\ M[i].key \in DOMAIN v => i = j
         /\ \A k \in DOMAIN v : \E i \in DOMAIN M : M[i].key = k
<1> PICK A, J : A = Added(lines, v) /\ J = Keep(lines, v)
  OBVIOUS
<1>1. /\ M \in Seq(EnvLine) /\ c \in 0..Len(M) /\ DOMAIN M = 1..Len(M) /\ Len(M) \in Nat
      /\ DOMAIN lines = 1..Len(lines) /\ Len(lines) \in Nat
  BY DEF MergedAs
<1>2. /\ \A k \in 1..c : e[k] \in DOMAIN lines /\ e[k] \in J
      /\ \A k, l \in 1..c : k < l => e[k] < e[l]
      /\ \A i \in J : \E k \in 1..c : e[k] = i
  BY DEF MergedAs
<1>3. \A k \in 1..c : M[k].key = lines[e[k]].key /\ (M[k].key \in DOMAIN v => M[k].val = v[M[k].key])
  BY DEF MergedAs
<1>4. /\ \A i \in DOMAIN M : i > c => M[i] \in A
      /\ \A i, j \in DOMAIN M : i > c /\ j > c /\ M[i] = M[j] => i = j
      /\ \A x \in A : \E i \in DOMAIN M : M[i] = x
  BY DEF MergedAs
<1>5. \A j \in J : lines[j].key \in DOMAIN v => \A i \in 1..(j - 1) : lines[i].key # lines[j].key
  BY DEF Keep
<1>6. \A x \in A : x.key \in DOMAIN v /\ x.val = v[x.key] /\ \A i \in DOMAIN lines : lines[i].key # x.key
  BY DEF Added
<1>7. \A x, y \in A : x.key = y.key => x = y
  BY DEF Added
<1>8. \A i \in DOMAIN M : i \in 1..c \/ i > c
  BY <1>1
<1>9. \A i \in DOMAIN M : M[i].key \in DOMAIN v => M[i].val = v[M[i].key]
  BY <1>3, <1>4, <1>6, <1>8
<1>10. ASSUME NEW i \in DOMAIN M, NEW j \in DOMAIN M, M[i].key = M[j].key, M[i].key \in DOMAIN v PROVE i = j
  <2>1. ASSUME NEW x \in 1..c, NEW y \in 1..c, x < y, M[x].key = M[y].key, M[x].key \in DOMAIN v PROVE FALSE
    <3> PICK a, b : a = e[x] /\ b = e[y]
      OBVIOUS
    <3>1. a \in J /\ b \in J /\ a < b /\ a \in 1..Len(lines) /\ b \in 1..Len(lines)
      BY <1>1, <1>2, <2>1
    <3>2. lines[a].key = lines[b].key /\ lines[b].key \in DOMAIN v
      BY <1>3, <2>1
    <3>3. a \in 1..(b - 1)
      BY <1>1, <3>1
    <3> QED
      BY <1>5, <3>1, <3>2, <3>3
  <2>2. CASE i \in 1..c /\ j \in 1..c
    <3>1. i < j \/ j < i \/ i = j
      BY <1>1, <2>2
    <3> QED
      BY <1>10, <2>1, <2>2, <3>1
  <2>3. ASSUME NEW x \in 1..c, NEW y \in DOMAIN M, y > c, M[x].key = M[y].key PROVE FALSE
    <3>1. M[y] \in A /\ e[x] \in DOMAIN lines /\ lines[e[x]].key = M[y].key
      BY <1>2, <1>3, <1>4, <2>3
    <3> QED
      BY <1>6, <3>1
  <2>4. CASE i > c /\ j > c
    <3>1. M[i] \in A /\ M[j] \in A
      BY <1>4, <1>10, <2>4
    <3>2. M[i] = M[j]
      BY <1>7, <1>10, <3>1
    <3> QED
      BY <1>4, <1>10, <2>4, <3>2
  <2> QED
    BY <1>8, <1>10, <2>2, <2>3, <2>4
<1>11. ASSUME NEW k \in DOMAIN v PROVE \E i \in DOMAIN M : M[i].key = k
  <2>1. CASE \E i \in DOMAIN lines : lines[i].key = k
    <3> DEFINE T == {i \in Nat : i \in DOMAIN lines /\ lines[i].key = k}
    <3>1. T \subseteq Nat /\ T # {}
      BY <1>1, <2>1
    <3>2. PICK i \in T : \A j \in T : i <= j
      <4> HIDE DEF T
      <4> QED
        BY <3>1, Least
    <3>3. i \in DOMAIN lines /\ lines[i].key = k
      OBVIOUS
    <3>4. \A j \in 1..(i - 1) : lines[j].key # lines[i].key
      BY <1>1, <3>2, <3>3
    <3>5. i \in J
      BY <1>11, <3>3, <3>4 DEF Keep
    <3>6. PICK m \in 1..c : e[m] = i
      BY <1>2, <3>5
    <3>7. m \in DOMAIN M
      BY <1>1
    <3> QED
      BY <1>3, <3>3, <3>6, <3>7
  <2>2. CASE \A i \in DOMAIN lines : lines[i].key # k
    <3>1. [key |-> k, val |-> v[k]] \in A
      BY <1>11, <2>2 DEF Added
    <3> QED
      BY <1>4, <3>1
  <2> QED
    BY <2>1, <2>2
<1> QED
  BY <1>9, <1>10, <1>11

\* What the user gave survives the merge.
LEMMA MergedHeld ==
  ASSUME NEW lines \in Seq(EnvLine), NEW v \in Entries, NEW w \in Entries, NEW M, NEW c, NEW e, MergedAs(lines, w, M, c, e),
         DOMAIN w \subseteq DOMAIN v, \A k \in DOMAIN w : w[k] = v[k], NEW k, Held(k, v, lines)
  PROVE  Held(k, v, M)
<1>1. /\ M \in Seq(EnvLine) /\ c \in 0..Len(M) /\ DOMAIN M = 1..Len(M) /\ Len(M) \in Nat
      /\ DOMAIN lines = 1..Len(lines) /\ Len(lines) \in Nat
  BY DEF MergedAs
<1>2. /\ \A m \in 1..c : e[m] \in DOMAIN lines
      /\ \A m, l \in 1..c : m < l => e[m] < e[l]
      /\ \A m \in 1..c : M[m].key = lines[e[m]].key /\ (M[m].key \notin DOMAIN w => M[m] = lines[e[m]])
      /\ \A i \in DOMAIN M : i > c => M[i].key \in DOMAIN w
  BY DEF MergedAs, Added
<1>3. ASSUME NEW i \in DOMAIN lines, lines[i].key \notin DOMAIN w, lines[i].val = "static"
      PROVE  \E m \in 1..c : e[m] = i
  <2>1. i \in Keep(lines, w)
    BY <1>3, CredNames DEF Keep
  <2> QED
    BY <2>1 DEF MergedAs
<1>4. CASE k \in DOMAIN w
  <2>1. k \in DOMAIN v /\ w[k] = "static"
    BY <1>4 DEF Held
  <2>2. \A i \in DOMAIN M : M[i].key = k => M[i].val = "static"
    BY <1>4, <2>1, MergedExact
  <2>3. Later(k, M)
    BY <2>2 DEF Later, TokenAt
  <2> QED
    BY <2>1, <2>3 DEF Held
<1>5. CASE k \notin DOMAIN w
  <2>1. Later(k, M)
    <3> SUFFICES ASSUME NEW m \in DOMAIN M, TokenAt(k, M, m) PROVE \E l \in DOMAIN M : m < l /\ StaticAt(k, M, l)
      BY DEF Later
    <3>1. m \in 1..c /\ M[m] = lines[e[m]] /\ e[m] \in DOMAIN lines
      BY <1>1, <1>2, <1>5 DEF TokenAt
    <3>2. PICK j \in DOMAIN lines : e[m] < j /\ StaticAt(k, lines, j)
      BY <3>1 DEF Held, Later, TokenAt
    <3>3. PICK l \in 1..c : e[l] = j
      BY <1>3, <1>5, <3>2 DEF StaticAt
    <3>4. m < l /\ l \in DOMAIN M
      <4>1. l \in Int /\ m \in Int /\ j \in Int /\ e[m] \in Int
        BY <1>1, <3>1
      <4>2. ~(l < m) /\ l # m
        BY <1>2, <3>1, <3>2, <3>3, <4>1
      <4> QED
        BY <1>1, <4>1, <4>2
    <3>5. M[l] = lines[j]
      BY <1>2, <1>5, <3>2, <3>3 DEF StaticAt
    <3> QED
      BY <3>2, <3>4, <3>5 DEF StaticAt
  <2>2. k \in DOMAIN v \/ \E l \in DOMAIN M : StaticAt(k, M, l)
    <3>1. CASE k \in DOMAIN v
      BY <3>1
    <3>2. ASSUME NEW j \in DOMAIN lines, StaticAt(k, lines, j) PROVE \E l \in DOMAIN M : StaticAt(k, M, l)
      <4>1. PICK l \in 1..c : e[l] = j
        BY <1>3, <1>5, <3>2 DEF StaticAt
      <4>2. l \in DOMAIN M /\ M[l] = lines[j]
        BY <1>1, <1>2, <1>5, <3>2, <4>1 DEF StaticAt
      <4> QED
        BY <3>2, <4>2 DEF StaticAt
    <3> QED
      BY <3>1, <3>2 DEF Held
  <2> QED
    BY <2>1, <2>2 DEF Held
<1> QED
  BY <1>4, <1>5

\* The lines that no key of w has, tokens apart, are as they were.
Foreigners(lines, w) == {i \in DOMAIN lines : lines[i].key \notin DOMAIN w /\ ~Credentials!Leaked(lines[i])}

LEMMA MergedForeign ==
  ASSUME NEW lines \in Seq(EnvLine), NEW w \in Entries, NEW M, NEW c, NEW e, MergedAs(lines, w, M, c, e)
  PROVE  Sublist(M, Foreigners(M, w)) = Sublist(lines, Foreigners(lines, w))
<1>1. /\ M \in Seq(EnvLine) /\ c \in 0..Len(M) /\ DOMAIN M = 1..Len(M) /\ Len(M) \in Nat
      /\ DOMAIN lines = 1..Len(lines) /\ Len(lines) \in Nat
  BY DEF MergedAs
<1>2. /\ \A m \in 1..c : e[m] \in DOMAIN lines
      /\ \A m, l \in 1..c : m < l => e[m] < e[l]
      /\ \A m \in 1..c : M[m].key = lines[e[m]].key /\ (M[m].key \notin DOMAIN w => M[m] = lines[e[m]])
      /\ \A i \in DOMAIN M : i > c => M[i].key \in DOMAIN w
      /\ \A i \in Keep(lines, w) : \E k \in 1..c : e[k] = i
  BY DEF MergedAs, Added
<1>3. PICK I \in SUBSET DOMAIN M : I = Foreigners(M, w)
  BY DEF Foreigners
<1>4. PICK J \in SUBSET DOMAIN lines : J = Foreigners(lines, w)
  BY DEF Foreigners
<1>5. \A i \in I : i \in 1..c /\ M[i] = lines[e[i]] /\ e[i] \in J
  <2> SUFFICES ASSUME NEW i \in I PROVE i \in 1..c /\ M[i] = lines[e[i]] /\ e[i] \in J
    OBVIOUS
  <2>1. M[i].key \notin DOMAIN w /\ ~Credentials!Leaked(M[i]) /\ i \in DOMAIN M
    BY <1>3 DEF Foreigners
  <2>2. i \in 1..c
    BY <1>1, <1>2, <2>1
  <2>3. M[i] = lines[e[i]] /\ e[i] \in DOMAIN lines
    BY <1>2, <2>1, <2>2
  <2> QED
    BY <1>4, <2>1, <2>2, <2>3 DEF Foreigners
<1>6. \A j \in J : \E i \in I : e[i] = j
  <2> SUFFICES ASSUME NEW j \in J PROVE \E i \in I : e[i] = j
    OBVIOUS
  <2>1. lines[j].key \notin DOMAIN w /\ ~Credentials!Leaked(lines[j]) /\ j \in DOMAIN lines
    BY <1>4 DEF Foreigners
  <2>2. j \in Keep(lines, w)
    BY <2>1 DEF Keep
  <2>3. PICK k \in 1..c : e[k] = j
    BY <1>2, <2>2
  <2>4. k \in DOMAIN M /\ M[k] = lines[j]
    BY <1>1, <1>2, <2>1, <2>3
  <2>5. k \in I
    BY <1>3, <2>1, <2>4 DEF Foreigners
  <2> QED
    BY <2>3, <2>5
<1>7. Aligned(M, I, lines, J, e)
  BY <1>2, <1>5, <1>6 DEF Aligned
<1>8. Sublist(M, I) = Sublist(lines, J)
  BY ONLY <1>1, <1>7, SublistSame, lines \in Seq(EnvLine), I \in SUBSET DOMAIN M, J \in SUBSET DOMAIN lines
<1> QED
  BY <1>3, <1>4, <1>8

(* ---- the import -------------------------------------------------------------------- *)

\* What the user gave survives the import, and the deletion of .env after it.
LEMMA ImportedHeld ==
  ASSUME NEW lines \in Seq(EnvLine), NEW v \in Entries
  PROVE  /\ Credentials!Imported(v, lines) \in Entries
         /\ \A k \in EnvKey : Held(k, v, lines) =>
              Held(k, Credentials!Imported(v, lines), lines) /\ Held(k, Credentials!Imported(v, lines), <<>>)
<1> DEFINE real(k) == {i \in DOMAIN lines : lines[i].key = k /\ lines[i].val # "aegis-managed"}
           last(k) == CHOOSE i \in real(k) : \A j \in real(k) : j <= i
<1>1. PICK w : w = Credentials!Imported(v, lines)
  OBVIOUS
<1>2. w = [k \in DOMAIN v \cup {l \in EnvKey : real(l) # {}} |->
             IF real(k) # {} THEN lines[last(k)].val ELSE v[k]]
  BY <1>1, CredNames DEF Credentials!Imported, EnvKey
<1>3. DOMAIN lines = 1..Len(lines) /\ Len(lines) \in Nat
  OBVIOUS
<1>4. ASSUME NEW k, real(k) # {} PROVE last(k) \in real(k) /\ \A j \in real(k) : j <= last(k)
  <2>1. \E i \in real(k) : \A j \in real(k) : j <= i
    BY <1>3, <1>4, Greatest
  <2> HIDE DEF real
  <2> QED
    BY <2>1
<1>5. /\ DOMAIN w = DOMAIN v \cup {l \in EnvKey : real(l) # {}}
      /\ \A k \in DOMAIN w : w[k] = IF real(k) # {} THEN lines[last(k)].val ELSE v[k]
      /\ w = [k \in DOMAIN w |-> w[k]]
  BY <1>2
<1>6. w \in Entries
  <2>1. DOMAIN w \subseteq EnvKey
    BY <1>5, EntriesType
  <2>2. ASSUME NEW k \in DOMAIN w PROVE w[k] \in Value
    <3>1. CASE real(k) # {}
      <4>1. last(k) \in DOMAIN lines /\ lines[last(k)].val # "aegis-managed"
        BY <1>4, <3>1
      <4>2. lines[last(k)] \in EnvLine
        BY <4>1
      <4> HIDE DEF last, real
      <4> QED
        BY <1>5, <3>1, <4>1, <4>2 DEF EnvLine, Value
    <3>2. CASE real(k) = {}
      <4> HIDE DEF last, real
      <4> QED
        BY <1>5, <3>2, EntriesType
    <3> QED
      BY <3>1, <3>2
  <2> QED
    BY <1>5, <2>1, <2>2, EntriesType
<1>7. ASSUME NEW k \in EnvKey, Held(k, v, lines) PROVE k \in DOMAIN w /\ w[k] = "static"
  <2>1. CASE real(k) # {}
    <3>1. last(k) \in DOMAIN lines /\ lines[last(k)].key = k /\ lines[last(k)].val # "aegis-managed"
      BY <1>4, <2>1
    <3>2. \A j \in DOMAIN lines : lines[j].key = k /\ lines[j].val # "aegis-managed" => j <= last(k)
      BY <1>4, <2>1
    <3>3. lines[last(k)] \in EnvLine
      BY <3>1
    <3>4. k \in DOMAIN w /\ w[k] = lines[last(k)].val
      <4> HIDE DEF last, real
      <4> QED
        BY <1>5, <2>1
    <3> HIDE DEF last, real
    <3>5. PICK i \in DOMAIN lines : i = last(k)
      BY <3>1
    <3>6. ~TokenAt(k, lines, i)
      <4> SUFFICES ASSUME TokenAt(k, lines, i) PROVE FALSE
        OBVIOUS
      <4>1. PICK j \in DOMAIN lines : i < j /\ StaticAt(k, lines, j)
        BY <1>7 DEF Held, Later
      <4>2. j <= i
        BY <3>2, <3>5, <4>1 DEF StaticAt
      <4> QED
        BY <1>3, <4>1, <4>2
    <3>7. lines[i].val = "static"
      BY <3>1, <3>3, <3>5, <3>6 DEF TokenAt, EnvLine
    <3> QED
      BY <3>4, <3>5, <3>7
  <2>2. CASE real(k) = {}
    <3>1. \A i \in DOMAIN lines : ~StaticAt(k, lines, i)
      BY <2>2 DEF StaticAt
    <3>2. k \in DOMAIN v /\ v[k] = "static"
      BY <1>7, <3>1 DEF Held
    <3> HIDE DEF last, real
    <3> QED
      BY <1>5, <2>2, <3>2
  <2> QED
    BY <2>1, <2>2
<1>8. ASSUME NEW k \in EnvKey, Held(k, v, lines) PROVE Held(k, w, lines) /\ Held(k, w, <<>>)
  <2>1. k \in DOMAIN w /\ w[k] = "static" /\ Later(k, lines)
    BY <1>7, <1>8 DEF Held
  <2>2. Later(k, <<>>)
    BY DEF Later
  <2> QED
    BY ONLY <2>1, <2>2 DEF Held
<1> HIDE DEF real, last
<1> QED
  BY <1>1, <1>6, <1>8

(* ---- the commands ------------------------------------------------------------------ *)

LEMMA EmptyType == Credentials!Empty \in Entries /\ DOMAIN Credentials!Empty = {}
<1>1. DOMAIN Credentials!Empty = {}
  BY DEF Credentials!Empty
<1>2. Credentials!Empty \in [{} -> Value]
  BY DEF Credentials!Empty
<1> QED
  BY <1>1, <1>2, EntriesType

LEMMA NoLines == <<>> \in Seq(EnvLine)
OBVIOUS

LEMMA IdleType == Credentials!Idle \in ShellState /\ Credentials!Idle.step = "idle" /\ Credentials!Idle.op = "none"
<1> PICK v, lines : v = Credentials!Empty /\ lines = <<>>
  OBVIOUS
<1>1. v \in Entries /\ lines \in Seq(EnvLine)
  BY EmptyType, NoLines
<1>2. Credentials!Idle = [step |-> "idle", op |-> "none", vault |-> v, lines |-> lines, found |-> {}, pool |-> {}]
  BY DEF Credentials!Idle
<1>3. Credentials!Idle \in ShellRecord /\ Credentials!Idle.step = "idle" /\ Credentials!Idle.op = "none"
  BY ONLY <1>1, <1>2 DEF ShellRecord, ShellStep, ShellOp
<1> QED
  BY <1>3 DEF ShellState, ShellOf, Healing

LEMMA IdleSound ==
  ASSUME NEW keys, NEW v, NEW lines, NEW creds, NEW lock
  PROVE  Sound(Credentials!Idle, keys, v, lines, creds, lock) <=> Safe(keys, v, lines)
<1>1. Credentials!Idle.step = "idle" /\ Credentials!Idle.op = "none"
  BY IdleType
<1> QED
  BY <1>1 DEF Sound, SafeAt, Knows, Treated, Writing

LEMMA CredInit == Credentials!Init => CredInv
<1> SUFFICES ASSUME Credentials!Init PROVE CredInv
  OBVIOUS
<1>1. /\ vault = Credentials!Empty /\ vaultLock = FALSE /\ shared = FALSE
      /\ shell = [p \in Process |-> Credentials!Idle]
      /\ given = {l.key : l \in {m \in Credentials!ToSet(envFile.lines) : m.val = "static"}}
  BY CredNames DEF Credentials!Init
<1>2. /\ envFile \in [exists : BOOLEAN, lines : Seq(EnvLine)] /\ (envFile.exists = FALSE => envFile.lines = <<>>)
      /\ \A i, j \in DOMAIN envFile.lines : i = j
  <2>1. \/ envFile = [exists |-> FALSE, lines |-> <<>>]
        \/ envFile = [exists |-> TRUE, lines |-> <<[key |-> "DISCORD_BOT_TOKEN", val |-> "static"]>>]
        \/ envFile = [exists |-> TRUE, lines |-> <<[key |-> "ANTHROPIC_API_KEY", val |-> "aegis-managed"]>>]
    BY CredNames DEF Credentials!Init, Credentials!NoEnv, Credentials!EnvOf
  <2>2. ASSUME NEW there \in BOOLEAN, NEW lines \in Seq(EnvLine), envFile = [exists |-> there, lines |-> lines],
               there = FALSE => lines = <<>>, \A i, j \in DOMAIN lines : i = j
        PROVE  /\ envFile \in [exists : BOOLEAN, lines : Seq(EnvLine)] /\ (envFile.exists = FALSE => envFile.lines = <<>>)
               /\ \A i, j \in DOMAIN envFile.lines : i = j
    <3>1. envFile.exists = there /\ envFile.lines = lines
      BY <2>2
    <3> QED
      BY <2>2, <3>1
  <2>3. CASE envFile = [exists |-> FALSE, lines |-> <<>>]
    <3>1. <<>> \in Seq(EnvLine) /\ \A i, j \in DOMAIN <<>> : i = j
      OBVIOUS
    <3> QED
      BY <2>2, <2>3, <3>1
  <2>4. ASSUME NEW l \in EnvLine, envFile = [exists |-> TRUE, lines |-> <<l>>]
        PROVE  /\ envFile \in [exists : BOOLEAN, lines : Seq(EnvLine)] /\ (envFile.exists = FALSE => envFile.lines = <<>>)
               /\ \A i, j \in DOMAIN envFile.lines : i = j
    <3>1. <<l>> \in Seq(EnvLine) /\ \A i, j \in DOMAIN <<l>> : i = j
      OBVIOUS
    <3> QED
      BY <2>2, <2>4, <3>1
  <2>5. /\ [key |-> "DISCORD_BOT_TOKEN", val |-> "static"] \in EnvLine
        /\ [key |-> "ANTHROPIC_API_KEY", val |-> "aegis-managed"] \in EnvLine
    BY CredNames DEF EnvLine
  <2> QED
    BY ONLY <2>1, <2>3, <2>4, <2>5
<1>3. PICK lines \in Seq(EnvLine) : lines = envFile.lines
  BY <1>2
<1>4. \A k \in given : \E i \in DOMAIN lines : StaticAt(k, lines, i)
  BY <1>1, <1>3, CredSublist DEF StaticAt
<1>5. given \in SUBSET EnvKey
  <2> SUFFICES ASSUME NEW k \in given PROVE k \in EnvKey
    OBVIOUS
  <2>1. PICK i \in DOMAIN lines : lines[i].key = k
    BY <1>4 DEF StaticAt
  <2>2. lines[i] \in EnvLine
    OBVIOUS
  <2> QED
    BY <2>1, <2>2 DEF EnvLine
<1>6. pool \in SUBSET Credentials!Credential
  BY DEF Credentials!Init, Credentials!Credential
<1>7. CredTyped
  BY <1>1, <1>2, <1>5, <1>6, EmptyType, IdleType DEF CredTyped, CredFiles
<1>8. Safe(given, vault, envFile.lines)
  <2> SUFFICES ASSUME NEW k \in given PROVE Held(k, vault, lines)
    BY <1>3 DEF Safe
  <2>1. PICK i \in DOMAIN lines : StaticAt(k, lines, i)
    BY <1>4
  <2>2. Later(k, lines)
    BY <1>2, <1>3, <2>1 DEF Later, TokenAt, StaticAt
  <2>3. k \notin DOMAIN vault
    BY <1>1, EmptyType
  <2> QED
    BY <2>1, <2>2, <2>3 DEF Held
<1>9. \A p \in Process : ~Credentials!Busy(p)
  BY <1>1, IdleType DEF Credentials!Busy, Credentials!Mine
<1> QED
  BY <1>7, <1>8, <1>9 DEF CredInv, CredInTurn, Credentials!AnyBusy

\* A command goes on with me, on files that are as me takes them to be.
CredGoesWith(p, me) ==
  /\ Credentials!Busy(p) /\ me \in ShellState /\ shell' = [shell EXCEPT ![p] = me]
  /\ CredFiles' /\ UNCHANGED <<vaultLock, given, shared>>
  /\ Sound(shell[p], given, vault, envFile.lines, pool, vaultLock)
       => Sound(me, given, vault', envFile'.lines, pool', vaultLock)

LEMMA CredGoes ==
  ASSUME CredInv, NEW p \in Process, NEW me, CredGoesWith(p, me)
  PROVE  CredInv'
<1>1. CredTyped'
  BY DEF CredInv, CredTyped, CredFiles, CredGoesWith
<1>2. shell'[p] = me /\ \A q \in Process : q # p => shell'[q] = shell[q]
  BY DEF CredInv, CredTyped, CredGoesWith
<1>3. ASSUME shared' = FALSE PROVE CredInTurn'
  <2>1. CredInTurn
    BY <1>3 DEF CredInv, CredGoesWith
  <2>2. \A q \in Process : Credentials!Busy(q) => q = p
    BY <2>1 DEF CredInTurn, CredGoesWith
  <2>3. \A q \in Process : Credentials!Busy(q)' => q = p
    BY <1>2, <2>2 DEF Credentials!Busy, Credentials!Mine
  <2>4. Sound(me, given', vault', envFile'.lines, pool', vaultLock')
    BY <2>1 DEF CredInTurn, CredGoesWith
  <2>5. ~Credentials!AnyBusy' => Safe(given', vault', envFile'.lines)
    <3> SUFFICES ASSUME ~Credentials!AnyBusy' PROVE Safe(given', vault', envFile'.lines)
      OBVIOUS
    <3>1. me.step = "idle"
      BY <1>2 DEF Credentials!AnyBusy, Credentials!Busy, Credentials!Mine
    <3> QED
      BY <2>4, <3>1 DEF Sound, SafeAt, Writing
  <2> QED
    BY <1>2, <2>3, <2>4, <2>5 DEF CredInTurn
<1> QED
  BY <1>1, <1>3 DEF CredInv

\* The user or another command does something at one blow.
LEMMA CredAtOnce ==
  ASSUME CredInv, shell' = shell, vault' \in Entries, vaultLock' \in BOOLEAN,
         envFile' \in [exists : BOOLEAN, lines : Seq(EnvLine)], envFile'.exists = FALSE => envFile'.lines = <<>>,
         pool' = pool, given' \in SUBSET EnvKey, shared' = (shared \/ Credentials!AnyBusy),
         Safe(given, vault, envFile.lines) => Safe(given', vault', envFile'.lines)
  PROVE  CredInv'
<1>1. CredTyped'
  BY DEF CredInv, CredTyped, CredFiles
<1>2. ASSUME shared' = FALSE PROVE CredInTurn'
  <2>1. shared = FALSE /\ ~Credentials!AnyBusy
    BY <1>2 DEF CredInv, CredTyped
  <2>2. \A q \in Process : ~Credentials!Busy(q) /\ ~Credentials!Busy(q)'
    BY <2>1 DEF Credentials!AnyBusy, Credentials!Busy, Credentials!Mine
  <2>3. Safe(given', vault', envFile'.lines)
    BY <2>1 DEF CredInv, CredInTurn
  <2> QED
    BY <2>2, <2>3 DEF CredInTurn
<1> QED
  BY <1>1, <1>2 DEF CredInv

LEMMA CredBegin ==
  ASSUME CredInv, NEW p \in Process, NEW op \in ShellOp \ {"none"},
         NEW s \in {"sync vault", "import load", "diagnose vault", "clean read"},
         op = "doctor" <=> s = "diagnose vault", Credentials!Begin(p, op, s)
  PROVE  CredInv'
<1> PICK old \in ShellRecord : old = Credentials!Idle
  BY IdleType DEF ShellState
<1> PICK me : me = [old EXCEPT !.step = s, !.op = op]
  OBVIOUS
<1>1. shell' = [shell EXCEPT ![p] = me]
  BY DEF Credentials!Begin, Credentials!Goto
<1>a. s \in ShellStep
  BY DEF ShellStep, Healing
<1>b. me \in ShellRecord /\ me.step = s /\ me.op = op
  BY <1>a DEF ShellRecord
<1>2. me \in ShellState
  BY <1>b DEF ShellState, ShellOf, Healing
<1>3. UNCHANGED <<vault, vaultLock, envFile, pool, given>> /\ shared' = (shared \/ Credentials!AnyBusy)
  BY DEF Credentials!Begin, Credentials!credFiles
<1>4. CredTyped'
  BY <1>1, <1>2, <1>3 DEF CredInv, CredTyped, CredFiles
<1>5. ASSUME shared' = FALSE PROVE CredInTurn'
  <2>1. shared = FALSE /\ ~Credentials!AnyBusy
    BY <1>3, <1>5 DEF CredInv, CredTyped
  <2>2. shell'[p] = me /\ \A q \in Process : q # p => shell'[q] = shell[q]
    BY <1>1 DEF CredInv, CredTyped
  <2>3. \A q \in Process : Credentials!Busy(q)' => q = p
    BY <2>1, <2>2 DEF Credentials!AnyBusy, Credentials!Busy, Credentials!Mine
  <2>4. Safe(given', vault', envFile'.lines)
    BY <1>3, <2>1 DEF CredInv, CredInTurn
  <2>6. Sound(me, given', vault', envFile'.lines, pool', vaultLock')
    BY <2>4, <1>b DEF Sound, SafeAt, Knows, Treated, Writing
  <2>7. Credentials!Busy(p)'
    BY <2>2, <1>b DEF Credentials!Busy, Credentials!Mine
  <2> QED
    BY <2>2, <2>3, <2>4, <2>6, <2>7 DEF CredInTurn, Credentials!AnyBusy
<1> QED
  BY <1>4, <1>5 DEF CredInv

\* A command is done.
LEMMA CredEnds ==
  ASSUME CredInv, NEW p \in Process, Credentials!Busy(p), Credentials!Done(p), CredFiles', UNCHANGED <<vaultLock, given, shared>>,
         Sound(shell[p], given, vault, envFile.lines, pool, vaultLock) => Safe(given, vault', envFile'.lines)
  PROVE  CredInv'
<1>1. Sound(shell[p], given, vault, envFile.lines, pool, vaultLock)
        => Sound(Credentials!Idle, given, vault', envFile'.lines, pool', vaultLock)
  BY IdleSound
<1>2. shell' = [shell EXCEPT ![p] = Credentials!Idle]
  BY DEF Credentials!Done, Credentials!Goto
<1> PICK me : me = Credentials!Idle
  OBVIOUS
<1>3. CredGoesWith(p, me)
  BY <1>1, <1>2, IdleType DEF CredGoesWith
<1> QED
  BY <1>3, CredGoes

LEMMA CredHere ==
  ASSUME CredInv, NEW p \in Process
  PROVE  /\ \E old \in ShellRecord : old = shell[p] /\ ShellOf(old)
         /\ \E lines \in Seq(EnvLine) : lines = envFile.lines /\ (envFile.exists = FALSE => lines = <<>>)
         /\ CredFiles /\ vault \in Entries
BY DEF CredInv, CredTyped, CredFiles, ShellState

(* ---- the merge and the writing of .env ---------------------------------------------- *)

LEMMA ExportedType ==
  ASSUME NEW v \in Entries
  PROVE  /\ Credentials!Exported(v) \in Entries
         /\ DOMAIN Credentials!Exported(v) = DOMAIN v \ Credentials!NeverInject
         /\ \A k \in DOMAIN Credentials!Exported(v) : Credentials!Exported(v)[k] = v[k]
<1>1. /\ DOMAIN Credentials!Exported(v) = DOMAIN v \ Credentials!NeverInject
      /\ \A k \in DOMAIN Credentials!Exported(v) : Credentials!Exported(v)[k] = v[k]
      /\ Credentials!Exported(v) = [k \in DOMAIN Credentials!Exported(v) |-> Credentials!Exported(v)[k]]
  BY DEF Credentials!Exported
<1>2. DOMAIN v \subseteq EnvKey /\ v \in [DOMAIN v -> Value]
  BY EntriesType
<1>3. \A k \in DOMAIN Credentials!Exported(v) : Credentials!Exported(v)[k] \in Value
  BY <1>1, <1>2
<1> PICK w : w = Credentials!Exported(v)
  OBVIOUS
<1>4. DOMAIN w \subseteq EnvKey /\ w \in [DOMAIN w -> Value]
  BY <1>1, <1>2, <1>3
<1>5. w \in Entries
  BY <1>4, EntriesType
<1> QED
  BY <1>1, <1>5

LEMMA SyncVaultGoes ==
  ASSUME CredInv, NEW p \in Process, Credentials!SyncVault(p)
  PROVE  CredInv'
<1>1. PICK old \in ShellRecord : old = shell[p] /\ ShellOf(old) /\ CredFiles /\ vault \in Entries
  BY CredHere
<1>2. old.step = "sync vault" /\ Credentials!Busy(p)
  BY <1>1 DEF Credentials!SyncVault, Credentials!At, Credentials!Mine, Credentials!Busy
<1>3. UNCHANGED <<vault, vaultLock, envFile, pool, given, shared>>
  BY DEF Credentials!SyncVault, Credentials!credFiles
<1>4. CredFiles'
  BY <1>1, <1>3 DEF CredFiles
<1>5. Sound(old, given, vault, envFile.lines, pool, vaultLock) => Safe(given, vault, envFile.lines)
  BY <1>2 DEF Sound, SafeAt, Writing
<1>6. CASE Credentials!Done(p)
  BY <1>1, <1>2, <1>3, <1>4, <1>5, <1>6, CredEnds
<1>7. ASSUME NEW me, me = [old EXCEPT !.step = "sync read", !.vault = Credentials!Exported(vault)], shell' = [shell EXCEPT ![p] = me]
      PROVE  CredInv'
  <2>1. "sync read" \in ShellStep /\ Credentials!Exported(vault) \in Entries
    BY <1>1, ExportedType DEF ShellStep
  <2>2. me \in ShellRecord /\ me.step = "sync read" /\ me.vault = Credentials!Exported(vault) /\ me.op = old.op
    BY <1>7, <2>1 DEF ShellRecord
  <2>3. old.op # "doctor" /\ DOMAIN me.vault \cap Credentials!NeverInject = {}
    BY <1>1, <1>2, <2>2, ExportedType DEF ShellOf, Healing
  <2>4. me \in ShellState
    BY <2>2, <2>3 DEF ShellState, ShellOf, Healing
  <2>5. Sound(old, given, vault, envFile.lines, pool, vaultLock) => Sound(me, given, vault, envFile.lines, pool, vaultLock)
    BY <1>5, <2>2, <2>3 DEF Sound, SafeAt, Knows, Treated, Writing
  <2>6. CredGoesWith(p, me)
    BY <1>1, <1>2, <1>3, <1>4, <1>7, <2>4, <2>5 DEF CredGoesWith
  <2> QED
    BY <2>6, CredGoes
<1>8. Credentials!Done(p) \/ shell' = [shell EXCEPT ![p] = [old EXCEPT !.step = "sync read", !.vault = Credentials!Exported(vault)]]
  BY <1>1 DEF Credentials!SyncVault, Credentials!Goto, Credentials!Mine
<1> QED
  BY <1>6, <1>7, <1>8

LEMMA SyncReadGoes ==
  ASSUME CredInv, NEW p \in Process, Credentials!SyncRead(p)
  PROVE  CredInv'
<1>1. PICK old \in ShellRecord : old = shell[p] /\ ShellOf(old) /\ CredFiles /\ vault \in Entries
  BY CredHere
<1>a. PICK lines \in Seq(EnvLine) : lines = envFile.lines
  BY CredHere
<1>2. old.step = "sync read" /\ Credentials!Busy(p) /\ old.vault \in Entries
  BY <1>1 DEF Credentials!SyncRead, Credentials!At, Credentials!Mine, Credentials!Busy, ShellRecord
<1>3. UNCHANGED <<vault, vaultLock, envFile, pool, given, shared>>
  BY DEF Credentials!SyncRead, Credentials!credFiles
<1>4. CredFiles'
  BY <1>1, <1>3 DEF CredFiles
<1>5. PICK M : M = Credentials!Merged(lines, old.vault)
  OBVIOUS
<1>6. PICK c : \E e : MergedAs(lines, old.vault, M, c, e)
  BY <1>2, <1>5, MergedParts
<1>7. PICK e : MergedAs(lines, old.vault, M, c, e)
  BY <1>6
<1>8. M \in Seq(EnvLine)
  BY <1>7 DEF MergedAs
<1>9. PICK me : me = [old EXCEPT !.step = "truncate", !.lines = M] /\ shell' = [shell EXCEPT ![p] = me]
  BY <1>1, <1>a, <1>5 DEF Credentials!SyncRead, Credentials!Goto, Credentials!Mine
<1>10. me \in ShellRecord /\ me.step = "truncate" /\ me.lines = M /\ me.op = old.op
  <2>1. "truncate" \in ShellStep
    BY DEF ShellStep, Writing
  <2> QED
    BY <1>8, <1>9, <2>1 DEF ShellRecord
<1>11. old.op # "doctor"
  BY <1>1, <1>2 DEF ShellOf, Healing
<1>12. me \in ShellState
  BY <1>10, <1>11 DEF ShellState, ShellOf, Healing
<1>13. ASSUME Sound(old, given, vault, lines, pool, vaultLock)
       PROVE  Sound(me, given, vault, lines, pool, vaultLock)
  <2>1. Safe(given, vault, lines) /\ old.vault = Credentials!Exported(vault)
    BY <1>2, <1>13 DEF Sound, SafeAt, Knows, Writing
  <2>2. DOMAIN old.vault \subseteq DOMAIN vault /\ \A k \in DOMAIN old.vault : old.vault[k] = vault[k]
    BY <1>1, <2>1, ExportedType
  <2>3. Safe(given, vault, M)
    <3> SUFFICES ASSUME NEW k \in given PROVE Held(k, vault, M)
      BY DEF Safe
    <3>1. Held(k, vault, lines)
      BY <2>1 DEF Safe
    <3> QED
      BY <1>1, <1>2, <1>7, <2>2, <3>1, MergedHeld
  <2> QED
    BY <1>10, <1>11, <2>3 DEF Sound, SafeAt, Knows, Treated, Writing
<1>14. CredGoesWith(p, me)
  BY <1>1, <1>a, <1>2, <1>3, <1>4, <1>9, <1>12, <1>13 DEF CredGoesWith
<1> QED
  BY <1>14, CredGoes

LEMMA TruncateGoes ==
  ASSUME CredInv, NEW p \in Process, Credentials!Truncate(p)
  PROVE  CredInv'
<1>1. PICK old \in ShellRecord : old = shell[p] /\ ShellOf(old) /\ CredFiles /\ vault \in Entries
  BY CredHere
<1>2. old.step = "truncate" /\ Credentials!Busy(p)
  BY <1>1 DEF Credentials!Truncate, Credentials!At, Credentials!Mine, Credentials!Busy
<1>3. UNCHANGED <<vault, vaultLock, pool, given, shared>>
  BY DEF Credentials!Truncate
<1>4. CredFiles' /\ envFile'.lines = <<>>
  <2>1. envFile' = [exists |-> TRUE, lines |-> <<>>]
    BY DEF Credentials!Truncate, Credentials!EnvOf
  <2> QED
    BY <1>1, <1>3, <2>1, NoLines DEF CredFiles
<1>5. PICK me : me = [old EXCEPT !.step = "write"] /\ shell' = [shell EXCEPT ![p] = me]
  BY <1>1 DEF Credentials!Truncate, Credentials!Goto, Credentials!Mine
<1>6. me \in ShellRecord /\ me.step = "write" /\ me.lines = old.lines /\ me.op = old.op /\ me.found = old.found
  <2>1. "write" \in ShellStep
    BY DEF ShellStep, Writing
  <2> QED
    BY <1>5, <2>1 DEF ShellRecord
<1>7. me \in ShellState
  BY <1>6 DEF ShellState, ShellOf, Healing
<1>8. ASSUME Sound(old, given, vault, envFile.lines, pool, vaultLock)
      PROVE  Sound(me, given, vault, envFile'.lines, pool, vaultLock)
  BY <1>2, <1>6, <1>8 DEF Sound, SafeAt, Knows, Treated, Writing
<1>9. CredGoesWith(p, me)
  BY <1>1, <1>2, <1>3, <1>4, <1>5, <1>7, <1>8 DEF CredGoesWith
<1> QED
  BY <1>9, CredGoes

LEMMA WriteGoes ==
  ASSUME CredInv, NEW p \in Process, Credentials!Write(p)
  PROVE  CredInv'
<1>1. PICK old \in ShellRecord : old = shell[p] /\ ShellOf(old) /\ CredFiles /\ vault \in Entries
  BY CredHere
<1>2. old.step = "write" /\ Credentials!Busy(p) /\ old.lines \in Seq(EnvLine)
  BY <1>1 DEF Credentials!Write, Credentials!At, Credentials!Mine, Credentials!Busy, ShellRecord
<1>3. UNCHANGED <<vault, vaultLock, pool, given, shared>>
  BY DEF Credentials!Write
<1>4. CredFiles' /\ envFile'.lines = old.lines
  <2>1. envFile' = [exists |-> TRUE, lines |-> old.lines]
    BY <1>1 DEF Credentials!Write, Credentials!EnvOf, Credentials!Mine
  <2> QED
    BY <1>1, <1>2, <1>3, <2>1 DEF CredFiles
<1>5. Sound(old, given, vault, envFile.lines, pool, vaultLock) => Safe(given, vault, envFile'.lines)
  BY <1>2, <1>4 DEF Sound, SafeAt, Writing
<1>6. CASE old.op # "doctor"
  <2>1. Credentials!Done(p)
    BY <1>1, <1>6 DEF Credentials!Write, Credentials!Mine
  <2> QED
    BY <1>1, <1>2, <1>3, <1>4, <1>5, <2>1, CredEnds
<1>7. CASE old.op = "doctor"
  <2>1. PICK me : me = [old EXCEPT !.step = "heal pool", !.lines = <<>>] /\ shell' = [shell EXCEPT ![p] = me]
    BY <1>1, <1>7 DEF Credentials!Write, Credentials!Goto, Credentials!Mine
  <2>2. me \in ShellRecord /\ me.step = "heal pool" /\ me.op = "doctor" /\ me.found = old.found
    <3>1. "heal pool" \in ShellStep
      BY DEF ShellStep, Healing
    <3> QED
      BY <1>7, <2>1, <3>1, NoLines DEF ShellRecord
  <2>3. me \in ShellState
    BY <2>2 DEF ShellState, ShellOf, Healing
  <2>4. ASSUME Sound(old, given, vault, envFile.lines, pool, vaultLock)
        PROVE  Sound(me, given, vault, envFile'.lines, pool, vaultLock)
    BY <1>2, <1>4, <1>5, <1>7, <2>2, <2>4 DEF Sound, SafeAt, Knows, Treated, Writing
  <2>5. CredGoesWith(p, me)
    BY <1>1, <1>2, <1>3, <1>4, <2>1, <2>3, <2>4 DEF CredGoesWith
  <2> QED
    BY <2>5, CredGoes
<1> QED
  BY <1>6, <1>7

(* ---- steps of the import ------------------------------------------------------------ *)

\* A step of the import or of the deletion leads to another one, or to the merge.
LEMMA ImportStep ==
  ASSUME CredInv, NEW p \in Process, NEW old \in ShellRecord, old = shell[p], ShellOf(old),
         old.step \in {"import load", "import", "delete load", "delete"},
         NEW s \in {"import", "delete load", "delete", "sync vault"}, NEW v \in Entries,
         NEW me, me = [old EXCEPT !.step = s, !.vault = v], shell' = [shell EXCEPT ![p] = me],
         CredFiles', UNCHANGED <<vaultLock, given, shared>>,
         s \in {"import", "delete"} => v = vault',
         Knows(old, vault, envFile.lines) /\ Safe(given, vault, envFile.lines) => Safe(given, vault', envFile'.lines)
  PROVE  CredInv'
<1>1. s \in ShellStep
  BY DEF ShellStep
<1>2. me \in ShellRecord /\ me.step = s /\ me.vault = v /\ me.op = old.op
  BY <1>1 DEF ShellRecord
<1>3. old.op # "doctor" /\ Credentials!Busy(p)
  BY DEF ShellOf, Healing, Writing, Credentials!Busy, Credentials!Mine
<1>4. me \in ShellState
  BY <1>2, <1>3 DEF ShellState, ShellOf, Healing
<1>5. ASSUME Sound(old, given, vault, envFile.lines, pool, vaultLock)
      PROVE  Sound(me, given, vault', envFile'.lines, pool', vaultLock)
  <2>1. Safe(given, vault', envFile'.lines)
    BY <1>5 DEF Sound, SafeAt, Writing
  <2> QED
    BY <1>2, <1>3, <2>1 DEF Sound, SafeAt, Knows, Treated, Writing
<1>6. CredGoesWith(p, me)
  BY <1>3, <1>4, <1>5 DEF CredGoesWith
<1> QED
  BY <1>6, CredGoes

LEMMA StepOnly ==
  ASSUME NEW old \in ShellRecord, NEW s
  PROVE  [old EXCEPT !.step = s] = [old EXCEPT !.step = s, !.vault = old.vault]
<1> PICK a, b : a = [old EXCEPT !.step = s] /\ b = [old EXCEPT !.step = s, !.vault = old.vault]
  OBVIOUS
<1>1. a = [step |-> s, op |-> old.op, vault |-> old.vault, lines |-> old.lines, found |-> old.found, pool |-> old.pool]
  BY DEF ShellRecord
<1>2. b = [step |-> s, op |-> old.op, vault |-> old.vault, lines |-> old.lines, found |-> old.found, pool |-> old.pool]
  BY DEF ShellRecord
<1> QED
  BY <1>1, <1>2

LEMMA LoadGoes ==
  ASSUME CredInv, NEW p \in Process, Credentials!ImportLoad(p) \/ Credentials!DeleteLoad(p)
  PROVE  CredInv'
<1>1. PICK old \in ShellRecord : old = shell[p] /\ ShellOf(old) /\ CredFiles /\ vault \in Entries
  BY CredHere
<1>2. old.step \in {"import load", "delete load"} /\ old.vault \in Entries
  BY <1>1 DEF Credentials!ImportLoad, Credentials!DeleteLoad, Credentials!At, Credentials!Mine, ShellRecord
<1>3. UNCHANGED <<vault, vaultLock, envFile, pool, given, shared>>
  BY DEF Credentials!ImportLoad, Credentials!DeleteLoad, Credentials!credFiles
<1>4. CredFiles'
  BY <1>1, <1>3 DEF CredFiles
<1>5. \/ \E s \in {"import", "delete"} : shell' = [shell EXCEPT ![p] = [old EXCEPT !.step = s, !.vault = vault]]
      \/ shell' = [shell EXCEPT ![p] = [old EXCEPT !.step = "sync vault"]]
  BY <1>1 DEF Credentials!ImportLoad, Credentials!DeleteLoad, Credentials!Goto, Credentials!Mine
<1>6. ASSUME NEW s \in {"import", "delete"}, shell' = [shell EXCEPT ![p] = [old EXCEPT !.step = s, !.vault = vault]]
      PROVE  CredInv'
  <2> PICK me : me = [old EXCEPT !.step = s, !.vault = vault]
    OBVIOUS
  <2> QED
    BY <1>1, <1>2, <1>3, <1>4, <1>6, ImportStep
<1>7. CASE shell' = [shell EXCEPT ![p] = [old EXCEPT !.step = "sync vault"]]
  <2> PICK me : me = [old EXCEPT !.step = "sync vault", !.vault = old.vault]
    OBVIOUS
  <2>1. shell' = [shell EXCEPT ![p] = me]
    BY <1>7, StepOnly
  <2> QED
    BY <1>1, <1>2, <1>3, <1>4, <2>1, ImportStep
<1> QED
  BY <1>5, <1>6, <1>7

LEMMA ImportGoes ==
  ASSUME CredInv, NEW p \in Process, Credentials!Import(p) \/ Credentials!Delete(p)
  PROVE  CredInv'
<1>1. PICK old \in ShellRecord : old = shell[p] /\ ShellOf(old) /\ CredFiles /\ vault \in Entries
  BY CredHere
<1>a. PICK lines \in Seq(EnvLine) : lines = envFile.lines
  BY CredHere
<1>2. old.step \in {"import", "delete"} /\ old.vault \in Entries
  BY <1>1 DEF Credentials!Import, Credentials!Delete, Credentials!At, Credentials!Mine, ShellRecord
<1>3. UNCHANGED <<vaultLock, pool, given, shared>> /\ vault' = Credentials!Imported(old.vault, lines)
  BY <1>1, <1>a DEF Credentials!Import, Credentials!Delete, Credentials!Mine
<1>4. vault' \in Entries
  BY <1>2, <1>3, ImportedHeld
<1>5. envFile' = envFile \/ envFile' = [exists |-> FALSE, lines |-> <<>>]
  BY DEF Credentials!Import, Credentials!Delete, Credentials!NoEnv
<1>6. CredFiles' /\ envFile'.lines \in {lines, <<>>}
  <2>1. CASE envFile' = envFile
    BY <1>1, <1>a, <1>3, <1>4, <2>1 DEF CredFiles
  <2>2. CASE envFile' = [exists |-> FALSE, lines |-> <<>>]
    BY <1>1, <1>3, <1>4, <2>2, NoLines DEF CredFiles
  <2> QED
    BY <1>5, <2>1, <2>2
<1>7. ASSUME Knows(old, vault, envFile.lines), Safe(given, vault, envFile.lines)
      PROVE  Safe(given, vault', envFile'.lines)
  <2>1. old.vault = vault
    BY <1>2, <1>7 DEF Knows
  <2> SUFFICES ASSUME NEW k \in given PROVE Held(k, vault', envFile'.lines)
    BY DEF Safe
  <2>2. Held(k, vault, lines) /\ k \in EnvKey
    BY <1>1, <1>a, <1>7 DEF Safe, CredFiles
  <2>3. Held(k, vault', lines) /\ Held(k, vault', <<>>)
    BY <1>2, <1>3, <2>1, <2>2, ImportedHeld
  <2> QED
    BY <1>6, <2>3
<1>8. PICK s \in {"sync vault", "delete load"} : shell' = [shell EXCEPT ![p] = [old EXCEPT !.step = s, !.vault = Credentials!Empty]]
  BY <1>1 DEF Credentials!Import, Credentials!Delete, Credentials!Goto, Credentials!Mine
<1> PICK me : me = [old EXCEPT !.step = s, !.vault = Credentials!Empty]
  OBVIOUS
<1> QED
  BY <1>1, <1>2, <1>3, <1>6, <1>7, <1>8, EmptyType, ImportStep

LEMMA EnvGoneGoes ==
  ASSUME CredInv, NEW p \in Process, Credentials!EnvGone(p)
  PROVE  CredInv'
<1>1. PICK old \in ShellRecord : old = shell[p] /\ ShellOf(old) /\ CredFiles /\ vault \in Entries
  BY CredHere
<1>2. old.step \in {"import", "delete"} /\ Credentials!Busy(p)
  BY <1>1 DEF Credentials!EnvGone, Credentials!Mine, Credentials!Busy
<1>3. UNCHANGED <<vault, vaultLock, envFile, pool, given, shared>> /\ Credentials!Done(p)
  BY DEF Credentials!EnvGone, Credentials!credFiles
<1>4. CredFiles'
  BY <1>1, <1>3 DEF CredFiles
<1>5. Sound(old, given, vault, envFile.lines, pool, vaultLock) => Safe(given, vault, envFile.lines)
  BY <1>2 DEF Sound, SafeAt, Writing
<1> QED
  BY <1>1, <1>2, <1>3, <1>4, <1>5, CredEnds

(* ---- the clean-up ------------------------------------------------------------------- *)

LEMMA CleanReadGoes ==
  ASSUME CredInv, NEW p \in Process, Credentials!CleanRead(p)
  PROVE  CredInv'
<1>1. PICK old \in ShellRecord : old = shell[p] /\ ShellOf(old) /\ CredFiles /\ vault \in Entries
  BY CredHere
<1>a. PICK lines \in Seq(EnvLine) : lines = envFile.lines
  BY CredHere
<1>2. old.step = "clean read" /\ Credentials!Busy(p)
  BY <1>1 DEF Credentials!CleanRead, Credentials!At, Credentials!Mine, Credentials!Busy
<1>3. UNCHANGED <<vault, vaultLock, envFile, pool, given, shared>>
  BY DEF Credentials!CleanRead, Credentials!credFiles
<1>4. CredFiles'
  BY <1>1, <1>3 DEF CredFiles
<1>5. Sound(old, given, vault, envFile.lines, pool, vaultLock) => Safe(given, vault, envFile.lines)
  BY <1>2 DEF Sound, SafeAt, Writing
<1>6. PICK I \in SUBSET DOMAIN lines : I = {i \in DOMAIN lines : lines[i].val # "aegis-managed"}
  OBVIOUS
<1>7. PICK left : left = Sublist(lines, I)
  OBVIOUS
<1>8. Credentials!Kept(envFile.lines, LAMBDA l : l.val # Credentials!Placeholder) = left
  BY <1>a, <1>6, <1>7, CredNames, CredSublist DEF Credentials!Kept
<1>9. left \in Seq(EnvLine) /\ \A k : \A v : Held(k, v, lines) => Held(k, v, left)
  <2>1. \A i \in DOMAIN lines : lines[i].val = "static" => i \in I
    BY <1>6
  <2> QED
    BY <1>7, <2>1, PartHeld
<1>10. \/ Credentials!Done(p)
       \/ \E s \in {"unlink", "truncate"} : (s = "unlink" => left = <<>>) /\ shell' = [shell EXCEPT ![p] = [old EXCEPT !.step = s, !.lines = left]]
  BY <1>1, <1>8 DEF Credentials!CleanRead, Credentials!Goto, Credentials!Mine
<1>11. CASE Credentials!Done(p)
  BY <1>1, <1>2, <1>3, <1>4, <1>5, <1>11, CredEnds
<1>12. ASSUME NEW s \in {"unlink", "truncate"}, s = "unlink" => left = <<>>,
              NEW me, me = [old EXCEPT !.step = s, !.lines = left], shell' = [shell EXCEPT ![p] = me]
       PROVE  CredInv'
  <2>1. s \in ShellStep /\ s \in Writing
    BY DEF ShellStep, Writing
  <2>2. me \in ShellRecord /\ me.step = s /\ me.op = old.op /\ me.lines = left
    BY <1>9, <1>12, <2>1 DEF ShellRecord
  <2>3. old.op # "doctor"
    BY <1>1, <1>2 DEF ShellOf, Healing
  <2>4. me \in ShellState
    BY <1>12, <2>2, <2>3 DEF ShellState, ShellOf, Healing
  <2>5. ASSUME Sound(old, given, vault, lines, pool, vaultLock) PROVE Sound(me, given, vault, lines, pool, vaultLock)
    <3>1. Safe(given, vault, left)
      BY <1>a, <1>5, <1>9, <2>5 DEF Safe
    <3> QED
      BY <2>1, <2>2, <2>3, <3>1 DEF Sound, SafeAt, Knows, Treated, Writing
  <2>6. CredGoesWith(p, me)
    BY <1>1, <1>a, <1>2, <1>3, <1>4, <1>12, <2>4, <2>5 DEF CredGoesWith
  <2> QED
    BY <2>6, CredGoes
<1> QED
  BY <1>10, <1>11, <1>12

LEMMA UnlinkGoes ==
  ASSUME CredInv, NEW p \in Process, Credentials!Unlink(p)
  PROVE  CredInv'
<1>1. PICK old \in ShellRecord : old = shell[p] /\ ShellOf(old) /\ CredFiles /\ vault \in Entries
  BY CredHere
<1>2. old.step = "unlink" /\ Credentials!Busy(p) /\ old.lines = <<>>
  BY <1>1 DEF Credentials!Unlink, Credentials!At, Credentials!Mine, Credentials!Busy, ShellOf
<1>3. UNCHANGED <<vault, vaultLock, pool, given, shared>> /\ Credentials!Done(p)
  BY DEF Credentials!Unlink
<1>4. CredFiles' /\ envFile'.lines = <<>>
  <2>1. envFile' = [exists |-> FALSE, lines |-> <<>>]
    BY DEF Credentials!Unlink, Credentials!NoEnv
  <2> QED
    BY <1>1, <1>3, <2>1, NoLines DEF CredFiles
<1>5. Sound(old, given, vault, envFile.lines, pool, vaultLock) => Safe(given, vault, envFile'.lines)
  BY <1>2, <1>4 DEF Sound, SafeAt, Writing
<1> QED
  BY <1>1, <1>2, <1>3, <1>4, <1>5, CredEnds

(* ---- the doctor --------------------------------------------------------------------- *)

\* A doctor goes on to another of its steps.
LEMMA DoctorStep ==
  ASSUME CredInv, NEW p \in Process, NEW old \in ShellRecord, old = shell[p], ShellOf(old), old.step \in Healing,
         NEW me \in ShellRecord, me.step \in Healing \cup {"truncate"}, me.op = old.op, shell' = [shell EXCEPT ![p] = me],
         CredFiles', UNCHANGED <<vaultLock, envFile, pool, given, shared>>,
         Safe(given, vault, envFile.lines) /\ Knows(old, vault, envFile.lines)
           => /\ SafeAt(me, given, vault', envFile.lines) /\ Knows(me, vault', envFile.lines)
              /\ vaultLock = FALSE /\ Treated(old, vault, envFile.lines, pool) => Treated(me, vault', envFile.lines, pool)
  PROVE  CredInv'
<1>1. old.op = "doctor" /\ Credentials!Busy(p)
  BY DEF ShellOf, Healing, Credentials!Busy, Credentials!Mine
<1>2. me \in ShellState
  BY <1>1 DEF ShellState, ShellOf, Healing
<1>3. ASSUME Sound(old, given, vault, envFile.lines, pool, vaultLock)
      PROVE  Sound(me, given, vault', envFile'.lines, pool', vaultLock)
  <2>1. Safe(given, vault, envFile.lines) /\ Knows(old, vault, envFile.lines)
    BY <1>3 DEF Sound, SafeAt, Writing, Healing
  <2> QED
    BY <1>3, <2>1 DEF Sound
<1>4. CredGoesWith(p, me)
  BY <1>1, <1>2, <1>3 DEF CredGoesWith
<1> QED
  BY <1>4, CredGoes

LEMMA TokensType ==
  ASSUME NEW v \in Entries
  PROVE  /\ [k \in Credentials!OAuthKeys(v) |-> Credentials!OAuth] \in Entries
         /\ \A D : [k \in DOMAIN v \ D |-> v[k]] \in Entries
<1>1. DOMAIN v \subseteq EnvKey /\ v \in [DOMAIN v -> Value]
  BY EntriesType
<1>2. PICK w : w = [k \in Credentials!OAuthKeys(v) |-> Credentials!OAuth]
  OBVIOUS
<1>3. DOMAIN w \subseteq EnvKey /\ w \in [DOMAIN w -> Value]
  BY <1>1, <1>2, CredNames DEF Credentials!OAuthKeys, Value
<1>4. ASSUME NEW D PROVE [k \in DOMAIN v \ D |-> v[k]] \in Entries
  <2>1. PICK u : u = [k \in DOMAIN v \ D |-> v[k]]
    OBVIOUS
  <2>2. DOMAIN u \subseteq EnvKey /\ u \in [DOMAIN u -> Value]
    BY <1>1, <2>1
  <2> QED
    BY <2>1, <2>2, EntriesType
<1>5. w \in Entries
  BY <1>3, EntriesType
<1> QED
  BY <1>2, <1>4, <1>5

LEMMA DiagnoseVaultGoes ==
  ASSUME CredInv, NEW p \in Process, Credentials!DiagnoseVault(p)
  PROVE  CredInv'
<1>1. PICK old \in ShellRecord : old = shell[p] /\ ShellOf(old) /\ CredFiles /\ vault \in Entries
  BY CredHere
<1>2. old.step = "diagnose vault" /\ old.step \in Healing /\ old.op = "doctor"
  BY <1>1 DEF Credentials!DiagnoseVault, Credentials!At, Credentials!Mine, Healing, ShellOf
<1>3. UNCHANGED <<vault, vaultLock, envFile, pool, given, shared>>
  BY DEF Credentials!DiagnoseVault, Credentials!credFiles
<1>4. CredFiles'
  BY <1>1, <1>3 DEF CredFiles
<1>5. PICK f \in SUBSET {"vault", "env", "pool"} : f = Credentials!VaultFinding
  BY DEF Credentials!VaultFinding
<1>6. PICK w : w = IF f = {} THEN Credentials!Empty ELSE [k \in Credentials!OAuthKeys(vault) |-> Credentials!OAuth]
  OBVIOUS
<1>7. w \in Entries /\ DOMAIN w = IF f = {} THEN {} ELSE Credentials!OAuthKeys(vault)
  <2>1. DOMAIN [k \in Credentials!OAuthKeys(vault) |-> Credentials!OAuth] = Credentials!OAuthKeys(vault)
    OBVIOUS
  <2> QED
    BY <1>1, <1>6, <2>1, EmptyType, TokensType
<1>8. PICK me : me = [old EXCEPT !.step = "diagnose env", !.found = f, !.vault = w] /\ shell' = [shell EXCEPT ![p] = me]
  BY <1>1, <1>5, <1>6 DEF Credentials!DiagnoseVault, Credentials!Goto, Credentials!Mine
<1>9. me \in ShellRecord /\ me.step = "diagnose env" /\ me.op = "doctor" /\ me.found = f /\ me.vault = w
  <2>1. "diagnose env" \in ShellStep
    BY DEF ShellStep, Healing
  <2> QED
    BY <1>2, <1>5, <1>7, <1>8, <2>1 DEF ShellRecord
<1>10. vaultLock = FALSE => (f = {} => Credentials!OAuthKeys(vault) = {}) /\ ("vault" \notin f => f = {})
  BY <1>5 DEF Credentials!VaultFinding
<1>11. ASSUME Safe(given, vault, envFile.lines)
       PROVE  /\ SafeAt(me, given, vault', envFile.lines) /\ Knows(me, vault', envFile.lines)
              /\ vaultLock = FALSE => Treated(me, vault', envFile.lines, pool)
  <2>1. SafeAt(me, given, vault', envFile.lines)
    BY <1>3, <1>9, <1>11 DEF SafeAt, Writing
  <2>2. Knows(me, vault', envFile.lines)
    BY <1>3, <1>7, <1>9 DEF Knows
  <2>3. vaultLock = FALSE => Treated(me, vault', envFile.lines, pool)
    BY <1>3, <1>7, <1>9, <1>10 DEF Treated, Writing
  <2> QED
    BY <2>1, <2>2, <2>3
<1>12. me.step \in Healing
  BY <1>9 DEF Healing
<1> QED
  BY <1>1, <1>2, <1>3, <1>4, <1>8, <1>9, <1>11, <1>12, DoctorStep

LEMMA DiagnoseEnvGoes ==
  ASSUME CredInv, NEW p \in Process, Credentials!DiagnoseEnv(p)
  PROVE  CredInv'
<1>1. PICK old \in ShellRecord : old = shell[p] /\ ShellOf(old) /\ CredFiles /\ vault \in Entries
  BY CredHere
<1>2. old.step = "diagnose env" /\ old.step \in Healing /\ old.op = "doctor"
  BY <1>1 DEF Credentials!DiagnoseEnv, Credentials!At, Credentials!Mine, Healing, ShellOf
<1>3. UNCHANGED <<vault, vaultLock, envFile, pool, given, shared>>
  BY DEF Credentials!DiagnoseEnv, Credentials!credFiles
<1>4. CredFiles'
  BY <1>1, <1>3 DEF CredFiles
<1>5. PICK f : f = old.found \cup Credentials!EnvFinding
  OBVIOUS
<1>6. f \in SUBSET {"vault", "env", "pool"} /\ ("vault" \notin f => "vault" \notin old.found)
  BY <1>5 DEF Credentials!EnvFinding, ShellRecord
<1>7. PICK me : me = [old EXCEPT !.step = "diagnose pool", !.found = f] /\ shell' = [shell EXCEPT ![p] = me]
  BY <1>1, <1>5 DEF Credentials!DiagnoseEnv, Credentials!Goto, Credentials!Mine
<1>8. me \in ShellRecord /\ me.step = "diagnose pool" /\ me.op = "doctor" /\ me.found = f /\ me.vault = old.vault
  <2>1. "diagnose pool" \in ShellStep
    BY DEF ShellStep, Healing
  <2> QED
    BY <1>2, <1>6, <1>7, <2>1 DEF ShellRecord
<1>9. "env" \notin f => NoLeak(envFile.lines)
  BY <1>5, CredSublist DEF Credentials!EnvFinding, NoLeak
<1>10. ASSUME Safe(given, vault, envFile.lines), Knows(old, vault, envFile.lines)
       PROVE  /\ SafeAt(me, given, vault', envFile.lines) /\ Knows(me, vault', envFile.lines)
              /\ Treated(old, vault, envFile.lines, pool) => Treated(me, vault', envFile.lines, pool)
  <2>1. SafeAt(me, given, vault', envFile.lines)
    BY <1>3, <1>8, <1>10 DEF SafeAt, Writing
  <2>2. Knows(me, vault', envFile.lines)
    BY <1>2, <1>3, <1>8, <1>10 DEF Knows
  <2>3. Treated(old, vault, envFile.lines, pool) => Treated(me, vault', envFile.lines, pool)
    BY <1>2, <1>3, <1>6, <1>8, <1>9 DEF Treated, Writing
  <2> QED
    BY <2>1, <2>2, <2>3
<1>11. me.step \in Healing
  BY <1>8 DEF Healing
<1> QED
  BY <1>1, <1>2, <1>3, <1>4, <1>7, <1>8, <1>10, <1>11, DoctorStep

LEMMA DiagnosePoolGoes ==
  ASSUME CredInv, NEW p \in Process, Credentials!DiagnosePool(p)
  PROVE  CredInv'
<1>1. PICK old \in ShellRecord : old = shell[p] /\ ShellOf(old) /\ CredFiles /\ vault \in Entries
  BY CredHere
<1>2. old.step = "diagnose pool" /\ old.step \in Healing /\ old.op = "doctor" /\ Credentials!Busy(p)
  BY <1>1 DEF Credentials!DiagnosePool, Credentials!At, Credentials!Mine, Healing, ShellOf, Credentials!Busy
<1>3. UNCHANGED <<vault, vaultLock, envFile, pool, given, shared>>
  BY DEF Credentials!DiagnosePool, Credentials!credFiles
<1>4. CredFiles'
  BY <1>1, <1>3 DEF CredFiles
<1>5. PICK f : f = old.found \cup Credentials!PoolFinding
  OBVIOUS
<1>6. f \in SUBSET {"vault", "env", "pool"} /\ ("env" \notin f => "env" \notin old.found)
  BY <1>5 DEF Credentials!PoolFinding, ShellRecord
<1>a. Credentials!Done(p) \/ shell' = [shell EXCEPT ![p] = [old EXCEPT !.step = "heal vault", !.found = f]]
  BY <1>1, <1>5 DEF Credentials!DiagnosePool, Credentials!Goto, Credentials!Mine
<1>b. CASE Credentials!Done(p)
  <2>1. Sound(old, given, vault, envFile.lines, pool, vaultLock) => Safe(given, vault, envFile.lines)
    BY <1>2 DEF Sound, SafeAt, Writing
  <2> QED
    BY <1>1, <1>2, <1>3, <1>4, <1>b, <2>1, CredEnds
<1>c. CASE shell' = [shell EXCEPT ![p] = [old EXCEPT !.step = "heal vault", !.found = f]]
  <2>1. PICK me : me = [old EXCEPT !.step = "heal vault", !.found = f] /\ shell' = [shell EXCEPT ![p] = me]
    BY <1>c
  <2>2. me \in ShellRecord /\ me.step = "heal vault" /\ me.op = "doctor" /\ me.found = f /\ me.vault = old.vault
    <3>1. "heal vault" \in ShellStep
      BY DEF ShellStep, Healing
    <3> QED
      BY <1>2, <1>6, <2>1, <3>1 DEF ShellRecord
  <2>3. "pool" \notin f => Credentials!Stale(pool) = {}
    BY <1>5 DEF Credentials!PoolFinding
  <2>4. ASSUME Safe(given, vault, envFile.lines), Knows(old, vault, envFile.lines)
        PROVE  /\ SafeAt(me, given, vault', envFile.lines) /\ Knows(me, vault', envFile.lines)
               /\ Treated(old, vault, envFile.lines, pool) => Treated(me, vault', envFile.lines, pool)
    <3>1. SafeAt(me, given, vault', envFile.lines)
      BY <1>3, <2>2, <2>4 DEF SafeAt, Writing
    <3>2. Knows(me, vault', envFile.lines)
      BY <1>2, <1>3, <2>2, <2>4 DEF Knows
    <3>3. Treated(old, vault, envFile.lines, pool) => Treated(me, vault', envFile.lines, pool)
      BY <1>2, <1>3, <1>6, <2>2, <2>3 DEF Treated, Writing
    <3> QED
      BY <3>1, <3>2, <3>3
  <2>5. me.step \in Healing
    BY <2>2 DEF Healing
  <2> QED
    BY <1>1, <1>2, <1>3, <1>4, <2>1, <2>2, <2>4, <2>5, DoctorStep
<1> QED
  BY <1>a, <1>b, <1>c

LEMMA HealVaultGoes ==
  ASSUME CredInv, NEW p \in Process, Credentials!HealVault(p)
  PROVE  CredInv'
<1>1. PICK old \in ShellRecord : old = shell[p] /\ ShellOf(old) /\ CredFiles /\ vault \in Entries
  BY CredHere
<1>2. old.step = "heal vault" /\ old.step \in Healing /\ old.op = "doctor"
  BY <1>1 DEF Credentials!HealVault, Credentials!At, Credentials!Mine, Healing, ShellOf
<1>3. UNCHANGED <<vaultLock, envFile, pool, given, shared>> /\ vault' = [k \in DOMAIN vault \ DOMAIN old.vault |-> vault[k]]
  BY <1>1 DEF Credentials!HealVault, Credentials!Mine
<1>4. CredFiles'
  BY <1>1, <1>3, TokensType DEF CredFiles
<1>5. DOMAIN vault' = DOMAIN vault \ DOMAIN old.vault /\ \A k \in DOMAIN vault' : vault'[k] = vault[k]
  BY <1>3
<1>6. PICK me : me = [old EXCEPT !.step = "heal env", !.vault = Credentials!Empty] /\ shell' = [shell EXCEPT ![p] = me]
  BY <1>1 DEF Credentials!HealVault, Credentials!Goto, Credentials!Mine
<1>7. me \in ShellRecord /\ me.step = "heal env" /\ me.op = "doctor" /\ me.found = old.found
  <2>1. "heal env" \in ShellStep
    BY DEF ShellStep, Healing
  <2> QED
    BY <1>2, <1>6, <2>1, EmptyType DEF ShellRecord
<1>8. ASSUME Safe(given, vault, envFile.lines), Knows(old, vault, envFile.lines)
      PROVE  /\ SafeAt(me, given, vault', envFile.lines) /\ Knows(me, vault', envFile.lines)
             /\ Treated(old, vault, envFile.lines, pool) => Treated(me, vault', envFile.lines, pool)
  <2>1. \A k \in DOMAIN old.vault : k \in DOMAIN vault /\ vault[k] = "oauth"
    BY <1>2, <1>8, CredNames DEF Knows, Credentials!OAuthKeys
  <2>2. \A k : Held(k, vault, envFile.lines) => Held(k, vault', envFile.lines)
    BY <1>5, <2>1 DEF Held
  <2>3. SafeAt(me, given, vault', envFile.lines)
    BY <1>7, <1>8, <2>2 DEF SafeAt, Writing, Safe
  <2>4. Knows(me, vault', envFile.lines)
    BY <1>7 DEF Knows
  <2>5. ASSUME Treated(old, vault, envFile.lines, pool) PROVE Treated(me, vault', envFile.lines, pool)
    <3>1. DOMAIN old.vault = Credentials!OAuthKeys(vault)
      BY <1>2, <2>5 DEF Treated
    <3>2. Credentials!OAuthKeys(vault') = {}
      BY <1>5, <3>1 DEF Credentials!OAuthKeys
    <3> QED
      BY <1>2, <1>7, <2>5, <3>2 DEF Treated, Writing
  <2> QED
    BY <2>3, <2>4, <2>5
<1>9. me.step \in Healing
  BY <1>7 DEF Healing
<1> QED
  BY <1>1, <1>2, <1>3, <1>4, <1>6, <1>7, <1>8, <1>9, DoctorStep

LEMMA HealEnvGoes ==
  ASSUME CredInv, NEW p \in Process, Credentials!HealEnv(p)
  PROVE  CredInv'
<1>1. PICK old \in ShellRecord : old = shell[p] /\ ShellOf(old) /\ CredFiles /\ vault \in Entries
  BY CredHere
<1>a. PICK lines \in Seq(EnvLine) : lines = envFile.lines /\ (envFile.exists = FALSE => lines = <<>>)
  BY CredHere
<1>2. old.step = "heal env" /\ old.step \in Healing /\ old.op = "doctor"
  BY <1>1 DEF Credentials!HealEnv, Credentials!At, Credentials!Mine, Healing, ShellOf
<1>3. UNCHANGED <<vault, vaultLock, envFile, pool, given, shared>>
  BY DEF Credentials!HealEnv, Credentials!credFiles
<1>4. CredFiles'
  BY <1>1, <1>3 DEF CredFiles
<1>6. PICK I \in SUBSET DOMAIN lines : I = {i \in DOMAIN lines : ~Credentials!Leaked(lines[i])}
  OBVIOUS
<1>7. PICK left : left = Sublist(lines, I)
  OBVIOUS
<1>8. Credentials!Kept(envFile.lines, LAMBDA l : ~Credentials!Leaked(l)) = left
  BY <1>a, <1>6, <1>7, CredSublist DEF Credentials!Kept
<1>9. left \in Seq(EnvLine) /\ (\A k : \A v : Held(k, v, lines) => Held(k, v, left)) /\ NoLeak(left)
  <2>1. \A i \in DOMAIN lines : lines[i].val = "static" => i \in I
    BY <1>6, CredNames
  <2>2. left \in Seq(EnvLine) /\ (\A k : \A v : Held(k, v, lines) => Held(k, v, left))
    BY <1>7, <2>1, PartHeld
  <2>3. \A m \in DOMAIN left : \E i \in I : left[m] = lines[i]
    BY <1>7, PartHeld
  <2>4. NoLeak(left)
    BY <1>6, <2>3 DEF NoLeak
  <2> QED
    BY <2>2, <2>4
<1>10. \/ shell' = [shell EXCEPT ![p] = [old EXCEPT !.step = "truncate", !.lines = left]]
       \/ /\ "env" \notin old.found \/ envFile.exists = FALSE
          /\ shell' = [shell EXCEPT ![p] = [old EXCEPT !.step = "heal pool"]]
  <2>1. envFile.exists \in BOOLEAN
    BY <1>1 DEF CredFiles
  <2> QED
    BY <1>1, <1>8, <2>1 DEF Credentials!HealEnv, Credentials!Goto, Credentials!Mine
<1>11. ASSUME NEW me, me = [old EXCEPT !.step = "truncate", !.lines = left], shell' = [shell EXCEPT ![p] = me]
       PROVE  CredInv'
  <2>1. "truncate" \in ShellStep
    BY DEF ShellStep, Writing
  <2>2. me \in ShellRecord /\ me.step = "truncate" /\ me.op = "doctor" /\ me.found = old.found /\ me.lines = left
    BY <1>2, <1>9, <1>11, <2>1 DEF ShellRecord
  <2>3. ASSUME Safe(given, vault, envFile.lines), Knows(old, vault, envFile.lines)
        PROVE  /\ SafeAt(me, given, vault', envFile.lines) /\ Knows(me, vault', envFile.lines)
               /\ Treated(old, vault, envFile.lines, pool) => Treated(me, vault', envFile.lines, pool)
    <3>1. SafeAt(me, given, vault', envFile.lines)
      BY <1>a, <1>3, <1>9, <2>2, <2>3 DEF SafeAt, Writing, Safe
    <3>2. Knows(me, vault', envFile.lines)
      BY <2>2 DEF Knows
    <3>3. Treated(old, vault, envFile.lines, pool) => Treated(me, vault', envFile.lines, pool)
      BY <1>2, <1>3, <1>9, <2>2 DEF Treated, Writing
    <3> QED
      BY <3>1, <3>2, <3>3
  <2> QED
    BY <1>1, <1>2, <1>3, <1>4, <1>11, <2>2, <2>3, DoctorStep
<1>12. ASSUME "env" \notin old.found \/ envFile.exists = FALSE, NEW me, me = [old EXCEPT !.step = "heal pool"],
              shell' = [shell EXCEPT ![p] = me]
       PROVE  CredInv'
  <2>1. "heal pool" \in ShellStep /\ "heal pool" \in Healing
    BY DEF ShellStep, Healing
  <2>2. me \in ShellRecord /\ me.step = "heal pool" /\ me.op = "doctor" /\ me.found = old.found
    BY <1>2, <1>12, <2>1 DEF ShellRecord
  <2>3. envFile.exists = FALSE => NoLeak(lines)
    BY <1>a DEF NoLeak
  <2>4. ASSUME Safe(given, vault, envFile.lines), Knows(old, vault, envFile.lines)
        PROVE  /\ SafeAt(me, given, vault', envFile.lines) /\ Knows(me, vault', envFile.lines)
               /\ Treated(old, vault, envFile.lines, pool) => Treated(me, vault', envFile.lines, pool)
    <3>1. SafeAt(me, given, vault', envFile.lines)
      BY <1>3, <2>2, <2>4 DEF SafeAt, Writing
    <3>2. Knows(me, vault', envFile.lines)
      BY <2>2 DEF Knows
    <3>3. Treated(old, vault, envFile.lines, pool) => Treated(me, vault', envFile.lines, pool)
      BY <1>a, <1>2, <1>3, <1>12, <2>2, <2>3 DEF Treated, Writing
    <3> QED
      BY <3>1, <3>2, <3>3
  <2> QED
    BY <1>1, <1>2, <1>3, <1>4, <1>12, <2>1, <2>2, <2>4, DoctorStep
<1> QED
  BY <1>10, <1>11, <1>12

LEMMA HealPoolGoes ==
  ASSUME CredInv, NEW p \in Process, Credentials!HealPool(p)
  PROVE  CredInv'
<1>1. PICK old \in ShellRecord : old = shell[p] /\ ShellOf(old) /\ CredFiles /\ vault \in Entries
  BY CredHere
<1>2. old.step = "heal pool" /\ old.step \in Healing /\ old.op = "doctor" /\ Credentials!Busy(p)
  BY <1>1 DEF Credentials!HealPool, Credentials!At, Credentials!Mine, Healing, ShellOf, Credentials!Busy
<1>3. UNCHANGED <<vault, vaultLock, envFile, pool, given, shared>>
  BY DEF Credentials!HealPool, Credentials!credFiles
<1>4. CredFiles'
  BY <1>1, <1>3 DEF CredFiles
<1>5. PICK left \in SUBSET Credentials!Credential : left = pool \ Credentials!Stale(pool)
  BY <1>1 DEF CredFiles
<1>6. Credentials!Done(p) \/ shell' = [shell EXCEPT ![p] = [old EXCEPT !.step = "write pool", !.pool = left]]
  BY <1>1, <1>5 DEF Credentials!HealPool, Credentials!Goto, Credentials!Mine
<1>7. CASE Credentials!Done(p)
  <2>1. Sound(old, given, vault, envFile.lines, pool, vaultLock) => Safe(given, vault, envFile.lines)
    BY <1>2 DEF Sound, SafeAt, Writing
  <2> QED
    BY <1>1, <1>2, <1>3, <1>4, <1>7, <2>1, CredEnds
<1>8. ASSUME NEW me, me = [old EXCEPT !.step = "write pool", !.pool = left], shell' = [shell EXCEPT ![p] = me]
      PROVE  CredInv'
  <2>1. "write pool" \in ShellStep /\ "write pool" \in Healing
    BY DEF ShellStep, Healing
  <2>2. me \in ShellRecord /\ me.step = "write pool" /\ me.op = "doctor" /\ me.found = old.found /\ me.pool = left
    BY <1>2, <1>5, <1>8, <2>1 DEF ShellRecord
  <2>3. Credentials!Stale(left) = {}
    BY <1>5 DEF Credentials!Stale
  <2>4. ASSUME Safe(given, vault, envFile.lines), Knows(old, vault, envFile.lines)
        PROVE  /\ SafeAt(me, given, vault', envFile.lines) /\ Knows(me, vault', envFile.lines)
               /\ Treated(old, vault, envFile.lines, pool) => Treated(me, vault', envFile.lines, pool)
    <3>1. SafeAt(me, given, vault', envFile.lines)
      BY <1>3, <2>2, <2>4 DEF SafeAt, Writing
    <3>2. Knows(me, vault', envFile.lines)
      BY <2>2 DEF Knows
    <3>3. Treated(old, vault, envFile.lines, pool) => Treated(me, vault', envFile.lines, pool)
      BY <1>2, <1>3, <2>2, <2>3 DEF Treated, Writing
    <3> QED
      BY <3>1, <3>2, <3>3
  <2> QED
    BY <1>1, <1>2, <1>3, <1>4, <1>8, <2>1, <2>2, <2>4, DoctorStep
<1> QED
  BY <1>6, <1>7, <1>8

LEMMA WritePoolGoes ==
  ASSUME CredInv, NEW p \in Process, Credentials!WritePool(p)
  PROVE  CredInv'
<1>1. PICK old \in ShellRecord : old = shell[p] /\ ShellOf(old) /\ CredFiles /\ vault \in Entries
  BY CredHere
<1>2. old.step = "write pool" /\ Credentials!Busy(p) /\ old.pool \in SUBSET Credentials!Credential
  BY <1>1 DEF Credentials!WritePool, Credentials!At, Credentials!Mine, Credentials!Busy, ShellRecord
<1>3. UNCHANGED <<vault, vaultLock, envFile, given, shared>> /\ Credentials!Done(p) /\ pool' = old.pool
  BY <1>1 DEF Credentials!WritePool, Credentials!Mine
<1>4. CredFiles'
  BY <1>1, <1>2, <1>3 DEF CredFiles
<1>5. Sound(old, given, vault, envFile.lines, pool, vaultLock) => Safe(given, vault, envFile.lines)
  BY <1>2 DEF Sound, SafeAt, Writing
<1> QED
  BY <1>1, <1>2, <1>3, <1>4, <1>5, CredEnds

(* ---- what is done at one blow ------------------------------------------------------- *)

LEMMA VaultSetGoes ==
  ASSUME CredInv, NEW p \in Process, NEW k \in EnvKey, NEW v \in Value, NEW allow, Credentials!VaultSet(p, k, v, allow)
  PROVE  CredInv'
<1>1. CredFiles /\ vault \in Entries
  BY CredHere
<1>a. PICK lines \in Seq(EnvLine) : lines = envFile.lines
  BY CredHere
<1>2. UNCHANGED <<vaultLock, envFile, pool, shell>> /\ shared' = (shared \/ Credentials!AnyBusy)
  BY DEF Credentials!VaultSet
<1>3. vault' = [n \in DOMAIN vault \cup {k} |-> IF n = k THEN v ELSE vault[n]]
  BY DEF Credentials!VaultSet
<1>4. /\ given' \in SUBSET EnvKey /\ given' \subseteq given \cup {k}
      /\ k \in given' => v = "static" /\ \A i \in DOMAIN lines : ~TokenAt(k, lines, i)
  <2>1. given' = IF v = "static" /\ [key |-> k, val |-> "oauth"] \notin {lines[i] : i \in DOMAIN lines}
                 THEN given \cup {k} ELSE given \ {k}
    BY <1>a, CredNames, CredSublist DEF Credentials!VaultSet
  <2>2. \A i \in DOMAIN lines : TokenAt(k, lines, i) => lines[i] = [key |-> k, val |-> "oauth"]
    <3> SUFFICES ASSUME NEW i \in DOMAIN lines, TokenAt(k, lines, i) PROVE lines[i] = [key |-> k, val |-> "oauth"]
      OBVIOUS
    <3>1. lines[i] \in EnvLine
      OBVIOUS
    <3> QED
      BY <3>1 DEF EnvLine, TokenAt
  <2> QED
    BY <1>1, <2>1, <2>2 DEF CredFiles
<1>5. vault' \in Entries
  <2>1. PICK w : w = vault'
    OBVIOUS
  <2>2. DOMAIN vault \subseteq EnvKey /\ vault \in [DOMAIN vault -> Value]
    BY <1>1, EntriesType
  <2>3. DOMAIN w \subseteq EnvKey /\ w \in [DOMAIN w -> Value]
    BY <1>3, <2>1, <2>2
  <2> QED
    BY <2>1, <2>3, EntriesType
<1>6. ASSUME Safe(given, vault, lines) PROVE Safe(given', vault', lines)
  <2> SUFFICES ASSUME NEW n \in given' PROVE Held(n, vault', lines)
    BY DEF Safe
  <2>1. CASE n = k
    BY <1>3, <1>4, <2>1 DEF Held, Later
  <2>2. CASE n # k
    <3>1. Held(n, vault, lines)
      BY <1>4, <1>6, <2>2 DEF Safe
    <3>2. (n \in DOMAIN vault' <=> n \in DOMAIN vault) /\ (n \in DOMAIN vault => vault'[n] = vault[n])
      BY <1>3, <2>2
    <3> QED
      BY <3>1, <3>2 DEF Held
  <2> QED
    BY <2>1, <2>2
<1> QED
  BY <1>1, <1>a, <1>2, <1>4, <1>5, <1>6, CredAtOnce DEF CredFiles

LEMMA VaultRemoveGoes ==
  ASSUME CredInv, NEW p \in Process, NEW k \in EnvKey, Credentials!VaultRemove(p, k)
  PROVE  CredInv'
<1>1. CredFiles /\ vault \in Entries
  BY CredHere
<1>2. UNCHANGED <<vaultLock, envFile, pool, shell>> /\ shared' = (shared \/ Credentials!AnyBusy) /\ given' = given \ {k}
  BY DEF Credentials!VaultRemove
<1>3. vault' = [n \in DOMAIN vault \ {k} |-> vault[n]]
  BY DEF Credentials!VaultRemove
<1>4. vault' \in Entries
  BY <1>1, <1>3, TokensType
<1>5. ASSUME Safe(given, vault, envFile.lines) PROVE Safe(given', vault', envFile.lines)
  <2> SUFFICES ASSUME NEW n \in given' PROVE Held(n, vault', envFile.lines)
    BY DEF Safe
  <2>1. Held(n, vault, envFile.lines) /\ n # k
    BY <1>2, <1>5 DEF Safe
  <2>2. (n \in DOMAIN vault' <=> n \in DOMAIN vault) /\ (n \in DOMAIN vault => vault'[n] = vault[n])
    BY <1>3, <2>1
  <2> QED
    BY <2>1, <2>2 DEF Held
<1> QED
  BY <1>1, <1>2, <1>4, <1>5, CredAtOnce DEF CredFiles

LEMMA EditEnvGoes ==
  ASSUME CredInv, NEW l \in EnvLine, l.val # "aegis-managed", Credentials!EditEnv(l)
  PROVE  CredInv'
<1>1. CredFiles /\ vault \in Entries
  BY DEF CredInv, CredTyped, CredFiles
<1>a. PICK lines \in Seq(EnvLine) : lines = envFile.lines
  BY DEF CredInv, CredTyped, CredFiles
<1>2. UNCHANGED <<vault, vaultLock, pool, shell>> /\ shared' = (shared \/ Credentials!AnyBusy)
  BY DEF Credentials!EditEnv
<1>b. PICK more \in Seq(EnvLine) : /\ more = Append(lines, l)
                                   /\ DOMAIN more = 1..(Len(lines) + 1) /\ more[Len(lines) + 1] = l
                                   /\ \A i \in DOMAIN lines : more[i] = lines[i]
  <2>1. Append(lines, l) \in Seq(EnvLine)
    OBVIOUS
  <2>2. DOMAIN Append(lines, l) = 1..(Len(lines) + 1) /\ Append(lines, l)[Len(lines) + 1] = l
    OBVIOUS
  <2>3. \A i \in DOMAIN lines : Append(lines, l)[i] = lines[i]
    OBVIOUS
  <2> QED
    BY <2>1, <2>2, <2>3
<1>3. envFile' = [exists |-> TRUE, lines |-> more]
  BY <1>a, <1>b DEF Credentials!EditEnv, Credentials!EnvOf
<1>4. envFile' \in [exists : BOOLEAN, lines : Seq(EnvLine)] /\ envFile'.exists = TRUE /\ envFile'.lines = more
  BY <1>3
<1>5. /\ given' \in SUBSET EnvKey /\ given' \subseteq given \cup {l.key}
      /\ l.key \in given' => l.val = "static" /\ (l.key \in DOMAIN vault => vault[l.key] # "oauth")
  <2>1. given' = IF l.val = "static" /\ l.key \notin Credentials!OAuthKeys(vault) THEN given \cup {l.key} ELSE given \ {l.key}
    BY CredNames DEF Credentials!EditEnv
  <2>2. l.key \in EnvKey
    BY DEF EnvLine
  <2> QED
    BY <1>1, <2>1, <2>2, CredNames DEF CredFiles, Credentials!OAuthKeys
<1>6. \A n \in DOMAIN vault : vault[n] \in Value
  BY <1>1, EntriesType
<1>7. ASSUME Safe(given, vault, lines) PROVE Safe(given', vault, more)
  <2> SUFFICES ASSUME NEW n \in given' PROVE Held(n, vault, more)
    BY DEF Safe
  <2> PICK top \in Nat : top = Len(lines)
    OBVIOUS
  <2>1. DOMAIN lines = 1..top /\ DOMAIN more = 1..(top + 1) /\ more[top + 1] = l /\ top + 1 \in DOMAIN more
    BY <1>b
  <2>2. \A i \in DOMAIN lines : i \in DOMAIN more /\ i < top + 1 /\ more[i] = lines[i]
    BY <1>b, <2>1
  <2>3. \A i \in DOMAIN more : i \in DOMAIN lines \/ i = top + 1
    BY <2>1
  <2>4. CASE n = l.key
    <3>1. StaticAt(n, more, top + 1) /\ (n \in DOMAIN vault => vault[n] = "static")
      BY <1>5, <1>6, <2>1, <2>4 DEF StaticAt, Value
    <3>2. Later(n, more)
      <4> SUFFICES ASSUME NEW i \in DOMAIN more, TokenAt(n, more, i) PROVE i < top + 1
        BY <2>1, <3>1 DEF Later
      <4>1. i # top + 1
        BY <3>1 DEF StaticAt, TokenAt
      <4> QED
        BY <2>2, <2>3, <4>1
    <3> QED
      BY <2>1, <3>1, <3>2 DEF Held
  <2>5. CASE n # l.key
    <3>1. Held(n, vault, lines)
      BY <1>5, <1>7, <2>5 DEF Safe
    <3>2. Later(n, more)
      <4> SUFFICES ASSUME NEW i \in DOMAIN more, TokenAt(n, more, i) PROVE \E j \in DOMAIN more : i < j /\ StaticAt(n, more, j)
        BY DEF Later
      <4>1. i \in DOMAIN lines /\ TokenAt(n, lines, i)
        BY <2>1, <2>2, <2>3, <2>5 DEF TokenAt
      <4>2. PICK j \in DOMAIN lines : i < j /\ StaticAt(n, lines, j)
        BY <3>1, <4>1 DEF Held, Later
      <4> QED
        BY <2>2, <4>2 DEF StaticAt
    <3>3. (\E i \in DOMAIN lines : StaticAt(n, lines, i)) => \E i \in DOMAIN more : StaticAt(n, more, i)
      BY <2>2 DEF StaticAt
    <3> QED
      BY <3>1, <3>2, <3>3 DEF Held
  <2> QED
    BY <2>4, <2>5
<1> QED
  BY <1>1, <1>a, <1>2, <1>4, <1>5, <1>7, CredAtOnce DEF CredFiles

LEMMA ToggleLockGoes == CredInv /\ Credentials!ToggleLock => CredInv'
<1> SUFFICES ASSUME CredInv, Credentials!ToggleLock PROVE CredInv'
  OBVIOUS
<1>1. CredFiles /\ vault \in Entries
  BY DEF CredInv, CredTyped, CredFiles
<1>2. UNCHANGED <<vault, envFile, pool, shell, given>> /\ shared' = (shared \/ Credentials!AnyBusy) /\ vaultLock' = ~vaultLock
  BY DEF Credentials!ToggleLock
<1>3. vaultLock' \in BOOLEAN
  BY <1>2
<1> QED
  BY <1>1, <1>2, <1>3, CredAtOnce DEF CredFiles

(* ---- all steps ---------------------------------------------------------------------- *)

\* The steps of a command that has begun.
CredOwn(p) ==
  \/ Credentials!SyncVault(p) \/ Credentials!SyncRead(p) \/ Credentials!Truncate(p) \/ Credentials!Write(p)
  \/ Credentials!ImportLoad(p) \/ Credentials!Import(p) \/ Credentials!DeleteLoad(p) \/ Credentials!Delete(p)
  \/ Credentials!EnvGone(p)
  \/ Credentials!DiagnoseVault(p) \/ Credentials!DiagnoseEnv(p) \/ Credentials!DiagnosePool(p)
  \/ Credentials!HealVault(p) \/ Credentials!HealEnv(p) \/ Credentials!HealPool(p) \/ Credentials!WritePool(p)
  \/ Credentials!CleanRead(p) \/ Credentials!Unlink(p)

CredBegins(p) ==
  \/ Credentials!Run(p) \/ Credentials!Setup(p) \/ Credentials!Doctor(p) \/ Credentials!Clean(p)

CredAlone ==
  \/ \E p \in Process : \E k \in EnvKey : \E v \in Value : \E allow \in BOOLEAN : Credentials!VaultSet(p, k, v, allow)
  \/ \E p \in Process : \E k \in EnvKey : Credentials!VaultRemove(p, k)
  \/ \E l \in EnvLine : l.val # "aegis-managed" /\ Credentials!EditEnv(l)
  \/ Credentials!ToggleLock

LEMMA OfferedType ==
  ASSUME NEW l \in Credentials!Offered
  PROVE  l \in EnvLine /\ l.key \in EnvKey /\ l.val \in Value /\ l.val # "aegis-managed"
BY CredNames DEF Credentials!Offered, EnvLine, Value, EnvKey, Credentials!Key

LEMMA CredCases == Credentials!Next => (\E p \in Process : CredOwn(p) \/ CredBegins(p)) \/ CredAlone
<1> SUFFICES ASSUME Credentials!Next PROVE (\E p \in Process : CredOwn(p) \/ CredBegins(p)) \/ CredAlone
  OBVIOUS
<1>1. ASSUME NEW p \in Process, NEW l \in Credentials!Offered, NEW allow \in BOOLEAN, Credentials!VaultSet(p, l.key, l.val, allow)
      PROVE  CredAlone
  BY <1>1, OfferedType DEF CredAlone
<1>2. ASSUME NEW p \in Process, NEW k \in EnvKey, Credentials!VaultRemove(p, k) PROVE CredAlone
  BY <1>2 DEF CredAlone
<1>3. ASSUME NEW l \in Credentials!Offered, Credentials!EditEnv(l) PROVE CredAlone
  BY <1>3, OfferedType DEF CredAlone
<1>4. Credentials!ToggleLock => CredAlone
  BY DEF CredAlone
<1>5. \/ \E p \in Process : CredOwn(p) \/ CredBegins(p)
      \/ \E p \in Process : \E l \in Credentials!Offered, allow \in BOOLEAN : Credentials!VaultSet(p, l.key, l.val, allow)
      \/ \E p \in Process : \E k \in EnvKey : Credentials!VaultRemove(p, k)
      \/ \E l \in Credentials!Offered : Credentials!EditEnv(l)
      \/ Credentials!ToggleLock
  BY Zenon DEF Credentials!Next, CredOwn, CredBegins, EnvKey
<1> QED
  BY <1>1, <1>2, <1>3, <1>4, <1>5

LEMMA CredNext == CredInv /\ (Credentials!Next \/ UNCHANGED credVars) => CredInv'
<1>1. ASSUME CredInv, NEW p \in Process, CredOwn(p) PROVE CredInv'
  BY <1>1, SyncVaultGoes, SyncReadGoes, TruncateGoes, WriteGoes, LoadGoes, ImportGoes, EnvGoneGoes, DiagnoseVaultGoes,
     DiagnoseEnvGoes, DiagnosePoolGoes, HealVaultGoes, HealEnvGoes, HealPoolGoes, WritePoolGoes, CleanReadGoes, UnlinkGoes
     DEF CredOwn
<1>2. ASSUME CredInv, NEW p \in Process, CredBegins(p) PROVE CredInv'
  <2>1. PICK op \in ShellOp \ {"none"}, s \in {"sync vault", "import load", "diagnose vault", "clean read"} :
             (op = "doctor" <=> s = "diagnose vault") /\ Credentials!Begin(p, op, s)
    <3>1. CASE Credentials!Run(p)
      BY <3>1 DEF Credentials!Run, ShellOp
    <3>2. CASE Credentials!Setup(p)
      BY <3>2 DEF Credentials!Setup, ShellOp
    <3>3. CASE Credentials!Doctor(p)
      BY <3>3 DEF Credentials!Doctor, ShellOp
    <3>4. CASE Credentials!Clean(p)
      BY <3>4 DEF Credentials!Clean, ShellOp
    <3> QED
      BY <1>2, <3>1, <3>2, <3>3, <3>4 DEF CredBegins
  <2> QED
    BY <1>1, <1>2, <2>1, CredBegin
<1>3. ASSUME CredInv, CredAlone PROVE CredInv'
  BY <1>3, VaultSetGoes, VaultRemoveGoes, EditEnvGoes, ToggleLockGoes DEF CredAlone
<1>4. ASSUME CredInv, UNCHANGED credVars PROVE CredInv'
  BY <1>4 DEF credVars, CredInv, CredTyped, CredFiles, CredInTurn, Credentials!Busy, Credentials!Mine, Credentials!AnyBusy
<1> QED
  BY <1>1, <1>2, <1>3, <1>4, CredCases

\* Only a command itself changes what it is at.
LEMMA CredMoves ==
  ASSUME CredInv, Credentials!Next, NEW p \in Process, Credentials!Busy(p), shell'[p] # shell[p]
  PROVE  CredOwn(p)
<1>1. CredAlone => shell' = shell
  BY DEF CredAlone, Credentials!VaultSet, Credentials!VaultRemove, Credentials!EditEnv, Credentials!ToggleLock
<1>2. ASSUME NEW q \in Process, CredOwn(q) \/ CredBegins(q) PROVE \E me : shell' = [shell EXCEPT ![q] = me]
  BY <1>2 DEF CredOwn, CredBegins, Credentials!Run, Credentials!Setup, Credentials!Doctor, Credentials!Clean, Credentials!Begin,
     Credentials!SyncVault, Credentials!SyncRead, Credentials!Truncate, Credentials!Write, Credentials!ImportLoad,
     Credentials!Import, Credentials!DeleteLoad, Credentials!Delete, Credentials!EnvGone, Credentials!DiagnoseVault,
     Credentials!DiagnoseEnv, Credentials!DiagnosePool, Credentials!HealVault, Credentials!HealEnv, Credentials!HealPool,
     Credentials!WritePool, Credentials!CleanRead, Credentials!Unlink, Credentials!Goto, Credentials!Done
<1>3. CredBegins(p) => ~Credentials!Busy(p)
  BY DEF CredBegins, Credentials!Run, Credentials!Setup, Credentials!Doctor, Credentials!Clean, Credentials!Begin
<1>4. ASSUME NEW q \in Process, CredOwn(q) \/ CredBegins(q) PROVE q = p
  <2>1. PICK me : shell' = [shell EXCEPT ![q] = me]
    BY <1>2, <1>4
  <2> QED
    BY <2>1 DEF CredInv, CredTyped
<1> QED
  BY <1>1, <1>3, <1>4, CredCases

\* Done, a doctor that knows what it found and healed leaves nothing to find.
LEMMA DoctorEnds ==
  ASSUME CredInv, Credentials!Next, NEW p \in Process, shell[p].op = "doctor", Credentials!Busy(p), ~Credentials!Busy(p)',
         vaultLock = FALSE, shared = FALSE
  PROVE  Credentials!Findings' = {}
<1>1. PICK old \in ShellRecord : old = shell[p] /\ ShellOf(old) /\ CredFiles
  BY CredHere
<1>a. PICK lines \in Seq(EnvLine) : lines = envFile.lines
  BY CredHere
<1>2. CredOwn(p)
  BY CredMoves DEF Credentials!Busy, Credentials!Mine
<1>3. shell'[p].step = "idle" /\ old.op = "doctor" /\ old.step \in Healing \cup {"truncate", "write"}
  BY <1>1 DEF Credentials!Busy, Credentials!Mine, ShellOf
<1>4. Treated(old, vault, lines, pool)
  BY <1>1, <1>a DEF CredInv, CredInTurn, Sound
<1>5. ASSUME NEW me, shell' = [shell EXCEPT ![p] = me] PROVE shell'[p] = me
  BY <1>5 DEF CredInv, CredTyped
<1>6. ASSUME Credentials!OAuthKeys(vault') = {}, NoLeak(lines), envFile' = envFile, Credentials!Stale(pool') = {}
      PROVE  Credentials!Findings' = {}
  <2>1. Credentials!VaultFinding' = {} /\ Credentials!PoolFinding' = {}
    BY <1>6 DEF Credentials!VaultFinding, Credentials!PoolFinding
  <2>2. Credentials!EnvFinding' = {}
    BY <1>6, <1>a, CredSublist DEF Credentials!EnvFinding, NoLeak
  <2> QED
    BY <2>1, <2>2 DEF Credentials!Findings
<1>7. CASE Credentials!DiagnosePool(p)
  <2>1. old.step = "diagnose pool" /\ UNCHANGED <<vault, envFile, pool>>
    BY <1>1, <1>7 DEF Credentials!DiagnosePool, Credentials!At, Credentials!Mine, Credentials!credFiles
  <2>2. old.found \cup Credentials!PoolFinding = {}
    <3> SUFFICES ASSUME old.found \cup Credentials!PoolFinding # {} PROVE FALSE
      OBVIOUS
    <3>1. PICK me : me = [old EXCEPT !.step = "heal vault", !.found = old.found \cup Credentials!PoolFinding]
                    /\ shell' = [shell EXCEPT ![p] = me]
      BY <1>1, <1>7 DEF Credentials!DiagnosePool, Credentials!Goto, Credentials!Mine
    <3>2. me.step = "heal vault"
      BY <3>1 DEF ShellRecord
    <3> QED
      BY <1>3, <1>5, <3>1, <3>2
  <2>3. Credentials!OAuthKeys(vault) = {} /\ NoLeak(lines)
    BY <1>4, <2>1, <2>2 DEF Treated
  <2>4. Credentials!Stale(pool) = {}
    BY <2>2 DEF Credentials!PoolFinding
  <2> QED
    BY <1>6, <2>1, <2>3, <2>4
<1>8. CASE Credentials!HealPool(p)
  <2>1. old.step = "heal pool" /\ UNCHANGED <<vault, envFile, pool>>
    BY <1>1, <1>8 DEF Credentials!HealPool, Credentials!At, Credentials!Mine, Credentials!credFiles
  <2>2. "pool" \notin old.found
    <3> SUFFICES ASSUME "pool" \in old.found PROVE FALSE
      OBVIOUS
    <3>1. PICK me : me = [old EXCEPT !.step = "write pool", !.pool = pool \ Credentials!Stale(pool)]
                    /\ shell' = [shell EXCEPT ![p] = me]
      BY <1>1, <1>8 DEF Credentials!HealPool, Credentials!Goto, Credentials!Mine
    <3>2. me.step = "write pool"
      BY <3>1 DEF ShellRecord
    <3> QED
      BY <1>3, <1>5, <3>1, <3>2
  <2>3. Credentials!OAuthKeys(vault) = {} /\ NoLeak(lines) /\ Credentials!Stale(pool) = {}
    BY <1>3, <1>4, <2>1, <2>2 DEF Treated
  <2> QED
    BY <1>6, <2>1, <2>3
<1>9. CASE Credentials!WritePool(p)
  <2>1. old.step = "write pool" /\ UNCHANGED <<vault, envFile>> /\ pool' = old.pool
    BY <1>1, <1>9 DEF Credentials!WritePool, Credentials!At, Credentials!Mine
  <2>2. Credentials!OAuthKeys(vault) = {} /\ NoLeak(lines) /\ Credentials!Stale(old.pool) = {}
    BY <1>3, <1>4, <2>1 DEF Treated
  <2> QED
    BY <1>6, <2>1, <2>2
<1>10. ASSUME NEW s, s # "idle", NEW me, me.step = s, shell' = [shell EXCEPT ![p] = me] PROVE FALSE
  BY <1>3, <1>5, <1>10
<1>11. CASE Credentials!DiagnoseVault(p)
  <2>1. PICK me : (\E f, v : me = [old EXCEPT !.step = "diagnose env", !.found = f, !.vault = v]) /\ shell' = [shell EXCEPT ![p] = me]
    BY <1>1, <1>11 DEF Credentials!DiagnoseVault, Credentials!Goto, Credentials!Mine
  <2>2. me.step = "diagnose env"
    BY <2>1 DEF ShellRecord
  <2> QED
    BY <1>10, <2>1, <2>2
<1>12. CASE Credentials!DiagnoseEnv(p)
  <2>1. PICK me : (\E f : me = [old EXCEPT !.step = "diagnose pool", !.found = f]) /\ shell' = [shell EXCEPT ![p] = me]
    BY <1>1, <1>12 DEF Credentials!DiagnoseEnv, Credentials!Goto, Credentials!Mine
  <2>2. me.step = "diagnose pool"
    BY <2>1 DEF ShellRecord
  <2> QED
    BY <1>10, <2>1, <2>2
<1>13. CASE Credentials!HealVault(p)
  <2>1. PICK me : (\E v : me = [old EXCEPT !.step = "heal env", !.vault = v]) /\ shell' = [shell EXCEPT ![p] = me]
    BY <1>1, <1>13 DEF Credentials!HealVault, Credentials!Goto, Credentials!Mine
  <2>2. me.step = "heal env"
    BY <2>1 DEF ShellRecord
  <2> QED
    BY <1>10, <2>1, <2>2
<1>14. CASE Credentials!HealEnv(p)
  <2>1. PICK me : /\ \/ \E l : me = [old EXCEPT !.step = "truncate", !.lines = l]
                     \/ me = [old EXCEPT !.step = "heal pool"]
                  /\ shell' = [shell EXCEPT ![p] = me]
    BY <1>1, <1>14 DEF Credentials!HealEnv, Credentials!Goto, Credentials!Mine
  <2>2. me.step = "truncate" \/ me.step = "heal pool"
    BY <2>1 DEF ShellRecord
  <2> QED
    BY <1>10, <2>1, <2>2
<1>15. CASE Credentials!Truncate(p)
  <2>1. PICK me : me = [old EXCEPT !.step = "write"] /\ shell' = [shell EXCEPT ![p] = me]
    BY <1>1, <1>15 DEF Credentials!Truncate, Credentials!Goto, Credentials!Mine
  <2>2. me.step = "write"
    BY <2>1 DEF ShellRecord
  <2> QED
    BY <1>10, <2>1, <2>2
<1>16. CASE Credentials!Write(p)
  <2>1. PICK me : (\E l : me = [old EXCEPT !.step = "heal pool", !.lines = l]) /\ shell' = [shell EXCEPT ![p] = me]
    BY <1>1, <1>3, <1>16 DEF Credentials!Write, Credentials!Goto, Credentials!Mine
  <2>2. me.step = "heal pool"
    BY <2>1 DEF ShellRecord
  <2> QED
    BY <1>10, <2>1, <2>2
<1>17. \/ Credentials!DiagnosePool(p) \/ Credentials!HealPool(p) \/ Credentials!WritePool(p) \/ Credentials!DiagnoseVault(p)
       \/ Credentials!DiagnoseEnv(p) \/ Credentials!HealVault(p) \/ Credentials!HealEnv(p) \/ Credentials!Truncate(p) \/ Credentials!Write(p)
  <2>1. ~\E s \in {"sync vault", "sync read", "import load", "import", "delete load", "delete", "clean read", "unlink"} :
           shell[p].step = s
    BY <1>1, <1>3 DEF Healing
  <2> QED
    BY <1>2, <2>1 DEF CredOwn, Credentials!SyncVault, Credentials!SyncRead, Credentials!ImportLoad, Credentials!Import,
       Credentials!DeleteLoad, Credentials!Delete, Credentials!EnvGone, Credentials!CleanRead, Credentials!Unlink,
       Credentials!At, Credentials!Mine
<1> QED
  BY <1>7, <1>8, <1>9, <1>11, <1>12, <1>13, <1>14, <1>15, <1>16, <1>17

\* What is merged is what the vault exported, into the lines that are there.
LEMMA MergeEnds ==
  ASSUME CredInv, Credentials!Next, NEW p \in Process, shell[p].step = "sync read", shell'[p].step = "truncate"
  PROVE  /\ Credentials!Foreign(shell'[p].lines, shell[p].vault) = Credentials!Foreign(envFile.lines, shell[p].vault)
         /\ Credentials!Exact(shell'[p].lines, shell[p].vault)
<1>1. PICK old \in ShellRecord : old = shell[p] /\ ShellOf(old) /\ CredFiles
  BY CredHere
<1>a. PICK lines \in Seq(EnvLine) : lines = envFile.lines
  BY CredHere
<1>2. PICK v \in Entries : v = old.vault /\ DOMAIN v \cap Credentials!NeverInject = {}
  BY <1>1 DEF ShellRecord, ShellOf
<1>3. CredOwn(p)
  BY CredMoves DEF Credentials!Busy, Credentials!Mine
<1>4. Credentials!SyncRead(p)
  BY <1>3 DEF CredOwn, Credentials!SyncVault, Credentials!Truncate, Credentials!Write, Credentials!ImportLoad,
     Credentials!Import, Credentials!DeleteLoad, Credentials!Delete, Credentials!EnvGone, Credentials!DiagnoseVault,
     Credentials!DiagnoseEnv, Credentials!DiagnosePool, Credentials!HealVault, Credentials!HealEnv, Credentials!HealPool,
     Credentials!WritePool, Credentials!CleanRead, Credentials!Unlink, Credentials!At, Credentials!Mine
<1>5. PICK M : M = Credentials!Merged(lines, v)
  OBVIOUS
<1>6. PICK c : \E e : MergedAs(lines, v, M, c, e)
  BY <1>5, MergedParts
<1>7. PICK e : MergedAs(lines, v, M, c, e)
  BY <1>6
<1>8. M \in Seq(EnvLine)
  BY <1>7 DEF MergedAs
<1>9. shell'[p].lines = M
  <2>1. PICK me : me = [old EXCEPT !.step = "truncate", !.lines = M] /\ shell' = [shell EXCEPT ![p] = me]
    BY <1>1, <1>a, <1>2, <1>4, <1>5 DEF Credentials!SyncRead, Credentials!Goto, Credentials!Mine
  <2>2. me.lines = M
    BY <2>1 DEF ShellRecord
  <2> QED
    BY <2>1, <2>2 DEF CredInv, CredTyped
<1>10. DOMAIN Credentials!Exported(v) = DOMAIN v
  BY <1>2, ExportedType
<1>11. ASSUME NEW s PROVE Credentials!Foreign(s, v) = Sublist(s, Foreigners(s, v))
  BY <1>10, CredSublist DEF Credentials!Foreign, Credentials!Kept, Foreigners
<1>12. Credentials!Foreign(M, v) = Credentials!Foreign(lines, v)
  BY <1>7, <1>11, MergedForeign
<1>b. /\ \A i \in DOMAIN M : M[i].key \in DOMAIN v => M[i].val = v[M[i].key]
      /\ \A i, j \in DOMAIN M : M[i].key = M[j].key /\ M[i].key \in DOMAIN v => i = j
      /\ \A k \in DOMAIN v : \E i \in DOMAIN M : M[i].key = k
  BY ONLY <1>7, MergedExact, lines \in Seq(EnvLine), v \in Entries
<1>13. ASSUME NEW k \in DOMAIN v
       PROVE  Credentials!Cardinality({i \in DOMAIN M : M[i].key = k}) = 1 /\ [key |-> k, val |-> v[k]] \in Credentials!ToSet(M)
  <2>1. PICK i \in DOMAIN M : M[i].key = k
    BY <1>b, <1>13
  <2>2. \A j \in DOMAIN M : M[j].key = k => j = i
    BY <1>b, <1>13, <2>1
  <2>3. {j \in DOMAIN M : M[j].key = k} = {i}
    BY <2>1, <2>2
  <2>4. Cardinality({i}) = 1
    BY FS_Singleton
  <2>a. M[i] \in EnvLine
    BY ONLY <1>8, <2>1
  <2>b. M[i].val = v[k]
    BY ONLY <1>b, <1>13, <2>1
  <2>5. M[i].val = v[k] /\ M[i] \in EnvLine
    BY ONLY <2>a, <2>b
  <2>6. M[i] = [key |-> k, val |-> v[k]]
    BY <2>1, <2>5 DEF EnvLine
  <2> QED
    BY <2>1, <2>3, <2>4, <2>6, CredSublist
<1>14. Credentials!Exact(M, v)
  BY <1>10, <1>13 DEF Credentials!Exact
<1> QED
  BY <1>1, <1>a, <1>2, <1>9, <1>12, <1>14

\* For any processes, numbers of commands, edits and locks: a key the user gave
\* stays in the vault or in .env with a value of its own, whatever is imported,
\* merged, deleted, healed and cleaned afterwards, one at a time
\* (migrate_env_to_vault, _sync_vault_to_env, vault doctor, clean_old_setup).
THEOREM KeysStay == Spec => []KeysKept
<1> DEFINE Inv == At("credentials") => CredInv
<1>1. Init => Inv
  BY CredInit DEF Init
<1>2. Inv /\ [Next]_homeVars => Inv'
  <2> SUFFICES ASSUME Inv, [Next]_homeVars, At("credentials")' PROVE CredInv'
    OBVIOUS
  <2>1. CredInv /\ (Credentials!Next \/ UNCHANGED credVars)
    BY DEF Next, homeVars, At
  <2> QED
    BY <2>1, CredNext
<1>3. Inv => KeysKept
  <2> SUFFICES ASSUME CredInv, shared = FALSE, ~Credentials!AnyBusy, NEW k \in given PROVE k \in Credentials!Somewhere
    BY DEF KeysKept, Credentials!KeysKept, CredInv, CredTyped
  <2> PICK lines \in Seq(EnvLine) : lines = envFile.lines
    BY DEF CredInv, CredTyped, CredFiles
  <2>1. Held(k, vault, lines)
    BY DEF CredInv, CredInTurn, Safe
  <2>2. CASE k \in DOMAIN vault
    BY <2>1, <2>2, CredNames DEF Held, Credentials!Somewhere
  <2>3. ASSUME NEW i \in DOMAIN lines, StaticAt(k, lines, i) PROVE k \in Credentials!Somewhere
    BY <2>3, CredNames, CredSublist DEF StaticAt, Credentials!Somewhere
  <2> QED
    BY <2>1, <2>2, <2>3 DEF Held
<1> QED
  BY <1>1, <1>2, <1>3, PTL DEF Spec

\* For any processes, numbers of commands, edits and locks: a doctor that works on
\* its own, on a vault that is not locked, leaves nothing that it or the next doctor
\* would report as an error (vault doctor --fix).
THEOREM DoctorLeavesNothing == Spec => DoctorHeals
<1> DEFINE Inv == At("credentials") => CredInv
<1>1. Init => Inv
  BY CredInit DEF Init
<1>2. Inv /\ [Next]_homeVars => Inv'
  <2> SUFFICES ASSUME Inv, [Next]_homeVars, At("credentials")' PROVE CredInv'
    OBVIOUS
  <2>1. CredInv /\ (Credentials!Next \/ UNCHANGED credVars)
    BY DEF Next, homeVars, At
  <2> QED
    BY <2>1, CredNext
<1>3. Inv /\ [Next]_homeVars => [At("credentials") => Credentials!DoctorHeals]_homeVars
  <2> SUFFICES ASSUME Inv, Next, At("credentials") PROVE Credentials!DoctorHeals
    OBVIOUS
  <2>1. CredInv /\ Credentials!Next
    BY DEF Next, At
  <2> SUFFICES ASSUME NEW p \in Process, shell[p].op = "doctor", Credentials!Busy(p), ~Credentials!Busy(p)',
                      vaultLock = FALSE, shared = FALSE
               PROVE  Credentials!Findings' = {}
    BY <2>1 DEF Credentials!DoctorHeals, Credentials!Mine, CredInv, CredTyped, CredFiles
  <2> QED
    BY <2>1, DoctorEnds
<1> QED
  BY <1>1, <1>2, <1>3, PTL DEF Spec, DoctorHeals

\* For any processes, numbers of commands, edits and locks: a merge leaves every
\* line of .env alone that is not of a key of the vault, in order, but for the OAuth
\* lines, and writes each key of the vault once, with its value (_sync_vault_to_env).
THEOREM MergeKeepsForeign == Spec => MergeRight
<1> DEFINE Inv == At("credentials") => CredInv
<1>1. Init => Inv
  BY CredInit DEF Init
<1>2. Inv /\ [Next]_homeVars => Inv'
  <2> SUFFICES ASSUME Inv, [Next]_homeVars, At("credentials")' PROVE CredInv'
    OBVIOUS
  <2>1. CredInv /\ (Credentials!Next \/ UNCHANGED credVars)
    BY DEF Next, homeVars, At
  <2> QED
    BY <2>1, CredNext
<1>3. Inv /\ [Next]_homeVars => [At("credentials") => Credentials!MergeRight]_homeVars
  <2> SUFFICES ASSUME Inv, Next, At("credentials") PROVE Credentials!MergeRight
    OBVIOUS
  <2>1. CredInv /\ Credentials!Next
    BY DEF Next, At
  <2> SUFFICES ASSUME NEW p \in Process, shell[p].step = "sync read", shell'[p].step = "truncate"
               PROVE  /\ Credentials!Foreign(shell'[p].lines, shell[p].vault) = Credentials!Foreign(envFile.lines, shell[p].vault)
                      /\ Credentials!Exact(shell'[p].lines, shell[p].vault)
    BY DEF Credentials!MergeRight, Credentials!At, Credentials!Mine
  <2> QED
    BY <2>1, MergeEnds
<1> QED
  BY <1>1, <1>2, <1>3, PTL DEF Spec, MergeRight

(* -------- the types ----------------------------------------------------------------- *)

(* ---- the types of the credentials ------------------------------------------------ *)

\* What holds of the files and of what the commands hold is their types.
LEMMA CredMean == ASSUME CredInv PROVE Credentials!TypeOK
<1>1. CredFiles /\ shell \in [Process -> ShellState]
  BY DEF CredInv, CredTyped
<1>2. DOMAIN vault \subseteq EnvKey /\ \A k \in DOMAIN vault : vault[k] \in {Credentials!Static, Credentials!OAuth}
  <2>1. vault \in Entries
    BY <1>1 DEF CredFiles
  <2>2. DOMAIN vault \subseteq EnvKey /\ vault \in [DOMAIN vault -> Value]
    BY <2>1, EntriesType
  <2> QED
    BY <2>2, CredNames DEF Value
<1>3. EnvLine = Credentials!Line
  <2>1. {"static", "oauth", "aegis-managed"} = {Credentials!OAuth, Credentials!Placeholder, Credentials!Static}
    BY CredNames
  <2> QED
    BY <2>1 DEF EnvLine, EnvKey, Credentials!Line
<1>4. \A lines \in Seq(EnvLine) : Credentials!ToSet(lines) \subseteq Credentials!Line
  BY <1>3, CredSublist
<1>5. ASSUME NEW p \in Process PROVE Credentials!ToSet(Credentials!Mine(p).lines) \subseteq Credentials!Line
  <2>1. shell[p].lines \in Seq(EnvLine)
    BY <1>1 DEF ShellState, ShellRecord
  <2> QED
    BY <1>4, <2>1 DEF Credentials!Mine
<1>6. /\ envFile.exists \in BOOLEAN /\ Credentials!ToSet(envFile.lines) \subseteq Credentials!Line
      /\ ~envFile.exists => envFile.lines = <<>>
      /\ pool \subseteq Credentials!Credential /\ given \subseteq Credentials!Key
  <2>1. /\ envFile.exists \in BOOLEAN /\ envFile.lines \in Seq(EnvLine)
        /\ ~envFile.exists => envFile.lines = <<>>
        /\ pool \subseteq Credentials!Credential /\ given \subseteq Credentials!Key
    BY <1>1 DEF CredFiles, EnvKey
  <2> QED
    BY <1>4, <2>1
<1> QED
  BY <1>2, <1>5, <1>6 DEF Credentials!TypeOK, EnvKey

(* ---- what a call is made of ------------------------------------------------------ *)

\* The characters of a result: places, and those of a placeholder.
Character == 0..Length

LEMMA CutText ==
  ASSUME NEW t \in Seq(Character), NEW m, m.from \in Nat \ {0}, m.to \in Nat \ {0}, m.from - 1 <= Len(t)
  PROVE  Call!Cut(t, m) \in Seq(Character) /\ Len(Call!Cut(t, m)) >= m.from - 1
<1>1. PICK a \in Nat : a = m.from - 1
  OBVIOUS
<1>2. PICK b \in Nat \ {0} : b = m.to
  OBVIOUS
<1>3. PICK n \in Nat : n = Len(t)
  OBVIOUS
<1>4. \A i \in 1..n : t[i] \in Character
  BY <1>3
<1>5. SubSeq(t, 1, a) \in Seq(Character) /\ Len(SubSeq(t, 1, a)) = a
  <2>1. \A i \in 1..a : t[i] \in Character
    BY <1>1, <1>3, <1>4
  <2>2. SubSeq(t, 1, a) \in Seq(Character) /\ Len(SubSeq(t, 1, a)) = IF 1 <= a THEN a - 1 + 1 ELSE 0
    BY <2>1, SubSeqProperties
  <2> QED
    BY <2>2
<1>6. SubSeq(t, b, n) \in Seq(Character)
  <2>1. \A i \in b..n : t[i] \in Character
    BY <1>4
  <2> QED
    BY <2>1, SubSeqProperties
<1>7. Call!Placeholder \in Seq(Character)
  <2>1. 0 \in Character /\ MarkLength \in Nat
    BY Lengths DEF Character
  <2> QED
    BY <2>1 DEF Call!Placeholder, Call!Mark
<1>8. /\ SubSeq(t, 1, a) \o Call!Placeholder \in Seq(Character)
      /\ Len(SubSeq(t, 1, a) \o Call!Placeholder) >= a
  <2>1. Len(Call!Placeholder) \in Nat
    BY <1>7
  <2> QED
    BY <1>5, <1>7, <2>1, ConcatProperties
<1>9. PICK u \in Seq(Character) : u = SubSeq(t, 1, a) \o Call!Placeholder
  BY <1>8
<1>10. PICK w \in Seq(Character) : w = SubSeq(t, b, n)
  BY <1>6
<1>11. u \o w \in Seq(Character) /\ Len(u \o w) >= a
  <2>1. Len(u) >= a /\ Len(u) \in Nat /\ Len(w) \in Nat
    BY <1>8, <1>9
  <2> QED
    BY <2>1, ConcatProperties
<1>12. Call!Cut(t, m) = u \o w
  BY <1>1, <1>2, <1>3, <1>9, <1>10 DEF Call!Cut
<1> QED
  BY <1>1, <1>11, <1>12

\* A place where something stands in a text.
LEMMA FoundText ==
  ASSUME NEW t \in Seq(Character), NEW s, NEW m \in Call!Found(t, s)
  PROVE  /\ m \in [by : {s.by}, from : 1..Len(t), to : 2..(Len(t) + 1)]
         /\ m.from \in Nat \ {0} /\ m.to \in Nat \ {0} /\ m.from - 1 <= Len(t)
<1>1. m \in [by : {s.by}, from : 1..Len(t), to : 2..(Len(t) + 1)]
  <2>1. DOMAIN t = 1..Len(t)
    OBVIOUS
  <2> QED
    BY <2>1 DEF Call!Found
<1>2. m.from \in 1..Len(t) /\ m.to \in 2..(Len(t) + 1) /\ Len(t) \in Nat
  BY <1>1
<1> QED
  BY <1>1, <1>2

LEMMA MatchesText ==
  ASSUME NEW t \in Seq(Character), NEW S \in SUBSET Call!Spans
  PROVE  /\ IsFiniteSet(Call!Matches(t, S))
         /\ \A m \in Call!Matches(t, S) : m.from \in Nat \ {0} /\ m.to \in Nat \ {0} /\ m.from - 1 <= Len(t)
<1>1. PICK n \in Nat : n = Len(t)
  OBVIOUS
<1>2. ASSUME NEW m \in Call!Matches(t, S) PROVE \E s \in S : m \in Call!Found(t, s)
  BY DEF Call!Matches
<1>3. Call!Matches(t, S) \subseteq [by : 1..Finders, from : 1..n, to : 2..(n + 1)]
  <2> SUFFICES ASSUME NEW m \in Call!Matches(t, S)
               PROVE  m \in [by : 1..Finders, from : 1..n, to : 2..(n + 1)]
    OBVIOUS
  <2>1. PICK s \in S : m \in Call!Found(t, s)
    BY <1>2
  <2>2. m \in [by : {s.by}, from : 1..n, to : 2..(n + 1)]
    BY <1>1, <2>1, FoundText
  <2>3. s.by \in 1..Finders
    BY DEF Call!Spans
  <2> QED
    BY <2>2, <2>3
<1>4. IsFiniteSet(Call!Matches(t, S))
  <2>1. IsFiniteSet(1..Finders)
    BY Lengths, FS_Interval
  <2> QED
    BY <1>3, <2>1, PlacesFinite, FS_Subset
<1> QED
  BY <1>2, <1>4, FoundText

\* What is left of a text when places in it are cut out from the last to the
\* first, however they overlap: each lies within what is left when its turn comes.
LEMMA RedactedText ==
  ASSUME NEW t \in Seq(Character), NEW S \in SUBSET Call!Spans
  PROVE  Call!Redacted(t, Call!Matches(t, S)) \subseteq Seq(Character)
<1> DEFINE ms == Call!Matches(t, S)
<1>1. IsFiniteSet(ms) /\ \A m \in ms : m.from \in Nat \ {0} /\ m.to \in Nat \ {0} /\ m.from - 1 <= Len(t)
  BY MatchesText
<1> HIDE DEF ms
<1> SUFFICES ASSUME NEW o \in Call!Orders(ms), \A i, j \in DOMAIN o : i < j => Call!Before(o[i], o[j])
             PROVE  Call!CutAll(t, o) \in Seq(Character)
  BY DEF Call!Redacted, ms
<1>2. PICK n \in Nat : AllListed(ms, n, o) /\ Len(o) = n
  BY <1>1, OrdersList
<1>3. DOMAIN o = 1..n /\ \A i \in 1..n : o[i] \in ms
  BY <1>2 DEF AllListed
<1>4. PICK g : CutsMade(t, o, n, g) /\ Call!CutAll(t, o) = g[n]
  BY <1>2, CutAllIs
<1>5. \A i \in 1..n : o[i].from \in Nat \ {0} /\ o[i].to \in Nat \ {0} /\ o[i].from - 1 <= Len(t)
  BY <1>1, <1>3
<1> DEFINE Fits(k) == g[k] \in Seq(Character) /\ (k < n => o[k + 1].from - 1 <= Len(g[k]))
           T == {k \in Nat : k <= n /\ ~Fits(k)}
<1>6. ASSUME T # {} PROVE FALSE
  <2>1. PICK k \in T : \A l \in T : k <= l
    <3>1. T \subseteq Nat
      OBVIOUS
    <3> HIDE DEF T
    <3> QED
      BY <1>6, <3>1, Least
  <2>2. k \in Nat /\ k <= n /\ ~Fits(k)
    OBVIOUS
  <2>3. CASE k = 0
    <3>1. g[0] = t
      BY <1>4 DEF CutsMade
    <3>2. 0 < n => 0 + 1 \in 1..n
      OBVIOUS
    <3> QED
      BY <1>5, <2>2, <2>3, <3>1, <3>2
  <2>4. CASE k # 0
    <3>1. k - 1 \in Nat /\ k - 1 <= n /\ k - 1 < n /\ ~(k <= k - 1) /\ k \in 1..n /\ (k - 1) + 1 = k
      BY <2>2, <2>4
    <3>2. Fits(k - 1)
      <4>1. k - 1 \notin T
        <5> HIDE DEF T
        <5> QED
          BY <2>1, <3>1
      <4> QED
        BY <3>1, <4>1
    <3>3. g[k - 1] \in Seq(Character) /\ o[k].from - 1 <= Len(g[k - 1])
      BY <3>1, <3>2
    <3>4. o[k].from \in Nat \ {0} /\ o[k].to \in Nat \ {0}
      BY <1>5, <3>1
    <3>5. Call!Cut(g[k - 1], o[k]) \in Seq(Character) /\ Len(Call!Cut(g[k - 1], o[k])) >= o[k].from - 1
      BY <3>3, <3>4, CutText
    <3>6. g[k] = Call!Cut(g[k - 1], o[k])
      BY <1>4, <3>1 DEF CutsMade
    <3>7. g[k] \in Seq(Character) /\ Len(g[k]) >= o[k].from - 1
      BY <3>5, <3>6
    <3>8. k < n => o[k + 1].from - 1 <= Len(g[k])
      <4> SUFFICES ASSUME k < n PROVE o[k + 1].from - 1 <= Len(g[k])
        OBVIOUS
      <4>1. k \in 1..n /\ k + 1 \in 1..n /\ k < k + 1
        BY <2>2, <3>1
      <4>2. o[k].from >= o[k + 1].from
        <5>1. Call!Before(o[k], o[k + 1]) /\ o[k].from \in Nat /\ o[k + 1].from \in Nat
          BY <1>3, <1>5, <4>1
        <5> QED
          BY <5>1 DEF Call!Before
      <4>3. o[k].from \in Nat /\ o[k + 1].from \in Nat /\ Len(g[k]) \in Nat
        BY <1>5, <3>7, <4>1
      <4> QED
        BY <3>7, <4>2, <4>3
    <3> QED
      BY <2>2, <3>7, <3>8
  <2> QED
    BY <2>3, <2>4
<1>7. Fits(n)
  <2> n \notin T
    <3> HIDE DEF T
    <3> QED
      BY <1>6
  <2> QED
    OBVIOUS
<1> QED
  BY <1>4, <1>7

EachEquation(txt, ms, g) ==
  g = [k \in 0..Len(ms) |-> IF k = 0 THEN txt ELSE Call!Replace(g[k - 1], ms[k])]

LEMMA ReplaceText ==
  ASSUME NEW t \in Seq(Character), NEW s
  PROVE  Call!Replace(t, s) \in Seq(Character)
<1>1. CASE Call!Found(t, s) = {}
  BY <1>1 DEF Call!Replace
<1>2. CASE Call!Found(t, s) # {}
  <2>1. PICK m : m = CHOOSE x \in Call!Found(t, s) : TRUE
    OBVIOUS
  <2>2. m \in Call!Found(t, s)
    BY <1>2, <2>1
  <2>3. Call!Cut(t, m) \in Seq(Character)
    BY <2>2, FoundText, CutText
  <2> QED
    BY <1>2, <2>1, <2>3 DEF Call!Replace
<1> QED
  BY <1>1, <1>2

\* Tirith finds one thing at most in a result here.
LEMMA ReplacedText ==
  ASSUME NEW t \in Seq(Character), NEW S, \A s, r \in S : s = r
  PROVE  Call!Replaced(t, S) \subseteq Seq(Character)
<1> SUFFICES ASSUME NEW o \in Call!Orders(S) PROVE Call!ReplaceEach(t, o) \in Seq(Character)
  BY DEF Call!Replaced
<1>1. IsFiniteSet(S)
  <2>1. CASE S = {}
    BY <2>1, FS_EmptySet
  <2>2. CASE S # {}
    <3>1. PICK s \in S : TRUE
      BY <2>2
    <3>2. S = {s}
      BY <3>1
    <3> QED
      BY <3>2, FS_Singleton
  <2> QED
    BY <2>1, <2>2
<1>2. PICK n \in Nat : AllListed(S, n, o) /\ Len(o) = n
  BY <1>1, OrdersList
<1>3. n = 0 \/ n = 1
  <2> SUFFICES ASSUME n >= 2 PROVE FALSE
    OBVIOUS
  <2>1. 1 \in 1..n /\ 2 \in 1..n /\ 1 # 2
    OBVIOUS
  <2>2. o[1] \in S /\ o[2] \in S /\ o[1] # o[2]
    BY <1>2, <2>1 DEF AllListed
  <2> QED
    BY <2>2
<1>4. \E g : EachEquation(t, o, g)
  <2>1. CASE n = 0
    <3> DEFINE g == [k \in 0..0 |-> t]
    <3>1. \A k \in 0..0 : k = 0
      OBVIOUS
    <3>2. PICK f : f = g
      OBVIOUS
    <3>3. f = [k \in 0..0 |-> IF k = 0 THEN t ELSE Call!Replace(f[k - 1], o[k])]
      BY <3>1, <3>2
    <3> QED
      BY <1>2, <2>1, <3>3 DEF EachEquation
  <2>2. CASE n = 1
    <3> DEFINE g == [k \in 0..1 |-> IF k = 0 THEN t ELSE Call!Replace(t, o[k])]
    <3>1. \A k \in 0..1 : k = 0 \/ (k = 1 /\ k - 1 = 0)
      OBVIOUS
    <3>2. PICK f : f = g
      OBVIOUS
    <3>3. f[0] = t
      BY <3>2
    <3>4. \A k \in 0..1 : f[k] = IF k = 0 THEN t ELSE Call!Replace(f[k - 1], o[k])
      <4> SUFFICES ASSUME NEW k \in 0..1 PROVE f[k] = IF k = 0 THEN t ELSE Call!Replace(f[k - 1], o[k])
        OBVIOUS
      <4>1. f[k] = IF k = 0 THEN t ELSE Call!Replace(t, o[k])
        BY <3>2
      <4>2. k = 0 \/ f[k - 1] = t
        BY <3>1, <3>3
      <4> QED
        BY <4>1, <4>2
    <3>5. f = [k \in 0..1 |-> f[k]]
      BY <3>2
    <3> HIDE DEF g
    <3>6. f = [k \in 0..1 |-> IF k = 0 THEN t ELSE Call!Replace(f[k - 1], o[k])]
      BY <3>4, <3>5
    <3> QED
      BY <1>2, <2>2, <3>6 DEF EachEquation
  <2> QED
    BY <1>3, <2>1, <2>2
<1> DEFINE g == CHOOSE g : EachEquation(t, o, g)
<1>5. EachEquation(t, o, g)
  BY <1>4
<1>6. Call!ReplaceEach(t, o) = g[n]
  BY <1>2 DEF Call!ReplaceEach, EachEquation
<1> HIDE DEF g
<1>7. \A k \in 0..n : g[k] = IF k = 0 THEN t ELSE Call!Replace(g[k - 1], o[k])
  BY <1>2, <1>5 DEF EachEquation
<1>8. g[0] = t
  <2>1. 0 \in 0..n
    OBVIOUS
  <2> QED
    BY <1>7, <2>1
<1>9. CASE n = 0
  BY <1>6, <1>8, <1>9
<1>10. CASE n = 1
  <2>1. 1 \in 0..n /\ 1 # 0 /\ 1 - 1 = 0
    BY <1>10
  <2>2. g[1] = Call!Replace(t, o[1])
    BY <1>7, <1>8, <2>1
  <2> QED
    BY <1>6, <1>10, <2>2, ReplaceText
<1> QED
  BY <1>3, <1>9, <1>10

(* ---- the types of a call ------------------------------------------------------------- *)

CallSecrets == call.chain \in Chains /\ call.secrets \in SUBSET Call!Spans /\ \A s, r \in call.threats : s = r

CallKinds ==
  /\ CallSecrets
  /\ step \in {"pre", "post", "returned", "denied", "raised"}
  /\ at \in 0..(Len(call.chain) + 1)
  /\ result \in Seq(Character)
  /\ step = "post" => ran

LEMMA CallKindsInit == ASSUME Call!Init PROVE CallKinds
<1>1. /\ call.chain \in Chains /\ call.secrets \in SUBSET Call!Spans
      /\ call.threats \in {{}} \cup {{s} : s \in Call!Spans}
      /\ step = "pre" /\ at = 1 /\ result = <<>>
  BY CallStarts
<1>2. Len(call.chain) \in Nat
  BY <1>1, ChainFacts
<1>3. <<>> \in Seq(Character)
  OBVIOUS
<1> QED
  BY <1>1, <1>2, <1>3 DEF CallKinds, CallSecrets

\* A middleware sends the call on by one place, or ends it.
LEMMA CallMoves ==
  ASSUME CallKinds, call' = call, result' \in Seq(Character), ran' = ran,
         at \in DOMAIN call.chain,
         \/ step' = step /\ at' \in {at + 1, at - 1}
         \/ step' \in {"returned", "denied", "raised"} /\ at' = at
  PROVE  CallKinds'
<1>1. call.chain \in Chains
  BY DEF CallKinds, CallSecrets
<1>2. DOMAIN call.chain = 1..Len(call.chain) /\ Len(call.chain) \in Nat
  BY <1>1, ChainFacts
<1>3. at' \in 0..(Len(call.chain) + 1)
  BY <1>2
<1> QED
  BY <1>3 DEF CallKinds, CallSecrets

LEMMA CallKindsDown ==
  ASSUME CallKinds, Call!PreAudit \/ Call!PreBlocker \/ Call!PreHook \/ Call!PrePass
  PROVE  CallKinds'
<1>1. /\ call' = call /\ result' = result /\ ran' = ran /\ at \in DOMAIN call.chain
      /\ \/ step' = step /\ at' \in {at + 1, at - 1}
         \/ step' \in {"returned", "denied", "raised"} /\ at' = at
  <2>1. CASE Call!PreAudit
    BY <2>1 DEF Call!PreAudit, Call!Turn, Call!Down, Call!End, Call!Raise
  <2>2. CASE Call!PreBlocker
    BY <2>2 DEF Call!PreBlocker, Call!Turn, Call!Down, Call!End
  <2>3. CASE Call!PreHook
    BY <2>3 DEF Call!PreHook, Call!Turn, Call!Down, Call!End
  <2>4. CASE Call!PrePass
    BY <2>4 DEF Call!PrePass, Call!Turn, Call!Down
  <2> QED
    BY <2>1, <2>2, <2>3, <2>4
<1>2. result \in Seq(Character)
  BY DEF CallKinds
<1> QED
  BY <1>1, <1>2, CallMoves

LEMMA CallKindsHandle == ASSUME CallKinds, Call!Handle PROVE CallKinds'
<1>1. call' = call /\ ran'
  BY DEF Call!Handle
<1>2. \/ step' = "raised" /\ at' = at /\ result' = result
      \/ step' = "post" /\ at' = Len(call.chain) /\ result' = Call!Original
  BY DEF Call!Handle, Call!Raise, Call!End
<1>3. Call!Original \in Seq(Character)
  BY Lengths DEF Call!Original, Character
<1>4. Len(call.chain) \in Nat
  BY ChainFacts DEF CallKinds, CallSecrets
<1>5. at' \in 0..(Len(call.chain) + 1) /\ result' \in Seq(Character)
  BY <1>2, <1>3, <1>4 DEF CallKinds
<1> QED
  BY <1>1, <1>2, <1>5 DEF CallKinds, CallSecrets

LEMMA CallKindsUp ==
  ASSUME CallKinds,
         Call!PostAudit \/ Call!PostHook \/ Call!PostScanner \/ Call!PostRedact \/ Call!PostTirith \/ Call!PostPass
  PROVE  CallKinds'
<1>1. /\ call' = call /\ ran' = ran /\ at \in DOMAIN call.chain
      /\ \/ step' = step /\ at' \in {at + 1, at - 1}
         \/ step' \in {"returned", "denied", "raised"} /\ at' = at
      /\ \/ result' = result
         \/ result' \in Call!Redacted(result, Call!Matches(result, call.secrets))
         \/ \E found \in SUBSET call.threats : result' \in Call!Replaced(result, found)
  <2>1. CASE Call!PostAudit
    BY <2>1 DEF Call!PostAudit, Call!Turn, Call!Up, Call!End, Call!Raise
  <2>2. CASE Call!PostHook
    BY <2>2 DEF Call!PostHook, Call!Turn, Call!Up
  <2>3. CASE Call!PostScanner
    BY <2>3 DEF Call!PostScanner, Call!Turn, Call!Up, Call!End, Call!Raise
  <2>4. CASE Call!PostRedact
    BY <2>4 DEF Call!PostRedact, Call!Turn, Call!Up
  <2>5. CASE Call!PostTirith
    BY <2>5 DEF Call!PostTirith, Call!Turn, Call!Up, Call!End, Call!Raise
  <2>6. CASE Call!PostPass
    BY <2>6 DEF Call!PostPass, Call!Turn, Call!Up
  <2> QED
    BY <2>1, <2>2, <2>3, <2>4, <2>5, <2>6
<1>2. /\ result \in Seq(Character) /\ call.secrets \in SUBSET Call!Spans
      /\ \A s, r \in call.threats : s = r
  BY DEF CallKinds, CallSecrets
<1>3. ASSUME NEW found \in SUBSET call.threats PROVE Call!Replaced(result, found) \subseteq Seq(Character)
  BY <1>2, ReplacedText
<1>4. Call!Redacted(result, Call!Matches(result, call.secrets)) \subseteq Seq(Character)
  BY <1>2, RedactedText
<1>5. result' \in Seq(Character)
  BY <1>1, <1>2, <1>3, <1>4
<1> QED
  BY <1>1, <1>5, CallMoves

LEMMA CallKindsNext == ASSUME CallKinds, Call!Next PROVE CallKinds'
<1>1. ASSUME Call!Return PROVE CallKinds'
  BY <1>1 DEF Call!Return, Call!End, CallKinds, CallSecrets
<1> QED
  BY <1>1, CallKindsDown, CallKindsHandle, CallKindsUp DEF Call!Next

LEMMA CallMean == ASSUME CallKinds PROVE Call!TypeOK
<1>1. Call!Range(result) \subseteq 0..Length
  <2>1. result \in Seq(Character)
    BY DEF CallKinds
  <2>2. \A i \in DOMAIN result : result[i] \in Character
    BY <2>1
  <2> QED
    BY <2>2 DEF Call!Range, Character
<1> QED
  BY <1>1 DEF CallKinds, Call!TypeOK

(* ---- the types in their home ------------------------------------------------------- *)

\* What the parts keep, as far as their types rest on it.
HomeKinds ==
  /\ At("vault") => VaultKinds
  /\ At("credentials") => CredInv
  /\ At("lists") => ListInv /\ ListKinds
  /\ At("approvals") => GrantInv
  /\ At("rules") => RuleInv /\ RuleKinds
  /\ At("patches") => PassInv /\ PatchKinds
  /\ At("call") => CallKinds
  /\ At("reports") => ReportInv /\ ReportKinds

LEMMA HomeKindsInit == ASSUME Init PROVE HomeKinds
<1>1. /\ Vault!Init /\ Approval!Init /\ Rules!Init /\ Report!Init /\ Credentials!Init /\ Lists!Init /\ Patch!Init
      /\ At("call") => Call!Init
  BY DEF Init
<1>2. VaultKinds /\ CredInv /\ GrantInv
  BY <1>1, VaultKindsInit, CredInit, GrantInit
<1>3. ListInv /\ ListKinds /\ RuleInv /\ RuleKinds
  BY <1>1, ListInit, ListKindsInit, RuleInit, RuleKindsInit
<1>4. PassInv /\ PatchKinds /\ ReportInv /\ ReportKinds
  BY <1>1, PassInit, PatchKindsInit, ReportInit, ReportKindsInit
<1>5. At("call") => CallKinds
  BY <1>1, CallKindsInit
<1> QED
  BY <1>2, <1>3, <1>4, <1>5 DEF HomeKinds

\* The part at work takes its steps, and stays at work.
LEMMA PartSteps ==
  ASSUME [Next]_homeVars
  PROVE  /\ part' = part
         /\ At("vault") => Vault!Next \/ UNCHANGED vaultVars
         /\ At("credentials") => Credentials!Next \/ UNCHANGED credVars
         /\ At("lists") => Lists!Next \/ UNCHANGED listVars
         /\ At("approvals") => Approval!Next \/ UNCHANGED approvalVars
         /\ At("rules") => Rules!Next \/ UNCHANGED ruleVars
         /\ At("patches") => Patch!Next \/ UNCHANGED patchVars
         /\ At("call") => Call!Next \/ UNCHANGED callVars
         /\ At("reports") => Report!Next \/ UNCHANGED reportVars
BY Zenon DEF Next, homeVars

LEMMA HomeKindsNext == ASSUME HomeKinds, [Next]_homeVars PROVE HomeKinds'
<1>1. part' = part
  BY PartSteps
<1>2. ASSUME At("vault") PROVE VaultKinds'
  <2>1. VaultKinds /\ (Vault!Next \/ UNCHANGED vaultVars)
    BY <1>2, PartSteps DEF HomeKinds
  <2>2. ASSUME UNCHANGED vaultVars PROVE VaultKinds'
    BY <2>1, <2>2 DEF VaultKinds, VaultTyped, VaultData, OwnFile, Vault!Me, vaultVars
  <2> QED
    BY <2>1, <2>2, VaultKindsNext
<1>3. ASSUME At("credentials") PROVE CredInv'
  BY <1>3, PartSteps, CredNext DEF HomeKinds
<1>4. ASSUME At("lists") PROVE ListInv' /\ ListKinds'
  <2>1. ListInv /\ ListKinds /\ (Lists!Next \/ UNCHANGED listVars)
    BY <1>4, PartSteps DEF HomeKinds
  <2>2. ListInv'
    BY <1>1, <1>4, <2>1, ListsKeep DEF At
  <2>3. ASSUME UNCHANGED listVars PROVE ListKinds'
    BY <2>1, <2>3 DEF ListKinds, listVars
  <2> QED
    BY <2>1, <2>2, <2>3, ListKindsNext
<1>5. ASSUME At("approvals") PROVE GrantInv'
  BY <1>5, PartSteps, GrantNext DEF HomeKinds
<1>6. ASSUME At("rules") PROVE RuleInv' /\ RuleKinds'
  BY <1>6, PartSteps, RuleNext, RuleKindsNext DEF HomeKinds
<1>7. ASSUME At("patches") PROVE PassInv' /\ PatchKinds'
  BY <1>7, PartSteps, PassStep, PatchKindsNext DEF HomeKinds
<1>8. ASSUME At("call") PROVE CallKinds'
  <2>1. CallKinds /\ (Call!Next \/ UNCHANGED callVars)
    BY <1>8, PartSteps DEF HomeKinds
  <2>2. ASSUME UNCHANGED callVars PROVE CallKinds'
    BY <2>1, <2>2 DEF CallKinds, CallSecrets, callVars
  <2> QED
    BY <2>1, <2>2, CallKindsNext
<1>9. ASSUME At("reports") PROVE ReportInv' /\ ReportKinds'
  <2>1. ReportInv /\ ReportKinds /\ (Report!Next \/ UNCHANGED reportVars)
    BY <1>9, PartSteps DEF HomeKinds
  <2>2. ReportInv'
    BY <1>1, <1>9, <2>1, ReportsKeep DEF At
  <2> QED
    BY <2>1, <2>2, ReportKindsNext
<1>10. \A p : At(p)' <=> At(p)
  BY <1>1 DEF At
<1> QED
  BY <1>2, <1>3, <1>4, <1>5, <1>6, <1>7, <1>8, <1>9, <1>10 DEF HomeKinds

LEMMA HomeKindsMean == ASSUME HomeKinds PROVE TypeOK
BY VaultKindsMean, CredMean, ListKindsMean, GrantMeans, RuleKindsMean, PatchKindsMean, CallMean, ReportKindsMean
   DEF HomeKinds, TypeOK

\* For any processes and any bounds: the files, what the processes hold of them
\* and a call on its way have the values they are to have. Whoever has no file
\* open finds one free for vault.tmp, a key never runs ahead of the uses, a mtime
\* never ahead of the clock, a list is in its file once per pattern, a patch is
\* not both whole and edited, and a result consists of what the tool returned
\* and of placeholders, however its secrets overlap.
THEOREM TypesHold == Spec => []TypeOK
<1>1. Init => HomeKinds
  BY HomeKindsInit
<1>2. HomeKinds /\ [Next]_homeVars => HomeKinds'
  BY HomeKindsNext
<1>3. HomeKinds => TypeOK
  BY HomeKindsMean
<1> QED
  BY <1>1, <1>2, <1>3, PTL DEF Spec
=============================================================================
