------------------------------- MODULE Patches -------------------------------
(***************************************************************************)
(* The patches of hermes-agent's source: patches.py, the SemanticPatch of  *)
(* patching/semantic_patch.py, and the commands that apply and revert      *)
(* them, install, update, run and uninstall of cli.py.                     *)
(*                                                                         *)
(* Files are patched independently, so a behaviour follows one of them.    *)
(* What matters of a text is which upstream version it is, which patches'  *)
(* targets it has and which patches' texts it contains.  A patch is one    *)
(* read and one write of the file, and a write truncates the file first;   *)
(* nothing is locked.                                                      *)
(***************************************************************************)
EXTENDS Integers, Sequences, FiniteSets

CONSTANTS
  Process,                                             \* hermes-aegis processes
  PatchedFiles,                                        \* the files followed
  MaxLacking,                           \* targets a version of hermes may lack
  MaxPatchCommands, MaxVersion, MaxEdits, MaxPatchCrashes   \* bounds

\* sentinelIn: the patches whose text contains this one's sentinel.
Patch(name) == [name |-> name, sentinelIn |-> {name}]

DockerPatches == <<
  [Patch("docker_exec_proxy_translate") EXCEPT !.sentinelIn = @ \cup {"docker_network_isolation"}],
  Patch("docker_network_isolation"), Patch("docker_cert_mount"), Patch("docker_cert_system_trust") >>
TerminalPatches ==
  << Patch("terminal_description_neutral_env"), Patch("terminal_tool_container_handshake") >>
BrowserPatches ==
  << Patch("browser_tool_ignore_https_errors"), Patch("browser_tool_strip_proxy_env") >>
UpdatePatches == << Patch("hermes_update_aegis_repatch") >>
LocalPatches == << Patch("local_sandbox_exec"), Patch("local_sandbox_path_preference") >>
GatewayPatches == << Patch("gateway_sandbox_startup_env") >>
CliPatches == << Patch("cli_sandbox_terminal_override") >>
BaseEnvPatches == << Patch("base_env_sandbox_terminal_override") >>

Files == {"docker.py", "terminal_tool.py", "browser_tool.py", "main.py",
          "local.py", "run.py", "cli.py", "hermes_base_env.py"}

VARIABLES
  file,      \* the file followed
  text,      \* its text
  bytecode,  \* what __pycache__ has: none, that of the text, or that of an old one
  latest,    \* the upstream version hermes update installed last
  proc,      \* [Process -> its step and the locals of its command]
  patchCommands, edits, patchCrashes   \* bounds

patchVars == <<file, text, bytecode, latest, proc, patchCommands, edits, patchCrashes>>

-----------------------------------------------------------------------------
\* Those of the file, in the order of _PATCHES.
Patches ==
  CASE file = "docker.py" -> DockerPatches
    [] file = "terminal_tool.py" -> TerminalPatches
    [] file = "browser_tool.py" -> BrowserPatches
    [] file = "main.py" -> UpdatePatches
    [] file = "local.py" -> LocalPatches
    [] file = "run.py" -> GatewayPatches
    [] file = "cli.py" -> CliPatches
    [] file = "hermes_base_env.py" -> BaseEnvPatches
Names == {Patches[i].name : i \in DOMAIN Patches}

\* edited: patches whose text was changed by hand, all but the sentinel.
Upstream(version, targets) ==
  [version |-> version, targets |-> targets, has |-> {}, edited |-> {}]
Released(version) ==
  {Upstream(version, ts) : ts \in {s \in SUBSET Names : Cardinality(Names \ s) <= MaxLacking}}
Empty == Upstream(0, {})
Rewrite(t) == text' = t /\ bytecode' = IF bytecode = "none" THEN "none" ELSE "old"

HasSentinel(content, p) == p.sentinelIn \cap (content.has \cup content.edited) # {}
HasTarget(content, p) == p.name \in content.targets

Status(content, p) ==
  IF HasSentinel(content, p) THEN "already_applied"
  ELSE IF HasTarget(content, p) THEN "skipped" ELSE "incompatible"

\* alone is a history: nobody else touched the file since the command began.
Rest == [step |-> "idle", op |-> "none", i |-> 0, content |-> Empty, missing |-> FALSE,
         alone |-> TRUE]
Me(c) == proc[c]
Working(c) == Me(c).step # "idle"
This(c) == Patches[Me(c).i]
Become(c, me) == proc' = [proc EXCEPT ![c] = me]

Init ==
  /\ file \in PatchedFiles
  /\ text \in Released(1)
  /\ bytecode = "none" /\ latest = 1
  /\ proc = [c \in Process |-> Rest]
  /\ patchCommands = 0 /\ edits = 0 /\ patchCrashes = 0

(* ---- commands ---------------------------------------------------------- *)

Command(c, op, step, i) ==
  /\ ~Working(c) /\ patchCommands < MaxPatchCommands
  /\ patchCommands' = patchCommands + 1
  /\ LET alone == \A d \in Process : ~Working(d)
     IN proc' = [d \in Process |->
          IF d = c THEN [Rest EXCEPT !.step = step, !.op = op, !.i = i, !.alone = alone]
          ELSE IF Working(d) THEN [proc[d] EXCEPT !.alone = FALSE] ELSE proc[d]]
  /\ UNCHANGED <<file, text, bytecode, latest, edits, patchCrashes>>

Install(c) == Command(c, "apply", "read", 1)
\* Once the new code is pulled and installed.
Update(c) == Command(c, "apply", "read", 1)
Run(c) == Command(c, "run", "status", 1)
Uninstall(c) == Command(c, "revert", "read", Len(Patches))

\* apply_patches goes through the list, revert_patches backwards.
Following(me) == IF me.op = "revert" THEN me.i - 1 ELSE me.i + 1
Done(me) == Following(me) \notin DOMAIN Patches
NextPatch(me) == IF Done(me) THEN Rest ELSE [me EXCEPT !.step = "read", !.i = Following(me), !.content = Empty]

\* Faulty variant: what counts is the last patch.
ReadStatusLast(c) ==
  LET me == Me(c)
      missing == Status(text, This(c)) = "skipped"
  IN /\ me.step = "status"
     /\ Become(c, IF ~Done(me) THEN [me EXCEPT !.i = @ + 1]
                  ELSE IF missing THEN [me EXCEPT !.step = "read", !.op = "apply", !.i = 1]
                  ELSE Rest)
     /\ UNCHANGED <<file, text, bytecode, latest, patchCommands, edits, patchCrashes>>

\* patches_status, one patch; run applies all once one of them is skipped.
ReadStatus(c) ==
  LET me == Me(c)
      missing == me.missing \/ Status(text, This(c)) = "skipped"
  IN /\ me.step = "status"
     /\ Become(c, IF ~Done(me) THEN [me EXCEPT !.i = @ + 1, !.missing = missing]
                  ELSE IF missing THEN [me EXCEPT !.step = "read", !.op = "apply", !.i = 1,
                                                  !.missing = FALSE]
                  ELSE Rest)
     /\ UNCHANGED <<file, text, bytecode, latest, patchCommands, edits, patchCrashes>>

(* ---- FilePatch and SemanticPatch: apply and revert ---------------------- *)

\* Where apply goes after it has read the file: the patch is there, its target
\* is not, or it is to be written.  Faulty variant: it is written whether the
\* target is there or not.
ApplyPlanBlindly(content, p) ==
  IF Status(content, p) = "already_applied" THEN "invalidate" ELSE "truncate"

ApplyPlan(content, p) ==
  CASE Status(content, p) = "already_applied" -> "invalidate"
    [] Status(content, p) = "incompatible" -> "next"
    [] OTHER -> "truncate"

\* revert writes if it finds the patch's text, verbatim.
RevertPlan(content, p) == IF p.name \in content.has THEN "truncate" ELSE "next"

Applied(content, p) == [content EXCEPT !.has = @ \cup {p.name}]
Reverted(content, p) == [content EXCEPT !.has = @ \ {p.name}]

Read(c) ==
  LET me == Me(c)
      plan == IF me.op = "apply" THEN ApplyPlan(text, This(c)) ELSE RevertPlan(text, This(c))
  IN /\ me.step = "read"
     /\ Become(c, IF plan = "next" THEN NextPatch(me)
                  ELSE [me EXCEPT !.step = plan, !.content = IF plan = "truncate" THEN text ELSE Empty])
     /\ UNCHANGED <<file, text, bytecode, latest, patchCommands, edits, patchCrashes>>

Truncate(c) ==
  /\ Me(c).step = "truncate"
  /\ Rewrite(Empty)
  /\ Become(c, [Me(c) EXCEPT !.step = "write"])
  /\ UNCHANGED <<file, latest, patchCommands, edits, patchCrashes>>

Write(c) ==
  /\ Me(c).step = "write"
  /\ Rewrite(IF Me(c).op = "apply" THEN Applied(Me(c).content, This(c))
             ELSE Reverted(Me(c).content, This(c)))
  /\ Become(c, [Me(c) EXCEPT !.step = "invalidate", !.content = Empty])
  /\ UNCHANGED <<file, latest, patchCommands, edits, patchCrashes>>

Invalidate(c) ==
  /\ Me(c).step = "invalidate"
  /\ bytecode' = "none"
  /\ Become(c, NextPatch(Me(c)))
  /\ UNCHANGED <<file, text, latest, patchCommands, edits, patchCrashes>>

CrashPatching(c) ==
  /\ Working(c) /\ patchCrashes < MaxPatchCrashes
  /\ patchCrashes' = patchCrashes + 1
  /\ Become(c, Rest)
  /\ UNCHANGED <<file, text, bytecode, latest, patchCommands, edits>>

(* ---- hermes and its user ------------------------------------------------ *)

\* Imported, a module without bytecode is compiled; what bytecode there is
\* may be used (its check of the source is by the second).
Import ==
  /\ bytecode = "none"
  /\ bytecode' = "current"
  /\ UNCHANGED <<file, text, latest, proc, patchCommands, edits, patchCrashes>>

\* hermes update pulls a version with targets of its own.
HermesUpdate ==
  /\ latest < MaxVersion
  /\ latest' = latest + 1
  /\ text' \in Released(latest + 1)
  /\ bytecode' = "none"
  /\ proc' = [c \in Process |-> [proc[c] EXCEPT !.alone = @ /\ ~Working(c)]]
  /\ UNCHANGED <<file, patchCommands, edits, patchCrashes>>

\* The user edits a patch's lines; not while they are being patched.
Edit ==
  /\ edits < MaxEdits /\ \A c \in Process : ~Working(c)
  /\ edits' = edits + 1
  /\ \E n \in text.has :
       text' = [text EXCEPT !.has = @ \ {n}, !.edited = @ \cup {n}]
  /\ bytecode' = "none"
  /\ UNCHANGED <<file, latest, proc, patchCommands, patchCrashes>>

-----------------------------------------------------------------------------
Next ==
  \/ \E c \in Process :
       \/ Install(c) \/ Update(c) \/ Run(c) \/ Uninstall(c)
       \/ ReadStatus(c) \/ Read(c) \/ Truncate(c) \/ Write(c) \/ Invalidate(c)
       \/ CrashPatching(c)
  \/ Import \/ HermesUpdate \/ Edit

Spec == Init /\ [][Next]_patchVars

-----------------------------------------------------------------------------
TypeOK ==
  /\ file \in PatchedFiles /\ latest \in 1..MaxVersion /\ bytecode \in {"none", "current", "old"}
  /\ \A t \in {text} \cup {proc[c].content : c \in Process} :
       /\ t.version \in 0..MaxVersion
       /\ t.targets \cup t.has \cup t.edited \subseteq Names /\ t.has \cap t.edited = {}
  /\ \A c \in Process :
       /\ proc[c].step \in {"idle", "status", "read", "truncate", "write", "invalidate"}
       /\ Working(c) => proc[c].i \in DOMAIN Patches

Quiet == \A c \in Process : ~Working(c)

\* Processes that patch one file at a time, or at the same time, leave a
\* source file: whoever finds it truncated by another does not write it back
\* so.  Only a crash between truncation and write loses it.
SourceIntact == (Quiet /\ patchCrashes = 0) => text.version > 0

EndsAlone(c) ==
  proc[c].alone /\ Working(c) /\ proc'[c] = Rest /\ patchCrashes' = patchCrashes

\* A pass that nobody disturbs does all there is to do, whatever earlier ones,
\* crashes and edits have left: apply, or run that found a patch missing,
\* leaves no patch out whose target is there, and revert leaves only what was
\* edited. After install, hermes runs the patched text, even if an earlier one was
\* killed between writing the file and clearing the bytecode ("a previous install
\* may have written the .py patch but not cleared the bytecode cache").
AlonePassCompletes ==
  \A c \in Process : EndsAlone(c) =>
    /\ IF proc[c].op = "revert" THEN text'.has = {}
       ELSE \A i \in DOMAIN Patches : Status(text', Patches[i]) # "skipped"
    /\ proc[c].op = "apply" /\ text'.has # {} => bytecode' # "old"
=============================================================================
