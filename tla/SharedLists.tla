---------------------------- MODULE SharedLists ----------------------------
(***************************************************************************)
(* The small JSON files in ~/.hermes-aegis that commands and the circuit   *)
(* breaker edit and others read: the domain allowlist, the LAN allowlist   *)
(* with the sandbox profile made from it, the settings, and the blocklist. *)
(* One file is followed, of a kind chosen at the start.                    *)
(*                                                                         *)
(* An edit reads the file, changes its copy, truncates the file and writes *)
(* the copy. The proxy keeps a copy of its own, which it reads again when  *)
(* the time of modification is not the one it remembers; it asks for that  *)
(* time after it has read. Nobody takes a lock. The listClock stands for the   *)
(* granularity of these times.                                             *)
(***************************************************************************)
EXTENDS Integers, FiniteSets

CONSTANTS
  Editor,                     \* processes that edit
  Item,                       \* hosts, endpoints, settings
  Kinds,                      \* kinds of file to follow
  MaxListEdits, MaxListClock, MaxListKills  \* bounds

VARIABLES
  kind,       \* "domains", "lan", "settings" or "blocklist"
  list,       \* the file: [there, torn, items, mtime]
  profile,    \* endpoints in sandbox.sb
  editor,     \* [Editor -> its step and the locals of its command]
  asker,      \* the object the proxy asks: [step, items, mtime]
  listClock, listEdits, listKills,  \* bounds
  wanted,     \* history: the items, if the edits had been executed in turn
  crossed,    \* history: two edits overlapped, or one was killed as it saved
  raced       \* history: the file changed unseen, between the proxy's read and
              \* its stat, or within the time it remembers

listVars == <<kind, list, profile, editor, asker, listClock, listEdits, listKills, wanted, crossed, raced>>

-----------------------------------------------------------------------------
Rest == [step |-> "rest", op |-> "none", todo |-> {}, items |-> {}]
Ed(e) == editor[e]
Editing(e) == Ed(e).step # "rest"
Nobody == \A e \in Editor : ~Editing(e)
Set(e, me) == editor' = [editor EXCEPT ![e] = me]
Step(e, step) == Set(e, [Ed(e) EXCEPT !.step = step])

\* The constructor reads what is there: nothing, or text that is no list, is
\* the empty list (the defaults, for settings).
Items == IF list.there /\ ~list.torn THEN list.items ELSE {}

Init ==
  /\ kind \in Kinds
  /\ list \in {[there |-> FALSE, torn |-> FALSE, items |-> {}, mtime |-> 0]}
           \cup {[there |-> TRUE, torn |-> FALSE, items |-> {i}, mtime |-> 1] : i \in Item}
  /\ profile = list.items
  /\ editor = [e \in Editor |-> Rest]
  /\ asker = [step |-> "rest", items |-> {}, mtime |-> 0]
  /\ listClock = 1 /\ listEdits = 0 /\ listKills = 0
  /\ wanted = list.items
  /\ crossed = FALSE /\ raced = FALSE

Same == UNCHANGED <<kind, listClock>>

(* ---- commands ------------------------------------------------------------ *)

Edit(e, op, todo) ==
  /\ ~Editing(e) /\ listEdits < MaxListEdits
  /\ listEdits' = listEdits + 1
  /\ crossed' = (crossed \/ ~Nobody)
  /\ Set(e, [Rest EXCEPT !.step = "load", !.op = op, !.todo = todo])
  /\ Same /\ UNCHANGED <<list, profile, asker, listKills, wanted, raced>>

\* allowlist add, lan add, config set, block_domain; add-provider and
\* sync-from-hermes add several one after the other, with one object.
Add(e, i) == Edit(e, "add", {i})
AddSeveral(e) == kind = "domains" /\ Edit(e, "add", Item)

\* The one of install, which leaves an existing file alone.
AutoSync(e) == kind = "domains" /\ ~list.there /\ Edit(e, "add", Item)

\* allowlist remove, lan remove, and shrink_allowlist.
Remove(e, i) == kind \in {"domains", "lan"} /\ Edit(e, "remove", {i})
Shrink(e, i) == kind = "domains" /\ Edit(e, "shrink", {i})

(* ---- load, change, save --------------------------------------------------- *)

\* Faulty variant: a file that cannot be loaded was never looked at.
LoadNothing(e) ==
  /\ Ed(e).step = "load"
  /\ Set(e, [Ed(e) EXCEPT !.step = "change", !.items = {}])
  /\ Same /\ UNCHANGED <<list, profile, asker, listEdits, listKills, wanted, crossed, raced>>

Load(e) ==
  /\ Ed(e).step = "load"
  /\ Set(e, [Ed(e) EXCEPT !.step = "change", !.items = Items])
  /\ Same /\ UNCHANGED <<list, profile, asker, listEdits, listKills, wanted, crossed, raced>>

\* Once there is nothing left to do, lan add and a lan remove that removed
\* something regenerate the profile.
Finish(e) == IF kind = "lan" THEN Step(e, "render") ELSE Set(e, Rest)

\* The next item, if there is one; without a change nothing is saved, but for
\* a setting.
Change(e) ==
  /\ Ed(e).step = "change"
  /\ IF Ed(e).todo = {} THEN wanted' = wanted /\ Finish(e)
     ELSE \E i \in Ed(e).todo :
            LET new == IF Ed(e).op = "add" THEN Ed(e).items \cup {i} ELSE Ed(e).items \ {i}
            IN /\ wanted' = IF Ed(e).op = "add" THEN wanted \cup {i} ELSE wanted \ {i}
               /\ IF new # Ed(e).items \/ kind = "settings"
                  THEN Set(e, [Ed(e) EXCEPT !.step = "truncate", !.todo = @ \ {i}, !.items = new])
                  ELSE IF Ed(e).op = "add" THEN Set(e, [Ed(e) EXCEPT !.todo = @ \ {i}])
                  ELSE Set(e, Rest)
  /\ Same /\ UNCHANGED <<list, profile, asker, listEdits, listKills, crossed, raced>>

\* The proxy cannot notice a change after its read and before its stat, or at
\* the time it remembers.
Touched == raced' = (raced \/ asker.step = "stat" \/ asker.mtime = listClock)

Truncate(e) ==
  /\ Ed(e).step = "truncate"
  /\ list' = [there |-> TRUE, torn |-> TRUE, items |-> {}, mtime |-> listClock]
  /\ Touched
  /\ Step(e, "write")
  /\ Same /\ UNCHANGED <<profile, asker, listEdits, listKills, wanted, crossed>>

Write(e) ==
  /\ Ed(e).step = "write"
  /\ list' = [there |-> TRUE, torn |-> FALSE, items |-> Ed(e).items, mtime |-> listClock]
  /\ Touched
  /\ Step(e, "change")
  /\ Same /\ UNCHANGED <<profile, asker, listEdits, listKills, wanted, crossed>>

(* ---- the sandbox profile --------------------------------------------------- *)

\* The list is read once more.
Render(e) ==
  /\ Ed(e).step = "render"
  /\ Set(e, [Ed(e) EXCEPT !.step = "generate", !.items = Items])
  /\ Same /\ UNCHANGED <<list, profile, asker, listEdits, listKills, wanted, crossed, raced>>

Generate(e) ==
  /\ Ed(e).step = "generate"
  /\ profile' = Ed(e).items
  /\ Set(e, Rest)
  /\ Same /\ UNCHANGED <<list, asker, listEdits, listKills, wanted, crossed, raced>>

\* Whoever dies before the file is truncated has changed nothing, and after it
\* was saved only owes the profile.
Unfinished == {"truncate", "write", "render", "generate"} \cup IF kind = "lan" THEN {"change"} ELSE {}
Kill(e) ==
  /\ Editing(e) /\ listKills < MaxListKills
  /\ listKills' = listKills + 1
  /\ crossed' = (crossed \/ Ed(e).step \in Unfinished)
  /\ Set(e, Rest)
  /\ Same /\ UNCHANGED <<list, profile, asker, listEdits, wanted, raced>>

(* ---- the proxy: is_allowed, Settings.get ----------------------------------- *)

\* Nothing keeps a copy of the LAN allowlist, and nothing reads the blocklist.
Ask ==
  /\ kind \in {"domains", "settings"}
  /\ asker.step = "rest" /\ list.there /\ list.mtime # asker.mtime
  /\ asker' = [asker EXCEPT !.step = "read"]
  /\ Same /\ UNCHANGED <<list, profile, editor, listEdits, listKills, wanted, crossed, raced>>

\* Faulty variant: what was read is added to what was known.
ReloadAdds ==
  /\ asker.step = "read"
  /\ asker' = [asker EXCEPT !.step = IF list.torn THEN "rest" ELSE "stat", !.items = @ \cup Items]
  /\ raced' = (raced /\ list.torn)
  /\ Same /\ UNCHANGED <<list, profile, editor, listEdits, listKills, wanted, crossed>>

\* The time of a file that cannot be parsed is not remembered, so that it is
\* read again.
Reload ==
  /\ asker.step = "read"
  /\ asker' = [asker EXCEPT !.step = IF list.torn THEN "rest" ELSE "stat", !.items = Items]
  /\ raced' = (raced /\ list.torn)
  /\ Same /\ UNCHANGED <<list, profile, editor, listEdits, listKills, wanted, crossed>>

Stat ==
  /\ asker.step = "stat"
  /\ asker' = [asker EXCEPT !.step = "rest", !.mtime = list.mtime]
  /\ Same /\ UNCHANGED <<list, profile, editor, listEdits, listKills, wanted, crossed, raced>>

Tick ==
  /\ listClock < MaxListClock
  /\ listClock' = listClock + 1
  /\ UNCHANGED <<kind, list, profile, editor, asker, listEdits, listKills, wanted, crossed, raced>>

-----------------------------------------------------------------------------
Next ==
  \/ \E e \in Editor :
       \/ \E i \in Item : Add(e, i) \/ Remove(e, i) \/ Shrink(e, i)
       \/ AddSeveral(e) \/ AutoSync(e)
       \/ Load(e) \/ Change(e) \/ Truncate(e) \/ Write(e)
       \/ Render(e) \/ Generate(e) \/ Kill(e)
  \/ Ask \/ Reload \/ Stat \/ Tick

Spec == Init /\ [][Next]_listVars

-----------------------------------------------------------------------------
TypeOK ==
  /\ kind \in {"domains", "lan", "settings", "blocklist"}
  /\ list.items \subseteq Item /\ list.mtime \in 0..listClock /\ (list.torn => list.there)
  /\ profile \subseteq Item /\ wanted \subseteq Item
  /\ \A e \in Editor : Ed(e).items \subseteq Item /\ Ed(e).todo \subseteq Item
  /\ asker.step \in {"rest", "read", "stat"} /\ asker.items \subseteq Item /\ asker.mtime \in 0..listClock

\* Edits in turn are all in the file, and the endpoints of the LAN allowlist in
\* the sandbox profile too: one is lost only if it overlapped another, or the
\* file was torn by one that was killed.
EditsKept ==
  (Nobody /\ ~crossed) => Items = wanted /\ (kind = "lan" => profile = Items)

\* The proxy acts on the list as it is whenever it takes its copy to be current,
\* but for changes it could not notice; a copy of a file read while it was
\* written is never taken to be current.
ProxyCurrent ==
  (asker.step = "rest" /\ list.there /\ asker.mtime = list.mtime /\ ~raced)
    => (~list.torn /\ asker.items = list.items)
=============================================================================
