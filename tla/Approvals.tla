----------------------------- MODULE Approvals -----------------------------
(***************************************************************************)
(* Approvals of dangerous commands: the backend of a session, wrapped with *)
(* the cache that all processes keep in approval-cache.json                *)
(* (approval/backends.py, approval/cache.py), and the approvals commands.  *)
(*                                                                         *)
(* A session reads the file when it starts and works on that copy. A       *)
(* command reads the file, and writes it in a second step. The file is     *)
(* written in one step here: a reader in the midst of a write is treated   *)
(* in SharedLists. What the backend answers is a choice.                   *)
(*                                                                         *)
(* A command is a sequence of words, and so is a pattern, in which "*" and *)
(* "?" are fnmatch's; its brackets are left out. A word may as well be a   *)
(* character: nothing depends on what it is.                               *)
(***************************************************************************)
EXTENDS Sublists, Functions

CONSTANTS
  Session,                    \* processes with a backend
  Command,                    \* commands to be approved
  Phrase,                     \* patterns the commands add and remove
  TTL,                        \* times to live: approval_cache_ttl and --ttl
  MaxAskTime, MaxAsks         \* bounds: the clock; requests and commands

Nothing == <<>>               \* as a pattern it matches every command
Pattern == Command \cup Phrase \cup {Nothing}
Never == 0                    \* expires_at of an entry that does not expire

VARIABLES
  cache,     \* the entries in the file, a sequence of [pattern, decision, until]
  mine,      \* [sessions that have started -> their entries]
  asked,     \* [Session -> the command its backend is asked about, or Nothing]
  revising,  \* the approvals command at work: [op, entry, entries]
  askClock, asks,  \* bounds
  granted,   \* history: the allow entries added and not taken back
  overtaken  \* history: one was taken back while a session had a copy of it

approvalVars == <<cache, mine, asked, revising, askClock, asks, granted, overtaken>>

-----------------------------------------------------------------------------
Entry(pattern, decision, until) == [pattern |-> pattern, decision |-> decision, until |-> until]
NoRevision == [op |-> "none", entry |-> Entry(Nothing, "deny", Never), entries |-> <<>>]

\* is_expired: at its time of expiry an entry still holds.
Expired(e) == e.until # Never /\ askClock > e.until

Fresh(entries) == Kept(entries, LAMBDA e : ~Expired(e))
Other(entries, pattern) == Kept(entries, LAMBDA e : e.pattern # pattern)
Patterns(entries) == {e.pattern : e \in Range(entries)}

\* No time to live, or a negative one, is for ever.
Until(ttl) == IF ttl > 0 THEN askClock + ttl ELSE Never

\* Faulty variant: an older entry for the pattern stays, and comes first.
AddedTwice(entries, entry) == Append(entries, entry)

Added(entries, entry) == Append(Other(entries, entry.pattern), entry)

\* fnmatch(): each word of the pattern stands for what lies between two places
\* of the command.
FnMatch(pattern, command) ==
  \E place \in [0..Len(pattern) -> 0..Len(command)] :
    /\ place[0] = 0 /\ place[Len(pattern)] = Len(command)
    /\ \A i \in 1..Len(pattern) :
         IF pattern[i] = "*" THEN place[i - 1] <= place[i]
         ELSE place[i] = place[i - 1] + 1 /\ pattern[i] \in {"?", command[place[i]]}

Within(pattern, command) ==
  \E i \in 0..(Len(command) - Len(pattern)) : SubSeq(command, i + 1, i + Len(pattern)) = pattern

\* The pattern itself, as a glob, or, if it has no wildcard, as a substring: the
\* leave that was given for one command may be used for another.
Matches(pattern, command) ==
  \/ pattern = command
  \/ FnMatch(pattern, command)
  \/ Range(pattern) \cap {"*", "?"} = {} /\ Within(pattern, command)

\* The first entry that matches decides.
Hits(entries, command) == {i \in DOMAIN entries : Matches(entries[i].pattern, command)}
First(entries, command) == entries[CHOOSE i \in Hits(entries, command) :
                                     \A j \in Hits(entries, command) : i <= j]
Allows(entries, command) ==
  Hits(entries, command) # {} /\ First(entries, command).decision = "allow"

Init ==
  /\ cache = <<>>
  /\ mine = [s \in {} |-> <<>>]
  /\ asked = [s \in Session |-> Nothing]
  /\ revising = NoRevision
  /\ askClock = 1 /\ asks = 0
  /\ granted = {} /\ overtaken = FALSE

Count == asks < MaxAsks /\ asks' = asks + 1
Started(s) == s \in DOMAIN mine

(* ---- a session ------------------------------------------------------------ *)

Start(s) ==
  /\ ~Started(s)
  /\ mine' = [t \in DOMAIN mine \cup {s} |-> IF t = s THEN cache ELSE mine[t]]
  /\ UNCHANGED <<cache, asked, revising, askClock, asks, granted, overtaken>>

\* Faulty variant: what has expired is found like the rest.
RequestAll(s, c) ==
  /\ Started(s) /\ asked[s] = Nothing /\ Count
  /\ asked' = [asked EXCEPT ![s] = IF Allows(mine[s], c) THEN Nothing ELSE c]
  /\ UNCHANGED <<cache, mine, revising, askClock, granted, overtaken>>

\* check() drops what has expired, and saves when it dropped something. A
\* cached leave is the answer, anything else goes to the backend.
Request(s, c) ==
  LET entries == Fresh(mine[s])
  IN /\ Started(s) /\ asked[s] = Nothing /\ Count
     /\ mine' = [mine EXCEPT ![s] = entries]
     /\ cache' = IF Len(entries) < Len(mine[s]) THEN entries ELSE cache
     /\ asked' = [asked EXCEPT ![s] = IF Allows(entries, c) THEN Nothing ELSE c]
     /\ UNCHANGED <<revising, askClock, granted, overtaken>>

\* block refuses, log_only approves, a webhook approves, refuses, runs into
\* its timeout or fails: only leave is cached.
Approve(s, ttl) ==
  LET entry == Entry(asked[s], "allow", Until(ttl))
  IN /\ asked[s] # Nothing
     /\ mine' = [mine EXCEPT ![s] = Added(@, entry)]
     /\ cache' = mine'[s]
     /\ granted' = granted \cup {entry}
     /\ asked' = [asked EXCEPT ![s] = Nothing]
     /\ UNCHANGED <<revising, askClock, asks, overtaken>>

Refuse(s) ==
  /\ asked[s] # Nothing
  /\ asked' = [asked EXCEPT ![s] = Nothing]
  /\ UNCHANGED <<cache, mine, revising, askClock, asks, granted, overtaken>>

(* ---- the approvals commands, one at a time ---------------------------------- *)

Revise(op, entry) ==
  /\ revising.op = "none" /\ Count
  /\ revising' = [op |-> op, entry |-> entry, entries |-> cache]
  /\ UNCHANGED <<cache, mine, asked, askClock, granted, overtaken>>

\* approvals add, remove, clear and list, which drops what has expired.
Revisions ==
  \/ \E p \in Phrase, d \in {"allow", "deny"}, ttl \in TTL :
       Revise("add", Entry(p, d, Until(ttl)))
  \/ \E p \in Phrase : Revise("remove", Entry(p, "deny", Never))
  \/ \E op \in {"clear", "list"} : Revise(op, Entry(Nothing, "deny", Never))

\* Nothing is written when nothing changed, but for add and clear.
Revised ==
  CASE revising.op = "add" -> Added(revising.entries, revising.entry)
    [] revising.op = "remove" -> Other(revising.entries, revising.entry.pattern)
    [] revising.op = "clear" -> <<>>
    [] OTHER -> Fresh(revising.entries)

SaveRevised ==
  LET gone == Patterns(revising.entries) \ Patterns(Revised)
      back == {g \in granted : \/ g.pattern \in gone
                               \/ revising.op = "add" /\ g.pattern = revising.entry.pattern}
  IN /\ revising.op # "none"
     /\ cache' = IF Len(Revised) = Len(revising.entries) /\ revising.op \in {"remove", "list"}
                 THEN cache ELSE Revised
     /\ granted' = (granted \ back)
                     \cup IF revising.op = "add" /\ revising.entry.decision = "allow"
                          THEN {revising.entry} ELSE {}
     /\ overtaken' = \/ overtaken
                     \/ cache # revising.entries
                     \/ \E s \in Session : Started(s) /\ {g.pattern : g \in back} \cap Patterns(mine[s]) # {}
     /\ revising' = NoRevision
     /\ UNCHANGED <<mine, asked, askClock, asks>>

Tick ==
  /\ askClock < MaxAskTime
  /\ askClock' = askClock + 1
  /\ UNCHANGED <<cache, mine, asked, revising, asks, granted, overtaken>>

-----------------------------------------------------------------------------
Next ==
  \/ \E s \in Session :
       \/ Start(s) \/ Refuse(s)
       \/ \E ttl \in TTL : Approve(s, ttl)
       \/ \E c \in Command : Request(s, c)
  \/ Revisions \/ SaveRevised \/ Tick

Spec == Init /\ [][Next]_approvalVars

-----------------------------------------------------------------------------
TypeOK ==
  LET Listed(entries) ==
        /\ \A e \in Range(entries) : e.pattern \in Pattern /\ e.decision \in {"allow", "deny"}
        /\ Cardinality(Patterns(entries)) = Len(entries)
  IN /\ Listed(cache) /\ \A s \in Session : Started(s) => Listed(mine[s])
     /\ \A s \in Session : asked[s] \in Command \cup {Nothing}

\* A command is let through by the cache only while a leave for it lasts that a
\* user or a backend has given and nobody has taken back, whatever other
\* processes have written into the file; unless a session had it in its copy
\* when it was taken back.
CachedWithinGrant ==
  \A s \in Session, c \in Command :
    (Request(s, c) /\ asked'[s] = Nothing /\ ~overtaken)
      => \E g \in granted : Matches(g.pattern, c) /\ ~Expired(g)
=============================================================================
