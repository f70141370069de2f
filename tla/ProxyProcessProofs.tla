-------------------------- MODULE ProxyProcessProofs --------------------------
(***************************************************************************)
(* What the commands on proxies promise, for any number of sessions,       *)
(* watchdogs, shells, commands, ports and mitmdumps.                       *)
(*                                                                         *)
(* A stop leaves none of the proxies that ran when it was asked for.       *)
(* stop_proxy reads the PID file, which others rewrite and unlink at any   *)
(* time, so that nothing follows from its first kill. The argument rests   *)
(* on the sweep: what ran before is dead or in the list of pgrep, numbers  *)
(* of mitmdumps are only added, and none of the dead comes back.           *)
(*                                                                         *)
(* As long as no command that starts or stops proxies overlaps another,    *)
(* whatever listens is on file, and secrets are on disk only during a      *)
(* start - in any order, with crashes and the ports of other programs.     *)
(* Who is busy is alone so, and each of its steps knows what the files and *)
(* the mitmdumps are like (Stage). Between commands whatever lives is on   *)
(* file and answers (Found). The watchdogs need more, for they start a     *)
(* proxy because their own port is silent, not because they found none:    *)
(* find_available_port takes the first free port, so all ports below one   *)
(* in use were taken by other programs, and are still. A proxy on a port   *)
(* above a watchdog's would answer for it; and none is below (Fits).       *)
(***************************************************************************)
EXTENDS ProxyProcess, WellFoundedInduction, TLAPS

Phases == {"spawned", "read", "loaded", "up", "dead"}
Ops == {"none", "run", "start", "set", "stop", "restart"}
Steps ==
  {"idle", "check", "probe", "config", "spawn", "record", "wait", "retract", "readback", "reuse",
   "serving", "grace", "reprobe", "unwatched", "ended", "stop", "unlink", "sweep", "kill"}
Ports == Port \cup {None}
Record == [pid : Nat, port : Ports, hash : Int]
Mitmdumps == [phase : Phases, port : Ports, has : Int]
ActorState ==
  [step : Steps, op : Ops, rec : Record, secrets : Int, listenPort : Ports,
   port : Ports, pid : Nat, attempt : Nat, targets : SUBSET Nat, before : SUBSET Nat]

TypeOK ==
  /\ procs \in Seq(Mitmdumps)
  /\ secretsNow \in Nat /\ config \in Int /\ pidFile \in Record
  /\ actor \in [Actor -> ActorState]

\* What ran when a stop began has a number, and once pgrep was asked it is
\* dead or will be killed.
StopsSwept ==
  \A a \in Actor :
    /\ actor[a].before \subseteq Pids
    /\ At(a, "kill") => \A p \in actor[a].before : p \in actor[a].targets \/ ~Alive(p)

-----------------------------------------------------------------------------
(* ---- steps ---------------------------------------------------------------- *)

\* No number is taken away, and the dead stay dead.
ProcsGrow ==
  /\ Pids \subseteq Pids'
  /\ \A p \in Pids : ~Alive(p) => ~Alive(p)'

\* Nobody reaches or leaves the killing, or knows more than has a number.
ActorsGoOn ==
  \A a \in Actor :
    /\ actor'[a].before \in {actor[a].before} \cup SUBSET Pids
    /\ actor[a].step = "kill" \/ actor'[a].step = "kill" => actor'[a] = actor[a]

\* Every step but that of the sweep and its killing.
Plain == TypeOK' /\ ProcsGrow /\ ActorsGoOn

\* A step of that kind keeps what a stop knows.
LEMMA PlainKeepsSwept ==
  ASSUME TypeOK, StopsSwept, ProcsGrow, ActorsGoOn
  PROVE  StopsSwept'
<1> SUFFICES ASSUME NEW a \in Actor
             PROVE  /\ actor'[a].before \subseteq Pids'
                    /\ actor'[a].step = "kill" =>
                         \A p \in actor'[a].before : p \in actor'[a].targets \/ ~Alive(p)'
  BY DEF StopsSwept, At
<1>1. actor'[a].before \subseteq Pids
  BY DEF StopsSwept, ActorsGoOn
<1>2. Pids \subseteq Pids'
  BY DEF ProcsGrow
<1>3. ASSUME actor'[a].step = "kill", NEW p \in actor'[a].before
      PROVE  p \in actor'[a].targets \/ ~Alive(p)'
  <2>1. actor'[a] = actor[a]
    BY <1>3 DEF ActorsGoOn
  <2>2. p \in Pids
    BY <1>1, <1>3
  <2>3. p \in actor[a].targets \/ ~Alive(p)
    BY <1>3, <2>1 DEF StopsSwept, At
  <2> QED BY <2>1, <2>2, <2>3 DEF ProcsGrow
<1> QED BY <1>1, <1>2, <1>3

\* An absent number is typed as any other.
LEMMA NoneIs == None \in Ports /\ None \in Nat /\ None \in Int
BY DEF None, Ports

\* Nothing is spawned and nobody comes back to life.
LEMMA SameProcs ==
  ASSUME procs' = procs
  PROVE  ProcsGrow
BY DEF ProcsGrow, Pids, Alive

\* A kill leaves every mitmdump its number, and raises none.
LEMMA KillKeeps ==
  ASSUME procs \in Seq(Mitmdumps), NEW ps, Kill(ps)
  PROVE  /\ procs' \in Seq(Mitmdumps) /\ ProcsGrow
         /\ \A p \in Pids : p \in ps => ~Alive(p)'
<1>1. Dead \in Mitmdumps
  BY NoneIs DEF Dead, Mitmdumps, Phases
<1>2. Len(procs) \in Nat /\ \A p \in Pids : procs[p] \in Mitmdumps
  BY DEF Pids
<1>3. procs' \in [Pids -> Mitmdumps]
  BY <1>1, <1>2 DEF Kill
<1>4. procs' \in Seq(Mitmdumps) /\ Len(procs') = Len(procs)
  BY <1>2, <1>3 DEF Pids
<1>5. \A p \in Pids : procs'[p] = IF p \in ps THEN Dead ELSE procs[p]
  BY DEF Kill
<1> QED BY <1>4, <1>5 DEF ProcsGrow, Alive, Pids, Dead

\* A mitmdump that lives goes on.
LEMMA PhaseKeeps ==
  ASSUME procs \in Seq(Mitmdumps), NEW p \in Pids, Alive(p), NEW m \in Mitmdumps,
         procs' = [procs EXCEPT ![p] = m]
  PROVE  procs' \in Seq(Mitmdumps) /\ ProcsGrow
<1>1. Len(procs) \in Nat /\ procs \in [Pids -> Mitmdumps]
  BY DEF Pids
<1>2. procs' \in [Pids -> Mitmdumps]
  BY <1>1
<1>3. procs' \in Seq(Mitmdumps) /\ Len(procs') = Len(procs)
  BY <1>1, <1>2 DEF Pids
<1>4. \A q \in Pids : q # p => procs'[q] = procs[q]
  BY <1>1
<1> QED BY <1>3, <1>4 DEF ProcsGrow, Alive, Pids

\* An actor's next state, of any kind but the killing.
LEMMA BecomeGoesOn ==
  ASSUME TypeOK, NEW a \in Actor, NEW me \in ActorState, Become(a, me),
         actor[a].step # "kill", me.step # "kill",
         me.before \in {actor[a].before} \cup SUBSET Pids
  PROVE  actor' \in [Actor -> ActorState] /\ ActorsGoOn
<1>1. actor \in [Actor -> ActorState] /\ actor' = [actor EXCEPT ![a] = me]
  BY DEF TypeOK, Become
<1>2. actor'[a] = me /\ \A b \in Actor : b # a => actor'[b] = actor[b]
  BY <1>1
<1> QED BY <1>1, <1>2 DEF ActorsGoOn

\* Nobody has taken a step.
LEMMA SameActors ==
  ASSUME actor' = actor
  PROVE  ActorsGoOn
BY DEF ActorsGoOn

\* An actor between commands knows of no stop.
LEMMA FreshState == Fresh \in ActorState /\ Fresh.before = {}
<1>1. NoFile \in Record
  BY NoneIs DEF NoFile, Record
<1> QED BY <1>1, NoneIs DEF Fresh, ActorState, Steps, Ops

\* An actor goes on to another step.
LEMMA GotoGoesOn ==
  ASSUME TypeOK, NEW a \in Actor, NEW step \in Steps \ {"kill"}, Goto(a, step),
         actor[a].step # "kill"
  PROVE  actor' \in [Actor -> ActorState] /\ ActorsGoOn
<1>1. actor[a] \in ActorState
  BY DEF TypeOK
<1> DEFINE me == [actor[a] EXCEPT !.step = step]
<1>2. me \in ActorState /\ me.step = step /\ me.before = actor[a].before
  BY <1>1 DEF ActorState
<1>3. Become(a, me)
  BY DEF Goto
<1> HIDE DEF me
<1> QED BY <1>2, <1>3, BecomeGoesOn

\* A command ends.
LEMMA EndGoesOn ==
  ASSUME TypeOK, NEW a \in Actor, NEW step \in Steps \ {"kill"}, End(a, step),
         actor[a].step # "kill"
  PROVE  actor' \in [Actor -> ActorState] /\ ActorsGoOn
<1> DEFINE me == [Fresh EXCEPT !.step = step]
<1>1. me \in ActorState /\ me.step = step /\ me.before = {}
  BY FreshState DEF ActorState
<1>2. Become(a, me)
  BY DEF End
<1> HIDE DEF me
<1> QED BY <1>1, <1>2, BecomeGoesOn

\* What lives has a number.
LEMMA LivingArePids == Living \in SUBSET Pids /\ Living \in SUBSET Nat
BY DEF Living, Pids

\* A state that keeps what it knows of a stop, or forgets it.
LEMMA ChangeGoesOn ==
  ASSUME TypeOK, NEW a \in Actor, NEW me \in ActorState, Become(a, me),
         actor[a].step # "kill", me.step # "kill",
         me.before = actor[a].before \/ me.before = {} \/ me.before = Living
  PROVE  actor' \in [Actor -> ActorState] /\ ActorsGoOn
BY BecomeGoesOn, LivingArePids

-----------------------------------------------------------------------------
(* ---- mitmdump ------------------------------------------------------------- *)

\* A mitmdump that reads the configuration lives on.
LEMMA ReadConfigPlain ==
  ASSUME TypeOK, NEW p \in Pids, ReadConfig(p)
  PROVE  Plain
<1> DEFINE m == [procs[p] EXCEPT !.phase = IF config = NoConfig THEN "loaded" ELSE "read",
                                 !.has = IF config = NoConfig THEN None ELSE config]
<1>1. procs[p] \in Mitmdumps /\ procs \in Seq(Mitmdumps) /\ config \in Int
  BY DEF TypeOK, Pids
<1>2. m \in Mitmdumps
  BY <1>1, NoneIs DEF Mitmdumps, Phases
<1>3. procs' = [procs EXCEPT ![p] = m] /\ Alive(p)
  BY <1>1 DEF ReadConfig, Alive, Mitmdumps
<1> HIDE DEF m
<1>4. procs' \in Seq(Mitmdumps) /\ ProcsGrow
  BY <1>1, <1>2, <1>3, PhaseKeeps
<1> QED BY <1>4, SameActors DEF ReadConfig, Plain, TypeOK

\* A mitmdump that gets further lives on, whatever it does to the configuration.
LEMMA PhasePlain ==
  ASSUME TypeOK, NEW p \in Pids, Alive(p), NEW phase \in Phases,
         procs' = [procs EXCEPT ![p].phase = phase],
         UNCHANGED <<secretsNow, pidFile, actor>>, config' \in Int
  PROVE  Plain
<1> DEFINE m == [procs[p] EXCEPT !.phase = phase]
<1>1. procs[p] \in Mitmdumps /\ procs \in Seq(Mitmdumps)
  BY DEF TypeOK, Pids
<1>2. m \in Mitmdumps /\ procs' = [procs EXCEPT ![p] = m]
  BY <1>1 DEF Mitmdumps
<1> HIDE DEF m
<1>3. procs' \in Seq(Mitmdumps) /\ ProcsGrow
  BY <1>1, <1>2, PhaseKeeps
<1> QED BY <1>3, SameActors DEF Plain, TypeOK

\* Mitmdumps are killed, and an actor goes on.
LEMMA KillPlain ==
  ASSUME TypeOK, NEW ps, Kill(ps), UNCHANGED <<secretsNow, pidFile, config>>,
         actor' \in [Actor -> ActorState], ActorsGoOn
  PROVE  Plain
BY KillKeeps DEF Plain, TypeOK

\* Nothing a mitmdump does is part of a sweep.
LEMMA MitmdumpPlain ==
  ASSUME TypeOK, NEW p \in Pids, Mitmdump(p) \/ Crash(p)
  PROVE  Plain
<1>1. CASE ReadConfig(p)
  BY <1>1, ReadConfigPlain
<1>2. CASE ScrubConfig(p)
  <2>1. Alive(p) /\ "loaded" \in Phases /\ Scrubbed \in Int
    BY <1>2 DEF ScrubConfig, Alive, Phases, Scrubbed
  <2> QED BY <1>2, <2>1, PhasePlain DEF ScrubConfig
<1>3. CASE Bind(p)
  <2>1. CASE Answers(procs[p].port)
    BY <1>3, <2>1, KillPlain, SameActors DEF Bind, TypeOK
  <2>2. CASE ~Answers(procs[p].port)
    <3>1. Alive(p) /\ "up" \in Phases /\ config' \in Int
      BY <1>3 DEF Bind, Alive, Phases, TypeOK
    <3> QED BY <1>3, <2>2, <3>1, PhasePlain DEF Bind
  <2> QED BY <2>1, <2>2
<1>4. CASE Crash(p)
  BY <1>4, KillPlain, SameActors DEF Crash, TypeOK
<1> QED BY <1>1, <1>2, <1>3, <1>4 DEF Mitmdump

-----------------------------------------------------------------------------
(* ---- commands ------------------------------------------------------------- *)

\* A command begins with nothing to kill.
LEMMA CommandPlain ==
  ASSUME TypeOK, NEW a \in Actor, NEW me \in ActorState, Command(a, me),
         me.step # "kill", me.before \in {{}, Living}, secretsNow' \in Nat
  PROVE  Plain
<1>1. Become(a, me) /\ actor[a].step = "idle" /\ UNCHANGED <<procs, pidFile, config>>
  BY DEF Command, At
<1>2. actor' \in [Actor -> ActorState] /\ ActorsGoOn
  BY <1>1, ChangeGoesOn
<1> QED BY <1>1, <1>2, SameProcs DEF Plain, TypeOK

\* So do run, start, vault set and stop, and those of the gateway.
LEMMA BeginPlain ==
  ASSUME TypeOK, NEW a \in Actor,
         \/ Run(a) \/ Start(a) \/ VaultSet(a) \/ Stop(a) \/ GatewayStartup(a) \/ GatewayShutdown(a)
  PROVE  Plain
<1>1. secretsNow \in Int /\ secretsNow \in Nat /\ secretsNow + 1 \in Nat
  BY DEF TypeOK
<1>3. Fresh \in ActorState /\ Fresh.before = {}
  BY FreshState
<1> DEFINE run == [Fresh EXCEPT !.step = "check", !.op = "run", !.secrets = secretsNow]
           start == [Fresh EXCEPT !.step = "check", !.op = "start"]
           set == [Fresh EXCEPT !.step = "check", !.op = "set"]
           stop == [Fresh EXCEPT !.step = "stop", !.op = "stop", !.before = Living]
<1>2. run \in ActorState /\ start \in ActorState /\ set \in ActorState
  BY <1>1, <1>3 DEF ActorState, Steps, Ops
<1>4. stop \in ActorState
  BY <1>3, LivingArePids DEF ActorState, Steps, Ops
<1>5. /\ run.step # "kill" /\ start.step # "kill" /\ set.step # "kill" /\ stop.step # "kill"
      /\ run.before = {} /\ start.before = {} /\ set.before = {} /\ stop.before = Living
  BY <1>3 DEF ActorState
<1>6. /\ Run(a) => Command(a, run) /\ secretsNow' = secretsNow
      /\ Start(a) \/ GatewayStartup(a) => Command(a, start) /\ secretsNow' = secretsNow
      /\ VaultSet(a) => Command(a, set) /\ secretsNow' = secretsNow + 1
      /\ Stop(a) \/ GatewayShutdown(a) => Command(a, stop) /\ secretsNow' = secretsNow
  BY DEF Run, Start, GatewayStartup, VaultSet, Stop, GatewayShutdown
<1> HIDE DEF run, start, set, stop
<1>7. CASE Run(a)
  BY <1>1, <1>2, <1>4, <1>5, <1>6, <1>7, CommandPlain
<1>8. CASE Start(a) \/ GatewayStartup(a)
  BY <1>1, <1>2, <1>4, <1>5, <1>6, <1>8, CommandPlain
<1>9. CASE VaultSet(a)
  BY <1>1, <1>2, <1>4, <1>5, <1>6, <1>9, CommandPlain
<1>10. CASE Stop(a) \/ GatewayShutdown(a)
  BY <1>1, <1>2, <1>4, <1>5, <1>6, <1>10, CommandPlain
<1> QED BY <1>7, <1>8, <1>9, <1>10

-----------------------------------------------------------------------------
(* ---- a command's steps ---------------------------------------------------- *)

\* An actor is in a state of an actor.
LEMMA MyState ==
  ASSUME TypeOK, NEW a \in Actor
  PROVE  actor[a] \in ActorState
BY DEF TypeOK

\* A step that leaves the mitmdumps alone.
LEMMA QuietPlain ==
  ASSUME TypeOK, UNCHANGED <<procs, secretsNow>>, pidFile' \in Record, config' \in Int,
         actor' \in [Actor -> ActorState], ActorsGoOn
  PROVE  Plain
BY SameProcs DEF Plain, TypeOK

\* Absent files, and a configuration without secrets.
LEMMA NoFileTyped == NoFile \in Record /\ NoConfig \in Int /\ Scrubbed \in Int
BY NoneIs DEF NoFile, Record, NoConfig, Scrubbed

\* What follows when no proxy was found.
LEMMA NotRunningGoesOn ==
  ASSUME TypeOK, NEW a \in Actor, NotRunning(a), actor[a].step # "kill"
  PROVE  actor' \in [Actor -> ActorState] /\ ActorsGoOn
<1> DEFINE me == [actor[a] EXCEPT !.step = "config", !.secrets = Secrets(a)]
<1>1. actor[a] \in ActorState /\ secretsNow \in Int
  BY MyState DEF TypeOK
<1>2. actor[a].secrets \in Int
  BY <1>1 DEF ActorState
<1>3. Secrets(a) \in Int
  BY <1>1, <1>2 DEF Secrets
<1>4. me \in ActorState /\ me.step # "kill" /\ me.before = actor[a].before
  BY <1>1, <1>3 DEF ActorState, Steps
<1>5. CASE Op(a) = "set"
  BY <1>5, EndGoesOn DEF NotRunning, Steps
<1>6. CASE Op(a) # "set"
  <2>1. Become(a, me)
    BY <1>6 DEF NotRunning
  <2> HIDE DEF me
  <2> QED BY <1>4, <2>1, ChangeGoesOn
<1> QED BY <1>5, <1>6

\* A start that failed ends, or its watchdog probes.
LEMMA FailGoesOn ==
  ASSUME TypeOK, NEW a \in Actor, Fail(a), actor[a].step # "kill"
  PROVE  actor' \in [Actor -> ActorState] /\ ActorsGoOn
<1>1. {"reprobe", "ended", "idle"} \subseteq Steps \ {"kill"}
  BY DEF Steps
<1>2. Goto(a, "reprobe") \/ End(a, "ended") \/ End(a, "idle")
  BY DEF Fail
<1> QED BY <1>1, <1>2, GotoGoesOn, EndGoesOn

\* A session begins to watch.
LEMMA ServeGoesOn ==
  ASSUME TypeOK, NEW a \in Actor, NEW port \in Ports, NEW p \in Nat, Serve(a, port, p),
         actor[a].step # "kill"
  PROVE  actor' \in [Actor -> ActorState] /\ ActorsGoOn
<1> DEFINE me == [Fresh EXCEPT !.step = "serving", !.op = "run", !.listenPort = port, !.pid = p]
<1>1. me \in ActorState /\ me.step # "kill" /\ me.before = {}
  BY FreshState DEF ActorState, Steps, Ops
<1>2. Become(a, me)
  BY DEF Serve
<1> HIDE DEF me
<1> QED BY <1>1, <1>2, ChangeGoesOn

\* The first step of is_proxy_running.
LEMMA ReadPidFilePlain ==
  ASSUME TypeOK, NEW a \in Actor, ReadPidFile(a)
  PROVE  Plain
<1> DEFINE me == [actor[a] EXCEPT !.step = "probe", !.rec = pidFile]
<1>1. actor[a] \in ActorState /\ pidFile \in Record /\ config \in Int /\ actor[a].step # "kill"
  BY MyState DEF TypeOK, ReadPidFile, At
<1>2. me \in ActorState /\ me.step # "kill" /\ me.before = actor[a].before
  BY <1>1 DEF ActorState, Steps
<1>3. NotRunning(a) \/ Become(a, me)
  BY DEF ReadPidFile
<1> HIDE DEF me
<1>4. actor' \in [Actor -> ActorState] /\ ActorsGoOn
  BY <1>1, <1>2, <1>3, NotRunningGoesOn, ChangeGoesOn
<1> QED BY <1>1, <1>4, QuietPlain DEF ReadPidFile

\* The unlink of a stale PID file.
LEMMA ProbeStalePlain ==
  ASSUME TypeOK, NEW a \in Actor, ProbeStale(a)
  PROVE  Plain
<1>1. actor[a].step # "kill" /\ config \in Int
  BY DEF TypeOK, ProbeStale, At
<1>2. actor' \in [Actor -> ActorState] /\ ActorsGoOn
  BY <1>1, NotRunningGoesOn DEF ProbeStale
<1> QED BY <1>1, <1>2, NoFileTyped, QuietPlain DEF ProbeStale

\* A proxy was found: a stop that begins here knows what lives.
LEMMA ProbeRunningPlain ==
  ASSUME TypeOK, NEW a \in Actor, ProbeRunning(a)
  PROVE  Plain
<1> DEFINE reuse == [actor[a] EXCEPT !.step = "reuse", !.listenPort = actor[a].rec.port]
           stop == [actor[a] EXCEPT !.step = "stop", !.listenPort = actor[a].rec.port,
                                    !.secrets = Secrets(a), !.before = Living]
<1>1. /\ actor[a] \in ActorState /\ actor[a].step # "kill"
      /\ secretsNow \in Int /\ config \in Int /\ pidFile \in Record
  BY MyState DEF TypeOK, ProbeRunning, At
<1>2. actor[a].rec.port \in Ports /\ actor[a].secrets \in Int
  BY <1>1 DEF ActorState, Record
<1>3. Secrets(a) \in Int
  BY <1>1, <1>2 DEF Secrets
<1>4. reuse \in ActorState /\ reuse.step # "kill" /\ reuse.before = actor[a].before
  BY <1>1, <1>2 DEF ActorState, Steps
<1>5. stop \in ActorState /\ stop.step # "kill" /\ stop.before = Living
  BY <1>1, <1>2, <1>3, LivingArePids DEF ActorState, Steps
<1>6. End(a, "idle") \/ Goto(a, "config") \/ Become(a, reuse) \/ Become(a, stop)
  BY DEF ProbeRunning
<1> HIDE DEF reuse, stop
<1>7. {"idle", "config"} \subseteq Steps \ {"kill"}
  BY DEF Steps
<1>8. CASE End(a, "idle") \/ Goto(a, "config")
  BY <1>1, <1>7, <1>8, EndGoesOn, GotoGoesOn, QuietPlain DEF ProbeRunning
<1>9. CASE Become(a, reuse)
  BY <1>1, <1>4, <1>9, ChangeGoesOn, QuietPlain DEF ProbeRunning
<1>10. CASE Become(a, stop)
  BY <1>1, <1>5, <1>10, ChangeGoesOn, QuietPlain DEF ProbeRunning
<1> QED BY <1>6, <1>8, <1>9, <1>10

\* The recorded process is killed before the sweep.
LEMMA StopRecordedPlain ==
  ASSUME TypeOK, NEW a \in Actor, StopRecorded(a)
  PROVE  Plain
<1>1. actor[a].step # "kill" /\ {"sweep", "unlink"} \subseteq Steps \ {"kill"}
  BY DEF StopRecorded, At, Steps
<1>2. actor' \in [Actor -> ActorState] /\ ActorsGoOn
  BY <1>1, GotoGoesOn DEF StopRecorded
<1> QED BY <1>2, KillPlain DEF StopRecorded

\* The files go before the sweep.
LEMMA StopUnlinkPlain ==
  ASSUME TypeOK, NEW a \in Actor, StopUnlink(a)
  PROVE  Plain
<1>1. actor[a].step # "kill" /\ "sweep" \in Steps \ {"kill"}
  BY DEF StopUnlink, At, Steps
<1>2. actor' \in [Actor -> ActorState] /\ ActorsGoOn
  BY <1>1, GotoGoesOn DEF StopUnlink
<1> QED BY <1>2, NoFileTyped, QuietPlain DEF StopUnlink

-----------------------------------------------------------------------------
(* ---- starts and watchdogs ------------------------------------------------- *)

\* A start writes the configuration.
LEMMA WriteConfigPlain ==
  ASSUME TypeOK, NEW a \in Actor, WriteConfig(a)
  PROVE  Plain
<1> DEFINE me == [actor[a] EXCEPT !.step = "spawn", !.attempt = 0, !.rec = NoFile]
<1>1. actor[a] \in ActorState /\ actor[a].step # "kill" /\ pidFile \in Record
  BY MyState DEF TypeOK, WriteConfig, At
<1>2. me \in ActorState /\ me.step # "kill" /\ me.before = actor[a].before
  BY <1>1, NoFileTyped DEF ActorState, Steps
<1>3. config' \in Int
  BY <1>1 DEF WriteConfig, ActorState
<1>4. Become(a, me)
  BY DEF WriteConfig
<1> HIDE DEF me
<1> QED BY <1>1, <1>2, <1>3, <1>4, ChangeGoesOn, QuietPlain DEF WriteConfig

\* A mitmdump is added at the end.
LEMMA SpawnGrows ==
  ASSUME procs \in Seq(Mitmdumps), NEW a \in Actor, Spawn(a)
  PROVE  procs' \in Seq(Mitmdumps) /\ ProcsGrow
<1>1. PICK port \in Port : procs' = Append(procs, Spawned(port))
  BY DEF Spawn
<1>2. Spawned(port) \in Mitmdumps
  BY NoneIs DEF Spawned, Mitmdumps, Phases, Ports
<1>3. procs' \in Seq(Mitmdumps) /\ Len(procs') = Len(procs) + 1 /\ Len(procs) \in Nat
  BY <1>1, <1>2
<1>4. \A p \in Pids : p \in Pids' /\ procs'[p] = procs[p]
  BY <1>1, <1>2, <1>3 DEF Pids
<1> QED BY <1>3, <1>4 DEF ProcsGrow, Alive

\* A start spawns.
LEMMA SpawnPlain ==
  ASSUME TypeOK, NEW a \in Actor, Spawn(a)
  PROVE  Plain
<1>1. PICK port \in Port :
        Become(a, [actor[a] EXCEPT !.step = "record", !.port = port,
                                   !.pid = Len(procs) + 1, !.attempt = @ + 1])
  BY DEF Spawn
<1> DEFINE me == [actor[a] EXCEPT !.step = "record", !.port = port,
                                  !.pid = Len(procs) + 1, !.attempt = @ + 1]
<1>2. /\ actor[a] \in ActorState /\ actor[a].step # "kill" /\ procs \in Seq(Mitmdumps)
      /\ port \in Ports
  BY MyState DEF TypeOK, Spawn, At, Ports
<1>3. Len(procs) + 1 \in Nat /\ actor[a].attempt + 1 \in Nat
  BY <1>2 DEF ActorState
<1>4. me \in ActorState /\ me.step # "kill" /\ me.before = actor[a].before
  BY <1>2, <1>3 DEF ActorState, Steps
<1>5. Become(a, me)
  BY <1>1
<1> HIDE DEF me
<1>6. actor' \in [Actor -> ActorState] /\ ActorsGoOn
  BY <1>2, <1>4, <1>5, ChangeGoesOn
<1> QED BY <1>2, <1>6, SpawnGrows DEF Spawn, Plain, TypeOK

\* A start finds no port.
LEMMA NoPortPlain ==
  ASSUME TypeOK, NEW a \in Actor, NoPort(a)
  PROVE  Plain
<1>1. actor[a].step # "kill" /\ config \in Int /\ pidFile \in Record
  BY DEF TypeOK, NoPort, At
<1> QED BY <1>1, FailGoesOn, QuietPlain DEF NoPort

\* A start records its mitmdump.
LEMMA WritePidFilePlain ==
  ASSUME TypeOK, NEW a \in Actor, WritePidFile(a)
  PROVE  Plain
<1>1. actor[a] \in ActorState /\ actor[a].step # "kill" /\ config \in Int
  BY MyState DEF TypeOK, WritePidFile, At
<1>2. pidFile' \in Record
  BY <1>1 DEF WritePidFile, ActorState, Record
<1>3. Goto(a, "wait") /\ "wait" \in Steps \ {"kill"}
  BY DEF WritePidFile, Steps
<1> QED BY <1>1, <1>2, <1>3, GotoGoesOn, QuietPlain DEF WritePidFile

\* A start is answered.
LEMMA ReadyPlain ==
  ASSUME TypeOK, NEW a \in Actor, Ready(a)
  PROVE  Plain
<1>1. actor[a].step # "kill" /\ config \in Int /\ pidFile \in Record
  BY DEF TypeOK, Ready, At
<1>2. {"readback", "idle"} \subseteq Steps \ {"kill"}
  BY DEF Steps
<1>3. Goto(a, "readback") \/ End(a, "idle")
  BY DEF Ready
<1> QED BY <1>1, <1>2, <1>3, GotoGoesOn, EndGoesOn, QuietPlain DEF Ready

\* A start kills the mitmdump that did not answer.
LEMMA TimedOutPlain ==
  ASSUME TypeOK, NEW a \in Actor, TimedOut(a)
  PROVE  Plain
<1>1. actor[a].step # "kill" /\ "retract" \in Steps \ {"kill"}
  BY DEF TimedOut, At, Steps
<1>2. actor' \in [Actor -> ActorState] /\ ActorsGoOn
  BY <1>1, GotoGoesOn DEF TimedOut
<1> QED BY <1>2, KillPlain DEF TimedOut

\* A start takes its files back.
LEMMA RetractPlain ==
  ASSUME TypeOK, NEW a \in Actor, Retract(a)
  PROVE  Plain
<1>1. actor[a].step # "kill" /\ "spawn" \in Steps \ {"kill"}
  BY DEF Retract, At, Steps
<1>2. config' \in Int
  BY NoFileTyped DEF Retract, TypeOK
<1>3. Goto(a, "spawn") \/ Fail(a)
  BY DEF Retract
<1>4. actor' \in [Actor -> ActorState] /\ ActorsGoOn
  BY <1>1, <1>3, GotoGoesOn, FailGoesOn
<1> QED BY <1>2, <1>4, NoFileTyped, QuietPlain DEF Retract

\* A session that begins or resumes to watch.
LEMMA ServingPlain ==
  ASSUME TypeOK, NEW a \in Actor, ReadBack(a) \/ Reuse(a) \/ Recovered(a)
  PROVE  Plain
<1>1. /\ actor[a] \in ActorState /\ actor[a].step # "kill"
      /\ config \in Int /\ pidFile \in Record
  BY MyState DEF TypeOK, ReadBack, Reuse, Recovered, At
<1>2. {actor[a].listenPort, pidFile.port} \subseteq Ports /\ {actor[a].pid, pidFile.pid} \subseteq Nat
  BY <1>1 DEF ActorState, Record
<1>3. \/ Fail(a) \/ Goto(a, "unwatched")
      \/ \E port \in {actor[a].listenPort, pidFile.port}, p \in {actor[a].pid, pidFile.pid} :
           Serve(a, port, p)
  BY DEF ReadBack, Reuse, Recovered
<1>4. "unwatched" \in Steps \ {"kill"}
  BY DEF Steps
<1>5. actor' \in [Actor -> ActorState] /\ ActorsGoOn
  BY <1>1, <1>2, <1>3, <1>4, FailGoesOn, GotoGoesOn, ServeGoesOn
<1> QED BY <1>1, <1>5, QuietPlain DEF ReadBack, Reuse, Recovered

\* A session that ends, or notices that its proxy is gone.
LEMMA EndingPlain ==
  ASSUME TypeOK, NEW a \in Actor, EndSession(a) \/ Notice(a) \/ GiveUp(a)
  PROVE  Plain
<1>1. actor[a].step # "kill" /\ config \in Int /\ pidFile \in Record
  BY DEF TypeOK, EndSession, Notice, GiveUp, At
<1>2. {"ended", "grace"} \subseteq Steps \ {"kill"}
  BY DEF Steps
<1>3. End(a, "ended") \/ Goto(a, "grace")
  BY DEF EndSession, Notice, GiveUp
<1>4. actor' \in [Actor -> ActorState] /\ ActorsGoOn
  BY <1>1, <1>2, <1>3, GotoGoesOn, EndGoesOn
<1> QED BY <1>1, <1>4, QuietPlain DEF EndSession, Notice, GiveUp

\* A watchdog starts a proxy.
LEMMA RestartProxyPlain ==
  ASSUME TypeOK, NEW a \in Actor, RestartProxy(a)
  PROVE  Plain
<1> DEFINE me == [actor[a] EXCEPT !.step = "check", !.op = "restart", !.secrets = secretsNow]
<1>1. /\ actor[a] \in ActorState /\ actor[a].step # "kill"
      /\ secretsNow \in Int /\ config \in Int /\ pidFile \in Record
  BY MyState DEF TypeOK, RestartProxy, At
<1>2. me \in ActorState /\ me.step # "kill" /\ me.before = actor[a].before
  BY <1>1 DEF ActorState, Steps, Ops
<1>3. Become(a, me)
  BY DEF RestartProxy
<1> HIDE DEF me
<1> QED BY <1>1, <1>2, <1>3, ChangeGoesOn, QuietPlain DEF RestartProxy

-----------------------------------------------------------------------------
(* ---- the sweep ------------------------------------------------------------ *)

\* pgrep lists what lives, and so all of what ran before that still does.
LEMMA FindAllSweeps ==
  ASSUME TypeOK, StopsSwept, NEW a \in Actor, FindAll(a)
  PROVE  TypeOK' /\ StopsSwept' /\ actor[a].step = "sweep"
         /\ \A b \in Actor \ {a} : actor'[b] = actor[b]
<1> DEFINE me == [actor[a] EXCEPT !.step = "kill", !.targets = Living]
<1>1. actor[a] \in ActorState /\ actor \in [Actor -> ActorState]
  BY MyState DEF TypeOK
<1>2. /\ me \in ActorState /\ me.step = "kill" /\ me.targets = Living
      /\ me.before = actor[a].before
  BY <1>1, LivingArePids DEF ActorState, Steps
<1>3. actor' = [actor EXCEPT ![a] = me]
  BY DEF FindAll, Become
<1> HIDE DEF me
<1>4. actor' \in [Actor -> ActorState] /\ actor'[a] = me /\ \A b \in Actor \ {a} : actor'[b] = actor[b]
  BY <1>1, <1>2, <1>3
<1>5. TypeOK'
  BY <1>4 DEF TypeOK, FindAll
<1>6. \A p \in actor[a].before : p \in Living \/ ~Alive(p)
  BY DEF StopsSwept, Living
<1>7. procs' = procs
  BY DEF FindAll
<1>8. ASSUME NEW b \in Actor
      PROVE  /\ actor'[b].before \subseteq Pids'
             /\ actor'[b].step = "kill" =>
                  \A p \in actor'[b].before : p \in actor'[b].targets \/ ~Alive(p)'
  <2>1. CASE b = a
    <3>1. actor'[b] = me
      BY <1>4, <2>1
    <3>2. actor[a].before \subseteq Pids
      BY DEF StopsSwept
    <3> QED BY <1>2, <1>6, <1>7, <3>1, <3>2 DEF Alive, Pids
  <2>2. CASE b # a
    <3>1. actor'[b] = actor[b]
      BY <1>4, <2>2
    <3> QED BY <1>7, <3>1 DEF StopsSwept, At, Alive, Pids
  <2> QED BY <2>1, <2>2
<1> QED BY <1>4, <1>5, <1>8 DEF StopsSwept, At, FindAll

\* The targets die, and so everything that ran before is dead.
LEMMA KillAllSweeps ==
  ASSUME TypeOK, StopsSwept, NEW a \in Actor, KillAll(a)
  PROVE  /\ TypeOK' /\ StopsSwept'
         /\ \A p \in actor[a].before : procs'[p].phase = "dead"
         /\ \A b \in Actor \ {a} : actor'[b] = actor[b]
<1> DEFINE configuring == [actor[a] EXCEPT !.step = "config", !.targets = {}, !.before = {}]
           idle == [Fresh EXCEPT !.step = "idle"]
<1>1. actor[a] \in ActorState /\ actor \in [Actor -> ActorState] /\ procs \in Seq(Mitmdumps)
  BY MyState DEF TypeOK
<1>2. configuring \in ActorState /\ configuring.step # "kill" /\ configuring.before = {}
  BY <1>1 DEF ActorState, Steps
<1>3. idle \in ActorState /\ idle.step # "kill" /\ idle.before = {}
  BY FreshState DEF ActorState, Steps
<1>4. PICK me \in {configuring, idle} : actor' = [actor EXCEPT ![a] = me]
  BY DEF KillAll, End, Become
<1> HIDE DEF configuring, idle
<1>5. me \in ActorState /\ me.step # "kill" /\ me.before = {}
  BY <1>2, <1>3, <1>4
<1>6. actor' \in [Actor -> ActorState] /\ actor'[a] = me /\ \A b \in Actor \ {a} : actor'[b] = actor[b]
  BY <1>1, <1>4, <1>5
<1>7. /\ procs' \in Seq(Mitmdumps) /\ ProcsGrow
      /\ \A p \in Pids : p \in actor[a].targets => ~Alive(p)'
  BY <1>1, KillKeeps DEF KillAll
<1>8. TypeOK'
  BY <1>6, <1>7 DEF TypeOK, KillAll
<1>9. \A p \in actor[a].before : ~Alive(p)'
  BY <1>7 DEF StopsSwept, ProcsGrow, KillAll
<1>10. ASSUME NEW b \in Actor
       PROVE  /\ actor'[b].before \subseteq Pids'
              /\ actor'[b].step = "kill" =>
                   \A p \in actor'[b].before : p \in actor'[b].targets \/ ~Alive(p)'
  <2>1. CASE b = a
    BY <1>5, <1>6, <2>1
  <2>2. CASE b # a
    <3>1. actor'[b] = actor[b]
      BY <1>6, <2>2
    <3>2. actor[b].before \subseteq Pids
      BY DEF StopsSwept
    <3>3. actor[b].step = "kill" => \A p \in actor[b].before : p \in actor[b].targets \/ ~Alive(p)
      BY DEF StopsSwept, At
    <3> QED BY <1>7, <3>1, <3>2, <3>3 DEF ProcsGrow
  <2> QED BY <2>1, <2>2
<1>11. StopsSwept'
  BY <1>10 DEF StopsSwept, At
<1>12. \A p \in actor[a].before : procs'[p].phase = "dead"
  BY <1>9 DEF Alive
<1> QED BY <1>6, <1>8, <1>11, <1>12

-----------------------------------------------------------------------------
(* ---- the theorems ---------------------------------------------------------- *)

\* Every step is the sweep of an actor, its killing, or plain.
LEMMA EveryStep ==
  ASSUME TypeOK, [Next]_vars
  PROVE  Plain \/ \E a \in Actor : FindAll(a) \/ KillAll(a)
<1>1. config \in Int /\ pidFile \in Record /\ actor \in [Actor -> ActorState]
  BY DEF TypeOK
<1>2. ASSUME NEW p \in Pids, Mitmdump(p) \/ Crash(p)
      PROVE  Plain
  BY <1>2, MitmdumpPlain
<1>3. ASSUME NEW port \in Taking, Take(port)
      PROVE  Plain
  BY <1>1, <1>3, SameActors, QuietPlain DEF Take
<1>4. ASSUME NEW a \in Actor,
             \/ Run(a) \/ Start(a) \/ VaultSet(a) \/ Stop(a) \/ GatewayStartup(a) \/ GatewayShutdown(a)
      PROVE  Plain
  BY <1>4, BeginPlain
<1>5. ASSUME NEW a \in Actor, Stopping(a)
      PROVE  Plain \/ FindAll(a) \/ KillAll(a)
  BY <1>5, StopRecordedPlain, StopUnlinkPlain DEF Stopping
<1>6. ASSUME NEW a \in Actor, Starting(a)
      PROVE  Plain
  BY <1>6, ReadPidFilePlain, ProbeStalePlain, ProbeRunningPlain, WriteConfigPlain, SpawnPlain,
     NoPortPlain, WritePidFilePlain, ReadyPlain, TimedOutPlain, RetractPlain DEF Starting
<1>7. ASSUME NEW a \in Actor, Watching(a) \/ EndSession(a)
      PROVE  Plain
  BY <1>7, ServingPlain, EndingPlain, RestartProxyPlain DEF Watching
<1>8. CASE Poll \/ Probe \/ UNCHANGED vars
  <2>1. UNCHANGED <<procs, secretsNow, pidFile, config, actor>>
    BY <1>8 DEF Poll, Probe, vars
  <2> QED BY <1>1, <2>1, SameActors, QuietPlain
<1> QED BY <1>2, <1>3, <1>4, <1>5, <1>6, <1>7, <1>8 DEF Next

\* Nothing runs at first, and nobody stops it.
LEMMA InitInv == Init => TypeOK /\ StopsSwept
<1> SUFFICES ASSUME Init
             PROVE  TypeOK /\ StopsSwept
  OBVIOUS
<1>1. procs \in Seq(Mitmdumps) /\ secretsNow \in Nat /\ pidFile \in Record /\ config \in Int
  BY NoFileTyped DEF Init
<1>2. actor \in [Actor -> ActorState] /\ \A a \in Actor : actor[a] = Fresh
  BY FreshState DEF Init
<1>3. Fresh.step # "kill" /\ Fresh.before = {}
  BY DEF Fresh
<1> QED BY <1>1, <1>2, <1>3 DEF TypeOK, StopsSwept, At

\* Every step keeps what stops know.
LEMMA StepInv == TypeOK /\ StopsSwept /\ [Next]_vars => TypeOK' /\ StopsSwept'
<1> SUFFICES ASSUME TypeOK, StopsSwept, [Next]_vars
             PROVE  TypeOK' /\ StopsSwept'
  OBVIOUS
<1>1. CASE Plain
  BY <1>1, PlainKeepsSwept DEF Plain
<1>2. CASE \E a \in Actor : FindAll(a) \/ KillAll(a)
  BY <1>2, FindAllSweeps, KillAllSweeps
<1> QED BY <1>1, <1>2, EveryStep

\* The files, the mitmdumps and the actors keep their types, and whoever is
\* about to kill has everything on its list that ran when it began.
THEOREM SweepComplete == Spec => [](TypeOK /\ StopsSwept)
BY InitInv, StepInv, PTL DEF Spec

\* stop_proxy leaves none of the proxies that ran when it was called, however
\* many of them there are, and whoever starts, stops and restarts meanwhile.
THEOREM NoneLeft == Spec => StopLeavesNone
<1>1. ASSUME TypeOK, StopsSwept, [Next]_vars
      PROVE  \A a \in Actor : At(a, "kill") /\ actor'[a].step # "kill" =>
               \A p \in actor[a].before : procs'[p].phase = "dead"
  <2> SUFFICES ASSUME NEW a \in Actor, actor[a].step = "kill", actor'[a].step # "kill"
               PROVE  \A p \in actor[a].before : procs'[p].phase = "dead"
    BY DEF At
  <2>1. ~Plain
    BY DEF Plain, ActorsGoOn
  <2>2. PICK b \in Actor : FindAll(b) \/ KillAll(b)
    BY <1>1, <2>1, EveryStep
  <2>3. a = b
    BY <1>1, <2>2, FindAllSweeps, KillAllSweeps
  <2>4. ~FindAll(a)
    BY DEF FindAll, At
  <2> QED BY <1>1, <2>2, <2>3, <2>4, KillAllSweeps
<1> QED BY <1>1, SweepComplete, PTL DEF StopLeavesNone, Spec

(* -------- commands in turn: the invariant ----------------------------------- *)

\* No mitmdump lives.
NoneLive == \A p \in Pids : ~Alive(p)

\* Before a start there are no secrets in the file.
Clean == taken = {} => config < 1

\* What lives is the proxy on file, and its port answers.
Found ==
  \A p \in Pids : Alive(p) =>
    /\ p = pidFile.pid /\ procs[p].port = pidFile.port
    /\ procs[p].phase = "up" \/ procs[p].port \in taken

\* A watchdog looks after its session's port.
Watched(a) == actor[a].step \in {"serving", "grace", "reprobe"}

\* Other programs have all smaller ports.
SmallerTaken(port) == \A q \in Port : q < port => q \in taken

\* A proxy may be on this port: no watchdog looks after a greater one.
Fits(port) ==
  /\ port \in Port /\ SmallerTaken(port)
  /\ \A a \in Actor : Watched(a) => actor[a].listenPort <= port

\* So is the one on file, which was spawned.
OnFile == pidFile # NoFile => pidFile.pid \in Pids /\ Fits(pidFile.port)

\* What an actor's next step may rely on.
Stage(a) ==
  LET me == actor[a]
  IN /\ me.step \in {"check", "probe", "stop", "reuse", "readback", "reprobe"} => Found /\ Clean
     /\ me.step \in {"unlink", "sweep", "kill", "config"} => NoneLive /\ Clean
     /\ me.step \in {"spawn", "retract"} => NoneLive
     /\ me.step \in {"record", "wait"} =>
          /\ me.pid \in Pids /\ Fits(me.port)
          /\ \A p \in Pids : Alive(p) =>
               /\ p = me.pid /\ procs[p].port = me.port
               /\ procs[p].phase \in {"loaded", "up"} => Clean
     /\ me.step \in {"sweep", "kill", "config", "spawn", "record"} => pidFile = NoFile
     /\ me.step \in {"probe", "reuse", "readback"} => pidFile # NoFile
     /\ me.step = "probe" => me.rec = pidFile
     /\ me.step = "wait" => pidFile.pid = me.pid /\ pidFile.port = me.port
     /\ me.step = "reuse" => me.listenPort = pidFile.port
     /\ Busy(a) /\ me.op = "restart" => me.listenPort \in Port
     /\ Busy(a) /\ me.listenPort # None => Fits(me.listenPort)
     /\ me.step \in {"check", "probe"} /\ me.op = "restart" => NoneLive
     /\ me.step \in {"record", "wait"} /\ me.listenPort # None => me.port = me.listenPort
     /\ me.step = "readback" /\ me.op = "restart" => me.listenPort = pidFile.port

\* The inductive invariant, while commands take turns.
Turns ==
  /\ \A a, b \in Actor : Busy(a) /\ Busy(b) => a = b
  /\ (\A a \in Actor : ~Busy(a)) => Found /\ Clean
  /\ \A a \in Actor : Stage(a)
  /\ OnFile
  /\ \A a \in Actor : Watched(a) =>
       actor[a].listenPort \in Port /\ SmallerTaken(actor[a].listenPort)

-----------------------------------------------------------------------------
(* ---- what the parts of it rest on ------------------------------------- *)

\* Who is not busy says nothing of the mitmdumps.
LEMMA IdleStage == ASSUME NEW a \in Actor, ~Busy(a) PROVE Stage(a)
BY DEF Stage, Busy

\* No mitmdump has the number of an absent file.
LEMMA NobodyOnFile ==
  /\ \A p \in Pids : p # None
  /\ Found /\ pidFile = NoFile => NoneLive
  /\ NoneLive => Found
  /\ \A port \in Port : port # None /\ port \in Nat
BY PortAssumption DEF Pids, None, Found, NoneLive, NoFile

\* While nothing lives, only other programs answer.
LEMMA NobodyAnswers == ASSUME NoneLive, NEW port PROVE Answers(port) <=> port \in taken
BY DEF NoneLive, Answers, Alive

\* A port still fits if it is not below that of a session that has come to watch.
LEMMA FitsStill ==
  ASSUME NEW port, Fits(port), taken \subseteq taken',
         \A b \in Actor : Watched(b)' => \/ actor'[b].listenPort <= port
                                         \/ Watched(b) /\ actor'[b].listenPort = actor[b].listenPort
  PROVE  Fits(port)'
BY DEF Fits, SmallerTaken

\* Mitmdumps go on, by themselves or as they are killed: nobody comes back or
\* changes ports, who listens does so until he dies, and who gets past the
\* configuration leaves none.
LiveOn ==
  /\ taken \subseteq taken' /\ config' \in {config, Scrubbed, NoConfig} /\ Pids' = Pids
  /\ \A p \in Pids : Alive(p)' =>
       /\ Alive(p) /\ procs'[p].port = procs[p].port
       /\ procs[p].phase = "up" => procs'[p].phase = "up"
       /\ procs'[p].phase \in {"loaded", "up"} => procs[p].phase \in {"loaded", "up"} \/ Clean'

\* What is said of mitmdumps stays true as they go on.
LEMMA LiveOnKeeps ==
  ASSUME TypeOK, LiveOn
  PROVE  /\ NoneLive => NoneLive'
         /\ Clean => Clean'
         /\ pidFile' = pidFile => (Found => Found')
<1>1. config \in Int
  BY DEF TypeOK
<1>2. Clean => Clean'
  BY <1>1 DEF LiveOn, Clean, Scrubbed, NoConfig
<1> QED
  BY <1>2 DEF LiveOn, NoneLive, Found

\* If nobody takes a step, turns are taken still.
LEMMA WorldTurns ==
  ASSUME TypeOK, Turns, LiveOn, UNCHANGED <<actor, pidFile>>
  PROVE  Turns'
<1>1. /\ NoneLive => NoneLive'
      /\ Clean => Clean'
      /\ Found => Found'
  BY LiveOnKeeps
<1>2. \A port : Fits(port) => Fits(port)'
  BY FitsStill DEF LiveOn, Watched
<1>3. \A port : SmallerTaken(port) => SmallerTaken(port)'
  BY DEF LiveOn, SmallerTaken
<1>4. ASSUME NEW a \in Actor PROVE Stage(a)'
  <2> DEFINE me == actor[a]
  <2>1. Stage(a) /\ actor' = actor /\ pidFile' = pidFile /\ (Busy(a)' <=> Busy(a))
    BY DEF Turns, Busy
  <2>2. me.step \in {"record", "wait"} => \A p \in Pids' : Alive(p)' =>
          /\ p = me.pid /\ procs'[p].port = me.port
          /\ procs'[p].phase \in {"loaded", "up"} => Clean'
    BY <1>1, <2>1 DEF Stage, LiveOn
  <2>3. Pids' = Pids
    BY DEF LiveOn
  <2> QED
    BY <1>1, <1>2, <2>1, <2>2, <2>3 DEF Stage
<1>5. OnFile'
  BY <1>2 DEF Turns, OnFile, LiveOn
<1> QED
  BY <1>1, <1>3, <1>4, <1>5 DEF Turns, Busy, Watched

\* The step of an actor who is alone busy, before it or from it on.
LEMMA LoneTurns ==
  ASSUME Turns, NEW a \in Actor, \A b \in Actor \ {a} : actor'[b] = actor[b] /\ ~Busy(b),
         taken' = taken, Stage(a)', ~Busy(a)' => Found' /\ Clean',
         OnFile',
         (Watched(a) => actor[a].listenPort \in Port /\ SmallerTaken(actor[a].listenPort))'
  PROVE  Turns'
<1>1. \A b \in Actor \ {a} : ~Busy(b)' /\ (Watched(b)' <=> Watched(b))
  BY DEF Busy, Watched
<1>2. \A b \in Actor : Stage(b)'
  <2>1. ASSUME NEW b \in Actor, ~Busy(b)' PROVE Stage(b)'
    BY <2>1 DEF Stage, Busy
  <2> QED
    BY <1>1, <2>1
<1>4. ASSUME NEW b \in Actor
      PROVE  (Watched(b) => actor[b].listenPort \in Port /\ SmallerTaken(actor[b].listenPort))'
  <2>1. CASE b = a
    BY <2>1
  <2>2. CASE b # a
    <3>1. actor'[b] = actor[b] /\ (Watched(b)' <=> Watched(b))
      BY <1>1, <2>2
    <3>2. SmallerTaken(actor[b].listenPort) => SmallerTaken(actor[b].listenPort)'
      BY <3>1 DEF SmallerTaken
    <3> QED
      BY <3>1, <3>2 DEF Turns
  <2> QED
    BY <2>1, <2>2
<1> QED
  BY <1>1, <1>2, <1>4 DEF Turns

\* Another step of an actor: where it is next, and with what.
LEMMA GotoNext ==
  ASSUME TypeOK, NEW a \in Actor, NEW step, Goto(a, step)
  PROVE  /\ \A b \in Actor \ {a} : actor'[b] = actor[b]
         /\ actor'[a].step = step /\ actor'[a].op = actor[a].op
         /\ actor'[a].listenPort = actor[a].listenPort /\ actor'[a].port = actor[a].port
         /\ actor'[a].pid = actor[a].pid /\ actor'[a].rec = actor[a].rec
<1>1. actor[a] \in ActorState /\ actor' = [actor EXCEPT ![a] = [actor[a] EXCEPT !.step = step]]
      /\ actor \in [Actor -> ActorState]
  BY MyState DEF Goto, Become, TypeOK
<1> QED
  BY <1>1 DEF ActorState

\* The end of a command.
LEMMA EndNext ==
  ASSUME TypeOK, NEW a \in Actor, NEW step, End(a, step)
  PROVE  /\ \A b \in Actor \ {a} : actor'[b] = actor[b]
         /\ actor'[a].step = step /\ actor'[a].op = "none" /\ actor'[a].listenPort = None
<1>1. actor' = [actor EXCEPT ![a] = [Fresh EXCEPT !.step = step]] /\ actor \in [Actor -> ActorState]
  BY DEF End, Become, TypeOK
<1> QED
  BY <1>1 DEF Fresh

\* A session that watches a mitmdump.
LEMMA ServeNext ==
  ASSUME TypeOK, NEW a \in Actor, NEW port, NEW p, Serve(a, port, p)
  PROVE  /\ \A b \in Actor \ {a} : actor'[b] = actor[b]
         /\ actor'[a].step = "serving" /\ actor'[a].listenPort = port
<1>1. /\ actor' = [actor EXCEPT ![a] = [Fresh EXCEPT !.step = "serving", !.op = "run",
                                                     !.listenPort = port, !.pid = p]]
      /\ actor \in [Actor -> ActorState]
  BY DEF Serve, Become, TypeOK
<1> QED
  BY <1>1 DEF Fresh

\* The end of a busy actor's command leaves its turn to others.
LEMMA EndTurns ==
  ASSUME TypeOK, Turns, NEW a \in Actor, \A b \in Actor \ {a} : ~Busy(b),
         NEW step \in {"idle", "ended"}, End(a, step), Pids \subseteq Pids', taken' = taken, Found', Clean', pidFile' \in {pidFile, NoFile}
  PROVE  Turns'
<1>1. /\ \A b \in Actor \ {a} : actor'[b] = actor[b]
      /\ actor'[a].step = step /\ actor'[a].listenPort = None
  BY EndNext
<1>2. ~Busy(a)' /\ ~Watched(a)' /\ Stage(a)'
  BY <1>1 DEF Busy, Watched, Stage
<1>3. OnFile'
  <2> SUFFICES ASSUME pidFile' # NoFile PROVE pidFile'.pid \in Pids' /\ Fits(pidFile.port)'
    BY DEF OnFile
  <2>1. pidFile' = pidFile /\ pidFile.pid \in Pids /\ Fits(pidFile.port)
    BY DEF Turns, OnFile
  <2> QED
    BY <1>1, <1>2, <2>1, FitsStill DEF Watched, Fits
<1> QED
  BY <1>1, <1>2, <1>3, LoneTurns

\* Whoever is busy is alone so.
LEMMA InTurn ==
  ASSUME Turns, NEW a \in Actor, Busy(a)
  PROVE  Stage(a) /\ \A b \in Actor \ {a} : ~Busy(b)
BY DEF Turns

\* A port fits after an actor's step, if he does not come to watch a greater one.
LEMMA FitsNext ==
  ASSUME NEW a \in Actor, \A b \in Actor \ {a} : actor'[b] = actor[b], taken' = taken,
         NEW port, Fits(port),
         Watched(a)' => \/ actor'[a].listenPort <= port
                        \/ Watched(a) /\ actor'[a].listenPort = actor[a].listenPort
  PROVE  Fits(port)'
<1>1. ASSUME NEW b \in Actor, Watched(b)'
      PROVE  \/ actor'[b].listenPort <= port
             \/ Watched(b) /\ actor'[b].listenPort = actor[b].listenPort
  <2>1. CASE b = a
    BY <1>1, <2>1
  <2>2. CASE b # a
    BY <1>1, <2>2 DEF Watched
  <2> QED
    BY <2>1, <2>2
<1> QED
  BY <1>1, FitsStill

\* So does the port on file.
LEMMA FileNext ==
  ASSUME Turns, NEW a \in Actor, \A b \in Actor \ {a} : actor'[b] = actor[b], taken' = taken,
         Pids \subseteq Pids', pidFile' \in {pidFile, NoFile},
         Watched(a)' /\ pidFile # NoFile =>
           \/ actor'[a].listenPort = pidFile.port
           \/ Watched(a) /\ actor'[a].listenPort = actor[a].listenPort
  PROVE  OnFile'
<1> SUFFICES ASSUME pidFile' # NoFile PROVE pidFile'.pid \in Pids' /\ Fits(pidFile.port)'
  BY DEF OnFile
<1>1. pidFile' = pidFile /\ pidFile # NoFile /\ pidFile.pid \in Pids /\ Fits(pidFile.port)
  BY DEF Turns, OnFile
<1> PICK port : port = pidFile.port
  OBVIOUS
<1>2. port \in Nat /\ Fits(port)
  BY <1>1, PortAssumption DEF Fits
<1>3. Watched(a)' => \/ actor'[a].listenPort <= port
                     \/ Watched(a) /\ actor'[a].listenPort = actor[a].listenPort
  BY <1>1, <1>2
<1>4. Fits(port)'
  BY <1>2, <1>3, FitsNext
<1> QED
  BY <1>1, <1>4

-----------------------------------------------------------------------------
(* ---- mitmdumps -------------------------------------------------------- *)

\* What a kill leaves is as it was.
LEMMA KillLives ==
  ASSUME procs \in Seq(Mitmdumps), NEW ps, Kill(ps)
  PROVE  /\ Pids' = Pids
         /\ \A p \in Pids : Alive(p)' => Alive(p) /\ p \notin ps /\ procs'[p] = procs[p]
<1>1. procs' = [p \in Pids |-> IF p \in ps THEN Dead ELSE procs[p]] /\ Len(procs) \in Nat
  BY DEF Kill
<1>2. Pids' = Pids
  <2>1. procs' \in Seq(Mitmdumps) /\ DOMAIN procs' = 1..Len(procs)
    BY <1>1, KillKeeps DEF Pids
  <2> QED
    BY <1>1, <2>1 DEF Pids
<1> QED
  BY <1>1, <1>2 DEF Alive, Dead

\* A mitmdump's own steps, its death and another program's port.
LEMMA WorldStep ==
  ASSUME TypeOK, Turns,
         \/ \E p \in Pids : Mitmdump(p) \/ Crash(p)
         \/ \E port \in Taking : Take(port)
  PROVE  Turns'
<1>1. procs \in Seq(Mitmdumps) /\ Len(procs) \in Nat /\ procs \in [Pids -> Mitmdumps]
  BY DEF TypeOK, Pids
<1>2. ASSUME NEW ps, Kill(ps), taken' = taken, config' = config
      PROVE  LiveOn
  <2>1. /\ Pids' = Pids
        /\ \A p \in Pids : Alive(p)' => Alive(p) /\ procs'[p] = procs[p]
    BY <1>1, <1>2, KillLives
  <2> QED
    BY <1>2, <2>1 DEF LiveOn
<1>3. ASSUME NEW p \in Pids, ReadConfig(p)
      PROVE  LiveOn
  <2>1. DOMAIN procs' = DOMAIN procs /\ Pids' = Pids
    BY <1>1, <1>3 DEF ReadConfig, Pids
  <2>2. \A q \in Pids \ {p} : procs'[q] = procs[q]
    BY <1>1, <1>3 DEF ReadConfig
  <2>3. procs[p].phase = "spawned" /\ procs'[p].port = procs[p].port
        /\ procs'[p].phase = IF config = NoConfig THEN "loaded" ELSE "read"
    BY <1>1, <1>3 DEF ReadConfig, Mitmdumps
  <2>4. config = NoConfig => Clean'
    BY <1>3 DEF ReadConfig, Clean, NoConfig
  <2>5. taken' = taken /\ config' = config
    BY <1>3 DEF ReadConfig
  <2>6. ASSUME NEW q \in Pids, Alive(q)'
        PROVE  /\ Alive(q) /\ procs'[q].port = procs[q].port
               /\ procs[q].phase = "up" => procs'[q].phase = "up"
               /\ procs'[q].phase \in {"loaded", "up"} => procs[q].phase \in {"loaded", "up"} \/ Clean'
    <3>1. CASE q = p
      BY <2>3, <2>4, <3>1 DEF Alive
    <3>2. CASE q # p
      BY <2>2, <2>6, <3>2 DEF Alive
    <3> QED
      BY <3>1, <3>2
  <2> QED
    BY <2>1, <2>5, <2>6 DEF LiveOn
<1>4. ASSUME NEW p \in Pids, ScrubConfig(p)
      PROVE  LiveOn
  <2>1. DOMAIN procs' = DOMAIN procs /\ Pids' = Pids
    BY <1>1, <1>4 DEF ScrubConfig, Pids
  <2>2. \A q \in Pids \ {p} : procs'[q] = procs[q]
    BY <1>1, <1>4 DEF ScrubConfig
  <2>3. procs[p].phase = "read" /\ procs'[p].port = procs[p].port /\ procs'[p].phase = "loaded"
    BY <1>1, <1>4 DEF ScrubConfig, Mitmdumps
  <2>4. Clean'
    BY <1>4 DEF ScrubConfig, Clean, Scrubbed
  <2> QED
    BY <1>4, <2>1, <2>2, <2>3, <2>4 DEF LiveOn, Alive, ScrubConfig
<1>5. ASSUME NEW p \in Pids, Bind(p), ~Answers(procs[p].port)
      PROVE  LiveOn
  <2>1. DOMAIN procs' = DOMAIN procs /\ Pids' = Pids
    BY <1>1, <1>5 DEF Bind, Pids
  <2>2. \A q \in Pids \ {p} : procs'[q] = procs[q]
    BY <1>1, <1>5 DEF Bind
  <2>3. procs[p].phase = "loaded" /\ procs'[p].port = procs[p].port /\ procs'[p].phase = "up"
    BY <1>1, <1>5 DEF Bind, Mitmdumps
  <2> QED
    BY <1>5, <2>1, <2>2, <2>3 DEF LiveOn, Alive, Bind
<1>6. ASSUME NEW p \in Pids, Mitmdump(p) \/ Crash(p)
      PROVE  LiveOn /\ UNCHANGED <<actor, pidFile>>
  <2>1. UNCHANGED <<actor, pidFile, taken>>
    BY <1>6 DEF Mitmdump, ReadConfig, ScrubConfig, Bind, Crash
  <2>2. CASE Crash(p) \/ (Bind(p) /\ Answers(procs[p].port))
    <3>1. Kill({p}) /\ taken' = taken /\ config' = config
      BY <2>2 DEF Crash, Bind
    <3> QED
      BY <1>2, <2>1, <3>1
  <2> QED
    BY <1>3, <1>4, <1>5, <1>6, <2>1, <2>2 DEF Mitmdump
<1>7. ASSUME NEW port \in Taking, Take(port)
      PROVE  LiveOn /\ UNCHANGED <<actor, pidFile>>
  BY <1>7 DEF Take, LiveOn, Alive, Pids
<1> QED
  BY <1>6, <1>7, WorldTurns

-----------------------------------------------------------------------------
(* ---- commands --------------------------------------------------------- *)

\* A command that no other overlaps begins with what was left in order.
LEMMA CommandTurns ==
  ASSUME TypeOK, Turns, ~overlapped', NEW a \in Actor, NEW me, Command(a, me),
         me.step \in {"check", "stop"}, me.op # "restart", me.listenPort = None
  PROVE  Turns'
<1>1. /\ \A b \in Actor \ {a} : ~Busy(b)
      /\ ~Busy(a) /\ UNCHANGED <<procs, taken, pidFile, config>>
  BY DEF Command, Begin, At, Busy
<1>2. actor' = [actor EXCEPT ![a] = me] /\ actor \in [Actor -> ActorState]
  BY DEF Command, Become, TypeOK
<1>3. actor'[a] = me /\ \A b \in Actor \ {a} : actor'[b] = actor[b]
  BY <1>2
<1>4. Found' /\ Clean'
  BY <1>1 DEF Turns, Found, Clean, Pids, Alive
<1>5. Stage(a)' /\ Busy(a)' /\ ~Watched(a)'
  BY <1>3, <1>4 DEF Stage, Busy, Watched
<1>6. OnFile'
  BY <1>1, <1>3, <1>5, FileNext DEF Pids
<1> QED
  BY <1>1, <1>3, <1>5, <1>6, LoneTurns

\* So do all of them, the gateway's too.
LEMMA BeginTurns ==
  ASSUME TypeOK, Turns, ~overlapped', NEW a \in Actor,
         \/ Run(a) \/ Start(a) \/ VaultSet(a) \/ Stop(a) \/ GatewayStartup(a) \/ GatewayShutdown(a)
  PROVE  Turns'
<1> DEFINE run == [Fresh EXCEPT !.step = "check", !.op = "run", !.secrets = secretsNow]
           start == [Fresh EXCEPT !.step = "check", !.op = "start"]
           set == [Fresh EXCEPT !.step = "check", !.op = "set"]
           stop == [Fresh EXCEPT !.step = "stop", !.op = "stop", !.before = Living]
<1>1. /\ run.step = "check" /\ run.op = "run" /\ run.listenPort = None
      /\ start.step = "check" /\ start.op = "start" /\ start.listenPort = None
      /\ set.step = "check" /\ set.op = "set" /\ set.listenPort = None
      /\ stop.step = "stop" /\ stop.op = "stop" /\ stop.listenPort = None
  BY DEF Fresh
<1>2. Command(a, run) \/ Command(a, start) \/ Command(a, set) \/ Command(a, stop)
  BY DEF Run, Start, GatewayStartup, VaultSet, Stop, GatewayShutdown
<1> HIDE DEF run, start, set, stop
<1> QED
  BY <1>1, <1>2, CommandTurns

-----------------------------------------------------------------------------
(* ---- is_proxy_running ------------------------------------------------- *)

\* Where nothing lives and nothing is on file, a start may follow.
LEMMA NotRunningTurns ==
  ASSUME TypeOK, Turns, NEW a \in Actor, actor[a].step \in {"check", "probe"}, NotRunning(a),
         NoneLive', Clean', pidFile' = NoFile, Pids \subseteq Pids', taken' = taken
  PROVE  Turns'
<1>1. Busy(a) /\ Stage(a) /\ \A b \in Actor \ {a} : ~Busy(b)
  BY InTurn DEF Busy
<1>2. CASE Op(a) = "set"
  <2>1. Found'
    BY DEF NoneLive, Found
  <2> QED
    BY <1>1, <1>2, <2>1, EndTurns DEF NotRunning
<1>3. CASE Op(a) # "set"
  <2>1. /\ actor' = [actor EXCEPT ![a] = [actor[a] EXCEPT !.step = "config", !.secrets = Secrets(a)]]
        /\ actor \in [Actor -> ActorState] /\ actor[a] \in ActorState
    BY <1>3 DEF NotRunning, Become, TypeOK
  <2>2. /\ \A b \in Actor \ {a} : actor'[b] = actor[b]
        /\ actor'[a].step = "config" /\ actor'[a].op = actor[a].op
        /\ actor'[a].listenPort = actor[a].listenPort
    BY <2>1 DEF ActorState
  <2>3. Busy(a)' /\ ~Watched(a)'
    BY <2>2 DEF Busy, Watched
  <2>4. actor[a].listenPort # None => Fits(actor[a].listenPort)'
    BY <1>1, <2>2, <2>3, FitsNext DEF Stage
  <2>5. actor[a].op = "restart" => actor[a].listenPort \in Port
    BY <1>1 DEF Stage
  <2>6. actor'[a].listenPort # None => Fits(actor[a].listenPort)'
    BY <2>2, <2>4
  <2>7. Stage(a)'
    BY <2>2, <2>3, <2>5, <2>6 DEF Stage
  <2>8. OnFile'
    BY DEF OnFile
  <2> QED
    BY <1>1, <2>2, <2>3, <2>7, <2>8, LoneTurns
<1> QED
  BY <1>2, <1>3

\* Without a file nothing lives; with one, it is probed.
LEMMA ReadPidFileTurns ==
  ASSUME TypeOK, Turns, NEW a \in Actor, ReadPidFile(a)
  PROVE  Turns'
<1>1. /\ actor[a].step = "check" /\ Busy(a) /\ Stage(a) /\ \A b \in Actor \ {a} : ~Busy(b)
      /\ UNCHANGED <<procs, taken, pidFile, config>>
  BY InTurn DEF Busy, ReadPidFile, At
<1>2. Found /\ Clean /\ Found' /\ Clean'
  BY <1>1 DEF Stage, Found, Clean, Pids, Alive
<1>3. CASE pidFile = NoFile
  <2>1. NoneLive'
    BY <1>1, <1>2, <1>3, NobodyOnFile DEF NoneLive, Pids, Alive
  <2> QED
    BY <1>1, <1>2, <1>3, <2>1, NotRunningTurns DEF ReadPidFile, Pids
<1>4. CASE pidFile # NoFile
  <2>1. /\ actor' = [actor EXCEPT ![a] = [actor[a] EXCEPT !.step = "probe", !.rec = pidFile]]
        /\ actor \in [Actor -> ActorState] /\ actor[a] \in ActorState
    BY <1>4 DEF ReadPidFile, Become, TypeOK
  <2>2. /\ \A b \in Actor \ {a} : actor'[b] = actor[b]
        /\ actor'[a].step = "probe" /\ actor'[a].op = actor[a].op /\ actor'[a].rec = pidFile
        /\ actor'[a].listenPort = actor[a].listenPort
    BY <2>1 DEF ActorState
  <2>3. Busy(a)' /\ ~Watched(a)'
    BY <2>2 DEF Busy, Watched
  <2>4. actor[a].listenPort # None => Fits(actor[a].listenPort)'
    BY <1>1, <2>2, <2>3, FitsNext DEF Stage
  <2>5. actor[a].op = "restart" => actor[a].listenPort \in Port /\ NoneLive'
    BY <1>1 DEF Stage, NoneLive, Pids, Alive
  <2>6. Stage(a)'
    BY <1>1, <1>2, <1>4, <2>2, <2>3, <2>4, <2>5 DEF Stage
  <2>7. OnFile'
    BY <1>1, <2>2, <2>3, FileNext DEF Pids
  <2> QED
    BY <1>1, <2>2, <2>3, <2>6, <2>7, LoneTurns
<1> QED
  BY <1>3, <1>4

\* A stale record is not that of a proxy which lives: it would answer.
LEMMA ProbeStaleTurns ==
  ASSUME TypeOK, Turns, NEW a \in Actor, ProbeStale(a)
  PROVE  Turns'
<1>1. /\ actor[a].step = "probe" /\ Busy(a) /\ Stage(a)
      /\ UNCHANGED <<procs, taken, config>> /\ pidFile' = NoFile /\ NotRunning(a)
      /\ ~Running(actor[a].rec)
  BY InTurn DEF Busy, ProbeStale, At
<1>2. Found /\ Clean /\ actor[a].rec = pidFile
  BY <1>1 DEF Stage
<1>3. NoneLive
  BY <1>1, <1>2 DEF NoneLive, Running, Found, Answers
<1>4. NoneLive' /\ Clean'
  BY <1>1, <1>2, <1>3 DEF NoneLive, Clean, Pids, Alive
<1> QED
  BY <1>1, <1>4, NotRunningTurns DEF Pids

\* A busy actor goes on: what fitted still does, and his next state is enough.
LEMMA GoOn ==
  ASSUME Turns, NEW a \in Actor, Busy(a), \A b \in Actor \ {a} : actor'[b] = actor[b],
         Busy(a)', ~Watched(a)', taken' = taken, Pids \subseteq Pids', pidFile' \in {pidFile, NoFile}
  PROVE  /\ \A port : Fits(port) => Fits(port)'
         /\ Stage(a)' => Turns'
<1>1. \A b \in Actor \ {a} : ~Busy(b)
  BY InTurn
<1>2. OnFile'
  BY FileNext
<1> QED
  BY <1>1, <1>2, FitsNext, LoneTurns

\* A proxy that runs is no watchdog's to replace; it may be used, or stopped.
LEMMA ProbeRunningTurns ==
  ASSUME TypeOK, Turns, NEW a \in Actor, ProbeRunning(a)
  PROVE  Turns'
<1> DEFINE me == actor[a]
           reuse == [me EXCEPT !.step = "reuse", !.listenPort = me.rec.port]
           stop == [me EXCEPT !.step = "stop", !.listenPort = me.rec.port,
                              !.secrets = Secrets(a), !.before = Living]
<1>1. /\ me.step = "probe" /\ Busy(a) /\ Stage(a) /\ \A b \in Actor \ {a} : ~Busy(b)
      /\ UNCHANGED <<procs, taken, config, pidFile>> /\ Pids \subseteq Pids' /\ Running(me.rec)
  BY InTurn DEF Busy, ProbeRunning, At, Pids
<1>2. Found /\ Clean /\ me.rec = pidFile /\ pidFile # NoFile
  BY <1>1 DEF Stage
<1>3. Found' /\ Clean'
  BY <1>1, <1>2 DEF Found, Clean, Pids, Alive
<1>4. pidFile.pid \in Pids /\ Fits(pidFile.port)
  BY <1>2 DEF Turns, OnFile
<1>5. me.op # "restart"
  BY <1>1, <1>2, <1>4 DEF Stage, NoneLive, Running
<1>6. End(a, "idle") \/ Become(a, reuse) \/ Become(a, stop)
  BY <1>5 DEF ProbeRunning
<1>7. CASE End(a, "idle")
  BY <1>1, <1>3, <1>7, EndTurns
<1>8. CASE Become(a, reuse) \/ Become(a, stop)
  <2>1. /\ actor' = [actor EXCEPT ![a] = reuse] \/ actor' = [actor EXCEPT ![a] = stop]
        /\ actor \in [Actor -> ActorState] /\ me \in ActorState
    BY <1>8 DEF Become, TypeOK
  <2>2. /\ reuse.step = "reuse" /\ reuse.op = me.op /\ reuse.listenPort = me.rec.port
        /\ stop.step = "stop" /\ stop.op = me.op /\ stop.listenPort = me.rec.port
    BY <2>1 DEF ActorState
  <2>3. /\ \A b \in Actor \ {a} : actor'[b] = actor[b]
        /\ actor'[a].step \in {"reuse", "stop"} /\ actor'[a].op = me.op
        /\ actor'[a].listenPort = me.rec.port
    BY <2>1, <2>2
  <2>4. Busy(a)' /\ ~Watched(a)'
    BY <2>3 DEF Busy, Watched
  <2>5. Fits(actor[a].listenPort)'
    <3>1. Fits(pidFile.port) /\ actor'[a].listenPort = pidFile.port
      BY <1>2, <1>4, <2>3
    <3> QED
      BY <1>1, <2>3, <2>4, <3>1, GoOn
  <2>6. Stage(a)'
    BY <1>1, <1>2, <1>3, <1>5, <2>3, <2>5 DEF Stage
  <2> QED
    BY <1>1, <2>3, <2>4, <2>6, GoOn
<1> QED
  BY <1>6, <1>7, <1>8

-----------------------------------------------------------------------------
(* ---- stop_proxy ------------------------------------------------------- *)

\* A step within a command that leaves its locals as they are.
LEMMA GotoTurns ==
  ASSUME TypeOK, Turns, NEW a \in Actor, Busy(a),
         NEW step \in {"unlink", "sweep", "config", "spawn", "wait", "retract", "kill"},
         Goto(a, step), taken' = taken, Pids \subseteq Pids', pidFile' \in {pidFile, NoFile}
  PROVE  /\ actor'[a].step = step /\ actor'[a].port = actor[a].port /\ actor'[a].pid = actor[a].pid
         /\ actor'[a].op = actor[a].op /\ actor'[a].listenPort = actor[a].listenPort
         /\ Stage(a)' => Turns'
         /\ actor[a].op = "restart" => actor[a].listenPort \in Port
         /\ (actor[a].listenPort # None => Fits(actor[a].listenPort))'
         /\ \A port : Fits(port) => Fits(port)'
<1>1. /\ \A b \in Actor \ {a} : actor'[b] = actor[b]
      /\ actor'[a].step = step /\ actor'[a].op = actor[a].op
      /\ actor'[a].listenPort = actor[a].listenPort
      /\ actor'[a].port = actor[a].port /\ actor'[a].pid = actor[a].pid
  BY GotoNext
<1>2. Busy(a)' /\ ~Watched(a)'
  BY <1>1 DEF Busy, Watched
<1>3. Stage(a)
  BY InTurn
<1>4. /\ \A port : Fits(port) => Fits(port)'
      /\ Stage(a)' => Turns'
  BY <1>1, <1>2, GoOn
<1>5. /\ actor[a].op = "restart" => actor[a].listenPort \in Port
      /\ actor[a].listenPort # None => Fits(actor[a].listenPort)
  BY <1>3 DEF Stage
<1>6. (actor[a].listenPort # None => Fits(actor[a].listenPort))'
  BY <1>1, <1>4, <1>5
<1> QED
  BY <1>1, <1>4, <1>5, <1>6

\* The recorded process is the only one that lives.
LEMMA StopRecordedTurns ==
  ASSUME TypeOK, Turns, NEW a \in Actor, StopRecorded(a)
  PROVE  Turns'
<1>1. /\ actor[a].step = "stop" /\ Busy(a) /\ Stage(a) /\ Kill({pidFile.pid})
      /\ UNCHANGED <<taken, config, pidFile>>
  BY InTurn DEF Busy, StopRecorded, At
<1>2. Found /\ Clean
  BY <1>1 DEF Stage
<1>3. Pids' = Pids /\ NoneLive'
  BY <1>1, <1>2, KillLives DEF NoneLive, Found, TypeOK
<1>4. Clean'
  BY <1>1, <1>2 DEF Clean
<1>5. CASE pidFile = NoFile
  <2>1. Goto(a, "sweep")
    BY <1>5 DEF StopRecorded
  <2>2. Stage(a)'
    BY <1>1, <1>3, <1>4, <1>5, <2>1, GotoTurns DEF Stage
  <2> QED
    BY <1>1, <1>3, <2>1, <2>2, GotoTurns
<1>6. CASE pidFile # NoFile
  <2>1. Goto(a, "unlink")
    BY <1>6 DEF StopRecorded
  <2>2. Stage(a)'
    BY <1>1, <1>3, <1>4, <2>1, GotoTurns DEF Stage
  <2> QED
    BY <1>1, <1>3, <2>1, <2>2, GotoTurns
<1> QED
  BY <1>5, <1>6

\* Its files go.
LEMMA StopUnlinkTurns ==
  ASSUME TypeOK, Turns, NEW a \in Actor, StopUnlink(a)
  PROVE  Turns'
<1>1. /\ actor[a].step = "unlink" /\ Busy(a) /\ Stage(a) /\ Goto(a, "sweep")
      /\ UNCHANGED <<taken, procs>> /\ pidFile' = NoFile /\ config' = NoConfig /\ Pids' = Pids
  BY InTurn DEF Busy, StopUnlink, At, Pids
<1>2. NoneLive' /\ Clean'
  BY <1>1 DEF Stage, NoneLive, Clean, Alive, NoConfig
<1>3. Stage(a)'
  BY <1>1, <1>2, GotoTurns DEF Stage
<1> QED
  BY <1>1, <1>3, GotoTurns

\* The sweep finds nobody.
LEMMA FindAllTurns ==
  ASSUME TypeOK, Turns, NEW a \in Actor, FindAll(a)
  PROVE  Turns'
<1> DEFINE me == [actor[a] EXCEPT !.step = "kill", !.targets = Living]
<1>1. /\ actor[a].step = "sweep" /\ Busy(a) /\ Stage(a)
      /\ UNCHANGED <<taken, procs, config, pidFile>> /\ Pids \subseteq Pids'
  BY InTurn DEF Busy, FindAll, At, Pids
<1>2. actor' = [actor EXCEPT ![a] = me] /\ actor \in [Actor -> ActorState] /\ actor[a] \in ActorState
  BY DEF FindAll, Become, TypeOK
<1>3. /\ \A b \in Actor \ {a} : actor'[b] = actor[b]
      /\ actor'[a].step = "kill" /\ actor'[a].op = actor[a].op
      /\ actor'[a].listenPort = actor[a].listenPort
  BY <1>2 DEF ActorState
<1>4. Busy(a)' /\ ~Watched(a)'
  BY <1>3 DEF Busy, Watched
<1>5. (actor[a].listenPort # None => Fits(actor[a].listenPort))'
  <2>1. actor[a].listenPort # None => Fits(actor[a].listenPort)
    BY <1>1 DEF Stage
  <2> QED
    BY <1>1, <1>3, <1>4, <2>1, GoOn
<1>6. NoneLive' /\ Clean' /\ pidFile' = NoFile
  BY <1>1 DEF Stage, NoneLive, Clean, Pids, Alive
<1>7. Stage(a)'
  BY <1>1, <1>3, <1>5, <1>6 DEF Stage
<1> QED
  BY <1>1, <1>3, <1>4, <1>7, GoOn

\* A stop ends, or is followed by a start.
LEMMA KillAllTurns ==
  ASSUME TypeOK, Turns, NEW a \in Actor, KillAll(a)
  PROVE  Turns'
<1> DEFINE me == [actor[a] EXCEPT !.step = "config", !.targets = {}, !.before = {}]
<1>1. /\ actor[a].step = "kill" /\ Busy(a) /\ Stage(a) /\ \A b \in Actor \ {a} : ~Busy(b)
      /\ UNCHANGED <<taken, config, pidFile>>
  BY InTurn DEF Busy, KillAll, At
<1>2. Pids' = Pids /\ \A p \in Pids : Alive(p)' => Alive(p)
  BY KillLives DEF KillAll, TypeOK
<1>3. NoneLive' /\ Found' /\ Clean' /\ pidFile' = NoFile
  BY <1>1, <1>2 DEF Stage, NoneLive, Found, Clean
<1>4. CASE Op(a) = "stop"
  BY <1>1, <1>2, <1>3, <1>4, EndTurns DEF KillAll
<1>5. CASE Op(a) # "stop"
  <2>1. /\ actor' = [actor EXCEPT ![a] = me]
        /\ actor \in [Actor -> ActorState] /\ actor[a] \in ActorState
    BY <1>5 DEF KillAll, Become, TypeOK
  <2>2. /\ \A b \in Actor \ {a} : actor'[b] = actor[b]
        /\ actor'[a].step = "config" /\ actor'[a].op = actor[a].op
        /\ actor'[a].listenPort = actor[a].listenPort
    BY <2>1 DEF ActorState
  <2>3. Busy(a)' /\ ~Watched(a)'
    BY <2>2 DEF Busy, Watched
  <2>4. (actor[a].listenPort # None => Fits(actor[a].listenPort))'
    <3>1. actor[a].listenPort # None => Fits(actor[a].listenPort)
      BY <1>1 DEF Stage
    <3> QED
      BY <1>1, <1>2, <2>2, <2>3, <3>1, GoOn
  <2>5. Stage(a)'
    BY <1>1, <1>3, <2>2, <2>4 DEF Stage
  <2> QED
    BY <1>1, <1>2, <2>2, <2>3, <2>5, GoOn
<1> QED
  BY <1>4, <1>5

-----------------------------------------------------------------------------
(* ---- start_proxy_process ---------------------------------------------- *)

\* The secrets are written while nothing lives.
LEMMA WriteConfigTurns ==
  ASSUME TypeOK, Turns, NEW a \in Actor, WriteConfig(a)
  PROVE  Turns'
<1> DEFINE me == [actor[a] EXCEPT !.step = "spawn", !.attempt = 0, !.rec = NoFile]
<1>1. /\ actor[a].step = "config" /\ Busy(a) /\ Stage(a)
      /\ UNCHANGED <<taken, procs, pidFile>> /\ Pids \subseteq Pids'
  BY InTurn DEF Busy, WriteConfig, At, Pids
<1>2. actor' = [actor EXCEPT ![a] = me] /\ actor \in [Actor -> ActorState] /\ actor[a] \in ActorState
  BY DEF WriteConfig, Become, TypeOK
<1>3. /\ \A b \in Actor \ {a} : actor'[b] = actor[b]
      /\ actor'[a].step = "spawn" /\ actor'[a].op = actor[a].op
      /\ actor'[a].listenPort = actor[a].listenPort
  BY <1>2 DEF ActorState
<1>4. Busy(a)' /\ ~Watched(a)'
  BY <1>3 DEF Busy, Watched
<1>5. (actor[a].listenPort # None => Fits(actor[a].listenPort))'
  <2>1. actor[a].listenPort # None => Fits(actor[a].listenPort)
    BY <1>1 DEF Stage
  <2> QED
    BY <1>1, <1>3, <1>4, <2>1, GoOn
<1>6. NoneLive' /\ pidFile' = NoFile
  BY <1>1 DEF Stage, NoneLive, Pids, Alive
<1>7. Stage(a)'
  BY <1>1, <1>3, <1>5, <1>6 DEF Stage
<1> QED
  BY <1>1, <1>3, <1>4, <1>7, GoOn

\* The port asked for fits, and so does the first one nobody has bound: while
\* nothing lives, a session of a greater port would say that it is taken.
LEMMA SpawnFits ==
  ASSUME Turns, NEW a \in Actor, actor[a].step = "spawn", Stage(a), NEW port \in Port,
         IF Forced(a) THEN port = actor[a].listenPort ELSE Available(port)
  PROVE  Fits(port)
<1>1. NoneLive /\ Busy(a) /\ port \in Nat
  BY PortAssumption DEF Stage, Busy
<1>2. CASE Forced(a)
  BY <1>1, <1>2 DEF Stage, Forced
<1>3. CASE ~Forced(a)
  <2>1. port \notin taken /\ SmallerTaken(port)
    BY <1>1, <1>3, NobodyAnswers DEF Available, SmallerTaken
  <2>2. ASSUME NEW b \in Actor, Watched(b) PROVE actor[b].listenPort <= port
    <3>1. /\ actor[b].listenPort \in Nat
          /\ \A q \in Port : q < actor[b].listenPort => q \in taken
      BY <2>2, PortAssumption DEF Turns, SmallerTaken
    <3> QED
      BY <1>1, <2>1, <3>1
  <2> QED
    BY <2>1, <2>2 DEF Fits
<1> QED
  BY <1>2, <1>3

\* What is spawned is all that lives.
LEMMA SpawnTurns ==
  ASSUME TypeOK, Turns, NEW a \in Actor, Spawn(a)
  PROVE  Turns'
<1>1. /\ actor[a].step = "spawn" /\ Busy(a) /\ Stage(a)
      /\ UNCHANGED <<taken, config, pidFile>> /\ procs \in Seq(Mitmdumps) /\ Len(procs) \in Nat
  BY InTurn DEF Busy, Spawn, At, TypeOK
<1>2. PICK port \in Port :
        /\ IF Forced(a) THEN port = actor[a].listenPort ELSE Available(port)
        /\ procs' = Append(procs, Spawned(port))
        /\ Become(a, [actor[a] EXCEPT !.step = "record", !.port = port,
                                      !.pid = Len(procs) + 1, !.attempt = @ + 1])
  BY DEF Spawn
<1>3. Fits(port)
  BY <1>1, <1>2, SpawnFits
<1> DEFINE me == [actor[a] EXCEPT !.step = "record", !.port = port,
                                  !.pid = Len(procs) + 1, !.attempt = @ + 1]
<1>4. actor' = [actor EXCEPT ![a] = me] /\ actor \in [Actor -> ActorState] /\ actor[a] \in ActorState
  BY <1>2 DEF Become, TypeOK
<1>5. /\ me.step = "record" /\ me.op = actor[a].op /\ me.listenPort = actor[a].listenPort
      /\ me.port = port /\ me.pid = Len(procs) + 1
  BY <1>4 DEF ActorState
<1>6. actor'[a] = me /\ \A b \in Actor \ {a} : actor'[b] = actor[b]
  BY <1>4
<1> HIDE DEF me
<1>7. Busy(a)' /\ ~Watched(a)'
  BY <1>5, <1>6 DEF Busy, Watched
<1>8. /\ Pids' = Pids \cup {Len(procs) + 1}
      /\ \A p \in Pids : procs'[p] = procs[p]
      /\ procs'[Len(procs) + 1] = Spawned(port)
  BY <1>1, <1>2 DEF Pids
<1>9. \A p \in Pids' : Alive(p)' => p = Len(procs) + 1 /\ procs'[p] = Spawned(port)
  BY <1>1, <1>8 DEF Stage, NoneLive, Alive
<1>10. (actor[a].listenPort # None => Fits(actor[a].listenPort))'
  <2>1. actor[a].listenPort # None => Fits(actor[a].listenPort)
    BY <1>1 DEF Stage
  <2> QED
    BY <1>1, <1>5, <1>6, <1>7, <1>8, <2>1, GoOn
<1>11. Fits(actor[a].port)'
  BY <1>1, <1>3, <1>5, <1>6, <1>7, <1>8, GoOn
<1>12. \A p \in Pids' : Alive(p)' =>
         /\ p = actor'[a].pid /\ procs'[p].port = actor'[a].port
         /\ procs'[p].phase \notin {"loaded", "up"}
  BY <1>5, <1>6, <1>9 DEF Spawned
<1>13. Stage(a)'
  BY <1>1, <1>2, <1>5, <1>6, <1>8, <1>10, <1>11, <1>12 DEF Stage, Forced
<1> QED
  BY <1>1, <1>6, <1>7, <1>8, <1>13, GoOn

\* A set of ports has a least one.
Before == {p \in Nat \X Nat : p[1] < p[2]}

LEMMA LeastPort ==
  ASSUME NEW T, T \subseteq Nat, T # {}
  PROVE  \E x \in T : \A y \in T : x <= y
<1>1. IsWellFoundedOn(Before, Nat)
  <2>1. OpToRel(<, Nat) = Before
    BY Zenon DEF OpToRel, Before
  <2> QED
    BY <2>1, NatLessThanWellFounded, Zenon
<1>2. PICK x \in T : \A y \in T : ~(<<y, x>> \in Before)
  BY <1>1, WFMin, Zenon
<1>3. ASSUME NEW y \in T PROVE x <= y
  <2>1. x \in Nat /\ y \in Nat /\ <<y, x>> \notin Before
    BY <1>2
  <2> QED
    BY <2>1 DEF Before
<1> QED
  BY <1>3

\* While nothing lives and no other program listens, some port is free.
LEMMA PortFree ==
  ASSUME NoneLive, taken = {}
  PROVE  \E port \in Port : Available(port)
<1>1. PICK port \in Port : \A q \in Port : port <= q
  BY PortAssumption, LeastPort
<1>2. \A q \in Port : q \in Nat
  BY PortAssumption
<1>3. \A q \in Port : ~(q < port)
  BY <1>1, <1>2
<1> QED
  BY <1>3, NobodyAnswers DEF Available

\* A start that finds no port leaves its secrets only if others have the ports.
LEMMA NoPortTurns ==
  ASSUME TypeOK, Turns, NEW a \in Actor, NoPort(a)
  PROVE  Turns'
<1>1. /\ actor[a].step = "spawn" /\ Busy(a) /\ Stage(a) /\ \A b \in Actor \ {a} : ~Busy(b)
      /\ UNCHANGED <<taken, procs, config, pidFile>> /\ Pids' = Pids
  BY InTurn DEF Busy, NoPort, At, Pids
<1>2. NoneLive' /\ Found'
  BY <1>1 DEF Stage, NoneLive, Found, Alive
<1>3. taken # {}
  BY <1>1, PortFree DEF Stage, NoPort
<1>4. Clean'
  BY <1>1, <1>3 DEF Clean
<1>5. Op(a) # "restart"
  BY <1>1, NobodyOnFile DEF Stage, NoPort, Forced, Op
<1>6. End(a, "ended") \/ End(a, "idle")
  BY <1>5 DEF NoPort, Fail
<1> QED
  BY <1>1, <1>2, <1>4, <1>6, EndTurns

\* The record is of the mitmdump that was spawned.
LEMMA WritePidFileTurns ==
  ASSUME TypeOK, Turns, NEW a \in Actor, WritePidFile(a)
  PROVE  Turns'
<1>1. /\ actor[a].step = "record" /\ Busy(a) /\ Stage(a) /\ \A b \in Actor \ {a} : ~Busy(b)
      /\ UNCHANGED <<taken, procs, config>> /\ Pids' = Pids
  BY InTurn DEF Busy, WritePidFile, At, Pids
<1>2. /\ \A b \in Actor \ {a} : actor'[b] = actor[b]
      /\ actor'[a].step = "wait" /\ actor'[a].op = actor[a].op
      /\ actor'[a].listenPort = actor[a].listenPort
      /\ actor'[a].port = actor[a].port /\ actor'[a].pid = actor[a].pid
  BY GotoNext DEF WritePidFile
<1>3. Busy(a)' /\ ~Watched(a)'
  BY <1>2 DEF Busy, Watched
<1>4. \A port : Fits(port) => Fits(port)'
  BY <1>1, <1>2, <1>3, FitsNext
<1>5. (actor[a].listenPort # None => Fits(actor[a].listenPort))'
  <2>1. actor[a].listenPort # None => Fits(actor[a].listenPort)
    BY <1>1 DEF Stage
  <2> QED
    BY <1>2, <1>4, <2>1
<1>6. pidFile'.pid = actor[a].pid /\ pidFile'.port = actor[a].port
  BY DEF WritePidFile
<1>7. actor[a].pid \in Pids /\ Fits(actor[a].port)
  BY <1>1 DEF Stage
<1>8. Fits(actor[a].port)' /\ OnFile'
  <2>1. Fits(actor[a].port)'
    BY <1>2, <1>4, <1>7
  <2>2. Fits(pidFile.port)'
    BY <1>4, <1>6, <1>7
  <2> QED
    BY <1>1, <1>6, <1>7, <2>1, <2>2 DEF OnFile
<1>9. \A p \in Pids' : Alive(p)' =>
        /\ p = actor'[a].pid /\ procs'[p].port = actor'[a].port
        /\ procs'[p].phase \in {"loaded", "up"} => Clean'
  BY <1>1, <1>2 DEF Stage, Alive, Clean
<1>10. Stage(a)'
  BY <1>1, <1>2, <1>5, <1>6, <1>7, <1>8, <1>9 DEF Stage
<1> QED
  BY <1>1, <1>2, <1>3, <1>8, <1>10, LoneTurns

\* Whoever answers, it is the mitmdump on file, or another program has its port.
LEMMA ReadyTurns ==
  ASSUME TypeOK, Turns, NEW a \in Actor, Ready(a)
  PROVE  Turns'
<1>1. /\ actor[a].step = "wait" /\ Busy(a) /\ Stage(a) /\ \A b \in Actor \ {a} : ~Busy(b)
      /\ UNCHANGED <<taken, procs, config, pidFile>> /\ Pids' = Pids /\ Answers(actor[a].port)
  BY InTurn DEF Busy, Ready, At, Pids
<1>2. /\ pidFile.pid = actor[a].pid /\ pidFile.port = actor[a].port
      /\ actor[a].pid \in Pids /\ Fits(actor[a].port)
      /\ \A p \in Pids : Alive(p) =>
           /\ p = actor[a].pid /\ procs[p].port = actor[a].port
           /\ procs[p].phase \in {"loaded", "up"} => Clean
  BY <1>1 DEF Stage
<1>3. Found
  <2> SUFFICES ASSUME NEW p \in Pids, Alive(p)
               PROVE  procs[p].phase = "up" \/ procs[p].port \in taken
    BY <1>2 DEF Found
  <2>1. CASE actor[a].port \in taken
    BY <1>2, <2>1
  <2>2. CASE actor[a].port \notin taken
    <3>1. PICK q \in Pids : procs[q].phase = "up"
      BY <1>1, <2>2 DEF Answers
    <3> QED
      BY <1>2, <3>1 DEF Alive
  <2> QED
    BY <2>1, <2>2
<1>4. Clean
  <2> SUFFICES ASSUME taken = {} PROVE Clean
    BY DEF Clean
  <2>1. PICK q \in Pids : procs[q].phase = "up"
    BY <1>1 DEF Answers
  <2> QED
    BY <1>2, <2>1 DEF Alive
<1>5. Found' /\ Clean'
  BY <1>1, <1>3, <1>4 DEF Found, Clean, Alive
<1>6. CASE End(a, "idle")
  BY <1>1, <1>5, <1>6, EndTurns
<1>7. CASE Goto(a, "readback")
  <2>1. /\ \A b \in Actor \ {a} : actor'[b] = actor[b]
        /\ actor'[a].step = "readback" /\ actor'[a].op = actor[a].op
        /\ actor'[a].listenPort = actor[a].listenPort
    BY <1>7, GotoNext
  <2>2. Busy(a)' /\ ~Watched(a)'
    BY <2>1 DEF Busy, Watched
  <2>3. (actor[a].listenPort # None => Fits(actor[a].listenPort))'
    <3>1. actor[a].listenPort # None => Fits(actor[a].listenPort)
      BY <1>1 DEF Stage
    <3> QED
      BY <1>1, <2>1, <2>2, <3>1, GoOn
  <2>4. pidFile # NoFile
    BY <1>2, NobodyOnFile DEF NoFile
  <2>5. actor[a].op = "restart" => actor[a].listenPort \in Port /\ actor[a].listenPort = pidFile.port
    BY <1>1, <1>2, NobodyOnFile DEF Stage
  <2>6. Stage(a)'
    BY <1>1, <1>5, <2>1, <2>3, <2>4, <2>5 DEF Stage
  <2> QED
    BY <1>1, <2>1, <2>2, <2>6, GoOn
<1> QED
  BY <1>6, <1>7 DEF Ready

\* The mitmdump that did not answer was all that lived.
LEMMA TimedOutTurns ==
  ASSUME TypeOK, Turns, NEW a \in Actor, TimedOut(a)
  PROVE  Turns'
<1>1. /\ actor[a].step = "wait" /\ Busy(a) /\ Stage(a) /\ Kill({actor[a].pid}) /\ Goto(a, "retract")
      /\ UNCHANGED <<taken, config, pidFile>>
  BY InTurn DEF Busy, TimedOut, At
<1>2. NoneLive' /\ Pids' = Pids
  BY <1>1, KillLives DEF Stage, NoneLive, TypeOK
<1>3. Stage(a)'
  BY <1>1, <1>2, GotoTurns DEF Stage
<1> QED
  BY <1>1, <1>2, <1>3, GotoTurns

\* A start that failed takes its secrets back, unless it tries again.
LEMMA RetractTurns ==
  ASSUME TypeOK, Turns, NEW a \in Actor, Retract(a)
  PROVE  Turns'
<1>1. /\ actor[a].step = "retract" /\ Busy(a) /\ Stage(a) /\ \A b \in Actor \ {a} : ~Busy(b)
      /\ UNCHANGED <<taken, procs>> /\ pidFile' = NoFile /\ Pids' = Pids
  BY InTurn DEF Busy, Retract, At, Pids
<1>2. NoneLive' /\ Found'
  BY <1>1 DEF Stage, NoneLive, Found, Alive
<1>3. CASE AttemptsLeft(a)
  <2>1. Goto(a, "spawn")
    BY <1>3 DEF Retract
  <2>2. Stage(a)'
    BY <1>1, <1>2, <2>1, GotoTurns DEF Stage
  <2> QED
    BY <1>1, <2>1, <2>2, GotoTurns
<1>4. CASE ~AttemptsLeft(a)
  <2>1. Clean' /\ Fail(a)
    BY <1>4 DEF Retract, Clean, NoConfig
  <2>2. CASE End(a, "ended") \/ End(a, "idle")
    BY <1>1, <1>2, <2>1, <2>2, EndTurns
  <2>3. CASE Op(a) = "restart" /\ Goto(a, "reprobe")
    <3>1. /\ \A b \in Actor \ {a} : actor'[b] = actor[b]
          /\ actor'[a].step = "reprobe" /\ actor'[a].op = "restart"
          /\ actor'[a].listenPort = actor[a].listenPort
      BY <2>3, GotoNext DEF Op
    <3>2. actor[a].listenPort \in Port /\ Fits(actor[a].listenPort)
      BY <1>1, <2>3, NobodyOnFile DEF Stage, Op
    <3> PICK port : port = actor[a].listenPort
      OBVIOUS
    <3>3. port \in Port /\ port \in Nat /\ Fits(port) /\ actor'[a].listenPort = port
      BY <3>1, <3>2, PortAssumption
    <3>4. Fits(port)'
      <4>1. actor'[a].listenPort <= port
        BY <3>3
      <4> QED
        BY <1>1, <3>1, <3>3, <4>1, FitsNext
    <3>5. Fits(actor[a].listenPort)'
      BY <3>3, <3>4
    <3>6. Stage(a)'
      BY <1>2, <2>1, <3>1, <3>3, <3>5 DEF Stage
    <3>7. (Watched(a) => actor[a].listenPort \in Port /\ SmallerTaken(actor[a].listenPort))'
      BY <3>5 DEF Fits
    <3>8. OnFile'
      BY <1>1 DEF OnFile
    <3> QED
      BY <1>1, <1>2, <2>1, <3>1, <3>6, <3>7, <3>8, LoneTurns
  <2> QED
    BY <2>1, <2>2, <2>3 DEF Fail
<1> QED
  BY <1>3, <1>4

-----------------------------------------------------------------------------
(* ---- run and its watchdog --------------------------------------------- *)

\* A session that has found its proxy watches the port on file.
LEMMA ServeTurns ==
  ASSUME TypeOK, Turns, NEW a \in Actor, Busy(a), NEW p, Serve(a, pidFile.port, p), pidFile # NoFile,
         Found, Clean, UNCHANGED <<taken, procs, config, pidFile>>
  PROVE  Turns'
<1>1. /\ \A b \in Actor \ {a} : actor'[b] = actor[b] /\ ~Busy(b)
      /\ actor'[a].step = "serving" /\ actor'[a].listenPort = pidFile.port
  BY InTurn, ServeNext
<1>2. Found' /\ Clean' /\ Pids' = Pids
  BY DEF Found, Clean, Pids, Alive
<1>3. OnFile'
  BY <1>1, <1>2, FileNext
<1>4. actor'[a].listenPort \in Port /\ SmallerTaken(actor[a].listenPort)'
  <2>1. Fits(pidFile.port)'
    BY <1>3 DEF OnFile
  <2> QED
    BY <1>1, <2>1 DEF Fits
<1>5. Stage(a)'
  BY <1>1 DEF Stage, Busy
<1> QED
  BY <1>1, <1>2, <1>3, <1>4, <1>5, LoneTurns

\* The file is read back as it was written, or as it was when the proxy was found.
LEMMA ServingTurns ==
  ASSUME TypeOK, Turns, NEW a \in Actor, ReadBack(a) \/ Reuse(a)
  PROVE  Turns'
<1>1. /\ actor[a].step \in {"readback", "reuse"} /\ Busy(a) /\ Stage(a)
      /\ UNCHANGED <<taken, procs, config, pidFile>>
  BY InTurn DEF Busy, ReadBack, Reuse, At
<1>2. pidFile # NoFile /\ Found /\ Clean
  BY <1>1 DEF Stage
<1>3. CASE ReadBack(a)
  <2>1. Serve(a, pidFile.port, actor[a].pid)
    BY <1>1, <1>2, <1>3 DEF Stage, ReadBack, At, Op
  <2> QED
    BY <1>1, <1>2, <2>1, ServeTurns
<1>4. CASE Reuse(a)
  <2>1. Serve(a, pidFile.port, pidFile.pid)
    BY <1>1, <1>2, <1>4 DEF Stage, Reuse, At
  <2> QED
    BY <1>1, <1>2, <2>1, ServeTurns
<1> QED
  BY <1>3, <1>4

\* A watchdog that only looks, or a session that ends, whoever is busy meanwhile.
LEMMA AsideTurns ==
  ASSUME Turns, NEW a \in Actor, \A b \in Actor \ {a} : actor'[b] = actor[b],
         ~Busy(a), ~Busy(a)', UNCHANGED <<procs, taken, config, pidFile>>,
         Watched(a)' => Watched(a) /\ actor'[a].listenPort = actor[a].listenPort
  PROVE  Turns'
<1>1. /\ Pids' = Pids
      /\ \A b \in Actor : Busy(b)' <=> Busy(b)
      /\ \A b \in Actor : Watched(b)' => Watched(b) /\ actor'[b].listenPort = actor[b].listenPort
      /\ \A b \in Actor : Busy(b) => actor'[b] = actor[b]
  BY DEF Busy, Watched, Pids
<1>2. \A port : Fits(port) => Fits(port)'
  BY <1>1, FitsStill
<1>3. /\ Found <=> Found'
      /\ Clean <=> Clean'
      /\ NoneLive <=> NoneLive'
      /\ \A port : SmallerTaken(port) => SmallerTaken(port)'
  BY <1>1 DEF Found, Clean, NoneLive, Alive, SmallerTaken
<1>4. ASSUME NEW b \in Actor PROVE Stage(b)'
  <2>1. CASE ~Busy(b)'
    BY <2>1 DEF Stage, Busy
  <2>2. CASE Busy(b)'
    <3>1. Stage(b) /\ actor'[b] = actor[b] /\ Busy(b)
      BY <1>1, <2>2 DEF Turns
    <3> QED
      BY <1>1, <1>2, <1>3, <2>2, <3>1 DEF Stage, Alive
  <2> QED
    BY <2>1, <2>2
<1>5. OnFile'
  BY <1>1, <1>2 DEF Turns, OnFile
<1>6. ASSUME NEW b \in Actor, Watched(b)'
      PROVE  actor'[b].listenPort \in Port /\ SmallerTaken(actor[b].listenPort)'
  <2>1. Watched(b) /\ actor'[b].listenPort = actor[b].listenPort
    BY <1>1, <1>6
  <2>2. actor[b].listenPort \in Port /\ SmallerTaken(actor[b].listenPort)
    BY <2>1 DEF Turns
  <2> QED
    BY <1>3, <2>1, <2>2
<1> QED
  BY <1>1, <1>3, <1>4, <1>5, <1>6 DEF Turns

\* A session notices that nobody answers, or ends.
LEMMA NoticeTurns ==
  ASSUME TypeOK, Turns, NEW a \in Actor, Notice(a) \/ EndSession(a)
  PROVE  Turns'
<1>1. ~Busy(a) /\ UNCHANGED <<procs, taken, config, pidFile>>
  BY DEF Notice, EndSession, At, Busy
<1>2. CASE Notice(a)
  <2>1. /\ \A b \in Actor \ {a} : actor'[b] = actor[b]
        /\ actor'[a].step = "grace" /\ actor'[a].listenPort = actor[a].listenPort
    BY <1>2, GotoNext DEF Notice
  <2>2. ~Busy(a)' /\ Watched(a)
    BY <1>2, <2>1 DEF Busy, Watched, Notice, At
  <2> QED
    BY <1>1, <2>1, <2>2, AsideTurns
<1>3. CASE EndSession(a)
  <2>1. /\ \A b \in Actor \ {a} : actor'[b] = actor[b]
        /\ actor'[a].step = "ended"
    BY <1>3, EndNext DEF EndSession
  <2>2. ~Busy(a)' /\ ~Watched(a)'
    BY <2>1 DEF Busy, Watched
  <2> QED
    BY <1>1, <2>1, <2>2, AsideTurns
<1> QED
  BY <1>2, <1>3

\* A watchdog whose port answers again goes on with it, after a restart too.
LEMMA RecoveredTurns ==
  ASSUME TypeOK, Turns, NEW a \in Actor, Recovered(a)
  PROVE  Turns'
<1>1. /\ actor[a].step \in {"grace", "reprobe"} /\ Watched(a)
      /\ UNCHANGED <<procs, taken, config, pidFile>> /\ Pids' = Pids
  BY DEF Recovered, Watched, Pids
<1>2. /\ \A b \in Actor \ {a} : actor'[b] = actor[b]
      /\ actor'[a].step = "serving" /\ actor'[a].listenPort = actor[a].listenPort
  BY ServeNext DEF Recovered
<1>3. ~Busy(a)'
  BY <1>2 DEF Busy
<1>4. CASE ~Busy(a)
  BY <1>1, <1>2, <1>3, <1>4, AsideTurns
<1>5. CASE Busy(a)
  <2>1. Stage(a) /\ actor[a].step = "reprobe" /\ \A b \in Actor \ {a} : ~Busy(b)
    BY <1>1, <1>5, InTurn DEF Busy
  <2>2. Found' /\ Clean'
    BY <1>1, <2>1 DEF Stage, Found, Clean, Alive
  <2>3. Stage(a)'
    BY <1>2 DEF Stage, Busy
  <2>4. OnFile'
    BY <1>1, <1>2, FileNext
  <2>5. actor'[a].listenPort \in Port /\ SmallerTaken(actor[a].listenPort)'
    BY <1>1, <1>2 DEF Turns, SmallerTaken
  <2> QED
    BY <1>1, <1>2, <2>1, <2>2, <2>3, <2>4, <2>5, LoneTurns
<1> QED
  BY <1>4, <1>5

\* A watchdog gives up.
LEMMA GiveUpTurns ==
  ASSUME TypeOK, Turns, NEW a \in Actor, GiveUp(a)
  PROVE  Turns'
<1>1. /\ actor[a].step = "reprobe" /\ Busy(a) /\ Stage(a) /\ \A b \in Actor \ {a} : ~Busy(b)
      /\ UNCHANGED <<procs, taken, config, pidFile>> /\ Pids' = Pids /\ End(a, "ended")
  BY InTurn DEF GiveUp, At, Busy, Pids
<1>2. Found' /\ Clean'
  BY <1>1 DEF Stage, Found, Clean, Alive
<1> QED
  BY <1>1, <1>2, EndTurns

\* A watchdog whose port is silent starts a proxy when nothing lives: what did
\* would be on file, its port no smaller than the watchdog's, and all smaller
\* ones would be taken.
LEMMA RestartProxyTurns ==
  ASSUME TypeOK, Turns, ~overlapped', NEW a \in Actor, RestartProxy(a)
  PROVE  Turns'
<1> DEFINE me == [actor[a] EXCEPT !.step = "check", !.op = "restart", !.secrets = secretsNow]
<1>1. /\ actor[a].step = "grace" /\ ~Busy(a) /\ Watched(a) /\ ~Answers(actor[a].listenPort)
      /\ \A b \in Actor \ {a} : ~Busy(b)
      /\ UNCHANGED <<procs, taken, config, pidFile>> /\ Pids' = Pids
  BY DEF RestartProxy, Begin, At, Busy, Watched, Pids
<1>2. Found /\ Clean
  BY <1>1 DEF Turns
<1> PICK port : port = actor[a].listenPort
  OBVIOUS
<1>3. port \in Port /\ port \in Nat /\ SmallerTaken(port) /\ port \notin taken
  BY <1>1, PortAssumption DEF Turns, Answers
<1>4. NoneLive
  <2> SUFFICES ASSUME NEW p \in Pids, Alive(p) PROVE FALSE
    BY DEF NoneLive
  <2>1. p = pidFile.pid /\ procs[p].port = pidFile.port
        /\ (procs[p].phase = "up" \/ procs[p].port \in taken)
    BY <1>2 DEF Found
  <2>2. Fits(pidFile.port) /\ pidFile.port \in Nat
    <3>1. pidFile # NoFile
      BY <2>1, NobodyOnFile DEF NoFile
    <3>2. Fits(pidFile.port)
      BY <3>1 DEF Turns, OnFile
    <3> QED
      BY <3>2, PortAssumption DEF Fits
  <2>3. port <= pidFile.port /\ (port < pidFile.port => port \in taken)
    BY <1>1, <1>3, <2>2 DEF Fits, SmallerTaken
  <2>4. port = pidFile.port
    BY <1>3, <2>2, <2>3
  <2> QED
    BY <1>1, <1>3, <2>1, <2>4 DEF Answers
<1>5. Fits(port)
  <2> SUFFICES ASSUME NEW b \in Actor, Watched(b) PROVE actor[b].listenPort <= port
    BY <1>3 DEF Fits
  <2>1. /\ actor[b].listenPort \in Nat
        /\ port < actor[b].listenPort => port \in taken
    BY <1>3, PortAssumption DEF Turns, SmallerTaken
  <2> QED
    BY <1>3, <2>1
<1>6. actor' = [actor EXCEPT ![a] = me] /\ actor \in [Actor -> ActorState] /\ actor[a] \in ActorState
  BY DEF RestartProxy, Become, TypeOK
<1>7. /\ \A b \in Actor \ {a} : actor'[b] = actor[b]
      /\ actor'[a].step = "check" /\ actor'[a].op = "restart" /\ actor'[a].listenPort = port
  BY <1>6 DEF ActorState
<1>8. Busy(a)' /\ ~Watched(a)'
  BY <1>7 DEF Busy, Watched
<1>9. Fits(port)' /\ OnFile'
  BY <1>1, <1>5, <1>7, <1>8, FitsNext, FileNext
<1>10. Fits(actor[a].listenPort)'
  BY <1>7, <1>9
<1>11. Found' /\ Clean' /\ NoneLive'
  BY <1>1, <1>2, <1>4 DEF Found, Clean, NoneLive, Alive
<1>12. Stage(a)'
  BY <1>3, <1>7, <1>10, <1>11 DEF Stage
<1> QED
  BY <1>1, <1>7, <1>8, <1>9, <1>12, LoneTurns

-----------------------------------------------------------------------------
(* ---- the theorems ----------------------------------------------------- *)

\* Steps that no other command overlaps leave things in order.
LEMMA StepTurns == TypeOK /\ Turns /\ ~overlapped' /\ [Next]_vars => Turns'
<1> SUFFICES ASSUME TypeOK, Turns, ~overlapped', [Next]_vars
             PROVE  Turns'
  OBVIOUS
<1>1. ASSUME NEW a \in Actor, Stopping(a)
      PROVE  Turns'
  BY <1>1, StopRecordedTurns, StopUnlinkTurns, FindAllTurns, KillAllTurns DEF Stopping
<1>2. ASSUME NEW a \in Actor, Starting(a)
      PROVE  Turns'
  BY <1>2, ReadPidFileTurns, ProbeStaleTurns, ProbeRunningTurns, WriteConfigTurns, SpawnTurns,
     NoPortTurns, WritePidFileTurns, ReadyTurns, TimedOutTurns, RetractTurns DEF Starting
<1>3. ASSUME NEW a \in Actor, Watching(a) \/ EndSession(a)
      PROVE  Turns'
  BY <1>3, ServingTurns, NoticeTurns, RecoveredTurns, RestartProxyTurns, GiveUpTurns DEF Watching
<1>4. CASE Poll \/ Probe \/ UNCHANGED vars
  <2>1. UNCHANGED <<procs, taken, config, actor, pidFile>>
    BY <1>4 DEF Poll, Probe, vars
  <2>2. LiveOn
    BY <2>1 DEF LiveOn, Pids, Alive
  <2> QED
    BY <2>1, <2>2, WorldTurns
<1> QED
  BY <1>1, <1>2, <1>3, <1>4, WorldStep, BeginTurns DEF Next

\* At first nothing lives, and no secrets are on disk.
LEMMA InitTurns == Init => Turns
<1> SUFFICES ASSUME Init PROVE Turns
  OBVIOUS
<1>1. \A a \in Actor : actor[a].step = "idle"
  BY DEF Init, Fresh
<1>2. Pids = {} /\ pidFile = NoFile /\ config < 1
  BY DEF Init, Pids, NoConfig
<1>3. \A a \in Actor : ~Busy(a) /\ ~Watched(a)
  BY <1>1 DEF Busy, Watched
<1> QED
  BY <1>2, <1>3, IdleStage DEF Turns, Found, Clean, OnFile

\* overlapped is a history: it stays.
LEMMA OverlappedStays == [Next]_vars /\ overlapped => overlapped'
<1> SUFFICES ASSUME [Next]_vars, overlapped PROVE overlapped'
  OBVIOUS
<1>1. ASSUME NEW a \in Actor,
             Run(a) \/ Start(a) \/ VaultSet(a) \/ Stop(a) \/ GatewayStartup(a) \/ GatewayShutdown(a)
      PROVE  overlapped'
  BY <1>1 DEF Run, Start, VaultSet, Stop, GatewayStartup, GatewayShutdown, Command, Begin
<1>2. ASSUME NEW a \in Actor, Stopping(a) \/ Starting(a) \/ Watching(a) \/ EndSession(a)
      PROVE  overlapped'
  BY <1>2 DEF Stopping, StopRecorded, StopUnlink, FindAll, KillAll, Starting, ReadPidFile, ProbeStale,
     ProbeRunning, WriteConfig, Spawn, NoPort, WritePidFile, Ready, TimedOut, Retract, Watching,
     ReadBack, Reuse, Notice, Recovered, RestartProxy, GiveUp, EndSession, Begin, bounds
<1>3. ASSUME \/ \E p \in Pids : Mitmdump(p) \/ Crash(p)
             \/ \E port \in Taking : Take(port)
             \/ Poll \/ Probe \/ UNCHANGED vars
      PROVE  overlapped'
  BY <1>3 DEF Mitmdump, ReadConfig, ScrubConfig, Bind, Crash, Take, Poll, Probe, vars, bounds
<1> QED
  BY <1>1, <1>2, <1>3 DEF Next

\* As long as no command overlaps another that starts or stops, whoever is busy
\* finds the mitmdumps, the PID file and the configuration as its step expects.
THEOREM TurnsTaken == Spec => [](TypeOK /\ (~overlapped => Turns))
<1>1. TypeOK /\ (~overlapped => Turns) /\ [Next]_vars => (~overlapped => Turns)'
  BY StepTurns, OverlappedStays
<1> QED
  BY <1>1, SweepComplete, InitTurns, PTL DEF Spec

\* Between commands that took turns, a proxy that listens is the one on file.
THEOREM ListeningOnFile == Spec => []NoOrphan
<1>1. (~overlapped => Turns) => NoOrphan
  BY DEF NoOrphan, Turns, Found, Alive
<1> QED
  BY <1>1, TurnsTaken, PTL

\* Outside of a start no secrets are on disk.
THEOREM SecretsRemoved == Spec => []SecretsOnDisk
<1>1. TypeOK /\ (~overlapped => Turns) => SecretsOnDisk
  <2> SUFFICES ASSUME TypeOK, Turns, config >= 1, taken = {}
               PROVE  \E a \in Actor : actor[a].step \in {"spawn", "record", "wait", "retract"}
    BY DEF SecretsOnDisk
  <2>1. ~Clean
    BY DEF Clean, TypeOK
  <2>2. PICK a \in Actor : Busy(a)
    BY <2>1 DEF Turns
  <2>3. /\ actor[a].step \in Steps
        /\ actor[a].step \notin {"check", "probe", "stop", "reuse", "readback", "reprobe",
                                 "unlink", "sweep", "kill", "config"}
        /\ actor[a].step \notin {"idle", "serving", "grace", "unwatched", "ended"}
    BY <2>1, <2>2 DEF Turns, Stage, Busy, TypeOK, ActorState
  <2> QED
    BY <2>3 DEF Steps
<1> QED
  BY <1>1, TurnsTaken, PTL
=============================================================================
