---------------------------- MODULE ProxyProcess ----------------------------
(***************************************************************************)
(* The proxy's processes and the files by which sessions find them:        *)
(* proxy/runner.py, the loading of the addon in proxy/entry.py, and the    *)
(* commands run, start, stop and vault set of cli.py with the watchdog of  *)
(* every run.                                                              *)
(*                                                                         *)
(* An actor is one hermes-aegis process, with its watchdog; it executes    *)
(* one command at a time, a file operation, a probe or a kill at a step.   *)
(* A mitmdump is a number, in the order of their spawning; numbers, unlike *)
(* PIDs, are not used again.  The clock is left out: a wait ends at any    *)
(* time, once what it waits for has not happened.                          *)
(***************************************************************************)
EXTENDS Integers, Sequences, FiniteSets

CONSTANTS
  Session,     \* actors that execute run
  Shell,       \* actors that execute start, stop and vault set
  Port,        \* ports 8443 to 8499
  Attempts,    \* max_attempts
  Taking,      \* ports another program may take
  MaxProcs, MaxVault, MaxCommands, MaxEvents   \* bounds

\* There are ports, and 0 is none of them.
ASSUME PortAssumption == Port \subseteq Nat \ {0} /\ Port # {}

VARIABLES
  procs,      \* the mitmdumps: phase, port and the secrets they have loaded
  taken,      \* ports other programs listen on
  secretsNow, \* the version of the vault's secrets
  pidFile,    \* proxy.pid
  config,     \* proxy-config.json: a version of the secrets, or see below
  actor,      \* [Actor -> its step and the locals of its command]
  gateway,    \* the gateway's step, and the record its handler has read
  commands, events,  \* bounds: events are crashes and starts of the gateway
  overlapped  \* history: two commands, one of which starts or stops, overlapped

vars == <<procs, taken, secretsNow, pidFile, config, actor, gateway, commands, events, overlapped>>
bounds == <<gateway, commands, events, overlapped>>

-----------------------------------------------------------------------------
Actor == Session \cup Shell
None == 0
NoConfig == -1      \* no proxy-config.json
Scrubbed == 0       \* one without secrets; versions start at 1
NoFile == [pid |-> None, port |-> None, hash |-> None]
Pids == 1..Len(procs)

Alive(p) == procs[p].phase # "dead"
Living == {p \in Pids : Alive(p)}
\* connect() to a port succeeds.
Answers(port) == port \in taken \/ \E p \in Pids : procs[p].phase = "up" /\ procs[p].port = port

Dead == [phase |-> "dead", port |-> None, has |-> None]
Kill(ps) == procs' = [p \in Pids |-> IF p \in ps THEN Dead ELSE procs[p]]

\* pid is proc.pid, then the watchdog's current_pid; listenPort is the port
\* asked for, then the session's; before is a history of stop_proxy.
Fresh == [step |-> "idle", op |-> "none", rec |-> NoFile, secrets |-> None,
          listenPort |-> None, port |-> None, pid |-> None, attempt |-> 0,
          targets |-> {}, before |-> {}]
At(a, step) == actor[a].step = step
Op(a) == actor[a].op
Become(a, me) == actor' = [actor EXCEPT ![a] = me]
Goto(a, step) == Become(a, [actor[a] EXCEPT !.step = step])
End(a, step) == Become(a, [Fresh EXCEPT !.step = step])

\* A command that starts or stops proxies is under way.
Busy(a) == actor[a].step \notin {"idle", "serving", "grace", "unwatched", "ended"}
Begin(a) == overlapped' = (overlapped \/ \E b \in Actor \ {a} : Busy(b))

Init ==
  /\ procs = <<>> /\ taken = {} /\ secretsNow = 1
  /\ pidFile = NoFile /\ config = NoConfig
  /\ actor = [a \in Actor |-> Fresh]
  /\ gateway = [step |-> "down", rec |-> NoFile]
  /\ commands = 0 /\ events = 0 /\ overlapped = FALSE

(* ---- mitmdump ---------------------------------------------------------- *)

\* _load_addon reads the configuration; an absent or zeroed one means none.
ReadConfig(p) ==
  /\ procs[p].phase = "spawned"
  /\ procs' = [procs EXCEPT ![p].phase = IF config = NoConfig THEN "loaded" ELSE "read",
                            ![p].has = IF config = NoConfig THEN None ELSE config]
  /\ UNCHANGED <<taken, secretsNow, pidFile, config, actor, bounds>>

\* ... and overwrites it by one without secrets.
ScrubConfig(p) ==
  /\ procs[p].phase = "read"
  /\ config' = Scrubbed
  /\ procs' = [procs EXCEPT ![p].phase = "loaded"]
  /\ UNCHANGED <<taken, secretsNow, pidFile, actor, bounds>>

Bind(p) ==
  /\ procs[p].phase = "loaded"
  /\ IF Answers(procs[p].port) THEN Kill({p}) ELSE procs' = [procs EXCEPT ![p].phase = "up"]
  /\ UNCHANGED <<taken, secretsNow, pidFile, config, actor, bounds>>

Crash(p) ==
  /\ events < MaxEvents /\ Alive(p)
  /\ events' = events + 1
  /\ Kill({p})
  /\ UNCHANGED <<taken, secretsNow, pidFile, config, actor, gateway, commands, overlapped>>

\* Another program listens on a port that was free.
Take(port) ==
  /\ ~Answers(port)
  /\ taken' = taken \cup {port}
  /\ UNCHANGED <<procs, secretsNow, pidFile, config, actor, bounds>>

(* ---- commands ---------------------------------------------------------- *)

Command(a, me) ==
  /\ At(a, "idle") /\ commands < MaxCommands
  /\ commands' = commands + 1
  /\ Begin(a)
  /\ Become(a, me)
  /\ UNCHANGED <<procs, taken, pidFile, config>>

\* run reads the vault before anything else, start once nothing runs.
Run(a) ==
  /\ a \in Session
  /\ Command(a, [Fresh EXCEPT !.step = "check", !.op = "run", !.secrets = secretsNow])
  /\ UNCHANGED <<secretsNow, gateway, events>>

Start(a) ==
  /\ a \in Shell
  /\ Command(a, [Fresh EXCEPT !.step = "check", !.op = "start"])
  /\ UNCHANGED <<secretsNow, gateway, events>>

\* vault set, then _restart_proxy_if_running.
VaultSet(a) ==
  /\ a \in Shell /\ secretsNow < MaxVault
  /\ secretsNow' = secretsNow + 1
  /\ Command(a, [Fresh EXCEPT !.step = "check", !.op = "set"])
  /\ UNCHANGED <<gateway, events>>

Stop(a) ==
  /\ a \in Shell
  /\ Command(a, [Fresh EXCEPT !.step = "stop", !.op = "stop", !.before = Living])
  /\ UNCHANGED <<secretsNow, gateway, events>>

(* ---- is_proxy_running -------------------------------------------------- *)

Running(rec) == Alive(rec.pid) /\ Answers(rec.port)

\* start and vault set read the vault when they know what runs.
Secrets(a) == IF Op(a) \in {"start", "set"} THEN secretsNow ELSE actor[a].secrets

\* No proxy is found: vault set has nothing to restart.
NotRunning(a) ==
  IF Op(a) = "set" THEN End(a, "idle")
  ELSE Become(a, [actor[a] EXCEPT !.step = "config", !.secrets = Secrets(a)])

ReadPidFile(a) ==
  /\ At(a, "check")
  /\ IF pidFile = NoFile THEN NotRunning(a)
     ELSE Become(a, [actor[a] EXCEPT !.step = "probe", !.rec = pidFile])
  /\ UNCHANGED <<procs, taken, secretsNow, pidFile, config, bounds>>

\* The record is stale: the PID file is unlinked, whatever it says by now.
ProbeStale(a) ==
  /\ At(a, "probe") /\ ~Running(actor[a].rec)
  /\ pidFile' = NoFile
  /\ NotRunning(a)
  /\ UNCHANGED <<procs, taken, secretsNow, config, bounds>>

\* start leaves it at that, run with current secrets uses the proxy, a
\* watchdog starts one all the same, and otherwise it is stopped first.
ProbeRunning(a) ==
  LET me == actor[a] IN
  /\ At(a, "probe") /\ Running(me.rec)
  /\ CASE me.op = "start" -> End(a, "idle")
       [] me.op = "restart" -> Goto(a, "config")
       [] me.op = "run" /\ me.rec.hash = me.secrets ->
            Become(a, [me EXCEPT !.step = "reuse", !.listenPort = me.rec.port])
       [] OTHER ->
            Become(a, [me EXCEPT !.step = "stop", !.listenPort = me.rec.port,
                                 !.secrets = Secrets(a), !.before = Living])
  /\ UNCHANGED <<procs, taken, secretsNow, pidFile, config, bounds>>

(* ---- stop_proxy -------------------------------------------------------- *)

\* The recorded process first ...
StopRecorded(a) ==
  /\ At(a, "stop")
  /\ Kill({pidFile.pid})
  /\ Goto(a, IF pidFile = NoFile THEN "sweep" ELSE "unlink")
  /\ UNCHANGED <<taken, secretsNow, pidFile, config, bounds>>

\* ... then its file and the configuration ...
StopUnlink(a) ==
  /\ At(a, "unlink")
  /\ pidFile' = NoFile /\ config' = NoConfig
  /\ Goto(a, "sweep")
  /\ UNCHANGED <<procs, taken, secretsNow, bounds>>

\* Faulty variant: only the recorded process is killed.
FindAllNone(a) ==
  /\ At(a, "sweep")
  /\ Goto(a, "kill")
  /\ UNCHANGED <<procs, taken, secretsNow, pidFile, config, bounds>>

\* ... then whatever pgrep finds.
FindAll(a) ==
  /\ At(a, "sweep")
  /\ Become(a, [actor[a] EXCEPT !.step = "kill", !.targets = Living])
  /\ UNCHANGED <<procs, taken, secretsNow, pidFile, config, bounds>>

KillAll(a) ==
  /\ At(a, "kill")
  /\ Kill(actor[a].targets)
  /\ IF Op(a) = "stop" THEN End(a, "idle")
     ELSE Become(a, [actor[a] EXCEPT !.step = "config", !.targets = {}, !.before = {}])
  /\ UNCHANGED <<taken, secretsNow, pidFile, config, bounds>>

(* ---- start_proxy_process ----------------------------------------------- *)

WriteConfig(a) ==
  /\ At(a, "config")
  /\ config' = actor[a].secrets
  /\ Become(a, [actor[a] EXCEPT !.step = "spawn", !.attempt = 0, !.rec = NoFile])
  /\ UNCHANGED <<procs, taken, secretsNow, pidFile, bounds>>

Forced(a) == actor[a].listenPort # None

\* find_available_port: the first port nobody has bound.
Available(port) == ~Answers(port) /\ \A q \in Port : q < port => Answers(q)

\* _start_proxy_once: in a session of its own, the proxy outlives its starter.
Spawned(port) == [phase |-> "spawned", port |-> port, has |-> None]

Spawn(a) ==
  /\ At(a, "spawn") /\ Len(procs) < MaxProcs
  /\ \E port \in Port :
       /\ IF Forced(a) THEN port = actor[a].listenPort ELSE Available(port)
       /\ procs' = Append(procs, Spawned(port))
       /\ Become(a, [actor[a] EXCEPT !.step = "record", !.port = port,
                                     !.pid = Len(procs) + 1, !.attempt = @ + 1])
  /\ UNCHANGED <<taken, secretsNow, pidFile, config, bounds>>

\* The exception ends the command; a watchdog catches it and probes again.
Fail(a) ==
  CASE Op(a) = "restart" -> Goto(a, "reprobe")
    [] Op(a) = "run" -> End(a, "ended")
    [] OTHER -> End(a, "idle")

\* ... or none is free: the configuration stays where it is.
NoPort(a) ==
  /\ At(a, "spawn") /\ ~Forced(a) /\ \A port \in Port : ~Available(port)
  /\ Fail(a)
  /\ UNCHANGED <<procs, taken, secretsNow, pidFile, config, bounds>>

WritePidFile(a) ==
  LET me == actor[a] IN
  /\ At(a, "record")
  /\ pidFile' = [pid |-> me.pid, port |-> me.port, hash |-> me.secrets]
  /\ Goto(a, "wait")
  /\ UNCHANGED <<procs, taken, secretsNow, config, bounds>>

\* wait_for_proxy_ready: somebody accepts connections on the port.
Ready(a) ==
  /\ At(a, "wait") /\ Answers(actor[a].port)
  /\ IF Op(a) \in {"run", "restart"} THEN Goto(a, "readback") ELSE End(a, "idle")
  /\ UNCHANGED <<procs, taken, secretsNow, pidFile, config, bounds>>

\* Faulty variant: the mitmdump that did not answer goes on.
TimedOutKeeps(a) ==
  /\ At(a, "wait") /\ ~Answers(actor[a].port)
  /\ Goto(a, "retract")
  /\ UNCHANGED <<procs, taken, secretsNow, pidFile, config, bounds>>

TimedOut(a) ==
  /\ At(a, "wait") /\ ~Answers(actor[a].port)
  /\ Kill({actor[a].pid})
  /\ Goto(a, "retract")
  /\ UNCHANGED <<taken, secretsNow, pidFile, config, bounds>>

AttemptsLeft(a) == ~Forced(a) /\ actor[a].attempt < Attempts

\* Faulty variant: the last failure leaves the configuration behind.
RetractKeeps(a) ==
  /\ At(a, "retract")
  /\ pidFile' = NoFile
  /\ IF AttemptsLeft(a) THEN Goto(a, "spawn") ELSE Fail(a)
  /\ UNCHANGED <<procs, taken, secretsNow, config, bounds>>

\* A new attempt does not write the configuration again; on a port that was
\* asked for there is only one.
Retract(a) ==
  /\ At(a, "retract")
  /\ pidFile' = NoFile
  /\ IF AttemptsLeft(a) THEN Goto(a, "spawn") /\ UNCHANGED config
                        ELSE Fail(a) /\ config' = NoConfig
  /\ UNCHANGED <<procs, taken, secretsNow, bounds>>

(* ---- run --------------------------------------------------------------- *)

Serve(a, port, p) ==
  Become(a, [Fresh EXCEPT !.step = "serving", !.op = "run", !.listenPort = port, !.pid = p])

\* _start_proxy_for_run reads the port back; without a file run ends with an
\* exception, and a watchdog probes once more.
ReadBack(a) ==
  /\ At(a, "readback")
  /\ IF pidFile = NoFile THEN Fail(a)
     ELSE Serve(a, IF Op(a) = "restart" THEN actor[a].listenPort ELSE pidFile.port, actor[a].pid)
  /\ UNCHANGED <<procs, taken, secretsNow, pidFile, config, bounds>>

\* A reused proxy: without a file there is nothing to watch.
Reuse(a) ==
  /\ At(a, "reuse")
  /\ IF pidFile = NoFile THEN Goto(a, "unwatched") ELSE Serve(a, actor[a].listenPort, pidFile.pid)
  /\ UNCHANGED <<procs, taken, secretsNow, pidFile, config, bounds>>

\* hermes ends; the proxy is left running.
EndSession(a) ==
  /\ actor[a].step \in {"serving", "unwatched"}
  /\ End(a, "ended")
  /\ UNCHANGED <<procs, taken, secretsNow, pidFile, config, bounds>>

(* ---- _proxy_watchdog --------------------------------------------------- *)

Notice(a) ==
  /\ At(a, "serving")
  /\ ~Alive(actor[a].pid) \/ ~Answers(actor[a].listenPort)
  /\ Goto(a, "grace")
  /\ UNCHANGED <<procs, taken, secretsNow, pidFile, config, bounds>>

\* After the grace period, and after a failed restart, the port is probed;
\* the PID on file, if there is one, is watched from now on.
Recovered(a) ==
  /\ actor[a].step \in {"grace", "reprobe"} /\ Answers(actor[a].listenPort)
  /\ Serve(a, actor[a].listenPort, IF pidFile = NoFile THEN actor[a].pid ELSE pidFile.pid)
  /\ UNCHANGED <<procs, taken, secretsNow, pidFile, config, bounds>>

\* _start_proxy_for_run(force_port): the port stays the session's.
RestartProxy(a) ==
  /\ At(a, "grace") /\ ~Answers(actor[a].listenPort)
  /\ Become(a, [actor[a] EXCEPT !.step = "check", !.op = "restart", !.secrets = secretsNow])
  /\ Begin(a)
  /\ UNCHANGED <<procs, taken, secretsNow, pidFile, config, gateway, commands, events>>

\* Faulty variant: the watchdog ends and hermes goes on.
GiveUpQuietly(a) ==
  /\ At(a, "reprobe") /\ ~Answers(actor[a].listenPort)
  /\ Goto(a, "unwatched")
  /\ UNCHANGED <<procs, taken, secretsNow, pidFile, config, bounds>>

\* Nothing helps: hermes is terminated.
GiveUp(a) ==
  /\ At(a, "reprobe") /\ ~Answers(actor[a].listenPort)
  /\ End(a, "ended")
  /\ UNCHANGED <<procs, taken, secretsNow, pidFile, config, bounds>>

(* ---- the gateway's handler (hook.py) ------------------------------------ *)

Handler(step, rec) == gateway' = [step |-> step, rec |-> rec]

\* gateway:startup runs hermes-aegis start, gateway:shutdown hermes-aegis stop.
GatewayStartup(a) ==
  /\ a \in Shell /\ gateway.step = "down" /\ events < MaxEvents
  /\ events' = events + 1
  /\ Command(a, [Fresh EXCEPT !.step = "check", !.op = "start"])
  /\ Handler("polling", NoFile)
  /\ UNCHANGED secretsNow

GatewayShutdown(a) ==
  /\ a \in Shell /\ gateway.step \in {"behind", "direct"}
  /\ Command(a, [Fresh EXCEPT !.step = "stop", !.op = "stop", !.before = Living])
  /\ Handler("down", NoFile)
  /\ UNCHANGED <<secretsNow, events>>

\* The handler polls for proxy.pid, five seconds at most ...
Poll ==
  /\ gateway.step = "polling"
  /\ IF pidFile = NoFile THEN Handler("direct", NoFile) ELSE Handler("probing", pidFile)
  /\ UNCHANGED <<procs, taken, secretsNow, pidFile, config, actor, commands, events, overlapped>>

\* ... and sends hermes through the proxy if it answers now.
Probe ==
  /\ gateway.step = "probing"
  /\ Handler(IF Running(gateway.rec) THEN "behind" ELSE "direct", gateway.rec)
  /\ UNCHANGED <<procs, taken, secretsNow, pidFile, config, actor, commands, events, overlapped>>

-----------------------------------------------------------------------------
Mitmdump(p) == ReadConfig(p) \/ ScrubConfig(p) \/ Bind(p)

Stopping(a) == StopRecorded(a) \/ StopUnlink(a) \/ FindAll(a) \/ KillAll(a)
Starting(a) ==
  \/ ReadPidFile(a) \/ ProbeStale(a) \/ ProbeRunning(a)
  \/ WriteConfig(a) \/ Spawn(a) \/ NoPort(a) \/ WritePidFile(a)
  \/ Ready(a) \/ TimedOut(a) \/ Retract(a)
Watching(a) ==
  \/ ReadBack(a) \/ Reuse(a)
  \/ Notice(a) \/ Recovered(a) \/ RestartProxy(a) \/ GiveUp(a)

Next ==
  \/ \E p \in Pids : Mitmdump(p) \/ Crash(p)
  \/ \E port \in Taking : Take(port)
  \/ \E a \in Actor :
       \/ Run(a) \/ Start(a) \/ VaultSet(a) \/ Stop(a)
       \/ Stopping(a) \/ Starting(a) \/ Watching(a) \/ EndSession(a)
       \/ GatewayStartup(a) \/ GatewayShutdown(a)
  \/ Poll \/ Probe

Spec == Init /\ [][Next]_vars

\* Processes run: a mitmdump comes up, a command goes on, and the watchdog
\* polls every two seconds.
Fairness ==
  /\ \A p \in 1..MaxProcs : WF_vars(p \in Pids /\ Mitmdump(p))
  /\ \A a \in Actor : WF_vars(Stopping(a) \/ Starting(a) \/ Watching(a))

FairSpec == Spec /\ Fairness

-----------------------------------------------------------------------------
\* stop_proxy, asked for by stop, by vault set or by run, leaves none of the
\* proxies that ran when it was called, recorded in the PID file or not
\* ("sweeps for any remaining ... processes that weren't in the PID file").
StopLeavesNone ==
  [][\A a \in Actor : At(a, "kill") /\ actor'[a].step # "kill" =>
       \A p \in actor[a].before : procs'[p].phase = "dead"]_vars

\* The file of secrets outlives neither the mitmdump it was written for nor a
\* start that failed: it holds secrets only while a start is under way, which
\* ends when the mitmdump has overwritten it or its file is unlinked - until
\* another program or another command's proxy listens where it was expected to.
SecretsOnDisk ==
  config >= 1 /\ taken = {} /\ ~overlapped =>
    \E a \in Actor : actor[a].step \in {"spawn", "record", "wait", "retract"}

\* As long as commands take turns, a proxy that listens is the one on file,
\* so that status, stop and the next run find it.
NoOrphan ==
  (\A a \in Actor : ~Busy(a)) /\ ~overlapped =>
    \A p \in Pids : procs[p].phase = "up" => pidFile.pid = p

\* A session's port answers again, by whoever restarted the proxy, or hermes
\* is terminated (cli.py: "fail fast with a clear message"); MaxProcs bounds
\* the model.
SessionServed ==
  \A a \in Session :
    At(a, "serving") /\ ~Answers(actor[a].listenPort) ~>
      Answers(actor[a].listenPort) \/ At(a, "ended") \/ Len(procs) = MaxProcs
=============================================================================
