-------------------------- MODULE ClearanceLauncher --------------------------
(***************************************************************************)
(* clearance-ensure (packages/clearance/src/launcher.ts, ensureCli.ts): the  *)
(* commands start, stop, restart and status, the daemons they spawn, and the *)
(* pidfile, the port and the host files they share.                          *)
(*                                                                           *)
(* Commands and daemons are operating-system processes: each read or write   *)
(* of the pidfile, each look at the port, each spawn and each signal is a     *)
(* step of its own.  One daemon holds the port at a time.  A daemon reads     *)
(* the host files once, when it starts.                                      *)
(***************************************************************************)
EXTENDS Integers, FiniteSets

CONSTANTS
  Commands,    \* bound: the commands that are issued, each of them once
  MaxPids,     \* bound: daemons that are spawned
  MaxEdits,    \* bound: edits of the host files
  MaxCrashes,  \* bound: daemons that crash
  MaxKills,    \* bound: commands killed half-way
  MaxByHand,   \* bound: daemons started as `clearance`, without a pidfile
  Serial,      \* TRUE: commands are issued one after the other
  Prompt       \* TRUE: daemons start and die within CLEARANCE_START_TIMEOUT_MS

Pids == 1 .. MaxPids
NoPid == 0

ASSUME BoundsAssumption ==
  /\ MaxPids \in Nat /\ MaxEdits \in Nat /\ MaxCrashes \in Nat
  /\ MaxKills \in Nat /\ MaxByHand \in Nat
ASSUME FlagsAssumption == Serial \in BOOLEAN /\ Prompt \in BOOLEAN

VARIABLES
  version,   \* the host files: how often they have been edited
  valid,     \* and whether resolveAllowlist accepts them
  proc,      \* the state of each daemon
  loaded,    \* the version of the host files it has read
  pidfile,   \* what readPidFile finds; NoPid for no file and for garbage
  pc,        \* where each command is
  kind,      \* start, stop, restart or status
  pid,    \* the pid it has spawned or read
  answer,    \* its result
  since,     \* history: the version when it was issued
  alone,     \* history: the commands no other one has been under way with
  crashes, kills, byHand   \* how much of the bounds is used up

launcherVars == <<version, valid, proc, loaded, pidfile, pc, kind, pid, answer,
          since, alone, crashes, kills, byHand>>
hosts == <<version, valid>>
daemons == <<proc, loaded>>
history == <<since, alone>>
bounds == <<crashes, kills, byHand>>

Kinds == {"start", "stop", "restart", "status"}
Active(c) == pc[c] \notin {"off", "done"}
Quiet == \A c \in Commands : ~Active(c)
Alive == {p \in Pids : proc[p] \in {"booting", "read", "listening", "dying"}}
Spawned == {p \in Pids : proc[p] # "unused"}

\* isClearanceListening: a connection to 127.0.0.1:19999 is accepted.
PortTaken == \E p \in Pids : proc[p] \in {"listening", "dying"}

LauncherInit ==
  /\ version = 0 /\ valid = TRUE
  /\ proc = [p \in Pids |-> "unused"]
  /\ loaded = [p \in Pids |-> 0]
  /\ pidfile = NoPid
  /\ pc = [c \in Commands |-> "off"]
  /\ kind = [c \in Commands |-> "start"]
  /\ pid = [c \in Commands |-> NoPid]
  /\ answer = [c \in Commands |-> "none"]
  /\ since = [c \in Commands |-> 0]
  /\ alone = {}
  /\ crashes = 0 /\ kills = 0 /\ byHand = 0

-----------------------------------------------------------------------------
(* Commands. *)

\* A command is issued; start begins with the port, the others with the pidfile.
Begin(c) ==
  /\ pc[c] = "off"
  /\ Serial => Quiet
  /\ \E k \in Kinds :
       /\ kind' = [kind EXCEPT ![c] = k]
       /\ pc' = [pc EXCEPT ![c] = IF k = "start" THEN "check" ELSE "readPid"]
  /\ since' = [since EXCEPT ![c] = version]
  /\ alone' = {d \in alone : ~Active(d)} \cup (IF Quiet THEN {c} ELSE {})
  /\ UNCHANGED <<hosts, daemons, pidfile, pid, answer, bounds>>

Continue(c, label) ==
  /\ pc' = [pc EXCEPT ![c] = label]
  /\ UNCHANGED answer

Return(c, result) ==
  /\ pc' = [pc EXCEPT ![c] = "done"]
  /\ answer' = [answer EXCEPT ![c] = result]

\* ensureClearance looks for a listener, then at the host files.
CheckPort(c) ==
  /\ pc[c] = "check"
  /\ \/ PortTaken /\ Return(c, "already-running")
     \/ ~PortTaken /\ Continue(c, "resolve")
  /\ UNCHANGED <<hosts, daemons, pidfile, kind, pid, history, bounds>>

\* resolveAllowlist, which throws on files it cannot use.
ResolveHosts(c) ==
  /\ pc[c] = "resolve"
  /\ \/ valid /\ Continue(c, "spawn")
     \/ ~valid /\ Return(c, "failed")
  /\ UNCHANGED <<hosts, daemons, pidfile, kind, pid, history, bounds>>

\* A new process gets the next pid.
Boot(p) ==
  /\ proc[p] = "unused"
  /\ \A q \in Pids : q < p => proc[q] # "unused"
  /\ proc' = [proc EXCEPT ![p] = "booting"]
  /\ UNCHANGED loaded

Spawn(c) ==
  /\ pc[c] = "spawn"
  /\ \E p \in Pids : Boot(p) /\ pid' = [pid EXCEPT ![c] = p]
  /\ Continue(c, "truncate")
  /\ UNCHANGED <<hosts, pidfile, kind, history, bounds>>

\* Mutant: no pidfile is written.
LeaveThePidfile(c) ==
  /\ pc[c] = "truncate"
  /\ Continue(c, "await")
  /\ UNCHANGED <<hosts, daemons, pidfile, kind, pid, history, bounds>>

\* writeFileSync empties the pidfile ...
TruncatePidfile(c) ==
  /\ pc[c] = "truncate"
  /\ pidfile' = NoPid
  /\ Continue(c, "write")
  /\ UNCHANGED <<hosts, daemons, kind, pid, history, bounds>>

\* ... and writes it.
WritePidfile(c) ==
  /\ pc[c] = "write"
  /\ pidfile' = pid[c]
  /\ Continue(c, "await")
  /\ UNCHANGED <<hosts, daemons, kind, pid, history, bounds>>

\* pollUntil finds somebody listening.
SeeListener(c) ==
  /\ pc[c] = "await"
  /\ PortTaken
  /\ Return(c, "started")
  /\ UNCHANGED <<hosts, daemons, pidfile, kind, pid, history, bounds>>

\* Mutant: the start polls until somebody listens.
NoStartTimeout(c) == FALSE /\ UNCHANGED launcherVars

\* Its attempts are used up.
StartTimesOut(c) ==
  /\ pc[c] = "await"
  /\ Prompt => ~PortTaken /\ proc[pid[c]] = "exited"
  /\ Return(c, "failed")
  /\ UNCHANGED <<hosts, daemons, pidfile, kind, pid, history, bounds>>

\* Mutant: the restart goes on with a command nobody knows.
LoseTheCommand(c, result) ==
  IF kind[c] = "restart" THEN Continue(c, "start") ELSE Return(c, result)

AfterStop(c, result) ==
  IF kind[c] = "restart" THEN Continue(c, "check") ELSE Return(c, result)

\* readPidFile; without a pid there is nothing to stop.
ReadPidfile(c) ==
  /\ pc[c] = "readPid"
  /\ pid' = [pid EXCEPT ![c] = pidfile]
  /\ \/ kind[c] = "status" /\ Continue(c, "report")
     \/ kind[c] # "status" /\ pidfile = NoPid /\ AfterStop(c, "not-running")
     \/ kind[c] # "status" /\ pidfile # NoPid /\ Continue(c, "signal")
  /\ UNCHANGED <<hosts, daemons, pidfile, kind, history, bounds>>

\* kill: SIGTERM ends a daemon, one without the port at once; ESRCH means that
\* the process was already gone.
Signal(c) ==
  /\ pc[c] = "signal"
  /\ \/ /\ pid[c] \in Alive
        /\ proc' = [proc EXCEPT ![pid[c]] =
                      IF @ \in {"listening", "dying"} THEN "dying" ELSE "exited"]
        /\ Continue(c, "awaitClosed")
     \/ /\ pid[c] \notin Alive
        /\ Continue(c, "removeStale")
        /\ UNCHANGED proc
  /\ UNCHANGED <<hosts, loaded, pidfile, kind, pid, history, bounds>>

\* Mutant: stop does not wait for the port to close.
DoNotWait(c) ==
  /\ pc[c] = "awaitClosed"
  /\ Continue(c, "remove")
  /\ UNCHANGED <<hosts, daemons, pidfile, kind, pid, history, bounds>>

\* pollUntil finds the port closed.
SeeClosed(c) ==
  /\ pc[c] = "awaitClosed"
  /\ ~PortTaken
  /\ Continue(c, "remove")
  /\ UNCHANGED <<hosts, daemons, pidfile, kind, pid, history, bounds>>

StopTimesOut(c) ==
  /\ pc[c] = "awaitClosed"
  /\ Prompt => PortTaken /\ proc[pid[c]] = "exited"
  /\ Return(c, "failed")
  /\ UNCHANGED <<hosts, daemons, pidfile, kind, pid, history, bounds>>

\* rmSync(pidPath, { force: true }), whatever the file says by now.
RemovePidfile(c) ==
  /\ pc[c] \in {"remove", "removeStale"}
  /\ pidfile' = NoPid
  /\ AfterStop(c, IF pc[c] = "remove" THEN "stopped" ELSE "not-running")
  /\ UNCHANGED <<hosts, daemons, kind, pid, history, bounds>>

\* statusClearance reports the port's state and the pid it read before.
Report(c) ==
  /\ pc[c] = "report"
  /\ Return(c, IF PortTaken THEN "running" ELSE "not-running")
  /\ UNCHANGED <<hosts, daemons, pidfile, kind, pid, history, bounds>>

\* A command is killed half-way.
KillCommand(c) ==
  /\ Active(c)
  /\ kills < MaxKills
  /\ kills' = kills + 1
  /\ Return(c, "failed")
  /\ UNCHANGED <<hosts, daemons, pidfile, kind, pid, history, crashes,
                 byHand>>

CommandStep(c) ==
  \/ CheckPort(c) \/ ResolveHosts(c) \/ Spawn(c)
  \/ TruncatePidfile(c) \/ WritePidfile(c) \/ SeeListener(c) \/ StartTimesOut(c)
  \/ ReadPidfile(c) \/ Signal(c) \/ SeeClosed(c) \/ StopTimesOut(c)
  \/ RemovePidfile(c) \/ Report(c)

-----------------------------------------------------------------------------
(* Daemons (cli.ts, startClearanceFromEnv) and their surroundings. *)

\* resolveClearanceConfig: unusable host files end the process.
LoadHosts(p) ==
  /\ proc[p] = "booting"
  /\ proc' = [proc EXCEPT ![p] = IF valid THEN "read" ELSE "exited"]
  /\ loaded' = [loaded EXCEPT ![p] = version]
  /\ UNCHANGED <<hosts, pidfile, pc, kind, pid, answer, history, bounds>>

\* Mutant: a daemon that cannot bind tries again and again.
BindOrRetry(p) ==
  /\ proc[p] = "read"
  /\ ~PortTaken
  /\ proc' = [proc EXCEPT ![p] = "listening"]
  /\ UNCHANGED <<hosts, loaded, pidfile, pc, kind, pid, answer, history, bounds>>

\* listen: EADDRINUSE ends the process.
Bind(p) ==
  /\ proc[p] = "read"
  /\ proc' = [proc EXCEPT ![p] = IF PortTaken THEN "exited" ELSE "listening"]
  /\ UNCHANGED <<hosts, loaded, pidfile, pc, kind, pid, answer, history, bounds>>

\* A signalled daemon is gone.
Exit(p) ==
  /\ proc[p] = "dying"
  /\ proc' = [proc EXCEPT ![p] = "exited"]
  /\ UNCHANGED <<hosts, loaded, pidfile, pc, kind, pid, answer, history, bounds>>

Crash(p) ==
  /\ p \in Alive
  /\ crashes < MaxCrashes
  /\ crashes' = crashes + 1
  /\ proc' = [proc EXCEPT ![p] = "exited"]
  /\ UNCHANGED <<hosts, loaded, pidfile, pc, kind, pid, answer, history,
                 kills, byHand>>

\* Somebody runs `clearance` itself.
StartByHand(p) ==
  /\ byHand < MaxByHand
  /\ byHand' = byHand + 1
  /\ Boot(p)
  /\ UNCHANGED <<hosts, pidfile, pc, kind, pid, answer, history, crashes, kills>>

DaemonStep(p) == LoadHosts(p) \/ Bind(p) \/ Exit(p)

\* Somebody edits the host files.
EditHosts ==
  /\ version < MaxEdits
  /\ version' = version + 1
  /\ valid' \in BOOLEAN
  /\ UNCHANGED <<daemons, pidfile, pc, kind, pid, answer, history, bounds>>

LauncherNext ==
  \/ \E c \in Commands : Begin(c) \/ CommandStep(c) \/ KillCommand(c)
  \/ \E p \in Pids : DaemonStep(p) \/ Crash(p) \/ StartByHand(p)
  \/ EditHosts

LauncherSpec == LauncherInit /\ [][LauncherNext]_launcherVars

\* Processes that can run do; nobody has to issue commands or edit files.
FairLauncherSpec ==
  /\ LauncherSpec
  /\ \A c \in Commands : WF_launcherVars(CommandStep(c))
  /\ \A p \in Pids : WF_launcherVars(DaemonStep(p))

-----------------------------------------------------------------------------
(* Properties. *)

Labels == {"off", "check", "resolve", "spawn", "truncate", "write", "await",
           "readPid", "signal", "awaitClosed", "remove", "removeStale", "report",
           "done"}

\* Every variable has its type.
LauncherTypeOK ==
  /\ version \in Nat /\ valid \in BOOLEAN
  /\ proc \in [Pids -> {"unused", "booting", "read", "listening", "dying", "exited"}]
  /\ loaded \in [Pids -> Nat]
  /\ pidfile \in Pids \cup {NoPid}
  /\ pc \in [Commands -> Labels]
  /\ kind \in [Commands -> Kinds]
  /\ pid \in [Commands -> Pids \cup {NoPid}]
  /\ answer \in [Commands -> {"none", "already-running", "started", "stopped",
                              "not-running", "running", "failed"}]
  /\ since \in [Commands -> Nat]
  /\ alone \subseteq Commands
  /\ crashes \in Nat /\ kills \in Nat /\ byHand \in Nat

\* "All subcommands discover the running proxy through the pidfile": with no
\* command under way, the pidfile names the daemon that runs.
PidfileNamesTheDaemon == Quiet => Alive \subseteq {pidfile}

\* "stop the existing proxy (if any), then start a fresh one.  Use this to pick
\* up edited host files": after a restart that ran alone and did not fail, no
\* daemon serves host files older than that restart.
RestartPicksUpEdits ==
  \A c \in Commands :
    kind[c] = "restart" /\ c \in alone /\ answer[c] \in {"started", "already-running"} =>
      \A p \in Pids : proc[p] = "listening" => loaded[p] >= since[c]

\* Commands tell the truth: "started" names the one daemon there is, "running"
\* too, "already-running" means the one the pidfile names, and after "stopped"
\* and "not-running" there is none.
TruthOf(c) ==
  /\ answer'[c] \in {"started", "running"}     => Alive \subseteq {pid[c]}
  /\ answer'[c] = "already-running"            => Alive \subseteq {pidfile}
  /\ answer'[c] \in {"stopped", "not-running"} => Alive = {}

AnswersAreTrue == [][\A c \in Commands : answer'[c] # answer[c] => TruthOf(c)]_launcherVars

\* `clearance-ensure` is an "idempotent daemon launcher": however many commands
\* race, all daemons but one are gone in the end.
OneDaemonRemains == <>[](Cardinality(Alive) <= 1)

\* Every command comes to an end, whatever happens to the daemons.
CommandsEnd == \A c \in Commands : Active(c) ~> pc[c] = "done"

-----------------------------------------------------------------------------
(* Strengthenings for the proofs. *)

\* One operator, whose machine is not overloaded, and who only uses
\* clearance-ensure and lets it finish.
OneOperator == Serial /\ Prompt /\ MaxKills = 0 /\ MaxByHand = 0

OneAtATime == \A c, d \in Commands : Active(c) /\ Active(d) => c = d

\* Whatever runs listens, and the pidfile names it.
Settled == \A p \in Alive : p = pidfile /\ proc[p] = "listening"

\* Between its spawn and the listener it waits for, and between the signal and
\* the closed port, a command is the only one to know its daemon.
SettledInv ==
  \/ Settled
  \/ \E c \in Commands : pc[c] \in {"truncate", "write", "await", "awaitClosed"}

CommandInv(c) ==
  /\ pc[c] # "done" => answer[c] = "none"
  /\ pc[c] \in {"resolve", "spawn", "remove", "removeStale"} => Alive = {}
  /\ pc[c] = "check" /\ kind[c] = "restart" => Alive = {}
  /\ pc[c] \in {"truncate", "write", "await"} =>
       \A p \in Alive : p = pid[c] /\ proc[p] # "dying"
  /\ pc[c] \in {"await", "signal", "awaitClosed", "report"} => pidfile = pid[c]
  /\ pc[c] = "awaitClosed" =>
       \A p \in Alive : p = pid[c] /\ proc[p] = "dying"
  /\ pc[c] \in {"readPid", "signal", "removeStale", "remove", "awaitClosed"} => kind[c] # "start"

\* A restart that is past its stop has no older daemon to meet.
RestartInv(c) ==
  /\ since[c] <= version
  /\ /\ kind[c] = "restart"
     /\ \/ pc[c] \in {"check", "resolve", "spawn", "truncate", "write", "await"}
        \/ answer[c] \in {"started", "already-running"}
     => \A p \in Pids : proc[p] \in {"read", "listening", "dying"} => loaded[p] >= since[c]

LauncherInv ==
  /\ OneAtATime
  /\ SettledInv
  /\ \A c \in Commands : CommandInv(c) /\ RestartInv(c)

=============================================================================
