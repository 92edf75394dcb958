----------------------------- MODULE ProgressRunner -----------------------------
(***************************************************************************)
(* scripts/run-with-progress.sh: runs a command in the background beside a  *)
(* heartbeat and waits for it.  A signal runs the trap after the present    *)
(* line, or ends the wait; the EXIT trap kills and reaps the processes      *)
(* whose pids it knows.                                                    *)
(***************************************************************************)
EXTENDS Naturals

VARIABLES
  line,       \* the runner's next line
  command,    \* the command: not started, running, its status, or reaped
  heartbeat,  \* the heartbeat
  known,      \* pids in command_pid and heartbeat_pid
  exitCode,   \* of the runner
  signalled,  \* a signal has come
  gap         \* history: the line it came before, if that keeps the pid of a start

runnerVars == <<line, command, heartbeat, known, exitCode, signalled, gap>>

NoCode == 999
Interrupted == 143

RunnerTypeOK ==
  /\ line \in {"command", "pid", "beat", "beatPid", "wait", "clear", "stopBeat", "exit",
               "trapBeat", "trapCommand", "gone"}
  /\ command \in {"none", "running", "ok", "failed"}
  /\ heartbeat \in {"none", "running", "ended"}
  /\ known \subseteq {"command", "heartbeat"}
  /\ exitCode \in {0, 1, Interrupted, NoCode}
  /\ signalled \in BOOLEAN /\ gap \in {"none", "pid", "beatPid"}

RunnerInit ==
  /\ line = "command" /\ command = "none" /\ heartbeat = "none" /\ known = {}
  /\ exitCode = NoCode /\ signalled = FALSE /\ gap = "none"

Line(here, there) == line = here /\ line' = there

StartCommand ==
  /\ Line("command", "pid")
  /\ command' = "running"
  /\ UNCHANGED <<heartbeat, known, exitCode, signalled, gap>>

KeepCommandPid ==
  /\ Line("pid", "beat")
  /\ known' = known \cup {"command"}
  /\ UNCHANGED <<command, heartbeat, exitCode, signalled, gap>>

StartHeartbeat ==
  /\ Line("beat", "beatPid")
  /\ heartbeat' = "running"
  /\ UNCHANGED <<command, known, exitCode, signalled, gap>>

KeepHeartbeatPid ==
  /\ Line("beatPid", "wait")
  /\ known' = known \cup {"heartbeat"}
  /\ UNCHANGED <<command, heartbeat, exitCode, signalled, gap>>

WaitForCommand ==
  /\ Line("wait", "clear")
  /\ command \in {"ok", "failed"}
  /\ exitCode' = IF command = "ok" THEN 0 ELSE 1
  /\ UNCHANGED <<command, heartbeat, known, signalled, gap>>

ForgetCommand ==
  /\ Line("clear", "stopBeat")
  /\ known' = known \ {"command"}
  /\ UNCHANGED <<command, heartbeat, exitCode, signalled, gap>>

StopHeartbeat ==
  /\ Line("stopBeat", "exit")
  /\ heartbeat' = "ended" /\ known' = known \ {"heartbeat"}
  /\ UNCHANGED <<command, exitCode, signalled, gap>>

(* exit runs the EXIT trap, cleanup.                                        *)
RunnerExits ==
  /\ Line("exit", "trapBeat")
  /\ UNCHANGED <<command, heartbeat, known, exitCode, signalled, gap>>

(* handle_signal resets the traps and exits with the signal's status.       *)
HandleSignal ==
  /\ ~signalled /\ signalled' = TRUE
  /\ line \notin {"trapBeat", "trapCommand", "gone"} /\ line' = "trapBeat"
  /\ exitCode' = Interrupted
  /\ gap' = IF line \in {"pid", "beatPid"} THEN line ELSE "none"
  /\ UNCHANGED <<command, heartbeat, known>>

CleanHeartbeat ==
  /\ Line("trapBeat", "trapCommand")
  /\ heartbeat' = IF "heartbeat" \in known THEN "ended" ELSE heartbeat
  /\ UNCHANGED <<command, known, exitCode, signalled, gap>>

(* Mutant: the command is not waited for.                                  *)
CleanCommandMutant ==
  /\ Line("trapCommand", "gone")
  /\ UNCHANGED <<command, heartbeat, known, exitCode, signalled, gap>>

(* kill, then wait: a command that ignores the signal is waited for.        *)
CleanCommand ==
  /\ Line("trapCommand", "gone")
  /\ "command" \in known => command \in {"ok", "failed"}
  /\ UNCHANGED <<command, heartbeat, known, exitCode, signalled, gap>>

Runner ==
  \/ StartCommand \/ KeepCommandPid \/ StartHeartbeat \/ KeepHeartbeatPid
  \/ WaitForCommand \/ ForgetCommand \/ StopHeartbeat \/ RunnerExits \/ CleanHeartbeat
  \/ CleanCommand

CommandEnds ==
  /\ command = "running" /\ command' \in {"ok", "failed"}
  /\ UNCHANGED <<line, heartbeat, known, exitCode, signalled, gap>>

(* A beat finds no command and ends.                                        *)
HeartbeatEnds ==
  /\ heartbeat = "running" /\ command # "running" /\ heartbeat' = "ended"
  /\ UNCHANGED <<line, command, known, exitCode, signalled, gap>>

RunnerNext == Runner \/ HandleSignal \/ CommandEnds \/ HeartbeatEnds

RunnerSpec == RunnerInit /\ [][RunnerNext]_runnerVars

------------------------------------------------------------------------------
(* When the runner is gone its command is, too, whenever the signal came -   *)
(* but for the one line between the start of the command and command_pid=$! *)
(* - and so is its heartbeat, but for the line before heartbeat_pid=$!;      *)
(* without a signal it has the command's status.                           *)
CommandOutlived ==
  line = "gone" =>
    /\ command = "running" => gap = "pid"
    /\ heartbeat = "running" => gap = "beatPid"
    /\ ~signalled => exitCode = IF command = "ok" THEN 0 ELSE 1
=============================================================================
