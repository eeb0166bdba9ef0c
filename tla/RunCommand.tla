----------------------------- MODULE RunCommand -----------------------------
(***************************************************************************)
(* Helper's two ways to run a shell command on the main thread:            *)
(*                                                                         *)
(*  - runCommand (initdb, psql, createdb, the rake tasks, the Developer    *)
(*    window) gives the command a pipe for stdout and stderr, reads it to  *)
(*    its end and then waits for the shell to exit;                        *)
(*  - runCommandAndGetExitCode (pg_ctl and the daemons) lets the command   *)
(*    inherit the application's output and only waits.                     *)
(*                                                                         *)
(* The pipe is bounded and ends only when every process that holds its     *)
(* write end is gone: the shell, and any background process the command    *)
(* leaves behind.                                                          *)
(***************************************************************************)
EXTENDS Naturals

CONSTANTS
    PipeSize,     \* chunks of output the pipe holds
    MaxOutput     \* chunks of output a command writes at most (a bound)

ASSUME PipeAssumption == PipeSize \in Nat \ {0}
ASSUME OutputAssumption == MaxOutput \in Nat

VARIABLES
    method,    \* the Helper method that is running, or "none"
    pc,        \* where it is
    shell,     \* /bin/bash -c ...: "none", "running" or "exited"
    daemon,    \* a background process of the command: "none", "running", "exited"
    unwritten, \* chunks the shell has still to write
    pipe,      \* chunks in the pipe
    output,    \* chunks the application has read
    written,   \* chunks written in all
    utf8       \* the output is valid UTF-8

vars == <<method, pc, shell, daemon, unwritten, pipe, output, written, utf8>>

Methods == {"runCommand", "runCommandAndGetExitCode"}

TypeOK ==
    /\ method \in Methods \cup {"none"}
    /\ pc \in {"idle", "reading", "waiting", "result", "raised"}
    /\ shell \in {"none", "running", "exited"}
    /\ daemon \in {"none", "running", "exited"}
    /\ unwritten \in 0 .. MaxOutput
    /\ pipe \in 0 .. PipeSize
    /\ output \in 0 .. MaxOutput /\ written \in 0 .. MaxOutput
    /\ utf8 \in BOOLEAN

Init ==
    /\ method = "none" /\ pc = "idle"
    /\ shell = "none" /\ daemon = "none"
    /\ unwritten = 0 /\ pipe = 0 /\ output = 0 /\ written = 0
    /\ utf8 = TRUE

\* The command's output goes to the pipe, not to the application's own stdout.
Piped == method = "runCommand"

\* A process holds the write end: NSTask closes the application's own copy.
WriteEndOpen == Piped /\ (shell = "running" \/ daemon = "running")

-----------------------------------------------------------------------------
(* Helper.                                                                 *)

\* Mutant: the application waits for the shell before it reads the pipe.
LaunchWaits(m) ==
    /\ pc \in {"idle", "result", "raised"}
    /\ method' = m
    /\ pc' = "waiting"
    /\ shell' = "running" /\ daemon' = "none"
    /\ unwritten' \in 0 .. MaxOutput
    /\ utf8' \in BOOLEAN
    /\ pipe' = 0 /\ output' = 0 /\ written' = 0

\* From the event loop, which also catches what an earlier call raised.
Launch(m) ==
    /\ pc \in {"idle", "result", "raised"}
    /\ method' = m
    /\ pc' = IF m = "runCommand" THEN "reading" ELSE "waiting"
    /\ shell' = "running" /\ daemon' = "none"
    /\ unwritten' \in 0 .. MaxOutput
    /\ utf8' \in BOOLEAN
    /\ pipe' = 0 /\ output' = 0 /\ written' = 0

Read ==
    /\ pc = "reading" /\ pipe > 0
    /\ pipe' = pipe - 1 /\ output' = output + 1
    /\ UNCHANGED <<method, pc, shell, daemon, unwritten, written, utf8>>

\* Mutant: the output is what the pipe holds when it runs empty.
EndOfFileWhenEmpty ==
    /\ pc = "reading" /\ pipe = 0 /\ written > 0
    /\ pc' = "waiting"
    /\ UNCHANGED <<method, shell, daemon, unwritten, pipe, output, written, utf8>>

\* readDataToEndOfFile returns.
EndOfFile ==
    /\ pc = "reading" /\ pipe = 0 /\ ~WriteEndOpen
    /\ pc' = "waiting"
    /\ UNCHANGED <<method, shell, daemon, unwritten, pipe, output, written, utf8>>

(***************************************************************************)
(* waitUntilExit returns, and the result is put together.  Output that is  *)
(* not UTF-8 makes a nil string, which cuts the list of five values short: *)
(* dictionaryWithObjects:forKeys: then raises.  All callers of runCommand  *)
(* pass waitUntilExit:TRUE; what it does with FALSE is not modelled.       *)
(***************************************************************************)
Exited ==
    /\ pc = "waiting" /\ shell = "exited"
    /\ pc' = IF Piped /\ ~utf8 THEN "raised" ELSE "result"
    /\ UNCHANGED <<method, shell, daemon, unwritten, pipe, output, written, utf8>>

-----------------------------------------------------------------------------
(* The command.                                                            *)

\* A write blocks while the pipe is full; daemons write to their log files.
Write ==
    /\ shell = "running" /\ unwritten > 0
    /\ Piped => pipe < PipeSize
    /\ unwritten' = unwritten - 1
    /\ pipe' = IF Piped THEN pipe + 1 ELSE pipe
    /\ written' = IF Piped THEN written + 1 ELSE written
    /\ UNCHANGED <<method, pc, shell, daemon, output, utf8>>

Fork ==
    /\ shell = "running" /\ daemon = "none"
    /\ daemon' = "running"
    /\ UNCHANGED <<method, pc, shell, unwritten, pipe, output, written, utf8>>

ShellExits ==
    /\ shell = "running" /\ unwritten = 0
    /\ shell' = "exited"
    /\ UNCHANGED <<method, pc, daemon, unwritten, pipe, output, written, utf8>>

DaemonExits ==
    /\ daemon = "running"
    /\ daemon' = "exited"
    /\ UNCHANGED <<method, pc, shell, unwritten, pipe, output, written, utf8>>

-----------------------------------------------------------------------------
MainThread == Read \/ EndOfFile \/ Exited

Next ==
    \/ \E m \in Methods : Launch(m)
    \/ MainThread
    \/ Write \/ Fork \/ ShellExits \/ DaemonExits

Spec == Init /\ [][Next]_vars

(***************************************************************************)
(* The main thread and the shell are scheduled; a daemon may run forever,  *)
(* and nobody has to call Helper again.                                    *)
(***************************************************************************)
FairSpec == Spec /\ WF_vars(MainThread) /\ WF_vars(Write \/ ShellExits)

-----------------------------------------------------------------------------
(***************************************************************************)
(* The result of runCommand is all that the command wrote, and nothing is  *)
(* left in the pipe.                                                       *)
(***************************************************************************)
OutputComplete ==
    pc = "result" /\ Piped =>
        output = written /\ pipe = 0 /\ unwritten = 0

(***************************************************************************)
(* Helper returns, however much the command writes: the application reads  *)
(* while the shell runs, so neither waits for the other.  The exception is *)
(* a background process that keeps the pipe of runCommand open; so         *)
(* runCommandAndGetExitCode, which has no pipe, returns although the       *)
(* postmaster or a daemon it has started runs on.                          *)
(***************************************************************************)
CommandReturns ==
    pc \in {"reading", "waiting"} ~>
        pc \in {"result", "raised"} \/ (Piped /\ daemon = "running")
=============================================================================
