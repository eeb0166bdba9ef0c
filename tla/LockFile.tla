------------------------------ MODULE LockFile ------------------------------
(***************************************************************************)
(* How postmasters of one data directory keep out of each other's way: the *)
(* lock file postmaster.pid (CreateLockFile), the port of postgresql.conf, *)
(* and the shared memory of a dead postmaster's children.                  *)
(*                                                                         *)
(* A start is a sequence of system calls of its own process; others may be *)
(* under way, because the launcher starts another postmaster when the      *)
(* first has not written its pid file after pg_ctl's five seconds.  Every  *)
(* postmaster may be killed at any point, which leaves its lock file and,  *)
(* once it is up, its children behind; its pid may be given to a process   *)
(* that has nothing to do with the database.                               *)
(***************************************************************************)
EXTENDS FiniteSets, Naturals

CONSTANTS
    Procs,        \* postmaster processes over time, each with its own pid
    NoProc,
    MaxStarting,  \* starts that may be under way at the same time
    MaxKills,     \* bound on the postmasters that are killed
    MaxQuits      \* ... and on the immediate shutdowns that are in progress

ASSUME ProcAssumption == NoProc \notin Procs /\ IsFiniteSet(Procs)
ASSUME BoundAssumption == {MaxStarting, MaxKills, MaxQuits} \subseteq Nat

VARIABLES
    pc,        \* where each process is
    saw,       \* what it read in the lock file
    file,      \* postmaster.pid
    port,      \* who listens on the port
    orphans,   \* killed postmasters whose children still run
    quitting,  \* exited postmasters whose children have yet to act on SIGQUIT
    reused,    \* dead postmasters whose pid another process has now
    kills,
    stolen     \* history: some start removed a file other than the one it read

vars == <<pc, saw, file, port, orphans, quitting, reused, kills, stolen>>

(***************************************************************************)
(* A lock file: the process that created it, the number of its lines (0    *)
(* before it is filled, 5 with the creator's pid, 6 with the address, 7    *)
(* with the shared memory key) and whose shared memory line 7 names.       *)
(***************************************************************************)
NoFile == [by |-> NoProc, lines |-> 0, shm |-> NoProc]
Empty(p) == [NoFile EXCEPT !.by = p]
Files == [by : Procs \cup {NoProc}, lines : {0, 5, 6, 7},
          shm : Procs \cup {NoProc}]

Present == file # NoFile

Locking == {"create", "read", "check", "unlink", "fill"}
Locked == {"bind", "shmem", "up"}      \* UnlinkLockFile is registered
Steps == {"idle", "gone"} \cup Locking \cup Locked

TypeOK ==
    /\ pc \in [Procs -> Steps]
    /\ saw \in [Procs -> Files] /\ file \in Files
    /\ port \in Procs \cup {NoProc}
    /\ orphans \subseteq Procs /\ quitting \subseteq Procs
    /\ reused \subseteq Procs
    /\ kills \in 0 .. MaxKills /\ stolen \in BOOLEAN

Init ==
    /\ pc = [p \in Procs |-> "idle"] /\ saw = [p \in Procs |-> NoFile]
    /\ file = NoFile /\ port = NoProc
    /\ orphans = {} /\ quitting = {} /\ reused = {}
    /\ kills = 0 /\ stolen = FALSE

Alive(p) == pc[p] \notin {"idle", "gone"}
Starting == {p \in Procs : pc[p] \in Locking \cup {"bind", "shmem"}}

Goto(p, step) == pc' = [pc EXCEPT ![p] = step]

\* ereport(FATAL) while the process has no lock file to remove.
Fatal(p) == Goto(p, "gone") /\ UNCHANGED <<saw, file, port>>

-----------------------------------------------------------------------------
(* CreateLockFile.                                                         *)

Start(p) ==
    /\ pc[p] = "idle"
    /\ Cardinality(Starting) < MaxStarting
    /\ Goto(p, "create")
    /\ UNCHANGED <<saw, file, port>>

\* Mutant: the file is opened without O_EXCL.
CreateShared(p) ==
    /\ pc[p] = "create"
    /\ Goto(p, "fill")
    /\ file' = Empty(p)
    /\ UNCHANGED <<saw, port>>

\* O_CREAT | O_EXCL; any other error is fatal, and so is the hundredth retry.
Create(p) ==
    /\ pc[p] = "create"
    /\ \/ /\ ~Present
          /\ Goto(p, "fill")
          /\ file' = Empty(p)
          /\ UNCHANGED <<saw, port>>
       \/ /\ Present
          /\ Goto(p, "read")
          /\ UNCHANGED <<saw, file, port>>
       \/ Fatal(p)

\* The file may be gone again, or not yet filled ("bogus data").
Read(p) ==
    /\ pc[p] = "read"
    /\ \/ /\ ~Present
          /\ Goto(p, "create")
          /\ UNCHANGED <<saw, file, port>>
       \/ /\ Present /\ file.lines > 0
          /\ Goto(p, "check")
          /\ saw' = [saw EXCEPT ![p] = file]
          /\ UNCHANGED <<file, port>>
       \/ Present /\ Fatal(p)

\* kill(q, 0) == 0: some process of this user has the pid q.
Exists(q) == Alive(q) \/ q \in reused

\* PGSharedMemoryIsInUse: processes are attached to the segment of q.
InUse(q) ==
    q \in Procs /\ (pc[q] = "up" \/ q \in orphans \cup quitting)

\* Mutant: the children of a dead postmaster are not looked for.
CheckOwnerOnly(p) ==
    /\ pc[p] = "check"
    /\ IF Exists(saw[p].by) THEN Fatal(p)
       ELSE Goto(p, "unlink") /\ UNCHANGED <<saw, file, port>>

\* The owner lives, or its children do.
Check(p) ==
    /\ pc[p] = "check"
    /\ IF Exists(saw[p].by) \/ InUse(saw[p].shm)
         THEN Fatal(p)
         ELSE Goto(p, "unlink") /\ UNCHANGED <<saw, file, port>>

\* By name: whatever lock file there is by now, which need not be the one
\* that was read (see Steals).  None is an error.
Unlink(p) ==
    /\ pc[p] = "unlink"
    /\ \/ /\ Present
          /\ Goto(p, "create")
          /\ file' = NoFile
          /\ UNCHANGED <<saw, port>>
       \/ Fatal(p)

\* One write through the descriptor: lost when another process has unlinked
\* the file since.  A failed write unlinks the file by its name.
Fill(p) ==
    /\ pc[p] = "fill"
    /\ \/ /\ Goto(p, "bind")
          /\ file' = IF file = Empty(p) THEN [file EXCEPT !.lines = 5] ELSE file
          /\ UNCHANGED <<saw, port>>
       \/ /\ Goto(p, "gone")
          /\ file' = NoFile
          /\ UNCHANGED <<saw, port>>

-----------------------------------------------------------------------------
(* PostmasterMain with the lock file in place.                             *)

\* proc_exit: UnlinkLockFile, by name.
ProcExit(p) ==
    /\ pc[p] \in Locked
    /\ Goto(p, "gone")
    /\ file' = NoFile
    /\ port' = IF port = p THEN NoProc ELSE port
    /\ UNCHANGED saw

\* A failed start, which has no children yet, or a completed shutdown, which
\* has waited for them: CleanExit in module Postmaster.
Exit(p) == ProcExit(p)

\* Immediate shutdown: the children are sent SIGQUIT and not waited for.
Quit(p) ==
    /\ pc[p] = "up" /\ Cardinality(quitting) < MaxQuits
    /\ ProcExit(p)
    /\ quitting' = quitting \cup {p}
    /\ UNCHANGED <<orphans, reused, kills, stolen>>

\* StreamServerPort, and the address in line 6 (AddToDataDirLockFile, which
\* opens the file by name and gives up on an incomplete one).  No socket is
\* fatal, which is an Exit.
Bind(p) ==
    /\ pc[p] = "bind" /\ port = NoProc
    /\ port' = p
    /\ file' = IF file.lines >= 5
                 THEN [by |-> file.by, lines |-> 6, shm |-> NoProc] ELSE file
    /\ Goto(p, "shmem")
    /\ UNCHANGED saw

\* PGSharedMemoryCreate passes over the segments in use; that it removes the
\* one of a dead creator is left out, as nothing reads it any more.  Line 7.
Shmem(p) ==
    /\ pc[p] = "shmem"
    /\ file' = IF file.lines >= 6
                 THEN [by |-> file.by, lines |-> 7, shm |-> p] ELSE file
    /\ Goto(p, "up")
    /\ UNCHANGED <<saw, port>>

-----------------------------------------------------------------------------
(* Faults.                                                                 *)

\* SIGKILL, or a crash of the postmaster: nothing is cleaned up, and when it
\* was up its children may go on.
Kill(p) ==
    /\ Alive(p) /\ kills < MaxKills
    /\ kills' = kills + 1
    /\ Goto(p, "gone")
    /\ port' = IF port = p THEN NoProc ELSE port
    /\ orphans' \in {orphans} \cup IF pc[p] = "up" THEN {orphans \cup {p}} ELSE {}
    /\ UNCHANGED <<saw, file, quitting, reused, stolen>>

\* The last child of a dead postmaster ends.
OrphansEnd(p) ==
    /\ p \in orphans \cup quitting
    /\ orphans' = orphans \ {p} /\ quitting' = quitting \ {p}
    /\ UNCHANGED <<pc, saw, file, port, reused, kills, stolen>>

PidReused(p) ==
    /\ pc[p] = "gone"
    /\ reused' \in {reused \cup {p}, reused \ {p}}
    /\ UNCHANGED <<pc, saw, file, port, orphans, quitting, kills, stolen>>

-----------------------------------------------------------------------------
Step(p) ==
    \/ Start(p) \/ Create(p) \/ Read(p) \/ Check(p) \/ Unlink(p) \/ Fill(p)
    \/ Bind(p) \/ Shmem(p) \/ Exit(p)

\* The step removes a lock file that p has not found to be stale: the file
\* has been replaced, or its owner has added lines, since p read it.
Steals(p) == pc[p] = "unlink" /\ file' # file /\ file # saw[p]

SystemCall(p) ==
    /\ Step(p)
    /\ stolen' = (stolen \/ Steals(p))
    /\ UNCHANGED <<orphans, quitting, reused, kills>>

Next ==
    \E p \in Procs :
        SystemCall(p) \/ Quit(p) \/ Kill(p) \/ OrphansEnd(p) \/ PidReused(p)

Spec == Init /\ [][Next]_vars

-----------------------------------------------------------------------------
Alone(p) == \A q \in Procs : pc[q] = "up" => q = p

(***************************************************************************)
(* PostmasterMain, before it removes temporary files and starts recovery   *)
(* (postmaster.c:1108): "At this point there can be no other Postgres      *)
(* processes running in this directory".  The code does not quite keep     *)
(* this: CreateLockFile removes by its name a file it has judged by its    *)
(* content, and an immediate shutdown removes the file before the children *)
(* are gone.                                                               *)
(***************************************************************************)
Exclusive ==
    \A p \in Procs :
        pc[p] = "up" => Alone(p) /\ orphans = {} /\ quitting = {}

(***************************************************************************)
(* What the interlock does give, however many starts overlap and whoever   *)
(* is killed between two system calls: a postmaster that is up is the only *)
(* one, which in the worst case it owes to the port; and no child of a     *)
(* killed postmaster is left, unless some start has unlinked a lock file   *)
(* that was no longer the one it had read (miscinit.c:868-873).  That race *)
(* is the only way in.                                                     *)
(***************************************************************************)
ExclusiveUnlessStolen ==
    \A p \in Procs : pc[p] = "up" => Alone(p) /\ (stolen \/ orphans = {})

(***************************************************************************)
(* The lock file protects what is there: while a postmaster or children of *)
(* a killed one use the directory, it names them, so that the next start   *)
(* will find them; with the same exception.                                *)
(***************************************************************************)
LockTruth ==
    ~stolen =>
        /\ \A p \in Procs : pc[p] = "up" => file.by = p /\ file.shm = p
        /\ \A p \in orphans : file.by = p /\ file.shm = p

-----------------------------------------------------------------------------
(* Refinement: what pg_ctl and the launcher take the directory for.  An    *)
(* empty lock file tells them nothing.                                     *)

Dir == "pqsql"

PG == INSTANCE PgServer WITH
    Dirs <- {Dir},
    cluster <- [d \in {Dir} |-> "configured"],
    pm <- [d \in {Dir} |->
             IF \E p \in Procs : pc[p] \in Locked THEN "starting" ELSE "down"],
    pidfile <- [d \in {Dir} |->
                  IF file.lines = 0 THEN "none"
                  ELSE IF Alive(file.by) THEN "own"
                  ELSE IF file.by \in reused THEN "reused" ELSE "stale"]

(***************************************************************************)
(* Any number of overlapping starts look like the atomic pg_ctl starts of  *)
(* module PgServer for as long as no lock file is stolen: the file is      *)
(* "own" exactly while a postmaster lives, whatever is killed between two  *)
(* system calls.                                                           *)
(***************************************************************************)
ImplementsPgServer ==
    PG!NeverStarted /\ [][stolen' \/ PG!InterlockActs(Dir)]_(PG!pgVars)
=============================================================================
