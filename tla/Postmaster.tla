----------------------------- MODULE Postmaster -----------------------------
(***************************************************************************)
(* The postmaster of the bundled PostgreSQL: the state machine that starts *)
(* the server, shuts it down and recovers from crashes of its children.    *)
(*                                                                         *)
(* The configuration is the one initdb and the launcher write: no archive  *)
(* recovery, no standby, no archiver, no walsenders, no online backups and *)
(* no log collector, restart_after_crash on.  PM_RECOVERY, PM_HOT_STANDBY, *)
(* RecoveryError and the children that belong to them do not occur.        *)
(*                                                                         *)
(* The postmaster acts in signal handlers and in ServerLoop, which exclude *)
(* each other (signals are blocked).  Only reaper() is long: it loops over *)
(* the dead children, more of which may appear meanwhile, and advances the *)
(* state machine at the end.  Children die at any time.                    *)
(***************************************************************************)
EXTENDS Naturals, FiniteSets

CONSTANTS
    Clients,       \* processes for client backends
    Workers,       \* processes for autovacuum workers
    DeadEnds,      \* processes for dead_end children
    MaxChildren,   \* MaxLivePostmasterChildren()
    MaxCrashes     \* bound on the crashes of children nobody told to die

Special == {"startup", "bgwriter", "checkpointer", "walwriter", "autovac",
            "stats"}
Backends == Clients \cup Workers           \* those with a child slot
BackendList == Backends \cup DeadEnds
Procs == Special \cup BackendList

ASSUME ProcsAssumption ==
    /\ Clients \cap Workers = {} /\ Clients \cap DeadEnds = {}
    /\ Workers \cap DeadEnds = {} /\ Special \cap BackendList = {}
ASSUME BoundsAssumption == MaxChildren \in Nat /\ MaxCrashes \in Nat

(***************************************************************************)
(* What the postmaster knows, as one record: the handlers are functions on *)
(* it.  proc[k] is "none" when there is no process k; a dead process keeps *)
(* its exit status until it is reaped: "exit 0" is what the code takes for *)
(* a regular end of k (status 1 too, for a backend that has released its   *)
(* child slot), "crash" what it takes for a crash, and "exit 1" the third  *)
(* case it knows for the startup process.  told[k] holds the signals a     *)
(* running k has been sent.                                                *)
(***************************************************************************)
VARIABLES
    s,          \* [state, Shutdown, FatalError, proc, told]
    reaping,    \* in reaper(), before PostmasterStateMachine
    recovering, \* XLogCtl->SharedRecoveryInProgress
    ckpt,       \* history: a shutdown checkpoint, and no writer since
    crashes     \* the crashes so far

vars == <<s, reaping, recovering, ckpt, crashes>>

Running == {"PM_STARTUP", "PM_RUN", "PM_WAIT_BACKUP", "PM_WAIT_READONLY",
            "PM_WAIT_BACKENDS", "PM_SHUTDOWN", "PM_SHUTDOWN_2",
            "PM_WAIT_DEAD_END", "PM_NO_CHILDREN"}

\* The exits of the postmaster: the normal one at the end of a shutdown and the
\* one of an immediate shutdown (status 0 both), the ones with status 1, death.
Exited == {"normal", "immediate", "exit 1", "killed"}
Statuses == {"exit 0", "exit 1", "crash"}
Signals == {"SIGTERM", "SIGQUIT", "SIGUSR2"}

TypeOK ==
    /\ s \in [state : Running \cup Exited,
              Shutdown : {"no", "smart", "fast"},
              FatalError : BOOLEAN,
              proc : [Procs -> {"none", "run"} \cup Statuses],
              told : [Procs -> SUBSET Signals]]
    /\ \A k \in Procs : s.proc[k] # "run" => s.told[k] = {}
    /\ reaping \in BOOLEAN /\ recovering \in BOOLEAN /\ ckpt \in BOOLEAN
    /\ crashes \in 0 .. MaxCrashes

Gone(p, ks) == \A k \in ks : p.proc[k] = "none"      \* no pid recorded
Live(ks) == {k \in ks : s.proc[k] = "run"}

-----------------------------------------------------------------------------
(* The pieces the handlers are made of.                                    *)

\* signal_child, SignalSomeChildren: to every process among ks; a signal to a
\* dead one that has not been reaped is lost.
Signal(p, ks, sig) ==
    [p EXCEPT !.told = [k \in Procs |->
        IF k \in ks /\ p.proc[k] = "run" THEN @[k] \cup {sig} ELSE @[k]]]

\* StartChildProcess and its like for those of ks that are not running; forks
\* are the ones for which fork() succeeds.
StartMissing(p, ks, forks) ==
    [p EXCEPT !.proc = [k \in Procs |->
        IF k \in ks \cap forks /\ @[k] = "none" THEN "run" ELSE @[k]]]

\* The process is forgotten.
Forget(p, k) == [p EXCEPT !.proc[k] = "none", !.told[k] = {}]

CountChildren(p) == Cardinality({k \in Backends : p.proc[k] # "none"})

\* Mutant: clients are let in during a crash.
canAcceptConnectionsCrashed(p) ==
    /\ p.state \in {"PM_RUN", "PM_WAIT_BACKUP", "PM_WAIT_BACKENDS"}
    /\ CountChildren(p) < MaxChildren

\* Mutant: only a shutdown or a crash keeps clients out.
canAcceptConnectionsEarly(p) ==
    /\ p.state \in {"PM_STARTUP", "PM_RUN", "PM_WAIT_BACKUP"}
    /\ CountChildren(p) < MaxChildren

\* "no": the child must be a dead end.
canAcceptConnections(p) ==
    p.state \in {"PM_RUN", "PM_WAIT_BACKUP"} /\ CountChildren(p) < MaxChildren

\* Mutant: the auxiliary processes are not told.
HandleChildCrashBackends(p, k) ==
    LET q == Forget(p, k)
        t == IF p.FatalError THEN q ELSE Signal(q, BackendList, "SIGQUIT")
    IN  [t EXCEPT !.FatalError = TRUE,
                  !.state = IF @ \in {"PM_RUN", "PM_WAIT_BACKUP",
                                      "PM_WAIT_READONLY", "PM_SHUTDOWN"}
                              THEN "PM_WAIT_BACKENDS" ELSE @]

(***************************************************************************)
(* The other children are told to quit at the first crash only: FatalError *)
(* says that they have been told already.                                  *)
(***************************************************************************)
HandleChildCrash(p, k) ==
    LET q == Forget(p, k)
        t == IF p.FatalError THEN q ELSE Signal(q, Procs, "SIGQUIT")
    IN  [t EXCEPT !.FatalError = TRUE,
                  !.state = IF @ \in {"PM_RUN", "PM_WAIT_BACKUP",
                                      "PM_WAIT_READONLY", "PM_SHUTDOWN"}
                              THEN "PM_WAIT_BACKENDS" ELSE @]

-----------------------------------------------------------------------------
(* PostmasterStateMachine: its parts in the order of the code.  No backup  *)
(* is ever in progress.                                                    *)

WaitBackup(p) ==
    IF p.state = "PM_WAIT_BACKUP" THEN [p EXCEPT !.state = "PM_WAIT_BACKENDS"]
    ELSE p

WaitReadonly(p) ==
    IF p.state = "PM_WAIT_READONLY" /\ Gone(p, Clients)
      THEN [Signal(p, {"startup"}, "SIGTERM") EXCEPT !.state = "PM_WAIT_BACKENDS"]
      ELSE p

\* The processes PM_WAIT_BACKENDS waits for; all of them may write WAL.
Writers == Backends \cup {"startup", "bgwriter", "walwriter", "autovac"}

\* Mutant: the WAL writer is not waited for.
WaitBackendsNotWal(p, forks) ==
    IF p.state = "PM_WAIT_BACKENDS" /\ Gone(p, Writers \ {"walwriter"})
         /\ (Gone(p, {"checkpointer"}) \/ ~p.FatalError)
      THEN IF p.FatalError THEN [p EXCEPT !.state = "PM_WAIT_DEAD_END"]
           ELSE [Signal(StartMissing(p, {"checkpointer"}, {"checkpointer"}),
                        {"checkpointer"}, "SIGUSR2")
                   EXCEPT !.state = "PM_SHUTDOWN"]
      ELSE p

\* Everyone is gone: on to the end of a crash, or to the shutdown checkpoint.
WaitBackends(p, forks) ==
    LET c == StartMissing(p, {"checkpointer"}, forks)
    IN  IF ~(/\ p.state = "PM_WAIT_BACKENDS"
             /\ Gone(p, Writers)
             /\ Gone(p, {"checkpointer"}) \/ ~p.FatalError) THEN p
        ELSE IF p.FatalError THEN [p EXCEPT !.state = "PM_WAIT_DEAD_END"]
        ELSE IF ~Gone(c, {"checkpointer"})
          THEN [Signal(c, {"checkpointer"}, "SIGUSR2") EXCEPT !.state = "PM_SHUTDOWN"]
        ELSE [Signal(c, Backends \cup {"stats"}, "SIGQUIT")
                EXCEPT !.FatalError = TRUE, !.state = "PM_WAIT_DEAD_END"]

WaitShutdown2(p) ==
    IF p.state = "PM_SHUTDOWN_2" /\ Gone(p, Backends)
      THEN [p EXCEPT !.state = "PM_WAIT_DEAD_END"] ELSE p

\* Mutant: nobody waits for the dead ends.
WaitDeadEndNot(p) ==
    IF p.state = "PM_WAIT_DEAD_END" /\ Gone(p, Backends \cup {"stats"})
      THEN [p EXCEPT !.state = "PM_NO_CHILDREN"] ELSE p

WaitDeadEnd(p) ==
    IF p.state = "PM_WAIT_DEAD_END" /\ Gone(p, BackendList \cup {"stats"})
      THEN [p EXCEPT !.state = "PM_NO_CHILDREN"] ELSE p

\* Mutant: the crash is over before recovery has begun.
NoChildrenForgets(p, forks) ==
    IF p.state # "PM_NO_CHILDREN" THEN p
    ELSE IF p.Shutdown # "no"
      THEN [p EXCEPT !.state = IF p.FatalError THEN "exit 1" ELSE "normal"]
    ELSE [StartMissing(p, {"startup"}, {"startup"})
            EXCEPT !.state = "PM_STARTUP", !.FatalError = FALSE]

\* Exit, or start again with fresh shared memory; without a startup process
\* the postmaster exits.
NoChildren(p, forks) ==
    IF p.state # "PM_NO_CHILDREN" THEN p
    ELSE IF p.Shutdown # "no"
      THEN [p EXCEPT !.state = IF p.FatalError THEN "exit 1" ELSE "normal"]
    ELSE IF p.FatalError
      THEN IF "startup" \in forks
             THEN [StartMissing(p, {"startup"}, forks) EXCEPT !.state = "PM_STARTUP"]
             ELSE [p EXCEPT !.state = "exit 1"]
    ELSE p

PostmasterStateMachine(p, forks) ==
    NoChildren(WaitDeadEnd(WaitShutdown2(
        WaitBackends(WaitReadonly(WaitBackup(p)), forks))), forks)

-----------------------------------------------------------------------------
(* reaper: what the death of child k means.                                *)

\* Mutant: a shutdown is called off when a crash has to be recovered from.
ReapStartupRestarts(p, forks) ==
    IF p.proc["startup"] = "exit 0"
      THEN [StartMissing(Forget(p, "startup"),
                         {"checkpointer", "bgwriter", "walwriter", "autovac", "stats"},
                         forks)
              EXCEPT !.FatalError = FALSE, !.state = "PM_RUN", !.Shutdown = "no"]
      ELSE HandleChildCrash(p, "startup")

ReapStartup(p, forks) ==
    LET q == Forget(p, "startup")
        status == p.proc["startup"]
    IN  IF p.Shutdown # "no" /\ status # "crash"
          THEN [q EXCEPT !.state = "PM_WAIT_BACKENDS"]
        ELSE IF p.state = "PM_STARTUP" /\ status # "exit 0"
          THEN [q EXCEPT !.state = "exit 1"]
        ELSE IF status # "exit 0" THEN HandleChildCrash(p, "startup")
        ELSE [StartMissing(q, {"checkpointer", "bgwriter", "walwriter", "autovac",
                               "stats"}, forks)
                EXCEPT !.FatalError = FALSE, !.state = "PM_RUN"]

\* Mutant: the exit status of a checkpointer that was told to go is ignored.
ReapCheckpointerAlways(p) ==
    IF p.state = "PM_SHUTDOWN"
      THEN [Signal(Forget(p, "checkpointer"), {"stats"}, "SIGQUIT")
              EXCEPT !.state = "PM_SHUTDOWN_2"]
      ELSE HandleChildCrash(p, "checkpointer")

ReapCheckpointer(p) ==
    IF p.proc["checkpointer"] = "exit 0" /\ p.state = "PM_SHUTDOWN"
      THEN [Signal(Signal(Forget(p, "checkpointer"), Backends, "SIGUSR2"),
                   {"stats"}, "SIGQUIT")
              EXCEPT !.state = "PM_SHUTDOWN_2"]
      ELSE HandleChildCrash(p, "checkpointer")

ReapStats(p, forks) ==
    IF p.state = "PM_RUN" THEN StartMissing(Forget(p, "stats"), {"stats"}, forks)
    ELSE Forget(p, "stats")

\* CleanupBackend; the writers and the autovacuum launcher.
ReapOther(p, k) ==
    IF p.proc[k] = "exit 0" THEN Forget(p, k) ELSE HandleChildCrash(p, k)

Reaped(p, k, forks) ==
    CASE k = "startup" -> ReapStartup(p, forks)
      [] k = "checkpointer" -> ReapCheckpointer(p)
      [] k = "stats" -> ReapStats(p, forks)
      [] OTHER -> ReapOther(p, k)

-----------------------------------------------------------------------------
(* pmdie.                                                                  *)

\* Mutant: the writers of a smart shutdown are not told.
SmartNotWriters(p) ==
    LET t == Signal(p, Workers \cup {"autovac"}, "SIGTERM")
    IN  IF p.state \in {"PM_RUN", "PM_STARTUP"}
          THEN [t EXCEPT !.Shutdown = "smart",
                         !.state = IF @ = "PM_RUN" THEN "PM_WAIT_BACKUP"
                                                  ELSE "PM_WAIT_READONLY"]
          ELSE [p EXCEPT !.Shutdown = "smart"]

Smart(p) ==
    LET t == Signal(p, Workers \cup {"autovac", "bgwriter", "walwriter"}, "SIGTERM")
    IN  IF p.state \in {"PM_RUN", "PM_STARTUP"}
          THEN [t EXCEPT !.Shutdown = "smart",
                         !.state = IF @ = "PM_RUN" THEN "PM_WAIT_BACKUP"
                                                  ELSE "PM_WAIT_READONLY"]
          ELSE [p EXCEPT !.Shutdown = "smart"]

\* Mutant: the client backends of a fast shutdown are not told.
FastNotClients(p) ==
    LET t == Signal(p, {"startup", "bgwriter"}, "SIGTERM")
    IN  IF p.state \in {"PM_RUN", "PM_WAIT_BACKUP", "PM_WAIT_READONLY",
                        "PM_WAIT_BACKENDS"}
          THEN [Signal(t, Workers \cup {"autovac", "walwriter"}, "SIGTERM")
                  EXCEPT !.Shutdown = "fast", !.state = "PM_WAIT_BACKENDS"]
          ELSE [t EXCEPT !.Shutdown = "fast"]

Fast(p) ==
    LET t == Signal(p, {"startup", "bgwriter"}, "SIGTERM")
    IN  IF p.state \in {"PM_RUN", "PM_WAIT_BACKUP", "PM_WAIT_READONLY",
                        "PM_WAIT_BACKENDS"}
          THEN [Signal(t, Backends \cup {"autovac", "walwriter"}, "SIGTERM")
                  EXCEPT !.Shutdown = "fast", !.state = "PM_WAIT_BACKENDS"]
          ELSE [t EXCEPT !.Shutdown = "fast"]

Immediate(p) ==
    [Signal(p, Backends \cup Special, "SIGQUIT") EXCEPT !.state = "immediate"]

-----------------------------------------------------------------------------
(* Actions.                                                                *)

Init ==
    /\ s = [state |-> "PM_STARTUP", Shutdown |-> "no", FatalError |-> FALSE,
            proc |-> [k \in Procs |-> IF k = "startup" THEN "run" ELSE "none"],
            told |-> [k \in Procs |-> {}]]
    /\ reaping = FALSE /\ recovering = TRUE /\ ckpt = FALSE /\ crashes = 0

InLoop == s.state \in Running /\ ~reaping

\* The new state of the postmaster.  Resetting shared memory declares recovery
\* in progress; once a process that can write WAL has been forked, the shutdown
\* checkpoint is history.
Now(p) ==
    /\ s' = p
    /\ recovering' = (recovering \/ (s.state # "PM_STARTUP" /\ p.state = "PM_STARTUP"))
    /\ ckpt' = (ckpt /\ \A k \in Writers : p.proc[k] = "run" => s.proc[k] = "run")
    /\ UNCHANGED crashes

Pmdie ==
    /\ InLoop
    /\ \E forks \in SUBSET {"checkpointer", "startup"} :
          \/ s.Shutdown = "no" /\ Now(PostmasterStateMachine(Smart(s), forks))
          \/ s.Shutdown # "fast" /\ Now(PostmasterStateMachine(Fast(s), forks))
          \/ Now(Immediate(s))
    /\ UNCHANGED reaping

Dead == {k \in Procs : s.proc[k] \in Statuses}

\* The children that are started when they are missing, k being dead.
Missing(k) ==
    {j \in Special \ {"startup"} : s.proc[j] = "none" \/ j = k}

ReapOne ==
    /\ s.state \in Running
    /\ \E k \in Dead : \E forks \in SUBSET Missing(k) : Now(Reaped(s, k, forks))
    /\ reaping' = TRUE

ReaperEnds ==
    /\ s.state \in Running
    /\ reaping /\ Dead = {}
    /\ \E forks \in SUBSET {"checkpointer", "startup"} :
          Now(PostmasterStateMachine(s, forks))
    /\ reaping' = FALSE

\* ServerLoop starts what is missing.
Background(p, forks) ==
    IF p.state = "PM_RUN"
      THEN StartMissing(p, {"checkpointer", "bgwriter", "walwriter", "autovac",
                            "stats"}, forks)
      ELSE p

Connected(p, b) == StartMissing(p, {b}, {b})

\* One round of ServerLoop, with a connection request or without.  Signals are
\* open between the test of PM_WAIT_DEAD_END and the fork; a dead end forked
\* after it all the same is one WaitDeadEnd waits for, like one forked before.
ServerLoop ==
    /\ InLoop
    /\ \E forks \in SUBSET Missing("startup") :
          \/ Now(Background(s, forks))
          \/ /\ s.state # "PM_WAIT_DEAD_END"
             /\ \E b \in IF canAcceptConnections(s) THEN Clients ELSE DeadEnds :
                   /\ s.proc[b] = "none"
                   /\ Now(Background(Connected(s, b), forks))
    /\ UNCHANGED reaping

\* sigusr1_handler: the request may be older than the state it meets.
StartAutovacuumWorker ==
    /\ InLoop
    /\ s.Shutdown = "no" /\ s.state = "PM_RUN" /\ canAcceptConnections(s)
    /\ \E w \in Workers : s.proc[w] = "none" /\ Now(Connected(s, w))
    /\ UNCHANGED reaping

-----------------------------------------------------------------------------
(* The children, and the machine.                                          *)

\* Only while the postmaster lives: its orphans are not followed any further.
\* A startup process that exits with 0 has finished StartupXLOG, whose last act
\* is to end the recovery.
Ends(k, status) ==
    /\ s.state \in Running
    /\ s.proc[k] = "run"
    /\ s' = [s EXCEPT !.proc[k] = status, !.told[k] = {}]
    /\ recovering' = (recovering /\ <<k, status>> # <<"startup", "exit 0">>)
    /\ UNCHANGED reaping

\* The checkpointer exits with 0 only when ShutdownXLOG has returned: it has
\* written a shutdown checkpoint, but only a restartpoint while the recovery,
\* which a shutdown may have interrupted, is in progress.
CheckpointerDone ==
    /\ "SIGUSR2" \in s.told["checkpointer"]
    /\ Ends("checkpointer", "exit 0")
    /\ ckpt' = (ckpt \/ ~recovering)
    /\ UNCHANGED crashes

\* A regular end, for the startup process also status 1 on SIGTERM.  The
\* writers stay until they are told to go, the statistics collector until it
\* gets its SIGQUIT.
Exits(k) ==
    /\ \/ /\ k \in BackendList \cup {"startup", "autovac"}
          /\ Ends(k, "exit 0")
       \/ /\ k \in {"bgwriter", "walwriter"} /\ "SIGTERM" \in s.told[k]
          /\ Ends(k, "exit 0")
       \/ k = "stats" /\ "SIGQUIT" \in s.told[k] /\ Ends(k, "exit 0")
       \/ k = "startup" /\ "SIGTERM" \in s.told[k] /\ Ends(k, "exit 1")
    /\ UNCHANGED <<ckpt, crashes>>

\* quickdie: exit(2).
Quits(k) ==
    /\ k # "stats" /\ "SIGQUIT" \in s.told[k]
    /\ Ends(k, "crash")
    /\ UNCHANGED <<ckpt, crashes>>

Crashes(k) ==
    /\ crashes < MaxCrashes
    /\ \/ Ends(k, "crash")
       \/ k = "startup" /\ Ends(k, "exit 1")
    /\ crashes' = crashes + 1
    /\ UNCHANGED ckpt

\* The postmaster itself is killed.
Killed ==
    /\ s.state \in Running
    /\ s' = [s EXCEPT !.state = "killed"]
    /\ UNCHANGED <<reaping, recovering, ckpt, crashes>>

Next ==
    \/ Pmdie \/ ReapOne \/ ReaperEnds \/ ServerLoop \/ StartAutovacuumWorker
    \/ CheckpointerDone \/ Killed
    \/ \E k \in Procs : Exits(k) \/ Quits(k) \/ Crashes(k)

Spec == Init /\ [][Next]_vars

(***************************************************************************)
(* SIGCHLD is delivered and handled; a child that was told to end does so, *)
(* the startup process and dead ends come to an end by themselves.  Clients *)
(* may stay as long as they like.                                          *)
(***************************************************************************)
MustEnd(k) ==
    /\ s.told[k] # {} \/ k = "startup" \/ k \in DeadEnds
    /\ Exits(k) \/ Quits(k) \/ (k = "checkpointer" /\ CheckpointerDone)

FairSpec == Spec /\ WF_vars(ReapOne \/ ReaperEnds)
                 /\ \A k \in Procs : WF_vars(MustEnd(k))

-----------------------------------------------------------------------------
(* Safety.                                                                 *)

(***************************************************************************)
(* The shutdown checkpoint is the last thing written: while the            *)
(* checkpointer works on it (PM_SHUTDOWN) and after, no other process that *)
(* can write WAL is alive, also when one was forked just before.           *)
(***************************************************************************)
CheckpointAlone ==
    s.state \in {"PM_SHUTDOWN", "PM_SHUTDOWN_2"} => Live(Writers) = {}

(***************************************************************************)
(* "Normal exit from the postmaster is here" (postmaster.c:3113): no child *)
(* is left, and the shutdown checkpoint is on disk with nothing written    *)
(* after it; or the shutdown has interrupted a recovery, which the next    *)
(* start will repeat (no checkpoint can be made then, xlog.c:7781).        *)
(***************************************************************************)
CleanExit == s.state = "normal" => Live(Procs) = {} /\ (ckpt \/ recovering)

(***************************************************************************)
(* A recovery that is interrupted leaves the log as it found it: from the  *)
(* reset of shared memory until StartupXLOG has finished, also while a     *)
(* shutdown or a crash meanwhile is dealt with, no process but the startup *)
(* process lives that could write WAL.                                     *)
(***************************************************************************)
RecoveryAlone == recovering => Live(Writers \ {"startup"}) = {}

(***************************************************************************)
(* Shared memory is reset, and crash recovery started, only when no child  *)
(* is attached to it any more (the Asserts at postmaster.c:3069).          *)
(***************************************************************************)
ResetAlone ==
    [][s.state # "PM_STARTUP" /\ s'.state = "PM_STARTUP" =>
          \A k \in Procs : s'.proc[k] # "none" => k = "startup"]_vars

(***************************************************************************)
(* After a crash nobody is waited for who was not told to go: the children *)
(* that hold up the recovery have been signalled, though HandleChildCrash  *)
(* signals at the first crash only.                                        *)
(***************************************************************************)
CrashTold ==
    s.FatalError /\ s.state \in {"PM_WAIT_BACKENDS", "PM_WAIT_DEAD_END"} =>
        \A k \in Live(Special \cup Backends) : s.told[k] # {}

(***************************************************************************)
(* A crash is never forgotten: FatalError is taken back only by a startup  *)
(* process that has finished, with no backend left from before the crash.  *)
(***************************************************************************)
CrashEndsInRecovery ==
    [][s.FatalError /\ ~s'.FatalError =>
          Dead \cap {"startup"} # {} /\ Live(Backends) = {}]_vars

-----------------------------------------------------------------------------
(* Refinement: what the launcher takes a postmaster for.                   *)

Dir == "pqsql"

\* PostmasterMain holds the lock file from before Init until it exits; only a
\* postmaster that is killed leaves it behind.
PG == INSTANCE PgServer WITH
    Dirs <- {Dir},
    cluster <- [d \in {Dir} |-> "configured"],
    pm <- [d \in {Dir} |->
             IF s.state \in Exited THEN "down"
             ELSE IF s.Shutdown # "no" THEN "stopping"
             ELSE IF s.state = "PM_RUN" THEN "up" ELSE "starting"],
    pidfile <- [d \in {Dir} |->
                  IF s.state = "killed" THEN "stale"
                  ELSE IF s.state \in Exited THEN "none" ELSE "own"]

(***************************************************************************)
(* The state machine is a postmaster of module PgServer: once told to stop *)
(* it never serves again, not even when it recovers from a crash, and once *)
(* it is down it stays down.                                               *)
(***************************************************************************)
ImplementsPgServer == PG!PostmasterLife

-----------------------------------------------------------------------------
(* Liveness.                                                               *)

(***************************************************************************)
(* A fast shutdown ends, whatever state it meets and whatever crashes on   *)
(* the way.                                                                *)
(***************************************************************************)
FastStops == s.Shutdown = "fast" ~> s.state \notin Running

(***************************************************************************)
(* A smart shutdown waits for clients and for nothing else.                *)
(***************************************************************************)
SmartStops ==
    s.Shutdown = "smart" /\ Live(Clients) = {} ~> s.state \notin Running

(***************************************************************************)
(* After a crash the server comes back, or the postmaster exits.           *)
(***************************************************************************)
CrashRecovers == s.FatalError ~> s.state = "PM_RUN" \/ s.state \notin Running
=============================================================================
