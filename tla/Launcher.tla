------------------------------ MODULE Launcher ------------------------------
(***************************************************************************)
(* The launcher: AppDelegate's start and stop sequences, with the Helper   *)
(* methods they call, run against the PostgreSQL clusters of PgServer and  *)
(* the two daemons (the Ruby API and the frontend's HTTP server).          *)
(*                                                                         *)
(* start and stop run on the main thread from beginning to end; every      *)
(* external command they run is one step here, and between two of them the *)
(* application may be killed, the machine may lose power, and servers and  *)
(* daemons may die.  Any command may fail.  An alert with quit:TRUE ends   *)
(* in [NSApp terminate:], that is in stop, and never returns to start.     *)
(***************************************************************************)
EXTENDS PgServer, Naturals

CONSTANTS
    NoDir,             \* no data directory selected (a nil URL)
    MaxStartRetries,   \* 5 in the code, for PostgreSQL and for each daemon
    NumDbs             \* prod, test and dev: 3 in the code

ASSUME NoDirAssumption == NoDir \notin Dirs
ASSUME RetriesAssumption == MaxStartRetries \in Nat
ASSUME NumDbsAssumption == NumDbs \in Nat \ {0}

VARIABLES
    pc,          \* the command start or stop is about to run
    caller,      \* who called [Helper api:@"start"]: start, or the frontend
    dbi,         \* the database createDatabaseIfNotExist is called for
    path,        \* the path control of the startup window
    dataDir,     \* the user default "dataDir"; survives a restart
    configYml,   \* app/api/config/config.yml exists
    retries,     \* the ...StartRetries counters of Helper
    db,          \* db[d][i]: how far database i of d's cluster has been set up
    daemon       \* daemon[k]: daemon k is running

appVars == <<pc, caller, dbi, path, dataDir, configYml, retries>>
vars == <<cluster, pm, pidfile, pc, caller, dbi, path, dataDir, configYml,
          retries, db, daemon>>

Daemons == {"api", "frontend"}
Retried == Daemons \cup {"postgresql"}
Dbs == 1 .. NumDbs
DbStates == {"none", "created", "migrated", "admin"}

ServerSteps == {"pgStart", "pgStatus"}
DbSteps == {"dbList", "createDb", "migrate", "superAdmin"}
DaemonSteps == {"apiStart", "apiStatus", "frontendStart", "frontendStatus"}
StartSteps == {"config", "mkDataDir", "initdb", "pgConf"}
                \cup ServerSteps \cup DbSteps \cup DaemonSteps
StopSteps == {"stopApi", "stopFrontend", "stopPg", "stopPgWait"}

\* The sequence has verified the server with pg_ctl status and goes on with it.
AfterStatus == DbSteps \cup DaemonSteps \cup {"ready"}

TypeOK ==
    /\ PgTypeOK
    /\ pc \in {"off", "idle", "ready", "alert", "raised"} \cup StartSteps \cup StopSteps
    /\ caller \in {"start", "frontend"}
    /\ dbi \in Dbs
    /\ path \in Dirs \cup {NoDir}
    /\ dataDir \in Dirs \cup {NoDir}
    /\ configYml \in BOOLEAN
    /\ retries \in [Retried -> Nat]
    /\ db \in [Dirs -> [Dbs -> DbStates]]
    /\ daemon \in [Daemons -> BOOLEAN]

NoRetries == [k \in Retried |-> 0]

Init ==
    /\ PgInit
    /\ pc = "off" /\ caller = "start" /\ dbi = 1
    /\ path = NoDir /\ dataDir = NoDir /\ configYml = FALSE
    /\ retries = NoRetries
    /\ db = [d \in Dirs |-> [i \in Dbs |-> "none"]]
    /\ daemon = [k \in Daemons |-> FALSE]

-----------------------------------------------------------------------------
(* The application process and the startup window.                         *)

\* applicationDidFinishLaunching: the path control shows the saved directory.
Launch ==
    /\ pc = "off"
    /\ pc' = "idle"
    /\ path' = dataDir
    /\ UNCHANGED <<pgVars, caller, dbi, dataDir, configYml, retries, db, daemon>>

\* The process is gone, and with it everything that is not on disk.
ProcessEnds ==
    /\ pc' = "off"
    /\ caller' = "start" /\ dbi' = 1 /\ path' = NoDir /\ retries' = NoRetries
    /\ UNCHANGED <<dataDir, configYml, db>>

\* A click that hits no path component clears the control (and disables the
\* start button), but leaves the saved default as it was.
PathUpdated ==
    /\ pc = "idle"
    /\ path' \in Dirs \cup {NoDir}
    /\ dataDir' = IF path' = NoDir THEN dataDir ELSE path'
    /\ UNCHANGED <<pgVars, pc, caller, dbi, configYml, retries, db, daemon>>

StartClicked ==
    /\ pc = "idle" /\ path # NoDir
    /\ pc' = "config"
    /\ UNCHANGED <<pgVars, caller, dbi, path, dataDir, configYml, retries,
                   db, daemon>>

\* terminate: from the menu; start blocks the main thread until it is over.
Quit ==
    /\ pc \in {"idle", "ready", "raised"}
    /\ pc' = "stopApi"
    /\ UNCHANGED <<pgVars, caller, dbi, path, dataDir, configYml, retries,
                   db, daemon>>

\* showAlert with quit:TRUE: both its buttons lead to terminate:.
AlertDismissed ==
    /\ pc = "alert"
    /\ pc' = "stopApi"
    /\ UNCHANGED <<pgVars, caller, dbi, path, dataDir, configYml, retries,
                   db, daemon>>

-----------------------------------------------------------------------------
(* start: configuration and data directory.                                *)

Goto(step) ==
    /\ pc' = step
    /\ UNCHANGED <<caller, dbi, path, dataDir, retries>>

(***************************************************************************)
(* "raised": the output of a command run with runCommand is not UTF-8.     *)
(* The command has done its work or not; building the result raises, the   *)
(* exception leaves start, and the startup window stays, start button and  *)
(* path control disabled.                                                  *)
(***************************************************************************)

\* createConfigYml only when the file is missing; alerts 700 and 701.
CreateConfigYml ==
    /\ pc = "config"
    /\ \/ configYml /\ Goto("mkDataDir") /\ UNCHANGED configYml
       \/ ~configYml /\ Goto("mkDataDir") /\ configYml' = TRUE
       \/ ~configYml /\ Goto("alert") /\ UNCHANGED configYml
    /\ UNCHANGED <<pgVars, db, daemon>>

\* Mutant: an existing directory is reconfigured, too.
CreateDataDirReconfigures ==
    /\ pc = "mkDataDir"
    /\ IF cluster[dataDir] = "missing"
         THEN Goto("initdb") /\ cluster' = [cluster EXCEPT ![dataDir] = "bare"]
         ELSE Goto("pgConf") /\ UNCHANGED cluster
    /\ UNCHANGED <<pm, pidfile, configYml, db, daemon>>

\* An existing directory is taken to hold a complete, configured cluster.
CreateDataDir ==
    /\ pc = "mkDataDir"
    /\ \/ /\ cluster[dataDir] # "missing"
          /\ Goto("pgStart")
          /\ UNCHANGED cluster
       \/ /\ cluster[dataDir] = "missing"
          /\ Goto("initdb")
          /\ cluster' = [cluster EXCEPT ![dataDir] = "bare"]
       \/ /\ cluster[dataDir] = "missing"     \* alert 100
          /\ Goto("alert")
          /\ UNCHANGED cluster
    /\ UNCHANGED <<pm, pidfile, configYml, db, daemon>>

Initdb ==
    /\ pc = "initdb"
    /\ \/ /\ Goto("pgConf")
          /\ cluster' = [cluster EXCEPT ![dataDir] = "initialised"]
       \/ Goto("alert") /\ UNCHANGED cluster  \* alert 101
       \/ /\ Goto("raised")
          /\ cluster' \in {cluster, [cluster EXCEPT ![dataDir] = "initialised"]}
    /\ UNCHANGED <<pm, pidfile, configYml, db, daemon>>

UpdatePostgresqlConf ==
    /\ pc = "pgConf"
    /\ \/ /\ Goto("pgStart")
          /\ cluster' = [cluster EXCEPT ![dataDir] = "configured"]
       \/ Goto("alert") /\ UNCHANGED cluster  \* alerts 150 and 151
    /\ UNCHANGED <<pm, pidfile, configYml, db, daemon>>

-----------------------------------------------------------------------------
(* start: the PostgreSQL server.                                           *)

CanRetry(k) == retries[k] <= MaxStartRetries

PostgresqlStart ==
    /\ pc = "pgStart"
    /\ \/ CanRetry("postgresql") /\ Goto("pgStatus") /\ PgCtlStart(dataDir)
       \/ ~CanRetry("postgresql") /\ Goto("alert") /\ UNCHANGED pgVars
    /\ UNCHANGED <<configYml, db, daemon>>

\* Mutant: a failed attempt is not counted.
VerdictUncounted(k, running, again, next) ==
    /\ pc' = IF running THEN next ELSE again
    /\ retries' = [retries EXCEPT ![k] = IF running THEN 0 ELSE @]

\* The status of server or daemon k decides: again, or on to the next step.
Verdict(k, running, again, next) ==
    /\ pc' = IF running THEN next ELSE again
    /\ retries' = [retries EXCEPT ![k] = IF running THEN 0 ELSE @ + 1]

\* Mutant: pg_ctl's -w is trusted and its status not asked for.
PostgresqlStatusIgnored ==
    /\ pc = "pgStatus"
    /\ Verdict("postgresql", TRUE, "pgStart", "dbList")
    /\ UNCHANGED <<pgVars, caller, dbi, path, dataDir, configYml, db, daemon>>

PostgresqlStatus ==
    /\ pc = "pgStatus"
    /\ Verdict("postgresql", PgCtlStatus(dataDir) = 0, "pgStart", "dbList")
    /\ UNCHANGED <<pgVars, caller, dbi, path, dataDir, configYml, db, daemon>>

-----------------------------------------------------------------------------
(* start: createDatabaseIfNotExist, for each database in turn.             *)

NextDb ==
    /\ IF dbi < NumDbs THEN dbi' = dbi + 1 /\ pc' = "dbList"
                       ELSE dbi' = dbi /\ pc' = "apiStart"
    /\ UNCHANGED <<caller, path, dataDir, retries>>

\* Database dbi of the server that serves the port goes from state s to t.
Advance(s, t) ==
    \E e \in Dirs :
       /\ Serving(e) /\ db[e][dbi] = s
       /\ db' = [db EXCEPT ![e] = [@ EXCEPT ![dbi] = t]]

\* Mutant: grep without the database's suffix.
DbListAnyName ==
    /\ pc = "dbList"
    /\ \/ /\ \E e \in Dirs, i \in Dbs : Serving(e) /\ db[e][i] # "none"
          /\ NextDb
       \/ Goto("createDb")
    /\ UNCHANGED <<pgVars, configYml, db, daemon>>

\* Mutant: a listing that fails is taken for an existing database.
DbListFailureSkips ==
    /\ pc = "dbList"
    /\ IF \E e \in Dirs : Serving(e) /\ db[e][dbi] = "none"
         THEN Goto("createDb")
         ELSE NextDb
    /\ UNCHANGED <<pgVars, configYml, db, daemon>>

\* psql --list | grep: a listing that fails looks like a missing database.
DbList ==
    /\ pc = "dbList"
    /\ \/ (\E e \in Dirs : Serving(e) /\ db[e][dbi] # "none") /\ NextDb
       \/ Goto("createDb")
       \/ Goto("raised")
    /\ UNCHANGED <<pgVars, configYml, db, daemon>>

CreateDb ==
    /\ pc = "createDb"
    /\ \/ Advance("none", "created") /\ (Goto("migrate") \/ Goto("raised"))
       \/ (Goto("alert") \/ Goto("raised")) /\ UNCHANGED db   \* alert 502
    /\ UNCHANGED <<pgVars, configYml, daemon>>

Migrate ==
    /\ pc = "migrate"
    /\ \/ Advance("created", "migrated") /\ (Goto("superAdmin") \/ Goto("raised"))
       \/ (Goto("alert") \/ Goto("raised")) /\ UNCHANGED db   \* alert 503
    /\ UNCHANGED <<pgVars, configYml, daemon>>

CreateSuperAdmin ==
    /\ pc = "superAdmin"
    /\ \/ Advance("migrated", "admin") /\ (NextDb \/ Goto("raised"))
       \/ (Goto("alert") \/ Goto("raised")) /\ UNCHANGED db   \* alert 512
    /\ UNCHANGED <<pgVars, configYml, daemon>>

-----------------------------------------------------------------------------
(* start: the daemons.  rake daemon[start] may leave the daemon running or *)
(* not; daemon[status] succeeds only for a running one.                    *)

RunDaemon(k, status) ==
    \/ CanRetry(k) /\ Goto(status) /\ \E r \in {daemon[k], TRUE} :
                                         daemon' = [daemon EXCEPT ![k] = r]
    \/ ~CanRetry(k) /\ Goto("alert") /\ UNCHANGED daemon   \* alert 900

ApiStart ==
    /\ pc = "apiStart"
    /\ RunDaemon("api", "apiStatus")
    /\ UNCHANGED <<pgVars, configYml, db>>

\* api:@"start" returns to its caller: to start, which goes on with the
\* frontend, or to the frontend's failed attempt, after which start is ready.
ApiStatus ==
    /\ pc = "apiStatus"
    /\ \E running \in {daemon["api"], FALSE} :
          Verdict("api", running, "apiStart",
                  IF caller = "start" THEN "frontendStart" ELSE "ready")
    /\ UNCHANGED <<pgVars, caller, dbi, path, dataDir, configYml, db, daemon>>

FrontendStart ==
    /\ pc = "frontendStart"
    /\ RunDaemon("frontend", "frontendStatus")
    /\ UNCHANGED <<pgVars, configYml, db>>

\* A failed attempt calls [self api:@"start"], not the frontend again.
FrontendStatus ==
    /\ pc = "frontendStatus"
    /\ \E running \in {daemon["frontend"], FALSE} :
          /\ Verdict("frontend", running, "apiStart", "ready")
          /\ caller' = IF running THEN caller ELSE "frontend"
    /\ UNCHANGED <<pgVars, dbi, path, dataDir, configYml, db, daemon>>

-----------------------------------------------------------------------------
(* stop: daemons first, then the server; failures are ignored.             *)

StopDaemon(k, step, next) ==
    /\ pc = step
    /\ Goto(next)
    /\ \E r \in {daemon[k], FALSE} : daemon' = [daemon EXCEPT ![k] = r]
    /\ UNCHANGED <<pgVars, configYml, db>>

StopApi == StopDaemon("api", "stopApi", "stopFrontend")
StopFrontend == StopDaemon("frontend", "stopFrontend", "stopPg")

\* pg_ctl stop finds no process to signal; stop and the application end.
StopPgNothing ==
    /\ pc = "stopPg"
    /\ dataDir \in Dirs => ~Signallable(dataDir)
    /\ ProcessEnds
    /\ UNCHANGED <<pgVars, daemon>>

StopPg ==
    /\ pc = "stopPg"
    /\ dataDir \in Dirs
    /\ PgCtlStopSignal(dataDir)
    /\ Goto("stopPgWait")
    /\ UNCHANGED <<configYml, db, daemon>>

StopPgDone ==
    /\ pc = "stopPgWait"
    /\ pidfile[dataDir] = "none"
    /\ ProcessEnds
    /\ UNCHANGED <<pgVars, daemon>>

\* Mutant: pg_ctl waits for the server without a limit.
StopPgNoTimeout ==
    /\ pc = "stopPgWait"
    /\ pidfile[dataDir] = "none"
    /\ ProcessEnds
    /\ UNCHANGED <<pgVars, daemon>>

\* The 60 polls of the pid file are used up; the server is left to itself.
StopPgTimeout ==
    /\ pc = "stopPgWait"
    /\ pidfile[dataDir] # "none"
    /\ ProcessEnds
    /\ UNCHANGED <<pgVars, daemon>>

-----------------------------------------------------------------------------
(* Failures and the rest of the machine.                                   *)

Crash ==
    /\ pc # "off"
    /\ ProcessEnds
    /\ UNCHANGED <<pgVars, daemon>>

Reboot ==
    /\ ProcessEnds
    /\ PgReboot
    /\ daemon' = [k \in Daemons |-> FALSE]

DaemonDies ==
    /\ \E k \in Daemons : daemon[k] /\ daemon' = [daemon EXCEPT ![k] = FALSE]
    /\ UNCHANGED <<pgVars, appVars, db>>

ServerEvent == PgEnv /\ UNCHANGED <<appVars, db, daemon>>

-----------------------------------------------------------------------------
\* What the main thread does without waiting for the user.
AppStep ==
    \/ CreateConfigYml \/ CreateDataDir \/ Initdb \/ UpdatePostgresqlConf
    \/ PostgresqlStart \/ PostgresqlStatus
    \/ DbList \/ CreateDb \/ Migrate \/ CreateSuperAdmin
    \/ ApiStart \/ ApiStatus \/ FrontendStart \/ FrontendStatus
    \/ StopApi \/ StopFrontend
    \/ StopPgNothing \/ StopPg \/ StopPgDone \/ StopPgTimeout

UserStep == Launch \/ PathUpdated \/ StartClicked \/ Quit \/ AlertDismissed

Fault == Crash \/ Reboot \/ DaemonDies \/ ServerEvent

Next == UserStep \/ AppStep \/ Fault

Spec == Init /\ [][Next]_vars

(***************************************************************************)
(* Every command the main thread runs ends at last: pg_ctl bounds its own  *)
(* waits, and the others are taken to return.  The user owes nothing.      *)
(***************************************************************************)
FairSpec == Spec /\ WF_vars(AppStep)

-----------------------------------------------------------------------------
(* Safety.                                                                 *)

(***************************************************************************)
(* The selected directory is not in order: postgresql.conf was never       *)
(* written (the application was killed between initdb and                  *)
(* updatePostgresqlConf), or its pid file does not name its postmaster.    *)
(* pg_ctl status cannot tell either from a running server on port 50725.   *)
(***************************************************************************)
Unsound(d) == cluster[d] # "configured" \/ pidfile[d] \in {"stale", "reused"}

(***************************************************************************)
(* From the status check of [Helper postgresql:@"start"] on, the server on *)
(* port 50725 is the one of the selected directory, never one an earlier   *)
(* session left running for another directory, unless the directory is     *)
(* Unsound.                                                                *)
(***************************************************************************)
SelectedDirServes ==
    pc \in AfterStatus =>
        \A e \in Dirs : Listening(e) => e = dataDir \/ Unsound(dataDir)

(***************************************************************************)
(* createDatabaseIfNotExist changes databases of the selected directory    *)
(* only (same exception), and nobody else changes any.                     *)
(***************************************************************************)
OnlySelectedWritten ==
    [][\A e \in Dirs : db'[e] # db[e] =>
          pc \in DbSteps /\ (e = dataDir \/ Unsound(dataDir))]_vars

(***************************************************************************)
(* prod, test and dev come into being in this order in every cluster,      *)
(* across failures, crashes and restarts of createDatabaseIfNotExist.      *)
(***************************************************************************)
ProvisionedInOrder ==
    \A d \in Dirs : \A i, j \in Dbs :
        i < j /\ db[d][j] # "none" => db[d][i] # "none"

(***************************************************************************)
(* Once start has come to the daemons, the server they can reach on port   *)
(* 50725 has all the databases: every failing path of                      *)
(* createDatabaseIfNotExist quits.                                         *)
(***************************************************************************)
ApiFindsDatabases ==
    pc \in DaemonSteps \cup {"ready"} =>
        \A e \in Dirs : Listening(e) => \A i \in Dbs : db[e][i] # "none"

(***************************************************************************)
(* updatePostgresqlConf rewrites the file of a fresh cluster that no       *)
(* process has locked: never under a running postmaster, and never in a    *)
(* directory that an earlier session configured.                           *)
(***************************************************************************)
ConfOnlyFreshCluster ==
    pc = "pgConf" =>
        cluster[dataDir] = "initialised" /\ pidfile[dataDir] = "none"

(***************************************************************************)
(* The retry counters: at most MaxStartRetries + 1 attempts to start the   *)
(* server or a daemon, also when the frontend's failure restarts the API.  *)
(***************************************************************************)
AttemptsBounded == \A k \in Retried : retries[k] <= MaxStartRetries + 1

(***************************************************************************)
(* stop never ends leaving the selected directory's server in operation:   *)
(* when the application ends by itself, that server is down or on its way  *)
(* (StopPgNothing may not overlook one, whatever the pid file says).       *)
(***************************************************************************)
QuitStopsServer ==
    [][(StopPgNothing \/ StopPgDone \/ StopPgTimeout) =>
          (dataDir \in Dirs => pm[dataDir] \in {"down", "stopping"})]_vars

-----------------------------------------------------------------------------
(* Liveness.                                                               *)

(***************************************************************************)
(* Starting Piecemaker ends: ready, in an alert, by an exception, or with  *)
(* the process gone.  No chain of failing status checks keeps the main     *)
(* thread blocked.                                                         *)
(***************************************************************************)
StartTerminates == pc \in StartSteps ~> pc \in {"ready", "alert", "raised", "off"}

(***************************************************************************)
(* Quitting ends, also when the API survives daemon[stop] and its          *)
(* connections keep the smart shutdown of the server from completing.      *)
(***************************************************************************)
QuitTerminates == pc \in StopSteps ~> pc = "off"

-----------------------------------------------------------------------------
(* What the source says of the sequence and the code does not do.          *)

(***************************************************************************)
(* AppDelegate.m:211 starts the frontend with quitOnError:TRUE and         *)
(* Helper.m:204 announces a failure ("Unable to start HTTP Server."), so   *)
(* start should not become ready without a running frontend.               *)
(***************************************************************************)
ReadyOnlyWithFrontend ==
    [][pc # "ready" /\ pc' = "ready" => daemon["frontend"]]_vars
=============================================================================
