--------------------------- MODULE LauncherProofs ---------------------------
(***************************************************************************)
(* Proofs of the safety properties of Launcher, for every set of data      *)
(* directories, every number of databases and every retry limit.           *)
(***************************************************************************)
EXTENDS Launcher, TLAPS

USE NoDirAssumption, RetriesAssumption, NumDbsAssumption

-----------------------------------------------------------------------------
(* Type correctness.                                                       *)

\* A database command keeps the type of db and leaves other databases alone.
LEMMA AdvanceEffect ==
  ASSUME TypeOK, NEW s, NEW t \in DbStates, Advance(s, t)
  PROVE  /\ db' \in [Dirs -> [Dbs -> DbStates]]
         /\ \E e \in Dirs :
               /\ Serving(e) /\ db[e][dbi] = s /\ db'[e][dbi] = t
               /\ \A d \in Dirs, i \in Dbs :
                     d # e \/ i # dbi => db'[d][i] = db[d][i]
<1>1. PICK e \in Dirs : /\ Serving(e) /\ db[e][dbi] = s
                        /\ db' = [db EXCEPT ![e] = [@ EXCEPT ![dbi] = t]]
  BY DEF Advance
<1>2. dbi \in Dbs /\ db \in [Dirs -> [Dbs -> DbStates]]
  BY DEF TypeOK
<1> DEFINE row == [db[e] EXCEPT ![dbi] = t]
<1>3. row \in [Dbs -> DbStates] /\ row[dbi] = t
      /\ \A i \in Dbs : i # dbi => row[i] = db[e][i]
  BY <1>2
<1>4. db' = [db EXCEPT ![e] = row]
  BY <1>1
<1> HIDE DEF row
<1>5. db' \in [Dirs -> [Dbs -> DbStates]]
  BY <1>2, <1>3, <1>4
<1>6. db'[e] = row /\ \A d \in Dirs : d # e => db'[d] = db[d]
  BY <1>2, <1>4
<1> QED
  BY <1>1, <1>3, <1>5, <1>6

\* Setting one daemon keeps the type of daemon, whichever command did it and
\* whether or not the command had an effect.
LEMMA DaemonUpdateType ==
  ASSUME TypeOK, NEW k \in Daemons, NEW b \in BOOLEAN,
         \E r \in {daemon[k], b} : daemon' = [daemon EXCEPT ![k] = r]
  PROVE  daemon' \in [Daemons -> BOOLEAN]
<1>1. daemon \in [Daemons -> BOOLEAN] /\ daemon[k] \in BOOLEAN
  BY DEF TypeOK
<1>2. PICK r \in {daemon[k], b} : daemon' = [daemon EXCEPT ![k] = r]
  OBVIOUS
<1>3. r \in BOOLEAN
  BY <1>1, <1>2, ZenonT(30)
<1> QED
  BY <1>1, <1>2, <1>3, ZenonT(30)

\* Every variable keeps its type: TypeOK is inductive by itself.
LEMMA TypeStep == TypeOK /\ [Next]_vars => TypeOK'
<1> SUFFICES ASSUME TypeOK, [Next]_vars PROVE TypeOK'
  OBVIOUS
<1> USE DEF TypeOK, PgTypeOK, StartSteps, StopSteps, ServerSteps, DbSteps,
            DaemonSteps, Dbs, Daemons, Retried, DbStates, ClusterStates,
            PmStates, PidfileStates
<1>1. CASE UNCHANGED vars
  BY <1>1 DEF vars
<1>2. CASE UserStep
  BY <1>2 DEF UserStep, Launch, PathUpdated, StartClicked, Quit,
              AlertDismissed, pgVars
<1>3. CASE CreateConfigYml \/ CreateDataDir \/ Initdb \/ UpdatePostgresqlConf
  BY <1>3 DEF CreateConfigYml, CreateDataDir, Initdb, UpdatePostgresqlConf,
              Goto, pgVars
<1>4. CASE PostgresqlStart
  BY <1>4 DEF PostgresqlStart, PgCtlStart, Goto, pgVars
<1>5. CASE PostgresqlStatus
  BY <1>5 DEF PostgresqlStatus, Verdict, pgVars
<1>6. CASE DbList
  BY <1>6 DEF DbList, NextDb, Goto, pgVars
<1>7. CASE CreateDb
  <2>1. db' \in [Dirs -> [Dbs -> DbStates]]
    BY <1>7, AdvanceEffect DEF CreateDb
  <2> QED
    BY <1>7, <2>1 DEF CreateDb, Goto, pgVars
<1>8. CASE Migrate
  <2>1. db' \in [Dirs -> [Dbs -> DbStates]]
    BY <1>8, AdvanceEffect DEF Migrate
  <2> QED
    BY <1>8, <2>1 DEF Migrate, Goto, pgVars
<1>9. CASE CreateSuperAdmin
  <2>1. db' \in [Dirs -> [Dbs -> DbStates]]
    BY <1>9, AdvanceEffect DEF CreateSuperAdmin
  <2> QED
    BY <1>9, <2>1 DEF CreateSuperAdmin, NextDb, Goto, pgVars
<1>10. CASE ApiStart \/ FrontendStart
  <2>1. ASSUME NEW k \in Daemons, NEW next, RunDaemon(k, next)
        PROVE  daemon' \in [Daemons -> BOOLEAN]
    <3>1. CASE UNCHANGED daemon
      BY <3>1
    <3>2. CASE \E r \in {daemon[k], TRUE} : daemon' = [daemon EXCEPT ![k] = r]
      BY <3>2, DaemonUpdateType
    <3> QED
      BY <2>1, <3>1, <3>2, ZenonT(30) DEF RunDaemon
  <2>2. CASE ApiStart
    BY <2>1, <2>2 DEF ApiStart, RunDaemon, Goto, pgVars
  <2>3. CASE FrontendStart
    BY <2>1, <2>3 DEF FrontendStart, RunDaemon, Goto, pgVars
  <2> QED
    BY <1>10, <2>2, <2>3
<1>11. CASE ApiStatus
  BY <1>11 DEF ApiStatus, Verdict, pgVars
<1>12. CASE FrontendStatus
  BY <1>12 DEF FrontendStatus, Verdict, pgVars
<1>13. CASE StopApi \/ StopFrontend
  <2>1. ASSUME NEW k \in Daemons, NEW step, NEW next, StopDaemon(k, step, next)
        PROVE  daemon' \in [Daemons -> BOOLEAN]
    BY <2>1, DaemonUpdateType DEF StopDaemon
  <2>2. CASE StopApi
    BY <2>1, <2>2 DEF StopApi, StopDaemon, Goto, pgVars
  <2>3. CASE StopFrontend
    BY <2>1, <2>3 DEF StopFrontend, StopDaemon, Goto, pgVars
  <2> QED
    BY <1>13, <2>2, <2>3
<1>14. CASE StopPgNothing \/ StopPgDone \/ StopPgTimeout \/ Crash
  BY <1>14 DEF StopPgNothing, StopPgDone, StopPgTimeout, Crash, ProcessEnds,
               NoRetries, pgVars
<1>15. CASE StopPg
  BY <1>15 DEF StopPg, PgCtlStopSignal, Goto
<1>16. CASE Reboot
  BY <1>16 DEF Reboot, ProcessEnds, NoRetries, PgReboot
<1>17. CASE DaemonDies
  <2>1. daemon' \in [Daemons -> BOOLEAN]
    <3>1. PICK k \in Daemons : daemon' = [daemon EXCEPT ![k] = FALSE]
      BY <1>17 DEF DaemonDies
    <3> QED
      BY <3>1, DaemonUpdateType
  <2> QED
    BY <1>17, <2>1 DEF DaemonDies, appVars, pgVars
<1>18. CASE ServerEvent
  BY <1>18 DEF ServerEvent, PgEnv, PostmasterActs, PostmasterReady,
               PostmasterRestarts, PostmasterStops, PostmasterExits,
               PostmasterDies, Alive, PidRecycled, ForeignExits, appVars
<1> QED
  BY <1>1, <1>2, <1>3, <1>4, <1>5, <1>6, <1>7, <1>8, <1>9, <1>10, <1>11,
     <1>12, <1>13, <1>14, <1>15, <1>16, <1>17, <1>18 DEF Next, AppStep, Fault

LEMMA TypeInit == Init => TypeOK
<1> SUFFICES ASSUME Init PROVE TypeOK
  OBVIOUS
<1>1. dbi \in Dbs
  BY DEF Init, Dbs
<1>2. db \in [Dirs -> [Dbs -> DbStates]]
  BY DEF Init, DbStates
<1>3. PgTypeOK
  BY DEF Init, PgInit, PgTypeOK, ClusterStates, PmStates, PidfileStates
<1>4. retries \in [Retried -> Nat] /\ daemon \in [Daemons -> BOOLEAN]
  BY DEF Init, NoRetries
<1> QED
  BY <1>1, <1>2, <1>3, <1>4 DEF Init, TypeOK

\* The state of the launcher and of the servers stays within its types.
THEOREM TypeCorrect == Spec => []TypeOK
BY TypeInit, TypeStep, PTL DEF Spec

-----------------------------------------------------------------------------
(* The inductive invariant.                                                *)

\* A postmaster lives exactly as long as its own lock file, and only a
\* finished cluster ever had one.
Locks ==
    \A d \in Dirs : /\ Alive(d) <=> pidfile[d] = "own"
                    /\ pidfile[d] # "none" => HasCluster(d)

\* One postmaster at most holds port 50725.
OneListener == \A d, e \in Dirs : Listening(d) /\ Listening(e) => d = e

\* start works on the directory the path control shows.
Selection ==
    /\ path # NoDir => path = dataDir
    /\ pc \in StartSteps \cup {"ready", "stopPgWait"} => dataDir \in Dirs

\* What the previous step has left in the selected directory.
Setup ==
    /\ pc = "initdb" => cluster[dataDir] = "bare"
    /\ ConfOnlyFreshCluster
    /\ pc = "stopPgWait" => pm[dataDir] \in {"down", "stopping"}

\* The loop over the databases starts with the first one, and a status check
\* follows only an attempt the retry limit allowed.
Counters ==
    /\ pc \in {"off", "idle"} \cup (StartSteps \ AfterStatus) => dbi = 1
    /\ pc = "pgStatus" => CanRetry("postgresql")
    /\ pc = "apiStatus" => CanRetry("api")
    /\ pc = "frontendStatus" => CanRetry("frontend")
    /\ AttemptsBounded

\* The databases createDatabaseIfNotExist is already past exist in the server.
Passed(i) == \/ pc \in DaemonSteps \cup {"ready"}
             \/ i < dbi
             \/ i = dbi /\ pc \in {"migrate", "superAdmin"}

DbsDone ==
    pc \in AfterStatus =>
        \A e \in Dirs : Listening(e) =>
            \A i \in Dbs : Passed(i) => db[e][i] # "none"

IndInv ==
    /\ TypeOK
    /\ Locks
    /\ OneListener
    /\ Selection
    /\ Setup
    /\ Counters
    /\ SelectedDirServes
    /\ DbsDone
    /\ ProvisionedInOrder

-----------------------------------------------------------------------------
(* The steps that change a cluster, a postmaster or a lock file.           *)

LEMMA ServerCases ==
  ASSUME [Next]_vars
  PROVE  \/ UNCHANGED pgVars
         \/ CreateDataDir \/ Initdb \/ UpdatePostgresqlConf
         \/ PostgresqlStart \/ StopPg \/ Reboot \/ ServerEvent
<1>1. CASE UNCHANGED vars
  BY <1>1 DEF vars, pgVars
<1>2. CASE UserStep
  BY <1>2 DEF UserStep, Launch, PathUpdated, StartClicked, Quit, AlertDismissed
<1>3. CASE AppStep
  BY <1>3 DEF AppStep, CreateConfigYml, PostgresqlStatus, DbList, CreateDb,
              Migrate, CreateSuperAdmin, ApiStart, ApiStatus, FrontendStart,
              FrontendStatus, StopApi, StopFrontend, StopDaemon,
              StopPgNothing, StopPgDone, StopPgTimeout
<1>4. CASE Fault
  BY <1>4 DEF Fault, Crash, DaemonDies
<1> QED
  BY <1>1, <1>2, <1>3, <1>4 DEF Next

\* What a server does by itself never makes it listen, and a directory whose
\* pid file is out of order stays so.
LEMMA ServerEventEffect ==
  ASSUME TypeOK, Locks, ServerEvent
  PROVE  /\ Locks'
         /\ UNCHANGED <<cluster, appVars, db>>
         /\ \A d \in Dirs : /\ Alive(d)' => Alive(d)
                            /\ pidfile[d] = "none" => pidfile'[d] = "none"
                            /\ Unsound(d) => Unsound(d)'
                            /\ pm[d] \in {"down", "stopping"} =>
                                  pm'[d] \in {"down", "stopping"}
<1>1. PICK d \in Dirs : PostmasterActs(d) \/ PidRecycled(d) \/ ForeignExits(d)
  BY DEF ServerEvent, PgEnv
<1> USE DEF PostmasterActs, PostmasterReady, PostmasterRestarts, PostmasterStops,
            PostmasterExits, PostmasterDies, PidRecycled, ForeignExits, Alive
<1>2. UNCHANGED <<cluster, appVars, db>>
  BY <1>1 DEF ServerEvent
<1>3. pm \in [Dirs -> PmStates] /\ pidfile \in [Dirs -> PidfileStates]
  BY DEF TypeOK, PgTypeOK
<1>4. \A e \in Dirs : e # d => pm'[e] = pm[e] /\ pidfile'[e] = pidfile[e]
  BY <1>1, <1>3
<1>5. \/ /\ pm[d] # "down" /\ pm'[d] # "down" /\ pidfile'[d] = pidfile[d]
         /\ pm[d] = "stopping" => pm'[d] = "stopping"
      \/ pm[d] # "down" /\ pm'[d] = "down" /\ pidfile'[d] \in {"none", "stale"}
      \/ pidfile[d] = "stale" /\ pidfile'[d] = "reused" /\ pm'[d] = pm[d]
      \/ pidfile[d] = "reused" /\ pidfile'[d] = "stale" /\ pm'[d] = pm[d]
  BY <1>1, <1>3
<1>6. \A e \in Dirs : pm'[e] # "down" <=> pidfile'[e] = "own"
  BY <1>4, <1>5 DEF Locks, Alive
<1>7. \A e \in Dirs : pidfile'[e] # "none" => pidfile[e] # "none"
  BY <1>4, <1>5 DEF Locks, Alive
<1>8. Locks'
  BY <1>2, <1>6, <1>7 DEF Locks, Alive, HasCluster
<1> QED
  BY <1>2, <1>4, <1>5, <1>8 DEF Locks, Alive, Unsound

\* Lock files tell the truth about postmasters and port 50725 has one holder,
\* whatever starts, stops, fails or is configured; only pg_ctl start makes a
\* server listen.
LEMMA ServersStep ==
  ASSUME TypeOK, Locks, OneListener, Selection, Setup, [Next]_vars
  PROVE  /\ Locks' /\ OneListener'
         /\ pc # "pgStart" => \A e \in Dirs : Listening(e)' => Listening(e)
<1> USE DEF TypeOK, PgTypeOK
<1>1. CASE UNCHANGED pgVars
  BY <1>1 DEF pgVars, Locks, OneListener, Listening, Alive, HasCluster
<1>2. CASE CreateDataDir
  <2>1. pm' = pm /\ pidfile' = pidfile
    BY <1>2 DEF CreateDataDir
  <2>2. \A e \in Dirs : /\ HasCluster(e) => HasCluster(e)'
                        /\ cluster'[e] = "configured" => cluster[e] = "configured"
    BY <1>2 DEF CreateDataDir, HasCluster
  <2> QED
    BY <2>1, <2>2 DEF Locks, OneListener, Listening, Alive
<1>3. CASE Initdb
  <2>1. pm' = pm /\ pidfile' = pidfile
    BY <1>3 DEF Initdb
  <2>2. \A e \in Dirs : /\ HasCluster(e) => HasCluster(e)'
                        /\ cluster'[e] = "configured" => cluster[e] = "configured"
    BY <1>3 DEF Initdb, HasCluster, Setup
  <2> QED
    BY <2>1, <2>2 DEF Locks, OneListener, Listening, Alive
<1>4. CASE UpdatePostgresqlConf
  <2>1. pm' = pm /\ pidfile' = pidfile /\ pidfile[dataDir] = "none"
    BY <1>4 DEF UpdatePostgresqlConf, Setup, ConfOnlyFreshCluster
  <2>2. \A e \in Dirs : /\ HasCluster(e) => HasCluster(e)'
                        /\ cluster'[e] = "configured" =>
                              cluster[e] = "configured" \/ e = dataDir
    BY <1>4 DEF UpdatePostgresqlConf, HasCluster
  <2>3. \A e \in Dirs : Listening(e)' => Listening(e)
    BY <2>1, <2>2 DEF Listening, Alive, Locks
  <2> QED
    BY <2>1, <2>2, <2>3 DEF Locks, OneListener, Alive
<1>5. CASE PostgresqlStart
  <2>1. pc = "pgStart" /\ dataDir \in Dirs
    BY <1>5 DEF PostgresqlStart, Selection, StartSteps, ServerSteps
  <2>2. CASE UNCHANGED pgVars
    BY <1>1, <2>2
  <2>3. CASE /\ ~Alive(dataDir) /\ UNCHANGED <<cluster, pm>>
             /\ pidfile' = [pidfile EXCEPT ![dataDir] = "none"]
    BY <2>1, <2>3 DEF Locks, OneListener, Listening, Alive, HasCluster
  <2>4. CASE /\ HasCluster(dataDir) /\ LockFree(dataDir) /\ PortFree(dataDir)
             /\ pm' = [pm EXCEPT ![dataDir] = "starting"]
             /\ pidfile' = [pidfile EXCEPT ![dataDir] = "own"]
             /\ UNCHANGED cluster
    <3>1. Locks'
      BY <2>1, <2>4 DEF Locks, Alive, HasCluster
    <3>2. OneListener'
      BY <2>1, <2>4 DEF OneListener, Listening, Alive, PortFree
    <3> QED
      BY <2>1, <3>1, <3>2
  <2> QED
    BY <1>5, <2>2, <2>3, <2>4 DEF PostgresqlStart, PgCtlStart
<1>6. CASE StopPg
  <2>1. dataDir \in Dirs /\ cluster' = cluster
    BY <1>6 DEF StopPg, PgCtlStopSignal
  <2>2. \A e \in Dirs : /\ Alive(e)' <=> Alive(e)
                        /\ pidfile'[e] = "own" <=> pidfile[e] = "own"
                        /\ pidfile'[e] = "none" <=> pidfile[e] = "none"
    BY <1>6 DEF StopPg, PgCtlStopSignal, Alive, Locks
  <2> QED
    BY <2>1, <2>2 DEF Locks, OneListener, Listening, HasCluster
<1>7. CASE Reboot
  <2>1. \A e \in Dirs : /\ ~Alive(e)' /\ pidfile'[e] # "own"
                        /\ pidfile'[e] = "none" <=> pidfile[e] = "none"
    BY <1>7 DEF Reboot, PgReboot, Alive
  <2> QED
    BY <1>7, <2>1 DEF Reboot, PgReboot, Locks, OneListener, Listening, HasCluster
<1>8. CASE ServerEvent
  BY <1>8, ServerEventEffect DEF OneListener, Listening
<1> QED
  BY <1>1, <1>2, <1>3, <1>4, <1>5, <1>6, <1>7, <1>8, ServerCases

-----------------------------------------------------------------------------
(* The launcher's own state.                                               *)

LEMMA SelectionStep ==
  ASSUME TypeOK, Selection, [Next]_vars
  PROVE  Selection'
<1> USE DEF TypeOK, Selection, StartSteps, StopSteps, ServerSteps, DbSteps,
            DaemonSteps
<1>1. CASE UNCHANGED vars
  BY <1>1 DEF vars
<1>2. CASE UserStep
  BY <1>2 DEF UserStep, Launch, PathUpdated, StartClicked, Quit, AlertDismissed
<1>3. CASE AppStep
  <2>1. CASE CreateConfigYml \/ CreateDataDir \/ Initdb \/ UpdatePostgresqlConf
    BY <2>1 DEF CreateConfigYml, CreateDataDir, Initdb, UpdatePostgresqlConf,
                Goto
  <2>2. CASE PostgresqlStart \/ PostgresqlStatus
    BY <2>2 DEF PostgresqlStart, PostgresqlStatus, Verdict, Goto
  <2>3. CASE DbList \/ CreateDb \/ Migrate \/ CreateSuperAdmin
    BY <2>3 DEF DbList, CreateDb, Migrate, CreateSuperAdmin, NextDb, Goto
  <2>4. CASE ApiStart \/ ApiStatus \/ FrontendStart \/ FrontendStatus
    BY <2>4 DEF ApiStart, ApiStatus, FrontendStart, FrontendStatus, RunDaemon,
                Verdict, Goto
  <2>5. CASE StopApi \/ StopFrontend \/ StopPg
    BY <2>5 DEF StopApi, StopFrontend, StopPg, StopDaemon, Goto
  <2>6. CASE StopPgNothing \/ StopPgDone \/ StopPgTimeout
    BY <2>6 DEF StopPgNothing, StopPgDone, StopPgTimeout, ProcessEnds
  <2> QED
    BY <1>3, <2>1, <2>2, <2>3, <2>4, <2>5, <2>6 DEF AppStep
<1>4. CASE Fault
  BY <1>4 DEF Fault, Crash, Reboot, DaemonDies, ServerEvent, ProcessEnds, appVars
<1> QED
  BY <1>1, <1>2, <1>3, <1>4 DEF Next

\* How the program counter comes to the steps the invariant speaks of.
LEMMA ControlFlow ==
  ASSUME [Next]_vars, pc' # pc
  PROVE  /\ pc' = "initdb" => CreateDataDir
         /\ pc' = "pgConf" => Initdb
         /\ pc' = "pgStatus" => PostgresqlStart
         /\ pc' = "stopPgWait" => StopPg
         /\ pc' = "dbList" =>
               PostgresqlStatus \/ DbList \/ CreateSuperAdmin
         /\ pc' \in AfterStatus => PostgresqlStatus \/ pc \in AfterStatus
<1> USE DEF AfterStatus, DbSteps, DaemonSteps
<1>1. CASE UNCHANGED vars
  BY <1>1 DEF vars
<1>2. CASE UserStep
  BY <1>2 DEF UserStep, Launch, PathUpdated, StartClicked, Quit, AlertDismissed
<1>3. CASE AppStep
  BY <1>3 DEF AppStep, CreateConfigYml, CreateDataDir, Initdb,
              UpdatePostgresqlConf, PostgresqlStart, PostgresqlStatus, DbList,
              CreateDb, Migrate, CreateSuperAdmin, ApiStart, ApiStatus,
              FrontendStart, FrontendStatus, RunDaemon, Verdict, NextDb, Goto, StopApi,
              StopFrontend, StopDaemon, StopPg, StopPgNothing, StopPgDone,
              StopPgTimeout, ProcessEnds
<1>4. CASE Fault
  BY <1>4 DEF Fault, Crash, Reboot, DaemonDies, ServerEvent, ProcessEnds, appVars
<1> QED
  BY <1>1, <1>2, <1>3, <1>4 DEF Next

\* A step that stays at its program counter is the environment's, or chooses
\* a directory, or goes on to the next database.
LEMMA StayingPut ==
  ASSUME [Next]_vars, pc' = pc, pc # "idle"
  PROVE  \/ UNCHANGED <<pgVars, appVars, db>>
         \/ ServerEvent
         \/ pc = "dbList" /\ DbList
         \/ pc = "off"
<1>1. CASE UNCHANGED vars
  BY <1>1 DEF vars, pgVars, appVars
<1>2. CASE UserStep
  BY <1>2 DEF UserStep, Launch, PathUpdated, StartClicked, Quit, AlertDismissed
<1>3. CASE AppStep
  BY <1>3 DEF AppStep, CreateConfigYml, CreateDataDir, Initdb,
              UpdatePostgresqlConf, PostgresqlStart, PostgresqlStatus, DbList,
              CreateDb, Migrate, CreateSuperAdmin, ApiStart, ApiStatus,
              FrontendStart, FrontendStatus, RunDaemon, Verdict, NextDb, Goto,
              StopApi, StopFrontend, StopDaemon, StopPg, StopPgNothing,
              StopPgDone, StopPgTimeout, ProcessEnds
<1>4. CASE Fault
  BY <1>4 DEF Fault, Crash, Reboot, DaemonDies, ProcessEnds
<1> QED
  BY <1>1, <1>2, <1>3, <1>4 DEF Next

LEMMA SetupStep ==
  ASSUME TypeOK, Locks, Selection, Setup, [Next]_vars
  PROVE  Setup'
<1> USE DEF TypeOK, PgTypeOK
<1>1. pc' = "initdb" => cluster'[dataDir'] = "bare"
  <2> SUFFICES ASSUME pc' = "initdb" PROVE cluster'[dataDir'] = "bare"
    OBVIOUS
  <2>1. CASE pc' # pc
    <3>1. CreateDataDir
      BY <2>1, ControlFlow
    <3>2. dataDir \in Dirs
      BY <3>1 DEF CreateDataDir, Selection, StartSteps
    <3> QED
      BY <3>1, <3>2 DEF CreateDataDir, Goto
  <2>2. CASE pc' = pc
    BY <2>2, StayingPut, ServerEventEffect DEF Setup, pgVars, appVars
  <2> QED
    BY <2>1, <2>2
<1>2. ConfOnlyFreshCluster'
  <2> SUFFICES ASSUME pc' = "pgConf"
               PROVE cluster'[dataDir'] = "initialised" /\ pidfile'[dataDir'] = "none"
    BY DEF ConfOnlyFreshCluster
  <2>1. CASE pc' # pc
    <3>1. Initdb
      BY <2>1, ControlFlow
    <3>2. dataDir \in Dirs
      BY <3>1 DEF Initdb, Selection, StartSteps
    <3>3. pidfile[dataDir] = "none"
      BY <3>1, <3>2 DEF Initdb, Setup, Locks, HasCluster
    <3> QED
      BY <3>1, <3>2, <3>3 DEF Initdb, Goto
  <2>2. CASE pc' = pc
    <3>1. dataDir \in Dirs
      BY <2>2 DEF Selection, StartSteps
    <3> QED
      BY <2>2, <3>1, StayingPut, ServerEventEffect
         DEF Setup, ConfOnlyFreshCluster, pgVars, appVars
  <2> QED
    BY <2>1, <2>2
<1>3. pc' = "stopPgWait" => pm'[dataDir'] \in {"down", "stopping"}
  <2> SUFFICES ASSUME pc' = "stopPgWait"
               PROVE pm'[dataDir'] \in {"down", "stopping"}
    OBVIOUS
  <2>1. CASE pc' # pc
    <3>1. StopPg
      BY <2>1, ControlFlow
    <3> QED
      BY <3>1 DEF StopPg, PgCtlStopSignal, Goto, Locks, Alive
  <2>2. CASE pc' = pc
    <3>1. dataDir \in Dirs
      BY <2>2 DEF Selection
    <3> QED
      BY <2>2, <3>1, StayingPut, ServerEventEffect DEF Setup, pgVars, appVars
  <2> QED
    BY <2>1, <2>2
<1> QED
  BY <1>1, <1>2, <1>3 DEF Setup

LEMMA CountersStep ==
  ASSUME TypeOK, Counters, [Next]_vars
  PROVE  Counters'
<1> USE DEF TypeOK, Counters, AttemptsBounded, CanRetry, Retried, Daemons,
            AfterStatus, StartSteps, StopSteps, ServerSteps, DbSteps, DaemonSteps
<1>1. CASE UNCHANGED vars
  BY <1>1 DEF vars
<1>2. CASE UserStep
  BY <1>2 DEF UserStep, Launch, PathUpdated, StartClicked, Quit, AlertDismissed
<1>3. CASE AppStep
  <2>1. CASE CreateConfigYml \/ CreateDataDir \/ Initdb \/ UpdatePostgresqlConf
    BY <2>1 DEF CreateConfigYml, CreateDataDir, Initdb, UpdatePostgresqlConf,
                Goto
  <2>2. CASE PostgresqlStart
    BY <2>2 DEF PostgresqlStart, Goto
  <2>3. CASE PostgresqlStatus
    BY <2>3 DEF PostgresqlStatus, Verdict
  <2>4. CASE DbList \/ CreateDb \/ Migrate \/ CreateSuperAdmin
    BY <2>4 DEF DbList, CreateDb, Migrate, CreateSuperAdmin, NextDb, Goto
  <2>5. CASE ApiStart \/ FrontendStart
    BY <2>5 DEF ApiStart, FrontendStart, RunDaemon, Goto
  <2>6. CASE ApiStatus
    BY <2>6 DEF ApiStatus, Verdict
  <2>7. CASE FrontendStatus
    BY <2>7 DEF FrontendStatus, Verdict
  <2>8. CASE StopApi \/ StopFrontend \/ StopPg
    BY <2>8 DEF StopApi, StopFrontend, StopPg, StopDaemon, Goto
  <2>9. CASE StopPgNothing \/ StopPgDone \/ StopPgTimeout
    BY <2>9 DEF StopPgNothing, StopPgDone, StopPgTimeout, ProcessEnds, NoRetries
  <2> QED
    BY <1>3, <2>1, <2>2, <2>3, <2>4, <2>5, <2>6, <2>7, <2>8, <2>9 DEF AppStep
<1>4. CASE Fault
  BY <1>4 DEF Fault, Crash, Reboot, DaemonDies, ServerEvent, ProcessEnds,
              NoRetries, appVars
<1> QED
  BY <1>1, <1>2, <1>3, <1>4 DEF Next

-----------------------------------------------------------------------------
(* The server that is used, and its databases.                             *)

\* Past the status check only servers act by themselves, and the selection is
\* fixed.
LEMMA AfterStatusStep ==
  ASSUME TypeOK, [Next]_vars, pc \in AfterStatus, pc' \in AfterStatus
  PROVE  dataDir' = dataDir /\ (UNCHANGED pgVars \/ ServerEvent)
<1> USE DEF AfterStatus, DbSteps, DaemonSteps
<1>1. CASE UNCHANGED vars
  BY <1>1 DEF vars, pgVars
<1>2. CASE UserStep
  BY <1>2 DEF UserStep, Launch, PathUpdated, StartClicked, Quit, AlertDismissed
<1>3. CASE AppStep
  BY <1>3 DEF AppStep, CreateConfigYml, CreateDataDir, Initdb,
              UpdatePostgresqlConf, PostgresqlStart, PostgresqlStatus, DbList,
              CreateDb, Migrate, CreateSuperAdmin, ApiStart, ApiStatus,
              FrontendStart, FrontendStatus, RunDaemon, NextDb, Goto, StopApi,
              StopFrontend, StopDaemon, StopPg, StopPgNothing, StopPgDone,
              StopPgTimeout, ProcessEnds
<1>4. CASE Fault
  BY <1>4 DEF Fault, Crash, Reboot, DaemonDies, ServerEvent, ProcessEnds, appVars
<1> QED
  BY <1>1, <1>2, <1>3, <1>4 DEF Next

LEMMA SelectedStep ==
  ASSUME IndInv, [Next]_vars
  PROVE  SelectedDirServes'
<1> SUFFICES ASSUME pc' \in AfterStatus, NEW e \in Dirs, Listening(e)'
             PROVE  e = dataDir' \/ Unsound(dataDir)'
  BY DEF SelectedDirServes, AfterStatus, DbSteps, DaemonSteps
<1>1. PostgresqlStatus \/ pc \in AfterStatus
  BY ControlFlow
<1>2. CASE PostgresqlStatus
  <2>1. dataDir \in Dirs /\ UNCHANGED <<pgVars, dataDir>>
    BY <1>2 DEF PostgresqlStatus, IndInv, Selection, StartSteps, ServerSteps
  <2>2. pc' = "dbList"
    BY <1>2 DEF PostgresqlStatus, Verdict, AfterStatus, DbSteps, DaemonSteps
  <2>3. pidfile[dataDir] \in {"own", "reused"}
    BY <1>2, <2>2 DEF PostgresqlStatus, Verdict, PgCtlStatus
  <2>4. Listening(e)
    BY <2>1 DEF Listening, Alive, pgVars
  <2>5. CASE cluster[dataDir] = "configured" /\ pidfile[dataDir] = "own"
    <3>1. Listening(dataDir)
      BY <2>1, <2>5 DEF IndInv, Locks, Listening
    <3> QED
      BY <2>1, <2>4, <3>1 DEF IndInv, OneListener
  <2>6. CASE cluster[dataDir] # "configured" \/ pidfile[dataDir] = "reused"
    BY <2>1, <2>6 DEF Unsound, pgVars
  <2> QED
    BY <2>3, <2>5, <2>6
<1>3. CASE pc \in AfterStatus
  <2>1. dataDir' = dataDir /\ dataDir \in Dirs
    BY <1>3, AfterStatusStep
       DEF IndInv, Selection, AfterStatus, StartSteps
  <2>2. Listening(e)
    BY <1>3, ServersStep DEF IndInv, AfterStatus, DbSteps, DaemonSteps
  <2>3. e = dataDir \/ Unsound(dataDir)
    BY <1>3, <2>2 DEF IndInv, SelectedDirServes
  <2>4. Unsound(dataDir) => Unsound(dataDir)'
    <3>1. CASE UNCHANGED pgVars
      BY <2>1, <3>1 DEF Unsound, pgVars
    <3>2. CASE ServerEvent
      BY <2>1, <3>2, ServerEventEffect DEF IndInv, Unsound
    <3> QED
      BY <1>3, <3>1, <3>2, AfterStatusStep DEF IndInv
  <2> QED
    BY <2>1, <2>3, <2>4
<1> QED
  BY <1>1, <1>2, <1>3

\* Outside the status check and the database commands, no database changes and
\* createDatabaseIfNotExist gets no further.
LEMMA DbsUntouched ==
  ASSUME TypeOK, [Next]_vars,
         ~PostgresqlStatus, ~DbList, ~CreateDb, ~Migrate, ~CreateSuperAdmin
  PROVE  /\ db' = db
         /\ pc' \in AfterStatus =>
               /\ pc \in AfterStatus
               /\ \A i \in Dbs : Passed(i)' => Passed(i)
<1> USE DEF AfterStatus, DbSteps, DaemonSteps, Passed
<1>1. CASE UNCHANGED vars
  BY <1>1 DEF vars
<1>2. CASE UserStep
  BY <1>2 DEF UserStep, Launch, PathUpdated, StartClicked, Quit, AlertDismissed
<1>3. CASE AppStep
  <2>1. CASE \/ CreateConfigYml \/ CreateDataDir \/ Initdb
             \/ UpdatePostgresqlConf \/ PostgresqlStart
    BY <2>1 DEF CreateConfigYml, CreateDataDir, Initdb, UpdatePostgresqlConf,
                PostgresqlStart, Goto
  <2>2. CASE ApiStart \/ ApiStatus \/ FrontendStart \/ FrontendStatus
    BY <2>2 DEF ApiStart, ApiStatus, FrontendStart, FrontendStatus, RunDaemon,
                Verdict, Goto
  <2>3. CASE StopApi \/ StopFrontend \/ StopPg
    BY <2>3 DEF StopApi, StopFrontend, StopPg, StopDaemon, Goto
  <2>4. CASE StopPgNothing \/ StopPgDone \/ StopPgTimeout
    BY <2>4 DEF StopPgNothing, StopPgDone, StopPgTimeout, ProcessEnds
  <2> QED
    BY <1>3, <2>1, <2>2, <2>3, <2>4 DEF AppStep
<1>4. CASE Fault
  BY <1>4 DEF Fault, Crash, Reboot, DaemonDies, ServerEvent, ProcessEnds, appVars
<1> QED
  BY <1>1, <1>2, <1>3, <1>4 DEF Next

\* A database command that finds its database, or creates it, leaves the port's
\* server with every database up to the current one.
LEMMA PassedUpTo ==
  ASSUME IndInv, UNCHANGED pgVars, pc \in DbSteps, db' \in [Dirs -> [Dbs -> DbStates]],
         NEW f \in Dirs, Serving(f), db'[f][dbi] # "none",
         \A d \in Dirs, i \in Dbs : db[d][i] # "none" => db'[d][i] # "none",
         NEW e \in Dirs, Listening(e)', NEW i \in Dbs, i <= dbi
  PROVE  db'[e][i] # "none"
<1>1. Listening(e) /\ Listening(f)
  BY DEF Listening, Serving, Alive, pgVars
<1>2. e = f
  BY <1>1 DEF IndInv, OneListener
<1>3. CASE i = dbi
  BY <1>2, <1>3
<1>4. CASE i < dbi
  <2>1. db[e][i] # "none"
    BY <1>1, <1>4 DEF IndInv, DbsDone, Passed, AfterStatus
  <2> QED
    BY <2>1
<1> QED
  BY <1>3, <1>4 DEF IndInv, TypeOK, Dbs

LEMMA DbsStep ==
  ASSUME IndInv, [Next]_vars
  PROVE  DbsDone' /\ ProvisionedInOrder'
<1> USE DEF IndInv
<1>1. CASE PostgresqlStatus
  <2>1. UNCHANGED <<pgVars, db, dbi>> /\ pc = "pgStatus" /\ pc' \in {"pgStart", "dbList"}
    BY <1>1 DEF PostgresqlStatus, Verdict
  <2>2. dbi = 1
    BY <2>1 DEF Counters, StartSteps, ServerSteps, AfterStatus, DbSteps, DaemonSteps
  <2>3. \A i \in Dbs : pc' = "dbList" => ~Passed(i)'
    BY <2>1, <2>2 DEF Passed, DaemonSteps, Dbs
  <2> QED
    BY <2>1, <2>3 DEF DbsDone, ProvisionedInOrder, AfterStatus, DbSteps, DaemonSteps
<1>2. CASE DbList
  <2>1. UNCHANGED <<pgVars, db>> /\ pc = "dbList"
    BY <1>2 DEF DbList
  <2>2. ProvisionedInOrder'
    BY <2>1 DEF ProvisionedInOrder
  <2>3. CASE Goto("createDb") \/ Goto("raised")
    <3>1. \A e \in Dirs : Listening(e)' => Listening(e)
      BY <2>1 DEF Listening, Alive, pgVars
    <3>2. \A i \in Dbs : Passed(i)' => Passed(i)
      BY <2>3 DEF Goto, Passed, DaemonSteps
    <3> QED
      BY <2>1, <2>2, <2>3, <3>1, <3>2 DEF Goto, DbsDone, AfterStatus, DbSteps
  <2>4. CASE NextDb /\ \E f \in Dirs : Serving(f) /\ db[f][dbi] # "none"
    <3>1. PICK f \in Dirs : Serving(f) /\ db[f][dbi] # "none"
      BY <2>4
    <3>2. \A i \in Dbs : Passed(i)' => i <= dbi
      BY <2>4 DEF NextDb, Passed, DaemonSteps, TypeOK, Dbs
    <3>3. \A e \in Dirs, i \in Dbs : Listening(e)' /\ Passed(i)' => db'[e][i] # "none"
      BY <2>1, <3>1, <3>2, PassedUpTo DEF TypeOK, DbSteps
    <3> QED
      BY <2>2, <3>3 DEF DbsDone
  <2> QED
    BY <1>2, <2>3, <2>4 DEF DbList
<1>3. CASE CreateDb
  <2>1. UNCHANGED pgVars /\ pc = "createDb"
    BY <1>3 DEF CreateDb
  <2>2. CASE (Goto("alert") \/ Goto("raised")) /\ UNCHANGED db
    BY <2>2 DEF Goto, DbsDone, ProvisionedInOrder, AfterStatus, DbSteps, DaemonSteps
  <2>3. CASE Advance("none", "created") /\ (Goto("migrate") \/ Goto("raised"))
    <3>1. /\ db' \in [Dirs -> [Dbs -> DbStates]]
          /\ \E e \in Dirs :
               /\ Serving(e) /\ db[e][dbi] = "none" /\ db'[e][dbi] = "created"
               /\ \A d \in Dirs, i \in Dbs :
                     d # e \/ i # dbi => db'[d][i] = db[d][i]
      BY <2>3, AdvanceEffect DEF DbStates
    <3>2. PICK f \in Dirs :
               /\ Serving(f) /\ db[f][dbi] = "none" /\ db'[f][dbi] = "created"
               /\ \A d \in Dirs, i \in Dbs :
                     d # f \/ i # dbi => db'[d][i] = db[d][i]
      BY <3>1
    <3>3. \A d \in Dirs, i \in Dbs : db[d][i] # "none" => db'[d][i] # "none"
      BY <3>2
    <3>4. \A i \in Dbs : Passed(i)' => i <= dbi
      BY <2>3 DEF Goto, Passed, DaemonSteps, TypeOK, Dbs
    <3>5. DbsDone'
      BY <2>1, <3>1, <3>2, <3>3, <3>4, PassedUpTo DEF DbsDone, DbSteps
    <3>6. \A i \in Dbs : i < dbi => db'[f][i] # "none"
      <4>1. Listening(f)'
        BY <2>1, <3>2 DEF Serving, Listening, Alive, pgVars
      <4> QED
        BY <2>1, <3>1, <3>2, <3>3, <4>1, PassedUpTo DEF TypeOK, DbSteps, Dbs
    <3>7. ProvisionedInOrder'
      <4> SUFFICES ASSUME NEW d \in Dirs, NEW i \in Dbs, NEW j \in Dbs,
                          i < j, db'[d][j] # "none"
                   PROVE  db'[d][i] # "none"
        BY DEF ProvisionedInOrder
      <4>1. CASE d = f /\ j = dbi
        BY <3>6, <4>1
      <4>2. CASE d # f \/ j # dbi
        BY <3>2, <3>3, <4>2 DEF ProvisionedInOrder
      <4> QED
        BY <4>1, <4>2
    <3> QED
      BY <3>5, <3>7
  <2> QED
    BY <1>3, <2>2, <2>3 DEF CreateDb
<1>4. CASE Migrate \/ CreateSuperAdmin
  <2>1. UNCHANGED pgVars /\ pc \in {"migrate", "superAdmin"}
    BY <1>4 DEF Migrate, CreateSuperAdmin
  <2>2. CASE (Goto("alert") \/ Goto("raised")) /\ UNCHANGED db
    BY <2>2 DEF Goto, DbsDone, ProvisionedInOrder, AfterStatus, DbSteps, DaemonSteps
  <2>3. CASE /\ Advance("created", "migrated") \/ Advance("migrated", "admin")
             /\ Goto("superAdmin") \/ Goto("raised") \/ NextDb
    <3>1. /\ db' \in [Dirs -> [Dbs -> DbStates]]
          /\ \E e \in Dirs :
               /\ Serving(e) /\ db[e][dbi] # "none" /\ db'[e][dbi] # "none"
               /\ \A d \in Dirs, i \in Dbs :
                     d # e \/ i # dbi => db'[d][i] = db[d][i]
      <4>1. CASE Advance("created", "migrated")
        BY <4>1, AdvanceEffect DEF DbStates
      <4>2. CASE Advance("migrated", "admin")
        BY <4>2, AdvanceEffect DEF DbStates
      <4> QED
        BY <2>3, <4>1, <4>2
    <3>2. PICK f \in Dirs :
               /\ Serving(f) /\ db[f][dbi] # "none" /\ db'[f][dbi] # "none"
               /\ \A d \in Dirs, i \in Dbs :
                     d # f \/ i # dbi => db'[d][i] = db[d][i]
      BY <3>1
    <3>3. \A d \in Dirs, i \in Dbs : db[d][i] # "none" <=> db'[d][i] # "none"
      BY <3>2
    <3>4. \A i \in Dbs : Passed(i)' => i <= dbi
      BY <2>3 DEF Goto, NextDb, Passed, DaemonSteps, TypeOK, Dbs
    <3>5. DbsDone'
      BY <2>1, <3>1, <3>2, <3>3, <3>4, PassedUpTo DEF DbsDone, DbSteps
    <3>6. ProvisionedInOrder'
      BY <3>3 DEF ProvisionedInOrder
    <3> QED
      BY <3>5, <3>6
  <2> QED
    BY <1>4, <2>2, <2>3 DEF Migrate, CreateSuperAdmin
<1>5. CASE ~PostgresqlStatus /\ ~DbList /\ ~CreateDb /\ ~Migrate /\ ~CreateSuperAdmin
  <2>1. db' = db
    BY <1>5, DbsUntouched
  <2>2. pc' \in AfterStatus => \A e \in Dirs : Listening(e)' => Listening(e)
    BY <1>5, DbsUntouched, ServersStep DEF AfterStatus, DbSteps, DaemonSteps
  <2> QED
    BY <1>5, <2>1, <2>2, DbsUntouched DEF DbsDone, ProvisionedInOrder
<1> QED
  BY <1>1, <1>2, <1>3, <1>4, <1>5

-----------------------------------------------------------------------------
(* The theorems.                                                           *)

LEMMA IndInvInit == Init => IndInv
<1> SUFFICES ASSUME Init PROVE IndInv
  OBVIOUS
<1>1. TypeOK
  BY TypeInit
<1>2. Locks /\ OneListener
  BY DEF Init, PgInit, Locks, OneListener, Listening, Alive
<1>3. Selection /\ Setup /\ SelectedDirServes /\ DbsDone
  BY DEF Init, Selection, Setup, ConfOnlyFreshCluster, SelectedDirServes,
         DbsDone, AfterStatus, StartSteps, ServerSteps, DbSteps, DaemonSteps
<1>4. Counters
  BY DEF Init, Counters, AttemptsBounded, NoRetries
<1>5. ProvisionedInOrder
  BY DEF Init, ProvisionedInOrder
<1> QED
  BY <1>1, <1>2, <1>3, <1>4, <1>5 DEF IndInv

LEMMA IndInvStep == IndInv /\ [Next]_vars => IndInv'
<1> SUFFICES ASSUME IndInv, [Next]_vars PROVE IndInv'
  OBVIOUS
<1>1. TypeOK'
  BY TypeStep DEF IndInv
<1>2. Locks' /\ OneListener'
  BY ServersStep DEF IndInv
<1>3. Selection' /\ Setup' /\ Counters'
  BY SelectionStep, SetupStep, CountersStep DEF IndInv
<1>4. SelectedDirServes' /\ DbsDone' /\ ProvisionedInOrder'
  BY SelectedStep, DbsStep
<1> QED
  BY <1>1, <1>2, <1>3, <1>4 DEF IndInv

\* The inductive invariant holds in every state of the launcher.
THEOREM Invariance == Spec => []IndInv
BY IndInvInit, IndInvStep, PTL DEF Spec

\* Port 50725 is served for the selected directory, whichever servers earlier
\* sessions left behind, unless that directory is Unsound.
THEOREM SelectedDirServesAlways == Spec => []SelectedDirServes
<1>1. IndInv => SelectedDirServes
  BY DEF IndInv
<1> QED
  BY <1>1, Invariance, PTL

\* The databases of a cluster come into being in the order of start, in every
\* history of failures and restarts.
THEOREM ProvisionedInOrderAlways == Spec => []ProvisionedInOrder
<1>1. IndInv => ProvisionedInOrder
  BY DEF IndInv
<1> QED
  BY <1>1, Invariance, PTL

\* The daemons are started against a server that has all databases.
THEOREM ApiFindsDatabasesAlways == Spec => []ApiFindsDatabases
<1>1. IndInv => ApiFindsDatabases
  BY DEF IndInv, DbsDone, Passed, ApiFindsDatabases, AfterStatus
<1> QED
  BY <1>1, Invariance, PTL

\* postgresql.conf is rewritten only in a fresh cluster that nobody has locked.
THEOREM ConfOnlyFreshClusterAlways == Spec => []ConfOnlyFreshCluster
<1>1. IndInv => ConfOnlyFreshCluster
  BY DEF IndInv, Setup
<1> QED
  BY <1>1, Invariance, PTL

\* No server or daemon is tried more than MaxStartRetries + 1 times in a row.
THEOREM AttemptsBoundedAlways == Spec => []AttemptsBounded
<1>1. IndInv => AttemptsBounded
  BY DEF IndInv, Counters
<1> QED
  BY <1>1, Invariance, PTL

\* Only createDatabaseIfNotExist changes databases, and only those of the
\* selected directory, unless that directory is Unsound.
THEOREM OnlySelectedWrittenAlways == Spec => OnlySelectedWritten
<1> DEFINE Step == \A e \in Dirs : db'[e] # db[e] =>
                      pc \in DbSteps /\ (e = dataDir \/ Unsound(dataDir))
<1>1. IndInv /\ [Next]_vars => [Step]_vars
  <2> SUFFICES ASSUME IndInv, [Next]_vars, NEW e \in Dirs, db'[e] # db[e]
               PROVE  pc \in DbSteps /\ (e = dataDir \/ Unsound(dataDir))
    OBVIOUS
  <2>1. CreateDb \/ Migrate \/ CreateSuperAdmin
    <3>1. PostgresqlStatus \/ DbList => db' = db
      BY DEF PostgresqlStatus, DbList
    <3> QED
      BY <3>1, DbsUntouched DEF IndInv
  <2>2. pc \in DbSteps
    BY <2>1 DEF CreateDb, Migrate, CreateSuperAdmin, DbSteps
  <2>3. \E f \in Dirs : Serving(f) /\ \E t :
           db' = [db EXCEPT ![f] = [@ EXCEPT ![dbi] = t]]
    BY <2>1 DEF CreateDb, Migrate, CreateSuperAdmin, Advance
  <2>4. Serving(e)
    BY <2>3 DEF IndInv, TypeOK
  <2> QED
    BY <2>2, <2>4 DEF IndInv, SelectedDirServes, AfterStatus, Serving,
                      Listening, Alive
<1> QED
  BY <1>1, Invariance, PTL DEF Spec, OnlySelectedWritten

\* An application that quits has taken its server down with it, or the server
\* is shutting down.
THEOREM QuitStopsServerAlways == Spec => QuitStopsServer
<1> DEFINE Step == (StopPgNothing \/ StopPgDone \/ StopPgTimeout) =>
                      (dataDir \in Dirs => pm[dataDir] \in {"down", "stopping"})
<1>1. IndInv /\ [Next]_vars => [Step]_vars
  <2> SUFFICES ASSUME IndInv, StopPgNothing \/ StopPgDone \/ StopPgTimeout,
                      dataDir \in Dirs
               PROVE  pm[dataDir] \in {"down", "stopping"}
    OBVIOUS
  <2>1. CASE StopPgNothing
    BY <2>1 DEF StopPgNothing, Signallable, IndInv, Locks, Alive
  <2>2. CASE StopPgDone \/ StopPgTimeout
    BY <2>2 DEF StopPgDone, StopPgTimeout, IndInv, Setup
  <2> QED
    BY <2>1, <2>2
<1> QED
  BY <1>1, Invariance, PTL DEF Spec, QuitStopsServer

-----------------------------------------------------------------------------
(* Why start and stop end.                                                 *)

\* The commands of the attempts that are left for k, its giving up included.
AttemptsLeft(k) == 2 * (MaxStartRetries + 2 - retries[k])
Round == 2 * (MaxStartRetries + 2)

\* A frontend that fails costs another round of attempts for the API.
DaemonsLeft == AttemptsLeft("api") + (IF caller = "start" THEN Round + 2 ELSE 0)
DbsLeft(n) == 4 * (NumDbs - dbi) + n + DaemonsLeft
ServerLeft(n) == AttemptsLeft("postgresql") + 4 * NumDbs + n + DaemonsLeft

\* How many commands start or stop may still run.
CommandsLeft ==
    CASE pc = "config"         -> ServerLeft(4)
      [] pc = "mkDataDir"      -> ServerLeft(3)
      [] pc = "initdb"         -> ServerLeft(2)
      [] pc = "pgConf"         -> ServerLeft(1)
      [] pc = "pgStart"        -> ServerLeft(0)
      [] pc = "pgStatus"       -> ServerLeft(0) - 1
      [] pc = "dbList"         -> DbsLeft(4)
      [] pc = "createDb"       -> DbsLeft(3)
      [] pc = "migrate"        -> DbsLeft(2)
      [] pc = "superAdmin"     -> DbsLeft(1)
      [] pc = "apiStart"       -> DaemonsLeft
      [] pc = "apiStatus"      -> DaemonsLeft - 1
      [] pc = "frontendStart"  -> Round + 2
      [] pc = "frontendStatus" -> Round + 1
      [] pc = "stopApi"        -> 4
      [] pc = "stopFrontend"   -> 3
      [] pc = "stopPg"         -> 2
      [] OTHER                 -> 1

Running == StartSteps \cup StopSteps

\* No more than this, which is 60 for the five retries and three databases of
\* the code.
CommandsBounded ==
    pc \in Running => CommandsLeft \in 1 .. 6 * MaxStartRetries + 4 * NumDbs + 18

\* Fewer with every command, whatever it did; what others do in between
\* changes nothing.
CommandsDecrease ==
    [][{pc, pc'} \subseteq Running =>
          UNCHANGED appVars \/ CommandsLeft' < CommandsLeft]_vars

LEMMA RetriesNat ==
  ASSUME TypeOK, Counters
  PROVE  \A k \in Retried : retries[k] \in Nat /\ retries[k] <= MaxStartRetries + 1
BY DEF TypeOK, Counters, AttemptsBounded

LEMMA CommandsInBounds == TypeOK /\ Counters => CommandsBounded
<1> SUFFICES ASSUME TypeOK, Counters, pc \in Running
             PROVE  CommandsLeft \in 1 .. 6 * MaxStartRetries + 4 * NumDbs + 18
  BY DEF CommandsBounded
<1>1. /\ retries["api"] \in Nat /\ retries["api"] <= MaxStartRetries + 1
      /\ retries["postgresql"] \in Nat /\ retries["postgresql"] <= MaxStartRetries + 1
  BY RetriesNat DEF Retried, Daemons
<1>2. dbi \in Nat /\ 1 <= dbi /\ dbi <= NumDbs
  BY DEF TypeOK, Dbs
<1>3. Round \in Nat /\ Round = 2 * MaxStartRetries + 4
  BY DEF Round
<1>4. DaemonsLeft \in Nat /\ DaemonsLeft >= 2 /\ DaemonsLeft <= 4 * MaxStartRetries + 10
  BY <1>1, <1>3 DEF DaemonsLeft, AttemptsLeft
<1>5. ASSUME NEW n \in 1 .. 4
      PROVE  DbsLeft(n) \in 1 .. 6 * MaxStartRetries + 4 * NumDbs + 18
  BY <1>2, <1>4 DEF DbsLeft
<1>6. ASSUME NEW n \in 0 .. 4
      PROVE  /\ ServerLeft(n) \in 1 .. 6 * MaxStartRetries + 4 * NumDbs + 18
             /\ ServerLeft(n) - 1 \in 1 .. 6 * MaxStartRetries + 4 * NumDbs + 18
  BY <1>1, <1>4 DEF ServerLeft, AttemptsLeft
<1> DEFINE B == 1 .. 6 * MaxStartRetries + 4 * NumDbs + 18
<1>7. /\ DaemonsLeft \in B /\ DaemonsLeft - 1 \in B /\ Round + 2 \in B /\ Round + 1 \in B
      /\ 1 \in B /\ 2 \in B /\ 3 \in B /\ 4 \in B
  BY <1>3, <1>4
<1>8. /\ ServerLeft(4) \in B /\ ServerLeft(3) \in B /\ ServerLeft(2) \in B
      /\ ServerLeft(1) \in B /\ ServerLeft(0) \in B /\ ServerLeft(0) - 1 \in B
      /\ DbsLeft(4) \in B /\ DbsLeft(3) \in B /\ DbsLeft(2) \in B /\ DbsLeft(1) \in B
  BY <1>5, <1>6
<1> HIDE DEF B
<1>9. CommandsLeft \in B
  BY <1>7, <1>8
     DEF CommandsLeft, Running, StartSteps, StopSteps, ServerSteps, DbSteps, DaemonSteps
<1> QED
  BY <1>9 DEF B

LEMMA CommandsStep ==
  ASSUME TypeOK, Counters, [Next]_vars, {pc, pc'} \subseteq Running
  PROVE  UNCHANGED appVars \/ CommandsLeft' < CommandsLeft
<1>1. /\ retries["api"] \in Nat /\ retries["api"] <= MaxStartRetries + 1
      /\ retries["postgresql"] \in Nat /\ retries["postgresql"] <= MaxStartRetries + 1
  BY RetriesNat DEF Retried, Daemons
<1>2. dbi \in Nat /\ 1 <= dbi /\ dbi <= NumDbs
  BY DEF TypeOK, Dbs
<1>3. pc \in Running /\ pc' \in Running
  OBVIOUS
<1>4. pc \notin {"off", "idle", "ready", "alert", "raised"}
      /\ pc' \notin {"off", "idle", "ready", "alert", "raised"}
  BY <1>3 DEF Running, StartSteps, StopSteps, ServerSteps, DbSteps, DaemonSteps
<1> USE DEF CommandsLeft, ServerLeft, DbsLeft, DaemonsLeft, AttemptsLeft, Round
<1>5. CASE UNCHANGED vars
  BY <1>5 DEF vars, appVars
<1>6. CASE UserStep
  BY <1>4, <1>6 DEF UserStep, Launch, PathUpdated, StartClicked, Quit, AlertDismissed
<1>7. CASE Fault
  BY <1>4, <1>7 DEF Fault, Crash, Reboot, DaemonDies, ServerEvent, ProcessEnds
<1>8. CASE AppStep
  <2>1. CASE CreateConfigYml \/ CreateDataDir \/ Initdb \/ UpdatePostgresqlConf
    BY <1>1, <1>4, <2>1 DEF CreateConfigYml, CreateDataDir, Initdb, UpdatePostgresqlConf, Goto
  <2>2. CASE PostgresqlStart
    BY <1>1, <1>4, <2>2 DEF PostgresqlStart, Goto
  <2>3. CASE PostgresqlStatus
    <3>1. /\ pc = "pgStatus" /\ dbi = 1 /\ retries["postgresql"] <= MaxStartRetries
          /\ dbi' = dbi /\ caller' = caller
      BY <2>3 DEF PostgresqlStatus, Counters, CanRetry, AfterStatus, StartSteps, ServerSteps,
                  DbSteps, DaemonSteps
    <3>2. /\ retries'["api"] = retries["api"]
          /\ \/ pc' = "dbList"
             \/ pc' = "pgStart" /\ retries'["postgresql"] = retries["postgresql"] + 1
      BY <2>3 DEF PostgresqlStatus, Verdict, TypeOK, Retried, Daemons
    <3>3. DaemonsLeft' = DaemonsLeft
      BY <3>1, <3>2
    <3> HIDE DEF DaemonsLeft
    <3>4. DaemonsLeft \in Nat
      BY <1>1 DEF DaemonsLeft
    <3> QED
      BY <1>1, <3>1, <3>2, <3>3, <3>4
  <2>4. CASE DbList \/ CreateDb \/ Migrate \/ CreateSuperAdmin
    BY <1>1, <1>2, <1>4, <2>4 DEF DbList, CreateDb, Migrate, CreateSuperAdmin, NextDb, Goto
  <2>5. CASE ApiStart \/ FrontendStart
    BY <1>1, <1>4, <2>5 DEF ApiStart, FrontendStart, RunDaemon, Goto
  <2>6. CASE ApiStatus
    <3>1. pc = "apiStatus" /\ retries["api"] <= MaxStartRetries /\ caller' = caller
      BY <2>6 DEF ApiStatus, Counters, CanRetry
    <3>2. \/ pc' = "apiStart" /\ retries'["api"] = retries["api"] + 1
          \/ pc' = "frontendStart" /\ caller = "start"
      BY <1>4, <2>6 DEF ApiStatus, Verdict, TypeOK, Retried, Daemons
    <3> QED
      BY <1>1, <3>1, <3>2
  <2>7. CASE FrontendStatus
    BY <1>1, <1>4, <2>7 DEF FrontendStatus, Verdict
  <2>8. CASE StopApi \/ StopFrontend \/ StopPg
    BY <1>4, <2>8 DEF StopApi, StopFrontend, StopPg, StopDaemon, Goto
  <2>9. CASE StopPgNothing \/ StopPgDone \/ StopPgTimeout
    BY <1>4, <2>9 DEF StopPgNothing, StopPgDone, StopPgTimeout, ProcessEnds
  <2> QED
    BY <1>8, <2>1, <2>2, <2>3, <2>4, <2>5, <2>6, <2>7, <2>8, <2>9 DEF AppStep
<1> QED
  BY <1>5, <1>6, <1>7, <1>8 DEF Next

\* start and stop run at most 6 * MaxStartRetries + 4 * NumDbs + 18 commands,
\* also when the frontend's failure restarts the API: every command brings them
\* nearer to their end, and no server, daemon or database sets them back.  With
\* commands that return, this is why StartTerminates and QuitTerminates hold.
THEOREM StartAndStopAreBounded == Spec => []CommandsBounded /\ CommandsDecrease
<1>1. IndInv => CommandsBounded
  BY CommandsInBounds DEF IndInv
<1> DEFINE Step == {pc, pc'} \subseteq Running =>
                      UNCHANGED appVars \/ CommandsLeft' < CommandsLeft
<1>2. IndInv /\ [Next]_vars => [Step]_vars
  BY CommandsStep DEF IndInv
<1> QED
  BY <1>1, <1>2, Invariance, PTL DEF Spec, CommandsDecrease
=============================================================================
