------------------------------ MODULE PgServer ------------------------------
(***************************************************************************)
(* The PostgreSQL clusters on the machine, as the launcher can see and     *)
(* change them through the bundled pg_ctl: for each data directory the     *)
(* user may select, how far its cluster (<dir>/pqsql) has been set up, the *)
(* state of its postmaster, and what its postmaster.pid file names.        *)
(*                                                                         *)
(* A postmaster outlives the application: pg_ctl starts it in the          *)
(* background, and a crash of the application leaves it running.           *)
(***************************************************************************)
CONSTANT Dirs    \* the data directories a user may select

VARIABLES
    cluster,     \* cluster[d]: what is on disk in d/pqsql
    pm,          \* pm[d]: the postmaster whose data directory is d/pqsql
    pidfile      \* pidfile[d]: the process d/pqsql/postmaster.pid names

pgVars == <<cluster, pm, pidfile>>

(***************************************************************************)
(* "bare": the directory exists without a usable cluster; "initialised":   *)
(* initdb has finished and postgresql.conf has its defaults (port 5432);   *)
(* "configured": postgresql.conf names the application's port 50725.       *)
(***************************************************************************)
ClusterStates == {"missing", "bare", "initialised", "configured"}

\* "starting" and "stopping" postmasters reject connections.
PmStates == {"down", "starting", "up", "stopping"}

(***************************************************************************)
(* "own": the live postmaster of d; "stale": a process that is gone;       *)
(* "reused": a process of this user that has nothing to do with d and was  *)
(* given the number of d's former postmaster.                              *)
(***************************************************************************)
PidfileStates == {"none", "own", "stale", "reused"}

PgTypeOK ==
    /\ cluster \in [Dirs -> ClusterStates]
    /\ pm \in [Dirs -> PmStates]
    /\ pidfile \in [Dirs -> PidfileStates]

PgInit ==
    /\ cluster = [d \in Dirs |-> "missing"]
    /\ pm = [d \in Dirs |-> "down"]
    /\ pidfile = [d \in Dirs |-> "none"]

-----------------------------------------------------------------------------
Alive(d) == pm[d] # "down"

\* A postmaster holds its port for as long as it lives, also while it rejects
\* connections; only a configured one holds port 50725.
Listening(d) == Alive(d) /\ cluster[d] = "configured"

\* psql, createdb and the rake tasks connect to whatever serves port 50725.
Serving(d) == pm[d] = "up" /\ cluster[d] = "configured"

HasCluster(d) == cluster[d] \in {"initialised", "configured"}

\* All configured clusters name one port, all unconfigured ones another.
PortFree(d) == \A e \in Dirs \ {d} : Alive(e) => cluster[e] # cluster[d]

\* A postmaster replaces a lock file only when the process it names is gone.
LockFree(d) == pidfile[d] \in {"none", "stale"}

-----------------------------------------------------------------------------
(***************************************************************************)
(* pg_ctl start -w: an existing pid file is only warned about, the         *)
(* postmaster is started in any case.  It gives up when another process    *)
(* holds its lock file or its port, when there is no cluster, or for any   *)
(* other reason; having taken the lock file, it removes it again, even if  *)
(* the pid it found dead has been given away meanwhile.  The wait of -w    *)
(* may time out before the postmaster is up, so the postmaster is left     *)
(* "starting" and PostmasterReady may or may not come before pg_ctl        *)
(* returns.  Assumed, as pg_ctl does (pg_ctl.c:611-616, "very soon after   *)
(* being started"): the postmaster has its lock file or is gone by the     *)
(* time pg_ctl gives up.  Starts that take longer and overlap the next one *)
(* are those of module LockFile.                                           *)
(***************************************************************************)
PgCtlStart(d) ==
    \/ /\ HasCluster(d) /\ LockFree(d) /\ PortFree(d)
       /\ pm' = [pm EXCEPT ![d] = "starting"]
       /\ pidfile' = [pidfile EXCEPT ![d] = "own"]
       /\ UNCHANGED cluster
    \/ /\ ~Alive(d)
       /\ pidfile' = [pidfile EXCEPT ![d] = "none"]
       /\ UNCHANGED <<cluster, pm>>
    \/ UNCHANGED pgVars

(***************************************************************************)
(* The exit code of pg_ctl status: 0 when the process the pid file names   *)
(* can be signalled, whether or not that process is d's postmaster.        *)
(***************************************************************************)
PgCtlStatus(d) == IF pidfile[d] \in {"own", "reused"} THEN 0 ELSE 3

\* pg_ctl stop can deliver its signal.
Signallable(d) == pidfile[d] \in {"own", "reused"}

\* Mutant: a postmaster that is still starting up is not stopped.
PgCtlStopSignalUpOnly(d) ==
    /\ pidfile[d] \in {"own", "reused"}
    /\ pm' = [pm EXCEPT ![d] = IF @ = "up" THEN "stopping" ELSE @]
    /\ UNCHANGED <<cluster, pidfile>>

(***************************************************************************)
(* The signal of pg_ctl stop, a smart shutdown for a postmaster.  Another  *)
(* process that has its number may be terminated by it.                    *)
(***************************************************************************)
PgCtlStopSignal(d) ==
    \/ /\ pidfile[d] = "own"
       /\ pm' = [pm EXCEPT ![d] = "stopping"]
       /\ UNCHANGED <<cluster, pidfile>>
    \/ /\ pidfile[d] = "reused"
       /\ \E p \in {"reused", "stale"} : pidfile' = [pidfile EXCEPT ![d] = p]
       /\ UNCHANGED <<cluster, pm>>

-----------------------------------------------------------------------------
(* What the server and the machine do by themselves.                       *)

PostmasterReady(d) ==
    /\ pm[d] = "starting"
    /\ pm' = [pm EXCEPT ![d] = "up"]
    /\ UNCHANGED <<cluster, pidfile>>

\* A backend has crashed: all are told to quit, and recovery begins.
PostmasterRestarts(d) ==
    /\ pm[d] = "up"
    /\ pm' = [pm EXCEPT ![d] = "starting"]
    /\ UNCHANGED <<cluster, pidfile>>

\* A signal from elsewhere, the Terminal or the system's shutdown.
PostmasterStops(d) ==
    /\ Alive(d)
    /\ pm' = [pm EXCEPT ![d] = "stopping"]
    /\ UNCHANGED <<cluster, pidfile>>

\* A failed startup, a completed or an immediate shutdown; the pid file is
\* removed.
PostmasterExits(d) ==
    /\ Alive(d)
    /\ pm' = [pm EXCEPT ![d] = "down"]
    /\ pidfile' = [pidfile EXCEPT ![d] = "none"]
    /\ UNCHANGED cluster

\* Killed: the pid file stays behind.
PostmasterDies(d) ==
    /\ Alive(d)
    /\ pm' = [pm EXCEPT ![d] = "down"]
    /\ pidfile' = [pidfile EXCEPT ![d] = "stale"]
    /\ UNCHANGED cluster

PidRecycled(d) ==
    /\ pidfile[d] = "stale"
    /\ pidfile' = [pidfile EXCEPT ![d] = "reused"]
    /\ UNCHANGED <<cluster, pm>>

ForeignExits(d) ==
    /\ pidfile[d] = "reused"
    /\ pidfile' = [pidfile EXCEPT ![d] = "stale"]
    /\ UNCHANGED <<cluster, pm>>

PgReboot ==
    /\ pm' = [d \in Dirs |-> "down"]
    /\ pidfile' = [d \in Dirs |->
                     IF pidfile[d] = "none" THEN "none" ELSE "stale"]
    /\ UNCHANGED cluster

PostmasterActs(d) ==
    \/ PostmasterReady(d) \/ PostmasterRestarts(d) \/ PostmasterStops(d)
    \/ PostmasterExits(d) \/ PostmasterDies(d)

PgEnv == \E d \in Dirs :
            PostmasterActs(d) \/ PidRecycled(d) \/ ForeignExits(d)

\* A postmaster that has just taken its lock file; no postmaster at all.
JustStarted == \A d \in Dirs : pm[d] = "starting" /\ pidfile[d] = "own"
NeverStarted == \A d \in Dirs : pm[d] = "down" /\ pidfile[d] = "none"

(***************************************************************************)
(* The life of postmasters that hold their lock files, while nobody uses   *)
(* pg_ctl: what the state machine of module Postmaster implements.         *)
(***************************************************************************)
PostmasterLife ==
    JustStarted /\ [][\E d \in Dirs : PostmasterActs(d)]_pgVars

\* The same with starts: what the interlock of module LockFile implements.
InterlockActs(d) ==
    PgCtlStart(d) \/ PostmasterActs(d) \/ PidRecycled(d) \/ ForeignExits(d)
=============================================================================
