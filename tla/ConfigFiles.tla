---------------------------- MODULE ConfigFiles -----------------------------
(***************************************************************************)
(* The two configuration files the application writes, and who can use     *)
(* them: config.yml of the API, one for the installation in /Applications, *)
(* and postgresql.conf, one for each cluster.  Several users of the        *)
(* machine may run the application, each with data directories of their    *)
(* own, one after the other or at the same time (fast user switching).     *)
(*                                                                         *)
(* AppDelegate's start up to the API, for every user: look for config.yml, *)
(* write it, look for the cluster, make it, configure it, start its server *)
(* on the one port there is, create the databases.  Between any two steps  *)
(* another user's session goes on, or the session is killed.               *)
(***************************************************************************)
EXTENDS Naturals

CONSTANTS
    Users,
    None,          \* no file, no cluster, no user
    MaxCrashes     \* bound on the sessions that are killed

VARIABLES
    pc,          \* pc[u]: where start of user u's session is
    configYml,   \* the user name in config.yml, or None
    apiPort,     \* the port in config.yml
    dataDirs,    \* the users whose cluster's directory exists
    owner,       \* owner[u]: the role that initdb made in u's cluster, or None
    pgPort,      \* pgPort[u]: the port in its postgresql.conf
    serving,     \* the user whose server listens on Port, or None
    databases,   \* databases[u]: how many of prod, test and dev its cluster has
    crashes

clusters == <<dataDirs, owner, pgPort>>
server == <<serving, databases>>
vars == <<pc, configYml, apiPort, clusters, server, crashes>>

Default == 5432        \* the port in both sample files
Port == 50725
Ports == {Default, Port}

Steps == {"off", "config", "writeConfig", "dataDir", "initdb", "pgConf", "server",
          "databases", "api"}

TypeOK ==
    /\ pc \in [Users -> Steps]
    /\ configYml \in Users \cup {None} /\ apiPort \in Ports
    /\ owner \in [Users -> Users \cup {None}] /\ pgPort \in [Users -> Ports]
    /\ dataDirs \subseteq Users /\ serving \in Users \cup {None}
    /\ databases \in [Users -> 0 .. 3]
    /\ crashes \in 0 .. MaxCrashes

Init ==
    /\ pc = [u \in Users |-> "off"]
    /\ configYml = None /\ apiPort = Default
    /\ owner = [u \in Users |-> None] /\ pgPort = [u \in Users |-> Default]
    /\ dataDirs = {} /\ serving = None /\ databases = [u \in Users |-> 0]
    /\ crashes = 0

Goto(u, step) == pc' = [pc EXCEPT ![u] = step]

-----------------------------------------------------------------------------
StartClicked(u) ==
    /\ pc[u] = "off"
    /\ Goto(u, "config")
    /\ UNCHANGED <<configYml, apiPort, clusters, server, crashes>>

\* fileExistsAtPath: whoever config.yml was written for.
LookForConfigYml(u) ==
    /\ pc[u] = "config"
    /\ Goto(u, IF configYml = None THEN "writeConfig" ELSE "dataDir")
    /\ UNCHANGED <<configYml, apiPort, clusters, server, crashes>>

\* Read the sample, put port and user name in, write the file atomically over
\* whatever is there by now; alerts 700 and 701 quit.
CreateConfigYml(u) ==
    /\ pc[u] = "writeConfig"
    /\ \/ /\ Goto(u, "dataDir")
          /\ configYml' = u /\ apiPort' = Port
       \/ Goto(u, "off") /\ UNCHANGED <<configYml, apiPort>>
    /\ UNCHANGED <<clusters, server, crashes>>

\* A missing directory is made (or alert 100 quits).  An existing one is taken
\* to hold a cluster.
LookForDataDir(u) ==
    /\ pc[u] = "dataDir"
    /\ \/ u \notin dataDirs /\ Goto(u, "initdb") /\ dataDirs' = dataDirs \cup {u}
       \/ u \notin dataDirs /\ Goto(u, "off") /\ UNCHANGED dataDirs
       \/ u \in dataDirs /\ Goto(u, "server") /\ UNCHANGED dataDirs
    /\ UNCHANGED <<configYml, apiPort, owner, pgPort, server, crashes>>

\* The cluster's first role has the name of the user who runs initdb.
Initdb(u) ==
    /\ pc[u] = "initdb"
    /\ \/ Goto(u, "pgConf") /\ owner' = [owner EXCEPT ![u] = u]
       \/ Goto(u, "off") /\ UNCHANGED owner       \* alert 101
    /\ UNCHANGED <<configYml, apiPort, dataDirs, pgPort, server, crashes>>

UpdatePostgresqlConf(u) ==
    /\ pc[u] = "pgConf"
    /\ \/ Goto(u, "server") /\ pgPort' = [pgPort EXCEPT ![u] = Port]
       \/ Goto(u, "off") /\ UNCHANGED pgPort      \* alerts 150 and 151
    /\ UNCHANGED <<configYml, apiPort, dataDirs, owner, server, crashes>>

\* Alert 950 quits when there is no cluster or the port is taken.  A server on
\* the default port starts as well, but no database is found or created there.
StartServer(u) ==
    /\ pc[u] = "server"
    /\ \/ /\ owner[u] # None /\ pgPort[u] = Port /\ serving \in {None, u}
          /\ serving' = u /\ Goto(u, "databases")
       \/ Goto(u, "off") /\ UNCHANGED serving
    /\ UNCHANGED <<configYml, apiPort, clusters, databases, crashes>>

\* createdb runs as the user; the rake tasks that follow connect as config.yml
\* says, and the session quits when they fail (alerts 502, 503 and 512).  A
\* database that exists is not looked at again.
CreateDatabase(u) ==
    /\ pc[u] = "databases" /\ databases[u] < 3
    /\ \/ /\ databases' = [databases EXCEPT ![u] = @ + 1]
          /\ \/ configYml = owner[u] /\ apiPort = Port /\ UNCHANGED pc
             \/ Goto(u, "off")
       \/ Goto(u, "off") /\ UNCHANGED databases
    /\ UNCHANGED <<configYml, apiPort, clusters, serving, crashes>>

StartApi(u) ==
    /\ pc[u] = "databases" /\ databases[u] = 3
    /\ Goto(u, "api")
    /\ UNCHANGED <<configYml, apiPort, clusters, server, crashes>>

\* The API and the server run until the application is quit; pg_ctl may give up
\* waiting for the server.
Quit(u) ==
    /\ pc[u] = "api"
    /\ Goto(u, "off")
    /\ serving' \in {serving, None}
    /\ UNCHANGED <<configYml, apiPort, clusters, databases, crashes>>

\* The session is killed and leaves its server running, or the machine stops.
Crash(u) ==
    /\ pc[u] # "off" /\ crashes < MaxCrashes
    /\ crashes' = crashes + 1
    /\ \/ Goto(u, "off") /\ UNCHANGED serving
       \/ pc' = [v \in Users |-> "off"] /\ serving' = None
    /\ UNCHANGED <<configYml, apiPort, clusters, databases>>

Next ==
    \E u \in Users :
       \/ StartClicked(u) \/ LookForConfigYml(u) \/ CreateConfigYml(u)
       \/ LookForDataDir(u) \/ Initdb(u) \/ UpdatePostgresqlConf(u)
       \/ StartServer(u) \/ CreateDatabase(u) \/ StartApi(u)
       \/ Quit(u) \/ Crash(u)

Spec == Init /\ [][Next]_vars

-----------------------------------------------------------------------------
(***************************************************************************)
(* AppDelegate.m:147, "first, make sure the connection settings in         *)
(* config.yml are correct": when start has come to the point of starting   *)
(* the API, config.yml has the port and names a role of the cluster that   *)
(* the session has started.                                                *)
(***************************************************************************)
ConnectionSettings ==
    \A u \in Users : pc[u] = "databases" /\ databases[u] = 3 =>
        configYml = owner[u] /\ apiPort = pgPort[u]
=============================================================================
