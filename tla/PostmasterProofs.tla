-------------------------- MODULE PostmasterProofs --------------------------
(***************************************************************************)
(* The postmaster's state machine for any number of children and crashes:  *)
(* the safety properties of module Postmaster, and that it implements the  *)
(* postmaster of module PgServer.                                          *)
(***************************************************************************)
EXTENDS Postmaster, TLAPS

-----------------------------------------------------------------------------
(* The inductive invariant, as a predicate of the postmaster's record p and *)
(* of c, whether the shutdown checkpoint has been made or there is none to  *)
(* make: the handlers are compositions of functions on the record, and it   *)
(* holds between them too.                                                  *)

PState == [state : Running \cup Exited,
           Shutdown : {"no", "smart", "fast"},
           FatalError : BOOLEAN,
           proc : [Procs -> {"none", "run"} \cup Statuses],
           told : [Procs -> SUBSET Signals]]

IsState(p) == p \in PState /\ \A k \in Procs : p.proc[k] # "run" => p.told[k] = {}

\* Why the postmaster is in its state: it has been told to stop, or there was a
\* crash, which it has forgotten once it serves.
Reason(p) ==
    /\ p.state \in {"PM_WAIT_BACKUP", "PM_WAIT_READONLY", "PM_SHUTDOWN",
                    "PM_SHUTDOWN_2"} => p.Shutdown # "no"
    /\ p.state \in {"PM_WAIT_BACKENDS", "PM_WAIT_DEAD_END", "PM_NO_CHILDREN"} =>
          p.Shutdown # "no" \/ p.FatalError
    /\ p.state \in {"PM_RUN", "PM_WAIT_BACKUP", "PM_SHUTDOWN"} => ~p.FatalError

\* Which children there may be.
Children(p) ==
    /\ p.state \in {"PM_STARTUP", "PM_WAIT_READONLY"} =>
          /\ p.proc["startup"] # "none"
          /\ Gone(p, Procs \ (DeadEnds \cup {"startup"}))
    /\ p.state \in {"PM_RUN", "PM_WAIT_BACKUP"} => Gone(p, {"startup"})
    /\ p.state = "PM_WAIT_BACKENDS" => Gone(p, {"startup"}) \/ p.Shutdown # "no"
    /\ p.state \in {"PM_SHUTDOWN", "PM_SHUTDOWN_2", "PM_WAIT_DEAD_END"} =>
          Gone(p, Writers)
    /\ p.state \in {"PM_SHUTDOWN_2", "PM_WAIT_DEAD_END"} => Gone(p, {"checkpointer"})
    /\ p.state \in {"PM_NO_CHILDREN", "normal"} => Gone(p, Procs)

\* Only a postmaster in PM_SHUTDOWN asks for the shutdown checkpoint, and it
\* goes on only when it has been written.
Checkpointing(p, c) ==
    /\ "SIGUSR2" \in p.told["checkpointer"] \/ p.proc["checkpointer"] = "exit 0" =>
          \/ p.state \in Exited \cup {"PM_SHUTDOWN"}
          \/ p.state = "PM_WAIT_BACKENDS" /\ p.FatalError
    /\ p.state = "PM_SHUTDOWN" /\ p.proc["checkpointer"] = "exit 0" => c
    /\ p.state = "PM_SHUTDOWN_2" => c
    /\ p.state \in {"PM_WAIT_DEAD_END", "PM_NO_CHILDREN"} /\ ~p.FatalError => c
    /\ p.state = "normal" => c

\* After a crash all children that are waited for have been told, except those
\* of the recovery.
Told(p) ==
    p.FatalError /\ p.state \notin Exited \cup {"PM_STARTUP", "PM_WAIT_READONLY"} =>
        \A k \in Special \cup Backends : p.proc[k] = "run" => p.told[k] # {}

Good(p, c) ==
    IsState(p) /\ Reason(p) /\ Children(p) /\ Checkpointing(p, c) /\ Told(p)

\* The states that PostmasterStateMachine never leaves the postmaster in.
Transient == {"PM_WAIT_BACKUP", "PM_WAIT_READONLY", "PM_NO_CHILDREN"}

Kept == ckpt \/ recovering

\* While recovery is in progress: only the startup process, unfinished, may be
\* there of those that write WAL, and the postmaster is not serving.
Fresh(p) ==
    /\ Gone(p, Writers \ {"startup"}) /\ p.proc["startup"] # "exit 0"
    /\ p.state \notin {"PM_RUN", "PM_WAIT_BACKUP"}

IInv == /\ Good(s, Kept) /\ s.state \notin Transient
        /\ recovering => Fresh(s)
        /\ reaping \in BOOLEAN /\ recovering \in BOOLEAN /\ ckpt \in BOOLEAN
        /\ crashes \in 0 .. MaxCrashes

\* Shared memory has been reset.
Restarted(p) ==
    p.proc["startup"] = "run" /\ \A k \in Procs : p.proc[k] # "none" => k = "startup"

-----------------------------------------------------------------------------
(* What the pieces do to the fields of the record.                         *)

LEMMA ProcsFacts ==
    /\ Procs = Writers \cup {"checkpointer", "stats"} \cup DeadEnds
    /\ Special \subseteq Procs /\ Backends \subseteq Procs /\ DeadEnds \subseteq Procs
    /\ Writers \subseteq Procs /\ Writers \cap DeadEnds = {}
    /\ Special \cap DeadEnds = {} /\ Backends \cap DeadEnds = {}
    /\ Special \cap Backends = {} /\ "checkpointer" \notin Writers
    /\ Writers = Backends \cup {"startup", "bgwriter", "walwriter", "autovac"}
    /\ "startup" \in Special /\ "checkpointer" \in Special /\ "stats" \in Special
  BY ProcsAssumption DEF Procs, Writers, Special, BackendList, Backends

LEMMA SignalFacts ==
    ASSUME NEW p, IsState(p), NEW ks, NEW sig \in Signals
    PROVE  LET q == Signal(p, ks, sig)
           IN  /\ IsState(q)
               /\ q.state = p.state /\ q.Shutdown = p.Shutdown
               /\ q.FatalError = p.FatalError /\ q.proc = p.proc
               /\ \A k \in Procs : q.told[k] =
                     IF k \in ks /\ p.proc[k] = "run" THEN p.told[k] \cup {sig}
                     ELSE p.told[k]
  BY DEF IsState, PState, Signal

LEMMA StartFacts ==
    ASSUME NEW p, IsState(p), NEW ks, NEW forks
    PROVE  LET q == StartMissing(p, ks, forks)
           IN  /\ IsState(q)
               /\ q.state = p.state /\ q.Shutdown = p.Shutdown
               /\ q.FatalError = p.FatalError /\ q.told = p.told
               /\ \A k \in Procs : q.proc[k] =
                     IF k \in ks /\ k \in forks /\ p.proc[k] = "none" THEN "run"
                     ELSE p.proc[k]
  BY DEF IsState, PState, StartMissing

LEMMA ForgetFacts ==
    ASSUME NEW p, IsState(p), NEW k \in Procs
    PROVE  LET q == Forget(p, k)
           IN  /\ IsState(q)
               /\ q.state = p.state /\ q.Shutdown = p.Shutdown
               /\ q.FatalError = p.FatalError
               /\ q.proc[k] = "none" /\ q.told[k] = {}
               /\ \A j \in Procs \ {k} : q.proc[j] = p.proc[j] /\ q.told[j] = p.told[j]
  BY DEF IsState, PState, Forget

LEMMA StateFacts ==
    ASSUME NEW p, IsState(p), NEW st \in Running \cup Exited
    PROVE  LET q == [p EXCEPT !.state = st]
           IN  /\ IsState(q)
               /\ q.state = st /\ q.Shutdown = p.Shutdown
               /\ q.FatalError = p.FatalError /\ q.proc = p.proc /\ q.told = p.told
  BY DEF IsState, PState

-----------------------------------------------------------------------------

(* The pieces keep the invariant.                                          *)

\* A signal that does not ask for the shutdown checkpoint.
LEMMA SignalGood ==
    ASSUME NEW p, NEW c, Good(p, c), NEW ks, NEW sig \in Signals,
           sig = "SIGUSR2" => "checkpointer" \notin ks
    PROVE  Good(Signal(p, ks, sig), c)
<1> DEFINE q == Signal(p, ks, sig)
<1>1. /\ IsState(q)
      /\ q.state = p.state /\ q.Shutdown = p.Shutdown
      /\ q.FatalError = p.FatalError /\ q.proc = p.proc
      /\ \A k \in Procs : q.told[k] =
            IF k \in ks /\ p.proc[k] = "run" THEN p.told[k] \cup {sig} ELSE p.told[k]
  BY SignalFacts DEF Good
<1> HIDE DEF q
<1>2. Reason(q) /\ Children(q)
  BY <1>1 DEF Good, Reason, Children, Gone
<1>3. Checkpointing(q, c)
  <2>1. "checkpointer" \in Procs
    BY ProcsFacts
  <2>2. "SIGUSR2" \in q.told["checkpointer"] => "SIGUSR2" \in p.told["checkpointer"]
    BY <1>1, <2>1
  <2> QED
    BY <1>1, <2>2 DEF Good, Checkpointing
<1>4. Told(q)
  <2>1. \A k \in Procs : p.told[k] # {} => q.told[k] # {}
    <3>1. \A k \in Procs : p.told[k] \subseteq q.told[k]
      BY <1>1
    <3> QED
      BY <3>1
  <2>2. \A k \in Special \cup Backends : k \in Procs
    BY ProcsFacts
  <2>3. Told(p)
    BY DEF Good
  <2> QED
    BY <1>1, <2>1, <2>2, <2>3 DEF Told
<1> QED
  BY <1>1, <1>2, <1>3, <1>4 DEF Good, q

\* Children are started in PM_RUN only, apart from dead ends.
LEMMA StartGood ==
    ASSUME NEW p, NEW c, Good(p, c), NEW ks, NEW forks,
           \/ p.state \in {"PM_RUN", "PM_WAIT_BACKUP"} /\ "startup" \notin ks
           \/ p.state \in Running \ {"PM_NO_CHILDREN"} /\ ks \subseteq DeadEnds
    PROVE  Good(StartMissing(p, ks, forks), c)
<1> DEFINE q == StartMissing(p, ks, forks)
<1>1. /\ IsState(q)
      /\ q.state = p.state /\ q.Shutdown = p.Shutdown
      /\ q.FatalError = p.FatalError /\ q.told = p.told
      /\ \A k \in Procs : q.proc[k] =
            IF k \in ks /\ k \in forks /\ p.proc[k] = "none" THEN "run" ELSE p.proc[k]
  BY StartFacts DEF Good
<1> HIDE DEF q
<1>2. CASE p.state \in {"PM_RUN", "PM_WAIT_BACKUP"} /\ "startup" \notin ks
  BY <1>1, <1>2, ProcsFacts
  DEF Good, Reason, Children, Gone, Checkpointing, Told, Exited, q
<1>3. CASE p.state \in Running \ {"PM_NO_CHILDREN"} /\ ks \subseteq DeadEnds
  <2>1. p.state # "PM_NO_CHILDREN" /\ p.state # "normal"
    BY <1>3 DEF Running
  <2>2. \A k \in Procs \ DeadEnds : q.proc[k] = p.proc[k]
    BY <1>1, <1>3
  <2>3. Children(q)
    <3>1. /\ "startup" \in Procs \ DeadEnds /\ "checkpointer" \in Procs \ DeadEnds
          /\ Writers \subseteq Procs \ DeadEnds
      BY ProcsFacts
    <3>2. Procs \ (DeadEnds \cup {"startup"}) \subseteq Procs \ DeadEnds
      OBVIOUS
    <3> QED
      BY <2>1, <2>2, <1>1, <3>1, <3>2 DEF Good, Children, Gone
  <2>4. Checkpointing(q, c) /\ Told(q)
    BY <2>2, <1>1, ProcsFacts DEF Good, Checkpointing, Told
  <2> QED
    BY <2>3, <2>4, <1>1 DEF Good, Reason, q
<1> QED
  BY <1>2, <1>3

\* A dead child is forgotten.
LEMMA ForgetGood ==
    ASSUME NEW p, NEW c, Good(p, c), NEW k \in Procs,
           k = "startup" => p.state \notin {"PM_STARTUP", "PM_WAIT_READONLY"}
    PROVE  Good(Forget(p, k), c)
<1> DEFINE q == Forget(p, k)
<1>1. /\ IsState(q)
      /\ q.state = p.state /\ q.Shutdown = p.Shutdown
      /\ q.FatalError = p.FatalError
      /\ q.proc[k] = "none" /\ q.told[k] = {}
      /\ \A j \in Procs \ {k} : q.proc[j] = p.proc[j] /\ q.told[j] = p.told[j]
  BY ForgetFacts DEF Good
<1> HIDE DEF q
<1>2. \A j \in Procs : /\ p.proc[j] = "none" => q.proc[j] = "none"
                       /\ q.proc[j] # "none" => q.proc[j] = p.proc[j]
                                                /\ q.told[j] = p.told[j]
  BY <1>1
<1>3. Children(q)
  BY <1>1, <1>2, ProcsFacts DEF Good, Children, Gone
<1>4. Checkpointing(q, c)
  <2>1. "checkpointer" \in Procs /\ "checkpointer" \in Special
    BY ProcsFacts
  <2>2. "SIGUSR2" \in q.told["checkpointer"] => "SIGUSR2" \in p.told["checkpointer"]
    BY <1>1, <2>1
  <2> QED
    BY <2>1, <2>2, <1>1, <1>2 DEF Good, Checkpointing
<1>5. Told(q)
  BY <1>1, <1>2, ProcsFacts DEF Good, Told
<1> QED
  BY <1>1, <1>3, <1>4, <1>5 DEF Good, Reason, q

-----------------------------------------------------------------------------
(* The handlers keep the invariant.                                        *)

\* The end of a child that is taken for a crash.
LEMMA CrashGood ==
    ASSUME NEW p, NEW c, Good(p, c), p.state \in Running \ Transient,
           NEW k \in Procs, p.proc[k] # "none",
           k = "startup" => p.state # "PM_STARTUP"
    PROVE  /\ Good(HandleChildCrash(p, k), c)
           /\ HandleChildCrash(p, k).state \in Running \ Transient
           /\ HandleChildCrash(p, k).state = "PM_STARTUP" => p.state = "PM_STARTUP"
           /\ HandleChildCrash(p, k).FatalError
           /\ HandleChildCrash(p, k).Shutdown = p.Shutdown
           /\ \A j \in Procs : HandleChildCrash(p, k).proc[j] \in {p.proc[j], "none"}
<1> DEFINE q == Forget(p, k)
           t == IF p.FatalError THEN q ELSE Signal(q, Procs, "SIGQUIT")
           r == HandleChildCrash(p, k)
<1>0. p.state \in Running /\ p.state \notin Transient /\ p.state \notin Exited
  BY DEF Running, Exited
<1>1. /\ Good(q, c)
      /\ IsState(q)
      /\ q.state = p.state /\ q.Shutdown = p.Shutdown
      /\ q.FatalError = p.FatalError
      /\ q.proc[k] = "none" /\ q.told[k] = {}
      /\ \A j \in Procs \ {k} : q.proc[j] = p.proc[j] /\ q.told[j] = p.told[j]
  BY <1>0, ForgetGood, ForgetFacts DEF Good, Transient
<1> HIDE DEF q
<1>2. /\ Good(t, c) /\ IsState(t)
      /\ t.state = p.state /\ t.Shutdown = p.Shutdown
      /\ t.FatalError = p.FatalError /\ t.proc = q.proc
      /\ ~p.FatalError \/ p.state # "PM_STARTUP" =>
            \A j \in Special \cup Backends : t.proc[j] = "run" => t.told[j] # {}
  <2>1. CASE p.FatalError
    <3>1. q.state \notin Exited \cup {"PM_STARTUP", "PM_WAIT_READONLY"}
             \/ p.state = "PM_STARTUP"
      BY <1>0, <1>1 DEF Transient
    <3> QED
      BY <2>1, <1>1, <3>1 DEF Good, Told
  <2>2. CASE ~p.FatalError
    <3>1. "SIGQUIT" \in Signals
      BY DEF Signals
    <3>2. Good(t, c)
      BY <3>1, <2>2, <1>1, SignalGood
    <3>3. /\ t.state = q.state /\ t.Shutdown = q.Shutdown
          /\ t.FatalError = q.FatalError /\ t.proc = q.proc
          /\ \A j \in Procs : t.told[j] =
                IF j \in Procs /\ q.proc[j] = "run" THEN q.told[j] \cup {"SIGQUIT"}
                ELSE q.told[j]
      BY <3>1, <2>2, <1>1, SignalFacts
    <3>4. \A j \in Special \cup Backends : t.proc[j] = "run" => t.told[j] # {}
      BY <3>3, ProcsFacts
    <3> QED
      BY <3>2, <3>3, <3>4, <1>1 DEF Good
  <2>3. p.FatalError \in BOOLEAN
    BY DEF Good, IsState, PState
  <2> QED
    BY <2>1, <2>2, <2>3
<1> HIDE DEF t
<1>3. r = [t EXCEPT !.FatalError = TRUE,
              !.state = IF @ \in {"PM_RUN", "PM_WAIT_BACKUP",
                                  "PM_WAIT_READONLY", "PM_SHUTDOWN"}
                          THEN "PM_WAIT_BACKENDS" ELSE @]
  BY DEF HandleChildCrash, t, q
<1>4. /\ IsState(r) /\ r.FatalError = TRUE
      /\ r.Shutdown = p.Shutdown /\ r.proc = q.proc /\ r.told = t.told
      /\ r.state = IF p.state \in {"PM_RUN", "PM_SHUTDOWN"}
                     THEN "PM_WAIT_BACKENDS" ELSE p.state
  BY <1>0, <1>2, <1>3 DEF IsState, PState, Running, Transient
<1> HIDE DEF r
<1>5. r.state \in Running \ Transient
  BY <1>0, <1>4 DEF Running, Transient
<1>6. Reason(r)
  BY <1>0, <1>2, <1>4 DEF Good, Reason, Transient
<1>7. Children(r)
  <2>1. CASE p.state \in {"PM_RUN", "PM_SHUTDOWN"}
    <3>1. "startup" \in Writers
      BY ProcsFacts
    <3>2. r.state = "PM_WAIT_BACKENDS" /\ Gone(r, {"startup"})
      BY <2>1, <3>1, <1>2, <1>4 DEF Good, Children, Gone
    <3> QED
      BY <3>2 DEF Children
  <2>2. CASE p.state \notin {"PM_RUN", "PM_SHUTDOWN"}
    <3>1. r.state = t.state /\ r.proc = t.proc /\ r.Shutdown = t.Shutdown
      BY <2>2, <1>2, <1>4
    <3> QED
      BY <3>1, <1>2 DEF Good, Children, Gone
  <2> QED
    BY <2>1, <2>2
<1>8. Checkpointing(r, c)
  BY <1>0, <1>2, <1>4 DEF Good, Checkpointing, Transient, Exited
<1>9. Told(r)
  BY <1>0, <1>2, <1>4 DEF Told, Transient
<1>10. \A j \in Procs : r.proc[j] \in {p.proc[j], "none"}
  BY <1>1, <1>4
<1> QED
  BY <1>4, <1>5, <1>6, <1>7, <1>8, <1>9, <1>10 DEF Good, r

\* A postmaster that has exited with an error promises nothing.
LEMMA ExitGood ==
    ASSUME NEW p, NEW c, IsState(p), p.state \in Exited \ {"normal"}
    PROVE  Good(p, c)
  BY DEF Good, Reason, Children, Checkpointing, Told, Exited

LEMMA StartupIsThere ==
    ASSUME NEW p, NEW c, Good(p, c), p.state \in Running \ Transient,
           p.proc["startup"] # "none"
    PROVE  \/ p.state = "PM_STARTUP"
           \/ p.state = "PM_WAIT_BACKENDS" /\ p.Shutdown # "no"
<1>1. "startup" \in Writers
  BY ProcsFacts
<1> QED
  BY <1>1 DEF Good, Children, Gone, Running, Transient

LEMMA ReapStartupGood ==
    ASSUME NEW p, NEW c, Good(p, c), p.state \in Running \ Transient,
           p.proc["startup"] \in Statuses, NEW forks
    PROVE  LET r == ReapStartup(p, forks)
           IN  /\ Good(r, c)
               /\ r.state \in (Running \ (Transient \cup {"PM_STARTUP"})) \cup Exited
               /\ r.Shutdown = p.Shutdown
               /\ p.FatalError /\ ~r.FatalError => Gone(p, Backends)
<1> DEFINE q == Forget(p, "startup")
           status == p.proc["startup"]
           r == ReapStartup(p, forks)
<1>0. "startup" \in Procs /\ "checkpointer" \in Procs /\ "startup" \in Special
  BY ProcsFacts
<1>1. /\ IsState(q)
      /\ q.state = p.state /\ q.Shutdown = p.Shutdown
      /\ q.FatalError = p.FatalError
      /\ q.proc["startup"] = "none" /\ q.told["startup"] = {}
      /\ \A j \in Procs \ {"startup"} : q.proc[j] = p.proc[j] /\ q.told[j] = p.told[j]
  BY <1>0, ForgetFacts DEF Good
<1>2. status \in Statuses /\ status # "none" /\ status # "run"
  BY DEF Statuses
<1>3. \/ p.state = "PM_STARTUP"
      \/ p.state = "PM_WAIT_BACKENDS" /\ p.Shutdown # "no"
  BY <1>2, StartupIsThere
<1>4. p.state = "PM_STARTUP" =>
        /\ \A k \in Special \cup Backends : q.proc[k] = "none"
        /\ Gone(p, Backends)
        /\ p.told["checkpointer"] = {} /\ p.proc["checkpointer"] = "none"
  <2>1. ASSUME p.state = "PM_STARTUP", NEW k \in Special \cup Backends, k # "startup"
        PROVE  p.proc[k] = "none"
    BY <2>1, ProcsFacts DEF Good, Children, Gone
  <2> HIDE DEF q
  <2>2. Backends \subseteq Procs /\ "startup" \notin Backends /\ "checkpointer" \in Special
        /\ Special \subseteq Procs
    BY ProcsFacts
  <2> QED
    BY <2>1, <2>2, <1>0, <1>1 DEF Good, IsState, Gone
<1> HIDE DEF q, r
<1>5. CASE p.Shutdown # "no" /\ status # "crash"
  <2>1. r = [q EXCEPT !.state = "PM_WAIT_BACKENDS"]
    BY <1>5 DEF r, ReapStartup, q
  <2>2. /\ IsState(r) /\ r.state = "PM_WAIT_BACKENDS" /\ r.Shutdown = p.Shutdown
        /\ r.FatalError = p.FatalError /\ r.proc = q.proc /\ r.told = q.told
    BY <2>1, <1>1, StateFacts DEF Running
  <2>3. Reason(r) /\ Children(r)
    BY <2>2, <1>5 DEF Reason, Children
  <2>4. Checkpointing(r, c)
    BY <2>2, <1>0, <1>1, <1>3, <1>4 DEF Good, Checkpointing, Exited
  <2>5. Told(r)
    <3>1. \A k \in Special \cup Backends : k \in Procs
      BY ProcsFacts
    <3> QED
      BY <2>2, <1>1, <1>3, <1>4, <3>1 DEF Good, Told, Exited
  <2> QED
    BY <2>2, <2>3, <2>4, <2>5 DEF Good, Running, Transient, r
<1>6. CASE ~(p.Shutdown # "no" /\ status # "crash") /\ status # "exit 0"
           /\ p.state = "PM_STARTUP"
  <2>1. r = [q EXCEPT !.state = "exit 1"]
    BY <1>6 DEF r, ReapStartup, q
  <2>2. "exit 1" \in Running \cup Exited
    BY DEF Exited
  <2>3. /\ IsState(r) /\ r.state = "exit 1" /\ r.Shutdown = p.Shutdown
        /\ r.FatalError = p.FatalError
    BY <2>1, <2>2, <1>1, StateFacts
  <2> QED
    BY <2>3, ExitGood DEF Exited, r
<1>7. CASE ~(p.Shutdown # "no" /\ status # "crash") /\ status # "exit 0"
           /\ p.state # "PM_STARTUP"
  <2>1. r = HandleChildCrash(p, "startup")
    BY <1>7 DEF r, ReapStartup
  <2>2. p.proc["startup"] # "none"
    BY <1>2
  <2>3. /\ Good(r, c) /\ r.state \in Running \ Transient
        /\ r.FatalError /\ r.Shutdown = p.Shutdown
        /\ r.state = "PM_STARTUP" => p.state = "PM_STARTUP"
    <3>1. "startup" = "startup" => p.state # "PM_STARTUP"
      BY <1>7
    <3> QED
      BY <2>1, <2>2, <3>1, <1>0, CrashGood, Zenon
  <2> QED
    BY <2>3, <1>7 DEF r
<1>8. CASE ~(p.Shutdown # "no" /\ status # "crash") /\ status = "exit 0"
  <2> DEFINE ks == {"checkpointer", "bgwriter", "walwriter", "autovac", "stats"}
             t == StartMissing(q, ks, forks)
  <2>1. p.state = "PM_STARTUP" /\ p.Shutdown = "no"
    BY <1>3, <1>8
  <2>2. r = [t EXCEPT !.FatalError = FALSE, !.state = "PM_RUN"]
    BY <1>8, <2>1 DEF r, ReapStartup, q
  <2>3. /\ IsState(t) /\ t.Shutdown = q.Shutdown /\ t.told = q.told
        /\ \A k \in Procs : t.proc[k] =
              IF k \in ks /\ k \in forks /\ q.proc[k] = "none" THEN "run" ELSE q.proc[k]
    BY <1>1, StartFacts
  <2> HIDE DEF t
  <2>4. /\ IsState(r) /\ r.state = "PM_RUN" /\ r.Shutdown = p.Shutdown
        /\ r.FatalError = FALSE /\ r.proc = t.proc /\ r.told = q.told
    BY <2>2, <2>3, <1>1 DEF IsState, PState, Running
  <2>5. Reason(r) /\ Told(r)
    BY <2>4 DEF Reason, Told
  <2>6. Children(r)
    BY <2>3, <2>4, <1>0, <1>1 DEF Children, Gone
  <2>7. Checkpointing(r, c)
    BY <2>1, <2>3, <2>4, <1>0, <1>1, <1>4 DEF Checkpointing
  <2> QED
    BY <2>1, <2>4, <2>5, <2>6, <2>7, <1>4 DEF Good, Running, Transient, r
<1> QED
  BY <1>5, <1>6, <1>7, <1>8

LEMMA ReapCheckpointerGood ==
    ASSUME NEW p, NEW c, Good(p, c), p.state \in Running \ Transient,
           p.proc["checkpointer"] \in Statuses
    PROVE  LET r == ReapCheckpointer(p)
           IN  /\ Good(r, c)
               /\ r.state \in Running \ Transient
               /\ r.state = "PM_STARTUP" => p.state = "PM_STARTUP"
               /\ r.Shutdown = p.Shutdown
               /\ p.FatalError => r.FatalError
<1> DEFINE r == ReapCheckpointer(p)
<1> HIDE DEF r
<1>0. /\ "checkpointer" \in Procs /\ "checkpointer" \notin Backends
      /\ p.proc["checkpointer"] # "none"
  BY ProcsFacts DEF Statuses, Special
<1>1. CASE ~(p.proc["checkpointer"] = "exit 0" /\ p.state = "PM_SHUTDOWN")
  <2>1. r = HandleChildCrash(p, "checkpointer")
    BY <1>1 DEF ReapCheckpointer, r
  <2>2. "checkpointer" = "startup" => p.state # "PM_STARTUP"
    OBVIOUS
  <2>3. /\ Good(r, c) /\ r.state \in Running \ Transient
        /\ r.FatalError /\ r.Shutdown = p.Shutdown
        /\ r.state = "PM_STARTUP" => p.state = "PM_STARTUP"
    BY <2>1, <2>2, <1>0, CrashGood, Zenon
  <2> QED
    BY <2>3 DEF r
<1>2. CASE p.proc["checkpointer"] = "exit 0" /\ p.state = "PM_SHUTDOWN"
  <2> DEFINE q == Forget(p, "checkpointer")
             t == Signal(q, Backends, "SIGUSR2")
             u == Signal(t, {"stats"}, "SIGQUIT")
  <2>0. "SIGUSR2" \in Signals /\ "SIGQUIT" \in Signals
    BY DEF Signals
  <2>1. /\ Good(q, c) /\ q.state = p.state /\ q.Shutdown = p.Shutdown
        /\ q.FatalError = p.FatalError /\ q.proc["checkpointer"] = "none"
    BY <1>0, ForgetGood, ForgetFacts DEF Good
  <2> HIDE DEF q
  <2>2. /\ Good(t, c) /\ t.state = q.state /\ t.Shutdown = q.Shutdown
        /\ t.FatalError = q.FatalError /\ t.proc = q.proc
    BY <2>0, <2>1, <1>0, SignalGood, SignalFacts DEF Good
  <2> HIDE DEF t
  <2>3. /\ Good(u, c) /\ u.state = t.state /\ u.Shutdown = t.Shutdown
        /\ u.FatalError = t.FatalError /\ u.proc = t.proc
    BY <2>0, <2>2, SignalGood, SignalFacts DEF Good
  <2>4. r = [u EXCEPT !.state = "PM_SHUTDOWN_2"]
    BY <1>2 DEF r, ReapCheckpointer, q, t, u
  <2> HIDE DEF u
  <2>5. "PM_SHUTDOWN_2" \in Running \cup Exited
    BY DEF Running
  <2>6. /\ IsState(r) /\ r.state = "PM_SHUTDOWN_2" /\ r.Shutdown = p.Shutdown
        /\ r.FatalError = p.FatalError /\ r.proc = u.proc /\ r.told = u.told
    BY <2>1, <2>2, <2>3, <2>4, <2>5, StateFacts DEF Good
  <2>7. p.Shutdown # "no" /\ ~p.FatalError /\ c
    BY <1>2 DEF Good, Reason, Checkpointing
  <2>8. Gone(r, Writers) /\ Gone(r, {"checkpointer"})
    <3>1. r.proc = q.proc
      BY <2>2, <2>3, <2>6
    <3>2. q.state = "PM_SHUTDOWN" /\ Children(q)
      BY <1>2, <2>1 DEF Good
    <3>3. Gone(q, Writers)
      BY <3>2 DEF Children
    <3> QED
      BY <2>1, <3>1, <3>3 DEF Gone
  <2>9. "SIGUSR2" \notin r.told["checkpointer"] /\ r.proc["checkpointer"] # "exit 0"
    BY <2>6, <2>8, <1>0 DEF IsState, Gone
  <2> QED
    BY <2>6, <2>7, <2>8, <2>9
    DEF Good, Reason, Children, Checkpointing, Told, Running, Transient, r
<1> QED
  BY <1>1, <1>2

\* The reaper does not take FatalError back, but for a startup process.
LEMMA ReapedGood ==
    ASSUME NEW p, NEW c, Good(p, c), p.state \in Running \ Transient,
           NEW k \in Procs, p.proc[k] \in Statuses,
           NEW forks, "startup" \notin forks
    PROVE  LET r == Reaped(p, k, forks)
           IN  /\ Good(r, c)
               /\ r.state \in (Running \ Transient) \cup Exited
               /\ r.state = "PM_STARTUP" => p.state = "PM_STARTUP"
               /\ r.Shutdown = p.Shutdown
               /\ p.FatalError /\ ~r.FatalError => k = "startup" /\ Gone(p, Backends)
<1> DEFINE r == Reaped(p, k, forks)
<1> HIDE DEF r
<1>0. p.proc[k] # "none"
  BY DEF Statuses
<1>1. CASE k = "startup"
  <2>1. r = ReapStartup(p, forks)
    BY <1>1 DEF r, Reaped
  <2> QED
    BY <2>1, <1>1, ReapStartupGood DEF r, Exited
<1>2. CASE k = "checkpointer"
  <2>1. r = ReapCheckpointer(p)
    BY <1>2 DEF r, Reaped
  <2> QED
    BY <2>1, <1>2, ReapCheckpointerGood DEF r
<1>3. CASE k = "stats"
  <2> DEFINE q == Forget(p, "stats")
  <2>1. r = IF p.state = "PM_RUN" THEN StartMissing(q, {"stats"}, forks) ELSE q
    BY <1>3 DEF r, Reaped, ReapStats
  <2>2. /\ Good(q, c) /\ q.state = p.state /\ q.Shutdown = p.Shutdown
        /\ q.FatalError = p.FatalError
    BY <1>3, ForgetGood, ForgetFacts DEF Good
  <2> HIDE DEF q
  <2>3. Good(r, c)
    BY <2>1, <2>2, StartGood
  <2>4. r.state = q.state /\ r.Shutdown = q.Shutdown /\ r.FatalError = q.FatalError
    BY <2>1, <2>2, StartFacts DEF Good
  <2> QED
    BY <2>2, <2>3, <2>4 DEF r
<1>4. CASE k \notin {"startup", "checkpointer", "stats"}
  <2>1. r = IF p.proc[k] = "exit 0" THEN Forget(p, k) ELSE HandleChildCrash(p, k)
    BY <1>4 DEF r, Reaped, ReapOther
  <2>2. k = "startup" => p.state # "PM_STARTUP"
    BY <1>4
  <2>3. CASE p.proc[k] = "exit 0"
    <3>1. r = Forget(p, k)
      BY <2>1, <2>3
    <3>2. /\ Good(r, c) /\ r.state = p.state /\ r.Shutdown = p.Shutdown
          /\ r.FatalError = p.FatalError
      BY <3>1, <1>4, ForgetGood, ForgetFacts DEF Good
    <3> QED
      BY <3>2 DEF r
  <2>4. CASE p.proc[k] # "exit 0"
    <3>1. /\ Good(r, c) /\ r.state \in Running \ Transient
          /\ r.FatalError /\ r.Shutdown = p.Shutdown
          /\ r.state = "PM_STARTUP" => p.state = "PM_STARTUP"
      BY <2>1, <2>2, <2>4, <1>0, CrashGood, Zenon
    <3> QED
      BY <3>1 DEF r
  <2> QED
    BY <2>3, <2>4
<1> QED
  BY <1>1, <1>2, <1>3, <1>4

-----------------------------------------------------------------------------
(* PostmasterStateMachine, part by part.                                   *)

LEMMA WaitBackupGood ==
    ASSUME NEW p, NEW c, Good(p, c), p.state \in Running \ {"PM_NO_CHILDREN"}
    PROVE  LET q == WaitBackup(p)
           IN  /\ Good(q, c)
               /\ q.state \in Running \ {"PM_NO_CHILDREN", "PM_WAIT_BACKUP"}
               /\ q.state = "PM_STARTUP" => p.state = "PM_STARTUP"
               /\ q.Shutdown = p.Shutdown /\ q.FatalError = p.FatalError
<1> DEFINE q == WaitBackup(p)
<1> HIDE DEF q
<1>1. CASE p.state # "PM_WAIT_BACKUP"
  BY <1>1 DEF WaitBackup
<1>2. CASE p.state = "PM_WAIT_BACKUP"
  <2>1. q = [p EXCEPT !.state = "PM_WAIT_BACKENDS"]
    BY <1>2 DEF q, WaitBackup
  <2>2. "PM_WAIT_BACKENDS" \in Running \cup Exited
    BY DEF Running
  <2>3. /\ IsState(q) /\ q.state = "PM_WAIT_BACKENDS" /\ q.Shutdown = p.Shutdown
        /\ q.FatalError = p.FatalError /\ q.proc = p.proc /\ q.told = p.told
    BY <2>1, <2>2, StateFacts DEF Good
  <2>4. Reason(q) /\ Children(q) /\ Checkpointing(q, c) /\ Told(q)
    BY <2>3, <1>2 DEF Good, Reason, Children, Checkpointing, Told, Gone, Exited
  <2> QED
    BY <2>3, <2>4 DEF Good, Running, q
<1> QED
  BY <1>1, <1>2

LEMMA WaitReadonlyGood ==
    ASSUME NEW p, NEW c, Good(p, c),
           p.state \in Running \ {"PM_NO_CHILDREN", "PM_WAIT_BACKUP"}
    PROVE  LET q == WaitReadonly(p)
           IN  /\ Good(q, c) /\ q.state \in Running \ Transient
               /\ q.state = "PM_STARTUP" => p.state = "PM_STARTUP"
               /\ q.Shutdown = p.Shutdown /\ q.FatalError = p.FatalError
<1> DEFINE q == WaitReadonly(p)
           t == Signal(p, {"startup"}, "SIGTERM")
<1> HIDE DEF q, t
<1>1. CASE p.state # "PM_WAIT_READONLY"
  BY <1>1 DEF WaitReadonly, Transient
<1>2. CASE p.state = "PM_WAIT_READONLY"
  <2>0. /\ Clients \subseteq Procs \ (DeadEnds \cup {"startup"})
        /\ \A k \in Special \cup Backends : k = "startup"
              \/ k \in Procs \ (DeadEnds \cup {"startup"})
        /\ "checkpointer" \in Procs \ (DeadEnds \cup {"startup"})
        /\ "startup" \in Procs
    BY ProcsFacts DEF Special, Backends
  <2>1. Gone(p, Clients)
    BY <1>2, <2>0 DEF Good, Children, Gone
  <2>2. q = [t EXCEPT !.state = "PM_WAIT_BACKENDS"]
    BY <1>2, <2>1 DEF q, t, WaitReadonly
  <2>3. "SIGTERM" \in Signals /\ "PM_WAIT_BACKENDS" \in Running \cup Exited
    BY DEF Signals, Running
  <2>4. /\ IsState(t) /\ t.Shutdown = p.Shutdown
        /\ t.FatalError = p.FatalError /\ t.proc = p.proc
        /\ \A k \in Procs : t.told[k] =
              IF k \in {"startup"} /\ p.proc[k] = "run" THEN p.told[k] \cup {"SIGTERM"}
              ELSE p.told[k]
    BY <2>3, SignalFacts DEF t, Good
  <2>5. /\ IsState(q) /\ q.state = "PM_WAIT_BACKENDS" /\ q.Shutdown = p.Shutdown
        /\ q.FatalError = p.FatalError /\ q.proc = p.proc /\ q.told = t.told
    BY <2>2, <2>3, <2>4, StateFacts
  <2>6. Reason(q) /\ Children(q)
    BY <2>5, <1>2 DEF Good, Reason, Children
  <2>7. q.proc["checkpointer"] = "none" /\ q.told["checkpointer"] = {}
    BY <2>0, <2>5, <1>2 DEF Good, Children, Gone, IsState
  <2>8. Checkpointing(q, c)
    BY <2>5, <2>7 DEF Checkpointing
  <2>9. Told(q)
    BY <2>0, <2>4, <2>5, <1>2 DEF Good, Children, Gone, Told
  <2> QED
    BY <2>5, <2>6, <2>8, <2>9 DEF Good, Running, Transient, q
<1> QED
  BY <1>1, <1>2

LEMMA WaitBackendsGood ==
    ASSUME NEW p, NEW c, Good(p, c), p.state \in Running \ Transient, NEW forks
    PROVE  LET q == WaitBackends(p, forks)
           IN  /\ Good(q, c) /\ q.state \in Running \ Transient
               /\ q.state = "PM_STARTUP" => p.state = "PM_STARTUP"
               /\ q.Shutdown = p.Shutdown /\ (p.FatalError => q.FatalError)
<1> DEFINE q == WaitBackends(p, forks)
           u == StartMissing(p, {"checkpointer"}, forks)
           Go == /\ p.state = "PM_WAIT_BACKENDS" /\ Gone(p, Writers)
                 /\ Gone(p, {"checkpointer"}) \/ ~p.FatalError
<1> HIDE DEF q
<1>0. /\ "checkpointer" \in Procs /\ "checkpointer" \notin Writers
      /\ Writers \subseteq Procs /\ "checkpointer" \notin Backends
      /\ \A k \in Special \cup Backends : k \in Writers \cup {"checkpointer", "stats"}
      /\ "stats" \in Procs
  BY ProcsFacts DEF Special, Backends
<1>1. /\ IsState(p) /\ p.FatalError \in BOOLEAN
  BY DEF Good, IsState, PState
<1>2. CASE ~Go
  BY <1>2 DEF WaitBackends
<1>3. CASE Go /\ p.FatalError
  <2>1. q = [p EXCEPT !.state = "PM_WAIT_DEAD_END"]
    BY <1>3 DEF q, WaitBackends
  <2>2. "PM_WAIT_DEAD_END" \in Running \cup Exited
    BY DEF Running
  <2>3. /\ IsState(q) /\ q.state = "PM_WAIT_DEAD_END" /\ q.Shutdown = p.Shutdown
        /\ q.FatalError = p.FatalError /\ q.proc = p.proc /\ q.told = p.told
    BY <2>1, <2>2, <1>1, StateFacts
  <2>4. Reason(q) /\ Children(q) /\ Told(q)
    BY <2>3, <1>3 DEF Good, Reason, Children, Told, Gone, Exited
  <2>5. q.proc["checkpointer"] = "none" /\ q.told["checkpointer"] = {}
    BY <2>3, <1>0, <1>3 DEF Gone, IsState
  <2>6. Checkpointing(q, c)
    BY <2>3, <2>5, <1>3 DEF Checkpointing
  <2> QED
    BY <2>3, <2>4, <2>6 DEF Good, Running, Transient, q
<1>4. /\ IsState(u) /\ u.state = p.state /\ u.Shutdown = p.Shutdown
      /\ u.FatalError = p.FatalError /\ u.told = p.told
      /\ \A k \in Procs : u.proc[k] =
            IF k \in {"checkpointer"} /\ k \in forks /\ p.proc[k] = "none"
              THEN "run" ELSE p.proc[k]
  BY <1>1, StartFacts
<1> HIDE DEF u
<1>5. CASE Go /\ ~p.FatalError /\ ~Gone(u, {"checkpointer"})
  <2> DEFINE t == Signal(u, {"checkpointer"}, "SIGUSR2")
  <2>1. q = [t EXCEPT !.state = "PM_SHUTDOWN"]
    BY <1>5 DEF q, u, WaitBackends
  <2>2. "PM_SHUTDOWN" \in Running \cup Exited /\ "SIGUSR2" \in Signals
    BY DEF Running, Signals
  <2>3. /\ IsState(t) /\ t.state = u.state /\ t.Shutdown = u.Shutdown
        /\ t.FatalError = u.FatalError /\ t.proc = u.proc
    BY <2>2, <1>4, SignalFacts
  <2> HIDE DEF t
  <2>4. /\ IsState(q) /\ q.state = "PM_SHUTDOWN" /\ q.Shutdown = p.Shutdown
        /\ q.FatalError = p.FatalError /\ q.proc = u.proc
    BY <2>1, <2>2, <2>3, <1>4, StateFacts
  <2>5. Reason(q) /\ Told(q)
    BY <2>4, <1>5 DEF Good, Reason, Told
  <2>6. Gone(q, Writers)
    BY <2>4, <1>0, <1>4, <1>5 DEF Gone
  <2>7. q.proc["checkpointer"] # "exit 0"
    BY <2>4, <1>0, <1>4, <1>5 DEF Good, Checkpointing, Exited
  <2> QED
    BY <2>4, <2>5, <2>6, <2>7, <1>5
    DEF Good, Children, Checkpointing, Running, Transient, q
<1>6. CASE Go /\ ~p.FatalError /\ Gone(u, {"checkpointer"})
  <2> DEFINE t == Signal(u, Backends \cup {"stats"}, "SIGQUIT")
  <2>1. q = [t EXCEPT !.FatalError = TRUE, !.state = "PM_WAIT_DEAD_END"]
    BY <1>6 DEF q, u, WaitBackends
  <2>2. "SIGQUIT" \in Signals
    BY DEF Signals
  <2>3. /\ IsState(t) /\ t.state = u.state /\ t.Shutdown = u.Shutdown
        /\ t.FatalError = u.FatalError /\ t.proc = u.proc
        /\ \A k \in Procs : t.told[k] =
              IF k \in Backends \cup {"stats"} /\ u.proc[k] = "run"
                THEN u.told[k] \cup {"SIGQUIT"} ELSE u.told[k]
    BY <2>2, <1>4, SignalFacts
  <2> HIDE DEF t
  <2>4. /\ IsState(q) /\ q.state = "PM_WAIT_DEAD_END" /\ q.Shutdown = p.Shutdown
        /\ q.FatalError = TRUE /\ q.proc = u.proc /\ q.told = t.told
    BY <2>1, <2>3, <1>4 DEF IsState, PState, Running
  <2>5. Gone(q, Writers) /\ Gone(q, {"checkpointer"})
    BY <2>4, <1>0, <1>4, <1>6 DEF Gone
  <2>6. q.told["checkpointer"] = {} /\ q.proc["checkpointer"] # "exit 0"
    BY <2>4, <2>5, <1>0 DEF IsState, Gone
  <2>7. Told(q)
    <3> SUFFICES ASSUME NEW k \in Special \cup Backends, q.proc[k] = "run"
                 PROVE  q.told[k] # {}
      BY DEF Told
    <3>1. k \notin Writers /\ k # "checkpointer"
      BY <2>5 DEF Gone
    <3>2. k = "stats" /\ k \in Procs /\ u.proc[k] = "run"
      BY <1>0, <2>4, <3>1
    <3>3. t.told[k] = u.told[k] \cup {"SIGQUIT"}
      BY <2>3, <3>2
    <3> QED
      BY <2>4, <3>3
  <2> QED
    BY <2>4, <2>5, <2>6, <2>7
    DEF Good, Reason, Children, Checkpointing, Running, Transient, q
<1> QED
  BY <1>1, <1>2, <1>3, <1>5, <1>6

LEMMA WaitShutdown2Good ==
    ASSUME NEW p, NEW c, Good(p, c), p.state \in Running \ Transient
    PROVE  LET q == WaitShutdown2(p)
           IN  /\ Good(q, c) /\ q.state \in Running \ Transient
               /\ q.state = "PM_STARTUP" => p.state = "PM_STARTUP"
               /\ q.Shutdown = p.Shutdown /\ q.FatalError = p.FatalError
<1> DEFINE q == WaitShutdown2(p)
<1> HIDE DEF q
<1>1. CASE ~(p.state = "PM_SHUTDOWN_2" /\ Gone(p, Backends))
  BY <1>1 DEF WaitShutdown2
<1>2. CASE p.state = "PM_SHUTDOWN_2" /\ Gone(p, Backends)
  <2>1. q = [p EXCEPT !.state = "PM_WAIT_DEAD_END"]
    BY <1>2 DEF q, WaitShutdown2
  <2>2. "PM_WAIT_DEAD_END" \in Running \cup Exited
    BY DEF Running
  <2>3. /\ IsState(q) /\ q.state = "PM_WAIT_DEAD_END" /\ q.Shutdown = p.Shutdown
        /\ q.FatalError = p.FatalError /\ q.proc = p.proc /\ q.told = p.told
    BY <2>1, <2>2, StateFacts DEF Good
  <2>4. Reason(q) /\ Children(q) /\ Checkpointing(q, c) /\ Told(q)
    BY <2>3, <1>2 DEF Good, Reason, Children, Checkpointing, Told, Gone, Exited
  <2> QED
    BY <2>3, <2>4 DEF Good, Running, Transient, q
<1> QED
  BY <1>1, <1>2

LEMMA WaitDeadEndGood ==
    ASSUME NEW p, NEW c, Good(p, c), p.state \in Running \ Transient
    PROVE  LET q == WaitDeadEnd(p)
           IN  /\ Good(q, c)
               /\ q.state \in Running \ (Transient \ {"PM_NO_CHILDREN"})
               /\ q.state = "PM_STARTUP" => p.state = "PM_STARTUP"
               /\ q.Shutdown = p.Shutdown /\ q.FatalError = p.FatalError
<1> DEFINE q == WaitDeadEnd(p)
<1> HIDE DEF q
<1>1. CASE ~(p.state = "PM_WAIT_DEAD_END" /\ Gone(p, BackendList \cup {"stats"}))
  BY <1>1 DEF WaitDeadEnd
<1>2. CASE p.state = "PM_WAIT_DEAD_END" /\ Gone(p, BackendList \cup {"stats"})
  <2>1. q = [p EXCEPT !.state = "PM_NO_CHILDREN"]
    BY <1>2 DEF q, WaitDeadEnd
  <2>2. "PM_NO_CHILDREN" \in Running \cup Exited
    BY DEF Running
  <2>3. /\ IsState(q) /\ q.state = "PM_NO_CHILDREN" /\ q.Shutdown = p.Shutdown
        /\ q.FatalError = p.FatalError /\ q.proc = p.proc /\ q.told = p.told
    BY <2>1, <2>2, StateFacts DEF Good
  <2>4. DeadEnds \subseteq BackendList
    BY DEF BackendList
  <2>5. Gone(q, Procs)
    <3>1. Gone(p, Writers) /\ Gone(p, {"checkpointer"})
      BY <1>2 DEF Good, Children
    <3> QED
      BY <1>2, <2>3, <2>4, <3>1, ProcsFacts DEF Gone
  <2>6. Reason(q) /\ Children(q) /\ Checkpointing(q, c) /\ Told(q)
    BY <2>3, <2>5, <1>2 DEF Good, Reason, Children, Checkpointing, Told, Exited
  <2> QED
    BY <2>3, <2>6 DEF Good, Running, Transient, q
<1> QED
  BY <1>1, <1>2

LEMMA NoChildrenGood ==
    ASSUME NEW p, NEW c, Good(p, c), NEW forks,
           p.state \in Running \ (Transient \ {"PM_NO_CHILDREN"})
    PROVE  LET q == NoChildren(p, forks)
           IN  /\ Good(q, c) /\ q.state \in (Running \ Transient) \cup Exited
               /\ q.state = "PM_STARTUP" =>
                     \/ p.state = "PM_STARTUP"
                     \/ Restarted(q)
               /\ q.Shutdown = p.Shutdown /\ q.FatalError = p.FatalError
<1> DEFINE q == NoChildren(p, forks)
<1> HIDE DEF q
<1>0. /\ IsState(p) /\ p.FatalError \in BOOLEAN
      /\ "normal" \in Running \cup Exited /\ "exit 1" \in Running \cup Exited
      /\ "PM_STARTUP" \in Running \cup Exited
  BY DEF Good, IsState, PState, Running, Exited
<1>1. CASE p.state # "PM_NO_CHILDREN"
  BY <1>1 DEF NoChildren, Transient
<1>2. p.state = "PM_NO_CHILDREN" => p.Shutdown # "no" \/ p.FatalError
  BY DEF Good, Reason
<1>3. ASSUME q = [p EXCEPT !.state = "exit 1"]
      PROVE  /\ Good(q, c) /\ q.state = "exit 1"
             /\ q.Shutdown = p.Shutdown /\ q.FatalError = p.FatalError
  <2>1. /\ IsState(q) /\ q.state = "exit 1" /\ q.Shutdown = p.Shutdown
        /\ q.FatalError = p.FatalError
    BY <1>0, <1>3, StateFacts
  <2> QED
    BY <2>1, ExitGood DEF Exited
<1>4. CASE p.state = "PM_NO_CHILDREN" /\ p.Shutdown # "no" /\ p.FatalError
  <2>1. q = [p EXCEPT !.state = "exit 1"]
    BY <1>4 DEF q, NoChildren
  <2> QED
    BY <1>3, <2>1 DEF q, Exited
<1>5. CASE p.state = "PM_NO_CHILDREN" /\ p.Shutdown # "no" /\ ~p.FatalError
  <2>1. q = [p EXCEPT !.state = "normal"]
    BY <1>5 DEF q, NoChildren
  <2>2. /\ IsState(q) /\ q.state = "normal" /\ q.Shutdown = p.Shutdown
        /\ q.FatalError = p.FatalError /\ q.proc = p.proc /\ q.told = p.told
    BY <1>0, <2>1, StateFacts
  <2>3. Reason(q) /\ Children(q) /\ Checkpointing(q, c) /\ Told(q)
    BY <1>5, <2>2 DEF Good, Reason, Children, Checkpointing, Told, Gone, Exited
  <2> QED
    BY <2>2, <2>3 DEF Good, q, Exited
<1>6. CASE p.state = "PM_NO_CHILDREN" /\ p.Shutdown = "no" /\ "startup" \notin forks
  <2>1. q = [p EXCEPT !.state = "exit 1"]
    BY <1>2, <1>6 DEF q, NoChildren
  <2> QED
    BY <1>3, <2>1 DEF q, Exited
<1>7. CASE p.state = "PM_NO_CHILDREN" /\ p.Shutdown = "no" /\ "startup" \in forks
  <2> DEFINE t == StartMissing(p, {"startup"}, forks)
  <2>1. q = [t EXCEPT !.state = "PM_STARTUP"]
    BY <1>2, <1>7 DEF q, NoChildren
  <2>2. /\ IsState(t) /\ t.state = p.state /\ t.Shutdown = p.Shutdown
        /\ t.FatalError = p.FatalError /\ t.told = p.told
        /\ \A k \in Procs : t.proc[k] =
              IF k \in {"startup"} /\ k \in forks /\ p.proc[k] = "none"
                THEN "run" ELSE p.proc[k]
    <3>1. IsState(p)
      BY <1>0
    <3> QED
      BY <3>1, StartFacts
  <2> HIDE DEF t
  <2>3. /\ IsState(q) /\ q.state = "PM_STARTUP" /\ q.Shutdown = p.Shutdown
        /\ q.FatalError = p.FatalError /\ q.proc = t.proc /\ q.told = p.told
    BY <1>0, <2>1, <2>2, StateFacts
  <2>4. \A k \in Procs : p.proc[k] = "none" /\ p.told[k] = {}
    BY <1>0, <1>7 DEF Good, Children, Gone, IsState
  <2>5. "startup" \in Procs /\ "checkpointer" \in Procs
    BY ProcsFacts
  <2>6. /\ q.proc["startup"] = "run"
        /\ \A k \in Procs : q.proc[k] # "none" => k = "startup"
        /\ q.told["checkpointer"] = {} /\ q.proc["checkpointer"] = "none"
    BY <1>7, <2>2, <2>3, <2>4, <2>5
  <2>7. Reason(q) /\ Told(q) /\ Checkpointing(q, c)
    BY <2>3, <2>6 DEF Reason, Told, Checkpointing
  <2>8. Children(q)
    BY <2>3, <2>6 DEF Children, Gone
  <2> QED
    BY <2>3, <2>6, <2>7, <2>8 DEF Good, Running, Transient, Restarted, q
<1> QED
  BY <1>0, <1>1, <1>4, <1>5, <1>6, <1>7

LEMMA MachineGood ==
    ASSUME NEW p, NEW c, Good(p, c), p.state \in Running \ {"PM_NO_CHILDREN"},
           NEW forks
    PROVE  LET q == PostmasterStateMachine(p, forks)
           IN  /\ Good(q, c) /\ q.state \in (Running \ Transient) \cup Exited
               /\ q.state = "PM_STARTUP" =>
                     \/ p.state = "PM_STARTUP"
                     \/ Restarted(q)
               /\ q.Shutdown = p.Shutdown /\ (p.FatalError => q.FatalError)
<1> DEFINE a == WaitBackup(p)
           b == WaitReadonly(a)
           d == WaitBackends(b, forks)
           e == WaitShutdown2(d)
           f == WaitDeadEnd(e)
           q == NoChildren(f, forks)
<1>0. PostmasterStateMachine(p, forks) = q
  BY DEF PostmasterStateMachine
<1>1. /\ Good(a, c) /\ a.state \in Running \ {"PM_NO_CHILDREN", "PM_WAIT_BACKUP"}
      /\ a.state = "PM_STARTUP" => p.state = "PM_STARTUP"
      /\ a.Shutdown = p.Shutdown /\ a.FatalError = p.FatalError
  BY WaitBackupGood
<1> HIDE DEF a
<1>2. /\ Good(b, c) /\ b.state \in Running \ Transient
      /\ b.state = "PM_STARTUP" => a.state = "PM_STARTUP"
      /\ b.Shutdown = a.Shutdown /\ b.FatalError = a.FatalError
  BY <1>1, WaitReadonlyGood
<1> HIDE DEF b
<1>3. /\ Good(d, c) /\ d.state \in Running \ Transient
      /\ d.state = "PM_STARTUP" => b.state = "PM_STARTUP"
      /\ d.Shutdown = b.Shutdown /\ (b.FatalError => d.FatalError)
  BY <1>2, WaitBackendsGood
<1> HIDE DEF d
<1>4. /\ Good(e, c) /\ e.state \in Running \ Transient
      /\ e.state = "PM_STARTUP" => d.state = "PM_STARTUP"
      /\ e.Shutdown = d.Shutdown /\ e.FatalError = d.FatalError
  BY <1>3, WaitShutdown2Good
<1> HIDE DEF e
<1>5. /\ Good(f, c) /\ f.state \in Running \ (Transient \ {"PM_NO_CHILDREN"})
      /\ f.state = "PM_STARTUP" => e.state = "PM_STARTUP"
      /\ f.Shutdown = e.Shutdown /\ f.FatalError = e.FatalError
  BY <1>4, WaitDeadEndGood
<1> HIDE DEF f
<1>6. /\ Good(q, c) /\ q.state \in (Running \ Transient) \cup Exited
      /\ q.state = "PM_STARTUP" =>
            \/ f.state = "PM_STARTUP"
            \/ Restarted(q)
      /\ q.Shutdown = f.Shutdown /\ q.FatalError = f.FatalError
  BY <1>5, NoChildrenGood
<1> HIDE DEF q
<1> QED
  BY <1>0, <1>1, <1>2, <1>3, <1>4, <1>5, <1>6

-----------------------------------------------------------------------------
(* pmdie, and the ends of children.                                        *)

LEMMA ShutdownFacts ==
    ASSUME NEW p, NEW c, Good(p, c), NEW m \in {"smart", "fast"}
    PROVE  LET q == [p EXCEPT !.Shutdown = m]
           IN  /\ Good(q, c) /\ q.Shutdown = m /\ q.state = p.state
               /\ q.FatalError = p.FatalError
<1> DEFINE q == [p EXCEPT !.Shutdown = m]
<1>1. /\ IsState(q) /\ q.Shutdown = m /\ q.state = p.state
      /\ q.FatalError = p.FatalError /\ q.proc = p.proc /\ q.told = p.told
  BY DEF Good, IsState, PState
<1> HIDE DEF q
<1>2. Reason(q) /\ Children(q)
  BY <1>1 DEF Good, Reason, Children, Gone
<1>3. Checkpointing(q, c) /\ Told(q)
  BY <1>1 DEF Good, Checkpointing, Told
<1> QED
  BY <1>1, <1>2, <1>3 DEF Good, q

LEMMA SmartGood ==
    ASSUME NEW p, NEW c, Good(p, c), p.state \in Running \ Transient
    PROVE  LET q == Smart(p)
           IN  /\ Good(q, c) /\ q.state \in Running \ {"PM_NO_CHILDREN", "PM_STARTUP"}
               /\ q.Shutdown = "smart" /\ q.FatalError = p.FatalError
<1> DEFINE q == Smart(p)
           t == Signal(p, Workers \cup {"autovac", "bgwriter", "walwriter"}, "SIGTERM")
           u == [t EXCEPT !.Shutdown = "smart"]
<1> HIDE DEF q
<1>1. CASE p.state \notin {"PM_RUN", "PM_STARTUP"}
  <2>1. q = [p EXCEPT !.Shutdown = "smart"]
    BY <1>1 DEF q, Smart
  <2> QED
    BY <2>1, <1>1, ShutdownFacts DEF Transient, q
<1>2. CASE p.state \in {"PM_RUN", "PM_STARTUP"}
  <2>0. "SIGTERM" \in Signals /\ IsState(p)
    BY DEF Signals, Good
  <2>1. Good(t, c) /\ t.state = p.state /\ t.FatalError = p.FatalError
    BY <2>0, SignalGood, SignalFacts
  <2> HIDE DEF t
  <2>2. /\ Good(u, c) /\ u.state = p.state /\ u.FatalError = p.FatalError
        /\ u.Shutdown = "smart"
    BY <2>1, ShutdownFacts
  <2> HIDE DEF u
  <2> DEFINE st == IF p.state = "PM_RUN" THEN "PM_WAIT_BACKUP" ELSE "PM_WAIT_READONLY"
  <2>3. q = [u EXCEPT !.state = st]
    <3>1. q = [t EXCEPT !.Shutdown = "smart",
                  !.state = IF @ = "PM_RUN" THEN "PM_WAIT_BACKUP"
                                            ELSE "PM_WAIT_READONLY"]
      BY <1>2 DEF q, t, Smart
    <3>2. u.state = t.state
      BY <2>1, <2>2
    <3> QED
      BY <3>1, <3>2, <2>1 DEF u, Good, IsState, PState
  <2>4. st \in Running \cup Exited
    BY DEF Running
  <2>5. /\ IsState(q) /\ q.state = st /\ q.Shutdown = "smart"
        /\ q.FatalError = p.FatalError /\ q.proc = u.proc /\ q.told = u.told
    BY <2>2, <2>3, <2>4, StateFacts DEF Good
  <2>6. CASE p.state = "PM_RUN"
    <3>1. q.state = "PM_WAIT_BACKUP"
      BY <2>5, <2>6
    <3>2. Reason(q) /\ Children(q) /\ Checkpointing(q, c) /\ Told(q)
      BY <3>1, <2>2, <2>5, <2>6
      DEF Good, Reason, Children, Gone, Checkpointing, Told, Exited
    <3> QED
      BY <3>1, <3>2, <2>5 DEF Good, Running, q
  <2>7. CASE p.state = "PM_STARTUP"
    <3>1. q.state = "PM_WAIT_READONLY"
      BY <2>5, <2>7
    <3>2. Reason(q) /\ Children(q) /\ Checkpointing(q, c) /\ Told(q)
      BY <3>1, <2>2, <2>5, <2>7
      DEF Good, Reason, Children, Gone, Checkpointing, Told, Exited
    <3> QED
      BY <3>1, <3>2, <2>5 DEF Good, Running, q
  <2> QED
    BY <1>2, <2>6, <2>7
<1> QED
  BY <1>1, <1>2

LEMMA FastGood ==
    ASSUME NEW p, NEW c, Good(p, c), p.state \in Running \ Transient
    PROVE  LET q == Fast(p)
           IN  /\ Good(q, c) /\ q.state \in Running \ {"PM_NO_CHILDREN"}
               /\ q.state = "PM_STARTUP" => p.state = "PM_STARTUP"
               /\ q.Shutdown = "fast" /\ q.FatalError = p.FatalError
<1> DEFINE q == Fast(p)
           t == Signal(p, {"startup", "bgwriter"}, "SIGTERM")
           u == Signal(t, Backends \cup {"autovac", "walwriter"}, "SIGTERM")
           v == [u EXCEPT !.Shutdown = "fast"]
<1> HIDE DEF q
<1>0. "SIGTERM" \in Signals /\ IsState(p)
  BY DEF Signals, Good
<1>1. Good(t, c) /\ t.state = p.state /\ t.FatalError = p.FatalError
  BY <1>0, SignalGood, SignalFacts
<1> HIDE DEF t
<1>2. CASE p.state \notin {"PM_RUN", "PM_WAIT_BACKENDS"}
  <2>1. q = [t EXCEPT !.Shutdown = "fast"]
    BY <1>2 DEF q, t, Fast, Transient
  <2> QED
    BY <2>1, <1>1, <1>2, ShutdownFacts DEF Transient, q
<1>3. CASE p.state \in {"PM_RUN", "PM_WAIT_BACKENDS"}
  <2>0. IsState(t)
    BY <1>1 DEF Good
  <2>1. Good(u, c) /\ u.state = p.state /\ u.FatalError = p.FatalError
    BY <2>0, <1>0, <1>1, SignalGood, SignalFacts
  <2> HIDE DEF u
  <2>2. /\ Good(v, c) /\ v.state = p.state /\ v.FatalError = p.FatalError
        /\ v.Shutdown = "fast"
    BY <2>1, ShutdownFacts
  <2> HIDE DEF v
  <2>3. q = [v EXCEPT !.state = "PM_WAIT_BACKENDS"]
    <3>1. q = [u EXCEPT !.Shutdown = "fast", !.state = "PM_WAIT_BACKENDS"]
      BY <1>3 DEF q, t, u, Fast
    <3> QED
      BY <3>1 DEF v
  <2>4. "PM_WAIT_BACKENDS" \in Running \cup Exited
    BY DEF Running
  <2>5. /\ IsState(q) /\ q.state = "PM_WAIT_BACKENDS" /\ q.Shutdown = "fast"
        /\ q.FatalError = p.FatalError /\ q.proc = v.proc /\ q.told = v.told
    BY <2>2, <2>3, <2>4, StateFacts DEF Good
  <2>6. Reason(q) /\ Children(q) /\ Checkpointing(q, c) /\ Told(q)
    BY <1>3, <2>2, <2>5
    DEF Good, Reason, Children, Gone, Checkpointing, Told, Exited
  <2> QED
    BY <2>5, <2>6 DEF Good, Running, q
<1> QED
  BY <1>2, <1>3

LEMMA ImmediateGood ==
    ASSUME NEW p, NEW c, Good(p, c)
    PROVE  LET q == Immediate(p)
           IN  /\ Good(q, c) /\ q.state = "immediate"
               /\ q.Shutdown = p.Shutdown /\ q.FatalError = p.FatalError
<1> DEFINE q == Immediate(p)
           t == Signal(p, Backends \cup Special, "SIGQUIT")
<1> HIDE DEF q
<1>0. "SIGQUIT" \in Signals /\ IsState(p) /\ "immediate" \in Running \cup Exited
  BY DEF Signals, Good, Exited
<1>1. IsState(t) /\ t.Shutdown = p.Shutdown /\ t.FatalError = p.FatalError
  BY <1>0, SignalFacts
<1> HIDE DEF t
<1>2. q = [t EXCEPT !.state = "immediate"]
  BY DEF q, t, Immediate
<1>3. /\ IsState(q) /\ q.state = "immediate" /\ q.Shutdown = p.Shutdown
      /\ q.FatalError = p.FatalError
  BY <1>0, <1>1, <1>2, StateFacts
<1> QED
  BY <1>3, ExitGood DEF Exited, q

\* A child ends.  Only CheckpointerDone makes the checkpointer's status 0.
LEMMA EndGood ==
    ASSUME NEW p, NEW c, Good(p, c), NEW k \in Procs, p.proc[k] = "run",
           NEW status \in Statuses, NEW d, c => d \/ k = "startup",
           k = "checkpointer" /\ status = "exit 0" =>
              d /\ "SIGUSR2" \in p.told["checkpointer"]
    PROVE  LET q == [p EXCEPT !.proc[k] = status, !.told[k] = {}]
           IN  /\ Good(q, d) /\ q.state = p.state
               /\ q.Shutdown = p.Shutdown /\ q.FatalError = p.FatalError
<1> DEFINE q == [p EXCEPT !.proc[k] = status, !.told[k] = {}]
<1>0. "checkpointer" \in Procs
  BY ProcsFacts
<1>1. /\ IsState(q) /\ q.state = p.state /\ q.Shutdown = p.Shutdown
      /\ q.FatalError = p.FatalError
      /\ q.proc[k] = status /\ q.told[k] = {}
      /\ \A j \in Procs \ {k} : q.proc[j] = p.proc[j] /\ q.told[j] = p.told[j]
  BY DEF Good, IsState, PState
<1> HIDE DEF q
<1>2. status # "none" /\ status # "run"
  BY DEF Statuses
<1>3. /\ \A j \in Procs : q.proc[j] = "none" <=> p.proc[j] = "none"
      /\ \A j \in Procs : q.proc[j] = "run" =>
            p.proc[j] = "run" /\ q.told[j] = p.told[j]
  BY <1>1, <1>2
<1>4. Reason(q)
  BY <1>1 DEF Good, Reason
<1>5. Children(q)
  <2>1. \A ks \in SUBSET Procs : Gone(q, ks) <=> Gone(p, ks)
    BY <1>3 DEF Gone
  <2>2. /\ Procs \ (DeadEnds \cup {"startup"}) \in SUBSET Procs
        /\ {"startup"} \in SUBSET Procs /\ {"checkpointer"} \in SUBSET Procs
        /\ Writers \in SUBSET Procs /\ Procs \in SUBSET Procs /\ "startup" \in Procs
    BY ProcsFacts
  <2> QED
    BY <1>1, <1>3, <2>1, <2>2 DEF Good, Children
<1>6. Checkpointing(q, d)
  <2>1. CASE k = "checkpointer"
    BY <2>1, <1>1 DEF Good, Checkpointing
  <2>2. CASE k \notin {"checkpointer", "startup"}
    BY <2>2, <1>0, <1>1 DEF Good, Checkpointing
  <2>3. CASE k = "startup"
    <3>1. "startup" \in Writers /\ "startup" \in Procs
      BY ProcsFacts
    <3>2. p.state \notin {"PM_SHUTDOWN", "PM_SHUTDOWN_2", "PM_WAIT_DEAD_END",
                         "PM_NO_CHILDREN", "normal"}
      BY <2>3, <3>1 DEF Good, Children, Gone
    <3> QED
      BY <2>3, <3>2, <1>0, <1>1 DEF Good, Checkpointing
  <2> QED
    BY <2>1, <2>2, <2>3
<1>7. Told(q)
  <2>1. Special \cup Backends \subseteq Procs
    BY ProcsFacts
  <2> QED
    BY <2>1, <1>1, <1>3 DEF Good, Told
<1> QED
  BY <1>1, <1>4, <1>5, <1>6, <1>7 DEF Good, q

-----------------------------------------------------------------------------
(* While recovery is in progress, no handler starts a process that writes   *)
(* WAL, but for a new startup process.                                      *)

Quiet(p, q) ==
    /\ \A k \in Writers : \/ q.proc[k] \in {p.proc[k], "none"}
                          \/ k = "startup" /\ q.proc[k] = "run"
    /\ q.state \in {"PM_RUN", "PM_WAIT_BACKUP"} =>
          p.state \in {"PM_RUN", "PM_WAIT_BACKUP"}

LEMMA QuietFresh ==
    ASSUME NEW p, NEW q, Fresh(p), Quiet(p, q) PROVE Fresh(q)
<1>1. "startup" \in Writers
  BY ProcsFacts
<1> QED
  BY <1>1 DEF Fresh, Quiet, Gone

LEMMA QuietChain ==
    ASSUME NEW p, NEW q, NEW r, Quiet(p, q), Quiet(q, r) PROVE Quiet(p, r)
  BY DEF Quiet

\* The parts of PostmasterStateMachine.
LEMMA QuietParts ==
    ASSUME NEW p, IsState(p), NEW forks
    PROVE  /\ Quiet(p, WaitBackup(p)) /\ Quiet(p, WaitReadonly(p))
           /\ Quiet(p, WaitBackends(p, forks)) /\ Quiet(p, WaitShutdown2(p))
           /\ Quiet(p, WaitDeadEnd(p)) /\ Quiet(p, NoChildren(p, forks))
<1>0. /\ Writers \subseteq Procs /\ "checkpointer" \notin Writers
      /\ {"SIGTERM", "SIGQUIT", "SIGUSR2"} \subseteq Signals
      /\ {"PM_WAIT_BACKENDS", "PM_WAIT_DEAD_END", "PM_NO_CHILDREN", "PM_SHUTDOWN",
          "PM_STARTUP", "normal", "exit 1"} \subseteq Running \cup Exited
      /\ {"PM_WAIT_BACKENDS", "PM_WAIT_DEAD_END", "PM_NO_CHILDREN", "PM_SHUTDOWN",
          "PM_STARTUP", "normal", "exit 1"} \cap {"PM_RUN", "PM_WAIT_BACKUP"} = {}
  BY ProcsFacts DEF Signals, Running, Exited
<1>1. Quiet(p, p)
  BY DEF Quiet
<1>2. ASSUME NEW q, IsState(q), NEW r, r.proc = q.proc,
             \A k \in Writers : \/ q.proc[k] = p.proc[k]
                                \/ k = "startup" /\ q.proc[k] = "run",
             r.state \notin {"PM_RUN", "PM_WAIT_BACKUP"}
      PROVE  Quiet(p, r)
  BY <1>2 DEF Quiet
<1>3. ASSUME NEW q, IsState(q),
             \A k \in Writers : \/ q.proc[k] = p.proc[k]
                                \/ k = "startup" /\ q.proc[k] = "run",
             NEW st \in {"PM_WAIT_BACKENDS", "PM_WAIT_DEAD_END", "PM_NO_CHILDREN",
                         "PM_SHUTDOWN", "PM_STARTUP", "normal", "exit 1"}
      PROVE  Quiet(p, [q EXCEPT !.state = st])
  <2> DEFINE r == [q EXCEPT !.state = st]
  <2>1. r.proc = q.proc /\ r.state = st
    BY <1>0, <1>3, StateFacts
  <2> HIDE DEF r
  <2>2. Quiet(p, r)
    BY <1>0, <1>2, <1>3, <2>1
  <2> QED
    BY <2>2 DEF r
<1>4. Quiet(p, WaitBackup(p)) /\ Quiet(p, WaitShutdown2(p)) /\ Quiet(p, WaitDeadEnd(p))
  BY <1>1, <1>3 DEF WaitBackup, WaitShutdown2, WaitDeadEnd
<1>5. Quiet(p, WaitReadonly(p))
  <2> DEFINE t == Signal(p, {"startup"}, "SIGTERM")
  <2>1. IsState(t) /\ t.proc = p.proc
    BY <1>0, SignalFacts
  <2>2. WaitReadonly(p) \in {p, [t EXCEPT !.state = "PM_WAIT_BACKENDS"]}
    BY DEF WaitReadonly
  <2> HIDE DEF t
  <2> QED
    BY <1>1, <1>3, <2>1, <2>2
<1>6. Quiet(p, WaitBackends(p, forks))
  <2> DEFINE u == StartMissing(p, {"checkpointer"}, forks)
             v == Signal(u, {"checkpointer"}, "SIGUSR2")
             w == Signal(u, Backends \cup {"stats"}, "SIGQUIT")
  <2>0. /\ IsState(u)
        /\ \A k \in Procs : u.proc[k] =
              IF k \in {"checkpointer"} /\ k \in forks /\ p.proc[k] = "none"
                THEN "run" ELSE p.proc[k]
    BY StartFacts
  <2>2. /\ WaitBackends(p, forks) \in
              {p, [p EXCEPT !.state = "PM_WAIT_DEAD_END"],
               [v EXCEPT !.state = "PM_SHUTDOWN"]}
           \/ WaitBackends(p, forks) =
                [w EXCEPT !.FatalError = TRUE, !.state = "PM_WAIT_DEAD_END"]
    BY DEF WaitBackends
  <2> HIDE DEF u
  <2>1. \A k \in Writers : u.proc[k] = p.proc[k]
    BY <1>0, <2>0
  <2>3. /\ IsState(v) /\ v.proc = u.proc
        /\ IsState(w) /\ w.proc = u.proc
    <3>1. "SIGUSR2" \in Signals /\ "SIGQUIT" \in Signals
      BY <1>0
    <3> QED
      BY <2>0, <3>1, SignalFacts
  <2> HIDE DEF v, w
  <2> DEFINE x == [w EXCEPT !.FatalError = TRUE, !.state = "PM_WAIT_DEAD_END"]
  <2>4. x.proc = w.proc /\ x.state = "PM_WAIT_DEAD_END"
    BY <2>3 DEF IsState, PState
  <2> HIDE DEF x
  <2>5. Quiet(p, x)
    BY <1>2, <2>1, <2>3, <2>4
  <2>6. /\ Quiet(p, [p EXCEPT !.state = "PM_WAIT_DEAD_END"])
        /\ Quiet(p, [v EXCEPT !.state = "PM_SHUTDOWN"])
    BY <1>3, <2>1, <2>3
  <2> QED
    BY <1>1, <2>2, <2>5, <2>6 DEF x
<1>7. Quiet(p, NoChildren(p, forks))
  <2> DEFINE t == StartMissing(p, {"startup"}, forks)
  <2>0. /\ IsState(t)
        /\ \A k \in Procs : t.proc[k] =
              IF k \in {"startup"} /\ k \in forks /\ p.proc[k] = "none"
                THEN "run" ELSE p.proc[k]
    BY StartFacts
  <2>2. NoChildren(p, forks) \in {p, [p EXCEPT !.state = "exit 1"],
                                  [p EXCEPT !.state = "normal"],
                                  [t EXCEPT !.state = "PM_STARTUP"]}
    BY DEF NoChildren
  <2> HIDE DEF t
  <2>1. \A k \in Writers : \/ t.proc[k] = p.proc[k]
                           \/ k = "startup" /\ t.proc[k] = "run"
    BY <1>0, <2>0
  <2>3. /\ Quiet(p, [p EXCEPT !.state = "exit 1"])
        /\ Quiet(p, [p EXCEPT !.state = "normal"])
        /\ Quiet(p, [t EXCEPT !.state = "PM_STARTUP"])
    BY <1>3, <2>0, <2>1
  <2> QED
    BY <1>1, <2>2, <2>3
<1> QED
  BY <1>4, <1>5, <1>6, <1>7

LEMMA QuietMachine ==
    ASSUME NEW p, NEW c, Good(p, c), p.state \in Running \ {"PM_NO_CHILDREN"},
           NEW forks
    PROVE  Quiet(p, PostmasterStateMachine(p, forks))
<1> DEFINE a == WaitBackup(p)
           b == WaitReadonly(a)
           d == WaitBackends(b, forks)
           e == WaitShutdown2(d)
           f == WaitDeadEnd(e)
           q == NoChildren(f, forks)
<1>0. PostmasterStateMachine(p, forks) = q /\ IsState(p)
  BY DEF PostmasterStateMachine, Good
<1>1. /\ Good(a, c) /\ a.state \in Running \ {"PM_NO_CHILDREN", "PM_WAIT_BACKUP"}
      /\ IsState(a) /\ Quiet(p, a)
  BY <1>0, WaitBackupGood, QuietParts DEF Good
<1> HIDE DEF a
<1>2. Good(b, c) /\ b.state \in Running \ Transient /\ IsState(b) /\ Quiet(a, b)
  BY <1>1, WaitReadonlyGood, QuietParts DEF Good
<1> HIDE DEF b
<1>3. Good(d, c) /\ d.state \in Running \ Transient /\ IsState(d) /\ Quiet(b, d)
  BY <1>2, WaitBackendsGood, QuietParts DEF Good
<1> HIDE DEF d
<1>4. Good(e, c) /\ e.state \in Running \ Transient /\ IsState(e) /\ Quiet(d, e)
  BY <1>3, WaitShutdown2Good, QuietParts DEF Good
<1> HIDE DEF e
<1>5. Good(f, c) /\ IsState(f) /\ Quiet(e, f)
  BY <1>4, WaitDeadEndGood, QuietParts DEF Good
<1> HIDE DEF f
<1>6. Quiet(f, q)
  BY <1>5, QuietParts
<1> HIDE DEF q
<1> QED
  BY <1>0, <1>1, <1>2, <1>3, <1>4, <1>5, <1>6, QuietChain

LEMMA QuietForget ==
    ASSUME NEW p, IsState(p), NEW j \in Procs
    PROVE  LET q == Forget(p, j)
           IN  IsState(q) /\ q.state = p.state /\ Quiet(p, q)
<1> DEFINE q == Forget(p, j)
<1>1. /\ IsState(q) /\ q.state = p.state /\ q.proc[j] = "none"
      /\ \A i \in Procs \ {j} : q.proc[i] = p.proc[i]
  BY ForgetFacts
<1> HIDE DEF q
<1>2. Quiet(p, q)
  BY <1>1, ProcsFacts DEF Quiet
<1> QED
  BY <1>1, <1>2 DEF q

LEMMA QuietStart ==
    ASSUME NEW p, IsState(p), NEW ks, ks \cap Writers = {}, NEW forks
    PROVE  Quiet(p, StartMissing(p, ks, forks))
<1> DEFINE q == StartMissing(p, ks, forks)
<1>1. /\ q.state = p.state
      /\ \A k \in Procs : q.proc[k] =
            IF k \in ks /\ k \in forks /\ p.proc[k] = "none" THEN "run" ELSE p.proc[k]
  BY StartFacts
<1> HIDE DEF q
<1>2. \A k \in Writers : q.proc[k] = p.proc[k]
  BY <1>1, ProcsFacts
<1> QED
  BY <1>1, <1>2 DEF Quiet, q

\* reaper, but for a startup process that has finished.
LEMMA QuietReaped ==
    ASSUME NEW p, IsState(p), NEW k \in Procs, NEW forks,
           p.proc["startup"] # "exit 0"
    PROVE  Quiet(p, Reaped(p, k, forks))
<1>0. /\ Writers \subseteq Procs /\ "stats" \notin Writers
      /\ {"startup", "checkpointer", "stats"} \subseteq Procs
      /\ {"SIGQUIT", "SIGUSR2"} \subseteq Signals
      /\ {"PM_WAIT_BACKENDS", "exit 1", "PM_SHUTDOWN_2"} \subseteq Running \cup Exited
  BY ProcsFacts, ProcsAssumption DEF Signals, Running, Exited, Special, BackendList, Writers
<1>1. ASSUME NEW j \in Procs
      PROVE  LET q == Forget(p, j)
             IN  IsState(q) /\ q.state = p.state /\ Quiet(p, q)
  BY QuietForget
<1>2. ASSUME NEW j \in Procs PROVE Quiet(p, HandleChildCrash(p, j))
  <2> DEFINE q == Forget(p, j)
             t == IF p.FatalError THEN q ELSE Signal(q, Procs, "SIGQUIT")
             r == HandleChildCrash(p, j)
  <2>1. IsState(q) /\ q.state = p.state /\ Quiet(p, q)
    BY <1>1
  <2>2. r = [t EXCEPT !.FatalError = TRUE,
                !.state = IF @ \in {"PM_RUN", "PM_WAIT_BACKUP",
                                    "PM_WAIT_READONLY", "PM_SHUTDOWN"}
                            THEN "PM_WAIT_BACKENDS" ELSE @]
    BY DEF HandleChildCrash
  <2> HIDE DEF q, r
  <2>3. IsState(t) /\ t.state = q.state /\ t.proc = q.proc
    <3> DEFINE w == Signal(q, Procs, "SIGQUIT")
    <3>1. IsState(w) /\ w.state = q.state /\ w.proc = q.proc
      <4>1. "SIGQUIT" \in Signals
        BY <1>0
      <4> QED
        BY <2>1, <4>1, SignalFacts
    <3>2. t \in {q, w}
      OBVIOUS
    <3> HIDE DEF w, t
    <3> QED
      BY <2>1, <3>1, <3>2
  <2> HIDE DEF t
  <2>4. r.proc = q.proc /\ r.state \notin {"PM_RUN", "PM_WAIT_BACKUP"}
    BY <2>2, <2>3 DEF IsState, PState
  <2> QED
    BY <2>1, <2>4 DEF Quiet, r
<1>3. Quiet(p, ReapStartup(p, forks))
  <2> DEFINE q == Forget(p, "startup")
  <2>1. IsState(q) /\ Quiet(p, q)
    BY <1>0, <1>1
  <2>2. ReapStartup(p, forks) \in {[q EXCEPT !.state = "PM_WAIT_BACKENDS"],
                                   [q EXCEPT !.state = "exit 1"],
                                   HandleChildCrash(p, "startup")}
    BY DEF ReapStartup
  <2> HIDE DEF q
  <2>3. ASSUME NEW st \in {"PM_WAIT_BACKENDS", "exit 1"}
        PROVE  Quiet(p, [q EXCEPT !.state = st])
    <3> DEFINE r == [q EXCEPT !.state = st]
    <3>1. r.proc = q.proc /\ r.state = st
      BY <1>0, <2>1, StateFacts
    <3> HIDE DEF r
    <3>2. Quiet(p, r)
      BY <2>1, <3>1 DEF Quiet
    <3> QED
      BY <3>2 DEF r
  <2> QED
    BY <1>0, <1>2, <2>2, <2>3
<1>4. Quiet(p, ReapCheckpointer(p))
  <2> DEFINE q == Forget(p, "checkpointer")
             t == Signal(q, Backends, "SIGUSR2")
             u == Signal(t, {"stats"}, "SIGQUIT")
             r == [u EXCEPT !.state = "PM_SHUTDOWN_2"]
  <2>1. IsState(q) /\ Quiet(p, q)
    BY <1>0, <1>1
  <2>2. ReapCheckpointer(p) \in {r, HandleChildCrash(p, "checkpointer")}
    BY DEF ReapCheckpointer
  <2> HIDE DEF q
  <2>3. IsState(t) /\ t.proc = q.proc
    BY <1>0, <2>1, SignalFacts
  <2> HIDE DEF t
  <2>4. IsState(u) /\ u.proc = t.proc
    BY <1>0, <2>3, SignalFacts
  <2> HIDE DEF u
  <2>5. r.proc = u.proc /\ r.state = "PM_SHUTDOWN_2"
    BY <1>0, <2>4, StateFacts
  <2> HIDE DEF r
  <2>6. Quiet(p, r)
    BY <2>1, <2>3, <2>4, <2>5 DEF Quiet
  <2> QED
    BY <1>0, <1>2, <2>2, <2>6
<1>5. Quiet(p, ReapStats(p, forks))
  <2> DEFINE q == Forget(p, "stats")
             r == StartMissing(q, {"stats"}, forks)
  <2>1. IsState(q) /\ q.state = p.state /\ Quiet(p, q)
    BY <1>0, <1>1
  <2>2. ReapStats(p, forks) \in {q, r}
    BY DEF ReapStats
  <2> HIDE DEF q
  <2>3. {"stats"} \cap Writers = {}
    BY <1>0
  <2>4. Quiet(q, r)
    BY <2>1, <2>3, QuietStart
  <2> HIDE DEF r
  <2>5. Quiet(p, r)
    BY <2>1, <2>4, QuietChain
  <2> QED
    BY <2>1, <2>2, <2>5
<1>6. Quiet(p, ReapOther(p, k))
  BY <1>1, <1>2 DEF ReapOther
<1>7. Reaped(p, k, forks) \in {ReapStartup(p, forks), ReapCheckpointer(p),
                               ReapStats(p, forks), ReapOther(p, k)}
  BY DEF Reaped
<1> QED
  BY <1>3, <1>4, <1>5, <1>6, <1>7

\* pmdie.
LEMMA QuietPmdie ==
    ASSUME NEW p, IsState(p)
    PROVE  Quiet(p, Smart(p)) /\ Quiet(p, Fast(p)) /\ Quiet(p, Immediate(p))
<1>0. {"SIGTERM", "SIGQUIT"} \subseteq Signals
  BY DEF Signals
<1>1. ASSUME NEW q, q.proc = p.proc,
             q.state \in {"PM_RUN", "PM_WAIT_BACKUP"} =>
                p.state \in {"PM_RUN", "PM_WAIT_BACKUP"}
      PROVE  Quiet(p, q)
  BY <1>1 DEF Quiet
<1>2. Smart(p).proc = p.proc /\ Quiet(p, Smart(p))
  <2> DEFINE t == Signal(p, Workers \cup {"autovac", "bgwriter", "walwriter"}, "SIGTERM")
             q == Smart(p)
  <2>1. IsState(t) /\ t.proc = p.proc /\ t.state = p.state
    BY <1>0, SignalFacts
  <2>2. q = IF p.state \in {"PM_RUN", "PM_STARTUP"}
              THEN [t EXCEPT !.Shutdown = "smart",
                             !.state = IF @ = "PM_RUN" THEN "PM_WAIT_BACKUP"
                                                       ELSE "PM_WAIT_READONLY"]
              ELSE [p EXCEPT !.Shutdown = "smart"]
    BY DEF Smart
  <2> HIDE DEF t, q
  <2>3. /\ q.proc = p.proc
        /\ q.state \in {"PM_RUN", "PM_WAIT_BACKUP"} =>
              p.state \in {"PM_RUN", "PM_WAIT_BACKUP"}
    BY <2>1, <2>2 DEF IsState, PState
  <2> QED
    BY <1>1, <2>3 DEF q
<1>3. Quiet(p, Fast(p))
  <2> DEFINE t == Signal(p, {"startup", "bgwriter"}, "SIGTERM")
             u == Signal(t, Backends \cup {"autovac", "walwriter"}, "SIGTERM")
             q == Fast(p)
  <2>1. IsState(t) /\ t.proc = p.proc /\ t.state = p.state
    BY <1>0, SignalFacts
  <2>2. q \in {[u EXCEPT !.Shutdown = "fast", !.state = "PM_WAIT_BACKENDS"],
               [t EXCEPT !.Shutdown = "fast"]}
    BY DEF Fast
  <2> HIDE DEF t, q
  <2>3. IsState(u) /\ u.proc = t.proc
    BY <1>0, <2>1, SignalFacts
  <2> HIDE DEF u
  <2>4. /\ q.proc = p.proc
        /\ q.state \in {"PM_RUN", "PM_WAIT_BACKUP"} =>
              p.state \in {"PM_RUN", "PM_WAIT_BACKUP"}
    BY <2>1, <2>2, <2>3 DEF IsState, PState
  <2> QED
    BY <1>1, <2>4 DEF q
<1>4. Quiet(p, Immediate(p))
  <2> DEFINE t == Signal(p, Backends \cup Special, "SIGQUIT")
             q == Immediate(p)
  <2>1. IsState(t) /\ t.proc = p.proc
    BY <1>0, SignalFacts
  <2>2. q = [t EXCEPT !.state = "immediate"]
    BY DEF Immediate
  <2> HIDE DEF t, q
  <2>3. q.proc = p.proc /\ q.state = "immediate"
    BY <2>1, <2>2 DEF IsState, PState
  <2> QED
    BY <1>1, <2>3 DEF q
<1> QED
  BY <1>2, <1>3, <1>4

-----------------------------------------------------------------------------
(* The steps.                                                              *)

\* What the action properties and the refinement need to know of a step.
Progress ==
    /\ s.state \in Running /\ s'.state \in Running \cup Exited
    /\ s.Shutdown # "no" => s'.Shutdown # "no"
    /\ s.state # "PM_STARTUP" /\ s'.state = "PM_STARTUP" =>
          \A k \in Procs : s'.proc[k] # "none" => k = "startup"
    /\ s.FatalError /\ ~s'.FatalError =>
          s.proc["startup"] \in Statuses /\ Gone(s, Backends)

\* A writer that is alive voids the checkpoint only where none is promised.
LEMMA NowGood ==
    ASSUME IInv, NEW p, Good(p, Kept), p.state \in (Running \ Transient) \cup Exited,
           Now(p), reaping' \in BOOLEAN,
           Fresh(s) => Fresh(p),
           p.state = "PM_STARTUP" => s.state = "PM_STARTUP" \/ Restarted(p)
    PROVE  IInv' /\ s' = p
<1>1. s' = p /\ crashes' = crashes /\ ckpt' \in BOOLEAN /\ recovering' \in BOOLEAN
  BY DEF Now
<1>2. Gone(p, Writers) /\ Kept => Kept'
  <2>1. Gone(p, Writers) /\ ckpt => ckpt'
    BY DEF Now, Gone
  <2>2. recovering => recovering'
    BY DEF Now
  <2> QED
    BY <2>1, <2>2 DEF Kept
<1>3. p.state \in {"PM_NO_CHILDREN", "normal"} => Gone(p, Writers)
  BY ProcsFacts DEF Good, Children, Gone
<1>4. Checkpointing(p, Kept')
  BY <1>2, <1>3 DEF Good, Checkpointing, Children
<1>5. Good(s', Kept')
  BY <1>1, <1>4 DEF Good
<1>6. s'.state \notin Transient
  BY <1>1 DEF Transient, Exited
<1>7. recovering' => Fresh(s')
  <2>1. CASE recovering
    BY <1>1, <2>1 DEF IInv
  <2>2. CASE p.state = "PM_STARTUP" /\ s.state # "PM_STARTUP"
    <3>1. Writers \ {"startup"} \subseteq Procs
      BY ProcsFacts
    <3> QED
      BY <1>1, <2>2, <3>1 DEF Fresh, Restarted, Gone
  <2> QED
    BY <2>1, <2>2 DEF Now
<1> QED
  BY <1>1, <1>5, <1>6, <1>7 DEF IInv

LEMMA EndStep ==
    ASSUME IInv, NEW k \in Procs, NEW status \in Statuses, Ends(k, status),
           ckpt' \in BOOLEAN, ckpt => ckpt', crashes' \in 0 .. MaxCrashes,
           k = "checkpointer" /\ status = "exit 0" =>
              Kept' /\ "SIGUSR2" \in s.told["checkpointer"]
    PROVE  IInv' /\ Progress
<1>1. /\ s.state \in Running /\ s.proc[k] = "run" /\ reaping' = reaping
      /\ s' = [s EXCEPT !.proc[k] = status, !.told[k] = {}]
  BY DEF Ends
<1>2. /\ recovering' \in BOOLEAN /\ (recovering' => recovering)
      /\ recovering' => k # "startup" \/ status # "exit 0"
      /\ recovering => recovering' \/ k = "startup"
  BY DEF Ends, IInv
<1>3. Kept => Kept' \/ k = "startup"
  BY <1>2 DEF Kept
<1>4. /\ Good(s', Kept') /\ s'.state = s.state
      /\ s'.Shutdown = s.Shutdown /\ s'.FatalError = s.FatalError
  <2>1. Good(s, Kept)
    BY DEF IInv
  <2> DEFINE q == [s EXCEPT !.proc[k] = status, !.told[k] = {}]
  <2>2. /\ Good(q, Kept') /\ q.state = s.state
        /\ q.Shutdown = s.Shutdown /\ q.FatalError = s.FatalError
    BY <2>1, <1>1, <1>3, EndGood
  <2> QED
    BY <2>2, <1>1
<1>5. recovering' => Fresh(s')
  <2> SUFFICES ASSUME recovering' PROVE Fresh(s')
    OBVIOUS
  <2>1. Fresh(s) /\ (k # "startup" \/ status # "exit 0")
    BY <1>2 DEF IInv
  <2>2. k \notin Writers \ {"startup"}
    BY <1>1, <2>1 DEF Fresh, Gone
  <2>3. s'.proc[k] = status /\ \A j \in Procs \ {k} : s'.proc[j] = s.proc[j]
    BY <1>1 DEF IInv, Good, IsState, PState
  <2>4. "startup" \in Procs /\ Writers \subseteq Procs
    BY ProcsFacts
  <2> QED
    BY <1>4, <2>1, <2>2, <2>3, <2>4 DEF Fresh, Gone
<1> QED
  BY <1>1, <1>2, <1>4, <1>5 DEF IInv, Progress

LEMMA StateIsRunning ==
    ASSUME IInv, s.state \in Running
    PROVE  s.state \in Running \ Transient /\ Good(s, Kept)
  BY DEF IInv

LEMMA PmdieStep == ASSUME IInv, Pmdie PROVE IInv' /\ Progress
<1>0. /\ s.state \in Running \ Transient /\ Good(s, Kept) /\ s.state \in Running
      /\ reaping' \in BOOLEAN
  BY StateIsRunning DEF Pmdie, InLoop, IInv
<1>1. PICK forks \in SUBSET {"checkpointer", "startup"} :
          \/ s.Shutdown = "no" /\ Now(PostmasterStateMachine(Smart(s), forks))
          \/ s.Shutdown # "fast" /\ Now(PostmasterStateMachine(Fast(s), forks))
          \/ Now(Immediate(s))
  BY DEF Pmdie
<1>2. ASSUME NEW p, NEW q, p = PostmasterStateMachine(q, forks), Now(p),
             Good(q, Kept), q.state \in Running \ {"PM_NO_CHILDREN"},
             q.state = "PM_STARTUP" => s.state = "PM_STARTUP",
             q.Shutdown # "no", q.FatalError = s.FatalError, Quiet(s, q)
      PROVE  IInv' /\ Progress
  <2>1. /\ Good(p, Kept) /\ p.state \in (Running \ Transient) \cup Exited
        /\ p.state = "PM_STARTUP" =>
              \/ q.state = "PM_STARTUP"
              \/ Restarted(p)
        /\ p.Shutdown = q.Shutdown /\ (q.FatalError => p.FatalError)
    BY <1>2, MachineGood
  <2>2. Quiet(q, p)
    BY <1>2, QuietMachine
  <2>3. Fresh(s) => Fresh(p)
    BY <1>2, <2>2, QuietChain, QuietFresh
  <2>4. p.state = "PM_STARTUP" => s.state = "PM_STARTUP" \/ Restarted(p)
    BY <1>2, <2>1
  <2>5. IInv' /\ s' = p
    BY <2>1, <2>3, <2>4, <1>0, <1>2, NowGood
  <2> QED
    BY <2>1, <2>4, <2>5, <1>0, <1>2 DEF Progress, Restarted
<1>3. CASE s.Shutdown = "no" /\ Now(PostmasterStateMachine(Smart(s), forks))
  <2> DEFINE q == Smart(s)
  <2>1. /\ Good(q, Kept) /\ q.state \in Running \ {"PM_NO_CHILDREN", "PM_STARTUP"}
        /\ q.Shutdown = "smart" /\ q.FatalError = s.FatalError
    BY <1>0, SmartGood
  <2>3. Quiet(s, q)
    BY <1>0, QuietPmdie DEF Good
  <2> HIDE DEF q
  <2>2. Now(PostmasterStateMachine(q, forks))
    BY <1>3 DEF q
  <2> QED
    BY <2>1, <2>2, <2>3, <1>2
<1>4. CASE s.Shutdown # "fast" /\ Now(PostmasterStateMachine(Fast(s), forks))
  <2> DEFINE q == Fast(s)
  <2>1. /\ Good(q, Kept) /\ q.state \in Running \ {"PM_NO_CHILDREN"}
        /\ q.state = "PM_STARTUP" => s.state = "PM_STARTUP"
        /\ q.Shutdown = "fast" /\ q.FatalError = s.FatalError
    BY <1>0, FastGood
  <2>3. Quiet(s, q)
    BY <1>0, QuietPmdie DEF Good
  <2> HIDE DEF q
  <2>2. Now(PostmasterStateMachine(q, forks))
    BY <1>4 DEF q
  <2> QED
    BY <2>1, <2>2, <2>3, <1>2
<1>5. CASE Now(Immediate(s))
  <2> DEFINE q == Immediate(s)
  <2>1. /\ Good(q, Kept) /\ q.state = "immediate"
        /\ q.Shutdown = s.Shutdown /\ q.FatalError = s.FatalError
    BY <1>0, ImmediateGood
  <2>5. Fresh(s) => Fresh(q)
    BY <1>0, QuietPmdie, QuietFresh DEF Good
  <2> HIDE DEF q
  <2>2. q.state \in Exited
    BY <2>1 DEF Exited
  <2>3. Now(q)
    BY <1>5 DEF q
  <2>4. IInv' /\ s' = q
    BY <2>1, <2>2, <2>3, <2>5, <1>0, NowGood
  <2> QED
    BY <2>1, <2>2, <2>4, <1>0 DEF Progress
<1> QED
  BY <1>1, <1>3, <1>4, <1>5

LEMMA ReaperStep == ASSUME IInv, ReapOne \/ ReaperEnds PROVE IInv' /\ Progress
<1>0. /\ s.state \in Running \ Transient /\ Good(s, Kept) /\ s.state \in Running
      /\ reaping' \in BOOLEAN
  BY StateIsRunning DEF ReapOne, ReaperEnds, IInv
<1>1. CASE ReapOne
  <2>1. PICK k \in Dead : \E forks \in SUBSET Missing(k) : Now(Reaped(s, k, forks))
    BY <1>1 DEF ReapOne
  <2>2. PICK forks \in SUBSET Missing(k) : Now(Reaped(s, k, forks))
    BY <2>1
  <2> DEFINE p == Reaped(s, k, forks)
  <2>3. k \in Procs /\ s.proc[k] \in Statuses /\ "startup" \notin forks
    BY DEF Dead, Missing
  <2>4. /\ Good(p, Kept)
        /\ p.state \in (Running \ Transient) \cup Exited
        /\ p.state = "PM_STARTUP" => s.state = "PM_STARTUP"
        /\ p.Shutdown = s.Shutdown
        /\ s.FatalError /\ ~p.FatalError => k = "startup" /\ Gone(s, Backends)
    BY <2>3, <1>0, ReapedGood
  <2>5. Now(p)
    BY <2>2
  <2>7. Fresh(s) => Fresh(p)
    <3>1. Fresh(s) => s.proc["startup"] # "exit 0"
      BY DEF Fresh
    <3> QED
      BY <3>1, <2>3, <1>0, QuietReaped, QuietFresh DEF Good
  <2> HIDE DEF p
  <2>6. IInv' /\ s' = p
    BY <2>4, <2>5, <2>7, <1>0, NowGood
  <2> QED
    BY <2>3, <2>4, <2>6, <1>0 DEF Progress
<1>2. CASE ReaperEnds
  <2>1. PICK forks \in SUBSET {"checkpointer", "startup"} :
          Now(PostmasterStateMachine(s, forks))
    BY <1>2 DEF ReaperEnds
  <2> DEFINE p == PostmasterStateMachine(s, forks)
  <2>2. s.state \in Running \ {"PM_NO_CHILDREN"}
    BY <1>0 DEF Transient
  <2>3. /\ Good(p, Kept) /\ p.state \in (Running \ Transient) \cup Exited
        /\ p.state = "PM_STARTUP" =>
              \/ s.state = "PM_STARTUP"
              \/ Restarted(p)
        /\ p.Shutdown = s.Shutdown /\ (s.FatalError => p.FatalError)
    BY <2>2, <1>0, MachineGood
  <2>4. Now(p)
    BY <2>1
  <2>6. Fresh(s) => Fresh(p)
    BY <2>2, <1>0, QuietMachine, QuietFresh
  <2> HIDE DEF p
  <2>5. IInv' /\ s' = p
    BY <2>3, <2>4, <2>6, <1>0, NowGood
  <2> QED
    BY <2>3, <2>5, <1>0 DEF Progress, Restarted
<1> QED
  BY <1>1, <1>2

LEMMA LoopStep ==
    ASSUME IInv, ServerLoop \/ StartAutovacuumWorker PROVE IInv' /\ Progress
<1>0. /\ s.state \in Running \ Transient /\ Good(s, Kept) /\ s.state \in Running
      /\ reaping' \in BOOLEAN
  BY StateIsRunning DEF ServerLoop, StartAutovacuumWorker, InLoop, IInv
<1>1. ASSUME NEW p, Now(p), Good(p, Kept), p.state = s.state,
             p.Shutdown = s.Shutdown, p.FatalError = s.FatalError,
             \/ s.state \in {"PM_RUN", "PM_WAIT_BACKUP"}
             \/ \A k \in Writers : p.proc[k] = s.proc[k]
      PROVE  IInv' /\ Progress
  <2>1. Fresh(s) => Fresh(p)
    <3>1. "startup" \in Writers
      BY ProcsFacts
    <3> QED
      BY <1>1, <3>1 DEF Fresh, Gone
  <2>2. IInv' /\ s' = p
    BY <1>0, <1>1, <2>1, NowGood
  <2> QED
    BY <2>2, <1>0, <1>1 DEF Progress
<1>2. ASSUME NEW p, Good(p, Kept), NEW forks
      PROVE  LET q == Background(p, forks)
             IN  /\ Good(q, Kept) /\ q.state = p.state
                 /\ q.Shutdown = p.Shutdown /\ q.FatalError = p.FatalError
                 /\ p.state = "PM_RUN" \/ q.proc = p.proc
  <2> DEFINE ks == {"checkpointer", "bgwriter", "walwriter", "autovac", "stats"}
             q == Background(p, forks)
  <2> HIDE DEF q
  <2>1. CASE p.state = "PM_RUN"
    <3>1. q = StartMissing(p, ks, forks) /\ IsState(p) /\ "startup" \notin ks
      BY <2>1, <1>2 DEF q, Background, Good
    <3> HIDE DEF ks
    <3>2. Good(q, Kept)
      BY <3>1, <2>1, <1>2, StartGood
    <3> QED
      BY <3>1, <3>2, <2>1, StartFacts DEF q
  <2>2. CASE p.state # "PM_RUN"
    BY <2>2, <1>2 DEF Background
  <2> QED
    BY <2>1, <2>2
<1>3. ASSUME NEW b,
             \/ s.state \in {"PM_RUN", "PM_WAIT_BACKUP"} /\ b # "startup"
             \/ b \in DeadEnds
      PROVE  LET q == Connected(s, b)
             IN  /\ Good(q, Kept) /\ q.state = s.state
                 /\ q.Shutdown = s.Shutdown /\ q.FatalError = s.FatalError
                 /\ \/ s.state \in {"PM_RUN", "PM_WAIT_BACKUP"}
                    \/ \A k \in Writers : q.proc[k] = s.proc[k]
  <2> DEFINE q == Connected(s, b)
  <2>1. q = StartMissing(s, {b}, {b}) /\ IsState(s)
    BY <1>0 DEF Connected, Good
  <2>2. \/ s.state \in {"PM_RUN", "PM_WAIT_BACKUP"} /\ "startup" \notin {b}
        \/ s.state \in Running \ {"PM_NO_CHILDREN"} /\ {b} \subseteq DeadEnds
    BY <1>0, <1>3 DEF Transient
  <2> HIDE DEF q
  <2>3. Good(q, Kept)
    BY <2>1, <2>2, <1>0, StartGood
  <2>4. /\ q.state = s.state /\ q.Shutdown = s.Shutdown
        /\ q.FatalError = s.FatalError
        /\ \A k \in Procs : q.proc[k] =
              IF k \in {b} /\ k \in {b} /\ s.proc[k] = "none" THEN "run"
              ELSE s.proc[k]
    BY <2>1, StartFacts
  <2>5. Writers \subseteq Procs /\ Writers \cap DeadEnds = {}
    BY ProcsFacts
  <2>6. \/ s.state \in {"PM_RUN", "PM_WAIT_BACKUP"}
        \/ \A k \in Writers : q.proc[k] = s.proc[k]
    BY <1>3, <2>4, <2>5
  <2> QED
    BY <2>3, <2>4, <2>6 DEF q
<1>4. \A b \in Clients \cup Workers : b # "startup"
  BY ProcsAssumption DEF Special, BackendList, Backends
<1>5. CASE ServerLoop
  <2>1. PICK forks \in SUBSET Missing("startup") :
          \/ Now(Background(s, forks))
          \/ \E b \in IF canAcceptConnections(s) THEN Clients ELSE DeadEnds :
                Now(Background(Connected(s, b), forks))
    BY <1>5 DEF ServerLoop
  <2>2. CASE Now(Background(s, forks))
    BY <2>2, <1>0, <1>1, <1>2
  <2>3. ASSUME NEW b \in IF canAcceptConnections(s) THEN Clients ELSE DeadEnds,
               Now(Background(Connected(s, b), forks))
        PROVE  IInv' /\ Progress
    <3> DEFINE q == Connected(s, b)
    <3>1. \/ s.state \in {"PM_RUN", "PM_WAIT_BACKUP"} /\ b # "startup"
          \/ b \in DeadEnds
      BY <1>4 DEF canAcceptConnections
    <3>2. /\ Good(q, Kept) /\ q.state = s.state
          /\ q.Shutdown = s.Shutdown /\ q.FatalError = s.FatalError
          /\ \/ s.state \in {"PM_RUN", "PM_WAIT_BACKUP"}
             \/ \A k \in Writers : q.proc[k] = s.proc[k]
      BY <3>1, <1>3
    <3> HIDE DEF q
    <3>3. Now(Background(q, forks))
      BY <2>3 DEF q
    <3> QED
      BY <3>2, <3>3, <1>1, <1>2
  <2> QED
    BY <2>1, <2>2, <2>3
<1>6. CASE StartAutovacuumWorker
  <2>1. PICK w \in Workers : Now(Connected(s, w))
    BY <1>6 DEF StartAutovacuumWorker
  <2>2. s.state = "PM_RUN" /\ w # "startup"
    BY <1>4, <1>6 DEF StartAutovacuumWorker
  <2> DEFINE q == Connected(s, w)
  <2>3. /\ Good(q, Kept) /\ q.state = s.state
        /\ q.Shutdown = s.Shutdown /\ q.FatalError = s.FatalError
    BY <2>2, <1>3
  <2> HIDE DEF q
  <2>4. Now(q)
    BY <2>1 DEF q
  <2> QED
    BY <2>2, <2>3, <2>4, <1>1
<1> QED
  BY <1>5, <1>6

LEMMA ChildStep ==
    ASSUME IInv, NEW k \in Procs, Exits(k) \/ Quits(k) \/ Crashes(k) \/ CheckpointerDone
    PROVE  IInv' /\ Progress
<1>0. /\ "exit 0" \in Statuses /\ "exit 1" \in Statuses /\ "crash" \in Statuses
      /\ "exit 0" # "exit 1" /\ "exit 0" # "crash"
      /\ "checkpointer" \in Procs /\ "checkpointer" \notin BackendList
  BY ProcsAssumption DEF Statuses, Special, Procs
<1>1. crashes \in 0 .. MaxCrashes /\ ckpt \in BOOLEAN /\ recovering \in BOOLEAN
  BY DEF IInv
<1>2. CASE Exits(k)
  <2>1. /\ ckpt' = ckpt /\ crashes' = crashes
        /\ \/ Ends(k, "exit 0") /\ k # "checkpointer"
           \/ Ends(k, "exit 1")
    BY <1>2, <1>0 DEF Exits
  <2> QED
    BY <2>1, <1>0, <1>1, EndStep
<1>3. CASE Quits(k)
  BY <1>3, <1>0, <1>1, EndStep DEF Quits
<1>4. CASE Crashes(k)
  <2>1. crashes' \in 0 .. MaxCrashes
    <3>1. crashes < MaxCrashes /\ crashes' = crashes + 1
      BY <1>4 DEF Crashes
    <3> QED
      BY <3>1, <1>1, BoundsAssumption
  <2> QED
    BY <2>1, <1>1, <1>4, <1>0, EndStep DEF Crashes
<1>5. CASE CheckpointerDone
  <2>1. /\ Ends("checkpointer", "exit 0") /\ ckpt' = (ckpt \/ ~recovering)
        /\ crashes' = crashes /\ "SIGUSR2" \in s.told["checkpointer"]
    BY <1>5 DEF CheckpointerDone
  <2>2. recovering' = (recovering /\ <<"checkpointer", "exit 0">> # <<"startup", "exit 0">>)
    BY <2>1 DEF Ends
  <2>3. recovering' = recovering
    <3>1. <<"checkpointer", "exit 0">> # <<"startup", "exit 0">>
      OBVIOUS
    <3> QED
      BY <1>1, <2>2, <3>1
  <2>4. ckpt' \in BOOLEAN /\ (ckpt => ckpt') /\ Kept'
    BY <1>1, <2>1, <2>3, Zenon DEF Kept
  <2> QED
    BY <1>0, <1>1, <2>1, <2>4, EndStep
<1> QED
  BY <1>2, <1>3, <1>4, <1>5

LEMMA KilledStep == ASSUME IInv, Killed PROVE IInv' /\ Progress
<1>0. "killed" \in Running \cup Exited /\ IsState(s)
  BY DEF Exited, IInv, Good
<1>1. /\ IsState(s') /\ s'.state = "killed" /\ s'.Shutdown = s.Shutdown
      /\ s'.FatalError = s.FatalError
  BY <1>0, StateFacts DEF Killed
<1>2. Good(s', Kept')
  BY <1>1, ExitGood DEF Exited
<1>3. recovering' => Fresh(s')
  <2>1. s'.proc = s.proc
    BY <1>0, StateFacts DEF Killed
  <2>2. recovering' = recovering
    BY DEF Killed
  <2>3. Fresh(s) => Fresh(s')
    BY <1>1, <2>1 DEF Fresh, Gone
  <2> QED
    BY <2>2, <2>3 DEF IInv
<1> QED
  BY <1>0, <1>1, <1>2, <1>3 DEF IInv, Progress, Killed, Transient

\* Every step of the postmaster and its children.
LEMMA StepKeeps == ASSUME IInv, Next PROVE IInv' /\ Progress
<1>1. \A k \in Procs : Exits(k) \/ Quits(k) \/ Crashes(k) => IInv' /\ Progress
  BY ChildStep
<1>2. CheckpointerDone => IInv' /\ Progress
  <2>1. "checkpointer" \in Procs
    BY ProcsFacts
  <2> QED
    BY <2>1, ChildStep
<1> QED
  BY <1>1, <1>2, PmdieStep, ReaperStep, LoopStep, KilledStep DEF Next

-----------------------------------------------------------------------------
(* The theorems.                                                           *)

LEMMA IndInit == ASSUME Init PROVE IInv
<1>0. "startup" \in Procs /\ "checkpointer" \in Procs
  BY ProcsFacts
<1>1. /\ s.state = "PM_STARTUP" /\ s.Shutdown = "no" /\ s.FatalError = FALSE
      /\ s.proc = [k \in Procs |-> IF k = "startup" THEN "run" ELSE "none"]
      /\ s.told = [k \in Procs |-> {}]
      /\ reaping = FALSE /\ recovering = TRUE /\ ckpt = FALSE /\ crashes = 0
  BY DEF Init
<1>2. IsState(s)
  BY DEF Init, IsState, PState, Running
<1>3. Reason(s) /\ Told(s)
  BY <1>1 DEF Reason, Told
<1>4. Children(s) /\ Checkpointing(s, Kept)
  BY <1>0, <1>1 DEF Children, Gone, Checkpointing
<1>5. crashes \in 0 .. MaxCrashes
  BY <1>1, BoundsAssumption
<1>6. Good(s, Kept) /\ s.state \notin Transient
  BY <1>1, <1>2, <1>3, <1>4 DEF Good, Transient
<1>7. Fresh(s)
  <2>1. Writers \subseteq Procs
    BY ProcsFacts
  <2> QED
    BY <1>0, <1>1, <2>1 DEF Fresh, Gone
<1> QED
  BY <1>1, <1>5, <1>6, <1>7 DEF IInv

\* The invariant of the state machine: which children may live in which state,
\* and which have been told.
THEOREM Invariance == Spec => []IInv
<1>1. Init => IInv
  BY IndInit
<1>2. IInv /\ [Next]_vars => IInv'
  <2>1. CASE Next
    BY <2>1, StepKeeps
  <2>2. CASE UNCHANGED vars
    BY <2>2 DEF vars, IInv, Kept
  <2> QED
    BY <2>1, <2>2
<1> QED
  BY <1>1, <1>2, PTL DEF Spec

\* The postmaster's record has its type, and signals are for the living.
THEOREM TypeCorrect == Spec => []TypeOK
<1>1. IInv => TypeOK
  BY DEF IInv, Good, IsState, PState, TypeOK
<1> QED
  BY <1>1, Invariance, PTL

\* Nobody who can write WAL lives beside the shutdown checkpoint
\* (postmaster.c, PM_SHUTDOWN and PM_SHUTDOWN_2).
THEOREM CheckpointIsAlone == Spec => []CheckpointAlone
<1>1. IInv => CheckpointAlone
  <2> SUFFICES ASSUME IInv, s.state \in {"PM_SHUTDOWN", "PM_SHUTDOWN_2"}
               PROVE  Live(Writers) = {}
    BY DEF CheckpointAlone
  <2>1. Gone(s, Writers)
    BY DEF IInv, Good, Children
  <2> QED
    BY <2>1 DEF Gone, Live
<1> QED
  BY <1>1, Invariance, PTL

\* A postmaster that exits normally leaves no child, and a shutdown checkpoint
\* after which nothing was written or a recovery for the next start to repeat.
THEOREM ExitsCleanly == Spec => []CleanExit
<1>1. IInv => CleanExit
  <2> SUFFICES ASSUME IInv, s.state = "normal"
               PROVE  Live(Procs) = {} /\ Kept
    BY DEF CleanExit, Kept
  <2>1. Kept /\ Gone(s, Procs)
    BY DEF IInv, Good, Children, Checkpointing
  <2> QED
    BY <2>1 DEF Gone, Live
<1> QED
  BY <1>1, Invariance, PTL

\* While recovery is in progress only the startup process can write WAL.
THEOREM RecoveryIsAlone == Spec => []RecoveryAlone
<1>1. IInv => RecoveryAlone
  <2> SUFFICES ASSUME IInv, recovering PROVE Live(Writers \ {"startup"}) = {}
    BY DEF RecoveryAlone
  <2>1. Gone(s, Writers \ {"startup"})
    BY DEF IInv, Fresh
  <2> QED
    BY <2>1 DEF Gone, Live
<1> QED
  BY <1>1, Invariance, PTL

\* After a crash everybody PM_WAIT_BACKENDS and PM_WAIT_DEAD_END wait for has
\* been signalled, although HandleChildCrash signals only once.
THEOREM CrashIsTold == Spec => []CrashTold
<1>1. IInv => CrashTold
  BY DEF IInv, Good, Told, CrashTold, Live, Exited
<1> QED
  BY <1>1, Invariance, PTL

\* Shared memory is reset only when no child is left (postmaster.c:3138).
THEOREM ResetIsAlone == Spec => ResetAlone
<1>1. IInv /\ [Next]_vars =>
        [s.state # "PM_STARTUP" /\ s'.state = "PM_STARTUP" =>
           \A k \in Procs : s'.proc[k] # "none" => k = "startup"]_vars
  BY StepKeeps DEF Progress
<1> QED
  BY <1>1, Invariance, PTL DEF Spec, ResetAlone

\* FatalError is taken back only by a finished recovery that met no backend
\* from before the crash.
THEOREM RecoveryEndsCrash == Spec => CrashEndsInRecovery
<1>1. IInv /\ [Next]_vars =>
        [s.FatalError /\ ~s'.FatalError =>
           Dead \cap {"startup"} # {} /\ Live(Backends) = {}]_vars
  <2> SUFFICES ASSUME IInv, Next, s.FatalError, ~s'.FatalError
               PROVE  Dead \cap {"startup"} # {} /\ Live(Backends) = {}
    OBVIOUS
  <2>1. s.proc["startup"] \in Statuses /\ Gone(s, Backends)
    BY StepKeeps DEF Progress
  <2>2. "startup" \in Procs
    BY ProcsFacts
  <2> QED
    BY <2>1, <2>2 DEF Dead, Live, Gone
<1> QED
  BY <1>1, Invariance, PTL DEF Spec, CrashEndsInRecovery

-----------------------------------------------------------------------------
(* The refinement.                                                         *)

\* What PgServer sees of the postmaster.
Pm == IF s.state \in Exited THEN "down"
      ELSE IF s.Shutdown # "no" THEN "stopping"
      ELSE IF s.state = "PM_RUN" THEN "up" ELSE "starting"
Pidfile == IF s.state = "killed" THEN "stale"
           ELSE IF s.state \in Exited THEN "none" ELSE "own"

\* A step of the postmaster is a step of a postmaster of PgServer, or none that
\* it could see.
LEMMA StepRefines ==
    ASSUME Progress
    PROVE  [\E d \in {Dir} : PG!PostmasterActs(d)]_(PG!pgVars)
<1>1. /\ Pm = IF s.Shutdown # "no" THEN "stopping"
              ELSE IF s.state = "PM_RUN" THEN "up" ELSE "starting"
      /\ Pidfile = "own"
  BY DEF Progress, Pm, Pidfile, Running, Exited
<1>2. \/ Pm' = Pm /\ Pidfile' = "own"
      \/ Pm = "starting" /\ Pm' = "up" /\ Pidfile' = "own"
      \/ Pm = "up" /\ Pm' = "starting" /\ Pidfile' = "own"
      \/ Pm' = "stopping" /\ Pidfile' = "own"
      \/ Pm' = "down" /\ Pidfile' \in {"none", "stale"}
  BY <1>1 DEF Progress, Pm, Pidfile, Running, Exited
<1> DEFINE f(x) == [d \in {Dir} |-> x]
<1>3. \A x, y : [f(x) EXCEPT ![Dir] = y] = f(y)
  OBVIOUS
<1>4. \A x : f(x)[Dir] = x
  OBVIOUS
<1> SUFFICES \/ PG!PostmasterActs(Dir)
             \/ UNCHANGED PG!pgVars
  OBVIOUS
<1> QED
  BY <1>1, <1>2, <1>3, <1>4
  DEF Pm, Pidfile, PG!PostmasterActs, PG!PostmasterReady, PG!PostmasterRestarts,
      PG!PostmasterStops, PG!PostmasterExits, PG!PostmasterDies, PG!Alive, PG!pgVars

\* The state machine implements the postmaster the launcher is modelled with.
THEOREM Refinement == Spec => ImplementsPgServer
<1>1. Init => PG!JustStarted
  BY DEF Init, PG!JustStarted, Exited
<1>2. IInv /\ [Next]_vars => [\E d \in {Dir} : PG!PostmasterActs(d)]_(PG!pgVars)
  <2>1. CASE Next
    BY <2>1, StepKeeps, StepRefines
  <2>2. CASE UNCHANGED vars
    BY <2>2 DEF vars, PG!pgVars
  <2> QED
    BY <2>1, <2>2
<1> QED
  BY <1>1, <1>2, Invariance, PTL DEF Spec, ImplementsPgServer, PG!PostmasterLife
=============================================================================
