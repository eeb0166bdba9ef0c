-------------------------- MODULE CheckpointRequest --------------------------
(***************************************************************************)
(* How a backend of the bundled PostgreSQL asks for a checkpoint and finds *)
(* out what became of it: RequestCheckpoint against the main loop of the   *)
(* checkpointer, over the counters and flags in shared memory.             *)
(*                                                                         *)
(* The database is not in recovery and not shutting down (no backend is    *)
(* left then), and a crash of the checkpointer ends every backend.         *)
(***************************************************************************)
EXTENDS Naturals

CONSTANTS
    Backends,
    Flags,      \* the request flags
    W,          \* the counters are ints: they count modulo this (2^32)
    MaxLag      \* bound: checkpoints begun while one backend waits

CHECKPOINT_WAIT == "WAIT"

ASSUME FlagsAssumption == CHECKPOINT_WAIT \in Flags
ASSUME WAssumption ==
    W \in Nat /\ MaxLag \in Nat \ {0} /\ MaxLag + 1 < W /\ 2 * MaxLag <= W

Int32 == 0 .. W - 1                 \* the values of an int, as residues

Inc(a) == IF a = W - 1 THEN 0 ELSE a + 1
Minus(a, b) == IF a >= b THEN a - b ELSE a - b + W       \* as a residue

VARIABLES
    ckpt_started, ckpt_done, ckpt_failed, ckpt_flags,
    pc,          \* where the checkpointer is
    requested,   \* checkpoint_requested, set by SIGINT
    latch,       \* procLatch
    b,           \* RequestCheckpoint in each backend
    mine         \* history: the first checkpoint begun after b's request

shared == <<ckpt_started, ckpt_done, ckpt_failed, ckpt_flags>>
signals == <<requested, latch>>
vars == <<shared, pc, signals, b, mine>>

NoRequest == [at |-> "idle", flags |-> {}, old_failed |-> 0,
              old_started |-> 0, new_started |-> 0]
Fates == {"none", "running", "complete", "failed", "wrong flags"}

TypeOK ==
    /\ ckpt_started \in Int32 /\ ckpt_done \in Int32 /\ ckpt_failed \in Int32
    /\ ckpt_flags \in SUBSET Flags
    /\ pc \in {"off", "reset", "look", "begin", "checkpoint", "sleep"}
    /\ requested \in BOOLEAN /\ latch \in BOOLEAN
    /\ b \in [Backends -> [at : {"idle", "signal", "start", "finish", "ok", "error"},
                           flags : SUBSET Flags, old_failed : Int32,
                           old_started : Int32, new_started : Int32]]
    /\ mine \in [Backends -> Fates]

Init ==
    /\ ckpt_started = 0 /\ ckpt_done = 0 /\ ckpt_failed = 0 /\ ckpt_flags = {}
    /\ pc = "off" /\ requested = FALSE /\ latch = FALSE
    /\ b = [p \in Backends |-> NoRequest]
    /\ mine = [p \in Backends |-> "none"]

Waiting(p) == b[p].at \in {"signal", "start", "finish"}

-----------------------------------------------------------------------------
(* RequestCheckpoint.                                                      *)

\* Mutant: a checkpoint that is under way counts as begun after the request.
SnapshotDone(p, fl) ==
    /\ b[p].at = "idle"
    /\ b' = [b EXCEPT ![p] = [at |-> "signal", flags |-> fl,
                              old_failed |-> ckpt_failed,
                              old_started |-> ckpt_done, new_started |-> 0]]
    /\ ckpt_flags' = ckpt_flags \cup fl
    /\ mine' = [mine EXCEPT ![p] = "none"]
    /\ UNCHANGED <<ckpt_started, ckpt_done, ckpt_failed, pc, signals>>

\* The flags are set and the counters are read under ckpt_lck.
Snapshot(p, fl) ==
    /\ b[p].at = "idle"
    /\ b' = [b EXCEPT ![p] = [at |-> "signal", flags |-> fl,
                              old_failed |-> ckpt_failed,
                              old_started |-> ckpt_started, new_started |-> 0]]
    /\ ckpt_flags' = ckpt_flags \cup fl
    /\ mine' = [mine EXCEPT ![p] = "none"]
    /\ UNCHANGED <<ckpt_started, ckpt_done, ckpt_failed, pc, signals>>

Done(p) ==
    /\ b' = [b EXCEPT ![p] = NoRequest]
    /\ mine' = [mine EXCEPT ![p] = "none"]

\* SIGINT to the checkpointer, whose handler sets the flag and the latch.
SendSignal(p) ==
    /\ b[p].at = "signal" /\ pc # "off"
    /\ requested' = TRUE /\ latch' = TRUE
    /\ IF CHECKPOINT_WAIT \in b[p].flags
         THEN b' = [b EXCEPT ![p].at = "start"] /\ UNCHANGED mine
         ELSE Done(p)
    /\ UNCHANGED <<shared, pc>>

\* The checkpointer is not there for two seconds: only a waiting backend fails.
GiveUp(p) ==
    /\ b[p].at = "signal" /\ pc = "off"
    /\ IF CHECKPOINT_WAIT \in b[p].flags
         THEN /\ b' = [b EXCEPT ![p] = [NoRequest EXCEPT !.at = "error"]]
              /\ UNCHANGED mine
         ELSE Done(p)
    /\ UNCHANGED <<shared, pc, signals>>

\* A poll that finds that a checkpoint has begun since the snapshot.
SeesStart(p) ==
    /\ b[p].at = "start" /\ ckpt_started # b[p].old_started
    /\ b' = [b EXCEPT ![p].at = "finish", ![p].new_started = ckpt_started]
    /\ UNCHANGED <<shared, pc, signals, mine>>

\* A poll that finds ckpt_done - new_started >= 0, which is a signed difference.
SeesDone(p) ==
    /\ b[p].at = "finish" /\ 2 * Minus(ckpt_done, b[p].new_started) < W
    /\ b' = [b EXCEPT ![p] = [NoRequest EXCEPT !.at =
               IF ckpt_failed # b[p].old_failed THEN "error" ELSE "ok"]]
    /\ UNCHANGED <<shared, pc, signals, mine>>

Return(p) ==
    /\ b[p].at \in {"ok", "error"}
    /\ Done(p)
    /\ UNCHANGED <<shared, pc, signals>>

-----------------------------------------------------------------------------
(* CheckpointerMain.                                                       *)

StartCheckpointer ==
    /\ pc = "off" /\ pc' = "reset"
    /\ UNCHANGED <<shared, signals, b, mine>>

ResetLatch ==
    /\ pc = "reset" /\ pc' = "look"
    /\ latch' = FALSE
    /\ UNCHANGED <<shared, requested, b, mine>>

\* A request is noticed, or nothing is to be done.
Look ==
    /\ pc = "look"
    /\ pc' = IF requested THEN "begin" ELSE "sleep"
    /\ requested' = FALSE
    /\ UNCHANGED <<shared, latch, b, mine>>

\* CheckPointTimeout has passed since the last checkpoint.
TimeDriven ==
    /\ pc = "look" /\ pc' = "begin" /\ requested' = FALSE
    /\ UNCHANGED <<shared, latch, b, mine>>

(***************************************************************************)
(* Under ckpt_lck the flags are taken and ckpt_started is advanced.  The   *)
(* bound says that a backend, which polls ten times a second, does not     *)
(* sleep through too many checkpoints.                                     *)
(***************************************************************************)
StartCkpt ==
    /\ pc = "begin" /\ pc' = "checkpoint"
    /\ \A p \in Backends :
         Waiting(p) => Minus(ckpt_started, b[p].old_started) < MaxLag
    /\ ckpt_started' = Inc(ckpt_started)
    /\ ckpt_flags' = {}
    /\ mine' = [p \in Backends |->
         IF Waiting(p) /\ mine[p] = "none"
           THEN IF b[p].flags \subseteq ckpt_flags THEN "running" ELSE "wrong flags"
           ELSE mine[p]]
    /\ UNCHANGED <<ckpt_done, ckpt_failed, signals, b>>

Fate(f) == mine' = [p \in Backends |-> IF mine[p] = "running" THEN f ELSE mine[p]]

\* Mutant: the flags are cleared when the checkpoint is over.
CompleteCkptClears ==
    /\ pc = "checkpoint" /\ pc' = "sleep"
    /\ ckpt_done' = ckpt_started /\ ckpt_flags' = {}
    /\ Fate("complete")
    /\ UNCHANGED <<ckpt_started, ckpt_failed, signals, b>>

\* Mutant: checkpoint_requested is cleared when the checkpoint is over.
CompleteCkptForgets ==
    /\ pc = "checkpoint" /\ pc' = "sleep"
    /\ ckpt_done' = ckpt_started /\ requested' = FALSE
    /\ Fate("complete")
    /\ UNCHANGED <<ckpt_started, ckpt_failed, ckpt_flags, latch, b>>

\* CreateCheckPoint returns.
CompleteCkpt ==
    /\ pc = "checkpoint" /\ pc' = "sleep"
    /\ ckpt_done' = ckpt_started
    /\ Fate("complete")
    /\ UNCHANGED <<ckpt_started, ckpt_failed, ckpt_flags, signals, b>>

\* An ERROR takes the checkpointer back to the top of its loop.
FailCkpt ==
    /\ pc = "checkpoint" /\ pc' = "reset"
    /\ ckpt_failed' = Inc(ckpt_failed)
    /\ ckpt_done' = ckpt_started
    /\ Fate("failed")
    /\ UNCHANGED <<ckpt_started, ckpt_flags, signals, b>>

\* WaitLatch returns at once if the latch is set.
WakeUp ==
    /\ pc = "sleep" /\ latch /\ pc' = "reset"
    /\ UNCHANGED <<shared, signals, b, mine>>

\* WaitLatch times out.
SleepEnds ==
    /\ pc = "sleep" /\ pc' = "reset"
    /\ UNCHANGED <<shared, signals, b, mine>>

Checkpointer ==
    \/ StartCheckpointer \/ ResetLatch \/ Look \/ StartCkpt \/ CompleteCkpt
    \/ FailCkpt \/ WakeUp

Clock == TimeDriven \/ SleepEnds

Backend(p) == SendSignal(p) \/ SeesStart(p) \/ SeesDone(p) \/ Return(p)

Next ==
    \/ Checkpointer \/ Clock
    \/ \E p \in Backends :
         \/ \E fl \in SUBSET Flags : Snapshot(p, fl)
         \/ Backend(p) \/ GiveUp(p)

Spec == Init /\ [][Next]_vars

\* The processes go on; nothing is assumed of the clock.
FairSpec ==
    Spec /\ WF_vars(Checkpointer) /\ \A p \in Backends : WF_vars(Backend(p))

-----------------------------------------------------------------------------
(* Properties.                                                             *)

(***************************************************************************)
(* A backend that is told its request succeeded asked for a checkpoint     *)
(* that began after its request, used its flags, and completed: "it was    *)
(* definitely successful", whatever other checkpoints failed around it and *)
(* wherever the counters wrapped.                                          *)
(***************************************************************************)
SuccessIsMine == \A p \in Backends : b[p].at = "ok" => mine[p] = "complete"

(***************************************************************************)
(* The flags of a request are in the checkpoint that answers it.           *)
(***************************************************************************)
FlagsReachCheckpoint == \A p \in Backends : mine[p] # "wrong flags"

(***************************************************************************)
(* RequestCheckpoint returns, without any help from the clock: no signal   *)
(* is lost, and no wrap of the counters leaves a backend waiting.          *)
(***************************************************************************)
RequestsReturn == \A p \in Backends : b[p].at # "idle" ~> b[p].at = "idle"
=============================================================================
