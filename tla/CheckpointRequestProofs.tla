----------------------- MODULE CheckpointRequestProofs -----------------------
(***************************************************************************)
(* Proofs for CheckpointRequest: whatever the width of the counters, the   *)
(* flags and the backends, a request that is answered with success was     *)
(* served by a checkpoint of its own that completed.                       *)
(***************************************************************************)
EXTENDS CheckpointRequest, TLAPS

-----------------------------------------------------------------------------
(* The arithmetic of the counters.                                         *)

(***************************************************************************)
(* Differences of counters are counters, and 0 only for equal counters.    *)
(***************************************************************************)
LEMMA MinusType ==
    ASSUME NEW x \in Int32, NEW y \in Int32
    PROVE  /\ Minus(x, y) \in Int32
           /\ Minus(x, y) = 0 <=> x = y
BY WAssumption DEF Int32, Minus

(***************************************************************************)
(* Counters that are equally far from a third are equal.                   *)
(***************************************************************************)
LEMMA MinusInjective ==
    ASSUME NEW x \in Int32, NEW y \in Int32, NEW z \in Int32,
           Minus(x, z) = Minus(y, z)
    PROVE  x = y
BY WAssumption DEF Int32, Minus

(***************************************************************************)
(* A step of a counter is a step of the difference, short of the wrap.     *)
(***************************************************************************)
LEMMA IncStep ==
    ASSUME NEW x \in Int32, NEW y \in Int32
    PROVE  /\ Inc(x) \in Int32
           /\ Minus(x, y) < W - 1 => Minus(Inc(x), y) = Minus(x, y) + 1
           /\ Minus(x, Inc(x)) = W - 1
BY WAssumption DEF Int32, Minus, Inc

-----------------------------------------------------------------------------
(* The inductive invariant.                                                *)

\* How many checkpoints have begun, and failed, since p's snapshot.
Lag(p) == Minus(ckpt_started, b[p].old_started)
Failures(p) == Minus(ckpt_failed, b[p].old_failed)

\* A checkpoint is under way exactly when ckpt_done is behind ckpt_started.
CountersAgree ==
    IF pc = "checkpoint" THEN ckpt_started = Inc(ckpt_done)
                         ELSE ckpt_started = ckpt_done

\* What a waiting backend's snapshot says about its checkpoint.
SnapshotTells(p) ==
    /\ Lag(p) <= MaxLag
    /\ mine[p] = "none" <=> Lag(p) = 0
    /\ mine[p] = "none" => b[p].flags \subseteq ckpt_flags
    /\ mine[p] = "running" => pc = "checkpoint" /\ Lag(p) = 1
    /\ mine[p] = "failed" => Failures(p) > 0
    /\ Failures(p) <= Lag(p) + 1
    /\ pc = "checkpoint" => Failures(p) <= Lag(p)
    /\ b[p].at = "finish" => /\ Minus(b[p].new_started, b[p].old_started) > 0
                             /\ Minus(b[p].new_started, b[p].old_started) <= Lag(p)

IInv ==
    /\ TypeOK /\ CountersAgree /\ FlagsReachCheckpoint /\ SuccessIsMine
    /\ \A p \in Backends : Waiting(p) => SnapshotTells(p)

(***************************************************************************)
(* Type correctness, step by step.                                         *)
(***************************************************************************)
LEMMA TypeStep == TypeOK /\ [Next]_vars => TypeOK'
<1> SUFFICES ASSUME TypeOK, [Next]_vars PROVE TypeOK' OBVIOUS
<1> USE DEF TypeOK
<1>0. 0 \in Int32 BY WAssumption DEF Int32
<1>n. /\ NoRequest.at = "idle" /\ NoRequest.flags = {}
      /\ NoRequest \in [at : {"idle", "signal", "start", "finish", "ok", "error"},
                        flags : SUBSET Flags, old_failed : Int32,
                        old_started : Int32, new_started : Int32]
  BY <1>0 DEF NoRequest
<1>i. Inc(ckpt_started) \in Int32 /\ Inc(ckpt_failed) \in Int32 BY IncStep
<1>1. ASSUME NEW p \in Backends, NEW fl \in SUBSET Flags,
             Snapshot(p, fl)
      PROVE  TypeOK'
  BY <1>1, <1>0 DEF Snapshot, Fates, signals
<1>2. ASSUME NEW p \in Backends, SendSignal(p) PROVE TypeOK'
  <2>1. CASE CHECKPOINT_WAIT \in b[p].flags
    BY <1>2, <2>1 DEF SendSignal, shared
  <2>2. CASE CHECKPOINT_WAIT \notin b[p].flags
    BY <1>2, <2>2, <1>n DEF SendSignal, Done, Fates, shared
  <2> QED BY <2>1, <2>2
<1>3. ASSUME NEW p \in Backends, GiveUp(p) PROVE TypeOK'
  <2>1. CASE CHECKPOINT_WAIT \in b[p].flags
    BY <1>3, <2>1, <1>n DEF GiveUp, shared, signals
  <2>2. CASE CHECKPOINT_WAIT \notin b[p].flags
    BY <1>3, <2>2, <1>n DEF GiveUp, Done, Fates, shared, signals
  <2> QED BY <2>1, <2>2
<1>4. ASSUME NEW p \in Backends, SeesStart(p) PROVE TypeOK'
  BY <1>4 DEF SeesStart, shared, signals
<1>5. ASSUME NEW p \in Backends, SeesDone(p) PROVE TypeOK'
  BY <1>5, <1>n DEF SeesDone, shared, signals
<1>6. ASSUME NEW p \in Backends, Return(p) PROVE TypeOK'
  BY <1>6, <1>n DEF Return, Done, Fates, shared, signals
<1>7. CASE Checkpointer
  <2>1. CASE StartCheckpointer BY <2>1 DEF StartCheckpointer, shared, signals
  <2>2. CASE ResetLatch BY <2>2 DEF ResetLatch, shared
  <2>3. CASE Look BY <2>3 DEF Look, shared
  <2>4. CASE StartCkpt BY <2>4, <1>i DEF StartCkpt, signals, Fates
  <2>5. CASE CompleteCkpt BY <2>5 DEF CompleteCkpt, signals, Fate, Fates
  <2>6. CASE FailCkpt BY <2>6, <1>i DEF FailCkpt, signals, Fate, Fates
  <2>7. CASE WakeUp BY <2>7 DEF WakeUp, shared, signals
  <2> QED BY <1>7, <2>1, <2>2, <2>3, <2>4, <2>5, <2>6, <2>7 DEF Checkpointer
<1>8. CASE Clock
  BY <1>8 DEF Clock, TimeDriven, SleepEnds, shared, signals
<1>9. CASE UNCHANGED vars BY <1>9 DEF vars, shared, signals
<1> QED
  BY <1>1, <1>2, <1>3, <1>4, <1>5, <1>6, <1>7, <1>8, <1>9 DEF Next, Backend

(***************************************************************************)
(* A step that changes only what p itself keeps leaves the others' facts.  *)
(***************************************************************************)
LEMMA OthersKeep ==
    ASSUME IInv, NEW p \in Backends, NEW q \in Backends, q # p, Waiting(q)',
           b'[q] = b[q], mine'[q] = mine[q],
           UNCHANGED <<ckpt_started, ckpt_failed, pc>>, ckpt_flags \subseteq ckpt_flags'
    PROVE  SnapshotTells(q)'
BY DEF IInv, SnapshotTells, Waiting, Lag, Failures

(***************************************************************************)
(* A poll that ends the wait with success found the backend's checkpoint   *)
(* complete: a running one would have left ckpt_done behind.               *)
(***************************************************************************)
LEMMA DoneMeansComplete ==
    ASSUME IInv, NEW p \in Backends, b[p].at = "finish",
           2 * Minus(ckpt_done, b[p].new_started) < W,
           ckpt_failed = b[p].old_failed
    PROVE  mine[p] = "complete"
<1> USE DEF IInv, TypeOK
<1>1. SnapshotTells(p) BY DEF Waiting
<1>2. /\ b[p].old_failed \in Int32 /\ b[p].old_started \in Int32
      /\ b[p].new_started \in Int32 /\ mine[p] \in Fates
  OBVIOUS
<1>3. Lag(p) \in Int32 /\ Minus(b[p].new_started, b[p].old_started) \in Int32
  BY <1>2, MinusType DEF Lag
<1>4. Lag(p) > 0 /\ Failures(p) = 0
  BY <1>1, <1>2, <1>3, MinusType, WAssumption DEF SnapshotTells, Failures, Int32
<1>5. mine[p] # "none" /\ mine[p] # "failed"
  BY <1>1, <1>4 DEF SnapshotTells
<1>6. ASSUME mine[p] = "running" PROVE FALSE
  <2>1. pc = "checkpoint" /\ Lag(p) = 1 BY <1>1, <1>6 DEF SnapshotTells
  <2>2. Minus(b[p].new_started, b[p].old_started) = Lag(p)
    BY <1>1, <1>3, <2>1, WAssumption DEF SnapshotTells, Int32
  <2>3. b[p].new_started = ckpt_started
    BY <1>2, <2>2, MinusInjective DEF Lag
  <2>4. ckpt_started = Inc(ckpt_done) BY <2>1 DEF CountersAgree
  <2>5. Minus(ckpt_done, b[p].new_started) = W - 1
    BY <2>3, <2>4, IncStep
  <2> QED BY <2>5, WAssumption
<1> QED BY <1>2, <1>5, <1>6 DEF Fates, FlagsReachCheckpoint

(***************************************************************************)
(* Every step preserves the invariant.                                     *)
(***************************************************************************)
LEMMA IndStep == IInv /\ [Next]_vars => IInv'
<1> SUFFICES ASSUME IInv, [Next]_vars PROVE IInv' OBVIOUS
<1>t. TypeOK /\ TypeOK' BY TypeStep DEF IInv
<1>n. NoRequest.at = "idle" /\ NoRequest \in [at : {"idle"}, flags : SUBSET Flags,
        old_failed : Nat, old_started : Nat, new_started : Nat]
  BY DEF NoRequest
<1>1. ASSUME NEW p \in Backends, NEW fl \in SUBSET Flags, Snapshot(p, fl)
      PROVE  IInv'
  <2>1. /\ CountersAgree' /\ FlagsReachCheckpoint' /\ SuccessIsMine'
    BY <1>1, <1>t DEF IInv, Snapshot, CountersAgree, FlagsReachCheckpoint,
       SuccessIsMine, TypeOK, signals
  <2>2. SnapshotTells(p)'
    <3>1. /\ b'[p].at = "signal" /\ b'[p].flags = fl /\ mine'[p] = "none"
          /\ b'[p].old_started = ckpt_started' /\ b'[p].old_failed = ckpt_failed'
          /\ fl \subseteq ckpt_flags'
      BY <1>1, <1>t DEF Snapshot, TypeOK
    <3>2. Lag(p)' = 0 /\ Failures(p)' = 0
      BY <3>1, <1>t, MinusType DEF Lag, Failures, TypeOK
    <3> QED BY <3>1, <3>2, WAssumption DEF SnapshotTells
  <2>3. ASSUME NEW q \in Backends, q # p, Waiting(q)' PROVE SnapshotTells(q)'
    <3>1. /\ b'[q] = b[q] /\ mine'[q] = mine[q] /\ ckpt_flags \subseteq ckpt_flags'
          /\ UNCHANGED <<ckpt_started, ckpt_failed, pc>>
      BY <1>1, <1>t, <2>3 DEF Snapshot, TypeOK
    <3> QED BY <3>1, <2>3, OthersKeep
  <2> QED BY <1>t, <2>1, <2>2, <2>3 DEF IInv
<1>2. ASSUME NEW p \in Backends, SendSignal(p) \/ GiveUp(p) \/ Return(p)
      PROVE  IInv'
  <2>1. /\ UNCHANGED <<ckpt_started, ckpt_done, ckpt_failed, ckpt_flags, pc>>
        /\ \A q \in Backends : q # p => b'[q] = b[q] /\ mine'[q] = mine[q]
        /\ \/ b'[p] = NoRequest /\ mine'[p] = "none"
           \/ b'[p] = [NoRequest EXCEPT !.at = "error"] /\ mine'[p] = mine[p]
           \/ /\ b[p].at = "signal" /\ mine'[p] = mine[p]
              /\ b'[p] = [b[p] EXCEPT !.at = "start"]
    <3>1. CASE SendSignal(p)
      BY <3>1, <1>t DEF SendSignal, Done, TypeOK, shared
    <3>2. CASE GiveUp(p)
      BY <3>2, <1>t DEF GiveUp, Done, TypeOK, shared
    <3>3. CASE Return(p)
      BY <3>3, <1>t DEF Return, Done, TypeOK, shared
    <3> QED BY <1>2, <3>1, <3>2, <3>3
  <2>2. /\ b'[p].at \in {"idle", "error", "start"}
        /\ b'[p].at = "start" => /\ b[p].at = "signal" /\ mine'[p] = mine[p]
                                 /\ b'[p].flags = b[p].flags
                                 /\ b'[p].old_started = b[p].old_started
                                 /\ b'[p].old_failed = b[p].old_failed
        /\ mine'[p] = "none" \/ mine'[p] = mine[p]
    BY <2>1, <1>n, <1>t DEF TypeOK
  <2>3. CountersAgree' BY <2>1 DEF IInv, CountersAgree
  <2>4. FlagsReachCheckpoint' /\ SuccessIsMine'
    BY <2>1, <2>2 DEF IInv, FlagsReachCheckpoint, SuccessIsMine
  <2>5. Waiting(p)' => SnapshotTells(p)'
    BY <2>1, <2>2 DEF IInv, Waiting, SnapshotTells, Lag, Failures
  <2>6. ASSUME NEW q \in Backends, q # p, Waiting(q)' PROVE SnapshotTells(q)'
    BY <2>1, <2>6, OthersKeep
  <2> QED BY <1>t, <2>3, <2>4, <2>5, <2>6 DEF IInv
<1>3. ASSUME NEW p \in Backends, SeesStart(p) PROVE IInv'
  <2>1. /\ UNCHANGED <<ckpt_started, ckpt_done, ckpt_failed, ckpt_flags, pc, mine>>
        /\ \A q \in Backends : q # p => b'[q] = b[q]
        /\ b[p].at = "start" /\ b'[p].at = "finish" /\ b'[p].flags = b[p].flags
        /\ b'[p].old_started = b[p].old_started
        /\ b'[p].old_failed = b[p].old_failed
        /\ b'[p].new_started = ckpt_started /\ ckpt_started # b[p].old_started
    BY <1>3, <1>t DEF SeesStart, TypeOK, shared
  <2>2. CountersAgree' /\ FlagsReachCheckpoint' /\ SuccessIsMine'
    BY <2>1 DEF IInv, CountersAgree, FlagsReachCheckpoint, SuccessIsMine
  <2>3. SnapshotTells(p) BY <2>1 DEF IInv, Waiting
  <2>4. Lag(p) \in Int32 /\ Lag(p) # 0 /\ Lag(p)' = Lag(p) /\ Failures(p)' = Failures(p)
    BY <2>1, <1>t, MinusType DEF TypeOK, Lag, Failures
  <2>5. Minus(b[p].new_started, b[p].old_started)' = Lag(p)
    BY <2>1 DEF Lag
  <2>6. SnapshotTells(p)'
    BY <2>1, <2>3, <2>4, <2>5, WAssumption DEF SnapshotTells, Int32
  <2>7. ASSUME NEW q \in Backends, q # p, Waiting(q)' PROVE SnapshotTells(q)'
    BY <2>1, <2>7, OthersKeep
  <2> QED BY <1>t, <2>2, <2>6, <2>7 DEF IInv
<1>4. ASSUME NEW p \in Backends, SeesDone(p) PROVE IInv'
  <2>1. /\ UNCHANGED <<ckpt_started, ckpt_done, ckpt_failed, ckpt_flags, pc, mine>>
        /\ \A q \in Backends : q # p => b'[q] = b[q]
        /\ b[p].at = "finish" /\ 2 * Minus(ckpt_done, b[p].new_started) < W
        /\ b'[p].at = IF ckpt_failed # b[p].old_failed THEN "error" ELSE "ok"
    BY <1>4, <1>t, <1>n DEF SeesDone, TypeOK, shared
  <2>2. CountersAgree' /\ FlagsReachCheckpoint'
    BY <2>1 DEF IInv, CountersAgree, FlagsReachCheckpoint
  <2>3. b'[p].at = "ok" => mine[p] = "complete"
    BY <2>1, DoneMeansComplete
  <2>4. SuccessIsMine' BY <2>1, <2>3 DEF IInv, SuccessIsMine
  <2>5. ~ Waiting(p)' BY <2>1 DEF Waiting
  <2>6. ASSUME NEW q \in Backends, q # p, Waiting(q)' PROVE SnapshotTells(q)'
    BY <2>1, <2>6, OthersKeep
  <2> QED BY <1>t, <2>2, <2>4, <2>5, <2>6 DEF IInv
<1>5. CASE StartCkpt
  <2>1. CountersAgree'
    BY <1>5 DEF IInv, StartCkpt, CountersAgree
  <2>2. FlagsReachCheckpoint' /\ SuccessIsMine'
    BY <1>5, <1>t DEF IInv, StartCkpt, FlagsReachCheckpoint, SuccessIsMine, Waiting,
       SnapshotTells, TypeOK
  <2>3. ASSUME NEW q \in Backends, Waiting(q)' PROVE SnapshotTells(q)'
    <3>1. Waiting(q) /\ SnapshotTells(q) /\ b' = b /\ pc' = "checkpoint"
          /\ pc # "checkpoint" /\ ckpt_failed' = ckpt_failed
          /\ ckpt_started' = Inc(ckpt_started) /\ Lag(q) < MaxLag
      BY <1>5, <2>3 DEF IInv, StartCkpt, Waiting, Lag
    <3>2. mine'[q] = IF mine[q] = "none" THEN "running" ELSE mine[q]
      BY <1>5, <3>1, <1>t DEF StartCkpt, SnapshotTells, TypeOK
    <3>3. Lag(q) \in Int32 /\ Lag(q)' = Lag(q) + 1 /\ Failures(q)' = Failures(q)
      <4>1. ckpt_started \in Int32 /\ b[q].old_started \in Int32
        BY <1>t DEF TypeOK
      <4>2. Lag(q) \in Int32 BY <4>1, MinusType DEF Lag
      <4>3. Lag(q) < W - 1 BY <3>1, <4>2, WAssumption DEF Int32
      <4>4. Minus(Inc(ckpt_started), b[q].old_started) = Lag(q) + 1
        BY <4>1, <4>3, IncStep DEF Lag
      <4> QED BY <3>1, <4>2, <4>4 DEF Lag, Failures
    <3>4. Failures(q) \in Int32 /\ Minus(b[q].new_started, b[q].old_started) \in Int32
      BY <1>t, MinusType DEF TypeOK, Failures
    <3> QED BY <3>1, <3>2, <3>3, <3>4, WAssumption DEF SnapshotTells, Int32
  <2> QED BY <1>t, <2>1, <2>2, <2>3 DEF IInv
<1>6. CASE CompleteCkpt
  <2>1. CountersAgree' BY <1>6 DEF CompleteCkpt, CountersAgree
  <2>2. FlagsReachCheckpoint' /\ SuccessIsMine'
    BY <1>6, <1>t DEF IInv, CompleteCkpt, Fate, FlagsReachCheckpoint, SuccessIsMine, TypeOK
  <2>3. ASSUME NEW q \in Backends, Waiting(q)' PROVE SnapshotTells(q)'
    BY <1>6, <1>t, <2>3 DEF IInv, CompleteCkpt, Fate, Waiting, SnapshotTells, Lag,
       Failures, TypeOK
  <2> QED BY <1>t, <2>1, <2>2, <2>3 DEF IInv
<1>7. CASE FailCkpt
  <2>1. CountersAgree' BY <1>7 DEF FailCkpt, CountersAgree
  <2>2. FlagsReachCheckpoint' /\ SuccessIsMine'
    BY <1>7, <1>t DEF IInv, FailCkpt, Fate, FlagsReachCheckpoint, SuccessIsMine, TypeOK
  <2>3. ASSUME NEW q \in Backends, Waiting(q)' PROVE SnapshotTells(q)'
    <3>1. Waiting(q) /\ SnapshotTells(q) /\ b' = b /\ pc = "checkpoint"
          /\ pc' # "checkpoint" /\ ckpt_started' = ckpt_started
          /\ ckpt_flags' = ckpt_flags
          /\ ckpt_failed' = Inc(ckpt_failed)
      BY <1>7, <2>3 DEF IInv, FailCkpt, Waiting
    <3>2. mine'[q] = IF mine[q] = "running" THEN "failed" ELSE mine[q]
      BY <1>7, <1>t DEF FailCkpt, Fate, TypeOK
    <3>3. Lag(q) \in Int32 /\ Failures(q) \in Int32
      BY <1>t, MinusType DEF TypeOK, Lag, Failures
    <3>4. Failures(q) < W - 1
      BY <3>1, <3>3, WAssumption DEF SnapshotTells, Int32
    <3>5. Lag(q)' = Lag(q) /\ Failures(q)' = Failures(q) + 1
      BY <3>1, <3>4, <1>t, IncStep DEF TypeOK, Lag, Failures
    <3> QED BY <3>1, <3>2, <3>3, <3>5, WAssumption DEF SnapshotTells, Int32
  <2> QED BY <1>t, <2>1, <2>2, <2>3 DEF IInv
<1>8. CASE StartCheckpointer \/ ResetLatch \/ Look \/ WakeUp \/ Clock \/ UNCHANGED vars
  <2>1. /\ UNCHANGED <<ckpt_started, ckpt_done, ckpt_failed, ckpt_flags, b, mine>>
        /\ pc' = pc \/ (pc # "checkpoint" /\ pc' # "checkpoint")
    <3>1. CASE StartCheckpointer \/ ResetLatch \/ Look \/ WakeUp
      BY <3>1 DEF StartCheckpointer, ResetLatch, Look, WakeUp, shared
    <3>2. CASE Clock BY <3>2 DEF Clock, TimeDriven, SleepEnds, shared
    <3>3. CASE UNCHANGED vars BY <3>3 DEF vars, shared, signals
    <3> QED BY <1>8, <3>1, <3>2, <3>3
  <2> QED
    BY <1>t, <2>1 DEF IInv, CountersAgree, FlagsReachCheckpoint, SuccessIsMine,
       Waiting, SnapshotTells, Lag, Failures
<1> QED
  BY <1>1, <1>2, <1>3, <1>4, <1>5, <1>6, <1>7, <1>8 DEF Next, Checkpointer, Backend

(***************************************************************************)
(* The invariant holds in the initial state: nobody waits.                 *)
(***************************************************************************)
LEMMA IndInit == Init => IInv
<1> SUFFICES ASSUME Init PROVE IInv OBVIOUS
<1>1. 0 \in Int32 BY WAssumption DEF Int32
<1>2. TypeOK BY <1>1 DEF Init, TypeOK, NoRequest, Fates
<1>3. \A p \in Backends : b[p].at = "idle" /\ mine[p] = "none"
  BY DEF Init, NoRequest
<1> QED BY <1>2, <1>3 DEF IInv, Init, CountersAgree, FlagsReachCheckpoint,
        SuccessIsMine, Waiting

(***************************************************************************)
(* What a snapshot of the counters tells a waiting backend holds in every  *)
(* reachable state.                                                        *)
(***************************************************************************)
THEOREM Invariance == Spec => []IInv
<1>1. Init => IInv BY IndInit
<1>2. IInv /\ [Next]_vars => IInv' BY IndStep
<1> QED BY <1>1, <1>2, PTL DEF Spec

(***************************************************************************)
(* The counters, flags and processes keep their types: the counters wrap   *)
(* around at the width of an int.                                          *)
(***************************************************************************)
THEOREM TypeCorrect == Spec => []TypeOK
<1>1. IInv => TypeOK BY DEF IInv
<1> QED BY Invariance, <1>1, PTL

(***************************************************************************)
(* Success is the backend's own: RequestCheckpoint returns without an      *)
(* error only after a checkpoint that began after it set its flags.        *)
(***************************************************************************)
THEOREM SuccessCorrect == Spec => []SuccessIsMine
<1>1. IInv => SuccessIsMine BY DEF IInv
<1> QED BY Invariance, <1>1, PTL

(***************************************************************************)
(* No checkpoint answers a request without its flags.                      *)
(***************************************************************************)
THEOREM FlagsCorrect == Spec => []FlagsReachCheckpoint
<1>1. IInv => FlagsReachCheckpoint BY DEF IInv
<1> QED BY Invariance, <1>1, PTL
=============================================================================
