------------------------------- MODULE LWLock -------------------------------
(***************************************************************************)
(* One lightweight lock of the bundled PostgreSQL (every shared structure  *)
(* of the server is guarded by one).  What happens under the lock's        *)
(* spinlock is one step.  A sleeping process waits on its semaphore, which *)
(* it shares with other mechanisms: it may be posted for another reason.   *)
(* A wakeup is two steps, the flag and the semaphore.                      *)
(***************************************************************************)
EXTENDS Naturals, Sequences, FiniteSets

CONSTANTS
    Procs,
    MaxCalls,    \* bound: calls made by one process
    MaxBogus     \* bound: processes whose semaphore is posted for other reasons

ASSUME ConstantsAssumption ==
    IsFiniteSet(Procs) /\ MaxCalls \in Nat /\ MaxBogus \in Nat

Modes == {"LW_EXCLUSIVE", "LW_SHARED"}
Calls == {"LWLockAcquire", "LWLockConditionalAcquire", "LWLockAcquireOrWait"}
WaitModes == Modes \cup {"LW_WAIT_UNTIL_FREE"}

VARIABLES
    exclusive, shared, releaseOK,   \* of the LWLock
    queue,    \* its waiters from head to tail
    pc,       \* "idle", "try", "sleep", "held", or "wake" (in LWLockRelease)
    call, mode, retry,   \* the call a process is in
    waiting,  \* lwWaiting
    waitMode, \* lwWaitMode
    sem,      \* the count of the process's semaphore
    extra,    \* extraWaits
    woken,    \* in LWLockRelease: the processes still to be woken
    post,     \* in LWLockRelease: the process whose semaphore is to be posted
    calls,    \* history: calls made
    sent      \* history: posts for other reasons

lock == <<exclusive, shared, releaseOK, queue>>
callVars == <<call, mode, retry>>
waitVars == <<waiting, waitMode, sem, extra>>
wakeVars == <<woken, post>>
history == <<calls, sent>>
vars == <<lock, pc, callVars, waitVars, wakeVars, history>>

TypeOK ==
    /\ exclusive \in Nat /\ shared \in Nat /\ releaseOK \in BOOLEAN
    /\ queue \in Seq(Procs)
    /\ pc \in [Procs -> {"idle", "try", "sleep", "held", "wake"}]
    /\ call \in [Procs -> Calls] /\ mode \in [Procs -> Modes]
    /\ retry \subseteq Procs /\ waiting \subseteq Procs
    /\ waitMode \in [Procs -> WaitModes]
    /\ sem \in [Procs -> Nat] /\ extra \in [Procs -> Nat]
    /\ woken \in [Procs -> Seq(Procs)] /\ post \in [Procs -> SUBSET Procs]
    /\ calls \in [Procs -> 0 .. MaxCalls] /\ sent \in [Procs -> 0 .. 1]

Init ==
    /\ exclusive = 0 /\ shared = 0 /\ releaseOK = TRUE /\ queue = <<>>
    /\ pc = [p \in Procs |-> "idle"]
    /\ call = [p \in Procs |-> "LWLockAcquire"]
    /\ mode = [p \in Procs |-> "LW_SHARED"]
    /\ retry = {} /\ waiting = {}
    /\ waitMode = [p \in Procs |-> "LW_SHARED"]
    /\ sem = [p \in Procs |-> 0] /\ extra = [p \in Procs |-> 0]
    /\ woken = [p \in Procs |-> <<>>] /\ post = [p \in Procs |-> {}]
    /\ calls = [p \in Procs |-> 0] /\ sent = [p \in Procs |-> 0]

-----------------------------------------------------------------------------
(* Acquiring.                                                              *)

Begin(p, c, m) ==
    /\ pc[p] = "idle" /\ calls[p] < MaxCalls
    /\ pc' = [pc EXCEPT ![p] = "try"]
    /\ call' = [call EXCEPT ![p] = c] /\ mode' = [mode EXCEPT ![p] = m]
    /\ retry' = retry \ {p}
    /\ calls' = [calls EXCEPT ![p] = @ + 1]
    /\ UNCHANGED <<lock, waitVars, wakeVars, sent>>

\* Mutant: a lock that nobody waits for is taken to be free of shared holders.
AvailableIdle(m) ==
    exclusive = 0 /\ (m = "LW_EXCLUSIVE" => queue = <<>>)

\* "mustwait" is its negation.
Available(m) ==
    exclusive = 0 /\ (m = "LW_EXCLUSIVE" => shared = 0)

\* Mutant: a retry does not allow wakeups again.
ReleaseOKLost(p) == releaseOK

\* If retrying, LWLockRelease may wake up others again.
ReleaseOKAtTry(p) == releaseOK \/ p \in retry

\* Mutant: the wakeups absorbed while sleeping are forgotten.
TakeForgets(p) ==
    /\ pc[p] = "try" /\ Available(mode[p])
    /\ exclusive' = IF mode[p] = "LW_EXCLUSIVE" THEN exclusive + 1 ELSE exclusive
    /\ shared' = IF mode[p] = "LW_EXCLUSIVE" THEN shared ELSE shared + 1
    /\ releaseOK' = ReleaseOKAtTry(p)
    /\ pc' = [pc EXCEPT ![p] = "held"]
    /\ extra' = [extra EXCEPT ![p] = 0]
    /\ UNCHANGED <<queue, callVars, waiting, waitMode, sem, wakeVars, history>>

\* The lock is taken; wakeups absorbed while sleeping are posted again.
Take(p) ==
    /\ pc[p] = "try" /\ Available(mode[p])
    /\ exclusive' = IF mode[p] = "LW_EXCLUSIVE" THEN exclusive + 1 ELSE exclusive
    /\ shared' = IF mode[p] = "LW_EXCLUSIVE" THEN shared ELSE shared + 1
    /\ releaseOK' = ReleaseOKAtTry(p)
    /\ pc' = [pc EXCEPT ![p] = "held"]
    /\ sem' = [sem EXCEPT ![p] = @ + extra[p]]
    /\ extra' = [extra EXCEPT ![p] = 0]
    /\ UNCHANGED <<queue, callVars, waiting, waitMode, wakeVars, history>>

\* LWLockConditionalAcquire returns false.
Refuse(p) ==
    /\ pc[p] = "try" /\ ~Available(mode[p])
    /\ call[p] = "LWLockConditionalAcquire"
    /\ pc' = [pc EXCEPT ![p] = "idle"]
    /\ UNCHANGED <<lock, callVars, waitVars, wakeVars, history>>

\* The process joins the queue.
Enqueue(p) ==
    /\ pc[p] = "try" /\ ~Available(mode[p])
    /\ call[p] # "LWLockConditionalAcquire"
    /\ waiting' = waiting \cup {p}
    /\ waitMode' = [waitMode EXCEPT ![p] =
         IF call[p] = "LWLockAcquireOrWait" THEN "LW_WAIT_UNTIL_FREE" ELSE mode[p]]
    /\ queue' = Append(queue, p) /\ releaseOK' = ReleaseOKAtTry(p)
    /\ pc' = [pc EXCEPT ![p] = "sleep"]
    /\ UNCHANGED <<exclusive, shared, callVars, sem, extra, wakeVars, history>>

(***************************************************************************)
(* PGSemaphoreLock returns: to try again, to return without the lock, or,  *)
(* if the process has not been taken off the queue, to sleep again.        *)
(***************************************************************************)
SemaphoreLock(p) ==
    /\ pc[p] = "sleep" /\ sem[p] > 0
    /\ \/ /\ p \in waiting
          /\ sem' = [sem EXCEPT ![p] = @ - 1]
          /\ extra' = [extra EXCEPT ![p] = @ + 1]
          /\ UNCHANGED <<pc, retry>>
       \/ /\ p \notin waiting /\ call[p] = "LWLockAcquire"
          /\ sem' = [sem EXCEPT ![p] = @ - 1]
          /\ pc' = [pc EXCEPT ![p] = "try"] /\ retry' = retry \cup {p}
          /\ UNCHANGED extra
       \/ /\ p \notin waiting /\ call[p] # "LWLockAcquire"
          /\ sem' = [sem EXCEPT ![p] = @ - 1 + extra[p]]
          /\ extra' = [extra EXCEPT ![p] = 0]
          /\ pc' = [pc EXCEPT ![p] = "idle"]
          /\ UNCHANGED retry
    /\ UNCHANGED <<lock, call, mode, waiting, waitMode, wakeVars, history>>

-----------------------------------------------------------------------------
(* Releasing.                                                              *)

\* Mutant: those who wait until the lock is free are woken up alone.
LastWokenFree(q) ==
    LET front == {i \in DOMAIN q : \A j \in 1 .. i : waitMode[q[j]] = "LW_WAIT_UNTIL_FREE"}
    IN  IF front # {} THEN Cardinality(front) ELSE 1

(***************************************************************************)
(* How many of the queue are woken up: those in front who wait until the   *)
(* lock is free and the next one after them, and all who come before the   *)
(* first that wants the lock exclusively.                                  *)
(***************************************************************************)
LastWoken(q) ==
    Cardinality({i \in DOMAIN q :
        \/ \A j \in 1 .. i - 1 : waitMode[q[j]] = "LW_WAIT_UNTIL_FREE"
        \/ \A j \in 1 .. i : waitMode[q[j]] # "LW_EXCLUSIVE"})

\* What is left of the lock when one of its holders gives it up.
HoldsLeft ==
    IF exclusive > 0
      THEN [exclusive |-> exclusive - 1, shared |-> shared]
      ELSE [exclusive |-> 0, shared |-> shared - 1]

\* The lock is free now, somebody waits for it, and nobody is on his way to it.
Wakes == queue # <<>> /\ HoldsLeft.exclusive = 0 /\ HoldsLeft.shared = 0 /\ releaseOK

NumWoken == IF Wakes THEN LastWoken(queue) ELSE 0

(***************************************************************************)
(* LWLockRelease under the spinlock.  Those woken up are taken off the     *)
(* queue; if one of them will try again, no others are until it has.       *)
(***************************************************************************)
Release(p) ==
    /\ pc[p] = "held"
    /\ exclusive' = HoldsLeft.exclusive /\ shared' = HoldsLeft.shared
    /\ queue' = SubSeq(queue, NumWoken + 1, Len(queue))
    /\ releaseOK' = IF Wakes
                      THEN \A i \in 1 .. NumWoken :
                             waitMode[queue[i]] = "LW_WAIT_UNTIL_FREE"
                      ELSE releaseOK
    /\ woken' = [woken EXCEPT ![p] = SubSeq(queue, 1, NumWoken)]
    /\ pc' = [pc EXCEPT ![p] = IF NumWoken = 0 THEN "idle" ELSE "wake"]
    /\ UNCHANGED <<callVars, waitVars, post, history>>

\* lwWaiting is cleared.
Wake(p) ==
    /\ pc[p] = "wake" /\ post[p] = {} /\ woken[p] # <<>>
    /\ waiting' = waiting \ {Head(woken[p])}
    /\ post' = [post EXCEPT ![p] = {Head(woken[p])}]
    /\ woken' = [woken EXCEPT ![p] = Tail(@)]
    /\ UNCHANGED <<lock, pc, callVars, waitMode, sem, extra, history>>

\* PGSemaphoreUnlock; after the last one LWLockRelease returns.
Post(p) ==
    /\ pc[p] = "wake" /\ post[p] # {}
    /\ sem' = [q \in Procs |-> IF q \in post[p] THEN sem[q] + 1 ELSE sem[q]]
    /\ post' = [post EXCEPT ![p] = {}]
    /\ pc' = [pc EXCEPT ![p] = IF woken[p] = <<>> THEN "idle" ELSE "wake"]
    /\ UNCHANGED <<lock, callVars, waiting, waitMode, extra, woken, history>>

\* The semaphore is posted for another reason (ProcSendSignal, a heavyweight lock).
BogusWakeup(p) ==
    /\ sent[p] = 0 /\ Cardinality({q \in Procs : sent[q] > 0}) < MaxBogus
    /\ sent' = [sent EXCEPT ![p] = @ + 1]
    /\ sem' = [sem EXCEPT ![p] = @ + 1]
    /\ UNCHANGED <<lock, pc, callVars, waiting, waitMode, extra, wakeVars, calls>>

Step(p) ==
    \/ Take(p) \/ Refuse(p) \/ Enqueue(p) \/ SemaphoreLock(p)
    \/ Release(p) \/ Wake(p) \/ Post(p)

Next ==
    \E p \in Procs :
        \/ \E c \in Calls, m \in Modes : Begin(p, c, m)
        \/ Step(p) \/ BogusWakeup(p)

Spec == Init /\ [][Next]_vars

\* A process in a call goes on, and one that holds the lock releases it.
FairSpec == Spec /\ \A p \in Procs : WF_vars(Step(p))

-----------------------------------------------------------------------------
(* Properties.                                                             *)

Holders(m) == {p \in Procs : pc[p] = "held" /\ mode[p] = m}

(***************************************************************************)
(* Whoever holds the lock exclusively holds it alone.                      *)
(***************************************************************************)
MutualExclusion ==
    \A p \in Holders("LW_EXCLUSIVE") :
        Holders("LW_SHARED") = {} /\ Holders("LW_EXCLUSIVE") = {p}

\* Taken off the queue by a release and still to try the lock again.
Retrying(p) ==
    /\ call[p] = "LWLockAcquire"
    /\ \/ pc[p] = "try" /\ p \in retry
       \/ pc[p] = "sleep" /\ \A i \in DOMAIN queue : queue[i] # p

(***************************************************************************)
(* Nobody sleeps in the queue of a free lock unless some process that has  *)
(* been woken up is about to try it: no wakeup is lost, in particular not  *)
(* by releaseOK or by those who only wait until the lock is free.          *)
(***************************************************************************)
NoLostWakeup ==
    (exclusive = 0 /\ shared = 0 /\ queue # <<>>) =>
        \E p \in Procs : Retrying(p)

(***************************************************************************)
(* No count of a semaphore is lost or made up: apart from the one post     *)
(* that ends a process's sleep, it gets back all that were meant for other *)
(* mechanisms, even if it woke up by one of them before the post it was    *)
(* due.                                                                    *)
(***************************************************************************)
SignalsKept ==
    \A p \in Procs :
        sem[p] + extra[p] + Cardinality({q \in Procs : p \in post[q]})
          = sent[p] + (IF pc[p] = "sleep" /\ p \notin waiting THEN 1 ELSE 0)

(***************************************************************************)
(* Every call returns, given that the processes make finitely many calls   *)
(* and release what they hold: nobody sleeps for ever.                     *)
(***************************************************************************)
CallsReturn == \A p \in Procs : pc[p] # "idle" ~> pc[p] = "idle"
=============================================================================
