---------------------------- MODULE LWLockProofs ----------------------------
(***************************************************************************)
(* The lightweight lock for any number of processes: mutual exclusion, no  *)
(* wakeup is ever lost, and no signal meant for something else either.     *)
(***************************************************************************)
EXTENDS LWLock, FiniteSetTheorems, SequenceTheorems, TLAPS

USE ConstantsAssumption

-----------------------------------------------------------------------------
(* Sequences without repetitions.                                          *)

In(s, x) == \E i \in DOMAIN s : s[i] = x
Inj(s) == \A i, j \in DOMAIN s : s[i] = s[j] => i = j

LEMMA AppendIn ==
    ASSUME NEW s \in Seq(Procs), NEW p \in Procs
    PROVE  /\ Append(s, p) \in Seq(Procs)
           /\ \A x : In(Append(s, p), x) <=> In(s, x) \/ x = p
           /\ Inj(s) /\ ~In(s, p) => Inj(Append(s, p))
<1>1. /\ Append(s, p) \in Seq(Procs) /\ Len(s) \in Nat
      /\ DOMAIN s = 1 .. Len(s) /\ DOMAIN Append(s, p) = 1 .. Len(s) + 1
      /\ \A i \in 1 .. Len(s) : Append(s, p)[i] = s[i]
      /\ Append(s, p)[Len(s) + 1] = p
  BY AppendProperties, LenProperties
<1> DEFINE t == Append(s, p)
<1> HIDE DEF t
<1>2. \A i \in DOMAIN t : i \in DOMAIN s \/ i = Len(s) + 1
  BY <1>1 DEF t
<1>3. \A x : In(t, x) <=> In(s, x) \/ x = p
  <2>1. ASSUME NEW x, In(t, x) PROVE In(s, x) \/ x = p
    BY <2>1, <1>1, <1>2 DEF t, In
  <2>2. ASSUME NEW x, In(s, x) PROVE In(t, x)
    BY <2>2, <1>1 DEF t, In
  <2>3. In(t, p)
    BY <1>1 DEF t, In
  <2> QED
    BY <2>1, <2>2, <2>3
<1>4. ASSUME Inj(s), ~In(s, p) PROVE Inj(t)
  BY <1>1, <1>2, <1>4 DEF t, In, Inj
<1> QED
  BY <1>1, <1>3, <1>4 DEF t

LEMMA SplitIn ==
    ASSUME NEW s \in Seq(Procs), NEW n \in 0 .. Len(s), Inj(s)
    PROVE  LET a == SubSeq(s, 1, n)
               b == SubSeq(s, n + 1, Len(s))
           IN  /\ a \in Seq(Procs) /\ Inj(a)
               /\ b \in Seq(Procs) /\ Inj(b)
               /\ \A x : In(a, x) => In(s, x) /\ ~In(b, x)
               /\ \A x : In(b, x) => In(s, x)
               /\ \A x : In(s, x) => In(a, x) \/ In(b, x)
               /\ \A i \in 1 .. n : In(a, s[i])
               /\ n = 0 => b = s
               /\ n = Len(s) => b = <<>>
<1> DEFINE a == SubSeq(s, 1, n)
           b == SubSeq(s, n + 1, Len(s))
<1>1. Len(s) \in Nat /\ DOMAIN s = 1 .. Len(s) /\ \A i \in 1 .. Len(s) : s[i] \in Procs
  BY LenProperties, ElementOfSeq
<1>2. /\ a \in Seq(Procs) /\ Len(a) = n
      /\ \A i \in 1 .. n : a[i] = s[i]
  <2>1. \A i \in 1 .. n : s[i] \in Procs
    BY <1>1
  <2>2. 1 \in Int /\ n \in Int
    BY <1>1
  <2>3. /\ a \in Seq(Procs)
        /\ Len(a) = IF 1 <= n THEN n - 1 + 1 ELSE 0
        /\ \A i \in 1 .. n - 1 + 1 : a[i] = s[1 + i - 1]
    BY <2>1, <2>2, SubSeqProperties
  <2> HIDE DEF a
  <2> QED
    BY <2>2, <2>3, <1>1
<1>3. /\ b \in Seq(Procs) /\ Len(b) = Len(s) - n
      /\ \A i \in 1 .. Len(s) - n : b[i] = s[n + i]
  <2>1. \A i \in n + 1 .. Len(s) : s[i] \in Procs
    BY <1>1
  <2>2. n + 1 \in Int /\ Len(s) \in Int
    BY <1>1
  <2>3. /\ b \in Seq(Procs)
        /\ Len(b) = IF n + 1 <= Len(s) THEN Len(s) - (n + 1) + 1 ELSE 0
        /\ \A i \in 1 .. Len(s) - (n + 1) + 1 : b[i] = s[(n + 1) + i - 1]
    BY <2>1, <2>2, SubSeqProperties
  <2> HIDE DEF b
  <2>4. Len(b) = Len(s) - n
    <3>1. \A k, m \in Nat : m <= k =>
            (IF m + 1 <= k THEN k - (m + 1) + 1 ELSE 0) = k - m
      OBVIOUS
    <3>2. n \in Nat /\ n <= Len(s)
      BY <1>1
    <3> QED
      BY <2>3, <3>1, <3>2, <1>1, Zenon
  <2>5. Len(s) - (n + 1) + 1 = Len(s) - n
    BY <1>1
  <2>6. ASSUME NEW i \in 1 .. Len(s) - n PROVE b[i] = s[n + i]
    <3>1. (n + 1) + i - 1 = n + i
      BY <1>1
    <3>2. b[i] = s[(n + 1) + i - 1]
      BY <2>3, <2>5
    <3> QED
      BY <3>1, <3>2
  <2> QED
    BY <2>3, <2>4, <2>6
<1> HIDE DEF a, b
<1>4. DOMAIN a = 1 .. n /\ DOMAIN b = 1 .. Len(s) - n
  BY <1>2, <1>3, LenProperties
<1>5. Inj(a)
  BY <1>1, <1>2, <1>4 DEF Inj
<1>6. Inj(b)
  <2> SUFFICES ASSUME NEW i \in 1 .. Len(s) - n, NEW j \in 1 .. Len(s) - n, b[i] = b[j]
               PROVE  i = j
    BY <1>4 DEF Inj
  <2>1. n + i \in 1 .. Len(s) /\ n + j \in 1 .. Len(s)
    BY <1>1
  <2>2. s[n + i] = s[n + j]
    BY <1>3
  <2>3. n + i = n + j
    BY <2>1, <2>2, <1>1 DEF Inj
  <2> QED
    BY <2>3
<1>7. ASSUME NEW x, In(a, x) PROVE In(s, x) /\ ~In(b, x)
  <2>1. PICK i \in 1 .. n : s[i] = x
    BY <1>2, <1>4, <1>7 DEF In
  <2>2. In(s, x)
    BY <2>1, <1>1 DEF In
  <2>3. ASSUME NEW j \in DOMAIN b, b[j] = x PROVE FALSE
    <3>1. j \in 1 .. Len(s) - n /\ s[n + j] = x
      BY <2>3, <1>3, <1>4
    <3>2. n + j \in 1 .. Len(s) /\ i \in 1 .. Len(s) /\ n + j # i
      BY <3>1, <1>1
    <3> QED
      BY <3>1, <3>2, <2>1, <1>1 DEF Inj
  <2> QED
    BY <2>2, <2>3 DEF In
<1>8. ASSUME NEW x, In(b, x) PROVE In(s, x)
  <2>1. PICK j \in 1 .. Len(s) - n : s[n + j] = x
    BY <1>3, <1>4, <1>8 DEF In
  <2>2. n + j \in 1 .. Len(s)
    BY <1>1
  <2> QED
    BY <2>1, <2>2, <1>1 DEF In
<1>9. ASSUME NEW x, In(s, x) PROVE In(a, x) \/ In(b, x)
  <2>1. PICK i \in 1 .. Len(s) : s[i] = x
    BY <1>1, <1>9 DEF In
  <2>2. CASE i <= n
    BY <2>1, <2>2, <1>1, <1>2, <1>4 DEF In
  <2>3. CASE ~(i <= n)
    <3>1. i - n \in 1 .. Len(s) - n /\ n + (i - n) = i
      BY <2>3, <1>1
    <3> QED
      BY <3>1, <2>1, <1>3, <1>4 DEF In
  <2> QED
    BY <2>2, <2>3
<1>10. \A i \in 1 .. n : In(a, s[i])
  BY <1>2, <1>4 DEF In
<1>11. n = 0 => b = s
  BY <1>1, <1>3, SeqEqual
<1>12. n = Len(s) => b = <<>>
  BY <1>1, <1>3, EmptySeq
<1> QED
  BY <1>2, <1>3, <1>5, <1>6, <1>7, <1>8, <1>9, <1>10, <1>11, <1>12 DEF a, b

LEMMA TailIn ==
    ASSUME NEW s \in Seq(Procs), s # <<>>, Inj(s)
    PROVE  /\ Head(s) \in Procs /\ In(s, Head(s))
           /\ Tail(s) \in Seq(Procs) /\ Inj(Tail(s)) /\ ~In(Tail(s), Head(s))
           /\ \A x : In(Tail(s), x) => In(s, x)
<1>1. Len(s) \in Nat \ {0} /\ DOMAIN s = 1 .. Len(s)
  BY EmptySeq, LenProperties
<1>2. /\ Head(s) \in Procs /\ Tail(s) \in Seq(Procs)
      /\ Len(Tail(s)) = Len(s) - 1
      /\ \A i \in 1 .. Len(Tail(s)) : Tail(s)[i] = s[i + 1]
  BY HeadTailProperties
<1>3. Head(s) = s[1]
  OBVIOUS
<1> DEFINE t == Tail(s)
<1>4. DOMAIN t = 1 .. Len(s) - 1 /\ \A i \in 1 .. Len(s) - 1 : t[i] = s[i + 1]
  BY <1>2, LenProperties
<1> HIDE DEF t
<1>5. \A i \in 1 .. Len(s) - 1 : i + 1 \in 1 .. Len(s) /\ i + 1 # 1
  BY <1>1
<1>6. In(s, Head(s)) /\ ~In(t, Head(s))
  BY <1>1, <1>3, <1>4, <1>5 DEF In, Inj
<1>7. Inj(t)
  BY <1>1, <1>4, <1>5 DEF Inj
<1>8. \A x : In(t, x) => In(s, x)
  BY <1>1, <1>4, <1>5 DEF In
<1> QED
  BY <1>2, <1>6, <1>7, <1>8 DEF t

-----------------------------------------------------------------------------
(* The invariant.                                                          *)

\* The counters of the lock are the numbers of its holders.
Counts ==
    /\ exclusive = Cardinality(Holders("LW_EXCLUSIVE"))
    /\ shared = Cardinality(Holders("LW_SHARED"))

\* Who is in the queue sleeps, waits, and will try again unless it only waits
\* until the lock is free.
QueueInv ==
    /\ Inj(queue)
    /\ \A x \in Procs : In(queue, x) =>
          /\ pc[x] = "sleep" /\ x \in waiting
          /\ waitMode[x] # "LW_WAIT_UNTIL_FREE" => call[x] = "LWLockAcquire"

\* Who has been taken off the queue and not been told yet sleeps, still marked
\* as waiting, and exactly one releaser will wake it.
WokenInv ==
    /\ \A p \in Procs : Inj(woken[p])
    /\ \A p, x \in Procs : In(woken[p], x) =>
          pc[x] = "sleep" /\ x \in waiting /\ ~In(queue, x)
    /\ \A p, q, x \in Procs : In(woken[p], x) /\ In(woken[q], x) => p = q

\* Wakeups are held back only while a woken process is on its way to the lock.
RetryInv == ~releaseOK => \E p \in Procs : Retrying(p)

IInv ==
    /\ TypeOK /\ Counts /\ MutualExclusion
    /\ QueueInv /\ WokenInv /\ RetryInv /\ NoLostWakeup

(***************************************************************************)
(* The number of processes LWLockRelease wakes: at least one of a queue    *)
(* that is not empty, and all of it if none of them will try again.        *)
(***************************************************************************)
LEMMA LastWokenBounds ==
    ASSUME queue \in Seq(Procs)
    PROVE  /\ LastWoken(queue) \in 0 .. Len(queue)
           /\ queue # <<>> => LastWoken(queue) > 0
           /\ (\A i \in 1 .. LastWoken(queue) : waitMode[queue[i]] = "LW_WAIT_UNTIL_FREE")
                => LastWoken(queue) = Len(queue)
<1> DEFINE S == {i \in DOMAIN queue :
                   \/ \A j \in 1 .. i - 1 : waitMode[queue[j]] = "LW_WAIT_UNTIL_FREE"
                   \/ \A j \in 1 .. i : waitMode[queue[j]] # "LW_EXCLUSIVE"}
           n == Cardinality(S)
<1>1. Len(queue) \in Nat /\ DOMAIN queue = 1 .. Len(queue)
  BY LenProperties
<1>2. IsFiniteSet(1 .. Len(queue)) /\ Cardinality(1 .. Len(queue)) = Len(queue)
  BY <1>1, FS_Interval
<1>3. S \subseteq 1 .. Len(queue)
  BY <1>1
<1>4. IsFiniteSet(S) /\ n \in Nat /\ n <= Len(queue)
  BY <1>2, <1>3, FS_Subset, FS_CardinalityType
<1>5. LastWoken(queue) = n
  BY DEF LastWoken
<1>6. ASSUME queue # <<>> PROVE n > 0
  <2>1. 1 \in DOMAIN queue
    BY <1>1, <1>6, EmptySeq
  <2>2. 1 \in S
    BY <2>1
  <2> HIDE DEF S
  <2>3. S # {}
    BY <2>2
  <2> QED
    BY <2>3, <1>4, FS_EmptySet
<1>7. ASSUME \A i \in 1 .. n : waitMode[queue[i]] = "LW_WAIT_UNTIL_FREE", n < Len(queue)
      PROVE  FALSE
  <2>1. ASSUME NEW i \in 1 .. n + 1 PROVE i \in S
    <3> HIDE DEF n
    <3>1. i \in DOMAIN queue
      BY <1>1, <1>4, <1>7
    <3>2. \A j \in 1 .. i - 1 : j \in 1 .. n
      BY <1>4
    <3>3. \A j \in 1 .. i - 1 : waitMode[queue[j]] = "LW_WAIT_UNTIL_FREE"
      BY <3>2, <1>7
    <3> QED
      BY <3>1, <3>3
  <2>2. 1 .. n + 1 \subseteq S
    BY <2>1
  <2>3. Cardinality(1 .. n + 1) = n + 1
    BY <1>4, FS_Interval
  <2>4. Cardinality(1 .. n + 1) <= n
    BY <2>2, <1>4, FS_Subset
  <2> HIDE DEF n
  <2> QED
    BY <2>3, <2>4, <1>4
<1> HIDE DEF S, n
<1>8. ASSUME \A i \in 1 .. n : waitMode[queue[i]] = "LW_WAIT_UNTIL_FREE"
      PROVE  n = Len(queue)
  <2>1. ~(n < Len(queue))
    BY <1>7, <1>8, Zenon
  <2>2. \A a, b \in Nat : a <= b /\ ~(a < b) => a = b
    OBVIOUS
  <2> QED
    BY <2>1, <2>2, <1>1, <1>4, Zenon
<1>9. n \in 0 .. Len(queue)
  BY <1>1, <1>4
<1> QED
  BY <1>5, <1>6, <1>8, <1>9, Zenon

-----------------------------------------------------------------------------
(* Mutual exclusion: the counters follow the sets of holders.              *)

LEMMA HoldersFinite ==
    ASSUME NEW m
    PROVE  IsFiniteSet(Holders(m)) /\ Cardinality(Holders(m)) \in Nat
<1>1. Holders(m) \subseteq Procs
  BY DEF Holders
<1> QED
  BY <1>1, FS_Subset, FS_CardinalityType

\* What the counters say of the holders.
LEMMA CountsMean ==
    ASSUME Counts
    PROVE  /\ exclusive \in Nat /\ shared \in Nat
           /\ exclusive = 0 <=> Holders("LW_EXCLUSIVE") = {}
           /\ shared = 0 <=> Holders("LW_SHARED") = {}
BY HoldersFinite, FS_EmptySet DEF Counts

\* A step that leaves the holders and the counters alone.
LEMMA HoldersKept ==
    ASSUME Counts, MutualExclusion, UNCHANGED <<exclusive, shared>>,
           \A q \in Procs : pc'[q] = "held" <=> pc[q] = "held",
           \A q \in Procs : pc[q] = "held" => mode'[q] = mode[q]
    PROVE  Counts' /\ MutualExclusion'
<1>1. Holders("LW_EXCLUSIVE")' = Holders("LW_EXCLUSIVE")
      /\ Holders("LW_SHARED")' = Holders("LW_SHARED")
  BY DEF Holders
<1> QED
  BY <1>1 DEF Counts, MutualExclusion

LEMMA TakeHolds ==
    ASSUME TypeOK, Counts, MutualExclusion, NEW p \in Procs, Take(p)
    PROVE  /\ Counts' /\ MutualExclusion'
           /\ exclusive' \in Nat /\ shared' \in Nat
           /\ ~(exclusive' = 0 /\ shared' = 0)
<1>1. pc[p] = "try" /\ pc' = [pc EXCEPT ![p] = "held"] /\ mode' = mode
  BY DEF Take, callVars
<1>2. \A q \in Procs : pc'[q] = IF q = p THEN "held" ELSE pc[q]
  BY <1>1 DEF TypeOK
<1>3. mode[p] \in Modes
  BY DEF TypeOK
<1>4. exclusive = 0 /\ Holders("LW_EXCLUSIVE") = {}
  BY CountsMean DEF Take, Available
<1>5. CASE mode[p] = "LW_EXCLUSIVE"
  <2>1. shared = 0 /\ Holders("LW_SHARED") = {}
    BY <1>5, CountsMean DEF Take, Available
  <2>2. exclusive' = 1 /\ shared' = 0
    BY <1>4, <1>5, <2>1 DEF Take
  <2>3. Holders("LW_EXCLUSIVE")' = {p} /\ Holders("LW_SHARED")' = {}
    BY <1>1, <1>2, <1>4, <1>5, <2>1 DEF Holders
  <2>4. Counts'
    BY <2>2, <2>3, FS_Singleton, FS_EmptySet DEF Counts
  <2> QED
    BY <2>2, <2>3, <2>4 DEF MutualExclusion
<1>6. CASE mode[p] = "LW_SHARED"
  <2>1. exclusive' = 0 /\ shared' = shared + 1
    BY <1>4, <1>6 DEF Take
  <2>2. Holders("LW_EXCLUSIVE")' = {} /\ Holders("LW_SHARED")' = Holders("LW_SHARED") \cup {p}
    BY <1>1, <1>2, <1>4, <1>6 DEF Holders
  <2>3. p \notin Holders("LW_SHARED")
    BY <1>1 DEF Holders
  <2>4. Cardinality(Holders("LW_SHARED") \cup {p}) = Cardinality(Holders("LW_SHARED")) + 1
    BY <2>3, HoldersFinite, FS_AddElement
  <2>5. Counts'
    BY <2>1, <2>2, <2>4, FS_EmptySet DEF Counts
  <2> QED
    BY <2>1, <2>2, <2>5, CountsMean DEF MutualExclusion
<1> QED
  BY <1>3, <1>5, <1>6 DEF Modes

LEMMA ReleaseHolds ==
    ASSUME TypeOK, Counts, MutualExclusion, NEW p \in Procs, Release(p)
    PROVE  /\ Counts' /\ MutualExclusion'
           /\ exclusive' \in Nat /\ shared' \in Nat
<1>1. pc[p] = "held" /\ mode' = mode
      /\ pc' = [pc EXCEPT ![p] = IF NumWoken = 0 THEN "idle" ELSE "wake"]
  BY DEF Release, callVars
<1>2. pc'[p] # "held" /\ \A q \in Procs \ {p} : pc'[q] = pc[q]
  BY <1>1 DEF TypeOK
<1>3. /\ Holders("LW_EXCLUSIVE")' = Holders("LW_EXCLUSIVE") \ {p}
      /\ Holders("LW_SHARED")' = Holders("LW_SHARED") \ {p}
  BY <1>1, <1>2 DEF Holders
<1>4. mode[p] \in Modes
  BY DEF TypeOK
<1>5. CASE exclusive > 0
  <2>1. Holders("LW_EXCLUSIVE") # {}
    BY <1>5, CountsMean
  <2>2. Holders("LW_SHARED") = {}
    BY <2>1 DEF MutualExclusion
  <2>3. p \in Holders("LW_EXCLUSIVE")
    BY <1>1, <1>4, <2>2 DEF Holders, Modes
  <2>4. Holders("LW_EXCLUSIVE") = {p}
    BY <2>3 DEF MutualExclusion
  <2>5. exclusive = 1 /\ shared = 0
    BY <2>2, <2>4, FS_Singleton, FS_EmptySet DEF Counts
  <2>6. exclusive' = 0 /\ shared' = 0
    BY <2>5 DEF Release, HoldsLeft
  <2>7. Holders("LW_EXCLUSIVE")' = {} /\ Holders("LW_SHARED")' = {}
    BY <1>3, <2>2, <2>4
  <2> QED
    BY <2>6, <2>7, FS_EmptySet DEF Counts, MutualExclusion
<1>6. CASE exclusive = 0
  <2>1. Holders("LW_EXCLUSIVE") = {}
    BY <1>6, CountsMean
  <2>2. p \in Holders("LW_SHARED")
    BY <1>1, <1>4, <2>1 DEF Holders, Modes
  <2>3. exclusive' = 0 /\ shared' = shared - 1
    BY <1>6 DEF Release, HoldsLeft
  <2>4. Cardinality(Holders("LW_SHARED") \ {p}) = Cardinality(Holders("LW_SHARED")) - 1
    BY <2>2, HoldersFinite, FS_RemoveElement
  <2>5. Holders("LW_EXCLUSIVE")' = {}
    BY <1>3, <2>1
  <2>6. Counts' /\ MutualExclusion'
    BY <1>3, <2>3, <2>4, <2>5, FS_EmptySet DEF Counts, MutualExclusion
  <2>7. shared # 0
    BY <2>2, CountsMean
  <2> QED
    BY <2>3, <2>6, <2>7, CountsMean
<1> QED
  BY <1>5, <1>6, CountsMean

-----------------------------------------------------------------------------
(* Types.                                                                  *)

LEMMA TypeInit == ASSUME Init PROVE TypeOK
<1>1. <<>> \in Seq(Procs)
  BY EmptySeq
<1> QED
  BY <1>1 DEF Init, TypeOK, Calls, Modes, WaitModes

\* The parts LWLockRelease cuts the queue into.
LEMMA ReleaseSplits ==
    ASSUME TypeOK, QueueInv, NEW p \in Procs, Release(p)
    PROVE  LET a == SubSeq(queue, 1, NumWoken)
           IN  /\ NumWoken \in 0 .. Len(queue)
               /\ queue' \in Seq(Procs) /\ Inj(queue')
               /\ a \in Seq(Procs) /\ Inj(a)
               /\ woken'[p] = a /\ woken' = [woken EXCEPT ![p] = a]
               /\ \A x : In(a, x) => In(queue, x) /\ ~In(queue', x)
               /\ \A x : In(queue', x) => In(queue, x)
               /\ \A i \in 1 .. NumWoken : In(a, queue[i])
               /\ NumWoken = 0 => queue' = queue
               /\ NumWoken = Len(queue) => queue' = <<>>
<1>1. queue \in Seq(Procs) /\ Inj(queue)
  BY DEF TypeOK, QueueInv
<1>2. NumWoken \in 0 .. Len(queue)
  BY <1>1, LastWokenBounds, LenProperties DEF NumWoken
<1>3. queue' = SubSeq(queue, NumWoken + 1, Len(queue))
      /\ woken' = [woken EXCEPT ![p] = SubSeq(queue, 1, NumWoken)]
  BY DEF Release
<1>4. woken'[p] = SubSeq(queue, 1, NumWoken)
  BY <1>3 DEF TypeOK
<1> QED
  BY <1>1, <1>2, <1>3, <1>4, SplitIn

LEMMA TypeStep ==
    ASSUME TypeOK, Counts, MutualExclusion, QueueInv, WokenInv, NEW p \in Procs,
           \/ \E c \in Calls, m \in Modes : Begin(p, c, m)
           \/ Step(p) \/ BogusWakeup(p)
    PROVE  TypeOK'
<1>1. ASSUME NEW c \in Calls, NEW m \in Modes, Begin(p, c, m) PROVE TypeOK'
  BY <1>1 DEF Begin, TypeOK, lock, waitVars, wakeVars
<1>2. CASE Take(p)
  <2>1. exclusive' \in Nat /\ shared' \in Nat
    BY <1>2, TakeHolds
  <2>2. releaseOK' \in BOOLEAN
    BY <1>2 DEF Take, ReleaseOKAtTry
  <2>3. pc' \in [Procs -> {"idle", "try", "sleep", "held", "wake"}]
        /\ sem' \in [Procs -> Nat] /\ extra' \in [Procs -> Nat]
    BY <1>2 DEF Take, TypeOK
  <2> QED
    BY <1>2, <2>1, <2>2, <2>3 DEF Take, TypeOK, callVars, wakeVars, history
<1>3. CASE Refuse(p)
  BY <1>3 DEF Refuse, TypeOK, lock, callVars, waitVars, wakeVars, history
<1>4. CASE Enqueue(p)
  <2>1. queue' \in Seq(Procs)
    BY <1>4, AppendIn DEF Enqueue, TypeOK
  <2>2. releaseOK' \in BOOLEAN
    BY <1>4 DEF Enqueue, ReleaseOKAtTry
  <2>3. waitMode' \in [Procs -> WaitModes]
    BY <1>4 DEF Enqueue, TypeOK, WaitModes
  <2>4. pc' \in [Procs -> {"idle", "try", "sleep", "held", "wake"}]
        /\ waiting' \subseteq Procs
    BY <1>4 DEF Enqueue, TypeOK
  <2> QED
    BY <1>4, <2>1, <2>2, <2>3, <2>4 DEF Enqueue, TypeOK, callVars, wakeVars, history
<1>5. CASE SemaphoreLock(p)
  <2>1. sem \in [Procs -> Nat] /\ extra \in [Procs -> Nat] /\ retry \subseteq Procs
        /\ pc \in [Procs -> {"idle", "try", "sleep", "held", "wake"}]
    BY DEF TypeOK
  <2>a. sem[p] - 1 \in Nat /\ sem[p] - 1 + extra[p] \in Nat /\ extra[p] + 1 \in Nat
    <3>1. sem[p] \in Nat /\ sem[p] > 0 /\ extra[p] \in Nat
      BY <1>5, <2>1 DEF SemaphoreLock
    <3> QED
      BY <3>1
  <2>2. sem' \in [Procs -> Nat] /\ extra' \in [Procs -> Nat] /\ retry' \subseteq Procs
        /\ pc' \in [Procs -> {"idle", "try", "sleep", "held", "wake"}]
    <3>1. CASE p \in waiting
      <4>1. sem' = [sem EXCEPT ![p] = sem[p] - 1] /\ extra' = [extra EXCEPT ![p] = extra[p] + 1]
            /\ pc' = pc /\ retry' = retry
        BY <1>5, <3>1 DEF SemaphoreLock
      <4> QED
        BY <2>1, <2>a, <4>1, Zenon
    <3>2. CASE p \notin waiting /\ call[p] = "LWLockAcquire"
      <4>1. sem' = [sem EXCEPT ![p] = sem[p] - 1] /\ extra' = extra
            /\ pc' = [pc EXCEPT ![p] = "try"] /\ retry' = retry \cup {p}
        BY <1>5, <3>2 DEF SemaphoreLock
      <4> QED
        BY <2>1, <2>a, <4>1
    <3>3. CASE p \notin waiting /\ call[p] # "LWLockAcquire"
      <4>1. sem' = [sem EXCEPT ![p] = sem[p] - 1 + extra[p]] /\ extra' = [extra EXCEPT ![p] = 0]
            /\ pc' = [pc EXCEPT ![p] = "idle"] /\ retry' = retry
        BY <1>5, <3>3 DEF SemaphoreLock
      <4> QED
        BY <2>1, <2>a, <4>1
    <3> QED
      BY <3>1, <3>2, <3>3
  <2> QED
    BY <1>5, <2>2 DEF SemaphoreLock, TypeOK, lock, wakeVars, history
<1>6. CASE Release(p)
  <2>1. exclusive' \in Nat /\ shared' \in Nat
    BY <1>6, ReleaseHolds
  <2>2. releaseOK' \in BOOLEAN
    BY <1>6 DEF Release, TypeOK
  <2>3. queue' \in Seq(Procs) /\ woken' \in [Procs -> Seq(Procs)]
    BY <1>6, ReleaseSplits DEF TypeOK
  <2>4. pc' \in [Procs -> {"idle", "try", "sleep", "held", "wake"}]
    BY <1>6 DEF Release, TypeOK
  <2> QED
    BY <1>6, <2>1, <2>2, <2>3, <2>4 DEF Release, TypeOK, callVars, waitVars, history
<1>7. CASE Wake(p)
  <2>1. Head(woken[p]) \in Procs /\ Tail(woken[p]) \in Seq(Procs)
    BY <1>7, HeadTailProperties DEF Wake, TypeOK
  <2>2. waiting' \subseteq Procs /\ woken' \in [Procs -> Seq(Procs)]
        /\ post' \in [Procs -> SUBSET Procs]
    BY <1>7, <2>1 DEF Wake, TypeOK
  <2> QED
    BY <1>7, <2>2 DEF Wake, TypeOK, lock, callVars, history
<1>8. CASE Post(p)
  <2>1. sem' \in [Procs -> Nat] /\ post' \in [Procs -> SUBSET Procs]
        /\ pc' \in [Procs -> {"idle", "try", "sleep", "held", "wake"}]
    BY <1>8 DEF Post, TypeOK
  <2> QED
    BY <1>8, <2>1 DEF Post, TypeOK, lock, callVars, history
<1>9. CASE BogusWakeup(p)
  BY <1>9 DEF BogusWakeup, TypeOK, lock, callVars, wakeVars
<1> QED
  BY <1>1, <1>2, <1>3, <1>4, <1>5, <1>6, <1>7, <1>8, <1>9 DEF Step

-----------------------------------------------------------------------------
(* No lost wakeup.                                                         *)

WakeInv == QueueInv /\ WokenInv /\ RetryInv /\ NoLostWakeup

\* A step of a process that neither sleeps nor is on its way back to the lock,
\* and that leaves the lock, its queue and those to be woken alone.
LEMMA QuietStep ==
    ASSUME TypeOK, WakeInv, NEW p \in Procs,
           UNCHANGED <<exclusive, shared, releaseOK, queue, woken, waitMode, waiting>>,
           pc[p] # "sleep", ~Retrying(p),
           \A q \in Procs \ {p} :
              pc'[q] = pc[q] /\ call'[q] = call[q] /\ (q \in retry' <=> q \in retry)
    PROVE  WakeInv'
<1>1. QueueInv'
  BY DEF WakeInv, QueueInv
<1>2. WokenInv'
  BY DEF WakeInv, WokenInv
<1>3. \A q \in Procs : Retrying(q) => Retrying(q)'
  BY DEF Retrying
<1>4. RetryInv' /\ NoLostWakeup'
  BY <1>3 DEF WakeInv, RetryInv, NoLostWakeup
<1> QED
  BY <1>1, <1>2, <1>4 DEF WakeInv

LEMMA TakeWakes ==
    ASSUME TypeOK, Counts, MutualExclusion, WakeInv, NEW p \in Procs, Take(p)
    PROVE  WakeInv'
<1>1. /\ pc[p] = "try" /\ pc' = [pc EXCEPT ![p] = "held"]
      /\ releaseOK' = (releaseOK \/ p \in retry)
      /\ UNCHANGED <<queue, call, mode, retry, waiting, waitMode, woken>>
  BY DEF Take, ReleaseOKAtTry, callVars, wakeVars
<1>2. \A q \in Procs \ {p} : pc'[q] = pc[q]
  BY <1>1 DEF TypeOK
<1>3. QueueInv' /\ WokenInv'
  BY <1>1, <1>2 DEF WakeInv, QueueInv, WokenInv
<1>4. ASSUME ~releaseOK' PROVE \E q \in Procs : Retrying(q)'
  <2>1. ~releaseOK /\ p \notin retry
    BY <1>1, <1>4
  <2>2. PICK q \in Procs : Retrying(q)
    BY <2>1 DEF WakeInv, RetryInv
  <2>3. q # p
    BY <1>1, <2>1, <2>2 DEF Retrying
  <2>4. Retrying(q)'
    BY <1>1, <1>2, <2>2, <2>3 DEF Retrying
  <2> QED
    BY <2>4
<1>5. NoLostWakeup'
  BY TakeHolds DEF NoLostWakeup
<1> QED
  BY <1>3, <1>4, <1>5 DEF WakeInv, RetryInv

LEMMA EnqueueWakes ==
    ASSUME TypeOK, Counts, WakeInv, NEW p \in Procs, Enqueue(p)
    PROVE  WakeInv'
<1>1. /\ pc[p] = "try" /\ pc' = [pc EXCEPT ![p] = "sleep"]
      /\ releaseOK' = (releaseOK \/ p \in retry)
      /\ queue' = Append(queue, p) /\ waiting' = waiting \cup {p}
      /\ UNCHANGED <<exclusive, shared, call, mode, retry, woken>>
  BY DEF Enqueue, ReleaseOKAtTry, callVars, wakeVars
<1>2. pc'[p] = "sleep" /\ \A q \in Procs \ {p} : pc'[q] = pc[q]
  BY <1>1 DEF TypeOK
<1>3. /\ \A q \in Procs \ {p} : waitMode'[q] = waitMode[q]
      /\ waitMode'[p] # "LW_WAIT_UNTIL_FREE" => call[p] = "LWLockAcquire"
  <2>1. call[p] \in {"LWLockAcquire", "LWLockAcquireOrWait"}
    BY DEF Enqueue, TypeOK, Calls
  <2> QED
    BY <2>1 DEF Enqueue, TypeOK
<1>4. ~In(queue, p) /\ \A q \in Procs : ~In(woken[q], p)
  BY <1>1 DEF WakeInv, QueueInv, WokenInv
<1>5. Inj(queue') /\ \A x : In(queue', x) <=> In(queue, x) \/ x = p
  BY <1>1, <1>4, AppendIn DEF TypeOK, WakeInv, QueueInv
<1>6. QueueInv'
  BY <1>1, <1>2, <1>3, <1>5 DEF WakeInv, QueueInv
<1>7. WokenInv'
  BY <1>1, <1>2, <1>4, <1>5 DEF WakeInv, WokenInv
<1>8. ASSUME ~releaseOK' PROVE \E q \in Procs : Retrying(q)'
  <2>1. ~releaseOK /\ p \notin retry
    BY <1>1, <1>8
  <2>2. PICK q \in Procs : Retrying(q)
    BY <2>1 DEF WakeInv, RetryInv
  <2>3. q # p
    BY <1>1, <2>1, <2>2 DEF Retrying
  <2>4. Retrying(q)'
    BY <1>1, <1>2, <1>5, <2>2, <2>3 DEF Retrying, In
  <2> QED
    BY <2>4
<1>9. NoLostWakeup'
  <2>1. ~(exclusive = 0 /\ shared = 0)
    BY DEF Enqueue, Available
  <2> QED
    BY <1>1, <2>1 DEF NoLostWakeup
<1> QED
  BY <1>6, <1>7, <1>8, <1>9 DEF WakeInv, RetryInv

LEMMA SemaphoreWakes ==
    ASSUME TypeOK, WakeInv, NEW p \in Procs, SemaphoreLock(p)
    PROVE  WakeInv'
<1>1. /\ pc[p] = "sleep"
      /\ UNCHANGED <<exclusive, shared, releaseOK, queue, call, waiting, waitMode, woken>>
  BY DEF SemaphoreLock, lock, wakeVars
<1>2. CASE p \in waiting
  <2>1. UNCHANGED <<pc, retry>>
    BY <1>2 DEF SemaphoreLock
  <2> QED
    BY <1>1, <2>1 DEF WakeInv, QueueInv, WokenInv, RetryInv, NoLostWakeup, Retrying
<1>3. CASE p \notin waiting
  <2>1. ~In(queue, p) /\ \A q \in Procs : ~In(woken[q], p)
    BY <1>3 DEF WakeInv, QueueInv, WokenInv
  <2>2. \A q \in Procs \ {p} : pc'[q] = pc[q] /\ (q \in retry' <=> q \in retry)
    BY <1>3 DEF SemaphoreLock, TypeOK
  <2>3. QueueInv' /\ WokenInv'
    BY <1>1, <2>1, <2>2 DEF WakeInv, QueueInv, WokenInv
  <2>4. \A q \in Procs \ {p} : Retrying(q) => Retrying(q)'
    BY <1>1, <2>2 DEF Retrying
  <2>5. Retrying(p) => Retrying(p)'
    <3>1. CASE call[p] = "LWLockAcquire"
      BY <1>1, <1>3, <3>1 DEF SemaphoreLock, Retrying, TypeOK
    <3>2. CASE call[p] # "LWLockAcquire"
      BY <3>2 DEF Retrying
    <3> QED
      BY <3>1, <3>2
  <2>6. RetryInv' /\ NoLostWakeup'
    BY <1>1, <2>4, <2>5 DEF WakeInv, RetryInv, NoLostWakeup
  <2> QED
    BY <2>3, <2>6 DEF WakeInv
<1> QED
  BY <1>2, <1>3

LEMMA ReleaseWakes ==
    ASSUME TypeOK, WakeInv, NEW p \in Procs, Release(p)
    PROVE  WakeInv'
<1> DEFINE a == SubSeq(queue, 1, NumWoken)
<1>1. /\ pc[p] = "held" /\ UNCHANGED <<call, retry, waiting, waitMode>>
      /\ \A q \in Procs \ {p} : pc'[q] = pc[q]
  BY DEF Release, callVars, waitVars, TypeOK
<1>2. /\ NumWoken \in 0 .. Len(queue)
      /\ queue' \in Seq(Procs) /\ Inj(queue')
      /\ a \in Seq(Procs) /\ Inj(a)
      /\ woken'[p] = a /\ woken' = [woken EXCEPT ![p] = a]
      /\ \A x : In(a, x) => In(queue, x) /\ ~In(queue', x)
      /\ \A x : In(queue', x) => In(queue, x)
      /\ \A i \in 1 .. NumWoken : In(a, queue[i])
      /\ NumWoken = 0 => queue' = queue
      /\ NumWoken = Len(queue) => queue' = <<>>
  BY ReleaseSplits DEF WakeInv
<1> HIDE DEF a
<1>3. \A q \in Procs \ {p} : woken'[q] = woken[q]
  BY <1>2 DEF TypeOK
<1>4. QueueInv'
  BY <1>1, <1>2 DEF WakeInv, QueueInv
<1>5. WokenInv'
  <2>1. \A q \in Procs : Inj(woken'[q])
    BY <1>2, <1>3 DEF WakeInv, WokenInv
  <2>2. ASSUME NEW q \in Procs, NEW x \in Procs, In(woken'[q], x)
        PROVE  pc'[x] = "sleep" /\ x \in waiting' /\ ~In(queue', x)
    <3>1. CASE q = p
      BY <1>1, <1>2, <2>2, <3>1 DEF WakeInv, QueueInv
    <3>2. CASE q # p
      BY <1>1, <1>2, <1>3, <2>2, <3>2 DEF WakeInv, WokenInv
    <3> QED
      BY <3>1, <3>2
  <2>3. ASSUME NEW q \in Procs, NEW r \in Procs, NEW x \in Procs,
               In(woken'[q], x), In(woken'[r], x)
        PROVE  q = r
    <3>1. \A s \in Procs \ {p} : In(woken'[s], x) => ~In(a, x)
      BY <1>2, <1>3 DEF WakeInv, WokenInv
    <3>2. CASE q # p /\ r # p
      BY <1>3, <2>3, <3>2 DEF WakeInv, WokenInv
    <3> QED
      BY <1>2, <2>3, <3>1, <3>2
  <2> QED
    BY <2>1, <2>2, <2>3 DEF WokenInv
<1>6. \A q \in Procs : Retrying(q) => Retrying(q)'
  <2> SUFFICES ASSUME NEW q \in Procs, Retrying(q) PROVE Retrying(q)'
    OBVIOUS
  <2>1. q # p
    BY <1>1 DEF Retrying
  <2> QED
    BY <1>1, <1>2, <2>1 DEF Retrying, In
<1>7. CASE ~Wakes
  <2>1. NumWoken = 0 /\ queue' = queue /\ releaseOK' = releaseOK
    BY <1>2, <1>7 DEF NumWoken, Release
  <2>2. RetryInv'
    BY <1>6, <2>1 DEF WakeInv, RetryInv
  <2>3. (exclusive' = 0 /\ shared' = 0 /\ queue' # <<>>) => ~releaseOK
    BY <1>7, <2>1 DEF Wakes, Release
  <2>4. NoLostWakeup'
    BY <1>6, <2>3 DEF WakeInv, RetryInv, NoLostWakeup
  <2> QED
    BY <1>4, <1>5, <2>2, <2>4 DEF WakeInv
<1>8. CASE Wakes
  <2>1. /\ NumWoken = LastWoken(queue)
        /\ releaseOK' = \A i \in 1 .. NumWoken : waitMode[queue[i]] = "LW_WAIT_UNTIL_FREE"
    BY <1>8 DEF NumWoken, Release
  <2>2. CASE \A i \in 1 .. NumWoken : waitMode[queue[i]] = "LW_WAIT_UNTIL_FREE"
    <3>1. NumWoken = Len(queue)
      BY <2>1, <2>2, LastWokenBounds DEF TypeOK
    <3>2. queue' = <<>> /\ releaseOK'
      BY <1>2, <2>1, <2>2, <3>1
    <3> QED
      BY <1>4, <1>5, <3>2 DEF WakeInv, RetryInv, NoLostWakeup
  <2>3. CASE \E i \in 1 .. NumWoken : waitMode[queue[i]] # "LW_WAIT_UNTIL_FREE"
    <3>1. PICK i \in 1 .. NumWoken : waitMode[queue[i]] # "LW_WAIT_UNTIL_FREE"
      BY <2>3
    <3>2. In(a, queue[i]) /\ In(queue, queue[i]) /\ ~In(queue', queue[i])
      BY <1>2
    <3>3. i \in 1 .. Len(queue)
      BY <1>2, LenProperties DEF TypeOK
    <3>4. queue[i] \in Procs
      BY <3>3, ElementOfSeq DEF TypeOK
    <3>5. pc[queue[i]] = "sleep" /\ call[queue[i]] = "LWLockAcquire"
      BY <3>1, <3>2, <3>4 DEF WakeInv, QueueInv
    <3>6. PICK x \in Procs : pc'[x] = "sleep" /\ call'[x] = "LWLockAcquire" /\ ~In(queue', x)
      BY <1>1, <3>2, <3>4, <3>5
    <3>7. Retrying(x)'
      BY <3>6 DEF Retrying, In
    <3> QED
      BY <1>4, <1>5, <3>6, <3>7 DEF WakeInv, RetryInv, NoLostWakeup
  <2> QED
    BY <2>2, <2>3
<1> QED
  BY <1>7, <1>8

LEMMA WakeWakes ==
    ASSUME TypeOK, WakeInv, NEW p \in Procs, Wake(p)
    PROVE  WakeInv'
<1> DEFINE h == Head(woken[p])
<1>1. /\ woken[p] # <<>> /\ waiting' = waiting \ {h}
      /\ woken' = [woken EXCEPT ![p] = Tail(woken[p])]
      /\ UNCHANGED <<exclusive, shared, releaseOK, queue, pc, call, retry, waitMode>>
  BY DEF Wake, lock, callVars
<1>2. woken[p] \in Seq(Procs) /\ Inj(woken[p])
  BY DEF TypeOK, WakeInv, WokenInv
<1>3. /\ h \in Procs /\ In(woken[p], h)
      /\ Inj(Tail(woken[p])) /\ ~In(Tail(woken[p]), h)
      /\ \A x : In(Tail(woken[p]), x) => In(woken[p], x)
  BY <1>1, <1>2, TailIn
<1>4. woken'[p] = Tail(woken[p]) /\ \A q \in Procs \ {p} : woken'[q] = woken[q]
  BY <1>1 DEF TypeOK
<1> HIDE DEF h
<1>5. \A q, x \in Procs : In(woken'[q], x) => In(woken[q], x) /\ x # h
  BY <1>3, <1>4 DEF WakeInv, WokenInv
<1>6. QueueInv'
  BY <1>1, <1>3 DEF WakeInv, QueueInv, WokenInv
<1>7. WokenInv'
  <2>1. \A q \in Procs : Inj(woken'[q])
    BY <1>3, <1>4 DEF WakeInv, WokenInv
  <2> QED
    BY <1>1, <1>5, <2>1 DEF WakeInv, WokenInv
<1>8. RetryInv' /\ NoLostWakeup'
  BY <1>1 DEF WakeInv, RetryInv, NoLostWakeup, Retrying
<1> QED
  BY <1>6, <1>7, <1>8 DEF WakeInv

-----------------------------------------------------------------------------

LEMMA ProcStep ==
    ASSUME IInv, NEW p \in Procs,
           \/ \E c \in Calls, m \in Modes : Begin(p, c, m)
           \/ Step(p) \/ BogusWakeup(p)
    PROVE  IInv'
<1>1. TypeOK /\ Counts /\ MutualExclusion /\ WakeInv
  BY DEF IInv, WakeInv
<1>2. TypeOK'
  BY <1>1, TypeStep DEF WakeInv
<1> SUFFICES Counts' /\ MutualExclusion' /\ WakeInv'
  BY <1>2 DEF IInv, WakeInv
<1>3. ASSUME NEW c \in Calls, NEW m \in Modes, Begin(p, c, m)
      PROVE  Counts' /\ MutualExclusion' /\ WakeInv'
  <2>1. /\ pc[p] = "idle" /\ pc'[p] = "try"
        /\ UNCHANGED <<exclusive, shared, releaseOK, queue, woken, waitMode, waiting>>
        /\ \A q \in Procs \ {p} : /\ pc'[q] = pc[q] /\ call'[q] = call[q]
                                  /\ mode'[q] = mode[q]
                                  /\ q \in retry' <=> q \in retry
    BY <1>1, <1>3 DEF Begin, lock, waitVars, wakeVars, TypeOK
  <2>2. ~Retrying(p)
    BY <2>1 DEF Retrying
  <2>3. /\ \A q \in Procs : pc'[q] = "held" <=> pc[q] = "held"
        /\ \A q \in Procs : pc[q] = "held" => mode'[q] = mode[q]
    BY <2>1
  <2> QED
    BY <1>1, <2>1, <2>2, <2>3, QuietStep, HoldersKept
<1>4. CASE Take(p)
  BY <1>1, <1>4, TakeHolds, TakeWakes
<1>5. CASE Refuse(p)
  <2>1. /\ pc[p] = "try" /\ pc'[p] = "idle" /\ call[p] # "LWLockAcquire" /\ mode' = mode
        /\ UNCHANGED <<exclusive, shared, releaseOK, queue, woken, waitMode, waiting>>
        /\ \A q \in Procs \ {p} : /\ pc'[q] = pc[q] /\ call'[q] = call[q]
                                  /\ q \in retry' <=> q \in retry
    BY <1>1, <1>5 DEF Refuse, lock, callVars, waitVars, wakeVars, TypeOK
  <2>2. ~Retrying(p)
    BY <2>1 DEF Retrying
  <2>3. \A q \in Procs : pc'[q] = "held" <=> pc[q] = "held"
    BY <2>1
  <2> QED
    BY <1>1, <2>1, <2>2, <2>3, QuietStep, HoldersKept
<1>6. CASE Enqueue(p)
  <2>1. /\ pc[p] = "try" /\ pc'[p] = "sleep" /\ UNCHANGED <<exclusive, shared, mode>>
        /\ \A q \in Procs \ {p} : pc'[q] = pc[q]
    BY <1>1, <1>6 DEF Enqueue, callVars, TypeOK
  <2>2. \A q \in Procs : pc'[q] = "held" <=> pc[q] = "held"
    BY <2>1
  <2> QED
    BY <1>1, <1>6, <2>1, <2>2, HoldersKept, EnqueueWakes
<1>7. CASE SemaphoreLock(p)
  <2>1. /\ pc[p] = "sleep" /\ pc'[p] # "held" /\ UNCHANGED <<exclusive, shared, mode>>
        /\ \A q \in Procs \ {p} : pc'[q] = pc[q]
    BY <1>1, <1>7 DEF SemaphoreLock, lock, TypeOK
  <2>2. \A q \in Procs : pc'[q] = "held" <=> pc[q] = "held"
    BY <2>1
  <2> QED
    BY <1>1, <1>7, <2>1, <2>2, HoldersKept, SemaphoreWakes
<1>8. CASE Release(p)
  BY <1>1, <1>8, ReleaseHolds, ReleaseWakes
<1>9. CASE Wake(p)
  <2>1. UNCHANGED <<exclusive, shared, mode, pc>>
    BY <1>9 DEF Wake, lock, callVars
  <2> QED
    BY <1>1, <1>9, <2>1, HoldersKept, WakeWakes
<1>10. CASE Post(p)
  <2>1. /\ pc[p] = "wake" /\ pc'[p] \in {"idle", "wake"} /\ UNCHANGED <<mode, call>>
        /\ UNCHANGED <<exclusive, shared, releaseOK, queue, woken, waitMode, waiting>>
        /\ \A q \in Procs \ {p} : /\ pc'[q] = pc[q] /\ call'[q] = call[q]
                                  /\ q \in retry' <=> q \in retry
    BY <1>1, <1>10 DEF Post, lock, callVars, TypeOK
  <2>2. ~Retrying(p)
    BY <2>1 DEF Retrying
  <2>3. \A q \in Procs : pc'[q] = "held" <=> pc[q] = "held"
    BY <2>1
  <2> QED
    BY <1>1, <2>1, <2>2, <2>3, QuietStep, HoldersKept
<1>11. CASE BogusWakeup(p)
  <2>1. UNCHANGED <<exclusive, shared, releaseOK, queue, woken, waitMode, waiting,
                    pc, call, mode, retry>>
    BY <1>11 DEF BogusWakeup, lock, callVars, wakeVars
  <2>2. WakeInv'
    BY <1>1, <2>1 DEF WakeInv, QueueInv, WokenInv, RetryInv, NoLostWakeup, Retrying
  <2> QED
    BY <1>1, <2>1, <2>2, HoldersKept
<1> QED
  BY <1>3, <1>4, <1>5, <1>6, <1>7, <1>8, <1>9, <1>10, <1>11 DEF Step

LEMMA IndInit == ASSUME Init PROVE IInv
<1>1. TypeOK
  BY TypeInit
<1>2. Holders("LW_EXCLUSIVE") = {} /\ Holders("LW_SHARED") = {}
  BY DEF Init, Holders
<1>3. Counts /\ MutualExclusion
  BY <1>2, FS_EmptySet DEF Init, Counts, MutualExclusion
<1>4. \A x : ~In(<<>>, x)
  BY DEF In
<1>5. Inj(<<>>)
  BY DEF Inj
<1>6. queue = <<>> /\ \A p \in Procs : woken[p] = <<>>
  BY DEF Init
<1>7. QueueInv /\ WokenInv
  BY <1>4, <1>5, <1>6 DEF QueueInv, WokenInv
<1>8. RetryInv /\ NoLostWakeup
  BY DEF Init, RetryInv, NoLostWakeup
<1> QED
  BY <1>1, <1>3, <1>7, <1>8 DEF IInv

\* The inductive invariant holds, for any number of processes and of calls.
THEOREM Invariance == Spec => []IInv
<1>1. ASSUME IInv, [Next]_vars PROVE IInv'
  <2>1. CASE UNCHANGED vars
    <3>1. UNCHANGED <<exclusive, shared, releaseOK, queue, pc, call, mode, retry, waiting,
                      waitMode, sem, extra, woken, post, calls, sent>>
      BY <2>1 DEF vars, lock, callVars, waitVars, wakeVars, history
    <3>2. TypeOK'
      BY <1>1, <3>1 DEF IInv, TypeOK
    <3>3. Counts' /\ MutualExclusion'
      BY <1>1, <3>1, HoldersKept DEF IInv
    <3> QED
      BY <1>1, <3>1, <3>2, <3>3
         DEF IInv, QueueInv, WokenInv, RetryInv, NoLostWakeup, Retrying
  <2>2. CASE Next
    BY <1>1, <2>2, ProcStep DEF Next
  <2> QED
    BY <1>1, <2>1, <2>2
<1> QED
  BY <1>1, IndInit, PTL DEF Spec

\* Types of the lock and of its waiters; no counter goes below zero.
THEOREM TypeCorrect == Spec => []TypeOK
<1>1. IInv => TypeOK
  BY DEF IInv
<1> QED
  BY <1>1, Invariance, PTL

\* Whoever holds the lock exclusively holds it alone.
THEOREM MutualExclusionHolds == Spec => []MutualExclusion
<1>1. IInv => MutualExclusion
  BY DEF IInv
<1> QED
  BY <1>1, Invariance, PTL

\* A free lock with a queue has a woken process on its way to it.
THEOREM NoWakeupLost == Spec => []NoLostWakeup
<1>1. IInv => NoLostWakeup
  BY DEF IInv
<1> QED
  BY <1>1, Invariance, PTL

-----------------------------------------------------------------------------
(* No count of a semaphore is lost or made up.                             *)

\* The releasers that have yet to post p's semaphore.
Posters(p) == {q \in Procs : p \in post[q]}

\* What p's semaphore has been owed and given, and what it has been sent.
Kept(p) ==
    sem[p] + extra[p] + Cardinality(Posters(p))
      = sent[p] + (IF pc[p] = "sleep" /\ p \notin waiting THEN 1 ELSE 0)

LEMMA PostersFinite ==
    ASSUME NEW p
    PROVE  IsFiniteSet(Posters(p)) /\ Cardinality(Posters(p)) \in Nat
<1>1. Posters(p) \subseteq Procs
  BY DEF Posters
<1> QED
  BY <1>1, FS_Subset, FS_CardinalityType

LEMMA CountTypes ==
    ASSUME IInv, NEW x \in Procs
    PROVE  sem[x] \in Nat /\ extra[x] \in Nat /\ sent[x] \in Nat
<1>1. /\ sem \in [Procs -> Nat] /\ extra \in [Procs -> Nat]
      /\ sent \in [Procs -> 0 .. 1]
  BY DEF IInv, TypeOK
<1>2. sent[x] \in 0 .. 1
  BY <1>1
<1> QED
  BY <1>1, <1>2

\* A step that leaves what concerns x alone.
LEMMA KeptKept ==
    ASSUME NEW x \in Procs, Kept(x),
           sem'[x] = sem[x], extra'[x] = extra[x], sent'[x] = sent[x],
           \A q \in Procs : x \in post'[q] <=> x \in post[q],
           (pc'[x] = "sleep" /\ x \notin waiting') <=> (pc[x] = "sleep" /\ x \notin waiting)
    PROVE  Kept(x)'
<1>1. Posters(x)' = Posters(x)
  BY DEF Posters
<1> QED
  BY <1>1 DEF Kept

(***************************************************************************)
(* The process that is woken still counted as waiting, so clearing         *)
(* lwWaiting makes one post due, which the releaser has yet to make; a     *)
(* process may be owed several if it woke up before it was posted.         *)
(***************************************************************************)
LEMMA WakeKeeps ==
    ASSUME IInv, NEW p \in Procs, Wake(p), NEW x \in Procs, Kept(x)
    PROVE  Kept(x)'
<1> DEFINE h == Head(woken[p])
<1>1. /\ woken[p] # <<>> /\ post[p] = {} /\ waiting' = waiting \ {h}
      /\ post' = [post EXCEPT ![p] = {h}]
      /\ UNCHANGED <<pc, sem, extra, sent>>
  BY DEF Wake, history
<1>2. woken[p] \in Seq(Procs) /\ Inj(woken[p])
  BY DEF IInv, TypeOK, WokenInv
<1>3. h \in Procs /\ In(woken[p], h)
  BY <1>1, <1>2, TailIn
<1>4. pc[h] = "sleep" /\ h \in waiting
  BY <1>3 DEF IInv, WokenInv
<1>5. post'[p] = {h} /\ \A q \in Procs \ {p} : post'[q] = post[q]
  BY <1>1 DEF IInv, TypeOK
<1> HIDE DEF h
<1>6. CASE x = h
  <2>1. Posters(x)' = Posters(x) \cup {p} /\ p \notin Posters(x)
    BY <1>1, <1>5, <1>6 DEF Posters
  <2>2. Cardinality(Posters(x)') = Cardinality(Posters(x)) + 1
    BY <2>1, PostersFinite, FS_AddElement
  <2>3. sem[x] \in Nat /\ extra[x] \in Nat /\ sent[x] \in Nat
    BY CountTypes
  <2>4. pc'[x] = "sleep" /\ x \notin waiting' /\ x \in waiting
    BY <1>1, <1>4, <1>6
  <2>5. sem[x] + extra[x] + Cardinality(Posters(x)) = sent[x] + 0
    BY <2>4 DEF Kept
  <2>6. sem'[x] + extra'[x] + Cardinality(Posters(x)') = sent'[x] + 1
    BY <1>1, <2>2, <2>3, <2>5, PostersFinite
  <2> QED
    BY <2>4, <2>6 DEF Kept
<1>7. CASE x # h
  <2>1. \A q \in Procs : x \in post'[q] <=> x \in post[q]
    BY <1>1, <1>5, <1>7
  <2>2. x \in waiting' <=> x \in waiting
    BY <1>1, <1>7
  <2> QED
    BY <1>1, <2>1, <2>2, KeptKept
<1> QED
  BY <1>6, <1>7

LEMMA PostKeeps ==
    ASSUME IInv, NEW p \in Procs, Post(p), NEW x \in Procs, Kept(x)
    PROVE  Kept(x)'
<1>1. /\ pc[p] = "wake" /\ post' = [post EXCEPT ![p] = {}]
      /\ pc' = [pc EXCEPT ![p] = IF woken[p] = <<>> THEN "idle" ELSE "wake"]
      /\ UNCHANGED <<waiting, extra, sent>>
      /\ sem'[x] = IF x \in post[p] THEN sem[x] + 1 ELSE sem[x]
  BY DEF Post, history
<1>2. post'[p] = {} /\ \A q \in Procs \ {p} : post'[q] = post[q]
  BY <1>1 DEF IInv, TypeOK
<1>3. pc'[x] = "sleep" <=> pc[x] = "sleep"
  BY <1>1 DEF IInv, TypeOK
<1>4. CASE x \in post[p]
  <2>1. Posters(x)' = Posters(x) \ {p} /\ p \in Posters(x)
    BY <1>2, <1>4 DEF Posters
  <2>2. Cardinality(Posters(x)') = Cardinality(Posters(x)) - 1
    BY <2>1, PostersFinite, FS_RemoveElement
  <2>3. sem[x] \in Nat /\ extra[x] \in Nat /\ sent[x] \in Nat
    BY CountTypes
  <2>4. sem'[x] + extra'[x] + Cardinality(Posters(x)')
          = sem[x] + extra[x] + Cardinality(Posters(x))
    BY <1>1, <1>4, <2>2, <2>3, PostersFinite
  <2> QED
    BY <1>1, <1>3, <2>4 DEF Kept
<1>5. CASE x \notin post[p]
  <2>1. \A q \in Procs : x \in post'[q] <=> x \in post[q]
    BY <1>2, <1>5
  <2> QED
    BY <1>1, <1>3, <1>5, <2>1, KeptKept
<1> QED
  BY <1>4, <1>5

\* The sleeper takes one count, keeps it for later, or gives back all it kept.
LEMMA SemaphoreKeeps ==
    ASSUME IInv, NEW p \in Procs, SemaphoreLock(p), NEW x \in Procs, Kept(x)
    PROVE  Kept(x)'
<1>1. /\ pc[p] = "sleep" /\ sem[p] > 0 /\ UNCHANGED <<waiting, post, sent>>
  BY DEF SemaphoreLock, wakeVars, history
<1>2. CASE x # p
  <2>1. pc'[x] = pc[x] /\ sem'[x] = sem[x] /\ extra'[x] = extra[x]
    BY <1>2 DEF SemaphoreLock, IInv, TypeOK
  <2> QED
    BY <1>1, <2>1, KeptKept
<1>3. CASE x = p
  <2>1. Posters(x)' = Posters(x)
    BY <1>1 DEF Posters
  <2>2. sem[p] \in Nat /\ extra[p] \in Nat /\ sent[p] \in Nat
    BY CountTypes
  <2>3. CASE p \in waiting
    <3>1. pc' = pc /\ sem'[p] = sem[p] - 1 /\ extra'[p] = extra[p] + 1
      BY <2>3 DEF SemaphoreLock, IInv, TypeOK
    <3>2. sem'[p] + extra'[p] = sem[p] + extra[p]
      BY <2>2, <3>1
    <3> QED
      BY <1>1, <1>3, <2>1, <3>1, <3>2 DEF Kept
  <2>4. CASE p \notin waiting
    <3>1. pc'[p] # "sleep" /\ sem'[p] + extra'[p] = sem[p] + extra[p] - 1
      <4>1. CASE call[p] = "LWLockAcquire"
        <5>1. pc'[p] = "try" /\ sem'[p] = sem[p] - 1 /\ extra'[p] = extra[p]
          BY <2>4, <4>1 DEF SemaphoreLock, IInv, TypeOK
        <5> QED
          BY <2>2, <5>1
      <4>2. CASE call[p] # "LWLockAcquire"
        <5>1. pc'[p] = "idle" /\ sem'[p] = sem[p] - 1 + extra[p] /\ extra'[p] = 0
          BY <2>4, <4>2 DEF SemaphoreLock, IInv, TypeOK
        <5> QED
          BY <2>2, <5>1
      <4> QED
        BY <4>1, <4>2
    <3>2. sem[p] + extra[p] + Cardinality(Posters(p)) = sent[p] + 1
      BY <1>1, <1>3, <2>4 DEF Kept
    <3>3. sem'[p] + extra'[p] + Cardinality(Posters(p)) = sent[p] + 0
      BY <2>2, <3>1, <3>2, PostersFinite
    <3> QED
      BY <1>1, <1>3, <2>1, <3>1, <3>3 DEF Kept
  <2> QED
    BY <2>3, <2>4
<1> QED
  BY <1>2, <1>3

LEMMA TakeKeeps ==
    ASSUME IInv, NEW p \in Procs, Take(p), NEW x \in Procs, Kept(x)
    PROVE  Kept(x)'
<1>1. /\ pc[p] = "try" /\ pc' = [pc EXCEPT ![p] = "held"]
      /\ UNCHANGED <<waiting, post, sent>>
      /\ sem' = [sem EXCEPT ![p] = sem[p] + extra[p]]
      /\ extra' = [extra EXCEPT ![p] = 0]
  BY DEF Take, wakeVars, history
<1>2. CASE x # p
  <2>1. pc'[x] = pc[x] /\ sem'[x] = sem[x] /\ extra'[x] = extra[x]
    BY <1>1, <1>2 DEF IInv, TypeOK
  <2> QED
    BY <1>1, <2>1, KeptKept
<1>3. CASE x = p
  <2>1. pc'[p] = "held" /\ sem'[p] = sem[p] + extra[p] /\ extra'[p] = 0
    BY <1>1 DEF IInv, TypeOK
  <2>2. sem[p] \in Nat /\ extra[p] \in Nat
    BY DEF IInv, TypeOK
  <2>3. sem'[p] + extra'[p] = sem[p] + extra[p]
    BY <2>1, <2>2
  <2>4. Posters(x)' = Posters(x)
    BY <1>1 DEF Posters
  <2> QED
    BY <1>1, <1>3, <2>1, <2>3, <2>4 DEF Kept
<1> QED
  BY <1>2, <1>3

LEMMA KeepsStep ==
    ASSUME IInv, NEW p \in Procs, NEW x \in Procs, Kept(x),
           \/ \E c \in Calls, m \in Modes : Begin(p, c, m)
           \/ Step(p) \/ BogusWakeup(p)
    PROVE  Kept(x)'
<1>1. ASSUME NEW c \in Calls, NEW m \in Modes, Begin(p, c, m) PROVE Kept(x)'
  <2>1. /\ UNCHANGED <<waiting, sem, extra, post, sent>>
        /\ pc'[x] = "sleep" <=> pc[x] = "sleep"
    BY <1>1 DEF Begin, waitVars, wakeVars, IInv, TypeOK
  <2> QED
    BY <2>1, KeptKept
<1>2. CASE Refuse(p)
  <2>1. /\ UNCHANGED <<waiting, sem, extra, post, sent>>
        /\ pc'[x] = "sleep" <=> pc[x] = "sleep"
    BY <1>2 DEF Refuse, waitVars, wakeVars, history, IInv, TypeOK
  <2> QED
    BY <2>1, KeptKept
<1>3. CASE Enqueue(p)
  <2>1. /\ UNCHANGED <<sem, extra, post, sent>> /\ waiting' = waiting \cup {p}
        /\ pc[p] = "try" /\ pc' = [pc EXCEPT ![p] = "sleep"]
    BY <1>3 DEF Enqueue, wakeVars, history
  <2>2. (pc'[x] = "sleep" /\ x \notin waiting') <=> (pc[x] = "sleep" /\ x \notin waiting)
    BY <2>1 DEF IInv, TypeOK
  <2> QED
    BY <2>1, <2>2, KeptKept
<1>4. CASE Release(p)
  <2>1. /\ UNCHANGED <<waiting, sem, extra, post, sent>>
        /\ pc'[x] = "sleep" <=> pc[x] = "sleep"
    BY <1>4 DEF Release, waitVars, history, IInv, TypeOK
  <2> QED
    BY <2>1, KeptKept
<1>5. CASE BogusWakeup(p)
  <2>1. /\ UNCHANGED <<pc, waiting, extra, post>>
        /\ sent' = [sent EXCEPT ![p] = sent[p] + 1]
        /\ sem' = [sem EXCEPT ![p] = sem[p] + 1]
    BY <1>5 DEF BogusWakeup, wakeVars
  <2>2. CASE x # p
    <3>1. sem'[x] = sem[x] /\ sent'[x] = sent[x]
      BY <2>1, <2>2 DEF IInv, TypeOK
    <3> QED
      BY <2>1, <3>1, KeptKept
  <2>3. CASE x = p
    <3>1. sem'[x] = sem[x] + 1 /\ sent'[x] = sent[x] + 1
      BY <2>1, <2>3 DEF IInv, TypeOK
    <3>2. sem[x] \in Nat /\ extra[x] \in Nat /\ sent[x] \in Nat
      BY CountTypes
    <3>3. Posters(x)' = Posters(x)
      BY <2>1 DEF Posters
    <3> DEFINE due == IF pc[x] = "sleep" /\ x \notin waiting THEN 1 ELSE 0
    <3>4. due \in Nat /\ due' = due
          /\ sem[x] + extra[x] + Cardinality(Posters(x)) = sent[x] + due
      BY <2>1 DEF Kept
    <3> HIDE DEF due
    <3>5. sem'[x] + extra'[x] + Cardinality(Posters(x)') = sent'[x] + due'
      BY <2>1, <3>1, <3>2, <3>3, <3>4, PostersFinite
    <3> QED
      BY <3>5 DEF Kept, due
  <2> QED
    BY <2>2, <2>3
<1> QED
  BY <1>1, <1>2, <1>3, <1>4, <1>5, TakeKeeps, SemaphoreKeeps, WakeKeeps, PostKeeps
     DEF Step

\* Whatever was meant for other mechanisms is given back to the semaphore.
THEOREM SignalsAreKept == Spec => []SignalsKept
<1> DEFINE K == \A x \in Procs : Kept(x)
<1>1. Init => K
  <2> SUFFICES ASSUME Init, NEW x \in Procs PROVE Kept(x)
    OBVIOUS
  <2>1. Posters(x) = {} /\ Cardinality(Posters(x)) = 0
    BY FS_EmptySet DEF Init, Posters
  <2> QED
    BY <2>1 DEF Init, Kept
<1>2. ASSUME IInv, K, [Next]_vars PROVE K'
  <2> SUFFICES ASSUME NEW x \in Procs PROVE Kept(x)'
    OBVIOUS
  <2>1. CASE UNCHANGED vars
    <3>1. UNCHANGED <<pc, waiting, sem, extra, post, sent>>
      BY <2>1 DEF vars, waitVars, wakeVars, history
    <3> QED
      BY <1>2, <3>1, KeptKept
  <2>2. CASE Next
    BY <1>2, <2>2, KeepsStep DEF Next
  <2> QED
    BY <1>2, <2>1, <2>2
<1>3. K => SignalsKept
  BY DEF Kept, Posters, SignalsKept
<1> QED
  BY <1>1, <1>2, <1>3, Invariance, PTL DEF Spec
=============================================================================
