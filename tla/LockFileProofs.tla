--------------------------- MODULE LockFileProofs ---------------------------
(***************************************************************************)
(* The interlock for any number of postmasters, any number of starts under *)
(* way at once, killed or told to quit at any point and any number of      *)
(* times: what the lock file protects for as long as no start has unlinked *)
(* a file that was no longer the one it had read.                          *)
(***************************************************************************)
EXTENDS LockFile, TLAPS

USE ProcAssumption, BoundAssumption

Line5(p) == [by |-> p, lines |-> 5, shm |-> NoProc]
Line6(p) == [by |-> p, lines |-> 6, shm |-> NoProc]
Line7(p) == [by |-> p, lines |-> 7, shm |-> p]

\* From its creation on, the file is its creator's own.
Holding == {"fill", "bind", "shmem", "up"}
Held ==
    \A p \in Procs :
      /\ pc[p] = "fill" => file = Empty(p)
      /\ pc[p] = "bind" => file = Line5(p)
      /\ pc[p] = "shmem" => file = Line6(p)
      /\ pc[p] = "up" => file = Line7(p)

\* Children of a killed postmaster are named by the file it has left.
Left == \A o \in orphans : pc[o] = "gone" /\ file = Line7(o)

\* From the decision to unlink on, the owner of the file that was read is
\* gone, and so are its children if that file is still there.
Judged ==
    \A p \in Procs :
      /\ pc[p] \in {"check", "unlink"} =>
            saw[p].lines > 0 /\ saw[p].by \in Procs /\ pc[saw[p].by] # "idle"
      /\ pc[p] = "unlink" =>
            pc[saw[p].by] = "gone" /\ (file = saw[p] => orphans = {})

Intact == Held /\ Left /\ Judged

(***************************************************************************)
(* Whether or not a file is ever stolen: lines are added below the pid of  *)
(* the creator only, who has got as far as filling the file; the key is    *)
(* the last line; only the pid of a process that is gone is used again.    *)
(***************************************************************************)
OwnerInv ==
    /\ file.lines > 0 => file.by \in Procs /\ pc[file.by] \in Locked \cup {"gone"}
    /\ file.shm # NoProc => file.lines = 7
    /\ \A p \in reused : pc[p] = "gone"

\* Whoever has got past the bind listens on the port.
PortInv == \A p \in Procs : pc[p] \in {"shmem", "up"} => port = p

IInv == TypeOK /\ OwnerInv /\ PortInv /\ (~stolen => Intact)

-----------------------------------------------------------------------------

LEMMA IndInit == ASSUME Init PROVE IInv
<1>1. NoFile \in Files /\ NoFile.lines = 0 /\ NoFile.shm = NoProc
  BY DEF NoFile, Files
<1>2. stolen \in BOOLEAN
  BY DEF Init
<1>3. TypeOK
  <2>1. 0 \in 0 .. MaxKills
    OBVIOUS
  <2> QED
    BY <1>1, <1>2, <2>1 DEF Init, TypeOK, Steps
<1>4. OwnerInv
  BY <1>1 DEF Init, OwnerInv
<1>5. Intact /\ PortInv
  BY DEF Init, Intact, Held, Left, Judged, PortInv
<1> QED
  BY <1>3, <1>4, <1>5 DEF IInv

\* Types.
LEMMA TypeStep == ASSUME IInv, Next PROVE TypeOK'
<1> USE DEF IInv
<1>1. PICK p \in Procs : \/ SystemCall(p) \/ Quit(p) \/ Kill(p)
                         \/ OrphansEnd(p) \/ PidReused(p)
  BY DEF Next
<1>2. \A x \in Steps : [pc EXCEPT ![p] = x] \in [Procs -> Steps]
  BY DEF TypeOK
<1>3. /\ NoFile \in Files /\ Empty(p) \in Files
      /\ NoFile.lines = 0 /\ Empty(p).lines = 0
  BY DEF NoFile, Empty, Files
<1>4. {"create", "read", "check", "unlink", "fill", "bind", "shmem", "up", "gone"} \subseteq Steps
  BY DEF Steps, Locking, Locked
<1>5. pc' \in [Procs -> Steps]
  <2>1. CASE pc' = pc
    BY <2>1 DEF TypeOK
  <2>2. CASE \E x \in Steps : pc' = [pc EXCEPT ![p] = x]
    BY <1>2, <2>2
  <2>3. CASE Start(p) \/ Create(p) \/ Read(p)
    BY <1>4, <2>2, <2>3 DEF Start, Create, Read, Fatal, Goto
  <2>4. CASE Check(p) \/ Unlink(p) \/ Fill(p)
    BY <1>4, <2>2, <2>4 DEF Check, Unlink, Fill, Fatal, Goto
  <2>5. CASE Bind(p) \/ Shmem(p) \/ Exit(p) \/ Quit(p) \/ Kill(p)
    BY <1>4, <2>2, <2>5 DEF Bind, Shmem, Exit, Quit, ProcExit, SystemCall, Kill, Goto
  <2>6. CASE OrphansEnd(p) \/ PidReused(p)
    BY <2>1, <2>6 DEF OrphansEnd, PidReused
  <2> QED
    BY <1>1, <2>3, <2>4, <2>5, <2>6 DEF SystemCall, Step
<1>6. saw' \in [Procs -> Files]
  <2>1. saw' = saw \/ saw' = [saw EXCEPT ![p] = file]
    BY <1>1 DEF Step, Start, Create, Read, Check, Unlink, Fill, Bind, Shmem, Exit, Quit, ProcExit, SystemCall, Kill,
                OrphansEnd, PidReused, Fatal
  <2> QED
    BY <2>1 DEF TypeOK
<1>7. file' \in Files
  <2>1. CASE file' = file
    BY <2>1 DEF TypeOK
  <2>2. CASE file' = NoFile \/ file' = Empty(p)
    BY <1>3, <2>2
  <2>3. CASE Fill(p)
    <3>1. CASE file = Empty(p)
      BY <2>2, <2>3, <3>1 DEF Fill, Empty, NoFile, Files
    <3>2. CASE file # Empty(p)
      BY <2>1, <2>2, <2>3, <3>2 DEF Fill
    <3> QED
      BY <3>1, <3>2
  <2>4. ASSUME file.lines >= 5, NEW n \in {6, 7}, NEW q \in Procs \cup {NoProc},
               file' = [by |-> file.by, lines |-> n, shm |-> q]
        PROVE  file' \in Files
    <3>1. file.lines \in {0, 5, 6, 7} /\ file.by \in Procs \cup {NoProc}
      BY DEF TypeOK, Files
    <3> QED
      BY <2>4, <3>1 DEF Files
  <2>5. CASE Bind(p)
    <3>1. CASE file.lines >= 5
      BY <2>4, <2>5, <3>1 DEF Bind
    <3>2. CASE ~(file.lines >= 5)
      BY <2>1, <2>5, <3>2 DEF Bind
    <3> QED
      BY <3>1, <3>2
  <2>6. CASE Shmem(p)
    <3>1. CASE file.lines >= 6
      <4>1. file.lines \in {0, 5, 6, 7}
        BY DEF TypeOK, Files
      <4>2. file.lines >= 5
        BY <3>1, <4>1
      <4> QED
        BY <2>4, <2>6, <3>1, <4>2 DEF Shmem
    <3>2. CASE ~(file.lines >= 6)
      BY <2>1, <2>6, <3>2 DEF Shmem
    <3> QED
      BY <3>1, <3>2
  <2> QED
    BY <1>1, <2>1, <2>2, <2>3, <2>5, <2>6
       DEF SystemCall, Step, Start, Create, Read, Check, Unlink, Exit, Quit, ProcExit, Kill, OrphansEnd, PidReused, Fatal
<1>8. port' \in Procs \cup {NoProc}
  BY <1>1 DEF Step, Start, Create, Read, Check, Unlink, Fill, Bind, Shmem, Exit, Quit, ProcExit, SystemCall, Kill,
              OrphansEnd, PidReused, Fatal, TypeOK
<1>9. /\ orphans' \subseteq Procs /\ quitting' \subseteq Procs /\ reused' \subseteq Procs
      /\ kills' \in 0 .. MaxKills
  BY <1>1 DEF SystemCall, Quit, Kill, OrphansEnd, PidReused, TypeOK
<1>10. stolen' \in BOOLEAN
  <2>1. stolen' = stolen \/ stolen' = (stolen \/ Steals(p))
    BY <1>1, Zenon DEF SystemCall, Quit, Kill, OrphansEnd, PidReused
  <2>2. (stolen \/ Steals(p)) \in BOOLEAN
    BY Zenon
  <2>3. stolen \in BOOLEAN
    BY DEF TypeOK
  <2> QED
    BY <2>1, <2>2, <2>3, Zenon
<1> QED
  BY <1>5, <1>6, <1>7, <1>8, <1>9, <1>10 DEF TypeOK

\* The owner of the file, whoever steals it.
LEMMA OwnerStep == ASSUME IInv, Next PROVE OwnerInv'
<1>1. PICK p \in Procs : \/ SystemCall(p) \/ Quit(p) \/ Kill(p)
                         \/ OrphansEnd(p) \/ PidReused(p)
  BY DEF Next
<1>2. /\ pc \in [Procs -> Steps] /\ file \in Files /\ reused \subseteq Procs
      /\ OwnerInv /\ file.lines \in {0, 5, 6, 7}
  BY DEF IInv, TypeOK, Files
<1>3. /\ NoFile.lines = 0 /\ NoFile.shm = NoProc
      /\ Empty(p).lines = 0 /\ Empty(p).shm = NoProc /\ Empty(p).by = p
  BY DEF NoFile, Empty
<1>4. pc[p] # "gone" => p \notin reused
  BY <1>2 DEF OwnerInv
<1>5. ASSUME NEW x \in Locked \cup {"gone"}, pc' = [pc EXCEPT ![p] = x],
             reused' = reused, pc[p] # "gone", file' = file
      PROVE  OwnerInv'
  BY <1>2, <1>4, <1>5 DEF OwnerInv
<1>6. ASSUME NEW x, pc' = [pc EXCEPT ![p] = x],
             reused' = reused, pc[p] # "gone", file'.lines = 0, file'.shm = NoProc
      PROVE  OwnerInv'
  BY <1>2, <1>4, <1>6 DEF OwnerInv
<1>7. ASSUME NEW x, pc' = [pc EXCEPT ![p] = x], file' = file,
             reused' = reused, pc[p] \in Locking \cup {"idle"}
      PROVE  OwnerInv'
  <2>1. pc[p] # "gone" /\ pc[p] \notin Locked \cup {"gone"}
    BY <1>7 DEF Locking, Locked
  <2>2. file.lines > 0 => file.by # p
    BY <1>2, <2>1 DEF OwnerInv
  <2> QED
    BY <2>1, <2>2, <1>2, <1>4, <1>7 DEF OwnerInv
<1>8. CASE (Start(p) \/ Create(p) \/ Read(p) \/ Check(p) \/ Unlink(p)) /\ reused' = reused
  <2>1. pc[p] # "gone" /\ pc[p] \in Locking \cup {"idle"}
    BY <1>8 DEF Start, Create, Read, Check, Unlink, Locking
  <2>2. \/ file' = file
        \/ file' = Empty(p) \/ file' = NoFile
    BY <1>8 DEF Start, Create, Read, Check, Unlink, Fatal
  <2>3. \E x : pc' = [pc EXCEPT ![p] = x]
    BY <1>8 DEF Start, Create, Read, Check, Unlink, Fatal, Goto
  <2> QED
    BY <2>1, <2>2, <2>3, <1>3, <1>6, <1>7, <1>8
<1>9. CASE Fill(p) /\ reused' = reused
  <2>1. pc[p] = "fill"
    BY <1>9 DEF Fill
  <2>2. CASE file = Empty(p) /\ Goto(p, "bind") /\ file' = [file EXCEPT !.lines = 5]
    <3>1. file'.lines = 5 /\ file'.by = p /\ file'.shm = NoProc
      BY <2>2, <1>3 DEF Empty, NoFile
    <3>2. pc'[p] \in Locked
      BY <2>2, <1>2 DEF Goto, Locked
    <3> QED
      BY <3>1, <3>2, <2>1, <2>2, <1>2, <1>4, <1>9 DEF OwnerInv, Goto
  <2>3. CASE Goto(p, "bind") /\ file' = file
    BY <2>1, <2>3, <1>5, <1>9 DEF Goto, Locked
  <2>4. CASE Goto(p, "gone") /\ file' = NoFile
    BY <2>1, <2>4, <1>3, <1>6, <1>9 DEF Goto
  <2> QED
    BY <2>2, <2>3, <2>4, <1>9 DEF Fill
<1>10. CASE (Bind(p) \/ Shmem(p)) /\ reused' = reused
  <2>1. pc[p] # "gone" /\ (\E x \in Locked : pc' = [pc EXCEPT ![p] = x])
    BY <1>10 DEF Bind, Shmem, Goto, Locked
  <2>2. CASE file' = file
    BY <2>1, <2>2, <1>5, <1>10
  <2>3. CASE file' # file
    <3>1. /\ file.lines > 0 /\ file'.by = file.by /\ file'.lines \in {6, 7}
          /\ file'.shm # NoProc => file'.lines = 7
      BY <2>3, <1>2, <1>10 DEF Bind, Shmem
    <3>2. pc'[file.by] \in Locked \cup {"gone"}
      BY <3>1, <2>1, <1>2 DEF OwnerInv
    <3> QED
      BY <3>1, <3>2, <2>1, <1>2, <1>4, <1>10 DEF OwnerInv
  <2> QED
    BY <2>2, <2>3
<1>11. CASE ProcExit(p) /\ reused' = reused
  <2>1. pc[p] # "gone"
    BY <1>11 DEF ProcExit, Locked
  <2> QED
    BY <2>1, <1>3, <1>6, <1>11 DEF ProcExit, Goto
<1>12. CASE Kill(p)
  BY <1>5, <1>12 DEF Kill, Goto, Alive
<1>13. CASE OrphansEnd(p) \/ PidReused(p)
  BY <1>2, <1>13 DEF OrphansEnd, PidReused, OwnerInv
<1> QED
  BY <1>1, <1>8, <1>9, <1>10, <1>11, <1>12, <1>13
     DEF SystemCall, Step, Exit, Quit

\* The port, whoever steals the file: only Bind takes it, when it is free.
LEMMA PortStep == ASSUME IInv, Next PROVE PortInv'
<1>1. PICK p \in Procs : \/ SystemCall(p) \/ Quit(p) \/ Kill(p)
                         \/ OrphansEnd(p) \/ PidReused(p)
  BY DEF Next
<1>2. pc \in [Procs -> Steps] /\ PortInv
  BY DEF IInv, TypeOK
<1>3. ASSUME NEW x, x \notin {"shmem", "up"}, pc' = [pc EXCEPT ![p] = x],
             port' = port \/ port = p
      PROVE  PortInv'
  BY <1>2, <1>3 DEF PortInv
<1>4. CASE /\ port' = port
           /\ Start(p) \/ Create(p) \/ Read(p) \/ Check(p) \/ Unlink(p) \/ Fill(p)
  <2>1. \E x \in {"create", "fill", "read", "check", "unlink", "bind", "gone"} :
           pc' = [pc EXCEPT ![p] = x]
    BY <1>4 DEF Start, Create, Read, Check, Unlink, Fill, Fatal, Goto
  <2> QED
    BY <2>1, <1>3, <1>4
<1>5. CASE Bind(p)
  BY <1>2, <1>5 DEF Bind, Goto, PortInv
<1>6. CASE Shmem(p)
  BY <1>2, <1>6 DEF Shmem, Goto, PortInv
<1>7. CASE ProcExit(p) \/ Kill(p)
  BY <1>3, <1>7 DEF ProcExit, Kill, Goto
<1>8. CASE OrphansEnd(p) \/ PidReused(p)
  BY <1>2, <1>8 DEF OrphansEnd, PidReused, PortInv
<1>9. Start(p) \/ Create(p) \/ Read(p) \/ Check(p) \/ Unlink(p) \/ Fill(p) => port' = port
  BY DEF Start, Create, Read, Check, Unlink, Fill, Fatal
<1> QED
  BY <1>1, <1>4, <1>5, <1>6, <1>7, <1>8, <1>9 DEF SystemCall, Step, Exit, Quit

\* Whoever holds the file is alone.
LEMMA Sole ==
    ASSUME TypeOK, Held, Left, NEW p \in Procs, pc[p] \in Holding
    PROVE  /\ file.by = p /\ orphans = {}
           /\ \A q \in Procs \ {p} : pc[q] \notin Holding
<1>1. \A q \in Procs : pc[q] \in Holding => file.by = q
  BY DEF Held, Holding, Empty, NoFile, Line5, Line6, Line7
<1>2. \A o \in orphans : o \in Procs /\ pc[o] = "gone" /\ file.by = o
  BY DEF Left, TypeOK, Line7
<1> QED
  BY <1>1, <1>2 DEF Holding

\* Without a file nobody holds one, and nothing is left of a killed postmaster.
LEMMA Nobody ==
    ASSUME TypeOK, Held, Left, file = NoFile
    PROVE  orphans = {} /\ \A q \in Procs : pc[q] \notin Holding
<1>1. \A q \in Procs : file # Empty(q) /\ file # Line5(q) /\ file # Line6(q) /\ file # Line7(q)
  BY DEF NoFile, Empty, Line5, Line6, Line7
<1>2. orphans \subseteq Procs
  BY DEF TypeOK
<1> QED
  BY <1>1, <1>2 DEF Held, Left, Holding

\* A step to a place where nothing is held and nothing has been judged.
LEMMA Aside ==
    ASSUME TypeOK, Intact, NEW p \in Procs, pc[p] # "gone",
           NEW x \in {"create", "read", "gone"},
           pc' = [pc EXCEPT ![p] = x],
           file' = file, saw' = saw, orphans' = orphans
    PROVE  Intact'
<1>1. pc'[p] = x /\ \A q \in Procs \ {p} : pc'[q] = pc[q]
  BY DEF TypeOK
<1>2. Held'
  BY <1>1 DEF Intact, Held
<1>3. Left'
  BY <1>1 DEF Intact, Left, TypeOK
<1>4. Judged'
  BY <1>1 DEF Intact, Judged
<1> QED
  BY <1>2, <1>3, <1>4 DEF Intact

\* A step of a process that has the directory to itself.
LEMMA Owner ==
    ASSUME TypeOK, Intact, NEW p \in Procs, pc[p] # "gone",
           NEW x \in {"create", "gone"} \cup Holding,
           pc' = [pc EXCEPT ![p] = x],
           saw' = saw, orphans' = {}, orphans = {},
           \A q \in Procs \ {p} : pc[q] \notin Holding,
           x = "fill" => file' = Empty(p),
           x = "bind" => file' = Line5(p),
           x = "shmem" => file' = Line6(p),
           x = "up" => file' = Line7(p),
           x \in {"create", "gone"} => file' = NoFile
    PROVE  Intact'
<1>1. pc'[p] = x /\ \A q \in Procs \ {p} : pc'[q] = pc[q]
  BY DEF TypeOK
<1>2. Held'
  BY <1>1 DEF Held, Holding
<1>3. Left'
  BY DEF Left
<1>4. Judged'
  <2>1. \A q \in Procs : pc[q] = "gone" => pc'[q] = "gone"
    BY <1>1
  <2>2. \A q \in Procs : pc[q] # "idle" => pc'[q] # "idle"
    BY <1>1 DEF Holding
  <2>3. \A q \in Procs : pc'[q] \in {"check", "unlink"} => pc'[q] = pc[q]
    BY <1>1 DEF Holding
  <2> QED
    BY <2>1, <2>2, <2>3 DEF Intact, Judged
<1> QED
  BY <1>2, <1>3, <1>4 DEF Intact

\* The system calls of a start and of the exit of a postmaster.
LEMMA CallStep ==
    ASSUME IInv, NEW p \in Procs, SystemCall(p), ~stolen' PROVE Intact'
<1>1. /\ Step(p) /\ ~stolen /\ ~Steals(p)
      /\ orphans' = orphans /\ TypeOK /\ OwnerInv /\ Intact
  BY DEF SystemCall, IInv
<1>2. pc \in [Procs -> Steps] /\ saw \in [Procs -> Files] /\ file \in Files /\ Held /\ Left /\ Judged
  BY <1>1 DEF TypeOK, Intact
<1>3. CASE Start(p)
  BY <1>1, <1>3, Aside DEF Start, Goto
<1>4. CASE Create(p)
  <2>1. CASE file = NoFile /\ Goto(p, "fill") /\ file' = Empty(p) /\ saw' = saw
    <3>1. orphans = {} /\ \A q \in Procs : pc[q] \notin Holding
      BY <1>1, <1>2, <2>1, Nobody
    <3>2. "fill" \in {"create", "gone"} \cup Holding /\ pc[p] # "gone"
      BY <1>4 DEF Holding, Create
    <3> QED
      BY <1>1, <2>1, <3>1, <3>2, Owner DEF Goto
  <2>2. CASE \E x \in {"read", "gone"} : Goto(p, x) /\ UNCHANGED <<saw, file>>
    BY <1>1, <1>4, <2>2, Aside DEF Create, Goto
  <2> QED
    BY <1>4, <2>1, <2>2 DEF Create, Fatal, Present
<1>5. CASE Read(p)
  <2>1. CASE \E x \in {"create", "gone"} : Goto(p, x) /\ UNCHANGED <<saw, file>>
    BY <1>1, <1>5, <2>1, Aside DEF Read, Goto
  <2>2. CASE file.lines > 0 /\ Goto(p, "check") /\ saw' = [saw EXCEPT ![p] = file] /\ file' = file
    <3>1. /\ saw'[p] = file /\ pc'[p] = "check"
          /\ \A q \in Procs \ {p} : saw'[q] = saw[q] /\ pc'[q] = pc[q]
      BY <1>2, <2>2 DEF Goto
    <3>2. pc[p] = "read" /\ file.by \in Procs /\ pc[file.by] # "idle"
      BY <1>1, <1>5, <2>2 DEF Read, OwnerInv, Locked
    <3>3. \A q \in Procs : pc'[q] = "idle" => pc[q] = "idle"
      BY <3>1
    <3>4. \A q \in Procs : pc[q] = "gone" => pc'[q] = "gone"
      BY <3>1, <3>2
    <3>5. Held'
      BY <1>2, <2>2, <3>1 DEF Held
    <3>6. Left'
      BY <1>1, <1>2, <2>2, <3>4 DEF Left, TypeOK
    <3>7. Judged'
      BY <1>1, <1>2, <2>2, <3>1, <3>2, <3>3, <3>4 DEF Judged
    <3> QED
      BY <3>5, <3>6, <3>7 DEF Intact
  <2> QED
    BY <1>5, <2>1, <2>2 DEF Read, Fatal
<1>6. CASE Check(p)
  <2>1. CASE Goto(p, "gone") /\ UNCHANGED <<saw, file>>
    BY <1>1, <1>6, <2>1, Aside DEF Check, Goto
  <2>2. CASE /\ ~Exists(saw[p].by) /\ ~InUse(saw[p].shm)
             /\ Goto(p, "unlink") /\ UNCHANGED <<saw, file>>
    <3>1. pc'[p] = "unlink" /\ \A q \in Procs \ {p} : pc'[q] = pc[q]
      BY <1>2, <2>2 DEF Goto
    <3>2. /\ pc[p] = "check" /\ saw[p].lines > 0 /\ saw[p].by \in Procs
          /\ pc[saw[p].by] = "gone"
      BY <1>2, <1>6, <2>2 DEF Check, Judged, Exists, Alive
    <3>3. file = saw[p] => orphans = {}
      <4>1. ASSUME NEW o \in orphans, file = saw[p] PROVE FALSE
        <5>1. o \in Procs /\ saw[p].shm = o
          BY <1>1, <1>2, <4>1 DEF TypeOK, Left, Line7
        <5> QED
          BY <2>2, <4>1, <5>1 DEF InUse
      <4> QED
        BY <4>1
    <3>4. \A q \in Procs : pc[q] = "gone" => pc'[q] = "gone"
      BY <3>1, <3>2
    <3>5. \A q \in Procs : pc'[q] = "idle" => pc[q] = "idle"
      BY <3>1
    <3>6. Held'
      BY <1>2, <2>2, <3>1 DEF Held
    <3>7. Left'
      BY <1>1, <1>2, <2>2, <3>4 DEF Left, TypeOK
    <3>8. Judged'
      BY <1>1, <1>2, <2>2, <3>1, <3>2, <3>3, <3>4, <3>5 DEF Judged
    <3> QED
      BY <3>6, <3>7, <3>8 DEF Intact
  <2> QED
    BY <1>6, <2>1, <2>2 DEF Check, Fatal
<1>7. CASE Unlink(p)
  <2>1. CASE Goto(p, "gone") /\ UNCHANGED <<saw, file>>
    BY <1>1, <1>7, <2>1, Aside DEF Unlink, Goto
  <2>2. CASE file # NoFile /\ Goto(p, "create") /\ file' = NoFile /\ saw' = saw
    <3>1. pc[p] = "unlink" /\ file = saw[p]
      BY <1>1, <1>7, <2>2 DEF Unlink, Steals
    <3>2. orphans = {} /\ file.by \in Procs /\ pc[file.by] = "gone"
      BY <1>2, <3>1 DEF Judged
    <3>3. \A q \in Procs : pc[q] \notin Holding
      BY <1>1, <1>2, <3>2, Sole DEF Holding
    <3> QED
      BY <1>1, <2>2, <3>1, <3>2, <3>3, Owner DEF Goto, Holding
  <2> QED
    BY <1>7, <2>1, <2>2 DEF Unlink, Fatal, Present
<1>8. ASSUME pc[p] \in Holding
      PROVE  /\ orphans = {} /\ orphans' = {} /\ pc[p] # "gone"
             /\ \A q \in Procs \ {p} : pc[q] \notin Holding
  BY <1>1, <1>2, <1>8, Sole DEF Holding
<1>9. CASE Fill(p)
  <2>1. pc[p] \in Holding /\ file = Empty(p)
    BY <1>2, <1>9 DEF Fill, Held, Holding
  <2>2. PICK x \in {"bind", "gone"} :
          /\ pc' = [pc EXCEPT ![p] = x] /\ saw' = saw
          /\ x = "bind" => file' = Line5(p)
          /\ x = "gone" => file' = NoFile
    BY <1>9, <2>1 DEF Fill, Goto, Empty, NoFile, Line5
  <2> QED
    BY <1>1, <1>8, <2>1, <2>2, Owner DEF Holding
<1>10. CASE Bind(p)
  <2>1. pc[p] \in Holding /\ file = Line5(p)
    BY <1>2, <1>10 DEF Bind, Held, Holding
  <2>2. file.by = p /\ file.lines >= 5
    BY <2>1 DEF Line5
  <2>3. pc' = [pc EXCEPT ![p] = "shmem"] /\ saw' = saw /\ file' = Line6(p)
    BY <1>10, <2>2 DEF Bind, Goto, Line6
  <2> QED
    BY <1>1, <1>8, <2>1, <2>3, Owner DEF Holding
<1>11. CASE Shmem(p)
  <2>1. pc[p] \in Holding /\ file = Line6(p)
    BY <1>2, <1>11 DEF Shmem, Held, Holding
  <2>2. file.by = p /\ file.lines >= 6
    BY <2>1 DEF Line6
  <2>3. pc' = [pc EXCEPT ![p] = "up"] /\ saw' = saw /\ file' = Line7(p)
    BY <1>11, <2>2 DEF Shmem, Goto, Line7
  <2> QED
    BY <1>1, <1>8, <2>1, <2>3, Owner DEF Holding
<1>12. CASE Exit(p)
  <2>1. pc[p] \in Holding /\ pc' = [pc EXCEPT ![p] = "gone"] /\ saw' = saw /\ file' = NoFile
    BY <1>12 DEF Exit, ProcExit, Goto, Locked, Holding
  <2> QED
    BY <1>1, <1>8, <2>1, Owner DEF Holding
<1> QED
  BY <1>1, <1>3, <1>4, <1>5, <1>6, <1>7, <1>9, <1>10, <1>11, <1>12 DEF Step

\* Immediate shutdowns, kills, and what becomes of children and pids.
LEMMA FaultStep ==
    ASSUME IInv, NEW p \in Procs, ~stolen',
           Quit(p) \/ Kill(p) \/ OrphansEnd(p) \/ PidReused(p)
    PROVE  Intact'
<1>1. ~stolen /\ TypeOK /\ Intact
  BY DEF Quit, Kill, OrphansEnd, PidReused, IInv
<1>2. pc \in [Procs -> Steps] /\ Held /\ Left /\ Judged
  BY <1>1 DEF TypeOK, Intact
<1>3. CASE Quit(p)
  <2>1. /\ pc[p] \in Holding /\ pc' = [pc EXCEPT ![p] = "gone"] /\ saw' = saw
        /\ file' = NoFile /\ orphans' = orphans
    BY <1>3 DEF Quit, ProcExit, Goto, Holding
  <2>2. orphans = {} /\ \A q \in Procs \ {p} : pc[q] \notin Holding
    BY <1>1, <1>2, <2>1, Sole
  <2> QED
    BY <1>1, <2>1, <2>2, Owner DEF Holding
<1>4. CASE Kill(p)
  <2>1. pc[p] # "gone" /\ pc' = [pc EXCEPT ![p] = "gone"] /\ file' = file /\ saw' = saw
    BY <1>4 DEF Kill, Goto, Alive
  <2>2. CASE orphans' = orphans
    BY <1>1, <2>1, <2>2, Aside
  <2>3. CASE pc[p] = "up" /\ orphans' = orphans \cup {p}
    <3>1. /\ file = Line7(p) /\ orphans' = {p} /\ file.by = p
          /\ \A q \in Procs \ {p} : pc[q] \notin Holding
      <4>1. file.by = p /\ orphans = {} /\ \A q \in Procs \ {p} : pc[q] \notin Holding
        BY <1>1, <1>2, <2>3, Sole DEF Holding
      <4>2. file = Line7(p)
        BY <1>2, <2>3 DEF Held
      <4> QED
        BY <4>1, <4>2, <2>3
    <3>2. pc'[p] = "gone" /\ \A q \in Procs \ {p} : pc'[q] = pc[q]
      BY <1>2, <2>1
    <3>3. Held'
      BY <3>1, <3>2 DEF Held, Holding
    <3>4. Left'
      BY <2>1, <3>1, <3>2 DEF Left
    <3>5. Judged'
      <4>1. \A q \in Procs : pc[q] = "gone" => pc'[q] = "gone"
        BY <2>1, <3>2
      <4>2. \A q \in Procs : pc'[q] = "idle" => pc[q] = "idle"
        BY <3>2
      <4>3. \A q \in Procs : pc[q] = "unlink" => file # saw[q]
        BY <1>2, <2>1, <3>1 DEF Judged
      <4> QED
        BY <1>2, <2>1, <3>2, <4>1, <4>2, <4>3 DEF Judged
    <3> QED
      BY <3>3, <3>4, <3>5 DEF Intact
  <2> QED
    BY <1>4, <2>2, <2>3 DEF Kill
<1>5. CASE OrphansEnd(p) \/ PidReused(p)
  <2>1. orphans' \subseteq orphans /\ UNCHANGED <<pc, saw, file>>
    BY <1>5 DEF OrphansEnd, PidReused
  <2> QED
    BY <1>2, <2>1 DEF Intact, Held, Left, Judged
<1> QED
  BY <1>3, <1>4, <1>5

-----------------------------------------------------------------------------

\* The inductive invariant.
THEOREM Invariance == Spec => []IInv
<1>1. Init => IInv
  BY IndInit
<1>2. IInv /\ [Next]_vars => IInv'
  <2> SUFFICES ASSUME IInv, [Next]_vars PROVE IInv'
    OBVIOUS
  <2>1. CASE Next
    <3>1. ~stolen' => Intact'
      <4>1. PICK p \in Procs : \/ SystemCall(p) \/ Quit(p) \/ Kill(p)
                               \/ OrphansEnd(p) \/ PidReused(p)
        BY <2>1 DEF Next
      <4> QED
        BY <4>1, CallStep, FaultStep, Zenon
    <3> QED
      BY <2>1, <3>1, TypeStep, OwnerStep, PortStep DEF IInv
  <2>2. CASE UNCHANGED vars
    BY <2>2 DEF vars, IInv, TypeOK, OwnerInv, PortInv, Intact, Held, Left, Judged
  <2> QED
    BY <2>1, <2>2
<1> QED
  BY <1>1, <1>2, PTL DEF Spec

\* What the steps of PostmasterMain and CreateLockFile leave in the lock file,
\* the port and the process table has its type.
THEOREM TypeCorrect == Spec => []TypeOK
<1>1. IInv => TypeOK
  BY DEF IInv
<1> QED
  BY <1>1, Invariance, PTL

\* A postmaster that starts recovery is alone in the data directory: no second
\* postmaster, and no child of a killed one unless CreateLockFile has unlinked a
\* file that was no longer the one it had read; for any number of overlapping
\* starts, kills and immediate shutdowns.
THEOREM ExclusiveHolds == Spec => []ExclusiveUnlessStolen
<1>1. IInv => ExclusiveUnlessStolen
  <2> SUFFICES ASSUME IInv, NEW p \in Procs, pc[p] = "up"
               PROVE  Alone(p) /\ (stolen \/ orphans = {})
    BY DEF ExclusiveUnlessStolen
  <2>1. Alone(p)
    BY DEF IInv, PortInv, Alone
  <2>2. ~stolen => orphans = {}
    BY Sole DEF IInv, Intact, Holding
  <2> QED
    BY <2>1, <2>2
<1> QED
  BY <1>1, Invariance, PTL

\* Whoever uses the directory is named in postmaster.pid (line 1 by its pid,
\* line 7 by its shared memory), whatever was killed before, with the same
\* exception.
THEOREM LockTruthHolds == Spec => []LockTruth
<1>1. IInv => LockTruth
  <2> SUFFICES ASSUME TypeOK, Held, Left
               PROVE  /\ \A p \in Procs : pc[p] = "up" => file.by = p /\ file.shm = p
                      /\ \A p \in orphans : file.by = p /\ file.shm = p
    BY DEF IInv, Intact, LockTruth
  <2> QED
    BY DEF Held, Left, Line7
<1> QED
  BY <1>1, Invariance, PTL

-----------------------------------------------------------------------------
(* The refinement.                                                         *)

\* What PgServer sees of the directory.
Pm == IF \E p \in Procs : pc[p] \in Locked THEN "starting" ELSE "down"
Pidfile == IF file.lines = 0 THEN "none"
           ELSE IF Alive(file.by) THEN "own"
           ELSE IF file.by \in reused THEN "reused" ELSE "stale"

\* The lock file names a live process exactly while a postmaster holds it.
Matches ==
    /\ Pidfile = "own" <=> Pm = "starting"
    /\ Pm \in {"starting", "down"}
    /\ Pidfile \in {"none", "own", "reused", "stale"}

LEMMA OwnWhileUp == ASSUME IInv, ~stolen PROVE Matches
<1>1. ASSUME NEW p \in Procs, pc[p] \in Locked PROVE file.by = p /\ file.lines > 0
  <2>1. file \in {Line5(p), Line6(p), Line7(p)}
    BY <1>1 DEF IInv, Intact, Held, Locked
  <2> QED
    BY <2>1 DEF Line5, Line6, Line7
<1>2. \A p \in Procs : pc[p] \in Locked => Alive(p)
  BY DEF Locked, Alive
<1>3. file.lines > 0 => file.by \in Procs /\ (Alive(file.by) => pc[file.by] \in Locked)
  BY DEF IInv, OwnerInv, Alive
<1>4. file.lines \in {0, 5, 6, 7}
  BY DEF IInv, TypeOK, Files
<1>5. Pidfile = "own" <=> file.lines > 0 /\ Alive(file.by)
  BY <1>4 DEF Pidfile
<1>6. Pm = "starting" <=> \E p \in Procs : pc[p] \in Locked
  BY DEF Pm
<1>7. Pidfile = "own" <=> Pm = "starting"
  BY <1>1, <1>2, <1>3, <1>5, <1>6
<1> QED
  BY <1>7 DEF Matches, Pm, Pidfile

\* The file changes its owner only by being empty in between, and a process
\* that is gone does not come back.
LEMMA OwnerMoves ==
    ASSUME IInv, Next
    PROVE  /\ file.lines > 0 /\ file'.lines > 0 => file'.by = file.by
           /\ file.lines = 0 /\ file'.lines > 0 => Alive(file.by)' /\ file'.by \in Procs
           /\ \A q \in Procs : pc[q] = "gone" => pc'[q] = "gone"
           /\ \A q \in reused' : q \in reused \/ pc[q] = "gone"
<1>1. PICK p \in Procs : \/ SystemCall(p) \/ Quit(p) \/ Kill(p)
                         \/ OrphansEnd(p) \/ PidReused(p)
  BY DEF Next
<1>2. pc \in [Procs -> Steps] /\ file.lines \in {0, 5, 6, 7}
  BY DEF IInv, TypeOK, Files
<1>3. NoFile.lines = 0 /\ Empty(p).lines = 0 /\ Empty(p).by = p
  BY DEF NoFile, Empty
<1>4. /\ \A q \in Procs : pc[q] = "gone" => pc'[q] = "gone"
      /\ \A q \in reused' : q \in reused \/ pc[q] = "gone"
  <2>1. ASSUME pc[p] # "gone", NEW x, pc' = [pc EXCEPT ![p] = x]
        PROVE  \A q \in Procs : pc[q] = "gone" => pc'[q] = "gone"
    BY <2>1, <1>2
  <2>2. CASE SystemCall(p) \/ Quit(p)
    <3>1. pc[p] # "gone" /\ \E x : pc' = [pc EXCEPT ![p] = x]
      BY <2>2 DEF SystemCall, Step, Start, Create, Read, Check, Unlink, Fill, Bind, Shmem,
                  Exit, Quit, ProcExit, Fatal, Goto, Locked
    <3>2. reused' = reused
      BY <2>2 DEF SystemCall, Quit
    <3> QED
      BY <3>1, <3>2, <2>1
  <2>3. CASE Kill(p)
    BY <2>1, <2>3 DEF Kill, Alive, Goto
  <2>4. CASE OrphansEnd(p) \/ PidReused(p)
    BY <2>4 DEF OrphansEnd, PidReused
  <2> QED
    BY <1>1, <2>2, <2>3, <2>4
<1>5. CASE file' = file \/ file' = NoFile \/ file' = Empty(p)
  BY <1>2, <1>3, <1>4, <1>5
<1>6. CASE Fill(p)
  <2>1. CASE file = Empty(p) /\ Goto(p, "bind") /\ file' = [file EXCEPT !.lines = 5]
    <3>1. file'.by = p /\ file.lines = 0
      BY <2>1, <1>3 DEF Empty, NoFile
    <3>2. pc'[p] = "bind"
      BY <2>1, <1>2 DEF Goto
    <3> QED
      BY <3>1, <3>2, <1>4 DEF Alive
  <2> QED
    BY <2>1, <1>5, <1>6 DEF Fill
<1>7. CASE Bind(p) \/ Shmem(p)
  <2>1. file' = file \/ (file.lines > 0 /\ file'.by = file.by)
    BY <1>2, <1>7 DEF Bind, Shmem
  <2> QED
    BY <2>1, <1>4, <1>5
<1> QED
  BY <1>1, <1>5, <1>6, <1>7
     DEF SystemCall, Step, Start, Create, Read, Check, Unlink, Exit, Quit, ProcExit, Fatal,
         Kill, OrphansEnd, PidReused

\* A step of the interlock is one of pg_ctl start, of a postmaster or of the
\* process table, or none that PgServer could see.
LEMMA StepRefines ==
    ASSUME IInv, IInv', Next, ~stolen'
    PROVE  PG!InterlockActs(Dir) \/ UNCHANGED PG!pgVars
<1>0. ~stolen /\ OwnerInv
  <2>1. ~stolen
    BY Zenon DEF Next, SystemCall, Quit, Kill, OrphansEnd, PidReused
  <2> QED
    BY <2>1 DEF IInv
<1>1. Matches
  BY <1>0, OwnWhileUp
<1>2. Matches'
  <2>1. IInv' /\ ~stolen' => Matches'
    BY OwnWhileUp, PTL
  <2> QED
    BY <2>1, Zenon
<1>3. /\ file.lines \in {0, 5, 6, 7} /\ file'.lines \in {0, 5, 6, 7}
      /\ file.lines > 0 => file.by \in Procs
  BY DEF IInv, TypeOK, Files, OwnerInv
<1>4. Pidfile = "own" => Pidfile' # "reused"
  <2> SUFFICES ASSUME Pidfile = "own", Pidfile' = "reused" PROVE FALSE
    OBVIOUS
  <2>1. file.lines > 0 /\ Alive(file.by) /\ file'.lines > 0 /\ file'.by \in reused'
    BY <1>3 DEF Pidfile
  <2>2. file.by \in reused \/ pc[file.by] = "gone"
    BY <2>1, OwnerMoves
  <2> QED
    BY <1>0, <2>1, <2>2 DEF OwnerInv, Alive
<1>5. Pidfile' = "own" => Pidfile # "reused"
  <2> SUFFICES ASSUME Pidfile = "reused", Pidfile' = "own" PROVE FALSE
    OBVIOUS
  <2>1. file.lines > 0 /\ file.by \in reused /\ file'.lines > 0 /\ Alive(file.by)'
    BY <1>3 DEF Pidfile
  <2>2. file'.by = file.by /\ pc[file.by] = "gone" /\ pc'[file.by] = "gone"
    BY <1>0, <2>1, <1>3, OwnerMoves DEF OwnerInv
  <2> QED
    BY <2>1, <2>2 DEF Alive
<1>6. Pidfile = "none" => Pidfile' \in {"none", "own"}
  BY <1>3, OwnerMoves DEF Pidfile
<1>7. \/ Pm' = Pm /\ Pidfile' = Pidfile
      \/ Pm = "starting" /\ Pm' = "down" /\ Pidfile' \in {"none", "stale"}
      \/ Pidfile \in {"none", "stale"} /\ Pm' = "starting" /\ Pidfile' = "own"
      \/ Pm = "down" /\ Pm' = "down" /\ Pidfile' = "none"
      \/ Pm' = Pm /\ Pidfile = "stale" /\ Pidfile' = "reused"
      \/ Pm' = Pm /\ Pidfile = "reused" /\ Pidfile' = "stale"
  BY <1>1, <1>2, <1>4, <1>5, <1>6 DEF Matches
<1> DEFINE f(x) == [d \in {Dir} |-> x]
<1>8. \A x, y : [f(x) EXCEPT ![Dir] = y] = f(y)
  OBVIOUS
<1>9. \A x : f(x)[Dir] = x
  OBVIOUS
<1> QED
  BY <1>7, <1>8, <1>9
  DEF Pm, Pidfile, PG!InterlockActs, PG!PgCtlStart, PG!HasCluster, PG!LockFree,
      PG!PortFree, PG!PostmasterActs, PG!PostmasterExits, PG!PostmasterDies,
      PG!PidRecycled, PG!ForeignExits, PG!Alive, PG!pgVars

\* Any number of overlapping starts implement pg_ctl start and the life of
\* postmasters as the launcher sees them, up to the step that steals a file.
THEOREM Refinement == Spec => ImplementsPgServer
<1>1. Init => PG!NeverStarted
  BY DEF Init, PG!NeverStarted, NoFile, Locked
<1>2. IInv /\ IInv' /\ [Next]_vars => [stolen' \/ PG!InterlockActs(Dir)]_(PG!pgVars)
  <2>1. CASE Next
    BY <2>1, StepRefines
  <2>2. CASE UNCHANGED vars
    BY <2>2 DEF vars, PG!pgVars, Alive
  <2> QED
    BY <2>1, <2>2
<1> QED
  BY <1>1, <1>2, Invariance, PTL DEF Spec, ImplementsPgServer
=============================================================================
