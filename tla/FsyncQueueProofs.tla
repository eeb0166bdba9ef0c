-------------------------- MODULE FsyncQueueProofs --------------------------
(***************************************************************************)
(* The fsync requests, for any number of relations, forks and segments,    *)
(* any size of the queue and any width of the cycle counters: a checkpoint *)
(* that succeeds has synced everything it had to, a dropped relation never *)
(* makes one fail, and its first file outlives the next one.               *)
(***************************************************************************)
EXTENDS FsyncQueue, WellFoundedInduction, SequenceTheorems, TLAPS

USE ConstantsAssumption

Forget(r) == [rel |-> r, fork |-> InvalidForkNumber, seg |-> FORGET_RELATION_FSYNC]
Unlink(r) == [rel |-> r, fork |-> MAIN_FORKNUM, seg |-> UNLINK_RELATION_REQUEST]

\* The requests in the queue.
Queued == {queue[i] : i \in DOMAIN queue}

\* A table has a request for f.
Asked(t, f) ==
    f.rel \in DOMAIN t.pending /\ f.seg \in t.pending[f.rel].requests[f.fork]

\* mdsync has taken the request for f out of the table and not worked it off.
Scanned(f) == f.rel = ck.cur /\ f.fork + 1 = ck.fork /\ f.seg \in ck.scan

-----------------------------------------------------------------------------
(* The invariant.                                                          *)

\* Where the checkpointer can be.  A missing file is never missed twice.
Places ==
    /\ ck.scan # {} => ck.cur # NoRel /\ ck.fork # 0
    /\ ck.cur # NoRel =>
          /\ ck.pc = "scan" /\ ck.cur \in DOMAIN tab.pending /\ ck.cur \notin ck.todo
          /\ tab.pending[ck.cur].cycle_ctr # tab.mdsync_cycle_ctr
    /\ ck.pc \in {"scan", "post"} => ck.need = {}
    /\ ck.failures = 0

\* All buffers that were dirty at the last redo point get the mark, and only
\* dirty ones keep it.
Marks ==
    /\ ck.pc # "redo" => \A f \in Files : mem[f] = 2 => f \in ck.need
    /\ \A f \in Files : f \in ck.need => mem[f] > 0

\* Old entries are those a failed mdsync left, or the running one has to do.
Cycles ==
    /\ ~tab.mdsync_in_progress =>
          \A r \in DOMAIN tab.pending : tab.pending[r].cycle_ctr = tab.mdsync_cycle_ctr
    /\ ck.pc = "scan" =>
          /\ tab.mdsync_in_progress
          /\ \A r \in DOMAIN tab.pending :
                tab.pending[r].cycle_ctr # tab.mdsync_cycle_ctr =>
                    /\ r \in ck.todo \cup {ck.cur}
                    /\ (tab.pending[r].cycle_ctr + 1) % CtrWidth = tab.mdsync_cycle_ctr

\* What is written and not synced is asked for somewhere, or will be written again.
Covered ==
    \A f \in Files : os[f] > 0 =>
        mem[f] >= os[f] \/ f \in Queued \/ Asked(tab, f) \/ Scanned(f)

\* The running mdsync has yet to come to all that it has to sync ...
Due ==
    ck.pc = "scan" => \A f \in Files : os[f] = 2 =>
        \/ Scanned(f)
        \/ /\ Asked(tab, f)
           /\ \/ /\ f.rel \in ck.todo
                 /\ tab.pending[f.rel].cycle_ctr # tab.mdsync_cycle_ctr
              \/ f.rel = ck.cur /\ f.fork >= ck.fork

\* ... and nothing is left when it has returned.
Done == ck.pc = "post" => \A f \in Files : os[f] < 2

\* Nobody touches a file of a dropped relation any more.
Dropped ==
    \A r \in Rels : drop[r] # "live" =>
        dropAge[r] > 0 /\ \A f \in FilesOf(r) : mem[f] = 0 /\ os[f] = 0 /\ f \notin io

Forgotten(r) == drop[r] \notin {"live", "dropped"}

\* No request for a file of r comes after the one that cancels them.
Ordered(q) ==
    \A i, j \in DOMAIN q : q[i] \in Files /\ q[j] = Forget(q[i].rel) => i < j

\* The requests for r are cancelled, the ones being worked off too.
Cancelled(t, r) ==
    /\ \A f \in FilesOf(r) : ~Asked(t, f)
    /\ ck.cur = r /\ ck.scan # {} => t.pending[r].canceled[ck.fork - 1]

\* Files go after their requests have been cancelled, or will be before the
\* queue is absorbed.
Forgets ==
    /\ Ordered(queue)
    /\ \A r \in Rels :
          /\ Forget(r) \in Queued \/ Unlink(r) \in Queued => Forgotten(r)
          /\ Forgotten(r) /\ Forget(r) \notin Queued =>
                Cancelled(tab, r) /\ \A f \in FilesOf(r) : f \notin Queued
    /\ \A f \in Files : f \notin exist => Forgotten(f.rel)

\* Who is on the list of files to remove is dropped, and since when; between
\* mdpreckpt and the redo point the counter is ahead of the checkpoint.
Unlinks ==
    \A i \in DOMAIN tab.unlinks :
        LET u == tab.unlinks[i]
        IN  /\ Forgotten(u.rel)
            /\ ck.pc # "pre" /\ u.cycle_ctr # tab.mdckpt_cycle_ctr => dropAge[u.rel] = 2

IInv ==
    /\ TypeOK /\ Places /\ Marks /\ Cycles /\ Covered /\ Due /\ Done
    /\ Dropped /\ Forgets /\ Unlinks /\ ~spurious

-----------------------------------------------------------------------------
(* Requests and tables.                                                    *)

LEMMA RequestKinds ==
    /\ \A r \in Rels : Forget(r) \in Requests /\ Forget(r) \notin Files
    /\ \A r \in Rels : Unlink(r) \in Requests /\ Unlink(r) \notin Files
    /\ \A r, s \in Rels : Forget(r) = Forget(s) => r = s
    /\ \A r, s \in Rels : Unlink(r) = Unlink(s) => r = s
    /\ \A r, s \in Rels : Unlink(r) # Forget(s)
    /\ \A q \in Requests : q.rel \in Rels /\ (q \in Files \/ q = Forget(q.rel) \/ q = Unlink(q.rel))
    /\ \A f \in Files : /\ f.rel \in Rels /\ f.fork \in Forks /\ f.seg \in Segnos
                        /\ f.seg # FORGET_RELATION_FSYNC /\ f.seg # UNLINK_RELATION_REQUEST
                        /\ f \in Requests
    /\ \A f, g \in Files : f.rel = g.rel /\ f.fork = g.fork /\ f.seg = g.seg => f = g
<1> USE DEF Requests, Files, Forget, Unlink, InvalidForkNumber, MAIN_FORKNUM,
            FORGET_RELATION_FSYNC, UNLINK_RELATION_REQUEST
<1>1. -1 \notin Forks /\ -1 \notin Segnos /\ -2 \notin Segnos /\ 0 # -1 /\ -1 # -2
  BY DEF Forks
<1>2. \A r \in Rels : Forget(r) \in Requests /\ Forget(r) \notin Files
  BY <1>1
<1>3. \A r \in Rels : Unlink(r) \in Requests /\ Unlink(r) \notin Files
  BY <1>1
<1>4. /\ \A r, s \in Rels : Forget(r) = Forget(s) => r = s
      /\ \A r, s \in Rels : Unlink(r) = Unlink(s) => r = s
      /\ \A r, s \in Rels : Unlink(r) # Forget(s)
  BY <1>1
<1>5. \A q \in Requests : q.rel \in Rels /\ (q \in Files \/ q = Forget(q.rel) \/ q = Unlink(q.rel))
  OBVIOUS
<1>6. \A f \in Files : /\ f.rel \in Rels /\ f.fork \in Forks /\ f.seg \in Segnos
                       /\ f.seg # -1 /\ f.seg # -2 /\ f \in Requests
  BY <1>1
<1>7. \A f, g \in Files : f.rel = g.rel /\ f.fork = g.fork /\ f.seg = g.seg => f = g
  OBVIOUS
<1> QED
  BY <1>2, <1>3, <1>4, <1>5, <1>6, <1>7

LEMMA TableFields ==
    ASSUME NEW t \in Tables
    PROVE  /\ DOMAIN t.pending \subseteq Rels /\ t.pending \in [DOMAIN t.pending -> Entries]
           /\ t.unlinks \in Seq([rel : Rels, cycle_ctr : Ctr])
           /\ t.mdsync_cycle_ctr \in Ctr /\ t.mdckpt_cycle_ctr \in Ctr
           /\ t.mdsync_in_progress \in BOOLEAN
<1>1. t.pending \in UNION {[known -> Entries] : known \in SUBSET Rels}
  BY DEF Tables
<1>2. PICK known \in SUBSET Rels : t.pending \in [known -> Entries]
  BY <1>1
<1> QED
  BY <1>2 DEF Tables

LEMMA EntryFields ==
    ASSUME NEW t \in Tables, NEW r \in DOMAIN t.pending
    PROVE  /\ t.pending[r] \in Entries
           /\ t.pending[r].cycle_ctr \in Ctr
           /\ t.pending[r].requests \in [Forks -> SUBSET Segnos]
           /\ t.pending[r].canceled \in [Forks -> BOOLEAN]
BY TableFields DEF Entries

LEMMA UnlinkFields ==
    ASSUME NEW t \in Tables, NEW i \in DOMAIN t.unlinks
    PROVE  t.unlinks[i].rel \in Rels
<1>1. t.unlinks \in Seq([rel : Rels, cycle_ctr : Ctr])
  BY TableFields
<1>2. i \in 1 .. Len(t.unlinks)
  BY <1>1, LenProperties
<1>3. t.unlinks[i] \in [rel : Rels, cycle_ctr : Ctr]
  BY <1>1, <1>2, ElementOfSeq
<1> QED
  BY <1>3

\* Tables are made from tables by changing their entries.
LEMMA TableWith ==
    ASSUME NEW t \in Tables, NEW known \in SUBSET Rels, NEW e \in [known -> Entries]
    PROVE  /\ [t EXCEPT !.pending = e] \in Tables
           /\ [t EXCEPT !.pending = e].pending = e
           /\ [t EXCEPT !.pending = e].unlinks = t.unlinks
           /\ [t EXCEPT !.pending = e].mdsync_cycle_ctr = t.mdsync_cycle_ctr
           /\ [t EXCEPT !.pending = e].mdckpt_cycle_ctr = t.mdckpt_cycle_ctr
           /\ [t EXCEPT !.pending = e].mdsync_in_progress = t.mdsync_in_progress
<1>1. e \in UNION {[k -> Entries] : k \in SUBSET Rels}
  OBVIOUS
<1> QED
  BY <1>1 DEF Tables

-----------------------------------------------------------------------------
(* Absorbing requests.                                                     *)

\* T is the table t after the requests in S, when those that cancel others
\* come after them.
Absorbs(t, T, S) ==
    /\ T \in Tables
    /\ T.mdsync_cycle_ctr = t.mdsync_cycle_ctr
    /\ T.mdckpt_cycle_ctr = t.mdckpt_cycle_ctr
    /\ T.mdsync_in_progress = t.mdsync_in_progress
    /\ DOMAIN t.pending \subseteq DOMAIN T.pending
    /\ \A r \in DOMAIN t.pending : T.pending[r].cycle_ctr = t.pending[r].cycle_ctr
    /\ \A r \in DOMAIN T.pending \ DOMAIN t.pending :
          T.pending[r].cycle_ctr = t.mdsync_cycle_ctr
    /\ \A f \in Files : Asked(T, f) <=> (Asked(t, f) \/ f \in S) /\ Forget(f.rel) \notin S
    /\ \A r \in DOMAIN t.pending, k \in Forks :
          T.pending[r].canceled[k] <=> t.pending[r].canceled[k] \/ Forget(r) \in S
    /\ \A i \in DOMAIN T.unlinks :
          \/ \E j \in DOMAIN t.unlinks : T.unlinks[i] = t.unlinks[j]
          \/ \E r \in Rels : /\ Unlink(r) \in S
                             /\ T.unlinks[i] = [rel |-> r, cycle_ctr |-> t.mdckpt_cycle_ctr]

LEMMA AbsorbsNothing == ASSUME NEW t \in Tables PROVE Absorbs(t, t, {})
BY DEF Absorbs

\* A request for a segment file.
LEMMA RememberFile ==
    ASSUME NEW t \in Tables, NEW g \in Files
    PROVE  Absorbs(t, RememberFsyncRequest(t, g), {g})
<1> DEFINE known == g.rel \in DOMAIN t.pending
           old == IF known THEN t.pending[g.rel] ELSE NewEntry(t)
           new == [old EXCEPT !.requests[g.fork] = @ \cup {g.seg}]
           D == DOMAIN t.pending \cup {g.rel}
           e == [r \in D |-> IF r = g.rel THEN new ELSE t.pending[r]]
           T == [t EXCEPT !.pending = e]
<1>1. /\ g.rel \in Rels /\ g.fork \in Forks /\ g.seg \in Segnos
      /\ g.seg # FORGET_RELATION_FSYNC /\ g.seg # UNLINK_RELATION_REQUEST
  BY RequestKinds
<1>2. RememberFsyncRequest(t, g) = T
  BY <1>1 DEF RememberFsyncRequest
<1>3. /\ old \in Entries
      /\ ~known => /\ old.cycle_ctr = t.mdsync_cycle_ctr
                   /\ \A k \in Forks : old.requests[k] = {}
  BY TableFields, EntryFields DEF NewEntry, Entries
<1> HIDE DEF old
<1>4. /\ new \in Entries /\ new.cycle_ctr = old.cycle_ctr /\ new.canceled = old.canceled
      /\ new.requests[g.fork] = old.requests[g.fork] \cup {g.seg}
      /\ \A k \in Forks \ {g.fork} : new.requests[k] = old.requests[k]
  BY <1>1, <1>3 DEF Entries
<1> HIDE DEF new
<1>5. D \in SUBSET Rels /\ e \in [D -> Entries]
  BY <1>1, <1>4, TableFields
<1>6. e[g.rel] = new /\ \A r \in DOMAIN t.pending : r # g.rel => e[r] = t.pending[r]
  OBVIOUS
<1> HIDE DEF e
<1>7. /\ T \in Tables /\ T.pending = e /\ T.unlinks = t.unlinks
      /\ T.mdsync_cycle_ctr = t.mdsync_cycle_ctr
      /\ T.mdckpt_cycle_ctr = t.mdckpt_cycle_ctr
      /\ T.mdsync_in_progress = t.mdsync_in_progress
  BY <1>5, TableWith
<1>8. DOMAIN T.pending = D
  BY <1>5, <1>7
<1> HIDE DEF T
<1>9. known => old = t.pending[g.rel]
  BY DEF old
<1>10. \A r \in DOMAIN t.pending : T.pending[r].cycle_ctr = t.pending[r].cycle_ctr
  BY <1>4, <1>6, <1>7, <1>9
<1>11. \A r \in D \ DOMAIN t.pending : T.pending[r].cycle_ctr = t.mdsync_cycle_ctr
  BY <1>3, <1>4, <1>6, <1>7
<1>12. ASSUME NEW f \in Files
       PROVE  Asked(T, f) <=> (Asked(t, f) \/ f = g)
  <2>1. /\ f.rel \in Rels /\ f.fork \in Forks /\ f.seg \in Segnos
        /\ (f.rel = g.rel /\ f.fork = g.fork /\ f.seg = g.seg) <=> f = g
    BY RequestKinds
  <2>2. CASE f.rel # g.rel
    BY <1>6, <1>7, <1>8, <2>1, <2>2 DEF Asked
  <2>3. CASE f.rel = g.rel
    <3>1. Asked(T, f) <=> f.seg \in new.requests[f.fork]
      BY <1>6, <1>7, <1>8, <2>3 DEF Asked
    <3>2. Asked(t, f) <=> f.seg \in old.requests[f.fork]
      BY <1>3, <1>9, <2>1, <2>3 DEF Asked
    <3> QED
      BY <1>4, <2>1, <2>3, <3>1, <3>2
  <2> QED
    BY <2>2, <2>3
<1>13. \A f \in Files : Forget(f.rel) # g
  BY RequestKinds
<1>14. \A r \in DOMAIN t.pending : T.pending[r].canceled = t.pending[r].canceled
  BY <1>4, <1>6, <1>7, <1>9
<1>15. \A r \in DOMAIN t.pending : Forget(r) # g
  <2>1. DOMAIN t.pending \subseteq Rels
    BY TableFields
  <2>2. \A r \in Rels : Forget(r) \notin Files
    BY RequestKinds
  <2> QED
    BY <2>1, <2>2, Zenon
<1> QED
  BY <1>2, <1>7, <1>8, <1>10, <1>11, <1>12, <1>13, <1>14, <1>15 DEF Absorbs

\* The request that cancels the others of its relation.
LEMMA RememberForget ==
    ASSUME NEW t \in Tables, NEW s \in Rels
    PROVE  Absorbs(t, RememberFsyncRequest(t, Forget(s)), {Forget(s)})
<1>1. /\ Forget(s).rel = s /\ Forget(s).seg = FORGET_RELATION_FSYNC
      /\ FORGET_RELATION_FSYNC # UNLINK_RELATION_REQUEST
      /\ \A f \in Files : f # Forget(s) /\ (Forget(f.rel) = Forget(s) <=> f.rel = s)
      /\ \A r \in Rels : Forget(r) = Forget(s) <=> r = s
      /\ \A f \in Files : f.rel \in Rels /\ f.fork \in Forks
  BY RequestKinds DEF Forget, FORGET_RELATION_FSYNC, UNLINK_RELATION_REQUEST
<1>2. CASE s \notin DOMAIN t.pending
  <2>1. RememberFsyncRequest(t, Forget(s)) = t
    BY <1>1, <1>2 DEF RememberFsyncRequest
  <2>2. \A f \in Files : f.rel = s => ~Asked(t, f)
    BY <1>2 DEF Asked
  <2>3. \A r \in DOMAIN t.pending : Forget(r) # Forget(s)
    BY <1>1, <1>2, TableFields
  <2> QED
    BY <1>1, <2>1, <2>2, <2>3 DEF Absorbs
<1>3. CASE s \in DOMAIN t.pending
  <2> DEFINE old == t.pending[s]
             new == [old EXCEPT !.requests = [k \in Forks |-> {}],
                                !.canceled = [k \in Forks |-> TRUE]]
             D == DOMAIN t.pending
             e == [r \in D |-> IF r = s THEN new ELSE t.pending[r]]
             T == [t EXCEPT !.pending = e]
  <2>1. RememberFsyncRequest(t, Forget(s)) = T
    <3>1. DOMAIN t.pending \cup {s} = D
      BY <1>3
    <3> QED
      BY <1>1, <1>3, <3>1 DEF RememberFsyncRequest
  <2>2. /\ new \in Entries /\ new.cycle_ctr = old.cycle_ctr
        /\ \A k \in Forks : new.requests[k] = {} /\ new.canceled[k]
    BY <1>3, EntryFields DEF Entries
  <2> HIDE DEF new
  <2>3. D \in SUBSET Rels /\ e \in [D -> Entries]
    BY <2>2, TableFields
  <2>4. e[s] = new /\ \A r \in D : r # s => e[r] = t.pending[r]
    BY <1>3
  <2> HIDE DEF e
  <2>5. /\ T \in Tables /\ T.pending = e /\ T.unlinks = t.unlinks
        /\ T.mdsync_cycle_ctr = t.mdsync_cycle_ctr
        /\ T.mdckpt_cycle_ctr = t.mdckpt_cycle_ctr
        /\ T.mdsync_in_progress = t.mdsync_in_progress
    BY <2>3, TableWith
  <2>6. DOMAIN T.pending = D
    BY <2>3, <2>5
  <2> HIDE DEF T
  <2>7. \A r \in D : T.pending[r].cycle_ctr = t.pending[r].cycle_ctr
    BY <2>2, <2>4, <2>5
  <2>8. \A f \in Files : Asked(T, f) <=> Asked(t, f) /\ f.rel # s
    BY <1>1, <1>3, <2>2, <2>4, <2>5, <2>6 DEF Asked
  <2>9. \A r \in D, k \in Forks : r # s => T.pending[r].canceled[k] = t.pending[r].canceled[k]
    BY <2>4, <2>5
  <2>10. \A k \in Forks : T.pending[s].canceled[k]
    BY <2>2, <2>4, <2>5
  <2>11. \A r \in D : Forget(r) = Forget(s) <=> r = s
    BY <1>1, <2>3
  <2> QED
    BY <1>1, <2>1, <2>5, <2>6, <2>7, <2>8, <2>9, <2>10, <2>11 DEF Absorbs
<1> QED
  BY <1>2, <1>3

\* The request to remove the first file of a relation.
LEMMA RememberUnlink ==
    ASSUME NEW t \in Tables, NEW s \in Rels
    PROVE  Absorbs(t, RememberFsyncRequest(t, Unlink(s)), {Unlink(s)})
<1> DEFINE u == [rel |-> s, cycle_ctr |-> t.mdckpt_cycle_ctr]
           T == [t EXCEPT !.unlinks = Append(t.unlinks, u)]
<1>1. RememberFsyncRequest(t, Unlink(s)) = T
  <2>1. /\ Unlink(s).rel = s /\ Unlink(s).seg = UNLINK_RELATION_REQUEST
        /\ UNLINK_RELATION_REQUEST # FORGET_RELATION_FSYNC
    BY DEF Unlink, UNLINK_RELATION_REQUEST, FORGET_RELATION_FSYNC
  <2> QED
    BY <2>1 DEF RememberFsyncRequest
<1>2. u \in [rel : Rels, cycle_ctr : Ctr] /\ t.unlinks \in Seq([rel : Rels, cycle_ctr : Ctr])
  BY TableFields
<1>3. /\ Append(t.unlinks, u) \in Seq([rel : Rels, cycle_ctr : Ctr])
      /\ \A i \in DOMAIN Append(t.unlinks, u) :
            \/ i \in DOMAIN t.unlinks /\ Append(t.unlinks, u)[i] = t.unlinks[i]
            \/ Append(t.unlinks, u)[i] = u
  <2> HIDE DEF u
  <2> QED
    BY <1>2, AppendProperties, LenProperties
<1>4. /\ T \in Tables /\ T.pending = t.pending /\ T.unlinks = Append(t.unlinks, u)
      /\ T.mdsync_cycle_ctr = t.mdsync_cycle_ctr
      /\ T.mdckpt_cycle_ctr = t.mdckpt_cycle_ctr
      /\ T.mdsync_in_progress = t.mdsync_in_progress
  BY <1>3 DEF Tables
<1> HIDE DEF T
<1>5. /\ \A f \in Files : f # Unlink(s) /\ Forget(f.rel) # Unlink(s)
      /\ \A r \in DOMAIN t.pending : Forget(r) # Unlink(s)
  BY RequestKinds, TableFields
<1>6. \A f \in Files : Asked(T, f) <=> Asked(t, f)
  BY <1>4 DEF Asked
<1> QED
  BY <1>1, <1>3, <1>4, <1>5, <1>6 DEF Absorbs

\* Absorbing one more request, which is not for a file whose requests the
\* earlier ones have cancelled.
LEMMA AbsorbsMore ==
    ASSUME NEW t \in Tables, NEW u, NEW T, NEW S, NEW q,
           Absorbs(t, u, S), Absorbs(u, T, {q}),
           q \in Files => Forget(q.rel) \notin S
    PROVE  Absorbs(t, T, S \cup {q})
<1>1. \A f \in Files : Asked(u, f) <=> (Asked(t, f) \/ f \in S) /\ Forget(f.rel) \notin S
  BY DEF Absorbs
<1>2. \A f \in Files : Asked(T, f) <=> (Asked(u, f) \/ f = q) /\ Forget(f.rel) # q
  BY DEF Absorbs
<1>3. \A f \in Files :
        Asked(T, f) <=> (Asked(t, f) \/ f \in S \cup {q}) /\ Forget(f.rel) \notin S \cup {q}
  BY <1>1, <1>2
<1>4. DOMAIN t.pending \subseteq DOMAIN u.pending /\ DOMAIN u.pending \subseteq DOMAIN T.pending
  BY DEF Absorbs
<1>5. \A r \in DOMAIN t.pending, k \in Forks :
        T.pending[r].canceled[k] <=> t.pending[r].canceled[k] \/ Forget(r) \in S \cup {q}
  BY <1>4 DEF Absorbs
<1>6. \A r \in DOMAIN t.pending : T.pending[r].cycle_ctr = t.pending[r].cycle_ctr
  BY <1>4 DEF Absorbs
<1>7. /\ T \in Tables /\ T.mdsync_cycle_ctr = t.mdsync_cycle_ctr
      /\ T.mdckpt_cycle_ctr = t.mdckpt_cycle_ctr
      /\ T.mdsync_in_progress = t.mdsync_in_progress
      /\ u.mdckpt_cycle_ctr = t.mdckpt_cycle_ctr
      /\ u.mdsync_cycle_ctr = t.mdsync_cycle_ctr
  BY DEF Absorbs
<1>8. ASSUME NEW r \in DOMAIN T.pending \ DOMAIN t.pending
      PROVE  T.pending[r].cycle_ctr = t.mdsync_cycle_ctr
  <2>1. CASE r \in DOMAIN u.pending
    BY <1>7, <2>1 DEF Absorbs
  <2>2. CASE r \notin DOMAIN u.pending
    BY <1>7, <2>2 DEF Absorbs
  <2> QED
    BY <2>1, <2>2
<1>9. ASSUME NEW i \in DOMAIN T.unlinks
      PROVE  \/ \E j \in DOMAIN t.unlinks : T.unlinks[i] = t.unlinks[j]
             \/ \E r \in Rels :
                  /\ Unlink(r) \in S \cup {q}
                  /\ T.unlinks[i] = [rel |-> r, cycle_ctr |-> t.mdckpt_cycle_ctr]
  <2>1. CASE \E j \in DOMAIN u.unlinks : T.unlinks[i] = u.unlinks[j]
    BY <2>1 DEF Absorbs
  <2>2. CASE \E r \in Rels :
               /\ Unlink(r) \in {q}
               /\ T.unlinks[i] = [rel |-> r, cycle_ctr |-> u.mdckpt_cycle_ctr]
    BY <1>7, <2>2
  <2> QED
    BY <2>1, <2>2 DEF Absorbs
<1> QED
  BY <1>3, <1>4, <1>5, <1>6, <1>7, <1>8, <1>9 DEF Absorbs

LEMMA RememberAbsorbs ==
    ASSUME NEW t \in Tables, NEW q \in Requests
    PROVE  Absorbs(t, RememberFsyncRequest(t, q), {q})
<1>1. q.rel \in Rels /\ (q \in Files \/ q = Forget(q.rel) \/ q = Unlink(q.rel))
  BY RequestKinds
<1>2. CASE q \in Files
  BY <1>2, RememberFile
<1>3. CASE q = Forget(q.rel)
  <2>1. Absorbs(t, RememberFsyncRequest(t, Forget(q.rel)), {Forget(q.rel)})
    BY <1>1, RememberForget
  <2> QED
    BY <1>3, <2>1, Zenon
<1>4. CASE q = Unlink(q.rel)
  <2>1. Absorbs(t, RememberFsyncRequest(t, Unlink(q.rel)), {Unlink(q.rel)})
    BY <1>1, RememberUnlink
  <2> QED
    BY <1>4, <2>1, Zenon
<1> QED
  BY <1>1, <1>2, <1>3, <1>4

-----------------------------------------------------------------------------
(* Loops over the queue.                                                   *)

LEMMA LeastNat ==
    ASSUME NEW G, G \subseteq Nat, G # {}
    PROVE  \E n \in G : \A m \in G : n <= m
<1> DEFINE R == OpToRel(<, Nat)
<1>1. \A m, n \in Nat : <<m, n>> \notin R => n <= m
  BY DEF OpToRel
<1>2. IsWellFoundedOn(R, Nat)
  BY NatLessThanWellFounded
<1> HIDE DEF R
<1>3. \E n \in G : \A m \in G : <<m, n>> \notin R
  BY <1>2, WFMin
<1> QED
  BY <1>1, <1>3

\* Induction up to a bound, for a set.
LEMMA UpTo ==
    ASSUME NEW G, NEW L \in Nat, 0 \in G, \A n \in Nat : n < L /\ n \in G => n + 1 \in G
    PROVE  \A n \in 0 .. L : n \in G
<1> SUFFICES ASSUME NEW x \in 0 .. L, x \notin G PROVE FALSE
  OBVIOUS
<1> DEFINE B == {n \in 0 .. L : n \notin G}
<1>1. B \subseteq Nat /\ B # {}
  OBVIOUS
<1>2. PICK n \in B : \A m \in B : n <= m
  BY <1>1, LeastNat
<1>3. n # 0 /\ n - 1 \in Nat /\ n - 1 < L /\ (n - 1) + 1 = n
  BY <1>2
<1>4. n - 1 \in G
  BY <1>2, <1>3
<1> QED
  BY <1>2, <1>3, <1>4

\* The loop of AbsorbFsyncRequests does what it says.
LEMMA AfterExists ==
    ASSUME queue \in Seq(Requests)
    PROVE  \E f : /\ f = [n \in 0 .. Len(queue) |->
                            IF n = 0 THEN tab ELSE RememberFsyncRequest(f[n - 1], queue[n])]
                  /\ Absorbed = f[Len(queue)]
<1> DEFINE Is(f, L) ==
             f = [n \in 0 .. L |->
                    IF n = 0 THEN tab ELSE RememberFsyncRequest(f[n - 1], queue[n])]
           G == {L \in Nat : \E f : Is(f, L)}
<1>1. 0 \in G
  <2>1. Is([n \in 0 .. 0 |-> tab], 0)
    OBVIOUS
  <2> QED
    BY <2>1
<1>2. ASSUME NEW L \in Nat, L \in G PROVE L + 1 \in G
  <2>1. PICK f : Is(f, L)
    BY <1>2
  <2> DEFINE v == RememberFsyncRequest(f[L], queue[L + 1])
             g == [n \in 0 .. L + 1 |-> IF n = L + 1 THEN v ELSE f[n]]
  <2>2. \A n \in 0 .. L : f[n] = IF n = 0 THEN tab ELSE RememberFsyncRequest(f[n - 1], queue[n])
    BY <2>1
  <2>3. \A n \in 0 .. L : n # 0 => n - 1 \in 0 .. L
    OBVIOUS
  <2>4. \A n \in 0 .. L + 1 :
          g[n] = IF n = 0 THEN tab ELSE RememberFsyncRequest(g[n - 1], queue[n])
    <3> SUFFICES ASSUME NEW n \in 0 .. L + 1
                 PROVE g[n] = IF n = 0 THEN tab ELSE RememberFsyncRequest(g[n - 1], queue[n])
      OBVIOUS
    <3>1. CASE n = L + 1
      <4>1. n # 0 /\ n - 1 = L /\ L \in 0 .. L + 1 /\ L # L + 1
        BY <3>1
      <4>2. g[n - 1] = f[L] /\ g[n] = v
        BY <3>1, <4>1
      <4> QED
        BY <3>1, <4>1, <4>2
    <3>2. CASE n \in 0 .. L
      <4>1. g[n] = f[n] /\ (n # 0 => g[n - 1] = f[n - 1])
        BY <2>3, <3>2
      <4> HIDE DEF g
      <4> QED
        BY <2>2, <3>2, <4>1
    <3> QED
      BY <3>1, <3>2
  <2>5. g = [n \in 0 .. L + 1 |-> g[n]]
    OBVIOUS
  <2> HIDE DEF g
  <2>6. Is(g, L + 1)
    BY <2>4, <2>5
  <2> QED
    BY <2>6
<1>3. Len(queue) \in Nat /\ Len(queue) \in 0 .. Len(queue)
  BY LenProperties
<1>4. \A n \in Nat : n < Len(queue) /\ n \in G => n + 1 \in G
  BY <1>2
<1> HIDE DEF G
<1>5. Len(queue) \in G
  BY <1>1, <1>3, <1>4, UpTo
<1> DEFINE after == CHOOSE f : Is(f, Len(queue))
<1>6. Is(after, Len(queue))
  BY <1>5 DEF G
<1>7. Absorbed = after[Len(queue)]
  BY DEF Absorbed
<1> QED
  BY <1>6, <1>7

\* Absorbing a queue in which no request comes after its cancellation.
LEMMA AbsorbedAbsorbs ==
    ASSUME tab \in Tables, queue \in Seq(Requests), Ordered(queue)
    PROVE  Absorbs(tab, Absorbed, Queued)
<1>1. PICK f : /\ f = [n \in 0 .. Len(queue) |->
                         IF n = 0 THEN tab ELSE RememberFsyncRequest(f[n - 1], queue[n])]
               /\ Absorbed = f[Len(queue)]
  BY AfterExists
<1>2. Len(queue) \in Nat /\ DOMAIN queue = 1 .. Len(queue)
      /\ \A i \in 1 .. Len(queue) : queue[i] \in Requests
  BY LenProperties, ElementOfSeq
<1>3. \A n \in 0 .. Len(queue) :
        f[n] = IF n = 0 THEN tab ELSE RememberFsyncRequest(f[n - 1], queue[n])
  BY <1>1
<1> DEFINE Before(n) == {queue[i] : i \in 1 .. n}
           G == {n \in Nat : n <= Len(queue) => Absorbs(tab, f[n], Before(n))}
<1>4. 0 \in G
  <2>1. f[0] = tab /\ Before(0) = {}
    BY <1>2, <1>3
  <2>2. Absorbs(tab, f[0], Before(0))
    BY <2>1, AbsorbsNothing
  <2> QED
    BY <2>2
<1>5. ASSUME NEW n \in Nat, n < Len(queue), n \in G PROVE n + 1 \in G
  <2>1. Absorbs(tab, f[n], Before(n)) /\ f[n] \in Tables
    <3> HIDE DEF Before
    <3>1. n <= Len(queue)
      BY <1>2, <1>5
    <3>2. Absorbs(tab, f[n], Before(n))
      BY <1>5, <3>1, Zenon
    <3> QED
      BY <3>2 DEF Absorbs
  <2>2. n + 1 \in 1 .. Len(queue) /\ n + 1 \in 0 .. Len(queue) /\ n + 1 # 0 /\ (n + 1) - 1 = n
    BY <1>2, <1>5
  <2>3. f[n + 1] = RememberFsyncRequest(f[n], queue[n + 1])
    BY <1>3, <2>2
  <2>4. Absorbs(f[n], f[n + 1], {queue[n + 1]})
    BY <1>2, <2>1, <2>2, <2>3, RememberAbsorbs
  <2>5. ASSUME queue[n + 1] \in Files, Forget(queue[n + 1].rel) \in Before(n) PROVE FALSE
    <3>1. PICK i \in 1 .. n : queue[i] = Forget(queue[n + 1].rel)
      BY <2>5
    <3>2. i \in DOMAIN queue /\ n + 1 \in DOMAIN queue /\ ~(n + 1 < i)
      BY <1>2, <1>5
    <3> QED
      BY <2>5, <3>1, <3>2 DEF Ordered
  <2>6. Absorbs(tab, f[n + 1], Before(n) \cup {queue[n + 1]})
    <3> HIDE DEF Before, G
    <3> QED
      BY <2>1, <2>4, <2>5, AbsorbsMore
  <2>7. Before(n + 1) = Before(n) \cup {queue[n + 1]}
    <3>1. \A i \in 1 .. n + 1 : i \in 1 .. n \/ i = n + 1
      OBVIOUS
    <3>2. \A i \in 1 .. n : i \in 1 .. n + 1
      OBVIOUS
    <3>3. n + 1 \in 1 .. n + 1
      OBVIOUS
    <3> QED
      BY <3>1, <3>2, <3>3
  <2>8. n + 1 \in Nat
    OBVIOUS
  <2> HIDE DEF Before
  <2>9. Absorbs(tab, f[n + 1], Before(n + 1))
    BY <2>6, <2>7, Zenon
  <2> QED
    BY <2>8, <2>9, Zenon
<1> HIDE DEF G
<1>6. Len(queue) \in G
  <2>1. Len(queue) \in 0 .. Len(queue)
    BY <1>2
  <2> QED
    BY <1>2, <1>4, <1>5, <2>1, UpTo
<1>7. Absorbs(tab, f[Len(queue)], Before(Len(queue)))
  BY <1>2, <1>6 DEF G
<1>8. Before(Len(queue)) = Queued
  BY <1>2 DEF Queued
<1> QED
  BY <1>1, <1>7, <1>8

\* The loop of CompactCheckpointerRequestQueue does what it says.
LEMMA KeptExists ==
    ASSUME NEW q, Len(q) \in Nat
    PROVE  \E f : /\ f = [n \in 0 .. Len(q) |->
                            IF n = 0 THEN <<>>
                            ELSE IF \E j \in n + 1 .. Len(q) : q[j] = q[n]
                                   THEN f[n - 1] ELSE Append(f[n - 1], q[n])]
                  /\ CompactCheckpointerRequestQueue(q) = f[Len(q)]
<1> DEFINE M == Len(q)
           Again(n) == \E j \in n + 1 .. M : q[j] = q[n]
           Is(f, L) ==
             f = [n \in 0 .. L |->
                    IF n = 0 THEN <<>>
                    ELSE IF Again(n) THEN f[n - 1] ELSE Append(f[n - 1], q[n])]
           G == {L \in Nat : \E f : Is(f, L)}
<1> HIDE DEF Again
<1>1. 0 \in G
  <2>1. Is([n \in 0 .. 0 |-> <<>>], 0)
    OBVIOUS
  <2> QED
    BY <2>1
<1>2. ASSUME NEW L \in Nat, L \in G PROVE L + 1 \in G
  <2>1. PICK f : Is(f, L)
    BY <1>2
  <2> DEFINE v == IF Again(L + 1) THEN f[L] ELSE Append(f[L], q[L + 1])
             g == [n \in 0 .. L + 1 |-> IF n = L + 1 THEN v ELSE f[n]]
  <2>2. \A n \in 0 .. L : f[n] = IF n = 0 THEN <<>>
                                 ELSE IF Again(n) THEN f[n - 1] ELSE Append(f[n - 1], q[n])
    BY <2>1
  <2>3. \A n \in 0 .. L : n # 0 => n - 1 \in 0 .. L
    OBVIOUS
  <2>4. ASSUME NEW n \in 0 .. L + 1
        PROVE  g[n] = IF n = 0 THEN <<>>
                      ELSE IF Again(n) THEN g[n - 1] ELSE Append(g[n - 1], q[n])
    <3>1. CASE n = L + 1
      <4>1. n # 0 /\ n - 1 = L /\ L \in 0 .. L + 1 /\ L # L + 1
        BY <3>1
      <4>2. g[n - 1] = f[L] /\ g[n] = v
        BY <3>1, <4>1
      <4> QED
        BY <3>1, <4>1, <4>2
    <3>2. CASE n \in 0 .. L
      <4>1. g[n] = f[n] /\ (n # 0 => g[n - 1] = f[n - 1])
        BY <2>3, <3>2
      <4> HIDE DEF g
      <4> QED
        BY <2>2, <3>2, <4>1
    <3> QED
      BY <3>1, <3>2
  <2>5. g = [n \in 0 .. L + 1 |-> g[n]]
    OBVIOUS
  <2> HIDE DEF g
  <2>6. Is(g, L + 1)
    BY <2>4, <2>5
  <2> QED
    BY <2>6
<1>3. M \in 0 .. M
  OBVIOUS
<1>4. \A n \in Nat : n < M /\ n \in G => n + 1 \in G
  BY <1>2
<1> HIDE DEF G
<1>5. M \in G
  BY <1>1, <1>3, <1>4, UpTo
<1> DEFINE kept == CHOOSE f : Is(f, M)
<1>6. Is(kept, M)
  BY <1>5 DEF G
<1>7. CompactCheckpointerRequestQueue(q) = kept[M]
  BY DEF CompactCheckpointerRequestQueue, Again
<1> QED
  BY <1>6, <1>7 DEF Again

Elems(q) == {q[i] : i \in DOMAIN q}

\* One round of the loop: s holds what is kept of the first n requests of q.
Keeps(q, s, n) ==
    /\ s \in Seq(Requests)
    /\ \A i \in DOMAIN s : \E m \in 1 .. n : s[i] = q[m]
    /\ \A i, j \in DOMAIN s :
          i < j => \E m, k \in 1 .. n : m < k /\ s[i] = q[m] /\ s[j] = q[k]
    /\ \A m \in 1 .. n : \/ \E i \in DOMAIN s : s[i] = q[m]
                         \/ \E j \in n + 1 .. Len(q) : q[j] = q[m]

LEMMA KeepsMore ==
    ASSUME NEW q \in Seq(Requests), NEW n \in Nat, n < Len(q), NEW s, Keeps(q, s, n)
    PROVE  Keeps(q, IF \E j \in (n + 1) + 1 .. Len(q) : q[j] = q[n + 1]
                      THEN s ELSE Append(s, q[n + 1]), n + 1)
<1>1. Len(q) \in Nat /\ \A i \in 1 .. Len(q) : q[i] \in Requests
  BY LenProperties, ElementOfSeq
<1>2. n + 1 \in 1 .. Len(q) /\ \A m \in 1 .. n : m \in 1 .. n + 1
  BY <1>1
<1>3. \A m \in 1 .. n + 1 : m \in 1 .. n \/ m = n + 1
  OBVIOUS
<1>4. \A j \in n + 1 .. Len(q) : j = n + 1 \/ j \in (n + 1) + 1 .. Len(q)
  BY <1>1
<1>5. CASE \E j \in (n + 1) + 1 .. Len(q) : q[j] = q[n + 1]
  <2>1. ASSUME NEW m \in 1 .. n + 1
        PROVE  \/ \E i \in DOMAIN s : s[i] = q[m]
               \/ \E j \in (n + 1) + 1 .. Len(q) : q[j] = q[m]
    <3>1. CASE m = n + 1
      BY <1>5, <3>1
    <3>2. CASE m \in 1 .. n
      <4>1. CASE \E i \in DOMAIN s : s[i] = q[m]
        BY <4>1
      <4>2. CASE \E j \in n + 1 .. Len(q) : q[j] = q[m]
        BY <1>4, <1>5, <4>2
      <4> QED
        BY <3>2, <4>1, <4>2 DEF Keeps
    <3> QED
      BY <1>3, <3>1, <3>2
  <2>2. \A i \in DOMAIN s : \E m \in 1 .. n + 1 : s[i] = q[m]
    BY <1>2 DEF Keeps
  <2>3. \A i, j \in DOMAIN s :
          i < j => \E m, k \in 1 .. n + 1 : m < k /\ s[i] = q[m] /\ s[j] = q[k]
    BY <1>2 DEF Keeps
  <2>4. Keeps(q, s, n + 1)
    BY <2>1, <2>2, <2>3 DEF Keeps
  <2> QED
    BY <1>5, <2>4
<1>6. CASE ~(\E j \in (n + 1) + 1 .. Len(q) : q[j] = q[n + 1])
  <2> DEFINE a == Append(s, q[n + 1])
  <2>1. s \in Seq(Requests) /\ q[n + 1] \in Requests
    BY <1>1, <1>2 DEF Keeps
  <2>2. /\ a \in Seq(Requests) /\ Len(s) \in Nat
        /\ DOMAIN s = 1 .. Len(s) /\ DOMAIN a = 1 .. Len(s) + 1
        /\ \A i \in 1 .. Len(s) : a[i] = s[i]
        /\ a[Len(s) + 1] = q[n + 1]
    BY <2>1, AppendProperties, LenProperties
  <2> HIDE DEF a
  <2>3. \A i \in DOMAIN a : i \in DOMAIN s \/ i = Len(s) + 1
    BY <2>2
  <2>4. ASSUME NEW i \in DOMAIN a PROVE \E m \in 1 .. n + 1 : a[i] = q[m]
    <3>1. CASE i = Len(s) + 1
      BY <1>2, <2>2, <3>1
    <3>2. CASE i \in DOMAIN s
      BY <1>2, <2>2, <3>2 DEF Keeps
    <3> QED
      BY <2>3, <3>1, <3>2
  <2>5. ASSUME NEW i \in DOMAIN a, NEW j \in DOMAIN a, i < j
        PROVE  \E m, k \in 1 .. n + 1 : m < k /\ a[i] = q[m] /\ a[j] = q[k]
    <3>1. i \in DOMAIN s
      BY <2>2, <2>5
    <3>2. CASE j \in DOMAIN s
      <4>1. PICK m, k \in 1 .. n : m < k /\ s[i] = q[m] /\ s[j] = q[k]
        BY <2>5, <3>1, <3>2 DEF Keeps
      <4>2. a[i] = s[i] /\ a[j] = s[j] /\ m \in 1 .. n + 1 /\ k \in 1 .. n + 1
        BY <2>2, <3>1, <3>2
      <4> QED
        BY <4>1, <4>2
    <3>3. CASE j = Len(s) + 1
      <4>1. PICK m \in 1 .. n : a[i] = q[m]
        BY <2>2, <3>1 DEF Keeps
      <4>2. m \in 1 .. n + 1 /\ n + 1 \in 1 .. n + 1 /\ m < n + 1
        OBVIOUS
      <4> QED
        BY <2>2, <3>3, <4>1, <4>2
    <3> QED
      BY <2>3, <3>2, <3>3
  <2>6. ASSUME NEW m \in 1 .. n + 1
        PROVE  \/ \E i \in DOMAIN a : a[i] = q[m]
               \/ \E j \in (n + 1) + 1 .. Len(q) : q[j] = q[m]
    <3>1. Len(s) + 1 \in DOMAIN a /\ \A i \in DOMAIN s : i \in DOMAIN a /\ a[i] = s[i]
      BY <2>2
    <3>2. CASE m = n + 1
      BY <2>2, <3>1, <3>2
    <3>3. CASE m \in 1 .. n
      <4>1. CASE \E i \in DOMAIN s : s[i] = q[m]
        BY <3>1, <4>1
      <4>2. CASE \E j \in n + 1 .. Len(q) : q[j] = q[m]
        BY <1>4, <2>2, <3>1, <4>2
      <4> QED
        BY <3>3, <4>1, <4>2 DEF Keeps
    <3> QED
      BY <1>3, <3>2, <3>3
  <2>7. Keeps(q, a, n + 1)
    BY <2>2, <2>4, <2>5, <2>6 DEF Keeps
  <2> QED
    BY <1>6, <2>7 DEF a
<1> QED
  BY <1>5, <1>6

\* Compacting the queue loses no request and does not turn them around.
LEMMA CompactKeeps ==
    ASSUME NEW q \in Seq(Requests), Ordered(q)
    PROVE  LET c == CompactCheckpointerRequestQueue(q)
           IN  c \in Seq(Requests) /\ Elems(c) = Elems(q) /\ Ordered(c)
<1>1. Len(q) \in Nat /\ DOMAIN q = 1 .. Len(q)
  BY LenProperties
<1>2. PICK f : /\ f = [n \in 0 .. Len(q) |->
                         IF n = 0 THEN <<>>
                         ELSE IF \E j \in n + 1 .. Len(q) : q[j] = q[n]
                                THEN f[n - 1] ELSE Append(f[n - 1], q[n])]
               /\ CompactCheckpointerRequestQueue(q) = f[Len(q)]
  BY <1>1, KeptExists
<1>3. \A n \in 0 .. Len(q) :
        f[n] = IF n = 0 THEN <<>>
               ELSE IF \E j \in n + 1 .. Len(q) : q[j] = q[n]
                      THEN f[n - 1] ELSE Append(f[n - 1], q[n])
  BY <1>2
<1> DEFINE G == {n \in Nat : n <= Len(q) => Keeps(q, f[n], n)}
<1>4. 0 \in G
  <2>1. f[0] = <<>>
    BY <1>1, <1>3
  <2>2. Keeps(q, <<>>, 0)
    BY DEF Keeps
  <2> QED
    BY <2>1, <2>2
<1>5. ASSUME NEW n \in Nat, n < Len(q), n \in G PROVE n + 1 \in G
  <2>1. n <= Len(q)
    BY <1>1, <1>5
  <2>2. Keeps(q, f[n], n)
    BY <1>5, <2>1
  <2>3. n + 1 \in 0 .. Len(q) /\ n + 1 # 0 /\ (n + 1) - 1 = n
    BY <1>1, <1>5
  <2>4. f[n + 1] = IF \E j \in (n + 1) + 1 .. Len(q) : q[j] = q[n + 1]
                     THEN f[n] ELSE Append(f[n], q[n + 1])
    BY <1>3, <2>3
  <2>5. Keeps(q, f[n + 1], n + 1)
    BY <1>5, <2>2, <2>4, KeepsMore, Zenon
  <2> QED
    BY <2>3, <2>5
<1>6. Len(q) \in G
  <2>1. Len(q) \in 0 .. Len(q)
    BY <1>1
  <2> HIDE DEF G
  <2> QED
    BY <1>1, <1>4, <1>5, <2>1, UpTo
<1> DEFINE c == CompactCheckpointerRequestQueue(q)
<1>7. Keeps(q, c, Len(q))
  BY <1>1, <1>2, <1>6
<1> HIDE DEF c
<1>8. \A i \in DOMAIN c : \E m \in DOMAIN q : c[i] = q[m]
  BY <1>1, <1>7 DEF Keeps
<1>9. \A m \in DOMAIN q : \E i \in DOMAIN c : c[i] = q[m]
  <2>1. \A j \in Len(q) + 1 .. Len(q) : FALSE
    BY <1>1
  <2> QED
    BY <1>1, <1>7, <2>1 DEF Keeps
<1>10. Elems(c) = Elems(q)
  BY <1>8, <1>9 DEF Elems
<1>11. ASSUME NEW i \in DOMAIN c, NEW j \in DOMAIN c, c[i] \in Files, c[j] = Forget(c[i].rel)
       PROVE  i < j
  <2>1. DOMAIN c \subseteq Nat
    BY <1>7, LenProperties DEF Keeps
  <2>2. CASE j < i
    <3>1. PICK m, k \in 1 .. Len(q) : m < k /\ c[j] = q[m] /\ c[i] = q[k]
      BY <1>7, <2>2 DEF Keeps
    <3>2. k < m
      BY <1>1, <1>11, <3>1 DEF Ordered
    <3> QED
      BY <3>1, <3>2
  <2>3. CASE i = j
    <3>1. c[i].rel \in Rels /\ Forget(c[i].rel) \notin Files
      BY <1>11, RequestKinds
    <3> QED
      BY <1>11, <2>3, <3>1
  <2> QED
    BY <2>1, <2>2, <2>3
<1>12. Ordered(c)
  BY <1>11 DEF Ordered
<1> QED
  BY <1>7, <1>10, <1>12 DEF c, Keeps

\* Adding a request to the queue, compacted or not.
LEMMA ForwardAdds ==
    ASSUME queue \in Seq(Requests), Ordered(queue), NEW req \in Requests,
           ForwardFsyncRequest(req),
           req \in Files => Forget(req.rel) \notin Queued
    PROVE  /\ queue' \in Seq(Requests) /\ Len(queue') <= MaxRequests
           /\ Queued' = Queued \cup {req}
           /\ Ordered(queue')
<1> DEFINE q == Room(queue)
<1>1. q \in Seq(Requests) /\ Elems(q) = Queued /\ Ordered(q)
  <2>1. Elems(queue) = Queued
    BY DEF Elems, Queued
  <2> QED
    BY <2>1, CompactKeeps DEF Room
<1>2. queue' = Append(q, req) /\ Len(q) < MaxRequests
  BY DEF ForwardFsyncRequest
<1> HIDE DEF q
<1>3. /\ queue' \in Seq(Requests) /\ Len(q) \in Nat /\ Len(queue') = Len(q) + 1
      /\ DOMAIN q = 1 .. Len(q) /\ DOMAIN queue' = 1 .. Len(q) + 1
      /\ \A i \in 1 .. Len(q) : queue'[i] = q[i]
      /\ queue'[Len(q) + 1] = req
  BY <1>1, <1>2, AppendProperties, LenProperties
<1>4. \A i \in DOMAIN queue' : i \in DOMAIN q \/ i = Len(q) + 1
  BY <1>3
<1>5. Queued' = Queued \cup {req}
  <2>1. Queued' = {queue'[i] : i \in DOMAIN queue'}
    BY DEF Queued
  <2>2. Elems(q) = {q[i] : i \in DOMAIN q}
    BY DEF Elems
  <2>3. \A i \in DOMAIN q : i \in DOMAIN queue' /\ queue'[i] = q[i]
    BY <1>3
  <2>4. Len(q) + 1 \in DOMAIN queue'
    BY <1>3
  <2> QED
    BY <1>1, <1>3, <1>4, <2>1, <2>2, <2>3, <2>4
<1>6. ASSUME NEW i \in DOMAIN queue', NEW j \in DOMAIN queue',
             queue'[i] \in Files, queue'[j] = Forget(queue'[i].rel)
      PROVE  i < j
  <2>1. queue'[i].rel \in Rels /\ Forget(queue'[i].rel) \notin Files
    BY <1>6, RequestKinds
  <2>2. i # j
    BY <1>6, <2>1
  <2>3. CASE i \in DOMAIN q /\ j \in DOMAIN q
    BY <1>1, <1>3, <1>6, <2>3 DEF Ordered
  <2>4. CASE j = Len(q) + 1
    BY <1>3, <2>2, <2>4
  <2>5. CASE i = Len(q) + 1 /\ j \in DOMAIN q
    <3>1. queue'[j] \in Elems(q)
      BY <1>3, <2>5 DEF Elems
    <3> QED
      BY <1>1, <1>3, <1>6, <2>5, <3>1
  <2> QED
    BY <1>4, <2>3, <2>4, <2>5
<1>7. Ordered(queue')
  BY <1>6 DEF Ordered
<1>8. Len(queue') <= MaxRequests
  BY <1>2, <1>3
<1> QED
  BY <1>3, <1>5, <1>7, <1>8

-----------------------------------------------------------------------------
(* What the steps of the checkpointer make of its table.                   *)

LEMMA NextCycle ==
    ASSUME NEW c \in Ctr
    PROVE  (c + 1) % CtrWidth \in Ctr /\ (c + 1) % CtrWidth # c
<1>1. CtrWidth \in Nat /\ CtrWidth > 1 /\ c \in 0 .. CtrWidth - 1
  BY DEF Ctr
<1>2. CASE c + 1 < CtrWidth
  <2>1. (c + 1) % CtrWidth = c + 1
    BY <1>1, <1>2
  <2> QED
    BY <1>1, <1>2, <2>1 DEF Ctr
<1>3. CASE c + 1 = CtrWidth
  <2>1. (c + 1) % CtrWidth = 0
    BY <1>1, <1>3
  <2> QED
    BY <1>1, <1>3, <2>1 DEF Ctr
<1> QED
  BY <1>1, <1>2, <1>3

\* All entries are from the cycle that ends, which the failed one joins.
LEMMA MdsyncTable ==
    ASSUME TypeOK, Cycles, Ordered(queue), mdsync
    PROVE  /\ tab' \in Tables /\ Absorbs(tab, Absorbed, Queued)
           /\ DOMAIN tab'.pending = DOMAIN Absorbed.pending
           /\ tab'.mdsync_cycle_ctr = (tab.mdsync_cycle_ctr + 1) % CtrWidth
           /\ tab'.mdckpt_cycle_ctr = Absorbed.mdckpt_cycle_ctr
           /\ tab'.mdsync_in_progress
           /\ tab'.unlinks = Absorbed.unlinks
           /\ \A r \in DOMAIN tab'.pending : tab'.pending[r].cycle_ctr = tab.mdsync_cycle_ctr
           /\ \A f \in Files : Asked(tab', f) <=> Asked(Absorbed, f)
<1> DEFINE A == Absorbed
           p == A.pending
           e == [r \in DOMAIN p |->
                   IF tab.mdsync_in_progress
                     THEN [p[r] EXCEPT !.cycle_ctr = tab.mdsync_cycle_ctr] ELSE p[r]]
           c == (tab.mdsync_cycle_ctr + 1) % CtrWidth
           T == [A EXCEPT !.pending = e, !.mdsync_cycle_ctr = c, !.mdsync_in_progress = TRUE]
<1>1. Absorbs(tab, A, Queued)
  BY AbsorbedAbsorbs DEF TypeOK
<1>2. A \in Tables /\ A.mdsync_cycle_ctr = tab.mdsync_cycle_ctr
  BY <1>1 DEF Absorbs
<1>3. tab.mdsync_cycle_ctr \in Ctr /\ tab.mdsync_in_progress \in BOOLEAN
  BY TableFields DEF TypeOK
<1>4. c \in Ctr
  BY <1>3, NextCycle
<1>5. tab' = [A EXCEPT !.pending = e, !.mdsync_cycle_ctr = (A.mdsync_cycle_ctr + 1) % CtrWidth,
                       !.mdsync_in_progress = TRUE]
  BY DEF mdsync
<1>6. tab' = T
  BY <1>2, <1>5
<1> HIDE DEF A
<1>7. ASSUME NEW r \in DOMAIN p
      PROVE  /\ e[r] \in Entries /\ e[r].requests = p[r].requests
             /\ e[r].cycle_ctr = tab.mdsync_cycle_ctr
  <2>1. p[r] \in Entries
    BY <1>2, EntryFields
  <2>2. CASE tab.mdsync_in_progress
    BY <1>3, <2>1, <2>2 DEF Entries
  <2>3. CASE ~tab.mdsync_in_progress
    <3>1. p[r].cycle_ctr = tab.mdsync_cycle_ctr
      BY <1>1, <2>3 DEF Absorbs, Cycles
    <3> QED
      BY <2>1, <2>3, <3>1
  <2> QED
    BY <2>2, <2>3
<1>8. DOMAIN p \in SUBSET Rels /\ DOMAIN e = DOMAIN p
  BY <1>2, TableFields
<1>9. e \in [DOMAIN p -> Entries]
  BY <1>7
<1> HIDE DEF e, c
<1>10. e \in UNION {[known -> Entries] : known \in SUBSET Rels}
  BY <1>8, <1>9
<1>11. /\ T \in Tables /\ T.pending = e /\ T.mdsync_cycle_ctr = c /\ T.mdsync_in_progress
       /\ T.mdckpt_cycle_ctr = A.mdckpt_cycle_ctr /\ T.unlinks = A.unlinks
  BY <1>2, <1>4, <1>10 DEF Tables
<1> HIDE DEF T
<1>12. \A f \in Files : Asked(T, f) <=> Asked(A, f)
  BY <1>7, <1>8, <1>11 DEF Asked
<1> QED
  BY <1>1, <1>6, <1>7, <1>8, <1>11, <1>12 DEF A, c

LEMMA ScanForkTable ==
    ASSUME TypeOK, Places, ScanFork
    PROVE  /\ tab' \in Tables
           /\ DOMAIN tab'.pending = DOMAIN tab.pending
           /\ tab'.mdsync_cycle_ctr = tab.mdsync_cycle_ctr
           /\ tab'.mdckpt_cycle_ctr = tab.mdckpt_cycle_ctr
           /\ tab'.mdsync_in_progress = tab.mdsync_in_progress
           /\ tab'.unlinks = tab.unlinks
           /\ \A r \in DOMAIN tab.pending : tab'.pending[r].cycle_ctr = tab.pending[r].cycle_ctr
           /\ \A f \in Files :
                Asked(tab', f) <=> Asked(tab, f) /\ ~(f.rel = ck.cur /\ f.fork = ck.fork)
<1> DEFINE r0 == ck.cur
           k0 == ck.fork
           new == [tab.pending[r0] EXCEPT !.requests[k0] = {}, !.canceled[k0] = FALSE]
           e == [tab.pending EXCEPT ![r0] = new]
           T == [tab EXCEPT !.pending = e]
<1>1. tab \in Tables /\ r0 \in DOMAIN tab.pending /\ k0 \in Forks
  BY DEF TypeOK, Places, ScanFork, Forks
<1>2. tab' = T
  BY <1>1 DEF ScanFork
<1>3. /\ new \in Entries /\ new.cycle_ctr = tab.pending[r0].cycle_ctr
      /\ new.requests[k0] = {}
      /\ \A k \in Forks \ {k0} : new.requests[k] = tab.pending[r0].requests[k]
  BY <1>1, EntryFields DEF Entries
<1> HIDE DEF new
<1>4. DOMAIN tab.pending \in SUBSET Rels /\ e \in [DOMAIN tab.pending -> Entries]
  BY <1>1, <1>3, TableFields
<1>5. e[r0] = new /\ \A r \in DOMAIN tab.pending : r # r0 => e[r] = tab.pending[r]
  BY <1>1, TableFields
<1> HIDE DEF e
<1>6. /\ T \in Tables /\ T.pending = e /\ T.unlinks = tab.unlinks
      /\ T.mdsync_cycle_ctr = tab.mdsync_cycle_ctr
      /\ T.mdckpt_cycle_ctr = tab.mdckpt_cycle_ctr
      /\ T.mdsync_in_progress = tab.mdsync_in_progress
  BY <1>1, <1>4, TableWith
<1> HIDE DEF T
<1>7. DOMAIN T.pending = DOMAIN tab.pending
  BY <1>4, <1>6
<1>8. ASSUME NEW f \in Files
      PROVE  Asked(T, f) <=> Asked(tab, f) /\ ~(f.rel = r0 /\ f.fork = k0)
  <2>1. f.fork \in Forks
    BY RequestKinds
  <2>2. CASE f.rel # r0
    BY <1>5, <1>6, <1>7, <2>2 DEF Asked
  <2>3. CASE f.rel = r0
    BY <1>1, <1>3, <1>5, <1>6, <1>7, <2>1, <2>3 DEF Asked
  <2> QED
    BY <2>2, <2>3
<1>9. \A r \in DOMAIN tab.pending : T.pending[r].cycle_ctr = tab.pending[r].cycle_ctr
  BY <1>3, <1>5, <1>6
<1> QED
  BY <1>2, <1>6, <1>7, <1>8, <1>9

LEMMA FinishEntryTable ==
    ASSUME TypeOK, Places, FinishEntry
    PROVE  /\ tab' \in Tables
           /\ DOMAIN tab'.pending \subseteq DOMAIN tab.pending
           /\ tab'.mdsync_cycle_ctr = tab.mdsync_cycle_ctr
           /\ tab'.mdckpt_cycle_ctr = tab.mdckpt_cycle_ctr
           /\ tab'.mdsync_in_progress = tab.mdsync_in_progress
           /\ tab'.unlinks = tab.unlinks
           /\ \A r \in DOMAIN tab'.pending :
                tab'.pending[r].cycle_ctr =
                    IF r = ck.cur THEN tab.mdsync_cycle_ctr ELSE tab.pending[r].cycle_ctr
           /\ \A f \in Files : Asked(tab', f) <=> Asked(tab, f)
<1> DEFINE r0 == ck.cur
           p == tab.pending
           new == [p[r0] EXCEPT !.cycle_ctr = tab.mdsync_cycle_ctr]
<1>1. tab \in Tables /\ r0 \in DOMAIN p /\ tab.mdsync_cycle_ctr \in Ctr
      /\ DOMAIN p \subseteq Rels /\ p \in [DOMAIN p -> Entries]
  BY TableFields DEF TypeOK, Places, FinishEntry
<1>2. CASE \E k \in Forks : p[r0].requests[k] # {}
  <2> DEFINE e == [p EXCEPT ![r0] = new]
             T == [tab EXCEPT !.pending = e]
  <2>1. tab' = T
    BY <1>1, <1>2 DEF FinishEntry
  <2>2. /\ new \in Entries /\ new.cycle_ctr = tab.mdsync_cycle_ctr
        /\ new.requests = p[r0].requests
    BY <1>1 DEF Entries
  <2> HIDE DEF new
  <2>3. e \in [DOMAIN p -> Entries]
    BY <1>1, <2>2
  <2>4. e[r0] = new /\ \A r \in DOMAIN p : r # r0 => e[r] = p[r]
    BY <1>1
  <2> HIDE DEF e
  <2>5. /\ T \in Tables /\ T.pending = e /\ T.unlinks = tab.unlinks
        /\ T.mdsync_cycle_ctr = tab.mdsync_cycle_ctr
        /\ T.mdckpt_cycle_ctr = tab.mdckpt_cycle_ctr
        /\ T.mdsync_in_progress = tab.mdsync_in_progress
    BY <1>1, <2>3, TableWith
  <2> HIDE DEF T
  <2>6. DOMAIN T.pending = DOMAIN p
    BY <2>3, <2>5
  <2>7. \A f \in Files : Asked(T, f) <=> Asked(tab, f)
    BY <1>1, <2>2, <2>4, <2>5, <2>6 DEF Asked
  <2>8. \A r \in DOMAIN T.pending :
          T.pending[r].cycle_ctr = IF r = r0 THEN tab.mdsync_cycle_ctr ELSE p[r].cycle_ctr
    BY <2>2, <2>4, <2>5, <2>6
  <2> QED
    BY <2>1, <2>5, <2>6, <2>7, <2>8
<1>3. CASE ~(\E k \in Forks : p[r0].requests[k] # {})
  <2> DEFINE D == DOMAIN p \ {r0}
             e == [r \in D |-> p[r]]
             T == [tab EXCEPT !.pending = e]
  <2>1. tab' = T
    BY <1>1, <1>3 DEF FinishEntry
  <2>2. D \in SUBSET Rels /\ e \in [D -> Entries] /\ \A r \in D : e[r] = p[r]
    BY <1>1
  <2> HIDE DEF e
  <2>3. /\ T \in Tables /\ T.pending = e /\ T.unlinks = tab.unlinks
        /\ T.mdsync_cycle_ctr = tab.mdsync_cycle_ctr
        /\ T.mdckpt_cycle_ctr = tab.mdckpt_cycle_ctr
        /\ T.mdsync_in_progress = tab.mdsync_in_progress
    BY <1>1, <2>2, TableWith
  <2> HIDE DEF T
  <2>4. DOMAIN T.pending = D
    BY <2>2, <2>3
  <2>5. ASSUME NEW f \in Files PROVE Asked(T, f) <=> Asked(tab, f)
    <3>1. f.fork \in Forks
      BY RequestKinds
    <3> QED
      BY <1>1, <1>3, <2>2, <2>3, <2>4, <3>1 DEF Asked
  <2> QED
    BY <2>1, <2>2, <2>3, <2>4, <2>5
<1> QED
  BY <1>2, <1>3

-----------------------------------------------------------------------------
(* Types.                                                                  *)

CkType ==
    [pc : {"idle", "pre", "redo", "write", "scan", "post"}, need : SUBSET Files,
     todo : SUBSET Rels, cur : Rels \cup {NoRel},
     fork : 0 .. MaxFork + 1, scan : SUBSET Segnos, failures : 0 .. 1]

\* The segment mdsync is at.
LEMMA CurrentFile ==
    ASSUME TypeOK, Places, ck.scan # {}
    PROVE  /\ Current \in Files
           /\ Current.rel = ck.cur /\ Current.fork = ck.fork - 1 /\ Current.seg \in ck.scan
           /\ ck.cur \in Rels /\ ck.fork - 1 \in Forks /\ ck.fork \in Nat
           /\ ck.pc = "scan"
<1>1. /\ ck.scan \subseteq Segnos /\ ck.cur \in Rels \cup {NoRel}
      /\ ck.fork \in 0 .. MaxFork + 1
  BY DEF TypeOK
<1>2. ck.cur # NoRel /\ ck.fork # 0 /\ ck.pc = "scan"
  BY DEF Places
<1>3. ck.cur \in Rels /\ ck.fork - 1 \in Forks /\ ck.fork \in Nat
  BY <1>1, <1>2 DEF Forks
<1>4. \E n \in ck.scan : \A m \in ck.scan : n <= m
  <2>1. ck.scan \subseteq Nat
    BY <1>1
  <2> QED
    BY <2>1, LeastNat
<1>5. (CHOOSE n \in ck.scan : \A m \in ck.scan : n <= m) \in ck.scan
  BY <1>4
<1>6. /\ Current.rel = ck.cur /\ Current.fork = ck.fork - 1 /\ Current.seg \in ck.scan
      /\ Current = [rel |-> Current.rel, fork |-> Current.fork, seg |-> Current.seg]
  BY <1>5 DEF Current
<1> QED
  BY <1>1, <1>2, <1>3, <1>6 DEF Files

LEMMA RaiseType ==
    ASSUME NEW m \in [Files -> 0 .. 2], NEW f \in Files, NEW l \in 0 .. 2
    PROVE  /\ Raise(m, f, l) \in [Files -> 0 .. 2]
           /\ Raise(m, f, l)[f] >= l /\ Raise(m, f, l)[f] >= m[f]
           /\ Raise(m, f, l)[f] \in {l, m[f]}
           /\ \A g \in Files : g # f => Raise(m, f, l)[g] = m[g]
BY DEF Raise

LEMMA OlderType ==
    ASSUME NEW D, NEW m \in [D -> 0 .. 2]
    PROVE  /\ Older(m) \in [D -> 0 .. 2]
           /\ \A x \in D : Older(m)[x] = IF m[x] > 0 THEN 2 ELSE 0
BY DEF Older

LEMMA CleanType ==
    ASSUME TypeOK, NEW fs, Clean(fs)
    PROVE  /\ mem' \in [Files -> 0 .. 2] /\ ck' \in CkType
           /\ ck' = [ck EXCEPT !.need = ck.need \ fs]
           /\ ck'.need = ck.need \ fs
           /\ ck'.pc = ck.pc /\ ck'.todo = ck.todo /\ ck'.cur = ck.cur
           /\ ck'.fork = ck.fork /\ ck'.scan = ck.scan /\ ck'.failures = ck.failures
           /\ \A f \in Files : mem'[f] = IF f \in fs THEN 0 ELSE mem[f]
<1>1. ck \in CkType /\ mem \in [Files -> 0 .. 2]
  BY DEF TypeOK, CkType
<1>2. /\ ck' = [ck EXCEPT !.need = ck.need \ fs]
      /\ mem' = [f \in Files |-> IF f \in fs THEN 0 ELSE mem[f]]
  BY DEF Clean
<1>3. /\ ck' \in CkType /\ ck'.need = ck.need \ fs
      /\ ck'.pc = ck.pc /\ ck'.todo = ck.todo /\ ck'.cur = ck.cur
      /\ ck'.fork = ck.fork /\ ck'.scan = ck.scan /\ ck'.failures = ck.failures
  BY <1>1, <1>2 DEF CkType
<1>4. /\ mem' \in [Files -> 0 .. 2]
      /\ \A f \in Files : mem'[f] = IF f \in fs THEN 0 ELSE mem[f]
  BY <1>1, <1>2
<1> QED
  BY <1>2, <1>3, <1>4

LEMMA TypeInit == ASSUME Init PROVE TypeOK
<1>1. Idle \in CkType
  BY DEF Idle, CkType
<1>2. tab \in Tables
  <2>1. <<>> \in [{} -> Entries]
    OBVIOUS
  <2>2. <<>> \in UNION {[known -> Entries] : known \in SUBSET Rels}
    BY <2>1
  <2>3. 0 \in Ctr
    BY DEF Ctr
  <2>4. <<>> \in Seq([rel : Rels, cycle_ctr : Ctr])
    OBVIOUS
  <2> QED
    BY <2>2, <2>3, <2>4 DEF Init, Tables
<1>3. queue \in Seq(Requests) /\ Len(queue) <= MaxRequests
  BY DEF Init
<1>4. mem \in [Files -> 0 .. 2] /\ os \in [Files -> 0 .. 2] /\ dropAge \in [Rels -> 0 .. 2]
  BY DEF Init
<1>5. drop \in [Rels -> {"live", "dropped", "forgotten", "registered", "done"}]
  BY DEF Init
<1>6. ck \in CkType
  BY <1>1 DEF Init
<1>7. io \subseteq Files /\ exist \subseteq Files /\ spurious \in BOOLEAN
  BY DEF Init
<1> QED
  BY <1>2, <1>3, <1>4, <1>5, <1>6, <1>7 DEF TypeOK, CkType

-----------------------------------------------------------------------------
(* Backends.                                                               *)

LEMMA Expand ==
    ASSUME IInv
    PROVE  /\ TypeOK /\ Places /\ Marks /\ Cycles /\ Covered /\ Due /\ Done
           /\ Dropped /\ Forgets /\ Unlinks /\ ~spurious
           /\ mem \in [Files -> 0 .. 2] /\ os \in [Files -> 0 .. 2] /\ io \subseteq Files
           /\ queue \in Seq(Requests) /\ Len(queue) <= MaxRequests /\ Ordered(queue)
           /\ drop \in [Rels -> {"live", "dropped", "forgotten", "registered", "done"}]
           /\ exist \subseteq Files /\ tab \in Tables /\ ck \in CkType
           /\ dropAge \in [Rels -> 0 .. 2]
BY DEF IInv, TypeOK, CkType, Forgets

\* Where the checkpointer is, but for the marks on the buffers.
Here == <<ck.pc, ck.todo, ck.cur, ck.fork, ck.scan, ck.failures>>

\* A backend's step leaves the checkpointer where it is.
LEMMA BackendFrame ==
    ASSUME Places, Cycles, UNCHANGED <<tab, Here>>, ck'.need \subseteq ck.need
    PROVE  /\ Places' /\ Cycles'
           /\ \A f : Scanned(f)' <=> Scanned(f)
           /\ \A r : Cancelled(tab, r)' <=> Cancelled(tab, r)
<1>1. /\ tab' = tab /\ ck'.pc = ck.pc /\ ck'.todo = ck.todo /\ ck'.cur = ck.cur
      /\ ck'.fork = ck.fork /\ ck'.scan = ck.scan /\ ck'.failures = ck.failures
  BY DEF Here
<1>2. Places'
  BY <1>1 DEF Places
<1>3. Cycles'
  BY <1>1 DEF Cycles
<1> QED
  BY <1>1, <1>2, <1>3 DEF Scanned, Cancelled, Asked

LEMMA DueFrame ==
    ASSUME Due, Done, UNCHANGED <<tab, Here>>, \A f \in Files : os'[f] = 2 => os[f] = 2,
           os \in [Files -> 0 .. 2], os' \in [Files -> 0 .. 2]
    PROVE  Due' /\ Done'
<1>1. /\ tab' = tab /\ ck'.pc = ck.pc /\ ck'.todo = ck.todo /\ ck'.cur = ck.cur
      /\ ck'.fork = ck.fork /\ ck'.scan = ck.scan
  BY DEF Here
<1>2. Due'
  BY <1>1 DEF Due, Scanned, Asked
<1>3. \A l \in 0 .. 2 : l < 2 <=> l # 2
  OBVIOUS
<1>4. Done'
  BY <1>1, <1>3 DEF Done
<1> QED
  BY <1>2, <1>4

LEMMA ChangeStep ==
    ASSUME IInv, NEW f \in Files, Change(f)
    PROVE  IInv'
<1>0. f.rel \in Rels
  BY RequestKinds
<1>1. /\ drop[f.rel] = "live" /\ mem' = Raise(mem, f, 1)
      /\ UNCHANGED <<os, io, queue, drop, exist, tab, ck, dropAge, spurious>>
  BY DEF Change, backendVars, history
<1>2. /\ mem' \in [Files -> 0 .. 2] /\ mem'[f] >= 1 /\ mem'[f] >= mem[f] /\ mem'[f] \in {1, mem[f]}
      /\ \A g \in Files : g # f => mem'[g] = mem[g]
  <2>1. 1 \in 0 .. 2 /\ mem \in [Files -> 0 .. 2]
    BY Expand
  <2> QED
    BY <1>1, <2>1, RaiseType
<1>3. TypeOK'
  BY <1>1, <1>2, Expand DEF TypeOK
<1>4. UNCHANGED <<tab, Here>> /\ ck'.need = ck.need /\ Queued' = Queued
  BY <1>1 DEF Here, Queued
<1>5. Places' /\ Cycles' /\ \A g : Scanned(g)' <=> Scanned(g)
  BY <1>4, Expand, BackendFrame
<1>6. Marks'
  BY <1>1, <1>2, Expand DEF Marks
<1>7. Covered'
  BY <1>1, <1>2, <1>4, <1>5, Expand DEF Covered
<1>8. Due' /\ Done'
  BY <1>1, <1>3, <1>4, Expand, DueFrame DEF TypeOK
<1>9. Dropped'
  BY <1>1, <1>2, Expand DEF Dropped, FilesOf
<1>10. Forgets' /\ Unlinks'
  BY <1>1, Expand DEF Forgets, Unlinks, Forgotten, Cancelled, Asked, Queued
<1> QED
  BY <1>1, <1>3, <1>5, <1>6, <1>7, <1>8, <1>9, <1>10, Expand DEF IInv

LEMMA BackendWriteStep ==
    ASSUME IInv, NEW f \in Files, BackendWrite(f)
    PROVE  IInv'
<1>0. f.rel \in Rels
  BY RequestKinds
<1>1. /\ mem[f] > 0 /\ os' = Raise(os, f, mem[f]) /\ io' = io \cup {f}
      /\ UNCHANGED <<mem, queue, drop, exist, tab, ck, dropAge, spurious>>
  BY DEF BackendWrite, history
<1>2. /\ os' \in [Files -> 0 .. 2] /\ os'[f] \in {mem[f], os[f]} /\ mem[f] \in 0 .. 2
      /\ \A g \in Files : g # f => os'[g] = os[g]
  BY <1>1, Expand, RaiseType
<1>3. TypeOK'
  BY <1>1, <1>2, Expand DEF TypeOK
<1>4. UNCHANGED <<tab, Here>> /\ ck'.need = ck.need /\ Queued' = Queued
  BY <1>1 DEF Here, Queued
<1>5. Places' /\ Cycles' /\ \A g : Scanned(g)' <=> Scanned(g)
  BY <1>4, Expand, BackendFrame
<1>6. Marks'
  BY <1>1, Expand DEF Marks
<1>7. Covered'
  <2> SUFFICES ASSUME NEW g \in Files, os'[g] > 0
               PROVE  mem'[g] >= os'[g] \/ g \in Queued' \/ Asked(tab', g) \/ Scanned(g)'
    BY DEF Covered
  <2>1. CASE os'[g] = os[g]
    BY <1>1, <1>4, <1>5, <2>1, Expand DEF Covered
  <2>2. CASE g = f /\ os'[f] = mem[f]
    BY <1>1, <1>2, <2>2
  <2> QED
    BY <1>2, <2>1, <2>2
<1>8. Due' /\ Done'
  <2>1. CASE ck.pc \in {"scan", "post"}
    <3>1. mem[f] # 2
      BY <2>1, Expand DEF Places, Marks
    <3>2. \A g \in Files : os'[g] = 2 => os[g] = 2
      BY <1>2, <3>1
    <3> QED
      BY <1>2, <1>4, <3>2, Expand, DueFrame
  <2>2. CASE ck.pc \notin {"scan", "post"}
    BY <1>1, <2>2 DEF Due, Done
  <2> QED
    BY <2>1, <2>2
<1>9. Dropped'
  <2>1. drop[f.rel] = "live"
    BY <1>0, <1>1, Expand DEF Dropped, FilesOf
  <2> QED
    BY <1>1, <1>2, <2>1, Expand DEF Dropped, FilesOf
<1>10. Forgets' /\ Unlinks'
  BY <1>1, Expand DEF Forgets, Unlinks, Forgotten, Cancelled, Asked, Queued
<1> QED
  BY <1>1, <1>3, <1>5, <1>6, <1>7, <1>8, <1>9, <1>10, Expand DEF IInv

LEMMA RegisterStep ==
    ASSUME IInv, NEW f \in Files, RegisterDirtySegment(f)
    PROVE  IInv'
<1>1. /\ f \in io /\ io' = io \ {f}
      /\ UNCHANGED <<drop, exist, tab, dropAge, spurious>>
  BY DEF RegisterDirtySegment, history
<1>2. f.rel \in Rels /\ f \in FilesOf(f.rel) /\ f \in Requests
  BY RequestKinds DEF FilesOf
<1>3. drop[f.rel] = "live"
  BY <1>1, <1>2, Expand DEF Dropped
<1>4. Forget(f.rel) \notin Queued
  BY <1>2, <1>3, Expand DEF Forgets, Forgotten
<1>5. CASE ForwardFsyncRequest(f) /\ Clean({f}) /\ UNCHANGED os
  <2>1. /\ queue' \in Seq(Requests) /\ Len(queue') <= MaxRequests
        /\ Queued' = Queued \cup {f} /\ Ordered(queue')
    BY <1>2, <1>4, <1>5, Expand, ForwardAdds
  <2>2. /\ mem' \in [Files -> 0 .. 2] /\ ck' \in CkType /\ ck'.need = ck.need \ {f}
        /\ ck'.pc = ck.pc /\ ck'.todo = ck.todo /\ ck'.cur = ck.cur
        /\ ck'.fork = ck.fork /\ ck'.scan = ck.scan /\ ck'.failures = ck.failures
        /\ \A g \in Files : mem'[g] = IF g \in {f} THEN 0 ELSE mem[g]
    BY <1>5, Expand, CleanType
  <2>3. UNCHANGED <<tab, Here>>
    BY <1>1, <2>2 DEF Here
  <2>4. TypeOK'
    BY <1>1, <1>5, <2>1, <2>2, Expand DEF TypeOK, CkType
  <2>5. /\ Places' /\ Cycles' /\ \A g : Scanned(g)' <=> Scanned(g)
        /\ \A r : Cancelled(tab, r)' <=> Cancelled(tab, r)
    BY <2>2, <2>3, Expand, BackendFrame
  <2>6. Marks'
    BY <2>2, Expand DEF Marks
  <2>7. Covered'
    BY <1>1, <1>5, <2>1, <2>2, <2>5, Expand DEF Covered
  <2>8. Due' /\ Done'
    BY <1>5, <2>3, Expand, DueFrame
  <2>9. Dropped'
    BY <1>1, <1>5, <2>2, Expand DEF Dropped, FilesOf
  <2>10. Forgets'
    <3>1. \A r \in Rels : f # Forget(r) /\ f # Unlink(r)
      BY RequestKinds
    <3>2. \A r \in Rels : Forgotten(r)' <=> Forgotten(r)
      BY <1>1 DEF Forgotten
    <3>3. \A r \in Rels : Forgotten(r) => f \notin FilesOf(r)
      BY <1>3 DEF Forgotten, FilesOf
    <3>4. \A g \in Files : g \notin exist' => Forgotten(g.rel)'
      BY <1>1, Expand DEF Forgets, Forgotten
    <3>5. ASSUME NEW r \in Rels
          PROVE  /\ Forget(r) \in Queued' \/ Unlink(r) \in Queued' => Forgotten(r)'
                 /\ Forgotten(r)' /\ Forget(r) \notin Queued' =>
                      Cancelled(tab, r)' /\ \A g \in FilesOf(r) : g \notin Queued'
      BY <2>1, <2>5, <3>1, <3>2, <3>3, Expand DEF Forgets
    <3> QED
      BY <2>1, <3>4, <3>5 DEF Forgets
  <2>11. Unlinks'
    BY <1>1, <2>2, Expand DEF Unlinks, Forgotten
  <2> QED
    BY <1>1, <2>4, <2>5, <2>6, <2>7, <2>8, <2>9, <2>10, <2>11, Expand DEF IInv
<1>6. CASE FileSync(f) /\ Clean({f}) /\ UNCHANGED queue
  <2>1. /\ mem' \in [Files -> 0 .. 2] /\ ck' \in CkType /\ ck'.need = ck.need \ {f}
        /\ ck'.pc = ck.pc /\ ck'.todo = ck.todo /\ ck'.cur = ck.cur
        /\ ck'.fork = ck.fork /\ ck'.scan = ck.scan /\ ck'.failures = ck.failures
        /\ \A g \in Files : mem'[g] = IF g \in {f} THEN 0 ELSE mem[g]
    BY <1>6, Expand, CleanType
  <2>2. /\ os' \in [Files -> 0 .. 2] /\ os'[f] = 0
        /\ \A g \in Files : g # f => os'[g] = os[g]
    BY <1>6, Expand DEF FileSync
  <2>3. UNCHANGED <<tab, Here>> /\ Queued' = Queued
    BY <1>1, <1>6, <2>1 DEF Here, Queued
  <2>4. TypeOK'
    BY <1>1, <1>6, <2>1, <2>2, Expand DEF TypeOK, CkType
  <2>5. /\ Places' /\ Cycles' /\ \A g : Scanned(g)' <=> Scanned(g)
        /\ \A r : Cancelled(tab, r)' <=> Cancelled(tab, r)
    BY <2>1, <2>3, Expand, BackendFrame
  <2>6. Marks'
    BY <2>1, Expand DEF Marks
  <2>7. Covered'
    BY <1>1, <2>1, <2>2, <2>3, <2>5, Expand DEF Covered
  <2>8. Due' /\ Done'
    BY <2>2, <2>3, Expand, DueFrame
  <2>9. Dropped'
    BY <1>1, <2>1, <2>2, Expand DEF Dropped, FilesOf
  <2>10. Forgets'
    BY <1>1, <1>6, <2>3, <2>5, Expand DEF Forgets, Forgotten
  <2>11. Unlinks'
    BY <1>1, <2>1, Expand DEF Unlinks, Forgotten
  <2> QED
    BY <1>1, <2>4, <2>5, <2>6, <2>7, <2>8, <2>9, <2>10, <2>11, Expand DEF IInv
<1>7. CASE UNCHANGED <<data, queue, ck>>
  <2>1. UNCHANGED <<mem, os, queue, ck>>
    BY <1>7 DEF data
  <2>2. TypeOK'
    BY <1>1, <2>1, Expand DEF TypeOK
  <2>3. Places' /\ Marks' /\ Cycles' /\ Unlinks'
    BY <1>1, <2>1, Expand DEF Places, Marks, Cycles, Unlinks, Forgotten
  <2>4. Covered' /\ Due' /\ Done'
    BY <1>1, <2>1, Expand DEF Covered, Due, Done, Queued, Asked, Scanned
  <2>5. Dropped'
    BY <1>1, <2>1, Expand DEF Dropped
  <2>6. Forgets'
    BY <1>1, <2>1, Expand DEF Forgets, Forgotten, Cancelled, Asked, Queued
  <2> QED
    BY <1>1, <2>2, <2>3, <2>4, <2>5, <2>6, Expand DEF IInv
<1> QED
  BY <1>5, <1>6, <1>7 DEF RegisterDirtySegment

LEMMA DropRelationStep ==
    ASSUME IInv, NEW r \in Rels, DropRelation(r)
    PROVE  IInv'
<1>1. /\ drop[r] = "live" /\ FilesOf(r) \cap io = {} /\ Clean(FilesOf(r))
      /\ drop' = [drop EXCEPT ![r] = "dropped"]
      /\ os' = [f \in Files |-> IF f.rel = r THEN 0 ELSE os[f]]
      /\ dropAge' = [dropAge EXCEPT ![r] = 1]
      /\ UNCHANGED <<io, queue, exist, tab, spurious>>
  BY DEF DropRelation
<1>2. /\ mem' \in [Files -> 0 .. 2] /\ ck' \in CkType /\ ck'.need = ck.need \ FilesOf(r)
      /\ ck'.pc = ck.pc /\ ck'.todo = ck.todo /\ ck'.cur = ck.cur
      /\ ck'.fork = ck.fork /\ ck'.scan = ck.scan /\ ck'.failures = ck.failures
      /\ \A g \in Files : mem'[g] = IF g \in FilesOf(r) THEN 0 ELSE mem[g]
  BY <1>1, Expand, CleanType
<1>3. /\ os' \in [Files -> 0 .. 2]
      /\ \A g \in Files : os'[g] = IF g \in FilesOf(r) THEN 0 ELSE os[g]
  BY <1>1, Expand DEF FilesOf
<1>4. /\ drop' \in [Rels -> {"live", "dropped", "forgotten", "registered", "done"}]
      /\ drop'[r] = "dropped" /\ \A s \in Rels : s # r => drop'[s] = drop[s]
      /\ dropAge' \in [Rels -> 0 .. 2]
      /\ dropAge'[r] = 1 /\ \A s \in Rels : s # r => dropAge'[s] = dropAge[s]
  BY <1>1, Expand
<1>5. TypeOK'
  BY <1>1, <1>2, <1>3, <1>4, Expand DEF TypeOK, CkType
<1>6. UNCHANGED <<tab, Here>> /\ Queued' = Queued
  BY <1>1, <1>2 DEF Here, Queued
<1>7. /\ Places' /\ Cycles' /\ \A g : Scanned(g)' <=> Scanned(g)
      /\ \A s : Cancelled(tab, s)' <=> Cancelled(tab, s)
  BY <1>2, <1>6, Expand, BackendFrame
<1>8. Marks'
  BY <1>2, Expand DEF Marks
<1>9. Covered'
  BY <1>1, <1>2, <1>3, <1>6, <1>7, Expand DEF Covered
<1>10. Due' /\ Done'
  BY <1>3, <1>6, Expand, DueFrame
<1>11. Dropped'
  <2> SUFFICES ASSUME NEW s \in Rels, drop'[s] # "live"
               PROVE  /\ dropAge'[s] > 0
                      /\ \A f \in FilesOf(s) : mem'[f] = 0 /\ os'[f] = 0 /\ f \notin io'
    BY DEF Dropped
  <2>1. \A f \in FilesOf(s) : f \in Files
    BY DEF FilesOf
  <2>2. CASE s = r
    BY <1>1, <1>2, <1>3, <1>4, <2>1, <2>2
  <2>3. CASE s # r
    BY <1>1, <1>2, <1>3, <1>4, <2>1, <2>3, Expand DEF Dropped
  <2> QED
    BY <2>2, <2>3
<1>12. \A s \in Rels : Forgotten(s)' <=> Forgotten(s)
  BY <1>1, <1>4 DEF Forgotten
<1>13. Forgets'
  <2>1. \A f \in Files : f.rel \in Rels
    BY RequestKinds
  <2> QED
    BY <1>1, <1>6, <1>7, <1>12, <2>1, Expand DEF Forgets
<1>14. Unlinks'
  <2>1. \A i \in DOMAIN tab.unlinks : tab.unlinks[i].rel \in Rels
    BY Expand, UnlinkFields
  <2>2. ~Forgotten(r)
    BY <1>1 DEF Forgotten
  <2> QED
    BY <1>1, <1>2, <1>4, <1>12, <2>1, <2>2, Expand DEF Unlinks
<1> QED
  BY <1>1, <1>5, <1>7, <1>8, <1>9, <1>10, <1>11, <1>13, <1>14, Expand DEF IInv

LEMMA MdunlinkStep ==
    ASSUME IInv, NEW r \in Rels, mdunlink(r)
    PROVE  IInv'
<1>1. UNCHANGED <<mem, os, io, tab, ck, dropAge, spurious>>
  BY DEF mdunlink, data, history
<1>2. Forget(r) \in Requests /\ Unlink(r) \in Requests /\ Forget(r) \notin Files /\ Unlink(r) \notin Files
  BY RequestKinds
<1>3. /\ \A s \in Rels : Forget(s) = Forget(r) <=> s = r
      /\ \A s \in Rels : Unlink(s) = Unlink(r) <=> s = r
      /\ \A s \in Rels : Unlink(s) # Forget(r) /\ Forget(s) # Unlink(r)
      /\ \A f \in Files : f.rel \in Rels /\ f # Forget(r) /\ f # Unlink(r)
  BY RequestKinds
<1>4. \A s \in Rels : Cancelled(tab, s)' <=> Cancelled(tab, s)
  BY <1>1 DEF Cancelled, Asked
\* What the three steps have in common.
<1>5. ASSUME queue' \in Seq(Requests), Len(queue') <= MaxRequests, Queued \subseteq Queued',
             exist' \subseteq exist, drop[r] # "live",
             drop' \in [Rels -> {"live", "dropped", "forgotten", "registered", "done"}],
             \A s \in Rels : s # r => drop'[s] = drop[s],
             Forgotten(r)',
             Forgets'
      PROVE  IInv'
  <2>1. TypeOK'
    BY <1>1, <1>5, Expand DEF TypeOK
  <2>2. Places' /\ Marks' /\ Cycles' /\ Due' /\ Done'
    BY <1>1, Expand DEF Places, Marks, Cycles, Due, Done, Asked, Scanned
  <2>3. Covered'
    <3>1. \A f \in Files : f \in Queued => f \in Queued'
      BY <1>5
    <3> QED
      BY <1>1, <3>1, Expand DEF Covered, Asked, Scanned
  <2>4. Dropped'
    BY <1>1, <1>5, Expand DEF Dropped
  <2>5. Unlinks'
    <3>1. \A i \in DOMAIN tab.unlinks : tab.unlinks[i].rel \in Rels
      BY Expand, UnlinkFields
    <3>2. \A s \in Rels : Forgotten(s) => Forgotten(s)'
      BY <1>5 DEF Forgotten
    <3> QED
      BY <1>1, <3>1, <3>2, Expand DEF Unlinks
  <2> QED
    BY <1>1, <1>5, <2>1, <2>2, <2>3, <2>4, <2>5, Expand DEF IInv
<1>6. CASE /\ drop[r] = "dropped" /\ ForwardFsyncRequest(Forget(r))
           /\ drop' = [drop EXCEPT ![r] = "forgotten"] /\ UNCHANGED exist
  <2>1. /\ queue' \in Seq(Requests) /\ Len(queue') <= MaxRequests
        /\ Queued' = Queued \cup {Forget(r)} /\ Ordered(queue')
    BY <1>2, <1>6, Expand, ForwardAdds
  <2>2. /\ drop' \in [Rels -> {"live", "dropped", "forgotten", "registered", "done"}]
        /\ drop'[r] = "forgotten" /\ \A s \in Rels : s # r => drop'[s] = drop[s]
    BY <1>6, Expand
  <2>3. \A s \in Rels : Forgotten(s)' <=> Forgotten(s) \/ s = r
    BY <2>2 DEF Forgotten
  <2>4. ASSUME NEW s \in Rels
        PROVE  /\ Forget(s) \in Queued' \/ Unlink(s) \in Queued' => Forgotten(s)'
               /\ Forgotten(s)' /\ Forget(s) \notin Queued' =>
                     Cancelled(tab, s)' /\ \A f \in FilesOf(s) : f \notin Queued'
    <3>1. \A f \in FilesOf(s) : f # Forget(r)
      BY <1>3 DEF FilesOf
    <3> QED
      BY <1>3, <1>4, <2>1, <2>3, <3>1, Expand DEF Forgets
  <2>5. \A f \in Files : f \notin exist' => Forgotten(f.rel)'
    BY <1>3, <1>6, <2>3, Expand DEF Forgets
  <2>6. Forgets'
    BY <2>1, <2>4, <2>5 DEF Forgets
  <2> QED
    BY <1>5, <1>6, <2>1, <2>2, <2>3, <2>6
<1>7. CASE /\ drop[r] = "forgotten" /\ ForwardFsyncRequest(Unlink(r))
           /\ drop' = [drop EXCEPT ![r] = "registered"] /\ UNCHANGED exist
  <2>1. /\ queue' \in Seq(Requests) /\ Len(queue') <= MaxRequests
        /\ Queued' = Queued \cup {Unlink(r)} /\ Ordered(queue')
    BY <1>2, <1>7, Expand, ForwardAdds
  <2>2. /\ drop' \in [Rels -> {"live", "dropped", "forgotten", "registered", "done"}]
        /\ drop'[r] = "registered" /\ \A s \in Rels : s # r => drop'[s] = drop[s]
    BY <1>7, Expand
  <2>3. Forgotten(r)' /\ \A s \in Rels : Forgotten(s)' <=> Forgotten(s)
    BY <1>7, <2>2 DEF Forgotten
  <2>4. ASSUME NEW s \in Rels
        PROVE  /\ Forget(s) \in Queued' \/ Unlink(s) \in Queued' => Forgotten(s)'
               /\ Forgotten(s)' /\ Forget(s) \notin Queued' =>
                     Cancelled(tab, s)' /\ \A f \in FilesOf(s) : f \notin Queued'
    <3>1. \A f \in FilesOf(s) : f # Unlink(r)
      BY <1>3 DEF FilesOf
    <3> QED
      BY <1>3, <1>4, <2>1, <2>3, <3>1, Expand DEF Forgets
  <2>5. \A f \in Files : f \notin exist' => Forgotten(f.rel)'
    BY <1>3, <1>7, <2>3, Expand DEF Forgets
  <2>6. Forgets'
    BY <2>1, <2>4, <2>5 DEF Forgets
  <2> QED
    BY <1>5, <1>7, <2>1, <2>2, <2>3, <2>6
<1>8. CASE /\ drop[r] = "registered" /\ drop' = [drop EXCEPT ![r] = "done"]
           /\ exist' = exist \ (FilesOf(r) \ {First(r)}) /\ UNCHANGED queue
  <2>1. Queued' = Queued
    BY <1>8 DEF Queued
  <2>2. /\ drop' \in [Rels -> {"live", "dropped", "forgotten", "registered", "done"}]
        /\ drop'[r] = "done" /\ \A s \in Rels : s # r => drop'[s] = drop[s]
    BY <1>8, Expand
  <2>3. Forgotten(r)' /\ \A s \in Rels : Forgotten(s)' <=> Forgotten(s)
    BY <1>8, <2>2 DEF Forgotten
  <2>4. \A f \in Files : f \notin exist' => Forgotten(f.rel)'
    BY <1>3, <1>8, <2>3, Expand DEF Forgets, FilesOf
  <2>5. Forgets'
    BY <1>4, <1>8, <2>1, <2>3, <2>4, Expand DEF Forgets
  <2> QED
    BY <1>5, <1>8, <2>1, <2>2, <2>3, <2>5, Expand
<1> QED
  BY <1>6, <1>7, <1>8 DEF mdunlink, Forget, Unlink

-----------------------------------------------------------------------------
(* Absorbing.                                                              *)

\* What the whole queue makes of the table.
LEMMA AbsorbedParts ==
    ASSUME IInv, NEW T, Absorbs(tab, T, Queued)
    PROVE  /\ \A f \in Files : os[f] > 0 => (Asked(T, f) <=> Asked(tab, f) \/ f \in Queued)
           /\ \A r \in Rels : Forgotten(r) => Cancelled(T, r)
           /\ \A i \in DOMAIN T.unlinks :
                LET u == T.unlinks[i]
                IN  /\ Forgotten(u.rel)
                    /\ ck.pc # "pre" /\ u.cycle_ctr # T.mdckpt_cycle_ctr => dropAge[u.rel] = 2
<1>1. ASSUME NEW f \in Files, os[f] > 0
      PROVE  Asked(T, f) <=> Asked(tab, f) \/ f \in Queued
  <2>1. f.rel \in Rels /\ f \in FilesOf(f.rel)
    BY RequestKinds DEF FilesOf
  <2>2. drop[f.rel] = "live"
    BY <1>1, <2>1, Expand DEF Dropped
  <2>3. Forget(f.rel) \notin Queued
    BY <2>1, <2>2, Expand DEF Forgets, Forgotten
  <2> QED
    BY <2>3 DEF Absorbs
<1>2. ASSUME NEW r \in Rels, Forgotten(r) PROVE Cancelled(T, r)
  <2>1. ASSUME NEW f \in FilesOf(r) PROVE ~Asked(T, f)
    <3>1. f \in Files /\ f.rel = r
      BY DEF FilesOf
    <3>2. Asked(T, f) <=> (Asked(tab, f) \/ f \in Queued) /\ Forget(r) \notin Queued
      BY <3>1 DEF Absorbs
    <3> QED
      BY <1>2, <3>2, Expand DEF Forgets, Cancelled
  <2>2. ASSUME ck.cur = r, ck.scan # {} PROVE T.pending[r].canceled[ck.fork - 1]
    <3>1. r \in DOMAIN tab.pending /\ ck.fork - 1 \in Forks
      <4>1. ck.cur # NoRel
        BY <2>2
      <4> QED
        BY <2>2, <4>1, Expand, CurrentFile DEF Places
    <3>2. T.pending[r].canceled[ck.fork - 1]
            <=> tab.pending[r].canceled[ck.fork - 1] \/ Forget(r) \in Queued
      BY <3>1 DEF Absorbs
    <3> QED
      BY <1>2, <2>2, <3>2, Expand DEF Forgets, Cancelled
  <2> QED
    BY <2>1, <2>2 DEF Cancelled
<1>3. ASSUME NEW i \in DOMAIN T.unlinks
      PROVE  LET u == T.unlinks[i]
             IN  /\ Forgotten(u.rel)
                 /\ ck.pc # "pre" /\ u.cycle_ctr # T.mdckpt_cycle_ctr => dropAge[u.rel] = 2
  <2>1. T.mdckpt_cycle_ctr = tab.mdckpt_cycle_ctr
    BY DEF Absorbs
  <2>2. CASE \E j \in DOMAIN tab.unlinks : T.unlinks[i] = tab.unlinks[j]
    BY <2>1, <2>2, Expand DEF Unlinks
  <2>3. CASE \E r \in Rels : /\ Unlink(r) \in Queued
                             /\ T.unlinks[i] = [rel |-> r, cycle_ctr |-> tab.mdckpt_cycle_ctr]
    BY <2>1, <2>3, Expand DEF Forgets
  <2> QED
    BY <2>2, <2>3 DEF Absorbs
<1> QED
  BY <1>1, <1>2, <1>3

\* Where the checkpointer is, but for the segments it has to sync yet.
There == <<ck.pc, ck.todo, ck.cur, ck.fork, ck.failures>>

\* The entries keep their cycle, and new ones are of the present one.
LEMMA AbsorbedCycles ==
    ASSUME Places, Cycles, NEW S, Absorbs(tab, tab', S), UNCHANGED There,
           ck'.need \subseteq ck.need, ck'.scan \subseteq ck.scan
    PROVE  Places' /\ Cycles'
<1>1. /\ ck'.pc = ck.pc /\ ck'.todo = ck.todo /\ ck'.cur = ck.cur
      /\ ck'.fork = ck.fork /\ ck'.failures = ck.failures
  BY DEF There
<1>2. /\ DOMAIN tab.pending \subseteq DOMAIN tab'.pending
      /\ tab'.mdsync_cycle_ctr = tab.mdsync_cycle_ctr
      /\ tab'.mdsync_in_progress = tab.mdsync_in_progress
      /\ \A r \in DOMAIN tab.pending : tab'.pending[r].cycle_ctr = tab.pending[r].cycle_ctr
      /\ \A r \in DOMAIN tab'.pending \ DOMAIN tab.pending :
            tab'.pending[r].cycle_ctr = tab.mdsync_cycle_ctr
  BY DEF Absorbs
<1>3. Places'
  BY <1>1, <1>2 DEF Places
<1>4. Cycles'
  <2>1. ASSUME NEW r \in DOMAIN tab'.pending,
               tab'.pending[r].cycle_ctr # tab'.mdsync_cycle_ctr
        PROVE  r \in DOMAIN tab.pending /\ tab.pending[r].cycle_ctr = tab'.pending[r].cycle_ctr
    BY <1>2, <2>1
  <2> QED
    BY <1>1, <1>2, <2>1 DEF Cycles
<1> QED
  BY <1>3, <1>4

\* The whole queue is absorbed; a segment that needs no sync may be passed over.
LEMMA AbsorbQueue ==
    ASSUME IInv, tab' = Absorbed, queue' = <<>>, ck' \in CkType,
           UNCHANGED There, ck'.need = ck.need, ck'.scan \subseteq ck.scan,
           \A f \in Files : Scanned(f) /\ os[f] > 0 => Scanned(f)',
           UNCHANGED <<data, io, drop, exist, history>>
    PROVE  IInv'
<1>1. UNCHANGED <<mem, os, io, drop, exist, dropAge, spurious>>
  BY DEF data, history
<1>2. Absorbs(tab, tab', Queued)
  BY Expand, AbsorbedAbsorbs
<1>3. /\ \A f \in Files : os[f] > 0 => (Asked(tab', f) <=> Asked(tab, f) \/ f \in Queued)
      /\ \A r \in Rels : Forgotten(r) => Cancelled(tab', r)
      /\ \A i \in DOMAIN tab'.unlinks :
           LET u == tab'.unlinks[i]
           IN  /\ Forgotten(u.rel)
               /\ ck.pc # "pre" /\ u.cycle_ctr # tab'.mdckpt_cycle_ctr => dropAge[u.rel] = 2
  BY <1>2, AbsorbedParts
<1>4. /\ ck'.pc = ck.pc /\ ck'.todo = ck.todo /\ ck'.cur = ck.cur
      /\ ck'.fork = ck.fork /\ ck'.failures = ck.failures
  BY DEF There
<1>5. TypeOK'
  <2>1. queue' \in Seq(Requests) /\ Len(queue') <= MaxRequests /\ tab' \in Tables
    BY <1>2 DEF Absorbs
  <2> QED
    BY <1>1, <2>1, Expand DEF TypeOK, CkType
<1>6. Places' /\ Cycles'
  BY <1>2, Expand, AbsorbedCycles
<1>7. Marks'
  BY <1>1, <1>4, Expand DEF Marks
<1>8. Queued' = {}
  BY DEF Queued
<1>10. Covered'
  BY <1>1, <1>3, Expand DEF Covered
<1>11. Due'
  <2> SUFFICES ASSUME ck.pc = "scan", NEW f \in Files, os[f] = 2, ~Scanned(f)
               PROVE  /\ Asked(tab', f)
                      /\ \/ /\ f.rel \in ck.todo
                            /\ tab'.pending[f.rel].cycle_ctr # tab'.mdsync_cycle_ctr
                         \/ f.rel = ck.cur /\ f.fork >= ck.fork
    BY <1>1, <1>4 DEF Due
  <2>1. /\ Asked(tab, f)
        /\ \/ /\ f.rel \in ck.todo
              /\ tab.pending[f.rel].cycle_ctr # tab.mdsync_cycle_ctr
           \/ f.rel = ck.cur /\ f.fork >= ck.fork
    BY Expand DEF Due
  <2>2. f.rel \in DOMAIN tab.pending
    BY <2>1 DEF Asked
  <2>3. /\ tab'.pending[f.rel].cycle_ctr = tab.pending[f.rel].cycle_ctr
        /\ tab'.mdsync_cycle_ctr = tab.mdsync_cycle_ctr
    BY <1>2, <2>2 DEF Absorbs
  <2> QED
    BY <1>3, <2>1, <2>3
<1>12. Done' /\ Dropped'
  BY <1>1, <1>4, Expand DEF Done, Dropped
<1>13. Forgets'
  <2>1. Ordered(queue')
    BY DEF Ordered
  <2>2. \A r \in Rels : Cancelled(tab', r) => Cancelled(tab, r)'
    BY <1>4 DEF Cancelled
  <2> QED
    BY <1>1, <1>3, <1>8, <2>1, <2>2, Expand DEF Forgets, Forgotten
<1>14. Unlinks'
  BY <1>1, <1>3, <1>4 DEF Unlinks, Forgotten
<1> QED
  BY <1>1, <1>5, <1>6, <1>7, <1>10, <1>11, <1>12, <1>13, <1>14, Expand DEF IInv

LEMMA AbsorbStep == ASSUME IInv, Absorb PROVE IInv'
<1>1. /\ tab' = Absorbed /\ queue' = <<>> /\ ck' = ck
      /\ UNCHANGED <<data, io, drop, exist, history>>
  BY DEF Absorb
<1>2. UNCHANGED There /\ ck'.need = ck.need /\ ck'.scan = ck.scan /\ ck' \in CkType
  BY <1>1, Expand DEF There
<1>3. \A f \in Files : Scanned(f) => Scanned(f)'
  BY <1>1 DEF Scanned
<1> QED
  BY <1>1, <1>2, <1>3, AbsorbQueue

-----------------------------------------------------------------------------
(* The write phase.                                                        *)

\* Outside mdsync's scan no entry is being worked off.
LEMMA NoScan ==
    ASSUME IInv, ck.pc # "scan"
    PROVE  ck.cur = NoRel /\ ck.scan = {} /\ \A f : ~Scanned(f)
BY Expand DEF Places, Scanned

LEMMA MdpreckptStep == ASSUME IInv, mdpreckpt PROVE IInv'
<1>1. /\ ck.pc = "idle" /\ ck' = [ck EXCEPT !.pc = "pre"]
      /\ UNCHANGED <<mem, os, io, queue, drop, exist, dropAge, spurious>>
      /\ tab' = [tab EXCEPT !.mdckpt_cycle_ctr = (tab.mdckpt_cycle_ctr + 1) % CtrWidth]
  BY DEF mdpreckpt, NextCkpt, data, backendVars, history
<1>2. /\ tab' \in Tables /\ tab'.pending = tab.pending /\ tab'.unlinks = tab.unlinks
      /\ tab'.mdsync_cycle_ctr = tab.mdsync_cycle_ctr
      /\ tab'.mdsync_in_progress = tab.mdsync_in_progress
  <2>1. (tab.mdckpt_cycle_ctr + 1) % CtrWidth \in Ctr
    BY Expand, TableFields, NextCycle
  <2> DEFINE c == (tab.mdckpt_cycle_ctr + 1) % CtrWidth
  <2>2. tab' = [tab EXCEPT !.mdckpt_cycle_ctr = c] /\ c \in Ctr /\ tab \in Tables
    BY <1>1, <2>1, Expand
  <2> HIDE DEF c
  <2> QED
    BY <2>2 DEF Tables
<1>3. /\ ck' \in CkType /\ ck'.pc = "pre" /\ ck'.need = ck.need
      /\ ck'.cur = ck.cur /\ ck'.scan = ck.scan /\ ck'.failures = ck.failures
  BY <1>1, Expand DEF CkType
<1>4. ck.cur = NoRel /\ ck.scan = {} /\ \A f : ~Scanned(f)
  BY <1>1, NoScan
<1>5. TypeOK'
  BY <1>1, <1>2, <1>3, Expand DEF TypeOK, CkType
<1>6. Places' /\ Marks' /\ Cycles' /\ Due' /\ Done'
  BY <1>1, <1>2, <1>3, <1>4, Expand DEF Places, Marks, Cycles, Due, Done
<1>7. Queued' = Queued /\ \A f : Asked(tab', f) <=> Asked(tab, f)
  BY <1>1, <1>2 DEF Queued, Asked
<1>8. Covered'
  BY <1>1, <1>4, <1>7, Expand DEF Covered
<1>9. Dropped' /\ Unlinks'
  BY <1>1, <1>2, <1>3, Expand DEF Dropped, Unlinks, Forgotten
<1>10. Forgets'
  <2>1. \A r : Cancelled(tab, r)' <=> Cancelled(tab, r)
    BY <1>3, <1>4, <1>7 DEF Cancelled
  <2> QED
    BY <1>1, <1>7, <2>1, Expand DEF Forgets, Forgotten
<1> QED
  BY <1>1, <1>5, <1>6, <1>8, <1>9, <1>10, Expand DEF IInv

\* Every drop on the list of files to remove is older than the checkpoint.
LEMMA RedoPointStep == ASSUME IInv, RedoPoint PROVE IInv'
<1>1. /\ ck.pc = "pre" /\ ck' = [ck EXCEPT !.pc = "redo"]
      /\ mem' = Older(mem) /\ os' = Older(os) /\ dropAge' = Older(dropAge)
      /\ UNCHANGED <<io, queue, drop, exist, tab, spurious>>
  BY DEF RedoPoint, backendVars
<1>2. /\ mem' \in [Files -> 0 .. 2] /\ os' \in [Files -> 0 .. 2] /\ dropAge' \in [Rels -> 0 .. 2]
      /\ \A f \in Files : mem'[f] = (IF mem[f] > 0 THEN 2 ELSE 0)
      /\ \A f \in Files : os'[f] = (IF os[f] > 0 THEN 2 ELSE 0)
      /\ \A r \in Rels : dropAge'[r] = (IF dropAge[r] > 0 THEN 2 ELSE 0)
  BY <1>1, Expand, OlderType
<1>3. /\ ck' \in CkType /\ ck'.pc = "redo" /\ ck'.need = ck.need
      /\ ck'.cur = ck.cur /\ ck'.scan = ck.scan /\ ck'.failures = ck.failures
  BY <1>1, Expand DEF CkType
<1>4. ck.cur = NoRel /\ ck.scan = {} /\ \A f : ~Scanned(f)
  BY <1>1, NoScan
<1>5. TypeOK'
  BY <1>1, <1>2, <1>3, Expand DEF TypeOK, CkType
<1>6. Places' /\ Cycles' /\ Due' /\ Done'
  BY <1>1, <1>3, <1>4, Expand DEF Places, Cycles, Due, Done
<1>7. Marks'
  BY <1>2, <1>3, Expand DEF Marks
<1>8. Queued' = Queued /\ \A f : Asked(tab', f) <=> Asked(tab, f)
  BY <1>1 DEF Queued, Asked
<1>9. Covered'
  <2>1. \A f \in Files : mem[f] \in 0 .. 2 /\ os[f] \in 0 .. 2
    BY Expand
  <2> QED
    BY <1>2, <1>4, <1>8, <2>1, Expand DEF Covered
<1>10. Dropped'
  BY <1>1, <1>2, Expand DEF Dropped, FilesOf
<1>11. Forgets'
  <2>1. \A r : Cancelled(tab, r)' <=> Cancelled(tab, r)
    BY <1>3, <1>4, <1>8 DEF Cancelled
  <2> QED
    BY <1>1, <1>8, <2>1, Expand DEF Forgets, Forgotten
<1>12. Unlinks'
  <2> SUFFICES ASSUME NEW i \in DOMAIN tab.unlinks
               PROVE  Forgotten(tab.unlinks[i].rel)' /\ dropAge'[tab.unlinks[i].rel] = 2
    BY <1>1 DEF Unlinks
  <2>1. tab.unlinks[i].rel \in Rels
    BY Expand, UnlinkFields
  <2>2. Forgotten(tab.unlinks[i].rel)
    BY Expand DEF Unlinks
  <2>3. dropAge[tab.unlinks[i].rel] > 0
    BY <2>1, <2>2, Expand DEF Dropped, Forgotten
  <2> QED
    BY <1>1, <1>2, <2>1, <2>2, <2>3 DEF Forgotten
<1> QED
  BY <1>1, <1>5, <1>6, <1>7, <1>9, <1>10, <1>11, <1>12, Expand DEF IInv

LEMMA MarkBuffersStep == ASSUME IInv, MarkBuffers PROVE IInv'
<1>1. /\ ck.pc = "redo"
      /\ ck' = [ck EXCEPT !.pc = "write", !.need = ck.need \cup Dirty]
      /\ UNCHANGED <<mem, os, io, queue, drop, exist, tab, dropAge, spurious>>
  BY DEF MarkBuffers, data, backendVars, history
<1>2. Dirty \subseteq Files /\ \A f \in Files : f \in Dirty <=> mem[f] > 0
  BY DEF Dirty
<1>3. /\ ck' \in CkType /\ ck'.pc = "write" /\ ck'.need = ck.need \cup Dirty
      /\ ck'.cur = ck.cur /\ ck'.scan = ck.scan /\ ck'.failures = ck.failures
  BY <1>1, <1>2, Expand DEF CkType
<1>4. ck.cur = NoRel /\ ck.scan = {} /\ \A f : ~Scanned(f)
  BY <1>1, NoScan
<1>5. TypeOK'
  BY <1>1, <1>3, Expand DEF TypeOK, CkType
<1>6. Places' /\ Cycles' /\ Due' /\ Done'
  BY <1>1, <1>3, <1>4, Expand DEF Places, Cycles, Due, Done
<1>7. Marks'
  BY <1>1, <1>2, <1>3, Expand DEF Marks
<1>8. Queued' = Queued /\ \A f : Asked(tab', f) <=> Asked(tab, f)
  BY <1>1 DEF Queued, Asked
<1>9. Covered'
  BY <1>1, <1>4, <1>8, Expand DEF Covered
<1>10. Dropped' /\ Unlinks'
  BY <1>1, <1>3, Expand DEF Dropped, Unlinks, Forgotten
<1>11. Forgets'
  <2>1. \A r : Cancelled(tab, r)' <=> Cancelled(tab, r)
    BY <1>3, <1>4, <1>8 DEF Cancelled
  <2> QED
    BY <1>1, <1>8, <2>1, Expand DEF Forgets, Forgotten
<1> QED
  BY <1>1, <1>5, <1>6, <1>7, <1>9, <1>10, <1>11, Expand DEF IInv

LEMMA BufferSyncStep ==
    ASSUME IInv, NEW f \in Files, BufferSync(f)
    PROVE  IInv'
<1>1. /\ ck.pc = "write" /\ f \in ck.need /\ Clean({f}) /\ os' = Raise(os, f, mem[f])
      /\ tab' = RememberFsyncRequest(tab, f)
      /\ UNCHANGED <<io, queue, drop, exist, dropAge, spurious>>
  BY DEF BufferSync, backendVars, history
<1>2. f.rel \in Rels /\ f \in FilesOf(f.rel)
  BY RequestKinds DEF FilesOf
<1>3. drop[f.rel] = "live"
  <2>1. mem[f] > 0
    BY <1>1, Expand DEF Marks
  <2> QED
    BY <1>2, <2>1, Expand DEF Dropped
<1>4. /\ mem' \in [Files -> 0 .. 2] /\ ck' \in CkType /\ ck'.need = ck.need \ {f}
      /\ ck'.pc = ck.pc /\ ck'.todo = ck.todo /\ ck'.cur = ck.cur
      /\ ck'.fork = ck.fork /\ ck'.scan = ck.scan /\ ck'.failures = ck.failures
      /\ \A g \in Files : mem'[g] = IF g \in {f} THEN 0 ELSE mem[g]
  BY <1>1, Expand, CleanType
<1>5. /\ os' \in [Files -> 0 .. 2] /\ \A g \in Files : g # f => os'[g] = os[g]
  <2>1. mem[f] \in 0 .. 2 /\ os \in [Files -> 0 .. 2]
    BY Expand
  <2> QED
    BY <1>1, <2>1, RaiseType
<1>6. Absorbs(tab, tab', {f})
  BY <1>1, Expand, RememberFile
<1>7. tab' \in Tables
  BY <1>6 DEF Absorbs
<1>8. TypeOK'
  BY <1>1, <1>4, <1>5, <1>7, Expand DEF TypeOK, CkType
<1>9. Places' /\ Cycles'
  <2>1. UNCHANGED There
    BY <1>4 DEF There
  <2> QED
    BY <1>4, <1>6, <2>1, Expand, AbsorbedCycles
<1>10. Marks'
  BY <1>4, Expand DEF Marks
<1>11. \A g \in Files : Asked(tab', g) <=> Asked(tab, g) \/ g = f
  <2>1. \A g \in Files : Forget(g.rel) \notin {f}
    BY RequestKinds
  <2> QED
    BY <1>6, <2>1 DEF Absorbs
<1>12. Queued' = Queued
  BY <1>1 DEF Queued
<1>13. ck.scan = {} /\ \A g : ~Scanned(g)
  BY <1>1, NoScan
<1>14. Covered'
  BY <1>4, <1>5, <1>11, <1>12, <1>13, Expand DEF Covered
<1>15. Due' /\ Done'
  BY <1>1, <1>4 DEF Due, Done
<1>16. Dropped'
  BY <1>1, <1>3, <1>4, <1>5, Expand DEF Dropped, FilesOf
<1>17. Forgets'
  <2>1. \A r \in Rels : Forgotten(r) => f \notin FilesOf(r)
    BY <1>3 DEF Forgotten, FilesOf
  <2>2. ASSUME NEW r \in Rels, Forgotten(r), Cancelled(tab, r) PROVE Cancelled(tab, r)'
    BY <1>4, <1>11, <1>13, <2>1, <2>2 DEF Cancelled, FilesOf
  <2> QED
    BY <1>1, <1>12, <2>2, Expand DEF Forgets, Forgotten
<1>18. Unlinks'
  <2>1. \A r \in Rels : Unlink(r) \notin {f}
    BY RequestKinds
  <2>2. /\ tab'.mdckpt_cycle_ctr = tab.mdckpt_cycle_ctr
        /\ \A i \in DOMAIN tab'.unlinks : \E j \in DOMAIN tab.unlinks : tab'.unlinks[i] = tab.unlinks[j]
    BY <1>6, <2>1 DEF Absorbs
  <2> QED
    BY <1>1, <1>4, <2>2, Expand DEF Unlinks, Forgotten
<1> QED
  BY <1>1, <1>8, <1>9, <1>10, <1>14, <1>15, <1>16, <1>17, <1>18, Expand DEF IInv

LEMMA WriteFailsStep == ASSUME IInv, WriteFails PROVE IInv'
<1>1. /\ ck.pc = "write" /\ ck' = [ck EXCEPT !.pc = "idle"]
      /\ UNCHANGED <<mem, os, io, queue, drop, exist, tab, dropAge, spurious>>
  BY DEF WriteFails, data, backendVars, history
<1>2. /\ ck' \in CkType /\ ck'.pc = "idle" /\ ck'.need = ck.need
      /\ ck'.cur = ck.cur /\ ck'.scan = ck.scan /\ ck'.failures = ck.failures
  BY <1>1, Expand DEF CkType
<1>3. ck.cur = NoRel /\ ck.scan = {} /\ \A f : ~Scanned(f)
  BY <1>1, NoScan
<1>4. TypeOK'
  BY <1>1, <1>2, Expand DEF TypeOK, CkType
<1>5. Places' /\ Marks' /\ Cycles' /\ Due' /\ Done'
  BY <1>1, <1>2, <1>3, Expand DEF Places, Marks, Cycles, Due, Done
<1>6. Covered'
  BY <1>1, <1>3, Expand DEF Covered, Queued, Asked
<1>7. Dropped' /\ Unlinks'
  BY <1>1, <1>2, Expand DEF Dropped, Unlinks, Forgotten
<1>8. Forgets'
  BY <1>1, <1>2, <1>3, Expand DEF Forgets, Forgotten, Cancelled, Asked, Queued
<1> QED
  BY <1>1, <1>4, <1>5, <1>6, <1>7, <1>8, Expand DEF IInv

-----------------------------------------------------------------------------
(* The sync phase.                                                         *)

LEMMA MdsyncStep == ASSUME IInv, mdsync PROVE IInv'
<1>1. /\ ck.pc = "write" /\ ck.need = {} /\ queue' = <<>>
      /\ ck' = [Idle EXCEPT !.pc = "scan", !.todo = DOMAIN Absorbed.pending]
      /\ UNCHANGED <<mem, os, io, drop, exist, dropAge, spurious>>
  BY DEF mdsync, data, history
<1>2. /\ tab' \in Tables /\ Absorbs(tab, Absorbed, Queued)
      /\ DOMAIN tab'.pending = DOMAIN Absorbed.pending
      /\ tab'.mdsync_cycle_ctr = (tab.mdsync_cycle_ctr + 1) % CtrWidth
      /\ tab'.mdckpt_cycle_ctr = Absorbed.mdckpt_cycle_ctr
      /\ tab'.mdsync_in_progress
      /\ tab'.unlinks = Absorbed.unlinks
      /\ \A r \in DOMAIN tab'.pending : tab'.pending[r].cycle_ctr = tab.mdsync_cycle_ctr
      /\ \A f \in Files : Asked(tab', f) <=> Asked(Absorbed, f)
  BY Expand, MdsyncTable
<1>3. /\ \A f \in Files : os[f] > 0 => (Asked(Absorbed, f) <=> Asked(tab, f) \/ f \in Queued)
      /\ \A r \in Rels : Forgotten(r) => Cancelled(Absorbed, r)
      /\ \A i \in DOMAIN Absorbed.unlinks :
           LET u == Absorbed.unlinks[i]
           IN  /\ Forgotten(u.rel)
               /\ ck.pc # "pre" /\ u.cycle_ctr # Absorbed.mdckpt_cycle_ctr => dropAge[u.rel] = 2
  BY <1>2, AbsorbedParts
<1>4. DOMAIN tab'.pending \subseteq Rels
  BY <1>2, TableFields
<1>5. /\ ck' \in CkType /\ ck'.pc = "scan" /\ ck'.todo = DOMAIN tab'.pending /\ ck'.need = {}
      /\ ck'.cur = NoRel /\ ck'.scan = {} /\ ck'.failures = 0
  <2> DEFINE D == DOMAIN Absorbed.pending
  <2>1. D \subseteq Rels /\ D = DOMAIN tab'.pending
    BY <1>2, <1>4
  <2>2. ck' = [pc |-> "scan", need |-> {}, todo |-> D, cur |-> NoRel, fork |-> 0,
               scan |-> {}, failures |-> 0]
    BY <1>1 DEF Idle
  <2> HIDE DEF D
  <2>3. ck' \in CkType
    BY <2>1, <2>2 DEF CkType
  <2> QED
    BY <2>1, <2>2, <2>3
<1>6. tab'.mdsync_cycle_ctr # tab.mdsync_cycle_ctr
  BY <1>2, Expand, TableFields, NextCycle
<1>7. TypeOK'
  <2>1. queue' \in Seq(Requests) /\ Len(queue') <= MaxRequests
    BY <1>1
  <2> QED
    BY <1>1, <1>2, <1>5, <2>1, Expand DEF TypeOK, CkType
<1>8. Places' /\ Done'
  BY <1>5 DEF Places, Done
<1>9. Marks'
  BY <1>1, <1>5, Expand DEF Marks
<1>10. Cycles'
  BY <1>2, <1>5 DEF Cycles
<1>11. \A f : ~Scanned(f)
  BY <1>1, NoScan
<1>12. Covered'
  BY <1>1, <1>2, <1>3, <1>11, Expand DEF Covered
<1>13. Due'
  <2> SUFFICES ASSUME NEW f \in Files, os[f] = 2
               PROVE  /\ Asked(tab', f) /\ f.rel \in ck'.todo
                      /\ tab'.pending[f.rel].cycle_ctr # tab'.mdsync_cycle_ctr
    BY <1>1 DEF Due
  <2>1. ~(mem[f] >= os[f])
    <3>1. mem[f] \in 0 .. 2 /\ mem[f] # 2
      BY <1>1, Expand DEF Marks
    <3> QED
      BY <3>1
  <2>2. Asked(tab', f)
    BY <1>2, <1>3, <1>11, <2>1, Expand DEF Covered
  <2>3. f.rel \in DOMAIN tab'.pending
    BY <2>2 DEF Asked
  <2> QED
    BY <1>2, <1>5, <1>6, <2>2, <2>3
<1>14. Dropped'
  BY <1>1, Expand DEF Dropped
<1>15. Forgets'
  <2>1. Ordered(queue') /\ Queued' = {}
    BY <1>1 DEF Ordered, Queued
  <2>2. \A r \in Rels : Forgotten(r) => Cancelled(tab, r)'
    BY <1>2, <1>3, <1>5 DEF Cancelled, FilesOf
  <2> QED
    BY <1>1, <2>1, <2>2, Expand DEF Forgets, Forgotten
<1>16. Unlinks'
  BY <1>1, <1>2, <1>3 DEF Unlinks, Forgotten
<1> QED
  BY <1>1, <1>7, <1>8, <1>9, <1>10, <1>12, <1>13, <1>14, <1>15, <1>16, Expand DEF IInv

LEMMA ScanEntryStep ==
    ASSUME IInv, NEW r \in Rels, ScanEntry(r)
    PROVE  IInv'
<1>1. /\ ck.pc = "scan" /\ ck.cur = NoRel /\ r \in DOMAIN tab.pending
      /\ UNCHANGED <<mem, os, io, queue, drop, exist, tab, dropAge, spurious>>
  BY DEF ScanEntry, data, backendVars, history
<1>2. /\ ck' \in CkType /\ ck'.pc = "scan" /\ ck'.todo = ck.todo \ {r} /\ ck'.need = ck.need
      /\ ck'.scan = ck.scan /\ ck'.failures = ck.failures
      /\ \/ /\ tab.pending[r].cycle_ctr = tab.mdsync_cycle_ctr /\ ck'.cur = NoRel
         \/ /\ tab.pending[r].cycle_ctr # tab.mdsync_cycle_ctr /\ ck'.cur = r /\ ck'.fork = 0
  <2>1. CASE tab.pending[r].cycle_ctr = tab.mdsync_cycle_ctr
    <3>1. ck' = [ck EXCEPT !.todo = ck.todo \ {r}]
      BY <2>1 DEF ScanEntry
    <3> QED
      BY <1>1, <2>1, <3>1, Expand DEF CkType
  <2>2. CASE tab.pending[r].cycle_ctr # tab.mdsync_cycle_ctr
    <3>1. ck' = [ck EXCEPT !.todo = ck.todo \ {r}, !.cur = r, !.fork = 0]
      BY <2>2 DEF ScanEntry
    <3>2. ck \in CkType /\ ck.todo \ {r} \subseteq Rels /\ 0 \in 0 .. MaxFork + 1
      BY Expand DEF CkType
    <3>3. /\ ck'.pc = ck.pc /\ ck'.todo = ck.todo \ {r} /\ ck'.need = ck.need
          /\ ck'.scan = ck.scan /\ ck'.failures = ck.failures /\ ck'.cur = r /\ ck'.fork = 0
          /\ ck' \in CkType
      BY <3>1, <3>2 DEF CkType
    <3> QED
      BY <1>1, <2>2, <3>3
  <2> QED
    BY <2>1, <2>2
<1>3. ck.scan = {} /\ \A f : ~Scanned(f)
  BY <1>1, Expand DEF Places, Scanned
<1>4. TypeOK'
  BY <1>1, <1>2, Expand DEF TypeOK, CkType
<1>5. Places' /\ Marks' /\ Done'
  BY <1>1, <1>2, <1>3, Expand DEF Places, Marks, Done
<1>6. Cycles'
  <2>1. ASSUME NEW s \in DOMAIN tab.pending,
               tab.pending[s].cycle_ctr # tab.mdsync_cycle_ctr
        PROVE  /\ s \in ck'.todo \cup {ck'.cur}
               /\ (tab.pending[s].cycle_ctr + 1) % CtrWidth = tab.mdsync_cycle_ctr
    <3>1. /\ s \in ck.todo \cup {ck.cur}
          /\ (tab.pending[s].cycle_ctr + 1) % CtrWidth = tab.mdsync_cycle_ctr
      BY <1>1, <2>1, Expand DEF Cycles
    <3>2. s \in Rels
      BY Expand, TableFields
    <3>3. s \in ck.todo
      BY <1>1, <3>1, <3>2
    <3> QED
      BY <1>2, <2>1, <3>1, <3>3
  <2>2. tab.mdsync_in_progress
    BY <1>1, Expand DEF Cycles
  <2> QED
    BY <1>1, <2>1, <2>2 DEF Cycles
<1>7. Covered'
  BY <1>1, <1>3, Expand DEF Covered, Queued, Asked
<1>8. Due'
  <2> SUFFICES ASSUME NEW f \in Files, os[f] = 2
               PROVE  /\ Asked(tab, f)
                      /\ \/ /\ f.rel \in ck'.todo
                            /\ tab.pending[f.rel].cycle_ctr # tab.mdsync_cycle_ctr
                         \/ f.rel = ck'.cur /\ f.fork >= ck'.fork
    BY <1>1 DEF Due, Asked
  <2>1. f.rel \in Rels /\ f.fork \in Forks
    BY RequestKinds
  <2>2. /\ Asked(tab, f) /\ f.rel \in ck.todo
        /\ tab.pending[f.rel].cycle_ctr # tab.mdsync_cycle_ctr
    BY <1>1, <1>3, <2>1, Expand DEF Due
  <2>3. CASE f.rel # r
    BY <1>2, <2>2, <2>3
  <2>4. CASE f.rel = r
    <3>1. ck'.cur = r /\ ck'.fork = 0
      BY <1>2, <2>2, <2>4
    <3>2. f.fork >= 0
      BY <2>1 DEF Forks
    <3> QED
      BY <2>2, <2>4, <3>1, <3>2
  <2> QED
    BY <2>3, <2>4
<1>9. Dropped' /\ Unlinks'
  BY <1>1, <1>2, Expand DEF Dropped, Unlinks, Forgotten
<1>10. Forgets'
  <2>1. \A s : Cancelled(tab, s) => Cancelled(tab, s)'
    BY <1>1, <1>2, <1>3 DEF Cancelled, Asked
  <2> QED
    BY <1>1, <2>1, Expand DEF Forgets, Forgotten, Queued
<1> QED
  BY <1>1, <1>4, <1>5, <1>6, <1>7, <1>8, <1>9, <1>10, Expand DEF IInv

LEMMA ScanForkStep == ASSUME IInv, ScanFork PROVE IInv'
<1>1. /\ ck.cur # NoRel /\ ck.scan = {} /\ ck.fork <= MaxFork
      /\ ck' = [ck EXCEPT !.scan = tab.pending[ck.cur].requests[ck.fork], !.fork = ck.fork + 1]
      /\ UNCHANGED <<mem, os, io, queue, drop, exist, dropAge, spurious>>
  BY DEF ScanFork, data, backendVars, history
<1>2. /\ tab' \in Tables
      /\ DOMAIN tab'.pending = DOMAIN tab.pending
      /\ tab'.mdsync_cycle_ctr = tab.mdsync_cycle_ctr
      /\ tab'.mdckpt_cycle_ctr = tab.mdckpt_cycle_ctr
      /\ tab'.mdsync_in_progress = tab.mdsync_in_progress
      /\ tab'.unlinks = tab.unlinks
      /\ \A r \in DOMAIN tab.pending : tab'.pending[r].cycle_ctr = tab.pending[r].cycle_ctr
      /\ \A f \in Files :
           Asked(tab', f) <=> Asked(tab, f) /\ ~(f.rel = ck.cur /\ f.fork = ck.fork)
  BY Expand, ScanForkTable
<1>3. /\ ck.pc = "scan" /\ ck.cur \in DOMAIN tab.pending /\ ck.cur \in Rels
      /\ ck.fork \in Nat /\ ck.fork \in Forks
      /\ tab.pending[ck.cur].requests[ck.fork] \subseteq Segnos
  <2>1. ck.pc = "scan" /\ ck.cur \in DOMAIN tab.pending
    BY <1>1, Expand DEF Places
  <2>2. ck.fork \in Nat /\ ck.fork \in Forks
    BY <1>1, Expand DEF CkType, Forks
  <2>3. tab.pending[ck.cur].requests \in [Forks -> SUBSET Segnos]
    BY <2>1, Expand, EntryFields
  <2>4. ck.cur \in Rels
    BY <2>1, Expand, TableFields
  <2> QED
    BY <2>1, <2>2, <2>3, <2>4
<1>4. /\ ck' \in CkType /\ ck'.pc = ck.pc /\ ck'.todo = ck.todo /\ ck'.need = ck.need
      /\ ck'.cur = ck.cur /\ ck'.failures = ck.failures /\ ck'.fork = ck.fork + 1
      /\ ck'.scan = tab.pending[ck.cur].requests[ck.fork]
  <2> DEFINE S == tab.pending[ck.cur].requests[ck.fork]
  <2>1. ck.fork + 1 \in 0 .. MaxFork + 1 /\ S \subseteq Segnos
    BY <1>1, <1>3
  <2>2. ck' = [ck EXCEPT !.scan = S, !.fork = ck.fork + 1]
    BY <1>1
  <2> HIDE DEF S
  <2>3. /\ ck' \in CkType /\ ck'.pc = ck.pc /\ ck'.todo = ck.todo /\ ck'.need = ck.need
        /\ ck'.cur = ck.cur /\ ck'.failures = ck.failures /\ ck'.fork = ck.fork + 1
        /\ ck'.scan = S
    BY <2>1, <2>2, Expand DEF CkType
  <2> QED
    BY <2>3 DEF S
<1>5. TypeOK'
  BY <1>1, <1>2, <1>4, Expand DEF TypeOK, CkType
<1>6. Places' /\ Marks' /\ Done'
  BY <1>1, <1>2, <1>3, <1>4, Expand DEF Places, Marks, Done
<1>7. Cycles'
  BY <1>2, <1>4, Expand DEF Cycles
<1>8. \A f : ~Scanned(f)
  BY <1>1 DEF Scanned
<1>9. \A f \in Files : Asked(tab, f) => Asked(tab', f) \/ Scanned(f)'
  <2> SUFFICES ASSUME NEW f \in Files, Asked(tab, f), f.rel = ck.cur, f.fork = ck.fork
               PROVE  Scanned(f)'
    BY <1>2
  <2>1. f.seg \in tab.pending[ck.cur].requests[ck.fork]
    BY DEF Asked
  <2> QED
    BY <1>4, <2>1 DEF Scanned
<1>10. Queued' = Queued
  BY <1>1 DEF Queued
<1>11. Covered'
  BY <1>1, <1>8, <1>9, <1>10, Expand DEF Covered
<1>12. Due'
  <2> SUFFICES ASSUME NEW f \in Files, os[f] = 2, ~Scanned(f)'
               PROVE  /\ Asked(tab', f)
                      /\ \/ /\ f.rel \in ck.todo
                            /\ tab'.pending[f.rel].cycle_ctr # tab'.mdsync_cycle_ctr
                         \/ f.rel = ck.cur /\ f.fork >= ck.fork + 1
    BY <1>1, <1>4 DEF Due
  <2>1. /\ Asked(tab, f)
        /\ \/ /\ f.rel \in ck.todo
              /\ tab.pending[f.rel].cycle_ctr # tab.mdsync_cycle_ctr
           \/ f.rel = ck.cur /\ f.fork >= ck.fork
    BY <1>3, <1>8, Expand DEF Due
  <2>2. Asked(tab', f)
    BY <1>9, <2>1
  <2>3. f.rel \in DOMAIN tab.pending /\ ~(f.rel = ck.cur /\ f.fork = ck.fork)
    BY <1>2, <2>1, <2>2 DEF Asked
  <2>4. f.fork \in Nat
    BY RequestKinds DEF Forks
  <2>5. f.fork >= ck.fork /\ f.fork # ck.fork => f.fork >= ck.fork + 1
    BY <1>3, <2>4
  <2> QED
    BY <1>2, <2>1, <2>2, <2>3, <2>5
<1>13. Dropped' /\ Unlinks'
  BY <1>1, <1>2, <1>4, Expand DEF Dropped, Unlinks, Forgotten
<1>14. Forgets'
  <2>1. ASSUME NEW r \in Rels, Cancelled(tab, r) PROVE Cancelled(tab, r)'
    <3>1. \A f \in FilesOf(r) : ~Asked(tab', f)
      BY <1>2, <2>1 DEF Cancelled, FilesOf
    <3>2. ASSUME ck'.cur = r, ck'.scan # {} PROVE FALSE
      <4>1. PICK n \in Segnos : n \in tab.pending[ck.cur].requests[ck.fork]
        BY <1>3, <1>4, <3>2
      <4> DEFINE f == [rel |-> ck.cur, fork |-> ck.fork, seg |-> n]
      <4>2. f \in FilesOf(r) /\ f.rel = ck.cur /\ f.fork = ck.fork /\ f.seg = n
        BY <1>3, <1>4, <3>2 DEF FilesOf, Files
      <4> HIDE DEF f
      <4>3. Asked(tab, f)
        BY <1>3, <4>1, <4>2 DEF Asked
      <4> QED
        BY <2>1, <4>2, <4>3 DEF Cancelled
    <3> QED
      BY <3>1, <3>2 DEF Cancelled
  <2> QED
    BY <1>1, <1>10, <2>1, Expand DEF Forgets, Forgotten
<1> QED
  BY <1>1, <1>5, <1>6, <1>7, <1>11, <1>12, <1>13, <1>14, Expand DEF IInv

\* The sync of one segment works: only that file's state changes.
LEMMA SyncWorks ==
    ASSUME IInv, ck.scan # {}, FileSync(Current), ck' = Passed,
           UNCHANGED <<mem, backendVars, tab, history>>
    PROVE  IInv'
<1>1. UNCHANGED <<mem, io, queue, drop, exist, tab, dropAge, spurious>>
  BY DEF backendVars, history
<1> DEFINE c == Current
<1>2. /\ c \in Files /\ c.rel = ck.cur /\ c.fork = ck.fork - 1 /\ c.seg \in ck.scan
      /\ ck.fork \in Nat /\ ck.pc = "scan"
  BY Expand, CurrentFile
<1>3. ck' = [ck EXCEPT !.scan = ck.scan \ {c.seg}, !.failures = 0]
  BY DEF Passed
<1>4. os' = [os EXCEPT ![c] = 0]
  BY DEF FileSync
<1> HIDE DEF c
<1>5. /\ ck' \in CkType /\ ck'.pc = ck.pc /\ ck'.todo = ck.todo /\ ck'.need = ck.need
      /\ ck'.cur = ck.cur /\ ck'.fork = ck.fork /\ ck'.failures = 0
      /\ ck'.scan = ck.scan \ {c.seg}
  <2>1. ck \in CkType /\ ck.scan \ {c.seg} \subseteq Segnos /\ 0 \in 0 .. 1
    BY Expand DEF CkType
  <2> QED
    BY <1>3, <2>1 DEF CkType
<1>6. /\ os' \in [Files -> 0 .. 2] /\ os'[c] = 0
      /\ \A f \in Files : f # c => os'[f] = os[f]
  BY <1>2, <1>4, Expand
<1>7. ASSUME NEW f \in Files, os'[f] > 0
      PROVE  os'[f] = os[f] /\ (Scanned(f) => Scanned(f)')
  <2>1. f # c /\ os'[f] = os[f]
    BY <1>6, <1>7
  <2>2. ASSUME Scanned(f), f.seg = c.seg PROVE FALSE
    <3>1. f.rel = c.rel /\ f.fork = c.fork
      <4>1. f.fork \in Nat /\ c.fork \in Nat
        BY <1>2, RequestKinds DEF Forks
      <4> QED
        BY <1>2, <2>2, <4>1 DEF Scanned
    <3> QED
      BY <1>2, <2>1, <2>2, <3>1, RequestKinds
  <2> QED
    BY <1>5, <2>1, <2>2 DEF Scanned
<1>8. TypeOK'
  BY <1>1, <1>5, <1>6, Expand DEF TypeOK, CkType
<1>9. Places' /\ Marks'
  BY <1>1, <1>5, Expand DEF Places, Marks
<1>10. Cycles'
  BY <1>1, <1>5, Expand DEF Cycles
<1>11. Queued' = Queued /\ \A f : Asked(tab, f)' <=> Asked(tab, f)
  BY <1>1 DEF Queued, Asked
<1>12. Covered'
  BY <1>1, <1>7, <1>11, Expand DEF Covered
<1>13. Due'
  <2> SUFFICES ASSUME NEW f \in Files, os'[f] = 2, ~Scanned(f)'
               PROVE  /\ Asked(tab, f)
                      /\ \/ /\ f.rel \in ck.todo
                            /\ tab.pending[f.rel].cycle_ctr # tab.mdsync_cycle_ctr
                         \/ f.rel = ck.cur /\ f.fork >= ck.fork
    BY <1>1, <1>5, <1>11 DEF Due
  <2>1. os[f] = 2 /\ ~Scanned(f)
    BY <1>7
  <2> QED
    BY <1>2, <2>1, Expand DEF Due
<1>14. Done'
  BY <1>2, <1>5 DEF Done
<1>15. Dropped'
  <2>1. \A f \in Files : os[f] = 0 => os'[f] = 0
    BY <1>6
  <2> QED
    BY <1>1, <2>1, Expand DEF Dropped, FilesOf
<1>16. Forgets'
  <2>1. \A r : Cancelled(tab, r) => Cancelled(tab, r)'
    BY <1>1, <1>5, <1>11 DEF Cancelled
  <2> QED
    BY <1>1, <1>11, <2>1, Expand DEF Forgets, Forgotten
<1>17. Unlinks'
  BY <1>1, <1>5, Expand DEF Unlinks, Forgotten
<1> QED
  BY <1>1, <1>8, <1>9, <1>10, <1>12, <1>13, <1>14, <1>15, <1>16, <1>17, Expand DEF IInv

\* A sync fails: what it had to do is forfeited, unless it is asked for again.
LEMMA SyncFails ==
    ASSUME IInv, ck.scan # {}, ScanFails(FALSE)
    PROVE  IInv'
<1> DEFINE lost == {f \in FilesOf(ck.cur) : /\ f.fork = ck.fork - 1 /\ f.seg \in ck.scan
                                            /\ ~AskedAgain(f)}
<1>1. /\ UNCHANGED <<mem, io, queue, drop, exist, tab, dropAge>>
      /\ spurious' = spurious /\ ck' = Idle
      /\ os' = [f \in Files |-> IF f \in lost THEN (IF f \in io THEN mem[f] ELSE 0) ELSE os[f]]
  <2>1. spurious \in BOOLEAN
    BY Expand DEF TypeOK
  <2> QED
    BY <2>1 DEF ScanFails, backendVars
<1>2. /\ ck.fork \in Nat /\ ck.pc = "scan" /\ ck.cur \in DOMAIN tab.pending
  BY Expand, CurrentFile DEF Places
<1>3. ASSUME NEW f \in Files, Scanned(f), f \notin lost
      PROVE  f \in Queued \/ Asked(tab, f)
  <2>1. f \in FilesOf(ck.cur) /\ f.fork = ck.fork - 1 /\ f.seg \in ck.scan /\ f.rel = ck.cur
    <3>1. f.fork \in Nat
      BY RequestKinds DEF Forks
    <3> QED
      BY <1>2, <1>3, <3>1 DEF Scanned, FilesOf
  <2>2. AskedAgain(f)
    BY <1>3, <2>1
  <2> QED
    BY <1>2, <2>1, <2>2 DEF AskedAgain, Queued, Asked
<1> HIDE DEF lost
<1>4. \A f \in Files : mem[f] \in 0 .. 2 /\ os[f] \in 0 .. 2
  BY Expand
<1>5. /\ ck' \in CkType /\ ck'.pc = "idle" /\ ck'.need = {} /\ ck'.cur = NoRel
      /\ ck'.scan = {} /\ ck'.failures = 0
  BY <1>1 DEF Idle, CkType
<1>6. /\ os' \in [Files -> 0 .. 2]
      /\ \A f \in Files : os'[f] > 0 =>
            \/ os'[f] = os[f] /\ f \notin lost
            \/ os'[f] = mem[f] /\ f \in io
  BY <1>1, <1>4
<1>7. TypeOK'
  <2>1. spurious' \in BOOLEAN
    BY <1>1, Expand DEF TypeOK
  <2> QED
    BY <1>1, <1>5, <1>6, <2>1, Expand DEF TypeOK, CkType
<1>8. Places' /\ Done' /\ Due'
  BY <1>5 DEF Places, Done, Due
<1>9. Marks'
  BY <1>1, <1>2, <1>5, Expand DEF Marks, Places
<1>10. Cycles'
  BY <1>1, <1>2, <1>5, Expand DEF Cycles
<1>11. Queued' = Queued /\ \A f : Asked(tab, f)' <=> Asked(tab, f)
  BY <1>1 DEF Queued, Asked
<1>12. Covered'
  <2> SUFFICES ASSUME NEW f \in Files, os'[f] > 0
               PROVE  mem[f] >= os'[f] \/ f \in Queued \/ Asked(tab, f)
    BY <1>1, <1>11 DEF Covered
  <2>1. CASE os'[f] = os[f] /\ f \notin lost
    BY <1>3, <2>1, Expand DEF Covered
  <2>2. CASE os'[f] = mem[f]
    BY <1>4, <2>2
  <2> QED
    BY <1>6, <2>1, <2>2
<1>13. Dropped'
  <2>1. \A f \in Files : os[f] = 0 /\ f \notin io => os'[f] = 0
    BY <1>1
  <2> QED
    BY <1>1, <2>1, Expand DEF Dropped, FilesOf
<1>14. Forgets'
  <2>1. \A r : Cancelled(tab, r) => Cancelled(tab, r)'
    BY <1>1, <1>5, <1>11 DEF Cancelled
  <2> QED
    BY <1>1, <1>11, <2>1, Expand DEF Forgets, Forgotten
<1>15. Unlinks'
  BY <1>1, <1>2, <1>5, Expand DEF Unlinks, Forgotten
<1> QED
  BY <1>1, <1>7, <1>8, <1>9, <1>10, <1>12, <1>13, <1>14, <1>15, Expand DEF IInv

LEMMA SyncSegmentStep == ASSUME IInv, SyncSegment PROVE IInv'
<1>1. ck.scan # {} /\ ck.failures = 0
  BY Expand DEF SyncSegment, Places
<1>2. /\ Current \in Files /\ Current.rel = ck.cur /\ Current.fork = ck.fork - 1
      /\ ck.cur \in Rels /\ ck.fork - 1 \in Forks /\ ck.fork \in Nat
  BY <1>1, Expand, CurrentFile
<1>3. CASE /\ FileSync(Current) /\ ck' = Passed
           /\ UNCHANGED <<mem, backendVars, tab, history>>
  BY <1>1, <1>3, SyncWorks
<1>4. CASE ScanFails(FALSE)
  BY <1>1, <1>4, SyncFails
<1>5. CASE /\ Current \notin exist
           /\ tab' = Absorbed /\ queue' = <<>>
           /\ ck' = IF tab'.pending[ck.cur].canceled[ck.fork - 1]
                      THEN Passed ELSE [ck EXCEPT !.failures = 1]
           /\ UNCHANGED <<data, io, drop, exist, history>>
  <2>1. Forgotten(ck.cur)
    BY <1>2, <1>5, Expand DEF Forgets
  <2>2. Cancelled(tab', ck.cur)
    BY <1>2, <1>5, <2>1, Expand, AbsorbedAbsorbs, AbsorbedParts
  <2>3. ck' = Passed
    BY <1>1, <1>5, <2>2 DEF Cancelled
  <2> DEFINE n == Current.seg
  <2>4. ck' = [ck EXCEPT !.scan = ck.scan \ {n}, !.failures = 0]
    BY <2>3 DEF Passed
  <2> HIDE DEF n
  <2>5. /\ ck' \in CkType /\ ck'.pc = ck.pc /\ ck'.todo = ck.todo /\ ck'.need = ck.need
        /\ ck'.cur = ck.cur /\ ck'.fork = ck.fork /\ ck'.failures = 0
        /\ ck'.scan = ck.scan \ {n}
    <3>1. ck \in CkType /\ ck.scan \ {n} \subseteq Segnos /\ 0 \in 0 .. 1
      BY Expand DEF CkType
    <3> QED
      BY <2>4, <3>1 DEF CkType
  <2>6. ASSUME NEW f \in Files, Scanned(f), os[f] > 0 PROVE FALSE
    <3>1. f \in FilesOf(ck.cur)
      BY <2>6 DEF Scanned, FilesOf
    <3> QED
      BY <1>2, <2>1, <2>6, <3>1, Expand DEF Dropped, Forgotten
  <2>7. UNCHANGED There
    BY <1>1, <2>5 DEF There
  <2> QED
    BY <1>5, <2>5, <2>6, <2>7, AbsorbQueue
<1>6. ~(ck.failures = 1)
  BY <1>1
<1> QED
  BY <1>3, <1>4, <1>5, <1>6 DEF SyncSegment

LEMMA FinishEntryStep == ASSUME IInv, FinishEntry PROVE IInv'
<1>1. /\ ck.cur # NoRel /\ ck.scan = {} /\ ck.fork > MaxFork
      /\ ck' = [ck EXCEPT !.cur = NoRel, !.fork = 0]
      /\ UNCHANGED <<mem, os, io, queue, drop, exist, dropAge, spurious>>
  BY DEF FinishEntry, data, backendVars, history
<1>2. /\ tab' \in Tables
      /\ DOMAIN tab'.pending \subseteq DOMAIN tab.pending
      /\ tab'.mdsync_cycle_ctr = tab.mdsync_cycle_ctr
      /\ tab'.mdckpt_cycle_ctr = tab.mdckpt_cycle_ctr
      /\ tab'.mdsync_in_progress = tab.mdsync_in_progress
      /\ tab'.unlinks = tab.unlinks
      /\ \A r \in DOMAIN tab'.pending :
           tab'.pending[r].cycle_ctr =
               IF r = ck.cur THEN tab.mdsync_cycle_ctr ELSE tab.pending[r].cycle_ctr
      /\ \A f \in Files : Asked(tab', f) <=> Asked(tab, f)
  BY Expand, FinishEntryTable
<1>3. ck.pc = "scan" /\ ck.cur \notin ck.todo
  BY <1>1, Expand DEF Places
<1>4. /\ ck' \in CkType /\ ck'.pc = ck.pc /\ ck'.todo = ck.todo /\ ck'.need = ck.need
      /\ ck'.cur = NoRel /\ ck'.fork = 0 /\ ck'.scan = ck.scan /\ ck'.failures = ck.failures
  <2>1. ck \in CkType /\ 0 \in 0 .. MaxFork + 1
    BY Expand
  <2> QED
    BY <1>1, <2>1 DEF CkType
<1>5. TypeOK'
  BY <1>1, <1>2, <1>4, Expand DEF TypeOK, CkType
<1>6. Places' /\ Marks' /\ Done'
  BY <1>1, <1>3, <1>4, Expand DEF Places, Marks, Done
<1>7. Cycles'
  <2>1. ASSUME NEW s \in DOMAIN tab'.pending,
               tab'.pending[s].cycle_ctr # tab'.mdsync_cycle_ctr
        PROVE  /\ s \in ck'.todo \cup {ck'.cur}
               /\ (tab'.pending[s].cycle_ctr + 1) % CtrWidth = tab'.mdsync_cycle_ctr
    <3>1. /\ s # ck.cur /\ s \in DOMAIN tab.pending
          /\ tab'.pending[s].cycle_ctr = tab.pending[s].cycle_ctr
      BY <1>2, <2>1
    <3>2. /\ s \in ck.todo \cup {ck.cur}
          /\ (tab.pending[s].cycle_ctr + 1) % CtrWidth = tab.mdsync_cycle_ctr
      BY <1>2, <1>3, <2>1, <3>1, Expand DEF Cycles
    <3> QED
      BY <1>2, <1>4, <3>1, <3>2
  <2>2. tab'.mdsync_in_progress
    BY <1>2, <1>3, Expand DEF Cycles
  <2> QED
    BY <2>1, <2>2 DEF Cycles
<1>8. Queued' = Queued /\ \A f : ~Scanned(f)
  BY <1>1 DEF Queued, Scanned
<1>9. Covered'
  BY <1>1, <1>2, <1>8, Expand DEF Covered
<1>10. Due'
  <2> SUFFICES ASSUME NEW f \in Files, os[f] = 2
               PROVE  /\ Asked(tab', f) /\ f.rel \in ck.todo
                      /\ tab'.pending[f.rel].cycle_ctr # tab'.mdsync_cycle_ctr
    BY <1>1, <1>4 DEF Due
  <2>1. /\ Asked(tab, f)
        /\ \/ /\ f.rel \in ck.todo
              /\ tab.pending[f.rel].cycle_ctr # tab.mdsync_cycle_ctr
           \/ f.rel = ck.cur /\ f.fork >= ck.fork
    BY <1>3, <1>8, Expand DEF Due
  <2>2. ~(f.fork >= ck.fork)
    <3>1. f.fork \in 0 .. MaxFork
      BY RequestKinds DEF Forks
    <3>2. ck.fork \in 0 .. MaxFork + 1
      BY Expand DEF CkType
    <3> QED
      BY <1>1, <3>1, <3>2
  <2>3. f.rel \in ck.todo /\ f.rel # ck.cur /\ Asked(tab', f)
    BY <1>2, <1>3, <2>1, <2>2
  <2>4. f.rel \in DOMAIN tab'.pending
    BY <2>3 DEF Asked
  <2> QED
    BY <1>2, <2>1, <2>2, <2>3, <2>4
<1>11. Dropped' /\ Unlinks'
  BY <1>1, <1>2, <1>4, Expand DEF Dropped, Unlinks, Forgotten
<1>12. Forgets'
  <2>1. \A r : Cancelled(tab, r) => Cancelled(tab, r)'
    BY <1>1, <1>2, <1>4 DEF Cancelled, FilesOf
  <2> QED
    BY <1>1, <1>8, <2>1, Expand DEF Forgets, Forgotten
<1> QED
  BY <1>1, <1>5, <1>6, <1>7, <1>9, <1>10, <1>11, <1>12, Expand DEF IInv

LEMMA CheckpointSucceedsStep == ASSUME IInv, CheckpointSucceeds PROVE IInv'
<1>1. /\ ck.pc = "scan" /\ ck.cur = NoRel /\ ck.todo = {}
      /\ ck' = [ck EXCEPT !.pc = "post"]
      /\ tab' = [tab EXCEPT !.mdsync_in_progress = FALSE]
      /\ UNCHANGED <<mem, os, io, queue, drop, exist, dropAge, spurious>>
  BY DEF CheckpointSucceeds, data, backendVars, history
<1>2. /\ tab' \in Tables /\ tab'.pending = tab.pending /\ tab'.unlinks = tab.unlinks
      /\ tab'.mdsync_cycle_ctr = tab.mdsync_cycle_ctr
      /\ tab'.mdckpt_cycle_ctr = tab.mdckpt_cycle_ctr
  BY <1>1, Expand DEF Tables
<1>3. /\ ck' \in CkType /\ ck'.pc = "post" /\ ck'.need = ck.need
      /\ ck'.cur = NoRel /\ ck'.scan = ck.scan /\ ck'.failures = ck.failures
  BY <1>1, Expand DEF CkType
<1>4. ck.scan = {} /\ \A f : ~Scanned(f)
  BY <1>1, Expand DEF Places, Scanned
<1>5. TypeOK'
  BY <1>1, <1>2, <1>3, Expand DEF TypeOK, CkType
<1>6. Places' /\ Marks' /\ Due'
  BY <1>1, <1>3, <1>4, Expand DEF Places, Marks, Due
<1>7. Cycles'
  <2>1. ASSUME NEW r \in DOMAIN tab.pending
        PROVE  tab.pending[r].cycle_ctr = tab.mdsync_cycle_ctr
    <3>1. r \in Rels
      BY Expand, TableFields
    <3>2. r \notin ck.todo \cup {ck.cur}
      BY <1>1, <3>1
    <3> QED
      BY <1>1, <3>2, Expand DEF Cycles
  <2> QED
    BY <1>2, <1>3, <2>1 DEF Cycles
<1>8. Queued' = Queued /\ \A f : Asked(tab, f)' <=> Asked(tab, f)
  BY <1>1, <1>2 DEF Queued, Asked
<1>9. Covered'
  BY <1>1, <1>4, <1>8, Expand DEF Covered
<1>10. Done'
  <2>1. \A f \in Files : f.rel \in Rels
    BY RequestKinds
  <2>2. \A f \in Files : os[f] # 2
    BY <1>1, <1>4, <2>1, Expand DEF Due
  <2>3. \A f \in Files : os'[f] < 2
    BY <1>1, <2>2, Expand
  <2> QED
    BY <2>3 DEF Done
<1>11. Dropped' /\ Unlinks'
  BY <1>1, <1>2, <1>3, Expand DEF Dropped, Unlinks, Forgotten
<1>12. Forgets'
  <2>1. \A r : Cancelled(tab, r) => Cancelled(tab, r)'
    BY <1>3, <1>4, <1>8 DEF Cancelled
  <2> QED
    BY <1>1, <1>8, <2>1, Expand DEF Forgets, Forgotten
<1> QED
  BY <1>1, <1>5, <1>6, <1>7, <1>9, <1>10, <1>11, <1>12, Expand DEF IInv

-----------------------------------------------------------------------------
(* Removing first files.                                                   *)

\* What mdpostckpt's step may do to the files.
LEMMA RemovesFirst ==
    ASSUME IInv, ck.pc # "pre", tab.unlinks # <<>>, Head(tab.unlinks).cycle_ctr # tab.mdckpt_cycle_ctr
    PROVE  /\ Head(tab.unlinks).rel \in Rels
           /\ Forgotten(Head(tab.unlinks).rel) /\ dropAge[Head(tab.unlinks).rel] = 2
<1>1. tab.unlinks \in Seq([rel : Rels, cycle_ctr : Ctr])
  BY Expand, TableFields
<1>2. 1 \in DOMAIN tab.unlinks /\ Head(tab.unlinks) = tab.unlinks[1]
  BY <1>1
<1> QED
  BY <1>2, Expand, UnlinkFields DEF Unlinks

LEMMA MdpostckptStep == ASSUME IInv, mdpostckpt PROVE IInv'
<1>1. /\ ck.pc = "post"
      /\ UNCHANGED <<mem, os, io, queue, drop, dropAge, spurious>>
  BY DEF mdpostckpt, data, history
<1>2. ck.cur = NoRel /\ ck.scan = {} /\ ck.need = {} /\ \A f : ~Scanned(f)
  BY <1>1, Expand, NoScan DEF Places
<1>3. Queued' = Queued
  BY <1>1 DEF Queued
<1>4. CASE /\ tab.unlinks # <<>> /\ Head(tab.unlinks).cycle_ctr # tab.mdckpt_cycle_ctr
           /\ exist' = exist \ {First(Head(tab.unlinks).rel)}
           /\ tab' = [tab EXCEPT !.unlinks = Tail(@)] /\ ck' = ck
  <2> DEFINE r0 == Head(tab.unlinks).rel
             us == Tail(tab.unlinks)
  <2>1. r0 \in Rels /\ Forgotten(r0)
    BY <1>1, <1>4, RemovesFirst
  <2>2. tab.unlinks \in Seq([rel : Rels, cycle_ctr : Ctr])
    BY Expand, TableFields
  <2>3. /\ us \in Seq([rel : Rels, cycle_ctr : Ctr])
        /\ \A i \in DOMAIN us : i + 1 \in DOMAIN tab.unlinks /\ us[i] = tab.unlinks[i + 1]
    BY <1>4, <2>2
  <2>4. tab' = [tab EXCEPT !.unlinks = us]
    BY <1>4
  <2>5. exist' = exist \ {First(r0)}
    BY <1>4
  <2> HIDE DEF us, r0
  <2>6. /\ tab' \in Tables /\ tab'.pending = tab.pending /\ tab'.unlinks = us
        /\ tab'.mdsync_cycle_ctr = tab.mdsync_cycle_ctr
        /\ tab'.mdckpt_cycle_ctr = tab.mdckpt_cycle_ctr
        /\ tab'.mdsync_in_progress = tab.mdsync_in_progress
    BY <2>3, <2>4, Expand DEF Tables
  <2>7. TypeOK'
    BY <1>1, <1>4, <2>5, <2>6, Expand DEF TypeOK, CkType
  <2>8. Places' /\ Marks' /\ Cycles'
    BY <1>1, <1>4, <2>6, Expand DEF Places, Marks, Cycles
  <2>9. \A f : Asked(tab, f)' <=> Asked(tab, f)
    BY <2>6 DEF Asked
  <2>10. Covered' /\ Due' /\ Done'
    BY <1>1, <1>2, <1>3, <1>4, <2>9, Expand DEF Covered, Due, Done
  <2>11. Dropped'
    BY <1>1, Expand DEF Dropped
  <2>12. Forgets'
    <3>1. \A r : Cancelled(tab, r) => Cancelled(tab, r)'
      BY <1>2, <1>4, <2>9 DEF Cancelled
    <3>2. \A f \in Files : f \notin exist' => Forgotten(f.rel)
      <4>1. First(r0).rel = r0
        BY DEF First
      <4> QED
        BY <2>1, <2>5, <4>1, Expand DEF Forgets
    <3> QED
      BY <1>1, <1>3, <3>1, <3>2, Expand DEF Forgets, Forgotten
  <2>13. Unlinks'
    <3> SUFFICES ASSUME NEW i \in DOMAIN us
                 PROVE  /\ Forgotten(us[i].rel)
                        /\ us[i].cycle_ctr # tab.mdckpt_cycle_ctr => dropAge[us[i].rel] = 2
      BY <1>1, <2>6 DEF Unlinks, Forgotten
    <3> QED
      BY <1>1, <2>3, Expand DEF Unlinks
  <2> QED
    BY <1>1, <2>7, <2>8, <2>10, <2>11, <2>12, <2>13, Expand DEF IInv
<1>5. CASE ck' = Idle /\ UNCHANGED <<exist, tab>>
  <2>1. /\ ck' \in CkType /\ ck'.pc = "idle" /\ ck'.need = {} /\ ck'.cur = NoRel
        /\ ck'.scan = {} /\ ck'.failures = 0
    BY <1>5 DEF Idle, CkType
  <2>2. TypeOK'
    BY <1>1, <1>5, <2>1, Expand DEF TypeOK, CkType
  <2>3. Places' /\ Marks' /\ Cycles' /\ Due' /\ Done'
    BY <1>1, <1>2, <1>5, <2>1, Expand DEF Places, Marks, Cycles, Due, Done
  <2>4. Covered'
    BY <1>1, <1>2, <1>3, <1>5, Expand DEF Covered, Asked
  <2>5. Dropped' /\ Unlinks'
    BY <1>1, <1>5, <2>1, Expand DEF Dropped, Unlinks, Forgotten
  <2>6. Forgets'
    <3>1. \A r : Cancelled(tab, r) => Cancelled(tab, r)'
      BY <1>5, <2>1 DEF Cancelled, Asked
    <3> QED
      BY <1>1, <1>3, <1>5, <3>1, Expand DEF Forgets, Forgotten
  <2> QED
    BY <1>1, <2>2, <2>3, <2>4, <2>5, <2>6, Expand DEF IInv
<1> QED
  BY <1>4, <1>5 DEF mdpostckpt

-----------------------------------------------------------------------------
(* The invariant holds, and what follows from it.                          *)

LEMMA InitGood == ASSUME Init PROVE IInv
<1>1. /\ \A f \in Files : mem[f] = 0 /\ os[f] = 0
      /\ queue = <<>> /\ exist = Files /\ ck = Idle /\ spurious = FALSE
      /\ tab.pending = <<>> /\ tab.unlinks = <<>> /\ tab.mdsync_in_progress = FALSE
      /\ \A r \in Rels : drop[r] = "live"
  BY DEF Init
<1>2. ck.pc = "idle" /\ ck.need = {} /\ ck.cur = NoRel /\ ck.scan = {} /\ ck.failures = 0
  BY <1>1 DEF Idle
<1>3. Queued = {} /\ Ordered(queue) /\ DOMAIN tab.pending = {} /\ DOMAIN tab.unlinks = {}
  BY <1>1 DEF Queued, Ordered
<1>4. Places /\ Marks /\ Due /\ Done
  BY <1>1, <1>2 DEF Places, Marks, Due, Done
<1>5. Cycles /\ Covered
  BY <1>1, <1>2, <1>3 DEF Cycles, Covered
<1>6. Dropped /\ Forgets /\ Unlinks
  BY <1>1, <1>3 DEF Dropped, Forgets, Forgotten, Unlinks
<1> QED
  BY <1>1, <1>4, <1>5, <1>6, TypeInit DEF IInv

LEMMA StepGood == ASSUME IInv, [Next]_vars PROVE IInv'
<1>1. CASE Checkpointer
  BY <1>1, RedoPointStep, MarkBuffersStep, MdsyncStep, ScanForkStep, SyncSegmentStep, FinishEntryStep,
     CheckpointSucceedsStep, MdpostckptStep, WriteFailsStep, BufferSyncStep,
     ScanEntryStep DEF Checkpointer
<1>2. CASE mdpreckpt \/ Absorb
  BY <1>2, MdpreckptStep, AbsorbStep
<1>3. CASE \E f \in Files : Change(f) \/ BackendWrite(f) \/ RegisterDirtySegment(f)
  BY <1>3, ChangeStep, BackendWriteStep, RegisterStep
<1>4. CASE \E r \in Rels : DropRelation(r) \/ mdunlink(r)
  BY <1>4, DropRelationStep, MdunlinkStep
<1>5. CASE UNCHANGED vars
  <2>1. UNCHANGED <<mem, os, io, queue, drop, exist, tab, ck, dropAge, spurious>>
    BY <1>5 DEF vars, data, backendVars, history
  <2>2. /\ TypeOK' /\ Places' /\ Marks' /\ Cycles' /\ Covered' /\ Due' /\ Done'
        /\ Dropped' /\ Unlinks'
    BY <2>1, Expand DEF TypeOK, Places, Marks, Cycles, Covered, Due, Done, Dropped,
       Unlinks, Forgotten, Queued, Asked, Scanned
  <2>3. Forgets'
    BY <2>1, Expand DEF Forgets, Forgotten, Queued, Cancelled, Asked, Ordered
  <2> QED
    BY <2>1, <2>2, <2>3, Expand DEF IInv
<1> QED
  BY <1>1, <1>2, <1>3, <1>4, <1>5 DEF Next

(***************************************************************************)
(* The invariant holds for any relations, queue size and counter width.    *)
(***************************************************************************)
THEOREM Invariance == Spec => []IInv
<1>1. Init => IInv
  BY InitGood
<1>2. IInv /\ [Next]_vars => IInv'
  BY StepGood
<1> QED
  BY <1>1, <1>2, PTL DEF Spec

(***************************************************************************)
(* The queue never outgrows max_requests, and table and counters stay what *)
(* they are declared to be.                                                *)
(***************************************************************************)
THEOREM TypeCorrect == Spec => []TypeOK
<1>1. IInv => TypeOK
  BY DEF IInv
<1> QED
  BY <1>1, Invariance, PTL

(***************************************************************************)
(* A checkpoint that succeeds has put on disk all that was changed before  *)
(* it began, except what a failed sync forfeited: CreateCheckPoint returns *)
(* from CheckPointGuts only when no earlier change is in a buffer or in an *)
(* unsynced file.                                                          *)
(***************************************************************************)
THEOREM CheckpointsAreDurable == Spec => []DurableUnlessForfeited
<1>1. IInv => DurableUnlessForfeited
  <2> SUFFICES ASSUME IInv, ck.pc = "post", NEW f \in Files
               PROVE  mem[f] < 2 /\ os[f] < 2
    BY DEF DurableUnlessForfeited
  <2>1. os[f] < 2
    BY Expand DEF Done
  <2>2. mem[f] # 2 /\ mem[f] \in 0 .. 2
    BY Expand DEF Places, Marks
  <2> QED
    BY <2>1, <2>2
<1> QED
  BY <1>1, Invariance, PTL

(***************************************************************************)
(* mdsync's assertion "we haven't missed it" holds, whatever the width of  *)
(* the cycle counter and however many checkpoints have failed.             *)
(***************************************************************************)
THEOREM NothingIsMissed == Spec => []NothingMissed
<1>1. IInv => NothingMissed
  BY Expand DEF Places, Cycles, NothingMissed
<1> QED
  BY <1>1, Invariance, PTL

(***************************************************************************)
(* mdsync never reports an error because a file was dropped: when it finds *)
(* a file missing, absorbing the queue shows the request cancelled.        *)
(***************************************************************************)
THEOREM DropsDoNoHarm == Spec => []DropsAreHarmless
<1>1. IInv => DropsAreHarmless
  BY DEF IInv, DropsAreHarmless
<1> QED
  BY <1>1, Invariance, PTL

(***************************************************************************)
(* mdpostckpt removes the first file of a relation only after a checkpoint *)
(* that began after the relation was dropped, although the counter by      *)
(* which it tells may have wrapped around.                                 *)
(***************************************************************************)
THEOREM FirstFileStays == Spec => FirstFileOutlivesCheckpoint
<1>1. ASSUME IInv, [Next]_vars
      PROVE  [\A r \in Rels : First(r) \in exist \ exist' =>
                 dropAge[r] = 2 /\ ck.pc = "post"]_vars
  <2> SUFFICES ASSUME NEW r \in Rels, First(r) \in exist, First(r) \notin exist', Next
               PROVE  dropAge[r] = 2 /\ ck.pc = "post"
    BY <1>1
  <2>1. CASE mdpostckpt
    <3>1. /\ ck.pc = "post" /\ tab.unlinks # <<>>
          /\ Head(tab.unlinks).cycle_ctr # tab.mdckpt_cycle_ctr
          /\ First(r) = First(Head(tab.unlinks).rel)
      BY <2>1 DEF mdpostckpt
    <3>2. r = Head(tab.unlinks).rel
      BY <3>1 DEF First
    <3> QED
      BY <1>1, <3>1, <3>2, RemovesFirst
  <2>2. CASE \E s \in Rels : mdunlink(s)
    <3>1. PICK s \in Rels : exist' = exist \/ exist' = exist \ (FilesOf(s) \ {First(s)})
      BY <2>2 DEF mdunlink
    <3>2. First(r) \in FilesOf(s) => r = s
      BY DEF FilesOf, First
    <3> QED
      BY <3>1, <3>2
  <2>3. ASSUME ~mdpostckpt, ~\E s \in Rels : mdunlink(s) PROVE exist' = exist
    BY <2>3 DEF Next, Checkpointer, mdsync, ScanFork, SyncSegment, ScanFails, FinishEntry,
       CheckpointSucceeds, WriteFails, BufferSync, ScanEntry, mdpreckpt, RedoPoint, MarkBuffers, Absorb,
       Change, BackendWrite, RegisterDirtySegment, DropRelation, backendVars
  <2> QED
    BY <2>1, <2>2, <2>3
<1> QED
  BY <1>1, Invariance, PTL DEF Spec, FirstFileOutlivesCheckpoint
-----------------------------------------------------------------------------
(* Why a checkpoint ends.                                                  *)

\* The scan has gone on: to an entry it still had to do, to the end of the entry
\* it was at, to that entry's next fork, or past a segment of the fork.
Further ==
    \/ /\ ck.cur = NoRel
       /\ ck'.todo \subseteq ck.todo /\ ck'.todo # ck.todo
    \/ /\ ck.cur # NoRel /\ ck'.todo = ck.todo
       /\ \/ ck'.cur = NoRel
          \/ ck'.cur = ck.cur /\ ck'.fork = ck.fork + 1
          \/ /\ ck'.cur = ck.cur /\ ck'.fork = ck.fork
             /\ ck'.scan \subseteq ck.scan /\ ck'.scan # ck.scan

\* Nobody gives a checkpoint that is running more to do.
NeverMoreToDo ==
    [][/\ ck.pc = "write" /\ ck'.pc = "write" => ck'.need \subseteq ck.need
       /\ ck.pc = "scan" /\ ck'.pc = "scan" => ck' = ck \/ Further]_vars

\* Backends only take marks away, and the requests they queue are not in the scan.
LEMMA CleanShrinks ==
    ASSUME IInv, NEW fs, Clean(fs)
    PROVE  /\ ck'.need \subseteq ck.need /\ ck'.pc = ck.pc
           /\ ck.pc = "scan" => ck' = ck
<1>1. ck' = [ck EXCEPT !.need = ck.need \ fs] /\ ck \in CkType
  BY Expand DEF Clean
<1>2. ck'.need = ck.need \ fs /\ ck'.pc = ck.pc
  BY <1>1 DEF CkType
<1>3. ASSUME ck.pc = "scan" PROVE ck' = ck
  <2>1. ck.need \ fs = ck.need
    BY <1>3, Expand DEF Places
  <2> QED
    BY <1>1, <2>1 DEF CkType
<1> QED
  BY <1>2, <1>3

\* The scan takes up an entry only if it was in the table when mdsync began.
LEMMA ScanEntryFurther ==
    ASSUME IInv, NEW r \in Rels, ScanEntry(r)
    PROVE  ck.pc = "scan" /\ (ck' = ck \/ Further)
<1>1. /\ ck.pc = "scan" /\ ck.cur = NoRel /\ r \in DOMAIN tab.pending /\ ck \in CkType
  BY Expand DEF ScanEntry
<1>2. CASE r \in ck.todo
  <2>1. ck'.todo = ck.todo \ {r}
    BY <1>1 DEF ScanEntry, CkType
  <2> QED
    BY <1>1, <1>2, <2>1 DEF Further
<1>3. CASE r \notin ck.todo
  <2>1. tab.pending[r].cycle_ctr = tab.mdsync_cycle_ctr
    BY <1>1, <1>3, Expand DEF Cycles
  <2>2. ck' = [ck EXCEPT !.todo = ck.todo \ {r}] /\ ck.todo \ {r} = ck.todo
    BY <1>3, <2>1 DEF ScanEntry
  <2> QED
    BY <1>1, <2>2 DEF CkType
<1> QED
  BY <1>1, <1>2, <1>3

LEMMA ScanForkFurther == ASSUME IInv, ScanFork PROVE Further
<1>1. /\ ck.cur # NoRel /\ ck \in CkType
      /\ ck' = [ck EXCEPT !.scan = tab.pending[ck.cur].requests[ck.fork],
                          !.fork = ck.fork + 1]
  BY Expand DEF ScanFork
<1>2. ck'.cur = ck.cur /\ ck'.todo = ck.todo /\ ck'.fork = ck.fork + 1
  BY <1>1 DEF CkType
<1> QED
  BY <1>1, <1>2 DEF Further

LEMMA FinishEntryFurther == ASSUME IInv, FinishEntry PROVE Further
<1>1. ck.cur # NoRel /\ ck \in CkType /\ ck' = [ck EXCEPT !.cur = NoRel, !.fork = 0]
  BY Expand DEF FinishEntry
<1>2. ck'.cur = NoRel /\ ck'.todo = ck.todo
  BY <1>1 DEF CkType
<1> QED
  BY <1>1, <1>2 DEF Further

\* A segment is passed, be it synced or cancelled; it is never tried again.
LEMMA SyncSegmentFurther ==
    ASSUME IInv, SyncSegment, ck'.pc = "scan"
    PROVE  Further
<1>1. ck.scan # {} /\ ck.failures = 0 /\ ck.cur # NoRel /\ ck \in CkType
  BY Expand DEF SyncSegment, Places
<1>2. Current.seg \in ck.scan
  BY <1>1, Expand, CurrentFile
<1>3. ck'.failures = 0
  BY SyncSegmentStep, Expand DEF IInv, Places
<1>4. ~(ck' = Idle)
  BY DEF Idle
<1>5. ck' # [ck EXCEPT !.failures = 1]
  BY <1>1, <1>3 DEF CkType
<1>6. ck' = Passed
  BY <1>1, <1>4, <1>5 DEF SyncSegment, ScanFails
<1> DEFINE n == Current.seg
<1>7. ck' = [ck EXCEPT !.scan = ck.scan \ {n}, !.failures = 0]
  BY <1>6 DEF Passed
<1>8. n \in ck.scan
  BY <1>2
<1> HIDE DEF n
<1>9. /\ ck'.cur = ck.cur /\ ck'.todo = ck.todo /\ ck'.fork = ck.fork
      /\ ck'.scan = ck.scan \ {n}
  BY <1>1, <1>7 DEF CkType
<1> QED
  BY <1>1, <1>8, <1>9 DEF Further

(***************************************************************************)
(* Once BufferSync has marked its buffers, no backend gives it more to     *)
(* write or to sync: BufferSync's marks only go, and every step of         *)
(* mdsync's scan brings it further, to an entry that was in the table when *)
(* it began, past a fork or past a segment.  It comes to each entry once   *)
(* and to each segment of a fork once, so that with finitely many of them  *)
(* it ends, however fast requests arrive.                                  *)
(***************************************************************************)
THEOREM CheckpointsGetNoMoreToDo == Spec => NeverMoreToDo
<1>1. ASSUME IInv, [Next]_vars
      PROVE  [/\ ck.pc = "write" /\ ck'.pc = "write" => ck'.need \subseteq ck.need
              /\ ck.pc = "scan" /\ ck'.pc = "scan" => ck' = ck \/ Further]_vars
  <2> SUFFICES ASSUME Next
               PROVE  /\ ck.pc = "write" /\ ck'.pc = "write" => ck'.need \subseteq ck.need
                      /\ ck.pc = "scan" /\ ck'.pc = "scan" => ck' = ck \/ Further
    BY <1>1
  <2> USE <1>1
  <2>1. CASE \E r \in Rels : ScanEntry(r)
    BY <2>1, ScanEntryFurther
  <2>2. CASE ScanFork
    <3>1. ck.pc = "scan"
      BY <2>2, Expand DEF ScanFork, Places
    <3> QED
      BY <2>2, <3>1, ScanForkFurther
  <2>3. CASE FinishEntry
    <3>1. ck.pc = "scan"
      BY <2>3, Expand DEF FinishEntry, Places
    <3> QED
      BY <2>3, <3>1, FinishEntryFurther
  <2>4. CASE SyncSegment
    <3>1. ck.pc = "scan"
      BY <2>4, Expand DEF SyncSegment, Places
    <3> QED
      BY <2>4, <3>1, SyncSegmentFurther
  <2>5. CASE mdsync \/ WriteFails
    <3>1. ck.pc = "write" /\ ck'.pc # "write"
      BY <2>5, Expand DEF mdsync, WriteFails, Idle, CkType
    <3> QED
      BY <3>1
  <2>6. CASE mdpreckpt \/ RedoPoint \/ MarkBuffers \/ mdpostckpt
    BY <2>6 DEF mdpreckpt, RedoPoint, MarkBuffers, mdpostckpt
  <2>7. CASE CheckpointSucceeds
    <3>1. ck.pc = "scan" /\ ck'.pc = "post"
      BY <2>7, Expand DEF CheckpointSucceeds, CkType
    <3> QED
      BY <3>1
  <2>8. CASE \E fs : Clean(fs)
    BY <2>8, CleanShrinks
  <2>9. CASE UNCHANGED ck
    BY <2>9
  <2>10. CASE \E f \in Files : BufferSync(f)
    BY <2>8, <2>10 DEF BufferSync
  <2>11. CASE \E f \in Files : RegisterDirtySegment(f)
    BY <2>8, <2>9, <2>11 DEF RegisterDirtySegment
  <2>12. CASE \E r \in Rels : DropRelation(r)
    BY <2>8, <2>12 DEF DropRelation
  <2>13. CASE \/ Absorb \/ \E f \in Files : Change(f) \/ BackendWrite(f)
              \/ \E r \in Rels : mdunlink(r)
    BY <2>9, <2>13 DEF Absorb, Change, BackendWrite, mdunlink
  <2> QED
    BY <2>1, <2>2, <2>3, <2>4, <2>5, <2>6, <2>7, <2>10, <2>11, <2>12, <2>13
       DEF Next, Checkpointer
<1> QED
  BY <1>1, Invariance, PTL DEF Spec, NeverMoreToDo
=============================================================================
