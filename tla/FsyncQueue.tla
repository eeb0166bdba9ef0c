----------------------------- MODULE FsyncQueue -----------------------------
(***************************************************************************)
(* How the bundled PostgreSQL gets the pages its processes wrote to disk:  *)
(* backends write pages and queue fsync requests in shared memory, and the *)
(* checkpointer absorbs the queue into a private table, which mdsync works *)
(* off in every checkpoint.  Dropping a relation cancels its requests and  *)
(* leaves its first file for the next checkpoint to remove.                *)
(*                                                                         *)
(* One page per segment file stands for all of them.  The checkpointer is  *)
(* running, fsync is on, and there is one database, which is not dropped.  *)
(***************************************************************************)
EXTENDS Integers, Sequences

CONSTANTS
    Rels,          \* relations
    MaxFork,       \* MAX_FORKNUM
    Segnos,        \* segment numbers, 0 among them
    MaxRequests,   \* max_requests
    CtrWidth,      \* a CycleCtr counts modulo this (2^16 in the code)
    Errors,        \* whether reads and writes and fsyncs may fail
    NoRel

Forks == 0 .. MaxFork
MAIN_FORKNUM == 0
InvalidForkNumber == -1
FORGET_RELATION_FSYNC == -1
UNLINK_RELATION_REQUEST == -2

Files == [rel : Rels, fork : Forks, seg : Segnos]
First(r) == [rel |-> r, fork |-> MAIN_FORKNUM, seg |-> 0]
FilesOf(r) == {f \in Files : f.rel = r}

ASSUME ConstantsAssumption ==
    /\ MaxFork \in Nat /\ Segnos \subseteq Nat /\ 0 \in Segnos
    /\ MaxRequests \in Nat \ {0} /\ CtrWidth \in Nat \ {0, 1}
    /\ Errors \in BOOLEAN /\ NoRel \notin Rels

(***************************************************************************)
(* The levels of mem and os are 0 (nothing), 1 (a change made since the    *)
(* last checkpoint began) and 2 (one made before): mem[f] is about the     *)
(* page's buffer, which is dirty when it is not 0, and os[f] about what    *)
(* has been written to f and not been synced since, except for what a      *)
(* failed mdsync has forfeited.                                            *)
(***************************************************************************)
VARIABLES
    mem, os,     \* where the changes are that are not on disk
    io,          \* the files a backend has written but not yet registered
    queue,       \* CheckpointerShmem->requests
    drop,        \* how far the drop of a relation is
    exist,       \* the files that exist
    tab,         \* the checkpointer's tables and counters
    ck,          \* where the checkpointer is; ck.need: BM_CHECKPOINT_NEEDED
    dropAge,     \* history: 1 dropped, 2 dropped before the last checkpoint began
    spurious     \* history: a checkpoint failed because a file was dropped

backendVars == <<io, queue, drop, exist>>
data == <<mem, os>>
history == <<dropAge, spurious>>
vars == <<data, backendVars, tab, ck, history>>

Requests ==
    Files \cup [rel : Rels, fork : {InvalidForkNumber}, seg : {FORGET_RELATION_FSYNC}]
          \cup [rel : Rels, fork : {MAIN_FORKNUM}, seg : {UNLINK_RELATION_REQUEST}]
Ctr == 0 .. CtrWidth - 1
Entries == [cycle_ctr : Ctr, requests : [Forks -> SUBSET Segnos],
            canceled : [Forks -> BOOLEAN]]
Tables == [pending : UNION {[known -> Entries] : known \in SUBSET Rels},
           unlinks : Seq([rel : Rels, cycle_ctr : Ctr]),
           mdsync_cycle_ctr : Ctr, mdckpt_cycle_ctr : Ctr,
           mdsync_in_progress : BOOLEAN]
Idle == [pc |-> "idle", need |-> {}, todo |-> {}, cur |-> NoRel, fork |-> 0,
         scan |-> {}, failures |-> 0]

TypeOK ==
    /\ mem \in [Files -> 0 .. 2] /\ os \in [Files -> 0 .. 2] /\ io \subseteq Files
    /\ queue \in Seq(Requests) /\ Len(queue) <= MaxRequests
    /\ drop \in [Rels -> {"live", "dropped", "forgotten", "registered", "done"}]
    /\ exist \subseteq Files /\ tab \in Tables
    /\ ck \in [pc : {"idle", "pre", "redo", "write", "scan", "post"}, need : SUBSET Files,
               todo : SUBSET Rels, cur : Rels \cup {NoRel},
               fork : 0 .. MaxFork + 1, scan : SUBSET Segnos, failures : 0 .. 1]
    /\ dropAge \in [Rels -> 0 .. 2] /\ spurious \in BOOLEAN

Init ==
    /\ mem = [f \in Files |-> 0] /\ os = mem /\ io = {} /\ queue = <<>>
    /\ drop = [r \in Rels |-> "live"] /\ exist = Files
    /\ tab = [pending |-> <<>>, unlinks |-> <<>>, mdsync_cycle_ctr |-> 0,
              mdckpt_cycle_ctr |-> 0, mdsync_in_progress |-> FALSE]
    /\ ck = Idle
    /\ dropAge = [r \in Rels |-> 0] /\ spurious = FALSE

-----------------------------------------------------------------------------
(* The request queue.                                                      *)

\* The requests that no later request repeats.
CompactCheckpointerRequestQueue(q) ==
    LET kept[n \in 0 .. Len(q)] ==
          IF n = 0 THEN <<>>
          ELSE IF \E j \in n + 1 .. Len(q) : q[j] = q[n]
                 THEN kept[n - 1] ELSE Append(kept[n - 1], q[n])
    IN  kept[Len(q)]

\* The queue a request is added to, if there is room for it.
Room(q) == IF Len(q) < MaxRequests THEN q ELSE CompactCheckpointerRequestQueue(q)

\* ForwardFsyncRequest when it returns true.
ForwardFsyncRequest(req) ==
    /\ Len(Room(queue)) < MaxRequests
    /\ queue' = Append(Room(queue), req)

QueueFull == Len(Room(queue)) >= MaxRequests

-----------------------------------------------------------------------------
(* The checkpointer's table.                                               *)

NewEntry(t) == [cycle_ctr |-> t.mdsync_cycle_ctr,
                requests |-> [k \in Forks |-> {}],
                canceled |-> [k \in Forks |-> FALSE]]

(***************************************************************************)
(* A request for a relation that is known does not change its entry's      *)
(* cycle_ctr, which is that of the oldest request in it.                   *)
(***************************************************************************)
RememberFsyncRequest(t, req) ==
    LET known == req.rel \in DOMAIN t.pending
        old == IF known THEN t.pending[req.rel] ELSE NewEntry(t)
        new == IF req.seg = FORGET_RELATION_FSYNC
                 THEN [old EXCEPT !.requests = [k \in Forks |-> {}],
                                  !.canceled = [k \in Forks |-> TRUE]]
                 ELSE [old EXCEPT !.requests[req.fork] = @ \cup {req.seg}]
    IN  CASE req.seg = UNLINK_RELATION_REQUEST ->
               [t EXCEPT !.unlinks = Append(@, [rel |-> req.rel,
                                                cycle_ctr |-> t.mdckpt_cycle_ctr])]
          [] req.seg = FORGET_RELATION_FSYNC /\ ~known -> t
          [] OTHER -> [t EXCEPT !.pending =
                         [r \in DOMAIN @ \cup {req.rel} |->
                            IF r = req.rel THEN new ELSE @[r]]]

\* AbsorbFsyncRequests: the table with all of the queue in it.
Absorbed ==
    LET after[n \in 0 .. Len(queue)] ==
          IF n = 0 THEN tab ELSE RememberFsyncRequest(after[n - 1], queue[n])
    IN  after[Len(queue)]

-----------------------------------------------------------------------------
(* Backends.                                                               *)

Raise(m, f, l) == [m EXCEPT ![f] = IF l > @ THEN l ELSE @]

\* TerminateBufferIO, InvalidateBuffer: the flags of the buffers are cleared.
Clean(fs) ==
    /\ mem' = [f \in Files |-> IF f \in fs THEN 0 ELSE mem[f]]
    /\ ck' = [ck EXCEPT !.need = @ \ fs]

\* A sync of f that works: all that was written to f is on disk.
FileSync(f) == os' = [os EXCEPT ![f] = 0]

\* A page is changed; its lock keeps it from changing while it is written.
Change(f) ==
    /\ drop[f.rel] = "live" /\ f \notin io
    /\ mem' = Raise(mem, f, 1)
    /\ UNCHANGED <<os, backendVars, tab, ck, history>>

\* Mutant: the buffer is taken for clean once the page is written.
BackendWriteClean(f) ==
    /\ mem[f] > 0 /\ f \notin io
    /\ os' = Raise(os, f, mem[f])
    /\ io' = io \cup {f} /\ mem' = [mem EXCEPT ![f] = 0]
    /\ UNCHANGED <<queue, drop, exist, tab, ck, history>>

\* FlushBuffer in a backend, up to mdwrite's write.  The buffer stays dirty.
BackendWrite(f) ==
    /\ mem[f] > 0 /\ f \notin io
    /\ os' = Raise(os, f, mem[f])
    /\ io' = io \cup {f}
    /\ UNCHANGED <<mem, queue, drop, exist, tab, ck, history>>

(***************************************************************************)
(* register_dirty_segment and the end of FlushBuffer: the request is       *)
(* queued, or the backend syncs the file itself.  When that fails the      *)
(* buffer stays dirty.                                                     *)
(***************************************************************************)
RegisterDirtySegment(f) ==
    /\ f \in io /\ io' = io \ {f}
    /\ \/ ForwardFsyncRequest(f) /\ Clean({f}) /\ UNCHANGED os
       \/ QueueFull /\ FileSync(f) /\ Clean({f}) /\ UNCHANGED queue
       \/ QueueFull /\ Errors /\ UNCHANGED <<data, queue, ck>>
    /\ UNCHANGED <<drop, exist, tab, history>>

\* smgrdounlink after the commit of a drop: its buffers go first, when nobody
\* is writing them any more.
DropRelation(r) ==
    /\ drop[r] = "live" /\ FilesOf(r) \cap io = {}
    /\ drop' = [drop EXCEPT ![r] = "dropped"]
    /\ Clean(FilesOf(r))
    /\ os' = [f \in Files |-> IF f.rel = r THEN 0 ELSE os[f]]
    /\ dropAge' = [dropAge EXCEPT ![r] = 1]
    /\ UNCHANGED <<io, queue, exist, tab, spurious>>

\* Mutant: the files are removed before the requests are cancelled.
mdunlinkLate(r) ==
    /\ \/ /\ drop[r] = "dropped"
          /\ drop' = [drop EXCEPT ![r] = "forgotten"]
          /\ exist' = exist \ (FilesOf(r) \ {First(r)})
          /\ UNCHANGED queue
       \/ /\ drop[r] = "forgotten"
          /\ ForwardFsyncRequest([rel |-> r, fork |-> InvalidForkNumber,
                                  seg |-> FORGET_RELATION_FSYNC])
          /\ drop' = [drop EXCEPT ![r] = "registered"]
          /\ UNCHANGED exist
    /\ UNCHANGED <<data, io, tab, ck, history>>

(***************************************************************************)
(* mdunlink: cancel the requests, truncate the first file (which stays),   *)
(* ask for its removal, and remove the others.  A full queue makes it      *)
(* wait.                                                                   *)
(***************************************************************************)
mdunlink(r) ==
    /\ \/ /\ drop[r] = "dropped"
          /\ ForwardFsyncRequest([rel |-> r, fork |-> InvalidForkNumber,
                                  seg |-> FORGET_RELATION_FSYNC])
          /\ drop' = [drop EXCEPT ![r] = "forgotten"]
          /\ UNCHANGED exist
       \/ /\ drop[r] = "forgotten"
          /\ ForwardFsyncRequest([rel |-> r, fork |-> MAIN_FORKNUM,
                                  seg |-> UNLINK_RELATION_REQUEST])
          /\ drop' = [drop EXCEPT ![r] = "registered"]
          /\ UNCHANGED exist
       \/ /\ drop[r] = "registered"
          /\ drop' = [drop EXCEPT ![r] = "done"]
          /\ exist' = exist \ (FilesOf(r) \ {First(r)})
          /\ UNCHANGED queue
    /\ UNCHANGED <<data, io, tab, ck, history>>

-----------------------------------------------------------------------------
(* The checkpointer.                                                       *)

\* AbsorbFsyncRequests in the main loop, between writes and between syncs.
Absorb ==
    /\ queue # <<>> /\ (ck.pc = "scan" => ck.scan # {})
    /\ tab' = Absorbed /\ queue' = <<>>
    /\ UNCHANGED <<data, io, drop, exist, ck, history>>

NextCkpt(t) == [t EXCEPT !.mdckpt_cycle_ctr = (@ + 1) % CtrWidth]
Dirty == {f \in Files : mem[f] > 0}

\* Mutant: the cycle is counted only when the redo point has been taken.
mdpreckptLate ==
    /\ \/ /\ ck.pc = "idle"
          /\ ck' = [ck EXCEPT !.pc = "pre"] /\ UNCHANGED tab
       \/ /\ ck.pc = "redo"
          /\ ck' = [ck EXCEPT !.pc = "write", !.need = @ \cup Dirty]
          /\ tab' = NextCkpt(tab)
    /\ UNCHANGED <<data, backendVars, history>>

\* CreateCheckPoint begins: requests for removals count for the next cycle
\* from now on.
mdpreckpt ==
    /\ ck.pc = "idle"
    /\ ck' = [ck EXCEPT !.pc = "pre"]
    /\ tab' = NextCkpt(tab)
    /\ UNCHANGED <<data, backendVars, history>>

Older(m) == [x \in DOMAIN m |-> IF m[x] > 0 THEN 2 ELSE 0]

\* The redo point: all changes so far are older than the checkpoint.
RedoPoint ==
    /\ ck.pc = "pre"
    /\ ck' = [ck EXCEPT !.pc = "redo"]
    /\ mem' = Older(mem) /\ os' = Older(os) /\ dropAge' = Older(dropAge)
    /\ UNCHANGED <<backendVars, tab, spurious>>

\* BufferSync's first pass: the buffers that are dirty by now are marked.
MarkBuffers ==
    /\ ck.pc = "redo"
    /\ ck' = [ck EXCEPT !.pc = "write", !.need = @ \cup Dirty]
    /\ UNCHANGED <<data, backendVars, tab, history>>

\* BufferSync's second pass for a buffer that still has the mark; one that a
\* backend is writing is waited for.
BufferSync(f) ==
    /\ ck.pc = "write" /\ f \in ck.need /\ f \notin io
    /\ Clean({f})
    /\ os' = Raise(os, f, mem[f])
    /\ tab' = RememberFsyncRequest(tab, f)
    /\ UNCHANGED <<backendVars, history>>

\* An error in the write phase ends the checkpoint; the marks stay.
WriteFails ==
    /\ Errors /\ ck.pc = "write" /\ ck.need # {}
    /\ ck' = [ck EXCEPT !.pc = "idle"]
    /\ UNCHANGED <<data, backendVars, tab, history>>

\* mdsync up to its scan of the table.
mdsync ==
    /\ ck.pc = "write" /\ ck.need = {}
    /\ queue' = <<>>
    /\ tab' = [Absorbed EXCEPT
                 !.pending = [r \in DOMAIN @ |->
                    IF tab.mdsync_in_progress
                      THEN [@[r] EXCEPT !.cycle_ctr = tab.mdsync_cycle_ctr]
                      ELSE @[r]],
                 !.mdsync_cycle_ctr = (@ + 1) % CtrWidth,
                 !.mdsync_in_progress = TRUE]
    /\ ck' = [Idle EXCEPT !.pc = "scan", !.todo = DOMAIN Absorbed.pending]
    /\ UNCHANGED <<data, io, drop, exist, history>>

\* Mutant: new entries are worked off as well.
ScanEntryAny(r) ==
    /\ ck.pc = "scan" /\ ck.cur = NoRel /\ r \in DOMAIN tab.pending
    /\ ck' = [ck EXCEPT !.todo = @ \ {r}, !.cur = r, !.fork = 0]
    /\ UNCHANGED <<data, backendVars, tab, history>>

(***************************************************************************)
(* The scan reaches an entry: any that was there when it began and perhaps *)
(* one that was added since.  A new one is passed over.                    *)
(***************************************************************************)
ScanEntry(r) ==
    /\ ck.pc = "scan" /\ ck.cur = NoRel /\ r \in DOMAIN tab.pending
    /\ ck' = IF tab.pending[r].cycle_ctr = tab.mdsync_cycle_ctr
               THEN [ck EXCEPT !.todo = @ \ {r}]
               ELSE [ck EXCEPT !.todo = @ \ {r}, !.cur = r, !.fork = 0]
    /\ UNCHANGED <<data, backendVars, tab, history>>

\* The requests for the next fork are unlinked from the entry.
ScanFork ==
    /\ ck.cur # NoRel /\ ck.scan = {} /\ ck.fork <= MaxFork
    /\ ck' = [ck EXCEPT !.scan = tab.pending[ck.cur].requests[ck.fork],
                        !.fork = @ + 1]
    /\ tab' = [tab EXCEPT !.pending[ck.cur] =
                  [@ EXCEPT !.requests[ck.fork] = {}, !.canceled[ck.fork] = FALSE]]
    /\ UNCHANGED <<data, backendVars, history>>

\* The segment mdsync is at, the first member of the requests it unlinked.
Current == [rel |-> ck.cur, fork |-> ck.fork - 1,
            seg |-> CHOOSE n \in ck.scan : \A m \in ck.scan : n <= m]

Passed == [ck EXCEPT !.scan = @ \ {Current.seg}, !.failures = 0]

\* A request for f is on its way, or came while mdsync was at the last one.
AskedAgain(f) ==
    \/ \E i \in DOMAIN queue : queue[i] = f
    \/ f.seg \in tab.pending[f.rel].requests[f.fork]

(***************************************************************************)
(* The ERROR: what was unlinked from the entry is not put back, and what   *)
(* was written to a file that nobody has asked for again is forfeited, but *)
(* for a write that is not yet registered.                                 *)
(***************************************************************************)
ScanFails(dropped) ==
    LET lost == {f \in FilesOf(ck.cur) : /\ f.fork = ck.fork - 1 /\ f.seg \in ck.scan
                                         /\ ~AskedAgain(f)}
        left(f) == IF f \in io THEN mem[f] ELSE 0
    IN  /\ ck' = Idle
        /\ os' = [f \in Files |-> IF f \in lost THEN left(f) ELSE os[f]]
        /\ spurious' = (spurious \/ dropped)
        /\ UNCHANGED <<mem, backendVars, tab, dropAge>>

(***************************************************************************)
(* One attempt to sync the current segment.  If the file is missing, the   *)
(* requests absorbed next should cancel it; if they do not, the second     *)
(* attempt fails for good.                                                 *)
(***************************************************************************)
SyncSegment ==
    /\ ck.scan # {}
    /\ \/ /\ Current \in exist
          /\ FileSync(Current) /\ ck' = Passed
          /\ UNCHANGED <<mem, backendVars, tab, history>>
       \/ Current \in exist /\ Errors /\ ScanFails(FALSE)
       \/ /\ Current \notin exist /\ ck.failures = 0
          /\ tab' = Absorbed /\ queue' = <<>>
          /\ ck' = IF tab'.pending[ck.cur].canceled[ck.fork - 1]
                     THEN Passed ELSE [ck EXCEPT !.failures = 1]
          /\ UNCHANGED <<data, io, drop, exist, history>>
       \/ Current \notin exist /\ ck.failures = 1 /\ ScanFails(TRUE)

\* All forks are done: the entry goes, or what is in it is for the next time.
FinishEntry ==
    /\ ck.cur # NoRel /\ ck.scan = {} /\ ck.fork > MaxFork
    /\ ck' = [ck EXCEPT !.cur = NoRel, !.fork = 0]
    /\ tab' = [tab EXCEPT !.pending =
         IF \E k \in Forks : @[ck.cur].requests[k] # {}
           THEN [@ EXCEPT ![ck.cur].cycle_ctr = tab.mdsync_cycle_ctr]
           ELSE [r \in DOMAIN @ \ {ck.cur} |-> @[r]]]
    /\ UNCHANGED <<data, backendVars, history>>

\* mdsync returns, and the checkpoint is recorded in the log and pg_control.
CheckpointSucceeds ==
    /\ ck.pc = "scan" /\ ck.cur = NoRel /\ ck.todo = {}
    /\ ck' = [ck EXCEPT !.pc = "post"]
    /\ tab' = [tab EXCEPT !.mdsync_in_progress = FALSE]
    /\ UNCHANGED <<data, backendVars, history>>

\* mdpostckpt: one file, or the end.
mdpostckpt ==
    /\ ck.pc = "post"
    /\ IF tab.unlinks # <<>> /\ Head(tab.unlinks).cycle_ctr # tab.mdckpt_cycle_ctr
         THEN /\ exist' = exist \ {First(Head(tab.unlinks).rel)}
              /\ tab' = [tab EXCEPT !.unlinks = Tail(@)]
              /\ UNCHANGED ck
         ELSE ck' = Idle /\ UNCHANGED <<exist, tab>>
    /\ UNCHANGED <<data, io, queue, drop, history>>

Checkpointer ==
    \/ RedoPoint \/ MarkBuffers
    \/ mdsync \/ ScanFork \/ SyncSegment \/ FinishEntry
    \/ CheckpointSucceeds \/ mdpostckpt \/ WriteFails
    \/ \E f \in Files : BufferSync(f)
    \/ \E r \in Rels : ScanEntry(r)

Next ==
    \/ Checkpointer \/ mdpreckpt \/ Absorb
    \/ \E f \in Files : Change(f) \/ BackendWrite(f) \/ RegisterDirtySegment(f)
    \/ \E r \in Rels : DropRelation(r) \/ mdunlink(r)

Spec == Init /\ [][Next]_vars

(***************************************************************************)
(* The checkpointer goes on, and a backend that is writing a page finishes *)
(* doing so.                                                               *)
(***************************************************************************)
FairSpec ==
    /\ Spec /\ WF_vars(Checkpointer)
    /\ \A f \in Files : WF_vars(RegisterDirtySegment(f))

-----------------------------------------------------------------------------
(* Properties.                                                             *)

(***************************************************************************)
(* A checkpoint succeeds only when every change made before it began is on *)
(* disk, whoever wrote the page and however the request travelled.  One    *)
(* exception, which os does not count: the requests of a fork that mdsync  *)
(* had taken out of the table when one of its syncs failed are forgotten   *)
(* (ScanFails).  A failed checkpoint loses no other request, not even one  *)
(* for the same file that came later, and not if the cycle counter wraps   *)
(* around.                                                                 *)
(***************************************************************************)
DurableUnlessForfeited ==
    ck.pc = "post" => \A f \in Files : mem[f] < 2 /\ os[f] < 2

(***************************************************************************)
(* "Else assert we haven't missed it": an entry that mdsync works off is   *)
(* from the cycle before, also when earlier checkpoints failed halfway and *)
(* however often the counter has wrapped around.                           *)
(***************************************************************************)
NothingMissed ==
    ck.cur # NoRel =>
        (tab.pending[ck.cur].cycle_ctr + 1) % CtrWidth = tab.mdsync_cycle_ctr

(***************************************************************************)
(* Dropping a relation never makes a checkpoint fail: its requests are     *)
(* cancelled before its files go.                                          *)
(***************************************************************************)
DropsAreHarmless == ~spurious

(***************************************************************************)
(* The first file of a dropped relation, which keeps its number from being *)
(* used again, goes only after a checkpoint that began after the drop.     *)
(***************************************************************************)
FirstFileOutlivesCheckpoint ==
    [][\A r \in Rels : First(r) \in exist \ exist' =>
          dropAge[r] = 2 /\ ck.pc = "post"]_vars

(***************************************************************************)
(* Every checkpoint ends, however fast the backends go on writing: mdsync  *)
(* leaves what arrives meanwhile for the next one.                         *)
(***************************************************************************)
CheckpointEnds == ck.pc # "idle" ~> ck.pc = "idle"
=============================================================================
