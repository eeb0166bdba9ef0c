# A TLA+ model of Piecemaker2.app

Piecemaker2.app is a Mac OS X application that runs a local Piecemaker
installation: it sets up and starts a private PostgreSQL server in a data
directory of the user's choice, starts the Ruby API and an HTTP server for the
frontend, shows the frontend in a web view, and records video for it. The
application's own code is small and mostly sequential; what is hard about it is
that it drives processes that outlive it, over state on disk that outlives both.
It therefore rests on the bundled PostgreSQL 9.2.4 to start, to shut down and to
survive a kill, and the parts of PostgreSQL that do this are modelled too.

This directory holds TLA+ modules, TLC configurations, and proofs checked with
TLAPS. `PROJECT.json` relates every definition to the lines it models.

## Inventory of the system

| part | state | operations |
|---|---|---|
| `AppDelegate` | path control, user default `dataDir`, menu and window state | `pathUpdated`, `startingBtnClicked`, `start`, `ready`, `stop`, launch and termination |
| `Helper`, servers | three retry counters; `config.yml`; `postgresql.conf`; databases in the cluster | `createConfigYml`, `updatePostgresqlConf`, `postgresql`, `createDatabaseIfNotExist`, `api`, `frontendHttpServer`, `showAlert` |
| `Helper`, commands | an `NSTask` and its pipe | `runCommand`, `runCommandAndGetExitCode` |
| `RecorderController` | capture session, device, output, `_isRecording`, `currentFileName`, user default `recorder.device.id` | nib loading, `startRecorder`, `stopRecorder`, `isRecording`, closing the window |
| `ApiController` | the web view; user defaults; the directory of the movies | `PiecemakerBridge.recorder(start, stop, fetch)`, `PiecemakerBridge.settings(...)`, `resetIndexHtml` |
| `DeveloperController` | a web view and the recorder, as handed to it | buttons that run commands, start and stop recordings, reset the page |
| `pg_ctl` | `postmaster.pid`, the postmaster | `start -w`, `status`, `stop -w` |
| postmaster | `pmState`, `Shutdown`, `FatalError`, its children | `pmdie`, `reaper`, `HandleChildCrash`, `PostmasterStateMachine`, `ServerLoop`, forking |
| data directory interlock | `postmaster.pid`, the port, the old shared memory | `CreateLockFile`, `AddToDataDirLockFile`, `PGSharedMemoryIsInUse` |
| checkpoint requests | `ckpt_flags`, `ckpt_started`, `ckpt_done`, `ckpt_failed` | `RequestCheckpoint`, the checkpointer's main loop |
| fsync requests | the queue in shared memory; the pending-operations table of `md.c` | `ForwardFsyncRequest`, `AbsorbFsyncRequests`, `mdsync`, `mdunlink`, `mdpreckpt`, `mdpostckpt` |
| lightweight locks | `exclusive`, `shared`, `releaseOK`, the queue; one semaphore per process | `LWLockAcquire`, `LWLockConditionalAcquire`, `LWLockAcquireOrWait`, `LWLockRelease` |
| `app/api`, `app/frontend` | daemons, migrations | external (empty submodules) |

Interaction: `AppDelegate start` calls `Helper` step by step on the main thread,
so the user cannot interfere, but the application can be killed between any two
commands. An alert with `quit:TRUE` ends in `[NSApp terminate:]`, which runs
`stop` and exits; control never comes back to `start`. All clients reach the
database through port 50725, whichever directory its server belongs to. The
recorder is shared by the web page and the Developer window. `Helper` talks to
postmasters only through `pg_ctl`, that is through the pid file and signals.

Hard behaviours: crashes between the steps of the first start; postmasters,
their children and daemons of an earlier session; pid files that name a dead or
a foreign process; waits that time out (`pg_ctl -w`); retries through recursion;
commands that block on a pipe; recording requests before the recorder has been
loaded; shutdowns that meet crashes; requests that pass a checkpoint in
progress; full queues and wrapping counters; wakeups meant for somebody else.
The list with source lines is under `hazards` in `PROJECT.json`.

## Modules

**`PgServer`** - per data directory: how far the cluster is set up (`cluster`),
the postmaster (`pm`) and what its pid file names (`pidfile`). `PgCtlStart`,
`PgCtlStatus` and `PgCtlStopSignal` are the three uses of pg_ctl; the rest is
what postmasters and the machine do by themselves. `pg_ctl start -w` may return
at any moment after starting the postmaster (success, rejection after the wait,
no response), so the wait is not a state of its own. `PostmasterLife` and
`InterlockActs` collect what it assumes of one postmaster and of several starts
in one directory: they are the abstract specifications that `Postmaster` and
`LockFile` implement.

**`Launcher`** extends it with the application: one action per command that
`start` and `stop` run, in order; `pc` names the command about to be run. A
command either does what it should, fails, or has output that is not UTF-8, when
building its result raises and `start` is left (`"raised"`). `Verdict` is the
common "status, then again or reset the counter" of the three start methods;
`caller` is the return address of `[Helper api:@"start"]`, which the frontend's
failure path calls by mistake. `dataDir`, `configYml`, `db`, the clusters,
servers and daemons survive the application; `Crash` and `Reboot` may come
anywhere. `MCLauncher` adds the symmetry set.

**`ConfigFiles`** - `start` up to the API for several users of one machine, at
the same time or one after the other: what `createConfigYml` and
`updatePostgresqlConf` put into the two files, the role `initdb` makes, who gets
the one port, and the databases, whose rake tasks already need the settings.

**`DataDirPath`** - from the URL of the selected directory to the paths of the
cluster and of the movies: `PathOf` is the removal of the prefix and the
decoding of `%20` that five methods repeat, `Escape` what `NSURL` does to a name.
Replacing and joining are recursive functions over the length of the text, so
that they can be reasoned about.

**`RunCommand`** - one call of a Helper command method: main thread, shell, an
optional background process of the command and the bounded pipe between them.
Output is counted in chunks. All callers of `runCommand` wait for the exit.

**`Recorder`** - the controller the application holds: nib loading (`LoadWindow`,
the whole of `awakeFromNib`), device selection (`Chosen`; a device may be in use
by another program), the two recording methods, and QTKit's side as external
actions. File names are time stamps, here a counter.

**`Bridge`** composes it with its two clients: the page (`JsStart`, `JsStop`,
`JsFetch`, `JsSettings`), which may call what it likes, and the Developer window,
with quits, deaths and restarts of the application. A movie that is not finished
when the process ends is `"cut"`.

**`Postmaster`** - `s` is the postmaster's memory (state, flags, children, what
each was told). A signal handler or a turn of `ServerLoop` is one step, except
for `reaper`, whose loop (`ReapOne`) is interleaved with children dying;
`ReaperEnds` is its call of `PostmasterStateMachine`. Handlers are functions from
`s` to `s`, as in the code one calls the other. `recovering` is the flag in shared
memory that decides what the checkpointer does when it is told to end: a shutdown
checkpoint, or nothing while the log is still being replayed. The exits are told
apart by where they are in the code: `"normal"`, `"immediate"` (both status 0),
`"exit 1"`, `"killed"`. The configuration is the one `initdb` and the launcher
write.

**`LockFile`** - a start of a postmaster as the system calls it makes: create,
read, check, unlink, fill, bind, attach shared memory. Several starts may be
under way. Any postmaster may be killed between two calls; its pid may be given
away, its children stay (`orphans`). An immediate shutdown (`Quit`) exits without
waiting for its children (`quitting`). `stolen` records that a start has unlinked
another lock file than the one it had read.

**`CheckpointRequest`** - backends in `RequestCheckpoint` against the main loop
of the checkpointer; counters are modulo `W`. A backend that sleeps while many
checkpoints come and go would mistake one for another; `MaxLag` bounds this, as
2^31 checkpoints during one 100 ms sleep do not occur.

**`FsyncQueue`** - dirty pages of each file in shared memory (`mem`) and in the
kernel (`os`), aged by the checkpoint that has to write them; the queue, its
compaction, the table, drops, and a checkpoint through `mdpreckpt`, the redo
point, `BufferSync` (which marks buffers and then writes them), `mdsync` and
`mdpostckpt`. With `Errors` any fsync may fail.

**`LWLock`** - one lock, a process per step between two spinlock sections; the
semaphore is posted for other reasons too (`MaxBogus`).

Proofs are in `LauncherProofs`, `HelperProofs` (about `RunCommand` and
`DataDirPath`), `RecorderProofs` (also about `Bridge`), `PostmasterProofs`, `LockFileProofs`, `CheckpointRequestProofs`,
`FsyncQueueProofs` and `LWLockProofs`.

## Runs

| run | question | bounds | result |
|---|---|---|---|
| `launcher` | safety of start, stop, restart | two directories (one may have a leftover server while the other is started; they are symmetric), two databases (enough for an order), retry limit 1 | holds, 1 039 748 states |
| `launcher_live` | do start and quit end? | one directory, one database, retry limit 1 | holds, 3 912 states |
| `launcher_frontend` | ready implies a frontend | one directory | **violated** |
| `config_files` | are the settings in config.yml correct? | two users, one crash | **violated** |
| `run_command` | deadlock, lost output | pipe of 2 chunks, up to 4 written: the pipe can fill up twice | holds, 341 states |
| `bridge` | recordings of two clients through quits and restarts | a camera and a muxed device, two recordings, two directories | holds, 1 239 276 states |
| `data_dir_path` | is the conversion one-to-one and right? | all names of up to 3 of 6 characters (`%`, `2` and `0` among them, so that a name may spell an escape), one cluster against every other name | holds, 67 081 states |
| `postmaster` | shutdowns, crashes, implementation of `PgServer` | one client, one autovacuum worker, one dead_end child, one of the first two at a time, one crash; all special children | holds, 351 083 states |
| `lock_file` | do postmasters and orphans keep apart? | three postmasters, all of which may be starting at once (a third can come between two), three kills, one immediate shutdown | holds, 159 460 states |
| `checkpoint_request` | does a request learn what became of it? | two backends, two flags, counters modulo 4, lag 2: the counters wrap around | holds, 1 349 376 states |
| `fsync_queue` | is a checkpoint durable? | one relation with two forks, a queue of 2 (it is full at once), a cycle counter modulo 3 (it wraps around, and a missed cycle is told from the one before), failing syncs | holds, 479 601 states |
| `lwlock` | exclusion, lost wakeups | three processes with any kind of call, one foreign wakeup | holds, 109 219 states |

What the properties say is in the comments before them. Most have an exception
that is itself a result:

* `SelectedDirServes`, `OnlySelectedWritten` (`Unsound`): if the application was
  killed between `initdb` and `updatePostgresqlConf`, or the pid file's number
  has been taken by another process, `pg_ctl status` succeeds for a directory
  that does not serve port 50725, and a server left over from another directory
  would be used in its place.
* `ApiFindsDatabases` promises databases, not tables, although `AppDelegate.m:196`
  says "see if tables exist? ... and create if not": a migration that failed or
  was interrupted once is never repeated.
* `BridgeNoHiddenRecording` is not an equivalence: `_isRecording` is set even
  when no output exists (`RecorderController.m:176`), and stays set when QTKit
  gives a recording up. `startRecorder` then logs "already recording" about a
  file nobody writes.
* `GivenIsListed`: the page may be given the name of a recording that the
  Developer window began before the data directory was settled, or move
  `dataDir` itself. It is about the place of the file, not about whether one is
  ever written: a name is given out even when there is no output.
* `PlainInSelectedDir`: a percent sign or a non-ASCII character in the
  directory's name puts cluster and movies into a new directory with the escaped
  name, although the repository's README says "The location of the data
  directory doesn't matter." `OwnCluster` shows that at least no two directories
  share a cluster. Both are about URLs that end in a slash, as those of the path
  control do; without it, `startRecorder`, which appends `mov`, and `fetch`, which
  appends `/mov`, would disagree.
* `DurableUnlessForfeited`: `mdsync` takes the requests of a fork out of the
  table (`md.c:1078`) before it syncs them. If one sync fails, the others are
  forgotten, and the next checkpoint succeeds without them. The exception is made
  where it arises, in `ScanFails`: what was written to the forgotten files no
  longer counts in `os`, unless somebody has asked for the file again or is about
  to. The property therefore shows that nothing else is lost.
* `ExclusiveUnlessStolen`: `postmaster.c:1108` takes it that "there can be no other
  Postgres processes running in this directory" (`Exclusive`). Two postmasters are
  indeed never up at once, but children of a killed one may be left if some start
  has unlinked a lock file that was no longer the one it had read (`stolen`):
  `CreateLockFile` judges the file by what it has read and unlinks it by its name
  (`miscinit.c:873`). For example, a start reads the file of another before the
  shared memory key is in it; that one comes up and is killed, and its children
  are not looked for. Or a file made anew in place of a stale one that both have
  read is unlinked. It takes two starts at the same time, that is `pg_ctl`'s five
  seconds without a pid file (`pg_ctl.c:619`), after which the launcher starts
  another postmaster. Nor does the property count the children that an immediate
  shutdown leaves behind, having removed the lock file (`postmaster.c:2241-2258`);
  the launcher does not use this mode. Checking `Exclusive` in place of it shows
  the second case, and the first with `MaxQuits = 0`. `LockTruth` and the
  refinement of `LockFile` end with the first theft as well.
* `CleanExit` is about the normal exit (`postmaster.c:3113`). A shutdown that
  arrives during recovery ends there too, with status 0 and no checkpoint, as
  `ShutdownXLOG` makes at most a restartpoint then (`xlog.c:7781`).
  `RecoveryAlone` is what makes this harmless: nobody has written anything since.
  An immediate shutdown also has status 0 and promises nothing.
* The postmaster's comment that `FatalError` is never true in PM_SHUTDOWN states
  (`postmaster.c:266`) does not hold in `PM_SHUTDOWN_2`: a dead_end child that
  crashes there sets it without leaving the state, and a shutdown whose
  checkpoint is complete ends with exit status 1.

The violations:

* `launcher_frontend`: `Helper.m:219` calls `api` instead of
  `frontendHttpServer`. A frontend that fails to start is tried once, the API is
  started again, and the application becomes ready with no frontend; alert
  "Unable to start HTTP Server." is unreachable.
* `config_files`: `AppDelegate.m:147` wants the settings to be correct, but only
  the existence of `config.yml` is checked. It is one file of the installation
  and names one user; another user's cluster has no such role. Two users who
  start at the same time both find it missing and write it one over the other.
  One after the other, the second is stopped by alert 503 at each of the three
  databases, which exist from then on and are not looked at again; the fourth
  start gets to the API with the first user's role.

`QuitTerminates` holds only because pg_ctl stops waiting: an API that survives
`daemon[stop]` keeps the server in its smart shutdown, the application ends, and
the next start finds a server that rejects connections (alert 502) until that
API is gone. This is the situation in which the repository's README advises to
"kill all ruby and postgres processes". `SmartStops` says the same from the
other side: the smart shutdown ends once the clients have gone.

Refinement: in `postmaster` and `lock_file` the property `ImplementsPgServer` is
`PG!PostmasterLife`, and `PG!NeverStarted` with steps of `PG!InterlockActs` until
a lock file is stolen: `PgServer` instantiated with `pm` and `pidfile` computed
from the state machine and from the processes and the lock file. What `Launcher` assumes of a postmaster is thereby what the code does: the
many steps of a start are one `PgCtlStart`, and everything else one of
`PostmasterActs` or a stutter. Both refinements are also proved.

Deadlock is not checked in `postmaster`, `lock_file` and `lwlock`: a postmaster
that has exited, a directory with all its postmasters used up, and processes
that have made their calls may stop.

### Fairness

* `Launcher!FairSpec`: weak fairness of `AppStep`, the main thread's steps. The
  commands are taken to return (pg_ctl bounds its waits itself; `RunCommand`
  shows when a command method returns). Nothing is assumed of the user, of
  servers and daemons, or of crashes.
* `RunCommand!FairSpec`: the main thread and the shell command; a background
  process may run forever.
* `Bridge!BridgeFairSpec`: QTKit finishes files it was told to finish while the
  application runs.
* `Postmaster!FairSpec`: the reaper, and the end of every child that has been
  told to end, of the startup process and of dead_end children, which only
  report an error. A client that was not told may stay for ever.
* `CheckpointRequest!FairSpec`: checkpointer and backends go on; no timeout is
  ever due, so that a lost signal would show.
* `FsyncQueue!FairSpec`: the checkpointer, and a backend that has begun to hand
  in a request.
* `LWLock!FairSpec`: every process takes its next step; holders release, as
  lightweight locks are held for short code sections only.

## Proofs

All theorems hold for every value of the constants that satisfies the named
assumptions of the modules (the special values are no members of the sets they
extend, bounds are natural numbers, and the like).

`LauncherProofs` proves type correctness, the safety properties of run
`launcher` and `AttemptsBounded`, for any directories, databases and retry limit.
None but `TypeOK` is inductive. The invariant `IndInv` adds

* `Locks`: a postmaster lives exactly while its pid file is its own, and only a
  directory with a cluster has a pid file. Without it a fresh directory might
  have a live server when its configuration is rewritten;
* `OneListener`: port 50725 has one holder. With it, a server verified for the
  selected directory excludes every other;
* `Selection`, `Setup`, `Counters`: what the previous step of `start` or `stop`
  has left behind;
* `DbsDone`: every database `createDatabaseIfNotExist` is past exists in the
  server that holds the port. It is preserved because that server can only
  disappear: nothing but `pg_ctl start` makes one listen (`ServersStep`).

`StartAndStopAreBounded` is the part of `StartTerminates` and `QuitTerminates`
that can be proved here: `CommandsLeft`, computed from `pc`, the retry counters,
the database that is next and the return address, is at most 60 for the code's
five retries and three databases, and every command lowers it. The retries are
recursive calls and the frontend's failure starts the API once more, so that this
is not plain from the text. What is left to fairness is that commands return.

`HelperProofs` proves type correctness and `OutputComplete` for every pipe size and amount of output, from an accounting of the chunks
(written = in the pipe + read). `CallsCannotGetStuck` is what `CommandReturns`
rests on: while a call runs, the application or the shell can go on, unless the
pipe is drained and a background process holds it (`NobodyStuck`, written with
the guards of the actions instead of `ENABLED`), and each of their steps leaves
less to do (`WorkLeft`).

Its other half proves `OwnCluster` and `PlainInSelectedDir` for names of every
length over the characters of `CharsAssumption`: a plain letter, the digits of
the escapes, and the three kinds of characters that a URL escapes. What the
replacing loops return is
found by induction over sequences that grow at the end (`ByAppend`, which argues
from a least counterexample like `FsyncQueueProofs`):

* replacing leaves a text as it is up to the next symbol that ends a pattern
  (`PlainKept`), so the host goes (`HostRemoved`) and each character contributes
  its own piece to the path (`SpacesDecoded`, `PathOfIs`). For this it must be
  known that the path of a prefix never ends in `%` or `%2` left over from an
  escape (`PathNotOpen`), or the next character could complete a `%20` that is
  not in the name: `%` becomes `%25` and stays that;
* resolving the result removes only the slash that is there twice (`ResolveIs`);
* two names with one path are equal, by their last characters (`PathInjective`):
  pieces that end in the same symbol are the same piece, except that a plain `5`
  might end the piece of `%`; `NoDigitForPercent` shows that it cannot, as `%2`
  would have to be before it.

`OwnCluster` then needs one more fact about the state (`PathInv`): every cluster
is where `PostgresDataDir` puts the directory it was made for.

`RecorderProofs` proves for `Recorder` and then for `Bridge` that nothing is
recorded unseen, `GivenIsListed`, `CompleteStays` and `StartKeepsRecording`.
`RecInv` says that the file that grows is the output's target, the target the
current name, and that no name beyond the clock has a file; `ClientInv` adds that
the recording in progress already satisfies what `GivenIsListed` says of the
names given away, because a second start gives its name away. Every step of the
clients is a step of the recorder or one of three (`BridgeStepKinds`).

`LockFileProofs` proves `ExclusiveUnlessStolen` and `LockTruth` for any number
of postmasters, overlapping starts, kills, immediate shutdowns and recycled
pids. As long as nothing was stolen, `Held` (from creating it on, a start has
the lock file to itself, with the lines of its step), `Left` (orphans are named
by the file they were left with) and `Judged` (whoever is about to unlink has
read a file whose owner is gone, and its children with it if that file is still
there) hold together. Two things hold even after a theft. `PortInv`: whoever is
past the bind has the port, so that no two postmasters are up. `OwnerInv`: a
complete lock file was written by a postmaster that has got past its lock or is
gone, and only the pid of one that is gone is given away. `Refinement` shows
that the steps of any number of starts, seen through the mapping, are
`PgCtlStart` or nothing.

`PostmasterProofs` proves the safety properties of run `postmaster` and the
refinement, for any number of children and crashes. The handlers call one
another, so the invariant `Good` is a predicate of the postmaster's record and is
shown to be kept by every function of records, `reaper`'s intermediate results
included. It says state by state why the postmaster is there (`Reason`: told to
stop, or a crash), which children may live (`Children`), when the checkpointer
may have been told to end or has ended (`Checkpointing`), and that after a crash
all that are waited for have been told (`Told`). `Checkpointing` is what makes
`CleanExit` inductive: `PM_WAIT_DEAD_END` is reached with a checkpoint, with no
need of one, or with `FatalError`, and only the first two end in the normal exit.
`Fresh` does the same for `RecoveryAlone`: until recovery has finished the
postmaster does not serve, and no writer is there that it could have forked.

`CheckpointRequestProofs` proves `SuccessIsMine` and `FlagsReachCheckpoint` for
any number of backends and any counter width of at least twice the lag.
`CountersAgree` ties the wrapping counters to the true numbers of checkpoints
kept as history; `SnapshotTells` says what a backend's snapshot implies about
the checkpoints since.

`LWLockProofs` proves `MutualExclusion`, `NoLostWakeup` and `SignalsKept` for any finite set of
processes. `Counts` ties the fields of the lock to the processes that hold it;
`QueueInv`, `WokenInv` and `RetryInv` say where a process is that is queued, has
been woken, or will try again; together they make `NoLostWakeup` inductive: a
free lock with a queue and `releaseOK` off has a woken process on its way that
will set it. `LastWokenBounds` says how far a release walks down the queue.
`SignalsKept` is an equation about a semaphore's count, the wakeups absorbed and
the posts still due: whoever has taken a process off the queue owes it one
(`Posters`, a finite set), and each post moves one from there to the count.

`FsyncQueueProofs` proves the safety properties of run `fsync_queue` for any
relations, forks and segments, any queue size and any counter width from 2 on.
Two loops over the queue come first. `Absorbs` relates a table to the one that
results from a set of requests, whatever their order, as long as cancels come
after what they cancel; `AbsorbedAbsorbs` shows that the loop of
`AbsorbFsyncRequests` satisfies it, and `CompactKeeps` that compaction keeps the
set of requests and their order. The prover has no induction schema it could use
here, so both argue from a least counterexample (`LeastNat`). The invariant then
says where a change can be that is not on disk:

* `Marks`: except between the redo point and the marking, every buffer with an
  old change has the checkpoint's mark, and only dirty ones have it;
* `Covered`: what was written and not synced is asked for in the queue, in the
  table or in the fork under way, or will be written again;
* `Due`: of this, what the running checkpoint has to sync is still before
  `mdsync`'s scan, in an entry of the cycle before (`Cycles`) or in a fork not
  yet reached; `Done`: nothing of it is left at the end;
* `Dropped`, `Forgets`, `Unlinks`: a relation's files go only after the request
  that cancels its syncs, which is in the queue behind all of them or has taken
  effect, also on the fork that `mdsync` has taken out of the table. This is why
  `mdsync` needs one retry only (`Places`: `failures` never stays at 1). A request
  to unlink that is not of the current cycle is from before the redo point, except
  between `mdpreckpt` and the redo point itself: with these two in the other order
  a drop could fall between them, and its first file would go too early.

`Cycles` is also the assertion in `mdsync` that no entry was missed
(`NothingMissed`): with a cycle counter that wraps around it depends on the reset
of all entries after a failed `mdsync`. `CheckpointsGetNoMoreToDo` is the safety
part of `CheckpointEnds`: once set, the marks of `BufferSync` only go, and a
step of the scan takes up an entry that was there when `mdsync` began (by
`Cycles` every other has the current cycle), ends one, or passes a fork or a
segment
(`Further`); requests that arrive meanwhile change nothing of this.

Proved, but not a property of a run: the type invariants, `AttemptsBounded`,
`CommandsBounded` and `CommandsDecrease`, `NobodyStuck`, `WorkBounded` and
`WorkShrinks`, `StartKeepsRecording`, `LockTruth`, `NothingMissed` and
`NeverMoreToDo`.

Only model-checked: liveness, as fairness and `ENABLED` are beyond the prover,
the two violations, and the type invariant of `ConfigFiles`, which has no proofs
(add `INVARIANT TypeOK` to its configuration). Every invariant and every action
property of a passing run is proved.

## Not modelled

* Of the application: the quoting of paths inside shell commands, the audio
  device, the second `RecorderController` object of the nib (preview only), the
  Developer window's command buttons (they run fixed commands through
  `runCommand`), the build tasks, and the API, frontend and page, whose
  submodules are empty. The page may change `dataDir` while the servers of the
  old directory run, and `stop` reads it again: what happens to the old server
  then is not part of `Launcher`.
  `runCommand` with `waitUntilExit:FALSE`, which has no caller, and a data
  directory whose URL does not end in a slash.
* Of pg_ctl: the polling loops, abstracted to their outcomes. `PgCtlStart` assumes
  what pg_ctl assumes (`pg_ctl.c:611-616`), that the postmaster creates its lock
  file "very soon after being started": one that does so only after pg_ctl has
  given up, five seconds later, is part of `LockFile`, where starts overlap, but
  not of `Launcher`.
* Of the postmaster: standby and archive recovery, hot standby, walsenders,
  archiver, log collector, authentication. The test for `PM_WAIT_DEAD_END` in
  `ServerLoop` and the fork that follows are one step; a dead_end child forked
  late is waited for like any other. Of shared memory: that a start removes the
  segments of dead creators.
* A lock file left empty by a kill between creating and filling it makes every
  later start fail ("bogus data"); the step is there, no promise is broken.
* Of fsync requests: DROP DATABASE, truncation, recovery; of checkpoints:
  restartpoints, pacing, archive timeout; of lightweight locks: the list of
  locks a process holds and their release on an error.
* The rest of the vendored PostgreSQL (SQL, storage formats, client tools) and
  ffmpeg. It is nearly all of the repository's source and none of its logic; the
  application depends on it only through the behaviour modelled above.

## Plan

1. `PgCtl`: the polling loops of `test_postmaster_connection` and `do_stop` with
   their limits, shown to implement the actions of `PgServer`.
2. `Session`: an abstract specification (off, selecting, starting, ready,
   quitting) that `Launcher` implements.
3. `Launcher` with a page that changes `dataDir`.
