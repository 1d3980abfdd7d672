# mKestrel: TLA+ models and proofs

mKestrel is a file browser for SFTP and NFS hosts, written in Rust (Dioxus UI,
tokio). This directory holds TLA+ modules of its core, TLC configurations that
model-check them, and TLAPS proofs. Line numbers refer to the files below
`src/`; `PROJECT.json` maps every definition to the lines it stands for.

## 1. The system

The UI runs on one thread: event handlers, `spawn`ed futures and timers
interleave only at awaits. The backends and transfers run on tokio tasks and talk
to the UI by channels and results. All state of the UI is in `Store`
(`crates/mk-ui/src/store.rs`).

| Component | State | Operations | Talks to |
|---|---|---|---|
| Transfer queue and engine (`store.rs` 545-870, 1255-1440, 1635-1901; `job.rs`) | `jobs`, `settings.transfers`, `offline`, `JOB_SEQ`; in the engine `failed_since`, `workers`, `cancel_flags` | the buttons (enqueue, pause, resume, retry, clear done, pause all, parallel, offline), the engine's tick, the end of a worker, orphan dialog, saving, launch | worker tasks by `FsBackend::download/upload`, a cancel flag and a progress channel; disk |
| Transfer workers (`app/src/transfer.rs`) | the destination, `<name>.mkpart`, reader, writer | `download`, `upload`, `verify_pair`, `find_available_*`, `drop_partial` | a backend, the local file system, the limiter |
| Bandwidth limiter (`transfer.rs` 16-63) | `tokens`, `last_fill`, `cap` | `wait_for` | all workers |
| Directory transfer (`app/src/tree.rs`) | `visited`, `dirs_to_visit`, outcome | `download_tree`, `upload_tree`, the symlink handlers | transfer workers, backend |
| Connection pool and sessions (`pool.rs`, `sftp.rs`, `nfs.rs`) | `sessions` (entry: backend, host, `last_used`), the session or mount of each backend | `get`, `drop_host`, `prune_idle`, `establish`, `lock_session`, `disconnect`, streams | listings, file operations, transfers, media streams |
| Host keys and trust (`known_hosts.rs`, `sftp.rs` 70-120, `store.rs`, `dialogs.rs`, `main.rs` 507-520) | the transport's entries with markers, its file, the settings' list, the strict flag, the state file | `check`, `add`, `note_changed`, `review`, `remove`, `import_openssh`, markers, `accept_host_key`, probes, `merge_known_hosts` | the SSH handshake, the trust sheet, the host form |
| Browser (`store.rs` 1018-1205, 2399-2566; `browser.rs`) | selected host, `cwd`, `listing`, recents, host status, selection, dialogs | `select_host`, `commit_cwd_if_readable`, `set_cwd`, `open_recent`, `open_bookmark`, `list_dir`, the file operations | backend, queue |
| Secrets (`mk-secrets`, `main.rs` 597-608) | durable store (keyring, file or memory), cache with lifetime, in-process vault | get, set, delete, the thread that copies the vault | backends at connect |
| Persistence (`persistence.rs`) | the state file and its temporary file | `load`, `save`, quarantine, `strip_fixtures`, `sanitize_jobs` | `Store` |
| Bookmarks, recents, import (`mk-core`) | lists, the exported bundle | `add`, `remove`, `touch`, `export_config`, `merge_import` | `Store` |
| Media server (`mk-media`) | a registry of hosts; per request the range and what is left of it | `parse_range`, `stream_file`, `reader_stream` | pool |
| `mk-transfer` | none | `plan_tick` | only its own tests call it |

What is hard here, and what has to hold:

- **Queue.** Clicks arrive between ticks, results of workers arrive whenever
  they end, and a relaunch finds what the last debounced save left. A job must
  have one transfer at a time that its cancel flag reaches; waiting jobs must be
  started, within the limit, whatever is retried before them; automatic retries must be bounded; a paused or
  finished job must stay so until the user acts.
- **Workers.** Every call can fail; the process can end anywhere; part files
  outlive attempts; the source changes under way. The destination must only ever
  be replaced by a complete copy, only when the policy says so, and success must
  mean that the copy is there.
- **Pool.** Closing a session waits for operations under the pool's own lock,
  and whoever has got a backend keeps it, evicted or not. The limit must hold,
  the settings must be current, nobody may wait for ever.
- **Trust.** The same key is known in three places (the transport's entries, its
  file, the settings' list), which a launch merges; a handshake looks a key up and
  records what it found in two steps. No key may become acceptable that nobody
  agreed to, a revoked one must stay refused, and what was agreed to must last.
- **Browser.** Answers arrive for directories that were left, and operations name
  rows by text. What is shown must be of the current directory, and an operation
  must act where its row came from.
- **Directory transfer.** Links may lead up, and anything may fail. The walk must
  end and count what it could not copy.
- **Saved state and secrets.** The process may be killed between any two steps,
  and a cache stands before the store. What was saved must come back.

`PROJECT.json` lists the hazards line by line, with the properties that cover
them or the reason why none does yet.

## 2. Modules

| Module | Models | Kind |
|---|---|---|
| `TransferQueue` | queue, engine, worker tasks, saves, relaunches | detailed, with fairness |
| `TransferQueueProofs` | | theorems |
| `FileContents` | file contents as blocks of versions, directories | operators |
| `AtomicCopy` | what a transfer promises about its destination | abstract specification |
| `Download` | `download`, any number of workers on one destination | refines `AtomicCopy` |
| `Upload` | `upload`, one job | refines `AtomicCopy` with `MayLose` |
| `DownloadProofs`, `UploadProofs` | | theorems, the refinements among them |
| `ConnectionPool` | pool, reaper, sessions, tasks using them | detailed, with fairness |
| `NfsMount` | the NFS backend's mount, operations and streams | detailed |
| `RateLimiter` | the token bucket and its workers | detailed |
| `TreeWalk` | `download_tree`, `upload_tree` | detailed, with fairness |
| `HostTrust` | known hosts, handshakes, probes, reviews, launch | detailed |
| `TrustProofs` | | theorems |
| `Browser` | places, listings in flight, recents, password first | detailed, with fairness |
| `BrowserProofs` | | theorems |
| `FileOps` | rows, selection, dialogs, file operations | detailed |
| `FileProofs` | | theorems of `TreeWalk` and `FileOps` |
| `SavedState` | state file, bundles, passwords, kills | detailed, with fairness |
| `SavedProofs` | | theorems |
| `SecretVault` | stores and cache of `mk-secrets` | detailed |
| `MediaServer` | ranges and streams of one request | detailed |
| `ServiceProofs` | | theorems of `ConnectionPool`, `RateLimiter`, `MediaServer`, `NfsMount`, `SecretVault` |
| `MCQueue`, `MCDownload`, `MCUpload`, `MCPool`, `MCTrust`, `MCBrowser`, `MCTree`, `MCSaved`, `MCFiles` | | instances for TLC |

How they compose: `TransferQueue` gives each job at most one worker at a time
(`OneTaskPerJob`, proved), which is what `Upload` and the passing run of
`Download` assume of one job's attempts. Its `Outcomes` are the results those
workers can return. A worker uses one backend from its first to its last call,
as a task of `ConnectionPool` does; on NFS that backend is `NfsMount`. `TreeWalk`
takes the transfer of a file as a step that begins and one that ends, well or with
an error, as `Download` and `Upload` do. The UI's state is split by question:
`Browser` asks what is shown, `FileOps` what is acted on, `SavedState` what
survives, `HostTrust` who is trusted; each header says what it leaves to the
others. `SecretVault` is the store that `SavedState` has as `durable`.

Operators described as a "faulty variant" are not part of a specification: each
is a plausible mistake in the definition after it, and shows that some property
would notice.

### TransferQueue

A job is its id, state and attempt counter; ids are `<<name, number>>` as in
`job-{name}-{seq}`. `jobs` maps positions to jobs; position matters because the
code finds jobs by the first entry with an id. One tick of the engine (`Tick`)
is one step: drain ended workers, promote, retry, set cancel flags, spawn, in
that order. A worker task is a cell `tasks[id][c]` with a phase and its flag;
the table entry `workers[id]` says which cell the engine knows. There are two
cells for each id so that a task the table has lost would be seen; a new task takes
the first that is free. `Finish` is
the part of the task after the transfer's last await. `Persist` is the
debounced save at any moment; `Restart` loads it, sanitised, with `JOB_SEQ` at 0
and perhaps a part file found.

Abstracted: bytes, rates and messages; the clock (a failure is `recent`, then
`elapsed`); the removal of a host that has jobs; the dialogs that enqueue
several entries at once (a sequence of `Enqueue`). `cancel_job` and `skip_job`
have no button but are modelled, as `CancelJob`.
Fixture hosts of debug builds are left out. The name that decides whether an
orphan belongs to a job is compared by equality where the code compares path
ends.

### Download, Upload

A file is a sequence of blocks, and block `<<v, i>>` is the i-th block of version
v of the source, so that a block that is missing, repeated, moved or of another
version can be seen. An attempt is a record with a program counter; an action
ends at each await that another actor can slip into. `Download` keeps, for each
open handle, where its file is linked (`place`), since a part file can be renamed
or removed while another worker writes it. In `Upload` the server may carry out a
request and the answer be lost, and a write may take less than it is given.
`remote` (`local`) is the version the source is at; it may be replaced or
rewritten in place at any time.

Abstracted: paths, the progress channel, the limiter's delays (only time). The
expected size and time of the source are always absent, as no caller sets them.

### ConnectionPool

The pool is a sequence in the order of last use, with the count of those past the
timeout. `lock` is the pool's mutex with the entries its holder still has to
close, since `disconnect` waits for the backend's own mutex meanwhile. A task
gets a backend and then goes through operations (establish, lock again, operate)
and open files in any order. The settings of a host are a version number, copied
by a task when it asks.

Abstracted: authentication and host keys (a connection succeeds or fails); what
operations do to files; the drop of a backend with its last reference closes its
session.

### NfsMount

The slot holds the number of a mount, 0 for none, so that a call through an old
mount can be seen: each task notes (`bound`) the oldest mount it may use. Readers and
writers go back to the slot for every block, and one that finds it empty fails. A
file is its number of blocks, or missing, or a directory.

### RateLimiter

Time is counted in what a byte takes at the cap, so that the bucket gains one token
in a unit. `wait_for` is two steps, the one under the mutex and the end of the
sleep. History variables count what was taken, let through and slept. The cap is
fixed; whether the one that the settings show is in force is a question of
`SavedState`.

### TreeWalk

A path is the sequence of nodes by whose names it goes, so that one directory has
many paths through links. `dirs` is the stack, `visited` what the code puts in its
set: remote paths for a download, canonical directories for an upload (`Key`). A
cancellation sets the flag at any time; the walk looks at it before each directory
and entry, and a file under way may fail by it. `lost` remembers what was counted
as failed. What is assumed of a tree (`TreeAssumption`) is what a file system
keeps: links apart, a directory is in at most one other, the top in none of its
own, and none is below itself. The shape of the tree does not change during a walk.

### HostTrust

`entries` is the transport's store in its order, with markers, hashes, patterns and
pending keys; `file` is what it last wrote (in place, with errors ignored), `known`
the settings' list, `saved` the state file. `check_server_key` takes two steps
for a probe, since the store's lock is let go in between. Three history variables
say what the user agreed to, what was accepted last and what was revoked. Every
key is its fingerprint and type.

### Browser, FileOps

A call of the backend occupies a slot of `call` with the host and path it was made
for, and its answer is a step at any later time. `Browser` keeps the guards that
`list_dir` and its callers apply to late answers; `FileOps` the rows, their
selection and the dialogs, with the place every row came from (`seen`) beside the
place the operation goes to (`at`). `sure` is a history variable: the user has
waited for every answer, and no bookmark was refused. Dialogs cover the browser
(`dialog-overlay`, `assets/main.css:1378`), so nothing behind one is tapped.

### SavedState, SecretVault

A host is id, endpoint, status and whether it is real; the settings are one of them
(the bandwidth limit, which has a copy in the limiter). A save is two steps and a
kill may come between. The variables of the UI keep their values after a kill, so
that a property can compare what the next launch finds. The loops of `merge_import`
and the filters of `strip_fixtures` and `remove` are recursive functions over positions
(`MergedAll`, `AddedAll`, `Chosen`), in the order of the code. The first launch is assumed
to find hosts with different ids, as those of `fixtures.rs` have. In `SecretVault` each call
of a store is a step, as the store's own mutex makes it; the vault holds nothing
between the store and its cache, so a call has a second step. `promised` is what
callers were told, `calm` the keys whose cache entry no overlap or failure touched.

### MediaServer

One request from the URL to the last frame. Numbers are u64 below `W`, the frame
buffer is sized by usize below `Word`, and arithmetic that leaves u64 wraps or, with
`Checked`, panics. The file changes between any two reads.

## 3. Runs

| Run | Result | Bounds |
|---|---|---|
| `queue` | six properties hold | 2 jobs, 2 names (one a directory), 2 ids in a launch, limit up to 2, 2 attempts, 3 user actions, 1 relaunch |
| `queue_live` | three liveness properties hold | 3 jobs, 2 names (one a directory), 2 ids in a launch, limit 1, 2 attempts, one transfer may hang, 3 user actions, 1 relaunch |
| `download` | five properties hold | 1 worker, versions of 2, 1 and 2 blocks, 1 alternative name |
| `upload` | four properties hold | versions of 2, 1 and 2 blocks, 1 alternative name, complete writes |
| `upload_short` | violated | 2 blocks, chunks of 2, writes of 1 |
| `pool` | two properties hold | 3 hosts (one NFS), 2 sessions, 2 tasks, 1 edit; tasks are symmetric |
| `pool_live` | two liveness properties hold | 2 hosts, 1 session, 2 tasks, 1 lost session |
| `trust` | five properties hold | 1 address with 2 ports, 2 keys (each also as certificate; symmetric), 2 entries, 1 record in the list, 2 bundles, 1 probe, 1 import, marker, switch or failed save |
| `browser` | three safety properties and one liveness property hold | 2 hosts that share a path, one with a password; 2 paths, 2 calls in flight, 2 recent folders |
| `tree` | two safety properties and one liveness property hold | 3 directories, 3 files, 2 links to any of them, each policy and direction, 3 failures, a cancellation |
| `saved` | three safety properties and one liveness property hold | 2 host ids, 2 endpoints, 2 passwords, a fixture, a foreign bundle, 2 edits, 2 kills, 1 fault |
| `files` | two properties hold | 2 hosts, 2 paths, 2 names (one a folder), 2 bookmarks, 2 calls in flight |

Why these bounds are enough. Two jobs are enough for what the safety properties of
the queue say of order, limit and shared ids, which is about one job or a pair; three
user actions are pause, resume and one more at every point between ticks; one
relaunch makes ids repeat. Two jobs are not enough for `WaitingServed`: two that are
retried can take turns before a third. `queue_live` therefore has three, with a limit
of one, two of which a relaunch can restore as failed with the time of their failure.
A limit of two, and three ids in a launch, were tried as well and hold; each takes
several times as long. Versions of two, one and two blocks cover resuming in
the middle, a part file that is too long, and one that is exactly as long as a
changed source. Two sessions for three hosts make the least recently used entry
differ from the others. One address with two ports is where the lookup, `add` and
the list disagree about which entry is meant; two keys are the known one and
another (two records in the list were tried as well, and take twice the time). Two hosts that share a path are what comparing paths alone confuses, and two
calls in flight what answers out of order need. Links at two depths that lead
anywhere make loops, repeats and broken links. Two edits and two kills put a change
before, between and after the two steps of a save, and a second launch after a failed
one. `browser`, `files`, `download` and `upload` bound no number of steps, only the
calls or attempts that go on at once. The queue's safety properties are also proved without
bounds (section 5).

`OneTaskPerJob` is the property the rest leans on: it would fail if the engine
forgot a worker before it has ended. `PromotesWithinLimit` and `WaitingServed`
pull in opposite directions. `WaitingServed` says that no job waits for ever unless
something that it names (`Obstructed`) stays in its way: the app is offline; transfers
that hang hold all slots; directories before it that are retried without end
(`Endless`), together with those, are more than the slots; or an id is repeated up to
its place, so that another entry is promoted in its stead. Each of these is needed.
The third is a fault of the code: a directory job whose files all
fail counts no attempt (`store.rs` 831), and once an earlier failure of it has a time
that is past the backoff, every tick sends it back to the queue. `StarvesNobody`, which
leaves it out, is refuted in the run's own instance: two such directories take turns,
and a file behind them is never started. `AtomicSpec` (of `Download`) and `CompleteSpec` (of
`Upload`) are refinements: every step of the worker is a step of `AtomicCopy` or
changes neither source nor destination. `DoneMeansCopied` compares the reported
result with the file; `NoStaleBytes` compares the file with the versions that
existed since the attempt began. `GetServed` would fail if closing a session
waited for the tasks that hold it, and not only for their current operation.

`AcceptsOnlyConsented`, `RevokedRefused` and `TrustLasts` relate what the user has
agreed to, over the whole run, to what the lookup answers now; they would fail if a
marker's entry took a changed key, if revocation were looked up last, or if a record
were not in the file the next launch loads. `RefusalChangesNoTrust` is about the
second step of a probe whose entry has changed since the first. `ShowsCwd` fails
both when a late answer is shown and when a needed one is dropped. `NothingLost`
accounts for everything below the top; `NoLoop` looks at the path walked, not at the
set meant to prevent loops. `SurvivesKill` compares the launch with what the user saw
when the last save was over. `ActsWhereShown` holds although the code reads host and
directory when the operation starts.

### Disagreements found

With a run: `upload_short`. The count that `write` returns is ignored, and an upload
publishes a file with missing blocks.

Stated in the modules, mostly under "What the documents say and the code does not
do", and refuted by TLC in the same way, but without a run of their own (give a
configuration the property to see it; `TwoWorkers` of `MCDownload` is for the
second worker):

| Module | Definition | What happens |
|---|---|---|
| `TransferQueue` | `CancelNeverFails` | pause, tick, resume: the job fails by its own cancellation |
| | `PromotesOnlyWaiting` | after a relaunch a new job can have a restored one's id, and promoting it starts the other |
| | `ParallelHonoured` | resuming a paused job exceeds `parallel` |
| | `RetryBudget` | a directory job whose files all fail is retried without an attempt being counted |
| | `StarvesNobody` (under `FairSpec`) | one more such directory than there are slots keeps every later job waiting |
| | `ResumesInPlace` | RESUME in the orphan dialog makes a second job for a file whose restored job already runs again |
| `Download` | `RestartsWhenChanged` | a part file of an older version is resumed, since jobs never carry size and time |
| | `AtomicSpec` with two workers | two jobs for one destination write one part file, and the first to end publishes it |
| `Upload` | `AtomicSpec` | after any failed rename the destination is removed, even the new file |
| `ConnectionPool` | `BusyNotReaped` | the reaper closes the session of a long transfer; on NFS the transfer fails |
| | `Heals` (under `FairSpec`) | a session the network has dropped is used again by every operation |
| `NfsMount` | `CreatesFile` | `open_write` truncates a file but never creates one, so an upload to a new part file fails |
| | `PathsApart` | a path outside the mount is the same file as one inside |
| `RateLimiter` | `RespectsCap` | a sleeper's time refills the bucket it has emptied: one worker passes twice the cap, k workers k + 1 times |
| `TreeWalk` | `FollowedToo` | a followed directory is marked as visited before the walk gets to it, and skipped |
| | `FailedOfTotal` | directories count as failed but not in the total ("2 of 1 failed") |
| `HostTrust` | `TofuOnlyWhenOff` | an imported bundle turns strict on in the settings, not in the transport |
| | `WipeForgets` | `wipe all credentials` leaves the transport's entries |
| `Browser` | `NoStaleRows` | rows of a host that was left appear under another one at the same path |
| `FileOps` | `ActsWhereShownAlways` | an operation on such rows acts on the other host |
| `SavedState` | `LimitInForce` | after a launch or an import the limiter has another limit than the settings |
| | `EndpointsKept` | an import may overwrite a host whose endpoint it does not have |
| | `BookmarksShown` | imported or replaced hosts leave bookmarks without one |
| | `NothingForgotten` | a state file that cannot be read is taken for a first launch and written over |
| | `SecretsSurvive` | the password file is written in place, and a kill empties it |
| `SecretVault` | `DeletedGone` | a get that has read a password puts it into the cache after the delete |
| | `OthersKept` | a failed set of one secret loses all in the file |
| `MediaServer` | `Clamped` | `bytes=5-2` is accepted, and `end - start + 1` leaves u64 (`lib.rs:188`): a release build announces 2^64 - 2 bytes and sends the file from byte 5 to its end |
| | `SendsExactly` | the same; and with 32-bit usize a length that is a multiple of 2^32 sends nothing |
| | `KnowsHosts` | hosts added after the launch are not served |

Seen while reading, and part of the models but of no property: `lock_session` panics
when a session is closed between its two locks (`Locked`); a failing `stat` counts
as absence for the upload policies; `import_openssh` drops a `@revoked` line when the
host is known with that key; imported known hosts reach the transport at the next
launch only; editing the address after a probe keeps the key it found, and a probe's
answer goes into whichever form is open; a key accepted for another port overwrites
the list's record of port 22; a refused bookmark leaves its host selected; the
sheet's Download of a file that exists opens the question and closes it again, so
nothing is queued. Not modelled: filtered or hidden rows stay selected, and
`bulk_remove` takes them too (`store.rs` 1356-1376); `plan_tick` is said to be
applied by the UI (`mk-transfer/src/lib.rs` 3-5) but is not.

## 4. Fairness

`queue_live` (`FairSpec` of `TransferQueue`): the interval timer ticks, so `Tick`
is weakly fair; time passes for each recorded failure, so `Elapse` is, for each id (for
all together would not do: one job that fails again and again could hold back the
clock of the others); a transfer ends by itself unless its
id is in `Stalling`, and any transfer ends once it is cancelled, because the loop
reads the flag between chunks. Nothing is assumed of the user, of the persister or
of the process.

`pool_live` (`FairSpec` of `ConnectionPool`): SFTP requests time out (120 s), so
operations end; tokio's mutexes are first-in first-out, so whoever waits for the
pool or for a session gets it although others take it in between (strong
fairness); the reaper ticks every 15 s; a pool nobody uses ages. Tasks need not
ask for anything, and no session need be lost.

`browser` (`LiveSpec`): every call of the backend is answered, if by an error, since
requests time out (`set_timeout(120)`, `sftp.rs:246`); the user need do nothing.
`tree` (`LiveSpec`): the task runs on, and its calls end for the same reason; nobody
need cancel. `saved` (`LiveSpec`): the copying thread sleeps for three seconds and
goes on; no save need be done, and a copy may fail as long as faults are left.

## 5. Proofs

`TransferQueueProofs` proves, for every value of the constants that satisfies
`ConstantsAssumption`:

| Theorem | Statement |
|---|---|
| `TypeCorrect` | `Spec => []TypeOK` |
| `OneTask` | `Spec => []OneTaskPerJob` |
| `IdsApart` | `Spec => []NoSharedId` |
| `FilesWithinBudget` | `Spec => []FileRetryBudget` |
| `StoppedUntouched` | `Spec => StoppedStays` |
| `StartsWithinLimit` | `Spec => PromotesWithinLimit` |

The argument. `TypeOK` is inductive by itself. `OneTaskPerJob` is not: a task that
has ended may still have an entry, and an entry may be dropped. `TaskInv` adds
that every cell whose phase is not "none" is the one the table holds; the drain
then only removes an entry together with its ended task, and a spawn finds both
cells free. `NoSharedId` needs to know where running jobs come from: `FirstOnly`
says that every job that is not waiting is the first entry with its id, which
`Promote` preserves because it looks ids up by first entry, and pushing because it
appends. `FileRetryBudget` needs `Paid`: a file job has fewer retries than
`MaxAttempts` and no more than its attempts, and strictly fewer than its attempts
while it is failed, so that the retry it may be granted next is already paid for:
a retry is granted only below the limit and every failed run is counted. Both
must hold of the saved queue too, as a relaunch makes it the queue: `AllQueuesInv`
is `QueueInv` of `jobs` and of `saved.jobs`. `StoppedStays` follows step by step from `TypeOK`: a tick promotes
and retries only first entries that are waiting or failed, and `Finish` asks for
Running.

`StartsWithinLimit` counts. The jobs a tick promotes are the first k waiting ones, where
k is the room that the limit leaves to those already running; of a finite set of positions
those with fewer than k below them are k at most (`FirstOnes`, by the injection that
counts them), and looking their ids up by first entry, as the code does, can only make
them fewer (`FirstsOf`). Retries make jobs wait again and start none, so a tick either
starts nothing or ends within the limit, however far a user's resuming had exceeded it.

### Transfers

| Theorem | Statement | Holds for |
|---|---|---|
| `DownloadProofs!TypeCorrect` | `Spec => []TypeOK` | any number of workers |
| `DownloadProofs!Atomicity` | `Spec => AtomicSpec` | one worker |
| `DownloadProofs!NothingClobbered` | `Spec => NoClobber` | one worker |
| `DownloadProofs!OwnBytesOnly` | `Spec => NoStaleBytes` | one worker |
| `DownloadProofs!DoneIsCopied` | `Spec => DoneMeansCopied` | one worker |
| `UploadProofs!TypeCorrect` | `Spec => []TypeOK` | any writer |
| `UploadProofs!OwnBytesOnly` | `Spec => NoStaleBytes` | any writer |
| `UploadProofs!Completeness` | `Spec => CompleteSpec` | writers that write all |
| `UploadProofs!DoneIsCopied` | `Spec => DoneMeansCopied` | writers that write all |

The two hypotheses are named and each is needed. `SingleWorker` (there are no two
workers) is what `OneTaskPerJob`, proved of the queue, gives the attempts of one
job; with two jobs for one destination TLC refutes `AtomicSpec`.
`FullWrites` (`Chunk <= WriteMax`, no write takes less than a read returned) is what the
code assumes by ignoring the count of `write`; `upload_short` shows what happens
without it.

The invariant of a download is `TypeOK`, `Partial` and `Sound`. `Partial` says that
a part file is the beginning of a copy: its i-th block is the i-th block of a version
there has been, and while there has been one it is no longer than that.
`Sound` ties an attempt to the directories: the number of blocks it has counted is
the length of its part file (or the file is gone), it is past the policy only where
it may replace what is at its name, and unless it resumes all its blocks are of
versions since it began. Then the rename that publishes a full count publishes a complete
copy. An upload counts what it has written instead; `Whole` adds that count and
position agree, that a part file which waits for a repeated rename is complete, and
that what is verified is the content.

### Host keys

`TrustProofs` proves `TypeCorrect`, `OnlyConsented` (`Spec => []AcceptsOnlyConsented`),
`RevocationLasts` (`[]RevokedRefused`), `AcceptedLasts` (`[]TrustLasts`) and
`RefusalIsInert` (`RefusalChangesNoTrust`), for any addresses, keys, patterns,
bundles and bounds. None of the three invariants is inductive: a launch builds the
store from the file and the saved list, a failed save leaves a file that is older than
the store, and a review takes a pending key. `TrustInv` therefore asks
of the store *and* of its file (`Sound`) that an entry's key has been agreed to for every endpoint
its pattern matches, that what waits for a review stays with normal entries, and that
only normal entries carry a record's id; of the list *and* of the saved one (`Agreed`),
that each record's key was agreed to for its address; and, while no save has
failed, of store and file (`Keeps`) that there is a normal entry for each accepted
key and a revoking one for each revoked key. `add` finds normal entries of the endpoint
itself, so it loses no other endpoint's key and no marker; `SaveStep` covers every
write with its failures. `RefusalIsInert` needs no more than the types:
`note_changed` leaves every pattern, key and marker as they were, or adds a normal entry without a key.
The patterns with a star are assumed to be no addresses (`TrustAssumption`).

### Directory transfers

`FileProofs` proves `NeverInACircle` (`Spec => []NoLoop`, which has the types and the counts)
and `NoSilentLoss` (`Spec => []NothingLost`), for any forest, any links and any number
of failures. `Steps` sorts the code's steps by what they do to the stack and the sets;
each part of the invariant has a lemma with a case for each kind:

- `Once`: a path that was taken was taken from the directory before it, which is visited and whose
  entries no longer have it. So every path is counted once (`Apart`, `Counted`).
- `Straight`: the directory the walk is in was come to by no link, and so was each one
  on the stack that is not visited yet. A link that is followed marks its directory
  as it is pushed, so that it is skipped: this is both why there is no circle and why
  `FollowedToo` fails. The path then goes down in the tree, and no directory comes twice.
- `Account`: a directory that was made and did not fail has each of its directories and
  files at the destination, among the failures, under way, on the stack or among the entries
  that are left. A skipped directory must not break it: in a download only links
  are skipped (`Marked`); in an upload that follows none, nothing is (`NodesOnce`,
  which needs that a directory is in at most one other).

### Browser and file operations

`FileProofs` also proves `FilesTyped` (`Spec => []TypeOK`) and `FilesWhereShown`
(`Spec => []ActsWhereShown`), for any hosts, directories, names, bookmarks and calls.
The invariant is `TypeOK`, `Steady` and the property. `Steady` says what holds while the
user is `sure`: either nothing is under way, and the rows, the selection and an open
dialog are of the place the browser is at, or a single call is, and which one decides
what may differ.

`BrowserProofs` proves `ShowsCurrent` (`Spec => []ShowsCwd`), `AsksFirst`
(`Spec => PasswordFirst`) and `TypeCorrect` (`Spec => []TypeOK`). `ShowsCwd` is
inductive once it is known that calls are kept in slots: an answer leaves the other slots
alone, and the directory it was asked for is compared before it is dropped.
`PasswordFirst` holds step by step. The types rest on what is assumed of paths: the
parent of a path is one, bookmarks are of known hosts and paths.

### Saved state

`SavedProofs` proves, for lists and bundles of any length, any constants that satisfy
`StateAssumption` and any number of edits, kills and faults:

| Theorem | Statement |
|---|---|
| `SavedTyped` | `Spec => []TypeOK`, with the ids apart and no bookmark twice |
| `KillSurvived` | `Spec => SurvivesKill` |
| `ImportsKeepHosts` | `Spec => ImportKeeps` |

`TypeOK` is not inductive: a launch reads its lists from the file, so `SavedInv` asks of
the file and of the temporary one too that ids are apart (`Sound`), and that an export is
never half written, since an import takes its content for a bundle. Ids stay apart
through an import although a host may be matched by its endpoint: the matched host
keeps its own id, and a host is appended only when nobody has its id (`MergedKeeps`).

`SurvivesKill` needs `FreshInv`. While a save is under way and nothing has
changed since it began, the temporary file holds what the UI holds; once it is over, the
file holds, up to the fixtures, what the UI holds *or held when it was killed*. The second
part survives the launch because `strip_fixtures` changes nothing when it is done
twice (what is kept are real hosts, and bookmarks of them), the first because every edit
puts `fresh` back to "no".

What the loops compute is proved by induction, in the form the prover takes: a set
of numbers with no least element is empty (`LeastExists`, from the well-foundedness
of strict inclusion on the sets below a bound), hence counting up to a bound (`CountUp`),
and for each step function a function that follows it exists (`Recursion`), which is what
the recursive functions choose. Then `MergedAllKeeps`: the list only grows, with the ids and
statuses it had; `AddedAllKeeps`: bookmarks stay injective; `ChosenIs`: the elements at the
chosen positions, each once and in their order.

### Services

`ServiceProofs` holds the theorems about what workers and windows share.

| Component | Theorem | Statement | Invariant |
|---|---|---|---|
| `ConnectionPool` | `PoolStaysSound` | `Spec => []PoolSound`: the limit, one entry per host, no shared backend, nothing pooled that is being closed | also, whoever makes a backend is still asking and the pool has no entry of its host (`Making`) |
| `ConnectionPool` | `OwnBackend` | `Spec => OwnSettings` | the same |
| `RateLimiter` | `LimiterBounds` | tokens taken never exceed the time; a worker passes at most twice what time allows and sleeps in proportion to what it overdraws | tokens and sleep add up (`Balanced`) |
| `SecretVault` | `VaultKeeps` | what a caller was told is kept is what the next process finds, unless a write was cut short; the cache agrees with the store but for keys changed during a get or by a failed call | what each thread is about to do to its key |
| `MediaServer` | `StreamsRange` | a body begins where its range begins and, unless the range is reversed, stays within it (`WithinRange`); all of it is sent where usize is wide enough, nothing fails and the file gets no shorter (`SendsAll`); a reversed range is answered only where arithmetic wraps, with a length it never reaches and the rest of the file (`RunsOn`, `SendsAll`) | sent and unsent bytes add up to the length announced, no offset reaches `W`, and no reversed range is open where arithmetic is checked (`Begun`) |
| `NfsMount` | `CallsFresh` | no call goes through a mount dropped before the operation was begun | the slot holds the newest mount (`Newest`) |
| `NfsMount` | `OnlyRenameMakesFiles` | without other clients, a file appears by a rename only | types |

Without `Making` the pool's limit could not be kept: the lock is held while a
connection is made, so nothing else may have been put in meanwhile, and the room that
was made by evicting is still there. The last five are of modules that are not run: their
clocks, counters and mounts grow without bound, or their numbers are 64 bits wide. TLC
checked the same formulas on small instances while they were written.

### Model-checked only

Every safety invariant and every action property of the passing runs is stated by a
theorem. What stays with TLC:

- The liveness properties `WaitingServed`, `PausedStops` and `FailedRetried` of the
  queue, `GetServed` and `IdleClosed` of the pool, `LoadingEnds` of `Browser`, `Ends` of
  `TreeWalk` and `PasswordsKept` of `SavedState`: fairness is beyond the prover, and so
  is `CreatesFile`, which mentions ENABLED.
- The refuted definitions of section 3: a counterexample is all there is to show.
- `AtomicSpec` and the properties beside it with several workers on one destination,
  which do not hold; only the types are proved for that case.

## 6. Plan

1. `Persistence`: a loss of power, after which a renamed file may be empty.
2. `FileOps`: the filter and hidden rows, which stay selected.
3. `ConnectionPool`: removal of a host; the choice of credentials.

## 7. Not modelled

Rendering, formatting, fixtures and developer tools keep no state that matters;
Android calls are the platform's; the local backend is a thin layer over the file
system and the mock one a test double; `plan_tick` is called by tests only. Of
modelled parts: byte counts, rates, notices and digests; text formats (JSON,
`known_hosts`, URLs, HTTP framing); encryption of the secret file; authentication
other than host keys; sorting, free space and the inspector's delayed details.
