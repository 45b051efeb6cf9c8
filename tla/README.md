# A specification of btdt

btdt caches files for CI pipelines: `btdt store` packs a directory and stores it under one or more keys, `btdt restore`
unpacks what is found under the first of several keys, `btdt clean` deletes what was not used for long or is too much,
and `btdt-server` offers such caches over HTTP and cleans them periodically. Many btdt processes work on the same
directory at the same time, without any lock around it, and any of them may be killed at any moment. What keeps the
cache correct is the order in which files are written and renamed. That is what the modules in this directory are about.

All paths below are relative to the root of the repository.

## The system and its parts

| Part | State | Operations | Hard because of |
|---|---|---|---|
| Local cache, `btdt/src/cache/local.rs` | meta files by key, blobs by random id, in a storage | `get`, `set` and the writer it returns, `clean` | calls of several processes interleave at every storage operation; errors and kills in between |
| Filesystem storage, `btdt/src/storage/filesystem` | directory entries, inodes, advisory file locks | `put` and its `StagedFile`, `get`, `delete`, `list`, cleaning leftover staged files | lock protocol between writers and cleaners, rename, leftovers of killed processes |
| In-memory storage, `btdt/src/storage/in_memory` | a tree of nodes under a lock, node contents under locks of their own | `put`, `get`, `delete`, `list`, node writers and readers | nodes are used outside of the lock of the tree |
| Server cleanup thread, `btdt-server/src/main.rs` | a flag, the park permit, the time of the last pass | the loop, `abort`, `join` | lost or spurious wake-ups, shutdown at any time |
| Remote cache and HTTP client, `btdt/src/cache/remote.rs`, `btdt/src/util/http` | a connection per call, how much of the body is left | `get`, `set`, reading and writing messages | connections that end anywhere, tokens that expire |
| Server API, `btdt-server/src/app`, `btdt-server/lib/asyncio.rs` | the caches by id; a channel per response | `get_from_cache`, `put_into_cache`, the stream adapter | clients that go away, a blocking reader feeding an async stream |
| Server start-up and shutdown, `btdt-server/src/main.rs` | the private key file; per process its key, its limits, the requests in progress | creating or loading the key, reading the settings, binding, serving, draining | starts at the same time, crashes between two system calls, restarts |
| Pipeline, command line and cache dispatcher, `btdt/src/pipeline.rs`, `btdt-cli/src`, `btdt/src/cache/cache_dispatcher.rs` | none of their own | `store`, `restore`, `clean`, `hash` | failures half-way, cancelled jobs, exit codes; order of cleaning caches and leftovers |
| Byte sizes, `btdt/src/util/humanbytes.rs` | none | parsing | 64-bit arithmetic, texts that are no sizes |
| Values: meta records, blob ids, clock | none | encoding, decoding | records that are too short |

How they interact: a pipeline calls a cache; a cache is local, and then calls a storage, or remote, and then sends a
request to a server, whose API handlers call a local cache. The cleanup thread of the server cleans the same local
caches the handlers use; each has its own `LocalCache` value, so that they meet in the storage only. `btdt clean` and
other processes on the same directory meet there too.

What makes each part correct:

* **Storage** - a file appears as a whole, when its writer is closed; it is replaced or deleted as a whole; a reader
  that has opened it gets it to the end; leftover files go and files in use stay.
* **Cache** - a hit delivers the whole content that was stored under exactly the key it names; the entry found is the
  one under the first key that has one; what is stored again is overwritten; what a clean leaves is within its limits,
  and what it deletes had to go; parallel use makes no get or set fail, but for two that make the same directory at
  once.
* **Cleanup thread** - passes happen at the interval, over all caches, and a shutdown ends the thread without waiting
  for the interval.
* **Remote cache and server** - the remote cache keeps the promises of the local one, also when connections break; a
  request is served only for the operation, the cache and the time its token allows.
* **Pipeline** - a restore that reports success has left one whole archive behind, exit codes tell the truth about the
  primary key, a job repairs what failed stores have broken, jobs do not make each other fail, but for two that make the
  same directory at once, and a clean that succeeds has tried to remove every leftover.
* **Server start-up** - all servers accept the same tokens, a key that was written stays, a start that nothing disturbs
  succeeds, the size limit is the one that was meant, and a shutdown ends.

## Modules

```
CacheSpec   <--refines-- LocalCache        (LocalCacheProofs, MCLocalCache)
                             |  uses put/close/get/delete/list of
StorageSpec <--refines-- StagedStorage     (StagedStorageProofs, MCStagedStorage)
                         InMemoryStorage   (InMemoryStorageProofs, MCInMemoryStorage)
CacheSpec   <--refines-- RemoteCache       (RemoteCacheProofs, MCRemoteCache), over a cache as CacheSpec has it
Pipeline                 uses a cache      (PipelineProofs, MCPipeline)
CleanupTask              calls clean       (CleanupTaskProofs, MCCleanupTask)
HumanBytes  <--EXTENDS-- HumanBytesSpec <--EXTENDS-- ServerStart (ServerStartProofs, MCServerStart), which starts and
                                                     ends what CleanupTask is about
Minima                   least elements, for the proofs about functions, sums and maxima
```

Every module that models code is parameterised by its processes, data and bounds; the `MC*` modules and the `.cfg` files
give them small values. Where a definition is preceded by one with the comment "Mutant", that one is the same definition
with a plausible mistake in it; it is not used by the specification but shows that a property notices the mistake.

### LocalCache

One process per call: a `Getter` is a call of `LocalCache::get`, a `Setter` a call of `set` with the `CacheWriter` it
returns, a `Cleaner` a call of `clean`. Each runs through the storage operations of its code in order, one per action,
with the early returns and `?` of the code; errors (`GetFail`, `SetFail`, `CleanFail`) and kills (`GetCrash`, ...) can
happen at each, up to `MaxFaults` in all.

| State | Code |
|---|---|
| `file[f]` | all files below `/meta`: the meta of key `f`, or a staged file `*.tmp.*` next to it. `Absent`, `Short` (too short for a record), or a record of blob and access time |
| `blob[s]` | the blob set `s` writes: `partial` if its writer was dropped, `complete` if it was closed |
| `dirs` | which directories exist: `/blob` and `/meta`, which `clean` needs, and those below them |
| `stored[k]` | history: the sets whose meta for `k` was renamed, in order |
| `get`, `set`, `clean` | local variables and program counters of the calls |

A put walks down the directories above its file. It looks each one up and creates it if it is not there, in two steps: a
set that has found a directory missing, which another has created meanwhile, fails (`SetMissesDir`, `SetMakeDir`), and
what it has staged by then is dropped, which leaves empty metas under its keys. That is the only way in which calls make
a set fail without a fault.

`clean` is modelled pass by pass: it lists `/blob` (and looks up the size of each entry in a step of its own), lists and
reads `/meta` directory by directory, staged files included, and then evicts from the heap, deleting the metas and the
blob of a victim one file at a time, all against what it read before. The file name of a staged file is taken for a key
by `clean`, so that it is deleted only if its name happens to hash to the directory it is in (`Collide`).

Abstractions: a blob id is a fresh random number, named by the set that draws it. Published files never change, so
opening and reading one is one step. Staging, writing and renaming are the steps `StagedStorage` is about. Writers that
are dropped go one after the other, the metas in any order: after the blob if a whole `CacheWriter` is dropped, before
it if `set` gives up half-way. `clean` is always given both limits, none is a very large one. A key occurs once in a
list that is stored. Time is a counter up to `MaxTime`; it stands still between `Tick`s, so that equal access times
occur.

### StagedStorage

One action per system call of `FilesystemStorage` and `StagedFile`: names lead to inodes (`at`), an open file keeps its
inode, and the advisory lock belongs to the inode and goes with the file that holds it. `put` creates missing parent
directories one by one, opens a new staged file, waits for its lock, checks that a file is still there under the staged
name, and retries otherwise. Closing and dropping rename *what the staged name leads to*. The leftover cleaner reads the
directory, opens each candidate, tries its lock, gives it back and only then removes the name. An open or a `try_lock`
that fails counts as a lock that is held: the file is skipped, and the cleaner goes on and may still succeed
(`CleanerSkip`); every other error ends it. `skipped` remembers which files a failing call, or a lock another cleaner
held just then, kept it from. `Draw` says which random suffixes a writer may draw: its own, or the same as others, which
happens once in 2^32.

`list`, deleting directories and paths that are refused at once are left out; the last two change no file.

### InMemoryStorage

`put`, `get` and `delete` hold the lock of the tree and are atomic; writers and readers then work on the node they were
given. A node is named by the put that created it. `put` creates directories on the way down even if it fails further
on. A reader at the end of a file moves its offset on, as the code does.

### CleanupTask

The thread computes the time left, parks, looks at the flag, looks at the clock, and cleans one cache after the other;
the main thread sets the flag, unparks and joins. `park_timeout` returns on a permit, on timeout and spuriously.
`elapsed` counts from `parked_since` and saturates just above the interval, where the code can tell no difference; any
number of ticks may pass between two steps, so that a clean may take longer than the interval.

### RemoteCache

Both ends of a call over HTTP. `up[c]` and `down[c]` are what was sent on the connection of call `c` and not read yet,
as a sequence of lines and chunks; a chunk says which parts of the content it holds. A connection may break at any time
(`Lose`): what is on its way arrives up to some point, the last line or chunk possibly cut, and then comes the end of
the stream or a reset. Connections of one call are never used for another, as the client asks for `Connection: close`.

| State | Code |
|---|---|
| `client[c]` | a call of `RemoteCache::get` or `set` with the reader or `RemoteWriter` it returns: which part of the answer it reads next, the key and encoding found in the headers, the parts read or written |
| `handler[c]` | the call of `get_from_cache` or `put_into_cache`: the content it delivers, or what it has copied |
| `feed[g]` | the `StreamAdapter` of a hit: the parts the blocking thread has read, and the channel |
| `stored[k]` | history: the sets stored under `k` in the server's cache, in order |

The client reads the status, one header after the other, and then the body, and makes of a cut line or of the end of the
stream what the code makes of it: the end of the stream ends the headers; a status line that breaks off is an error, a
panic or enough, depending on where; the text of a key that breaks off may be another key (`Begins`); a chunk that
breaks off in its data ends the body, one that breaks off elsewhere is an error. The response is aborted if the server's
reader fails, which the client sees as a connection that breaks.

The stream adapter reads into a buffer of `MaxBuf` parts. A read may fill less than the buffer, what it has read is
split off, and the buffer is replaced once it is smaller than `Threshold`. The order matters: a read into an empty
buffer would return nothing, which the thread takes for the end of the content.

The server's cache is not modelled again: a lookup may fail, and a hit is anything stored under one of the keys. Unless
the cache is `Forgetful`, that is, ever cleaned, neither a miss nor a hit passes over a key that had an entry when the
client called (`held`). That is what `CacheSpec` promises and `LocalCache` is shown to keep. A request carries whether
its token permits it and whether the server has the cache; it may be refused as expired whenever it is looked at. The
HTTP server (poem, hyper) is external: it hands over a request when its head has arrived, sends a stream chunked, its
headers in any order, and reports a body that lacks its last chunk as an error.

### Pipeline

CI jobs that share a cache: a job runs `btdt restore` and, unless the exit code is 0, makes the files itself and runs
`btdt store`. The cache is a directory or one behind a server; a step is a lookup of a key, a directory that is looked
up or created, one operation of a `CacheWriter` on one of its files, or the metas of one key that a clean reads.

| State | Code |
|---|---|
| `remote` | whether `--cache` is an URL, which is what the cache dispatcher decides |
| `entry[k]` | the meta of `k`: none, an empty one (`Broken`), or one that leads to the archive some store has written |
| `blob[j]` | the archive of the store of `j`, in its place or deleted |
| `dirs` | the directories there are, none in the beginning |
| `left` | the staged metas killed jobs have left behind |
| `writer[j]` | the `CacheWriter` of the store of `j`: how far it is, the metas it has staged and moved, the entries it has written, the directory it has found missing |
| `job[j]`, `dest[j]` | the job with its exit codes, and what is in its directory |
| `cleaner[c]` | a `btdt clean` or a pass of the server: what it has read, what it is about to delete, the leftovers it has still to try |
| `kept`, `since`, `races` | history: keys that were there all the time since a restore began; the faults and lost races until then; all lost races |

A fault is an operation that fails, a broken connection, or a job that is cancelled. A job that is cancelled leaves what
it has staged, also when it was about to write a meta anew in a lookup. A writer that is dropped publishes what it has
(see below); on a server it outlives the job, so that an upload that was cut off may be dropped long after the job has
given up. A download whose stream ends between two entries is unpacked as far as it goes, since the archive reader takes
the end of the stream for the end of the archive. `--keys` is a list that may hold blank texts, which are not looked up
although the first of them is the one exit code 0 is about.

A clean lists the archives, if there is a limit, then reads the metas key by key, staged ones too, and fails at one that
is empty; it deletes keys by their names, whatever they lead to by now. The leftovers are then tried one by one. Each is
removed, or passed over if it is gone or cannot be opened or locked. How two cleans meet at the same leftover is left to
`StagedStorage`, and so is what becomes of staged archives, which no clean reads. Whether the meta a killed lookup
leaves is empty or whole makes no difference but for the clean, which fails at an empty one; it is taken to be empty.

The cache of a server is a directory too. An in-memory one shows metas from `set` on and would let keys be broken
without a failure; it is meant for tests and not modelled here. A file that changes its size while it is archived is
left to tar.

### ServerStart, HumanBytes

Processes of `btdt-server` with one key file, one action per system call: `load_or_create_auth_keys` looks for the file,
creates it or checks who may read it and reads it; then the size limit is parsed, the address bound, requests are
served; a signal closes the listener, lets the requests in progress end, and joins the cleanup thread. A process may
crash anywhere and be started again `MaxRuns` times. An operator may remove an empty key file or correct its mode while
no server starts, and may have provided a key in the first place. `alone` remembers the starts that no other process and
no fault disturbed.

`Settings` is a set of configurations: addresses, and a text for the size limit with the bytes it stands for.
`HumanBytes` parses such texts as sequences of characters; factors and the word are parameters, so that a word of 7 bits
shows both ends of the range. Numbers out of range by themselves are errors, products and sums wrap, as they do in a
release build. `HumanBytesSpec` says which texts are those of a size and what they stand for, by their form and without
reading them from left to right; `ServerAssumption` asks that of the bytes in `Settings`, which TLC evaluates for the
texts of the instance. The two modules were compared once on all texts of up to six characters out of six.

### CacheSpec, StorageSpec

What the traits promise, without files or messages. `CacheSpec` never makes an entry up: a hit is something stored under
one of the keys the get was given. As long as the cache has forgotten nothing it finds the first key that has an entry:
no hit or miss passes over a key that had one when the get was called; from when it may have forgotten, a lookup may
miss. For the local cache that is from the beginning of the first clean on. Which of several contents of one key is
found is left open, since a get may bring an old one back; see `OverwriteSticks`. `StorageSpec` lets a file appear in
one step at the path its writer was put at, whole if the writer is closed, and lets a reader have what was at the path
it names when it opened the file. `StorageSpec` allows the file of a writer that was given up to appear as far as it
got: that is what `StagedFile` documents for its drop.

## What is checked

Ten runs pass. All set `CHECK_DEADLOCK FALSE`: the processes are a finite number of calls, and the system stops when
all have ended.

| Run | Instance | Shows |
|---|---|---|
| `cache_parallel` | 1 get, 2 sets, 1 clean, 2 keys, size limit 1, 1 fault or kill | `HitIsComplete`: a hit is whole whatever is deleted or fails meanwhile; `NoEntryLost`: until the first clean no get passes over a key that was stored before, whatever fails; `ParallelUseIsSafe`: without faults a set fails only if another made the directory it was about to make, and a get only on the empty meta of such a set; `OverwriteSticks`: what is stored again is overwritten, unless another get has written the old meta back, which the one get here cannot have; `ImplementsCache` |
| `cache_serial` | 1 get, 2 sets, 2 cleans one after the other, uneven sizes, 1 fault | `CleanMeetsLimits`: what can be found after a clean is within both limits; `EvictsOldestFirst`: it deletes in the order of last use, and only while something has to go |
| `cache_live` | 1 get, 1 set, 1 clean, 2 faults | every call ends |
| `staged_parallel` | 3 writers of one path in a directory still to be made, sharing 2 suffixes, 1 reader, 1 fault | `StorageSpec` is implemented, suffix collisions included; `StagedIsKept`: without cleaners a staged name leads to the file of its writer until that ends |
| `staged_cleaner` | 2 writers of one path that is itself named like a staged file, a cleaner called over and over, 2 faults, no reader | `StorageSpec` is implemented in spite of cleaners; `LeftoversGo`: no leftover survives a cleaner that succeeds, but one it could not open or try to lock; every put and every cleaner ends |
| `in_memory` | 3 writers, 1 reader, `/d`, `/d/f`, `/d/g` | `ClosedIsReadWhole`: a file that was closed before it was opened is read whole; `FilesStay`: a file goes only when its own path is deleted, and then nothing else does, or when a put of its own path replaces it |
| `cleanup` | intervals 0, 1 and 3, 2 caches | `AbortIsHeeded`: after an abort at most the pass under way goes on; `NotBeforeInterval`; `PassIsComplete`: a pass tries every cache, also when others fail; a shutdown ends the process without time having to pass; passes recur |
| `remote` | 1 get, 1 set, 2 keys one of which begins with the other, 3 parts, a channel for 1, a buffer for 2 replaced below 1, 2 faults | `ReadsWhatWasStored`: what a get reads next was stored under the key the hit names and begins where it has read to; `UnbrokenIsWhole`; `OnlyWholeIsStored`: an upload that breaks off is not stored; `ImplementsCache`: a set that reports success has stored all; every call ends, with everything it started in the server |
| `pipeline` | 2 jobs with 2 keys, of one of which the first key is blank, 1 clean, archives of 2 entries, a directory or a server, nothing there yet, 2 faults | `RestoredIsWhole`: what a restore leaves when it reports success is one whole archive stored under the key it found; `PrimaryWasMissing`: exit codes 3 and 4 are the truth; `JobsRepair`: a job during which nothing fails leaves its first key in the cache, whatever earlier failures made of it; `JobsRunThrough`: without faults a store fails only if another made the directory it was about to make, and a restore only on a key of such a store; `LeftoversGo`: a clean that succeeds has removed every leftover but those it could not open or lock |
| `server_start` | 2 servers started twice each, one address or two, a key file that is absent or present, private or not, 1 request, 1 fault, a word of 128 and 26 texts | `ServersShareKey`: servers that serve use the key in the file; `KeyOutlives`: it stays; `StartsUndisturbed`: a start that nothing disturbs succeeds; `LimitIsMeant`: the limit is the one the text stands for if that fits; `ShutdownEnds` |

Bounds. Two sets and two keys are enough for every conflict between two metas of a key, two keys of a set, and two blobs
of a size limit; the sets of `cache_parallel` store under the second key first, while the get looks in the other
order, so that it meets a set that is half done or was given up between its keys. One fault between two sets, a get and a clean covers what one failure leaves
behind for everybody else; `cache_live` has two. Two retries of `put` in place of five show the first, the repeated and
the last attempt. The intervals 0, 1 and 3 are always due, due at the next tick, and leave time to be woken early. With
three parts, a channel for one and a buffer for two, the reading thread has to wait, the buffer shrinks, and is
replaced; a content without parts would hide what is lost. Two faults break the upload and the download, or connect and
storage. In `pipeline` the first job breaks something or is cancelled, and the second one and the clean meet what it
left; the second fault lets the clean fail at it, too. All archives are in one directory below `/blob` and all metas in
one below `/meta`, so that every directory is raced for; the blobs of `cache_parallel` are in one, its metas in two.
With one get in `cache_parallel` no other can have written an old meta back, so that `OverwriteSticks` is checked there
without its excuse; the theorem is about any number. The same goes for a second leftover cleaner in `staged_cleaner`.
Two servers with two starts each are a first and a later start of both, at once or after each other; the texts are every
unit, space at every place, the largest number and the first ones beyond. Symmetric calls are exchanged where no
liveness is checked.

Fairness. Each call of a cache or storage is run by a thread of its own, which the operating system schedules
(`WF_vars(GetStep(g))` and so on); no call has to be made, no error and no kill has to happen. A put waiting for its
lock gets it once it stays free. In `CleanupTask` both threads are scheduled, a clean ends (`cache_live` shows why), and
for `PassesRecur` time passes, which is assumed in the property itself. Spurious wake-ups, signals and server failures
are never fair. In `RemoteCache` whoever was given a reader or writer uses it or gives it up, and the tasks of the
server are scheduled; neither side has a timeout, so that a peer that keeps a connection open and does nothing does
block the other. `Pipeline` has no liveness property: its loops go through finite lists, and what could make its calls
wait for ever is in the modules it stands on. In `ServerStart` only the shutdown is: that the requests in progress end
is assumed in `ShutdownEnds` itself.

### Where the code does not do what it says

Two runs check a statement of the documentation or a test, and TLC finds it violated. The statement and the line where
it goes wrong are in `PROJECT.json` under `findings`.

| Run | Statement | What happens |
|---|---|---|
| `cache_leftover` | overdue caches are deleted by a clean | the staged meta of a killed process makes every clean fail; `btdt clean` removes leftovers only after a clean that succeeded, the server never |
| `remote_truncated` | a get returns a reader for the data stored | a response that breaks off within its headers or a chunk is a hit that ends early, or is empty, without an error |

`remote_truncated` is why `remote` asks for the whole content only of connections that did not break, and why a hit that
was cut short answers nothing in its refinement.

Other limits of the code, which the properties are worded around:

* Dropping a writer that was never closed publishes what it has written (`staged_file.rs` documents it): a truncated
  blob and metas too short to be read, so that a get of the key fails until it is stored again. `HitIsComplete` says
  that such a blob is never delivered.
* Blobs no meta refers to any more are neither counted nor deleted by `clean`; `CleanMeetsLimits` is about what can
  still be found.
* A key that was stored or accessed after a clean has read its meta may be deleted with the rest; `CleanMeetsLimits` and
  `EvictsOldestFirst` are about a clean that has the cache to itself. A clean that meets the staged file of a writer at
  work fails, as it does on a leftover.
* A get writes back the meta it has read, with a new time of access. If a set of the same key was closed in between, the
  key leads to what was there before. `OverwriteSticks` says that nothing else brings old data back: whoever finds it
  can name another get that was called before the newer set closed and had found the same data.
* The leftover cleaner gives its lock back before it removes the file, so that it may remove one a writer has just
  opened again under the same name. `StagedIsKept` is about storages without cleaners, and `staged_cleaner` has writers
  with different suffixes: if, in addition, another writer drew the same suffix, the first would rename the file of the
  second before it is whole.
* Closing a writer of several keys is not atomic: readers may find the new content under one key and the old under
  another.
* A store that fails breaks good keys until the next store of them, and an upload that was cut off may break them again
  when the server drops its writer at last. `JobsRepair` is about jobs after that.
* A download that breaks off between two entries is unpacked as far as it goes and reported as a success;
  `RestoredIsWhole` excludes it.
* If the first of the keys is blank, a restore of any other ends with exit code 3, although the first one it looked up
  was found.
* A crash between creating and writing the key file leaves an empty one, with which no server starts until somebody
  removes it; and of two servers that start for the first time at once, one may fail. `StartsUndisturbed` says what is
  left.
* Sizes beyond 64 bits wrap around, unless a number is too large by itself; `LimitIsMeant` is about the others.
* A shutdown waits for the requests in progress without a timeout.
* A published file that is named like a staged one is removed by the leftover cleaner; in `staged_cleaner` that counts
  as a deletion.
* Two puts that create the same parent directory at once: one of them fails, and the set or store with it. What it had
  staged is dropped, so that a key may be left with an empty meta, on which gets and restores fail until it is stored
  again. `ParallelUseIsSafe` and `JobsRunThrough` except this, and `JobsRepair` is about jobs during which it does not
  happen.
* A leftover that cannot be opened or locked is passed over without an error, so that a clean that succeeds may leave it
  behind; `LeftoversGo` says that no other stays.
* The in-memory storage shows a file from `put` on and changes it in place. It does not implement `StorageSpec`;
  `ClosedIsReadWhole` is what holds of it.

## What is proved

With TLAPS, for all values of the constants:

* `LocalCacheProofs`: everything `cache_parallel` and `cache_serial` check.
  `HitIsCompleteHolds`: for any number of concurrent gets, sets and cleans, any key lists and any number of errors and
  kills, a hit delivers the whole content some set stored under the key the hit names. `HitIsComplete` is not inductive.
  The argument is the order of renames: a record in any file, staged or published, refers to a blob that is `complete`
  or was deleted after it had been, because `SetWriteMeta` comes after `SetCloseBlob` (`FlowInv`); a published record
  for key `k` names a set in `stored[k]`, and so do the records gets have read for `k` and are about to write back; and
  a set that still has a meta to write has not been given up. Together with the types of the key lists and indexes
  (`TypeInv`) this is inductive.
  `Implements`: a step of `LocalCache` is one of `CacheSpec` or leaves its variables alone. A set stores under each of
  its keys once, in order, and under all of them before it succeeds (`StoredInv`); what a hit names is published by
  `FlowInv`.
  `OverwriteSticksHolds`: what the file of a key names, and what a get between reading and opening names, is excused for
  every call that could still find it (`FreshInv`): stored since, deleted, or written back by another get. A set that
  renames a meta is the latest; a get that writes one back becomes the excuse for the calls that began after it.
  `ParallelIsSafe`: without faults what a call has staged is there until it renames it, only a set that has lost a race
  for a directory, which stays there, drops anything, and a short file is under a key such a set had staged (`CalmInv`).
  `NoEntryIsLost`: until the first clean a key keeps a file once it has one and no blob goes (`KeptInv`), whatever
  fails; that is also why `Implements` may say the first key with an entry. `LimitsAreMet` and `OldestFirst` are about
  cleans that have the cache to themselves. Then what such a clean has read is the state of the files still
  (`SerialInv`): what it has not listed yet is there, what it has read is in the files as it has read it, and the other
  way round (`SeenRight`, `FoundAll`, `FoundOnly`), and what it has planned to delete is all that leads to its victim
  (`Planned`). So what the heap holds is what can be found, and its sizes and times are true. That the sum of the sizes
  is what the code subtracts from takes `SizeIsUnits`: a sum over a finite set is the cardinality of a set of units,
  whose laws the library has; `GreatestNumber` gives the times of last use.
  All rest on `BoundsAssumption`, `KeyListAssumption` (lists of keys), `NameAssumption` (the names of files are
  different) and `AnswerAssumption` (so are the answers).
* `CleanupTaskProofs`: `TypeCorrect` (the timeout never underflows), `AbortIsHeededHolds`, `NotBeforeIntervalHolds` and
  `PassIsCompleteHolds`, from `IntervalAssumption` (intervals are natural numbers). Inductive are: while the thread
  waits, `elapsed` is at most the time since the last pass (`WaitInv`), because it is reset after the pass has ended;
  after an abort the thread is about to begin a pass at most once (`LateInv`); and a pass has tried whatever it has not
  still to do (`PassInv`).
* `RemoteCacheProofs`: `TypeCorrect`, `OnlyWholeStored`, `ReadsStored` and `UnbrokenWhole`. For uploads (`SetsInv`) the
  invariant ties the parts the handler has copied to what the client has written: what has been read and what is still
  on the connection is always a beginning of what was written, and the last chunk is on it only if all of it is. For
  downloads (`GetsInv`) it follows the content through buffer, channel, connection and client, each of which may be cut:
  the parts read so far, on the connection and in the channel are, in that order and each chunk beginning where the one
  before ended, a beginning of the content of one set stored under the key the headers name, which are sent before. Both
  are needed as a whole, since each step only hands a part on. They rest on `BoundsAssumption`, `BufferAssumption` (a
  buffer that is replaced in time is never empty) and `KeyAssumption`.
  `Implements`: the server passes over no key that had an entry when the get was called, unless it is `Forgetful`, and
  the key and content it sends are those the client ends with; a request names the keys of its set, the server answers a
  success only after it has stored under all of them, and the client takes nothing but that answer for one (`AcksInv`);
  that a hit which is not cut short is what some set stored is part of `GetsInv`. It rests on `AnswerAssumption`, too.
* `StagedStorageProofs`: `TypeCorrect`, `StagedKept`, `LeftoversGone` and `Implements`. A lock is held by a writer of
  its own latest file or by a cleaner about to give it back, and a staged name leads to the latest file of a writer that
  drew its suffix (`Base`). Without cleaners that is the one writer at work, since `create_new` finds the name taken
  (`Kept`); where no two writers draw the same suffix nobody else could have put a file there. A leftover's writer has
  ended, so that no writer holds its lock, and a cleaner that has not skipped it has still to come by it until it is
  gone (`OldPlace`); what is published was written by a writer that has ended (`Published`). `StagedKept` is about
  storages without cleaners, `LeftoversGone` about suffixes that differ (`DrawsApart`), `Implements` about either, which
  are the instances of `staged_parallel` and `staged_cleaner`; see above for why it takes one of them. They rest on
  `SizesAssumption` and `NoneAssumption`.
* `PipelineProofs`: `TypeCorrect`, `RestoredWhole`, `PrimaryMissing`, `LeftoversGone`, `Repairs` and `RunsThrough`.
  `RestoredIsWhole` needs that a meta that leads to an archive is moved after the archive is whole (`WriterInv`,
  `EntryInv`) and that what is being unpacked is what the lookup has found (`JobInv`); `PrimaryWasMissing` needs that
  the first key is passed over only if it was lost (`PrimaryInv`); `LeftoversGo` that no job that was killed leaves
  anything more, and that what was left when a clean began and is there still is on its list or was passed over
  (`CleanInv`). `JobsRepair` needs that no writer is dropped while nothing has failed since the start of a job that saw
  none being dropped (`SinceInv`), that metas are moved to archives that are there (`BlobInv`), and that the first key
  of such a job is found from the moment its first meta is moved, which it is before the others, and stays found
  (`StoreInv`, `RepairInv`). `JobsRunThrough` needs that a lost race stays lost, since no directory goes
  (`LostForGood`), that without faults a store is not given up while files are put, and that every empty meta is one
  such a store had staged (`RunInv`).
  They rest on `SizeAssumption` and `KeysAssumption`. What filtering blank keys returns is proved, too (`GivenFacts`).
* `ServerStartProofs`: `TypeCorrect`, `KeyShared`, `KeyStays`, `UndisturbedStarts`, `MeantLimits` and `ParsedIsMeant`.
  The key in the file is written by whoever has created the file, and only once (`WriteInv`); who serves has written or
  read it (`KeyInv`); who is alone is the only one between two of these calls (`AloneInv`, `RunInv`); the limit is what
  the parser has returned (`LimitInv`). `ParsedIsMeant` says that the parser rejects exactly the texts that are not
  those of a size, and returns what the others stand for if that fits into a word. The two agree on what is left of a
  text from every place on that is not within a number (`Agree`), from its end to its beginning: a number that has one
  of the forms of `HumanBytesSpec` is cut in the same places by the parser (`FormIs`), and what the parser has cut has
  one of the forms (`FormOf`). They rest on `ServerAssumption` (what `Settings` is), `WordAssumption` and
  `FactorAssumption` (no unit ends in the letter B that may follow a unit).
* `InMemoryStorageProofs`: `TypeCorrect`, `ClosedReadWhole`, `FilesRemain` and `WritersApart`, from `NodeAssumption`:
  the tree keeps its shape (`TreeInv`: what is below a directory is below it, and a node is in one place), a node has
  one writer (`WriterPlace`), and a reader's offset and what it has read belong to the node it was given
  (`ReaderPlace`).

The type invariants of `InMemoryStorage` and `ServerStart`, `WritersApart` and `ParsedIsMeant` are proved without being
part of a run.

The provers cannot instantiate the induction theorems of the library. Where a proof has to go through a sequence, a
recursive function or a finite set, `Minima` takes their place, two lemmas from the library's well-foundedness facts: if
a statement failed for some number, or some subset of a finite set, it would fail for a least one (`LeastNumber`,
`LeastSet`). For the recursive functions (`Given`, `Number`, `ParseFrom`, `Meaning`) it is proved first that there is a
function that satisfies the recursion, without which `CHOOSE` would stand for anything.

Every safety property of the passing runs, invariant or action property, is proved, and so are the three refinements.
Only model-checked: liveness (`Termination`, `ShutdownEnds`, `PassesRecur`), which is out of reach of the prover.

## What is not modelled

* `btdt hash`, a fold over directory entries with a cryptographic hash.
* Loading the configuration, which is a library's, and the storage handles of the server, which are constructors.
* The layout of archives and which entries are left out, which are tar's and ignore's.
* Everything about bytes: the layout of a meta, chunks within a part, bodies of a fixed size, which the client can read
  and the server never sends.
* The HTTP server, TLS, the signatures of tokens, the health check and the log middleware.
* A stop of the whole machine, after which the file system may have lost what was not synced: the code never syncs.

## Plan

1. *Done:* `LocalCache` with `CacheSpec`, `StagedStorage` with `StorageSpec`, `InMemoryStorage`, `CleanupTask`,
  `RemoteCache` (client, server API and stream adapter with its buffer), `Pipeline`, `ServerStart` with `HumanBytes`,
  and the proofs of every safety property the runs check, those of the three refinements included.
2. What a clean promises that does not have the cache to itself: what it deletes was due by what it had read.
3. `BodyReader`: fixed-size and chunked bodies as functions of the bytes that arrive.
4. The premises of liveness as theorems: measures that every step of a call decreases, from which termination follows
   under the fairness stated.
