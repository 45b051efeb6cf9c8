------------------------------- MODULE Pipeline -------------------------------
(***************************************************************************)
(* CI jobs that use one cache through the command line: Pipeline           *)
(* (btdt/src/pipeline.rs), the commands restore, store and clean           *)
(* (btdt-cli/src/main.rs) and the CacheDispatcher between them.  A job     *)
(* restores; unless the exit code is 0 it makes the files itself and       *)
(* stores them, as the guide in doc/src/getting-started.md has it.         *)
(*                                                                         *)
(* The cache is a directory, or one behind a server; then the CacheWriter  *)
(* lives in the server, and outlives the job that stores.  One lookup of a *)
(* key, one operation of a writer on one file and the listing of the       *)
(* directory of one key is a step; what happens within them is the matter  *)
(* of LocalCache, StagedStorage and RemoteCache.                           *)
(***************************************************************************)
EXTENDS Naturals, Sequences

CONSTANTS
    Job, Cleaner,
    Key, Blank,   \* keys; the empty text, which is none
    Keys,         \* Keys[j]: the argument --keys of the commands of j
    AnyKey,       \* jobs that restore with --success-rc-on-any-key
    Size,         \* entries of an archive
    SubDir,       \* SubDir[x]: the directory below /meta the meta of a key is
                  \* in, or below /blob the archive of a job
    MaxFaults,    \* bound on failing operations, broken connections and kills
    Absent, Broken  \* nothing; an empty meta record

Dir == {"blob", "meta"} \cup {SubDir[x] : x \in Key \cup Job}

ASSUME SizeAssumption == Size \in Nat \ {0} /\ MaxFaults \in Nat
ASSUME KeysAssumption ==
    /\ Keys \in [Job -> Seq(Key \cup {Blank})] /\ \A j \in Job : Keys[j] # <<>>
    /\ AnyKey \subseteq Job
    /\ Blank \notin Key /\ Broken \notin Job
    /\ Absent \notin Key \cup Job \cup {Broken, "0", "1", "3", "4"}
    /\ Absent \notin Dir \cup Nat

VARIABLES
    remote,   \* whether --cache is an URL
    entry,    \* entry[k]: the store whose archive the meta of k leads to
    blob,     \* blob[j]: the archive of j
    dirs,     \* the directories there are
    left,     \* the staged metas killed jobs have left, as <<job, key>>
    writer,   \* writer[j]: the CacheWriter of the store of j
    job, dest,  \* the jobs, and what is in their directories
    cleaner,
    faults,
    races, kept, since
        \* history: the stores that lost the race for a directory; keys that
        \* were there when the restore of j began and have not been lost since;
        \* the mishaps up to then, if none had effects to come
cache == <<entry, blob, kept>>
storage == <<dirs, left, races>>
vars == <<remote, entry, blob, dirs, left, writer, job, dest, cleaner, faults, races, kept, since>>

Ended == {"done", "dead"}
Exit == {Absent, "0", "1", "3", "4"}
\* Metas lo + 1 to hi are staged; n entries have been written to the archive;
\* dir was looked up and not found.
Writer == [pc : {"none", "putblob", "putmeta", "write", "closeblob", "closemeta", "closed",
                 "undo", "dropblob", "dropmeta", "dropped", "dead"},
           lo : Nat, hi : Nat, n : 0..Size, dir : Dir \cup {Absent}]
JobState == [pc : {"new", "lookup", "unpack", "make", "store", "wait"} \cup Ended,
             i : Nat \ {0}, key : Key \cup {Absent}, from : Job \cup {Absent}, n : 0..Size,
             restored : Exit, stored : Exit, cut : BOOLEAN]
\* read: keys whose directory is still to be read; todo: the archives that were
\* listed, then those to evict; tmp: left files that are still to be looked at;
\* history: old, what was left when the clean began; skipped, what of it could
\* not be opened or locked.
Clean == [pc : {"new", "read", "evict", "keys", "tmp", "ok", "err"}, read : SUBSET Key,
          found : SUBSET (Key \X Job), todo : SUBSET Job, victim : Job \cup {Absent},
          tmp : SUBSET (Job \X Key), old : SUBSET (Job \X Key), skipped : SUBSET (Job \X Key)]

TypeOK ==
    /\ remote \in BOOLEAN /\ faults \in 0..MaxFaults
    /\ entry \in [Key -> Job \cup {Absent, Broken}]
    /\ blob \in [Job -> {"none", "there", "deleted"}]
    /\ dirs \subseteq Dir /\ left \subseteq Job \X Key
    /\ writer \in [Job -> Writer]
    /\ job \in [Job -> JobState]
    /\ dest \in [Job -> [1..Size -> Job \cup {Absent}]]
    /\ cleaner \in [Cleaner -> Clean]
    /\ kept \in [Job -> SUBSET Key]
    /\ races \in Nat /\ since \in [Job -> Nat \cup {Absent}]

Init ==
    /\ remote \in BOOLEAN /\ faults = 0 /\ races = 0
    /\ entry = [k \in Key |-> Absent]
    /\ blob = [j \in Job |-> "none"]
    /\ dirs = {} /\ left = {}
    /\ writer = [j \in Job |-> [pc |-> "none", lo |-> 0, hi |-> 0, n |-> 0, dir |-> Absent]]
    /\ job = [j \in Job |-> [pc |-> "new", i |-> 1, key |-> Absent, from |-> Absent, n |-> 0,
                             restored |-> Absent, stored |-> Absent, cut |-> FALSE]]
    /\ dest = [j \in Job |-> [p \in 1..Size |-> Absent]]
    /\ cleaner = [c \in Cleaner |-> [pc |-> "new", read |-> {}, found |-> {}, todo |-> {},
                            victim |-> Absent, tmp |-> {}, old |-> {}, skipped |-> {}]]
    /\ kept = [j \in Job |-> {}] /\ since = [j \in Job |-> 0]

Fault == faults < MaxFaults /\ faults' = faults + 1
\* CacheEntriesRef::keys: those that are not empty, in order.
GivenKeys ==
    [j \in Job |->
        LET upto[i \in 0..Len(Keys[j])] ==
                IF i = 0 THEN <<>>
                ELSE IF Keys[j][i] = Blank THEN upto[i - 1] ELSE Append(upto[i - 1], Keys[j][i])
        IN  upto[Len(Keys[j])]]
Given(j) == GivenKeys[j]

Found(k) == entry[k] \in Job /\ blob[entry[k]] = "there"
CacheBecomes(e, b) ==
    /\ entry' = e /\ blob' = b
    /\ kept' = [j \in Job |-> {k \in kept[j] : e[k] \in Job /\ b[e[k]] = "there"}]
\* A server does not see before the upload is to begin that the client is gone.
Putting(j) == writer[j].pc \in {"putblob", "putmeta"}
Dropping(j) == writer[j].pc \in {"undo", "dropblob", "dropmeta"}
\* Mutant: a client that has sent everything does not wait for the answer.
Impatient(j) == writer[j].pc # "none"
Doomed(j) == Dropping(j) \/ (Putting(j) /\ job[j].pc # "store")
Mishaps == faults + races

-----------------------------------------------------------------------------
(* restore: look the keys up in order, unpack the first that is there.     *)

RestoreFrame == UNCHANGED <<remote, writer, cleaner, storage>>
Restored(j, rc) ==
    job' = [job EXCEPT ![j].restored = rc, ![j].pc = IF rc = "0" THEN "done" ELSE "make"]

\* to_cache fails if the directory or the token is not as it has to be.
RestoreStart(j) ==
    /\ job[j].pc = "new"
    /\ \/ job' = [job EXCEPT ![j].pc = "lookup"] /\ UNCHANGED faults
       \/ Fault /\ Restored(j, "1")
    /\ kept' = [kept EXCEPT ![j] = {k \in Key : Found(k)}]
    /\ since' = [since EXCEPT ![j] = IF \E o \in Job : Doomed(o) THEN Absent ELSE Mishaps]
    /\ UNCHANGED <<entry, blob, dest>> /\ RestoreFrame

TryNextKey(j) == job' = [job EXCEPT ![j].i = @ + 1]
Lookup(j) ==
    /\ job[j].pc = "lookup" /\ job[j].i <= Len(Given(j))
    /\ LET k == Given(j)[job[j].i]
       IN  \/ Found(k) /\ job' = [job EXCEPT ![j].pc = "unpack", ![j].key = k, ![j].from = entry[k]]
           \/ entry[k] # Broken /\ ~Found(k) /\ TryNextKey(j)
           \/ entry[k] = Broken /\ Restored(j, "1")
    /\ UNCHANGED <<cache, dest, faults, since>> /\ RestoreFrame
\* A lookup also writes the meta anew, and may be left half-way.
LookupFails(j) ==
    /\ job[j].pc = "lookup" /\ job[j].i <= Len(Given(j)) /\ Fault /\ Restored(j, "1")
    /\ \/ UNCHANGED cache
       \/ /\ entry[Given(j)[job[j].i]] \in Job
          /\ CacheBecomes([entry EXCEPT ![Given(j)[job[j].i]] = Broken], blob)
    /\ UNCHANGED <<dest, since>> /\ RestoreFrame
NoKeyFound(j) ==
    /\ job[j].pc = "lookup" /\ job[j].i > Len(Given(j)) /\ Restored(j, "4")
    /\ UNCHANGED <<cache, dest, faults, since>> /\ RestoreFrame

\* Mutant: || in place of && in the condition of exit code 3.
ExitCodeOr(j) == IF j \in AnyKey /\ job[j].key = Keys[j][1] THEN "0" ELSE "3"
\* The primary key is the first one given, be it blank.
ExitCode(j) == IF j \in AnyKey \/ job[j].key = Keys[j][1] THEN "0" ELSE "3"
\* Mutant: reads on at the end.
HasOneMore(j) == job[j].n <= writer[job[j].from].n
HasMore(j) == job[j].n < writer[job[j].from].n
Unpack(j) ==
    /\ job[j].pc = "unpack" /\ HasMore(j)
    /\ job' = [job EXCEPT ![j].n = @ + 1]
    /\ dest' = [dest EXCEPT ![j][job[j].n + 1] = job[j].from]
    /\ UNCHANGED <<cache, faults, since>> /\ RestoreFrame
Unpacked(j) ==
    /\ job[j].pc = "unpack" /\ ~HasMore(j)
    /\ Restored(j, ExitCode(j))
    /\ UNCHANGED <<cache, dest, faults, since>> /\ RestoreFrame
\* A file cannot be read or written, or the connection breaks.  A stream that
\* ends between two entries is for the archive reader the end of the archive.
UnpackFails(j) ==
    /\ job[j].pc = "unpack" /\ Fault
    /\ \/ Restored(j, "1")
       \/ /\ remote
          /\ job' = [job EXCEPT ![j].cut = TRUE, ![j].restored = ExitCode(j),
                                ![j].pc = IF ExitCode(j) = "0" THEN "done" ELSE "make"]
    /\ UNCHANGED <<cache, dest, since>> /\ RestoreFrame

\* The job makes the files anew, and calls store.
Make(j) ==
    /\ job[j].pc = "make" /\ job' = [job EXCEPT ![j].pc = "store"]
    /\ dest' = [dest EXCEPT ![j] = [p \in 1..Size |-> j]]
    /\ UNCHANGED <<cache, faults, since>> /\ RestoreFrame

-----------------------------------------------------------------------------
(* store: cache.set stages the archive and a meta for each key, ...        *)

StoreFrame == UNCHANGED <<remote, dest, cleaner, since>>
WriterGoes(j, pc) == writer' = [writer EXCEPT ![j].pc = pc]
JobGoes(j, pc) == job' = [job EXCEPT ![j].pc = pc]
Exits(j, rc) == job' = [job EXCEPT ![j].pc = "done", ![j].stored = rc]

StoreStart(j) ==
    /\ job[j].pc = "store" /\ writer[j].pc = "none"
    /\ \/ WriterGoes(j, "putblob") /\ UNCHANGED <<job, faults>>
       \/ Fault /\ Exits(j, "1") /\ UNCHANGED writer
    /\ UNCHANGED <<cache, storage>> /\ StoreFrame

\* Where the next file is to be put: the first directory that is not there.
AllPut(j) == writer[j].pc = "putmeta" /\ writer[j].hi = Len(Given(j))
Missing(j) ==
    LET top == IF writer[j].pc = "putblob" THEN "blob" ELSE "meta"
        sub == SubDir[IF writer[j].pc = "putblob" THEN j ELSE Given(j)[writer[j].hi + 1]]
    IN  IF top \in dirs THEN {sub} \ dirs ELSE {top}
MissesDir(j) ==
    /\ Putting(j) /\ ~AllPut(j) /\ writer[j].dir = Absent
    /\ \E d \in Missing(j) : writer' = [writer EXCEPT ![j].dir = d]
    /\ UNCHANGED <<cache, storage, job, faults>> /\ StoreFrame

\* `?' leaves set: the metas there are are dropped first, then the archive.
GivesUp(j) ==
    /\ writer' = [writer EXCEPT ![j].pc = IF @ = "putblob" THEN "dropped" ELSE "undo"]
    /\ job' = [job EXCEPT ![j].pc = IF @ = "store" THEN "wait" ELSE @]
\* create_dir fails if another store has made the directory meanwhile.
MakeDir(j) ==
    /\ Putting(j) /\ writer[j].dir # Absent
    /\ \/ /\ writer[j].dir \notin dirs /\ dirs' = dirs \cup {writer[j].dir}
          /\ writer' = [writer EXCEPT ![j].dir = Absent] /\ UNCHANGED <<job, races>>
       \/ /\ writer[j].dir \in dirs /\ UNCHANGED dirs
          /\ GivesUp(j) /\ races' = races + 1
    /\ UNCHANGED <<cache, left, faults>> /\ StoreFrame

Put(j) ==
    /\ Putting(j) /\ writer[j].dir = Absent
    /\ \/ ~AllPut(j) /\ Missing(j) = {}
          /\ writer' = [writer EXCEPT ![j].pc = "putmeta",
                                      ![j].hi = IF writer[j].pc = "putmeta" THEN @ + 1 ELSE @]
       \/ AllPut(j) /\ WriterGoes(j, IF job[j].pc = "store" THEN "write" ELSE "dropblob")
    /\ UNCHANGED <<cache, storage, job, faults>> /\ StoreFrame

\* ... the entries of the directory are appended one after the other, ...
AddEntry(j) ==
    /\ job[j].pc = "store" /\ writer[j].pc = "write" /\ writer[j].n < Size
    /\ writer' = [writer EXCEPT ![j].n = @ + 1]
    /\ UNCHANGED <<cache, storage, job, faults>> /\ StoreFrame

\* ... and into_inner and close follow once the archive is finished.
Finish(j) ==
    /\ job[j].pc = "store" /\ writer[j].pc = "write" /\ writer[j].n = Size
    /\ WriterGoes(j, "closeblob") /\ JobGoes(j, "wait")
    /\ UNCHANGED <<cache, storage, faults>> /\ StoreFrame

\* A put or write fails, an entry cannot be read or is of no supported type, or
\* the connection breaks: `?' leaves the function, and the writer is dropped.
StoreFails(j) ==
    /\ Fault
    /\ \/ Putting(j) /\ ~AllPut(j) /\ GivesUp(j)
       \/ remote /\ Putting(j) /\ job[j].pc = "store" /\ JobGoes(j, "wait") /\ UNCHANGED writer
       \/ /\ writer[j].pc = "write" /\ job[j].pc = "store"
          /\ WriterGoes(j, "dropblob") /\ JobGoes(j, "wait")
    /\ UNCHANGED <<cache, storage>> /\ StoreFrame

\* The archive is moved to its place first, then the metas, one by one.
MoveBlob(j, next) ==
    /\ WriterGoes(j, next) /\ CacheBecomes(entry, [blob EXCEPT ![j] = "there"])
    /\ UNCHANGED <<storage, job, faults>> /\ StoreFrame
\* Mutant: the last meta is not moved.
AllButLast(j) == writer[j].lo + 1 < writer[j].hi
MetaLeft(j) == writer[j].lo < writer[j].hi
NextMeta(j) == Given(j)[writer[j].lo + 1]
MoveMeta(j, to) ==
    /\ MetaLeft(j) /\ writer' = [writer EXCEPT ![j].lo = @ + 1]
    /\ CacheBecomes([entry EXCEPT ![NextMeta(j)] = to], blob)
    /\ UNCHANGED <<storage, job, faults>> /\ StoreFrame
AllMoved(j, pc) ==
    /\ ~MetaLeft(j) /\ WriterGoes(j, pc)
    /\ UNCHANGED <<cache, storage, job, faults>> /\ StoreFrame

\* Mutant: the meta record is written when it is staged.
AsStored(j) == j
\* The metas of a writer that is dropped have nothing in them.
AsDropped(j) == Broken
CloseStep(j) ==
    \/ writer[j].pc = "closeblob" /\ MoveBlob(j, "closemeta")
    \/ writer[j].pc = "closemeta" /\ (MoveMeta(j, j) \/ AllMoved(j, "closed"))
DropStep(j) ==
    \/ writer[j].pc = "dropblob" /\ MoveBlob(j, "dropmeta")
    \/ writer[j].pc = "dropmeta" /\ (MoveMeta(j, AsDropped(j)) \/ AllMoved(j, "dropped"))
    \/ writer[j].pc = "undo" /\ (\/ MoveMeta(j, AsDropped(j))
                                 \/ ~MetaLeft(j) /\ MoveBlob(j, "dropped"))
\* Writing one file fails, and all that are left are dropped; or moving it
\* does, it stays as it is, and the others are dropped.
CloseFails(j) ==
    /\ Fault
    /\ \/ writer[j].pc = "closeblob" /\ WriterGoes(j, "dropmeta")
       \/ /\ writer[j].pc = "closemeta" /\ MetaLeft(j)
          /\ \E lo \in {writer[j].lo, writer[j].lo + 1} :
                writer' = [writer EXCEPT ![j].pc = "dropmeta", ![j].lo = lo]
    /\ UNCHANGED <<cache, storage, job>> /\ StoreFrame

\* The server answers, unless the connection breaks; a job whose upload failed
\* does not wait for the server to drop the writer.
StoreEnds(j) ==
    /\ job[j].pc = "wait"
    /\ \/ writer[j].pc = "closed" /\ Exits(j, "0") /\ UNCHANGED faults
       \/ writer[j].pc = "dropped" /\ Exits(j, "1") /\ UNCHANGED faults
       \/ remote /\ Doomed(j) /\ Exits(j, "1") /\ UNCHANGED faults
       \/ remote /\ Fault /\ Exits(j, "1")
    /\ UNCHANGED <<cache, storage, writer>> /\ StoreFrame

\* A job is cancelled: the metas it has staged in a directory, or the one that a
\* lookup was about to write anew, are left behind, but a server drops the
\* writer when it finds the upload to be cut off.
AtWork(j) == writer[j].pc \notin {"none", "closed", "dropped", "dead"}
StagedBy(j) == {<<j, Given(j)[i]>> : i \in (writer[j].lo + 1)..writer[j].hi}
WritesBack(j) ==
    {<<j, k>> : k \in {k \in Key : /\ job[j].pc = "lookup" /\ job[j].i <= Len(Given(j))
                                  /\ k = Given(j)[job[j].i] /\ entry[k] \in Job}}
Kill(j) ==
    /\ job[j].pc \notin Ended \cup {"new"} /\ Fault /\ JobGoes(j, "dead")
    /\ \/ /\ ~remote
          /\ \E b \in SUBSET WritesBack(j) :
                left' = left \cup b \cup (IF AtWork(j) THEN StagedBy(j) ELSE {})
          /\ WriterGoes(j, IF AtWork(j) THEN "dead" ELSE writer[j].pc)
       \/ /\ remote /\ UNCHANGED left
          /\ WriterGoes(j, IF writer[j].pc = "write" THEN "dropblob" ELSE writer[j].pc)
    /\ UNCHANGED <<cache, dirs, races>> /\ StoreFrame

-----------------------------------------------------------------------------
(* clean, of the command line or of a pass of the server's cleanup thread: *)
(* it reads all metas, staged ones too, and fails if one of them is empty. *)

CleanFrame == UNCHANGED <<remote, writer, job, dest, since, dirs, races>>
CleanGoes(c, pc) == cleaner' = [cleaner EXCEPT ![c].pc = pc]
StagedFor(k) == \E j \in Job : <<j, k>> \in left \/ (AtWork(j) /\ <<j, k>> \in StagedBy(j))
\* Only in a directory are leftover staged files looked for, at the end.
WalkLeftovers(c) ==
    cleaner' = [cleaner EXCEPT ![c].pc = IF remote THEN "ok" ELSE "tmp", ![c].tmp = left]

\* With a limit /blob is listed first; without one there is nothing to evict.
CleanStart(c) ==
    /\ cleaner[c].pc = "new"
    /\ LET mark == [cleaner[c] EXCEPT !.old = left]
       IN  \/ ~ {"blob", "meta"} \subseteq dirs /\ CleanGoes(c, "err")
           \/ /\ {"blob", "meta"} \subseteq dirs
              /\ cleaner' = [cleaner EXCEPT ![c] = [mark EXCEPT !.pc = "read", !.read = Key,
                                                       !.todo = {j \in Job : blob[j] = "there"}]]
           \/ ~remote /\ cleaner' = [cleaner EXCEPT ![c] = [mark EXCEPT !.pc = "tmp", !.tmp = left]]
    /\ UNCHANGED <<cache, left, faults>> /\ CleanFrame

Reads(c, k) ==
    cleaner' = [cleaner EXCEPT ![c].read = @ \ {k},
                               ![c].found = @ \cup ({<<k, entry[k]>>} \cap ({k} \X cleaner[c].todo))]
CleanRead(c) ==
    /\ cleaner[c].pc = "read"
    /\ \/ \E k \in cleaner[c].read :
             IF entry[k] = Broken \/ StagedFor(k) THEN CleanGoes(c, "err") ELSE Reads(c, k)
       \/ /\ cleaner[c].read = {}
          /\ \E todo \in SUBSET {e[2] : e \in cleaner[c].found} :
                cleaner' = [cleaner EXCEPT ![c].pc = "evict", ![c].todo = todo]
    /\ UNCHANGED <<cache, left, faults>> /\ CleanFrame

CleanEvict(c) ==
    /\ cleaner[c].pc = "evict"
    /\ \/ \E j \in cleaner[c].todo :
             cleaner' = [cleaner EXCEPT ![c].pc = "keys", ![c].victim = j, ![c].todo = @ \ {j}]
       \/ cleaner[c].todo = {} /\ WalkLeftovers(c)
    /\ UNCHANGED <<cache, left, faults>> /\ CleanFrame

\* The keys are deleted by their names, whatever they lead to by now.
KeysOf(c) == {e \in cleaner[c].found : e[2] = cleaner[c].victim}
CleanKey(c) ==
    /\ cleaner[c].pc = "keys"
    /\ \E e \in KeysOf(c) :
          \/ /\ entry[e[1]] # Absent /\ CacheBecomes([entry EXCEPT ![e[1]] = Absent], blob)
             /\ cleaner' = [cleaner EXCEPT ![c].found = @ \ {e}]
          \/ entry[e[1]] = Absent /\ CleanGoes(c, "err") /\ UNCHANGED cache
    /\ UNCHANGED <<left, faults>> /\ CleanFrame
CleanBlob(c) ==
    /\ cleaner[c].pc = "keys" /\ KeysOf(c) = {}
    /\ LET j == cleaner[c].victim
       IN  \/ /\ blob[j] = "there" /\ CleanGoes(c, "evict")
              /\ CacheBecomes(entry, [blob EXCEPT ![j] = "deleted"])
           \/ blob[j] # "there" /\ CleanGoes(c, "err") /\ UNCHANGED cache
    /\ UNCHANGED <<left, faults>> /\ CleanFrame

\* Mutant: the walk ends with the first file that cannot be opened or locked.
WalkEnds(c, f) == {}
WalkGoesOn(c, f) == cleaner[c].tmp \ {f}
\* A file is removed, or passed over if it is gone or cannot be opened or locked;
\* two cleans at the same file are the matter of StagedStorage.
CleanTmp(c) ==
    /\ cleaner[c].pc = "tmp"
    /\ \/ \E f \in cleaner[c].tmp :
             \/ /\ f \in left /\ left' = left \ {f}
                /\ cleaner' = [cleaner EXCEPT ![c].tmp = @ \ {f}]
             \/ /\ UNCHANGED left
                /\ cleaner' = [cleaner EXCEPT ![c].tmp = WalkGoesOn(c, f), ![c].skipped = @ \cup {f}]
       \/ cleaner[c].tmp = {} /\ CleanGoes(c, "ok") /\ UNCHANGED left
    /\ UNCHANGED <<cache, faults>> /\ CleanFrame
CleanFails(c) ==
    /\ cleaner[c].pc \in {"read", "evict", "keys", "tmp"} /\ Fault /\ CleanGoes(c, "err")
    /\ UNCHANGED <<cache, left>> /\ CleanFrame

-----------------------------------------------------------------------------
RestoreStep(j) ==
    RestoreStart(j) \/ Lookup(j) \/ NoKeyFound(j) \/ Unpack(j) \/ Unpacked(j) \/ Make(j)
StoreStep(j) == StoreStart(j) \/ AddEntry(j) \/ Finish(j) \/ StoreEnds(j)
WriterStep(j) == MissesDir(j) \/ MakeDir(j) \/ Put(j) \/ CloseStep(j) \/ DropStep(j)
JobFails(j) == LookupFails(j) \/ UnpackFails(j) \/ StoreFails(j) \/ CloseFails(j) \/ Kill(j)
CleanStep(c) == CleanRead(c) \/ CleanEvict(c) \/ CleanKey(c) \/ CleanBlob(c) \/ CleanTmp(c)

Next ==
    \/ \E j \in Job : RestoreStep(j) \/ StoreStep(j) \/ WriterStep(j) \/ JobFails(j)
    \/ \E c \in Cleaner : CleanStart(c) \/ CleanStep(c) \/ CleanFails(c)

Spec == Init /\ [][Next]_vars

-----------------------------------------------------------------------------
(* Correctness.                                                            *)

\* What restore leaves in the directory when it reports success - exit code 0
\* or 3 - is all of the archive of one store, which was given the key, unless
\* the connection broke; when it reports that there is no key, nothing.
RestoreOver(j) == job[j].pc = "make" \/ (job[j].pc = "done" /\ job[j].restored = "0")
RestoredIsWhole ==
    \A j \in Job : RestoreOver(j) =>
        /\ job[j].restored \in {"0", "3"} /\ ~job[j].cut =>
              /\ \A p \in 1..Size : dest[j][p] = job[j].from
              /\ \E i \in DOMAIN Given(job[j].from) : Given(job[j].from)[i] = job[j].key
        /\ job[j].restored = "4" => \A p \in 1..Size : dest[j][p] = Absent

\* Exit codes 3 and 4 are the truth: the primary key was not in the cache when
\* the restore began, or got lost meanwhile - unless the first key is blank.
PrimaryWasMissing ==
    \A j \in Job : job[j].restored \in {"3", "4"} /\ job[j].pc # "dead" => Keys[j][1] \notin kept[j]

\* A job during which nothing fails leaves its first key in the cache, whatever
\* earlier failures made of it: broken keys are repaired.  It fails that two
\* stores make the same directory, one of which loses; and no upload that was
\* given up before the job may have still to be dropped.
JobsRepair ==
    (\A c \in Cleaner : cleaner[c].pc = "new") =>
        \A j \in Job \ AnyKey : job[j].pc = "done" /\ since[j] = Mishaps /\ Given(j) # <<>> =>
            Found(Given(j)[1])

\* j has found a directory missing that another store has made by now.
LostRace(j) == writer[j].dir \in dirs
\* If no operation fails, jobs that run in parallel, with cleans beside them,
\* fail in no way but one: a store fails if another has just made the directory
\* it was about to make, and a restore of a key of such a store may, too.
JobsRunThrough ==
    faults = 0 =>
        \A j \in Job :
            /\ job[j].stored = "1" => LostRace(j)
            /\ job[j].restored = "1" =>
                  \E o \in Job : LostRace(o) /\ \E i \in DOMAIN Given(o) :
                                                Given(o)[i] = Given(j)[job[j].i]

\* A clean that succeeds has removed every staged meta that killed jobs had left
\* when it began, but those it could not open or lock; any that stays makes
\* cleans with a limit fail.
LeftoversGo ==
    \A c \in Cleaner : cleaner[c].pc = "ok" => cleaner[c].old \cap left \subseteq cleaner[c].skipped
=============================================================================
