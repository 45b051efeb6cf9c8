------------------------------ MODULE LocalCache ------------------------------
(***************************************************************************)
(* The local cache (btdt/src/cache/local.rs) on a storage whose put/close  *)
(* stages a file and renames it, as FilesystemStorage does.                *)
(*                                                                         *)
(* One process per call: a Getter is one call of LocalCache::get, a Setter *)
(* one call of LocalCache::set with the writer it returns, a Cleaner one   *)
(* call of LocalCache::clean.  An action is one storage operation, so that *)
(* calls interleave wherever two btdt processes, or two threads of the     *)
(* server, can.  A blob id is a fresh random number drawn by set, so the   *)
(* Setter names its blob.  `file' holds every file below /meta: the meta   *)
(* file of a key, and the staged *.tmp.* file of a writer.                 *)
(***************************************************************************)
EXTENDS Naturals, Sequences, FiniteSets, FiniteSetsExt

CONSTANTS
    Key, Getter, Setter, Cleaner,
    Lookups, Stores,  \* the key lists get and set are called with
    Size,             \* Size[s]: bytes of the complete blob of s
    MaxAge, MaxSize,  \* the limits clean is called with
    SubDir,           \* SubDir[x]: the directory below /meta the meta of a key
                      \* is in, or below /blob a blob
    Collide,          \* staged files whose name hashes to their directory
    Overlap,          \* FALSE: one btdt process at a time
    MaxFaults,        \* bound on I/O errors and crashes
    MaxTime,          \* bound on the clock
    Absent, Short     \* no such file; a file too short for a meta record

Staged == Getter \cup (Setter \X Key)
File   == Key \cup Staged
Time   == 0..MaxTime
Meta   == [blob : Setter, access : Time]
Body   == Meta \cup {Absent, Short}
Dir    == {"blob", "meta"} \cup {SubDir[x] : x \in Key \cup Setter}

ASSUME BoundsAssumption ==
    /\ MaxAge \in Nat /\ MaxSize \in Nat /\ MaxFaults \in Nat /\ MaxTime \in Nat
    /\ Size \in [Setter -> Nat] /\ Overlap \in BOOLEAN
\* A list stored names a key once: twice would write the same meta twice.
ASSUME KeyListAssumption ==
    /\ Lookups \subseteq Seq(Key) /\ Stores \subseteq Seq(Key)
    /\ \A ks \in Stores : \A i, j \in DOMAIN ks : ks[i] = ks[j] => i = j
ASSUME NameAssumption ==
    /\ Collide \subseteq Staged
    /\ Absent \notin Meta /\ Short \notin Meta /\ Absent # Short
    /\ Key \cap Staged = {} /\ Getter \cap (Setter \X Key) = {}
    /\ Absent \notin Dir
\* What stands for no answer yet and for a failure is told from the others.
ASSUME AnswerAssumption ==
    /\ "ok" \notin {Absent, Short} /\ Short \notin Stores
    /\ Short \notin [keys : Seq(Key), entries : SUBSET Key]

VARIABLES
    now, faults,
    file, blob, dirs,   \* the storage: /meta, /blob, the directories there are
    stored,             \* history: the sets published under a key, in order
    get, set, clean     \* the calls
vars == <<now, faults, file, blob, dirs, stored, get, set, clean>>

BlobFile == {"absent", "partial", "complete", "deleted"}
Ended    == {"hit", "none", "ok", "err", "dead"}

\* keys[i] is looked up; body: what the opened blob holds; mark[k]: how many
\* sets had been published under k when get was called.
GetCall == [pc : Ended \cup {"new", "read", "put", "write", "close", "open"},
            keys : Seq(Key), i : Nat, meta : Meta \cup {Absent},
            body : BlobFile, mark : [Key -> Nat]]
\* dir: a directory a put has found missing; at: the access time; open: the
\* keys whose meta writer is not finalized.
SetCall == [pc : Ended \cup {"new", "putblob", "putmeta", "write", "writemeta",
                             "closemeta", "dropall", "drop", "undo"},
            keys : Seq(Key), i : Nat, dir : Dir \cup {Absent}, at : Time,
            open : SUBSET Key]
\* seen: the blobs listed; dirs, todo: what is left of the pass; found: the
\* metas read; at: the time the cutoff is computed from.
CleanCall == [pc : Ended \cup {"new", "blobs", "size", "metas", "evict", "delmeta",
                               "delblob"},
              seen : SUBSET Setter, dirs : SUBSET Key, todo : SUBSET (File \cup Setter),
              found : SUBSET [key : File, meta : Meta], at : Time,
              victim : Setter \cup {Absent}]

TypeOK ==
    /\ now \in Time /\ faults \in 0..MaxFaults
    /\ file \in [File -> Body]
    /\ blob \in [Setter -> BlobFile]
    /\ dirs \subseteq Dir
    /\ stored \in [Key -> Seq(Setter)]
    /\ get \in [Getter -> GetCall]
    /\ set \in [Setter -> SetCall]
    /\ clean \in [Cleaner -> CleanCall]

Init ==
    /\ now = 0 /\ faults = 0
    /\ file = [f \in File |-> Absent]
    /\ blob = [s \in Setter |-> "absent"]
    /\ dirs = {}
    /\ stored = [k \in Key |-> <<>>]
    /\ get = [g \in Getter |-> [pc |-> "new", keys |-> <<>>, i |-> 1, meta |-> Absent,
                                body |-> "absent", mark |-> [k \in Key |-> 0]]]
    /\ set = [s \in Setter |-> [pc |-> "new", keys |-> <<>>, i |-> 1, dir |-> Absent,
                                at |-> 0, open |-> {}]]
    /\ clean = [c \in Cleaner |-> [pc |-> "new", seen |-> {}, dirs |-> {}, todo |-> {},
                                   found |-> {}, at |-> 0, victim |-> Absent]]

-----------------------------------------------------------------------------
(* The storage operations the cache is built from.                         *)

\* Mutant: an error other than NotFound is not told from success.
OpensAnything(b) == TRUE
BlobExists(b) == blob[b] \in {"partial", "complete"}
\* Mutant: put creates the target itself.
StageAtTarget(t, k) == file' = [file EXCEPT ![k] = Short]
\* Storage::put creates an empty staged file next to its target k.
Stage(t, k) == file' = [file EXCEPT ![t] = Short]
\* Mutant: only the blob id is written, not the record.
WriteBlobId(t, m) == file' = [file EXCEPT ![t] = m.blob]
\* write_all of a meta; into an unlinked file if a clean removed it.
WriteTo(t, m) == file' = [file EXCEPT ![t] = IF @ = Absent THEN Absent ELSE m]
\* Mutant: a rename that does not replace its target.
PublishOnce(t, k) ==
    file' = [file EXCEPT ![k] = IF @ = Absent THEN file[t] ELSE @, ![t] = Absent]
\* Close::close, and Drop of a writer that was not closed: rename.
Publish(t, k) == file' = [file EXCEPT ![k] = file[t], ![t] = Absent]

Fault == faults < MaxFaults /\ faults' = faults + 1

Running(call) == call.pc \notin Ended \cup {"new"}
Idle == /\ \A g \in Getter : ~Running(get[g])
        /\ \A s \in Setter : ~Running(set[s])
        /\ \A c \in Cleaner : ~Running(clean[c])
MayStart == Overlap \/ Idle

Tick ==
    /\ now < MaxTime /\ now' = now + 1
    /\ UNCHANGED <<faults, file, blob, dirs, stored, get, set, clean>>

-----------------------------------------------------------------------------
(* LocalCache::get: look the keys up in order; refresh the access time of  *)
(* the meta that was found by writing it anew; open its blob.              *)

GKey(g) == get[g].keys[get[g].i]
GetGoto(g, pc) == get' = [get EXCEPT ![g].pc = pc]
GetFrame == UNCHANGED <<now, blob, dirs, stored, set, clean>>

GetStart(g) ==
    /\ get[g].pc = "new" /\ MayStart
    /\ \E ks \in Lookups :
          get' = [get EXCEPT ![g].pc = "read", ![g].keys = ks,
                             ![g].mark = [k \in Key |-> Len(stored[k])]]
    /\ UNCHANGED <<faults, file>> /\ GetFrame

\* Mutants: the key index is advanced twice, or not at all.
SkipNextKey(g) == get' = [get EXCEPT ![g].pc = "read", ![g].i = @ + 2]
TrySameKey(g)  == get' = [get EXCEPT ![g].pc = "read"]
\* `continue': nothing can be had under this key.
TryNextKey(g) == get' = [get EXCEPT ![g].pc = "read", ![g].i = @ + 1]

\* read_meta, or Ok(None) after the last key.  A published file never
\* changes, so opening and reading it is one step.
GetReadMeta(g) ==
    /\ get[g].pc = "read"
    /\ \/ get[g].i > Len(get[g].keys) /\ GetGoto(g, "none")
       \/ /\ get[g].i <= Len(get[g].keys)
          /\ \/ file[GKey(g)] = Absent /\ TryNextKey(g)
             \/ file[GKey(g)] = Short /\ GetGoto(g, "err")   \* UnexpectedEof
             \/ /\ file[GKey(g)] \in Meta
                /\ get' = [get EXCEPT ![g].pc = "put",
                              ![g].meta = [file[GKey(g)] EXCEPT !.access = now]]
    /\ UNCHANGED <<faults, file>> /\ GetFrame

\* The directories of the key were made when the meta that was found was put,
\* and nothing removes them.
GetPut(g) ==
    /\ get[g].pc = "put" /\ GetGoto(g, "write")
    /\ Stage(g, GKey(g))
    /\ UNCHANGED faults /\ GetFrame

GetWrite(g) ==
    /\ get[g].pc = "write" /\ GetGoto(g, "close")
    /\ WriteTo(g, get[g].meta)
    /\ UNCHANGED faults /\ GetFrame

\* The rename fails if a clean took the staged file for a meta file.
GetClose(g) ==
    /\ get[g].pc = "close"
    /\ \/ file[g] # Absent /\ Publish(g, GKey(g)) /\ GetGoto(g, "open")
       \/ file[g] = Absent /\ UNCHANGED file /\ GetGoto(g, "err")
    /\ UNCHANGED faults /\ GetFrame

\* Storage::get of the blob; the open descriptor keeps what it found even if
\* the blob is deleted while it is being read.
GetOpenBlob(g) ==
    /\ get[g].pc = "open"
    /\ LET b == get[g].meta.blob
       IN  \/ BlobExists(b) /\ get' = [get EXCEPT ![g].pc = "hit", ![g].body = blob[b]]
           \/ ~BlobExists(b) /\ TryNextKey(g)
    /\ UNCHANGED <<faults, file>> /\ GetFrame

\* An I/O error: of a read or a put, which leaves nothing behind; of the
\* rename, whose staged file stays; of the write, whose writer is dropped
\* and thereby published.
GetFail(g) ==
    /\ Fault /\ GetGoto(g, "err")
    /\ \/ get[g].pc \in {"read", "put", "open", "close"} /\ UNCHANGED file
       \/ get[g].pc = "write" /\ IF file[g] = Absent THEN UNCHANGED file
                                 ELSE Publish(g, GKey(g))
    /\ GetFrame

GetCrash(g) ==
    Fault /\ Running(get[g]) /\ GetGoto(g, "dead") /\ UNCHANGED file /\ GetFrame

GetStep(g) ==
    GetReadMeta(g) \/ GetPut(g) \/ GetWrite(g) \/ GetClose(g) \/ GetOpenBlob(g)

-----------------------------------------------------------------------------
(* LocalCache::set and the CacheWriter it returns: stage the blob, stage a *)
(* meta per key, stream the content, rename the blob, and then write and   *)
(* rename one meta after the other.                                        *)

SKey(s)      == set[s].keys[set[s].i]
\* Mutant: off by one.
LastButOneKey(s) == set[s].i + 1 >= Len(set[s].keys)
LastKey(s)   == set[s].i >= Len(set[s].keys)
FreshMeta(s) == [blob |-> s, access |-> set[s].at]
SetGoto(s, pc) == set' = [set EXCEPT ![s].pc = pc]
SetFrame == UNCHANGED <<now, get, clean>>

\* Draws the blob id and takes the time.
SetStart(s) ==
    /\ set[s].pc = "new" /\ MayStart
    /\ \E ks \in Stores :
          set' = [set EXCEPT ![s].pc = "putblob", ![s].keys = ks, ![s].at = now]
    /\ UNCHANGED <<faults, file, blob, dirs, stored>> /\ SetFrame

\* put goes through the directories of its path and creates what it does not
\* find: the one it looks up next, if that is not there.
Missing(s) ==
    LET top == IF set[s].pc = "putblob" THEN "blob" ELSE "meta"
        sub == SubDir[IF set[s].pc = "putblob" THEN s ELSE SKey(s)]
    IN  IF top \in dirs THEN {sub} \ dirs ELSE {top}

SetMissesDir(s) ==
    /\ set[s].pc \in {"putblob", "putmeta"} /\ set[s].dir = Absent
    /\ \E d \in Missing(s) : set' = [set EXCEPT ![s].dir = d]
    /\ UNCHANGED <<faults, file, blob, dirs, stored>> /\ SetFrame

\* create_dir fails if another put has made the directory since it was looked
\* up: there is no blob writer then, or it is dropped after those of the metas.
SetMakeDir(s) ==
    /\ set[s].pc \in {"putblob", "putmeta"} /\ set[s].dir # Absent
    /\ \/ /\ set[s].dir \notin dirs /\ dirs' = dirs \cup {set[s].dir}
          /\ set' = [set EXCEPT ![s].dir = Absent]
       \/ /\ set[s].dir \in dirs /\ UNCHANGED dirs
          /\ SetGoto(s, IF set[s].pc = "putblob" THEN "err" ELSE "undo")
    /\ UNCHANGED <<faults, file, blob, stored>> /\ SetFrame

SetPutBlob(s) ==
    /\ set[s].pc = "putblob" /\ set[s].dir = Absent /\ Missing(s) = {}
    /\ SetGoto(s, IF set[s].keys = <<>> THEN "write" ELSE "putmeta")
    /\ UNCHANGED <<faults, file, blob, dirs, stored>> /\ SetFrame

SetPutMeta(s) ==
    /\ set[s].pc = "putmeta" /\ set[s].dir = Absent /\ Missing(s) = {}
    /\ Stage(<<s, SKey(s)>>, SKey(s))
    /\ set' = [set EXCEPT ![s].pc = IF LastKey(s) THEN "write" ELSE "putmeta",
                          ![s].i = IF LastKey(s) THEN 1 ELSE @ + 1,
                          ![s].open = @ \cup {SKey(s)}]
    /\ UNCHANGED <<faults, blob, dirs, stored>> /\ SetFrame

\* The caller has written the content and calls close: the blob goes first.
SetCloseBlob(s) ==
    /\ set[s].pc = "write"
    /\ SetGoto(s, IF set[s].keys = <<>> THEN "ok" ELSE "writemeta")
    /\ blob' = [blob EXCEPT ![s] = "complete"]
    /\ UNCHANGED <<faults, file, dirs, stored>> /\ SetFrame

SetWriteMeta(s) ==
    /\ set[s].pc = "writemeta" /\ SetGoto(s, "closemeta")
    /\ WriteTo(<<s, SKey(s)>>, FreshMeta(s))
    /\ UNCHANGED <<faults, blob, dirs, stored>> /\ SetFrame

\* Closing finalizes the writer whether or not the rename succeeds; after a
\* failure the writers that are left are dropped.
SetCloseMeta(s) ==
    /\ set[s].pc = "closemeta"
    /\ LET k == SKey(s)
       IN  \/ /\ file[<<s, k>>] # Absent /\ Publish(<<s, k>>, k)
              /\ stored' = [stored EXCEPT ![k] = Append(@, s)]
              /\ set' = [set EXCEPT ![s].pc = IF LastKey(s) THEN "ok" ELSE "writemeta",
                                    ![s].i = @ + 1, ![s].open = @ \ {k}]
           \/ /\ file[<<s, k>>] = Absent /\ UNCHANGED <<file, stored>>
              /\ set' = [set EXCEPT ![s].pc = "drop", ![s].open = @ \ {k}]
    /\ UNCHANGED <<faults, blob, dirs>> /\ SetFrame

\* StagedFile::drop renames a blob that was given up: a CacheWriter drops it
\* before its metas, a set that failed after them ...
SetDropBlob(s) ==
    /\ \/ set[s].pc = "dropall" /\ SetGoto(s, "drop")
       \/ set[s].pc = "undo" /\ set[s].open = {} /\ SetGoto(s, "err")
    /\ blob' = [blob EXCEPT ![s] = "partial"]
    /\ UNCHANGED <<faults, file, dirs, stored>> /\ SetFrame

\* ... and the metas, to which nothing was written, in no particular order.
SetDropMeta(s) ==
    /\ set[s].pc \in {"drop", "undo"}
    /\ \/ \E k \in set[s].open :
            /\ set' = [set EXCEPT ![s].open = @ \ {k}]
            /\ IF file[<<s, k>>] = Absent THEN UNCHANGED file ELSE Publish(<<s, k>>, k)
       \/ set[s].pc = "drop" /\ set[s].open = {} /\ SetGoto(s, "err") /\ UNCHANGED file
    /\ UNCHANGED <<faults, blob, dirs, stored>> /\ SetFrame

\* An I/O error of a put, of streaming the content (or the caller gives up),
\* of renaming the blob, of writing and of renaming a meta.
SetFail(s) ==
    /\ Fault
    /\ \/ set[s].pc = "putblob" /\ SetGoto(s, "err")
       \/ set[s].pc = "putmeta" /\ SetGoto(s, "undo")
       \/ set[s].pc = "write" /\ SetGoto(s, "dropall")
       \/ set[s].pc \in {"write", "writemeta"} /\ SetGoto(s, "drop")
       \/ /\ set[s].pc = "closemeta"
          /\ set' = [set EXCEPT ![s].pc = "drop", ![s].open = @ \ {SKey(s)}]
    /\ UNCHANGED <<file, blob, dirs, stored>> /\ SetFrame

SetCrash(s) ==
    /\ Fault /\ Running(set[s]) /\ SetGoto(s, "dead")
    /\ UNCHANGED <<file, blob, dirs, stored>> /\ SetFrame

SetStep(s) ==
    \/ SetMissesDir(s) \/ SetMakeDir(s) \/ SetPutBlob(s) \/ SetPutMeta(s)
    \/ SetCloseBlob(s) \/ SetWriteMeta(s) \/ SetCloseMeta(s) \/ SetDropBlob(s) \/ SetDropMeta(s)

-----------------------------------------------------------------------------
(* LocalCache::clean: take the sizes of all blobs, read all meta files,    *)
(* then delete the least recently used entries until the limits are met,   *)
(* all of it against what was read before.                                 *)

CleanGoto(c, pc) == clean' = [clean EXCEPT ![c].pc = pc]
CleanFrame == UNCHANGED <<now, dirs, stored, get, set>>

Entries(c, b) == {e \in clean[c].found : e.meta.blob = b}
Latest(c, b)  == Max({e.meta.access : e \in Entries(c, b)})
Candidates(c) == {e.meta.blob : e \in clean[c].found}
SizeOf(blobs) == MapThenSumSet(LAMBDA b : Size[b], blobs)

\* Mutant: both limits have to be exceeded.
MustEvictBoth(c, b) ==
    Latest(c, b) + MaxAge < clean[c].at /\ SizeOf(Candidates(c)) > MaxSize
\* Overdue, or too much in all: the condition under which the loop goes on.
MustEvict(c, b) ==
    Latest(c, b) + MaxAge < clean[c].at \/ SizeOf(Candidates(c)) > MaxSize

\* Mutant: the heap is ordered by size first.
IsLargest(c, b) ==
    b \in Candidates(c) /\ \A d \in Candidates(c) : Size[b] >= Size[d]
\* The top of the heap: the longest unused blob, the largest of those.
IsTop(c, b) ==
    /\ b \in Candidates(c)
    /\ \A d \in Candidates(c) :
          \/ Latest(c, b) < Latest(c, d)
          \/ Latest(c, b) = Latest(c, d) /\ Size[b] >= Size[d]

\* Listing /blob fails if no blob was ever put.
CleanStart(c) ==
    /\ clean[c].pc = "new" /\ MayStart
    /\ clean' = [clean EXCEPT ![c].pc = IF "blob" \in dirs THEN "blobs" ELSE "err",
                              ![c].todo = Setter]
    /\ UNCHANGED <<faults, file, blob>> /\ CleanFrame

\* Reading a directory below /blob shows the blob, or what is staged for it.
StagedBlob(b) == set[b].pc \in {"putmeta", "write", "dropall", "undo"}
CleanSeeBlob(c) ==
    /\ clean[c].pc = "blobs"
    /\ \E b \in clean[c].todo :
          \/ /\ BlobExists(b) \/ StagedBlob(b)
             /\ clean' = [clean EXCEPT ![c].pc = "size", ![c].victim = b,
                   ![c].todo = @ \ {b},
                   ![c].seen = IF BlobExists(b) THEN @ \cup {b} ELSE @]
          \/ /\ ~(BlobExists(b) \/ StagedBlob(b))
             /\ clean' = [clean EXCEPT ![c].todo = @ \ {b}]
    /\ UNCHANGED <<faults, file, blob>> /\ CleanFrame

\* The size of an entry is looked up next: an entry that was renamed or
\* deleted since ends the clean.
CleanSizeBlob(c) ==
    /\ clean[c].pc = "size"
    /\ LET b == clean[c].victim
           here == IF b \in clean[c].seen THEN BlobExists(b) ELSE blob[b] = "absent"
       IN  \/ here /\ clean' = [clean EXCEPT ![c].pc = "blobs", ![c].victim = Absent]
           \/ ~here /\ CleanGoto(c, "err")
    /\ UNCHANGED <<faults, file, blob>> /\ CleanFrame

CleanListMeta(c) ==
    /\ clean[c].pc = "blobs" /\ clean[c].todo = {}
    /\ clean' = [clean EXCEPT ![c].pc = IF "meta" \in dirs THEN "metas" ELSE "err",
                              ![c].dirs = Key]
    /\ UNCHANGED <<faults, file, blob>> /\ CleanFrame

\* A directory below /meta: the meta file of a key and what is staged for it.
Directory(k) ==
    {k} \cup (Setter \X {k})
        \cup {g \in Getter : get[g].i <= Len(get[g].keys) /\ GKey(g) = k}

CleanListDir(c) ==
    /\ clean[c].pc = "metas" /\ clean[c].todo = {}
    /\ \E k \in clean[c].dirs :
          clean' = [clean EXCEPT ![c].dirs = @ \ {k},
                       ![c].todo = {f \in Directory(k) : file[f] # Absent}]
    /\ UNCHANGED <<faults, file, blob>> /\ CleanFrame

\* read_meta with `?': a listed file that is gone or too short ends the clean.
CleanReadMeta(c) ==
    /\ clean[c].pc = "metas"
    /\ \E f \in clean[c].todo :
          \/ /\ file[f] \in Meta
             /\ clean' = [clean EXCEPT ![c].todo = @ \ {f},
                   ![c].found = IF file[f].blob \in clean[c].seen
                                THEN @ \cup {[key |-> f, meta |-> file[f]]} ELSE @]
          \/ file[f] \notin Meta /\ CleanGoto(c, "err")
    /\ UNCHANGED <<faults, file, blob>> /\ CleanFrame

CleanPlan(c) ==
    /\ clean[c].pc = "metas" /\ clean[c].dirs = {} /\ clean[c].todo = {}
    /\ clean' = [clean EXCEPT ![c].pc = "evict", ![c].at = now]
    /\ UNCHANGED <<faults, file, blob>> /\ CleanFrame

CleanEvict(c) ==
    /\ clean[c].pc = "evict"
    /\ \/ \E b \in Candidates(c) :
            /\ IsTop(c, b) /\ MustEvict(c, b)
            /\ clean' = [clean EXCEPT ![c].pc = "delmeta", ![c].victim = b,
                                      ![c].todo = {e.key : e \in Entries(c, b)}]
       \/ /\ \A b \in Candidates(c) : IsTop(c, b) => ~MustEvict(c, b)
          /\ CleanGoto(c, "ok")
    /\ UNCHANGED <<faults, file, blob>> /\ CleanFrame

\* The path is computed from the file's name as if that were a key, so a
\* staged file is only found if its name hashes to the directory it is in.
Deletable(f) == file[f] # Absent /\ (f \in Key \/ f \in Collide)

CleanDelMeta(c) ==
    /\ clean[c].pc = "delmeta"
    /\ \E f \in clean[c].todo :
          \/ /\ Deletable(f) /\ file' = [file EXCEPT ![f] = Absent]
             /\ clean' = [clean EXCEPT ![c].todo = @ \ {f},
                   ![c].pc = IF clean[c].todo = {f} THEN "delblob" ELSE "delmeta"]
          \/ ~Deletable(f) /\ UNCHANGED file /\ CleanGoto(c, "err")
    /\ UNCHANGED <<faults, blob>> /\ CleanFrame

CleanDelBlob(c) ==
    /\ clean[c].pc = "delblob"
    /\ LET b == clean[c].victim
       IN  \/ /\ BlobExists(b) /\ blob' = [blob EXCEPT ![b] = "deleted"]
              /\ clean' = [clean EXCEPT ![c].pc = "evict", ![c].found = @ \ Entries(c, b)]
           \/ ~BlobExists(b) /\ UNCHANGED blob /\ CleanGoto(c, "err")
    /\ UNCHANGED <<faults, file>> /\ CleanFrame

\* A storage operation fails (`?'), or the process ends.
CleanFail(c) ==
    /\ Fault /\ Running(clean[c])
    /\ CleanGoto(c, "err") \/ CleanGoto(c, "dead")
    /\ UNCHANGED <<file, blob>> /\ CleanFrame

CleanStep(c) ==
    \/ CleanSeeBlob(c) \/ CleanSizeBlob(c) \/ CleanListMeta(c) \/ CleanListDir(c)
    \/ CleanReadMeta(c) \/ CleanPlan(c) \/ CleanEvict(c) \/ CleanDelMeta(c) \/ CleanDelBlob(c)

-----------------------------------------------------------------------------
Next ==
    \/ \E g \in Getter : GetStart(g) \/ GetStep(g) \/ GetFail(g) \/ GetCrash(g)
    \/ \E s \in Setter : SetStart(s) \/ SetStep(s) \/ SetFail(s) \/ SetCrash(s)
    \/ \E c \in Cleaner : CleanStart(c) \/ CleanStep(c) \/ CleanFail(c)
    \/ Tick

\* The threads that run the calls are scheduled; nobody has to make a call.
Fairness ==
    /\ \A g \in Getter : WF_vars(GetStep(g))
    /\ \A s \in Setter : WF_vars(SetStep(s))
    /\ \A c \in Cleaner : WF_vars(CleanStep(c))

Spec == Init /\ [][Next]_vars
FairSpec == Spec /\ Fairness

-----------------------------------------------------------------------------
(* Correctness.                                                            *)

NoFaults == faults = 0

\* A hit delivers the complete content that some set stored under exactly
\* the key the hit names - never a blob that is still being written or was
\* given up, never another key's blob - whatever runs in between, fails or
\* crashes: the blob is renamed before the first meta refers to it.
HitIsComplete ==
    \A g \in Getter : get[g].pc = "hit" =>
        /\ get[g].body = "complete"
        /\ \E i \in DOMAIN stored[GKey(g)] : stored[GKey(g)][i] = get[g].meta.blob

\* The cache as its callers see it.
AnswerOf(g) ==
    CASE get[g].pc = "hit" ->
            {[key |-> GKey(g),
              content |-> IF get[g].body = "complete" THEN get[g].meta.blob ELSE Short]}
      [] get[g].pc = "none" -> {}
      [] get[g].pc \in {"err", "dead"} -> Absent
      [] OTHER -> Short
OutcomeOf(s) ==
    CASE set[s].pc = "ok" -> "ok"
      [] set[s].pc \in {"err", "dead"} -> Absent
      [] OTHER -> Short

LookupOf(g) ==
    IF get[g].pc = "new" THEN Short
    ELSE [keys |-> get[g].keys, entries |-> {k \in Key : get[g].mark[k] > 0}]

\* Nothing but a clean forgets.
Abstract == INSTANCE CacheSpec WITH
    Pending <- Short, Failed <- Absent,
    forgetful <- \E c \in Cleaner : clean[c].pc # "new",
    lookup <- [g \in Getter |-> LookupOf(g)],
    answer <- [g \in Getter |-> AnswerOf(g)],
    request <- [s \in Setter |-> IF set[s].pc = "new" THEN Short ELSE set[s].keys],
    outcome <- [s \in Setter |-> OutcomeOf(s)]

\* The local cache keeps the promises of the Cache trait: a hit is stored
\* content under a key of the list, and the first that has an entry as long as
\* no clean was made, whatever fails or is killed.
ImplementsCache == Abstract!Spec

\* h has found b under k and may have renamed the meta it wrote for it.
WroteBack(h, k, b) ==
    /\ get[h].pc \in {"open", "hit", "err", "dead"} /\ get[h].i \in DOMAIN get[h].keys
    /\ get[h].meta # Absent /\ GKey(h) = k /\ get[h].meta.blob = b

\* A key that is stored again is overwritten: a get does not find data older
\* than what was stored under the key before it was called - unless another
\* get, called before the newer data was stored, has found the same old data
\* and written its meta back.
OverwriteSticks ==
    [][\A g \in Getter : get[g].pc = "open" /\ get'[g].pc = "hit" =>
          LET k == GKey(g)
              b == get[g].meta.blob
          IN  \/ \E i \in DOMAIN stored[k] : stored[k][i] = b /\ i >= get[g].mark[k]
              \/ \E h \in Getter \ {g} :
                    WroteBack(h, k, b) /\ get[h].mark[k] < get[g].mark[k]]_vars

\* As long as nothing is cleaned, no entry is lost, whatever fails or is killed:
\* a get never passes over a key that was stored before it was called.
NoEntryLost ==
    (\A c \in Cleaner : clean[c].pc = "new") =>
        \A g \in Getter : \A i \in 1..(get[g].i - 1) :
            get[g].mark[get[g].keys[i]] = 0

\* s has found a directory missing that another set has made by now.
LostRace(s) == set[s].dir \in dirs
\* Without I/O errors, calls that run in parallel make a get or a set fail in
\* no way but one: a set fails if another has just made the directory it was
\* about to make, and a get of a key for which such a set had staged a meta
\* already may fail, too, for it finds the empty file that set left.
ParallelUseIsSafe ==
    NoFaults /\ Collide = {} =>
        /\ \A s \in Setter : set[s].pc = "err" => LostRace(s)
        /\ \A g \in Getter : get[g].pc = "err" =>
              \E s \in Setter : LostRace(s) /\ \E j \in 1..(set[s].i - 1) :
                                                  set[s].keys[j] = GKey(g)

Leads(f, s) == file[f] \in Meta /\ file[f].blob = s /\ BlobExists(s)
Finishes(c) == clean[c].pc = "evict" /\ clean'[c].pc = "ok"

\* After a clean that had the cache to itself, what can still be found is
\* within both limits.  A staged file some get left behind records its access.
CleanMeetsLimits ==
    [][\A c \in Cleaner : ~Overlap /\ Finishes(c) =>
          LET reachable == {s \in Setter : \E k \in Key : Leads(k, s)}
          IN  /\ SizeOf(reachable) <= MaxSize
              /\ \A s \in reachable : \E f \in File :
                    Leads(f, s) /\ file[f].access + MaxAge >= clean[c].at]_vars

\* Such a clean picks what was not used for the longest time, and only while
\* something is overdue or what can be found is too much.
LastUse(s) == Max({file[f].access : f \in {f \in File : Leads(f, s)}})
EvictsOldestFirst ==
    [][\A c \in Cleaner : ~Overlap /\ clean[c].pc = "evict" /\ clean'[c].pc = "delmeta" =>
          LET found == {s \in Setter : \E f \in File : Leads(f, s)}
              b == clean'[c].victim
          IN  /\ b \in found /\ \A s \in found : LastUse(b) <= LastUse(s)
              /\ LastUse(b) + MaxAge < now \/ SizeOf(found) > MaxSize]_vars

\* A clean only fails if one of its own storage operations does: neither the
\* calls it runs in parallel with nor what a killed process left behind keep
\* it from deleting what is due.
CleanRunsThrough ==
    [][\A c \in Cleaner :
          Running(clean[c]) /\ clean'[c].pc = "err" /\ {"blob", "meta"} \subseteq dirs
              => faults' # faults]_vars

\* Every call that was started comes to an end.
Termination ==
    /\ \A g \in Getter : Running(get[g]) ~> ~Running(get[g])
    /\ \A s \in Setter : Running(set[s]) ~> ~Running(set[s])
    /\ \A c \in Cleaner : Running(clean[c]) ~> ~Running(clean[c])
=============================================================================
