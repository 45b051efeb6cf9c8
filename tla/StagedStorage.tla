----------------------------- MODULE StagedStorage -----------------------------
(***************************************************************************)
(* FilesystemStorage (btdt/src/storage/filesystem/mod.rs) with its staged  *)
(* files and the cleaner of leftover staged files (staged_file.rs), at the *)
(* level of directory entries, inodes and file locks.                      *)
(*                                                                         *)
(* A Writer is one call of put and the StagedFile it returns, a Reader one *)
(* call of get and the file it returns, a Cleaner one caller of            *)
(* clean_leftover_tmp_files.  An action is one system call.  Names lead to *)
(* inodes; open files keep their inode whatever becomes of its name, and   *)
(* the advisory lock is on the inode.                                      *)
(***************************************************************************)
EXTENDS Naturals, Sequences

CONSTANTS
    Target, Writer, Reader, Cleaner,
    Dir, Parents,  \* Parents[t]: the directories above t, from the top
    Suffix, Draw,  \* Draw[w]: the suffixes w may draw for its staged file
    LooksStaged,   \* targets named like a staged file, k.tmp.1234567
    Whole,         \* writes it takes to write a file
    Attempts,      \* how often put tries to create and lock its staged file
    MaxFaults,     \* bound on failing system calls and crashes
    None, Pending  \* nothing there; no answer yet

Inode == Writer \X (1..Attempts)
Name  == Target \cup (Target \X Suffix)

ASSUME SizesAssumption ==
    /\ Whole \in Nat /\ Attempts \in Nat \ {0} /\ MaxFaults \in Nat
    /\ Parents \in [Target -> Seq(Dir)] /\ Draw \in [Writer -> SUBSET Suffix]
    /\ LooksStaged \subseteq Target
ASSUME NoneAssumption ==
    /\ Pending # None
    /\ None \notin Inode \cup Writer \cup Cleaner \cup Name \cup Suffix
    /\ Target \cap (Target \X Suffix) = {} /\ Writer \cap Cleaner = {}

VARIABLES
    faults,
    dirs,     \* the directories there are
    at,       \* at[n]: the inode a name leads to
    written,  \* written[i]: how much has been written to an inode
    lock,     \* lock[i]: who holds the lock on an inode
    writer, reader, cleaner
vars == <<faults, dirs, at, written, lock, writer, reader, cleaner>>

Ended == {"ok", "dropped", "err", "panic", "dead"}
WriterCall == [pc : Ended \cup {"new", "exists", "mkdir", "open", "lock", "check", "write"},
               target : Target \cup {None}, suffix : Suffix \cup {None},
               level : Nat \ {0}, try : 1..Attempts]
ReaderCall == [pc : {"new", "none", "read", "done"}, target : Target \cup {None},
               inode : Inode \cup {None}, got : 0..Whole]
\* old: the staged files that were leftovers when the cleaner started; skipped: what
\* it left alone after a failing call, or as another cleaner just held the lock.
CleanerCall == [pc : {"new", "scan", "open", "lock", "release", "remove", "ok", "err", "dead"},
                todo : SUBSET Name, name : Name \cup {None}, inode : Inode \cup {None},
                old : SUBSET Name, skipped : SUBSET Name]

TypeOK ==
    /\ faults \in 0..MaxFaults /\ dirs \subseteq Dir
    /\ at \in [Name -> Inode \cup {None}]
    /\ written \in [Inode -> 0..Whole]
    /\ lock \in [Inode -> Writer \cup Cleaner \cup {None}]
    /\ writer \in [Writer -> WriterCall]
    /\ reader \in [Reader -> ReaderCall]
    /\ cleaner \in [Cleaner -> CleanerCall]

Init ==
    /\ faults = 0 /\ dirs = {}
    /\ at = [n \in Name |-> None]
    /\ written = [i \in Inode |-> 0]
    /\ lock = [i \in Inode |-> None]
    /\ writer = [w \in Writer |-> [pc |-> "new", target |-> None, suffix |-> None,
                                   level |-> 1, try |-> 1]]
    /\ reader = [r \in Reader |-> [pc |-> "new", target |-> None, inode |-> None, got |-> 0]]
    /\ cleaner = [c \in Cleaner |-> [pc |-> "new", todo |-> {}, name |-> None,
                                     inode |-> None, old |-> {}, skipped |-> {}]]

Fault == faults < MaxFaults /\ faults' = faults + 1

-----------------------------------------------------------------------------
(* put: create the missing directories, then StagedFile::new.              *)

\* Mutant: the target itself is written to.
NotStaged(w)  == writer[w].target
StagedName(w) == <<writer[w].target, writer[w].suffix>>
Ino(w)        == <<w, writer[w].try>>
WriterGoto(w, pc) == writer' = [writer EXCEPT ![w].pc = pc]
\* The end of a writer closes its file and thereby gives the lock back.
Unlock(w) == lock' = [i \in Inode |-> IF lock[i] = w THEN None ELSE lock[i]]
WriterFrame == UNCHANGED <<reader, cleaner>>

PutStart(w) ==
    /\ writer[w].pc = "new"
    /\ \E t \in Target, s \in Draw[w] :
          writer' = [writer EXCEPT ![w].target = t, ![w].suffix = s,
                       ![w].pc = IF Parents[t] = <<>> THEN "open" ELSE "exists"]
    /\ UNCHANGED <<faults, dirs, at, written, lock>> /\ WriterFrame

Parent(w) == Parents[writer[w].target][writer[w].level]
NextLevel(w) ==
    writer' = [writer EXCEPT ![w].level = @ + 1,
                 ![w].pc = IF writer[w].level = Len(Parents[writer[w].target])
                           THEN "open" ELSE "exists"]

\* path.exists(), of one directory after the other ...
PutExists(w) ==
    /\ writer[w].pc = "exists"
    /\ \/ Parent(w) \in dirs /\ NextLevel(w)
       \/ Parent(w) \notin dirs /\ WriterGoto(w, "mkdir")
    /\ UNCHANGED <<faults, dirs, at, written, lock>> /\ WriterFrame

\* ... and create_dir, which fails if the directory has come to exist.
PutMkdir(w) ==
    /\ writer[w].pc = "mkdir"
    /\ \/ Parent(w) \notin dirs /\ dirs' = dirs \cup {Parent(w)} /\ NextLevel(w)
       \/ Parent(w) \in dirs /\ UNCHANGED dirs /\ WriterGoto(w, "err")
    /\ UNCHANGED <<faults, at, written, lock>> /\ WriterFrame

\* Mutant: open with create(true) in place of create_new(true).
OpensExisting(w) == at[StagedName(w)] # Ino(w)
CanCreate(w) == at[StagedName(w)] = None
PutOpen(w) ==
    /\ writer[w].pc = "open"
    /\ \/ /\ CanCreate(w) /\ WriterGoto(w, "lock")
          /\ at' = [at EXCEPT ![StagedName(w)] = Ino(w)]
       \/ ~CanCreate(w) /\ UNCHANGED at /\ WriterGoto(w, "err")
    /\ UNCHANGED <<faults, dirs, written, lock>> /\ WriterFrame

\* lock_exclusive waits until a cleaner has given the lock back.
PutLock(w) ==
    /\ writer[w].pc = "lock" /\ lock[Ino(w)] = None
    /\ lock' = [lock EXCEPT ![Ino(w)] = w] /\ WriterGoto(w, "check")
    /\ UNCHANGED <<faults, dirs, at, written>> /\ WriterFrame

\* Mutant: one attempt too many.
OneTryMore(w) == writer[w].try > Attempts
LastTry(w) == writer[w].try >= Attempts
\* Some file is there under the name: put returns the writer.  There is none:
\* this file is given up and another one created.
PutCheck(w) ==
    /\ writer[w].pc = "check"
    /\ \/ at[StagedName(w)] # None /\ WriterGoto(w, "write") /\ UNCHANGED lock
       \/ /\ at[StagedName(w)] = None /\ Unlock(w)
          /\ \/ LastTry(w) /\ WriterGoto(w, "err")
             \/ ~LastTry(w) /\ writer' = [writer EXCEPT ![w].pc = "open", ![w].try = @ + 1]
    /\ UNCHANGED <<faults, dirs, at, written>> /\ WriterFrame

Write(w) ==
    /\ writer[w].pc = "write" /\ written[Ino(w)] < Whole
    /\ written' = [written EXCEPT ![Ino(w)] = @ + 1]
    /\ UNCHANGED <<faults, dirs, at, lock, writer>> /\ WriterFrame

\* finalize: rename whatever is there under the staged name.
Finalize(w, done, failed) ==
    /\ \/ /\ at[StagedName(w)] # None /\ WriterGoto(w, done)
          /\ at' = [at EXCEPT ![writer[w].target] = at[StagedName(w)],
                              ![StagedName(w)] = None]
       \/ at[StagedName(w)] = None /\ UNCHANGED at /\ WriterGoto(w, failed)
    /\ Unlock(w) /\ UNCHANGED <<faults, dirs, written>> /\ WriterFrame

Close(w) == writer[w].pc = "write" /\ written[Ino(w)] = Whole /\ Finalize(w, "ok", "err")

\* The caller gives up, and the staged file is dropped.
Drop(w) == writer[w].pc = "write" /\ Finalize(w, "dropped", "panic")

\* A system call of put fails, or the rename of a writer that is closed or
\* dropped; what is staged stays.
WriterFail(w) ==
    /\ Fault
    /\ \/ writer[w].pc \in {"mkdir", "open", "lock"} /\ WriterGoto(w, "err")
       \/ writer[w].pc = "write" /\ written[Ino(w)] = Whole /\ WriterGoto(w, "err")
       \/ writer[w].pc = "write" /\ WriterGoto(w, "panic")
    /\ Unlock(w) /\ UNCHANGED <<dirs, at, written>> /\ WriterFrame

WriterCrash(w) ==
    /\ Fault /\ writer[w].pc \notin Ended \cup {"new"}
    /\ WriterGoto(w, "dead") /\ Unlock(w)
    /\ UNCHANGED <<dirs, at, written>> /\ WriterFrame

WriterStep(w) ==
    PutExists(w) \/ PutMkdir(w) \/ PutOpen(w) \/ PutLock(w) \/ PutCheck(w) \/ Write(w) \/ Close(w)

-----------------------------------------------------------------------------
(* get and delete.                                                         *)

GetOpen(r) ==
    /\ reader[r].pc = "new"
    /\ \E t \in Target :
          reader' = [reader EXCEPT ![r].target = t, ![r].inode = at[t],
                       ![r].pc = IF at[t] = None THEN "none" ELSE "read"]
    /\ UNCHANGED <<faults, dirs, at, written, lock, writer, cleaner>>

Read(r) ==
    /\ reader[r].pc = "read"
    /\ \/ /\ reader[r].got < written[reader[r].inode]
          /\ reader' = [reader EXCEPT ![r].got = @ + 1]
       \/ /\ reader[r].got = written[reader[r].inode]
          /\ reader' = [reader EXCEPT ![r].pc = "done"]
    /\ UNCHANGED <<faults, dirs, at, written, lock, writer, cleaner>>

\* A path that leads to no file is an error and changes nothing.
Delete(t) ==
    /\ at[t] # None /\ at' = [at EXCEPT ![t] = None]
    /\ UNCHANGED <<faults, dirs, written, lock, writer, reader, cleaner>>

-----------------------------------------------------------------------------
(* clean_leftover_tmp_files: a file named like a staged one is opened, its *)
(* lock is tried, and if that was free the file is removed by its name.    *)

CleanerGoto(c, pc) == cleaner' = [cleaner EXCEPT ![c].pc = pc]
CleanerFrame == UNCHANGED <<dirs, written, writer, reader>>
Scanned == (Target \X Suffix) \cup LooksStaged
Leftover(n) == at[n] # None /\ writer[at[n][1]].pc \in Ended

\* Once it has ended it may be called again.
CleanerStart(c) ==
    /\ cleaner[c].pc \in {"new", "ok", "err"}
    /\ cleaner' = [cleaner EXCEPT ![c] =
          [pc |-> "scan", todo |-> Scanned, name |-> None, inode |-> None,
           old |-> {n \in Target \X Suffix : Leftover(n)}, skipped |-> {}]]
    /\ UNCHANGED <<faults, at, lock>> /\ CleanerFrame

\* The directories are read as a stream, in any order.
CleanerScan(c) ==
    /\ cleaner[c].pc = "scan"
    /\ \/ \E n \in cleaner[c].todo :
             \/ /\ at[n] # None
                /\ cleaner' = [cleaner EXCEPT ![c].pc = "open", ![c].name = n,
                                              ![c].todo = @ \ {n}]
             \/ at[n] = None /\ cleaner' = [cleaner EXCEPT ![c].todo = @ \ {n}]
       \/ cleaner[c].todo = {} /\ CleanerGoto(c, "ok")
    /\ UNCHANGED <<faults, at, lock>> /\ CleanerFrame

NextName(c) == cleaner' = [cleaner EXCEPT ![c].pc = "scan", ![c].name = None, ![c].inode = None]
SkipName(c) ==
    cleaner' = [cleaner EXCEPT ![c].pc = "scan", ![c].name = None, ![c].inode = None,
                               ![c].skipped = @ \cup {cleaner[c].name}]

CleanerOpen(c) ==
    /\ cleaner[c].pc = "open"
    /\ LET i == at[cleaner[c].name]
       IN  \/ i # None /\ cleaner' = [cleaner EXCEPT ![c].pc = "lock", ![c].inode = i]
           \/ i = None /\ NextName(c)
    /\ UNCHANGED <<faults, at, lock>> /\ CleanerFrame

\* Mutant: is_err() in place of is_ok().
FreeIfLocked(i) == lock[i] # None
IsFree(i) == lock[i] = None
CleanerLock(c) ==
    /\ cleaner[c].pc = "lock"
    /\ LET i == cleaner[c].inode
       IN  \/ IsFree(i) /\ lock' = [lock EXCEPT ![i] = c] /\ CleanerGoto(c, "release")
           \/ ~IsFree(i) /\ lock[i] \in Cleaner /\ UNCHANGED lock /\ SkipName(c)
           \/ ~IsFree(i) /\ lock[i] \notin Cleaner /\ UNCHANGED lock /\ NextName(c)
    /\ UNCHANGED <<faults, at>> /\ CleanerFrame

\* The open or the try_lock fails: is_ok() is false as for a lock that is held,
\* so that the file is skipped and the cleaner goes on.
CleanerSkip(c) ==
    /\ Fault /\ cleaner[c].pc \in {"open", "lock"} /\ SkipName(c)
    /\ UNCHANGED <<at, lock>> /\ CleanerFrame

\* Mutant: the file, and with it the lock, is kept.
KeepLock(c) == UNCHANGED lock
\* The file the lock was tried on is closed right away.
GiveLockBack(c) == lock' = [lock EXCEPT ![cleaner[c].inode] = None]
CleanerRelease(c) ==
    /\ cleaner[c].pc = "release" /\ CleanerGoto(c, "remove") /\ GiveLockBack(c)
    /\ UNCHANGED <<faults, at>> /\ CleanerFrame

CleanerRemove(c) ==
    /\ cleaner[c].pc = "remove"
    /\ LET n == cleaner[c].name
       IN  \/ at[n] # None /\ at' = [at EXCEPT ![n] = None] /\ NextName(c)
           \/ at[n] = None /\ UNCHANGED at /\ CleanerGoto(c, "err")
    /\ UNCHANGED <<faults, lock>> /\ CleanerFrame

\* A system call whose error is passed on, or a crash.
CleanerFail(c) ==
    /\ Fault
    /\ \/ cleaner[c].pc \in {"scan", "remove"} /\ CleanerGoto(c, "err") /\ UNCHANGED lock
       \/ /\ cleaner[c].pc \in {"scan", "open", "lock", "release", "remove"}
          /\ CleanerGoto(c, "dead")
          /\ lock' = [i \in Inode |-> IF lock[i] = c THEN None ELSE lock[i]]
    /\ UNCHANGED at /\ CleanerFrame

CleanerStep(c) ==
    \/ CleanerScan(c) \/ CleanerOpen(c) \/ CleanerLock(c) \/ CleanerRelease(c)
    \/ CleanerRemove(c)

-----------------------------------------------------------------------------
Next ==
    \/ \E w \in Writer :
          PutStart(w) \/ WriterStep(w) \/ Drop(w) \/ WriterFail(w) \/ WriterCrash(w)
    \/ \E r \in Reader : GetOpen(r) \/ Read(r)
    \/ \E t \in Target : Delete(t)
    \/ \E c \in Cleaner : CleanerStart(c) \/ CleanerStep(c) \/ CleanerSkip(c) \/ CleanerFail(c)

Spec == Init /\ [][Next]_vars

\* Calls are scheduled; a lock that keeps being free is given to who waits.
Fairness ==
    /\ \A w \in Writer : WF_vars(WriterStep(w))
    /\ \A r \in Reader : WF_vars(Read(r))
    /\ \A c \in Cleaner : WF_vars(CleanerStep(c))
FairSpec == Spec /\ Fairness

-----------------------------------------------------------------------------
(* Correctness.                                                            *)

\* A reader's answer is the file it opened; at the end, what it has read.
ValueOf(i, n) == [by |-> i[1], upto |-> n]
FoundBy(r) ==
    CASE reader[r].pc = "none" -> None
      [] reader[r].pc = "read" -> ValueOf(reader[r].inode, written[reader[r].inode])
      [] OTHER                 -> ValueOf(reader[r].inode, reader[r].got)
AnswerOf(r) ==
    IF reader[r].pc = "new" THEN Pending ELSE [path |-> reader[r].target, file |-> FoundBy(r)]
OutcomeOf(w) ==
    CASE writer[w].pc = "ok" -> "ok"
      [] writer[w].pc \in Ended \ {"ok"} -> "off"
      [] OTHER -> "open"

Abstract == INSTANCE StorageSpec WITH
    Nothing <- None,
    content <- [t \in Target |-> IF at[t] = None THEN None ELSE ValueOf(at[t], written[at[t]])],
    path <- [w \in Writer |-> writer[w].target],
    answer <- [r \in Reader |-> AnswerOf(r)],
    outcome <- [w \in Writer |-> OutcomeOf(w)]

\* A file appears as a whole at the path it was put at and never changes, and a
\* reader gets the file at the path it has named to the end.
ImplementsStorage == Abstract!Spec

\* The staged file of a writer that put has returned is not taken away: what
\* its name leads to is the file the writer writes to.
StagedIsKept ==
    \A w \in Writer : writer[w].pc = "write" => at[StagedName(w)] = Ino(w)

\* Of what was left over when it began, a cleaner that succeeds leaves nothing
\* but what it could not open or try the lock of: a call for it failed, or
\* another cleaner held the lock just then.  No writer makes it skip a leftover.
LeftoversGo ==
    \A c \in Cleaner : cleaner[c].pc = "ok" =>
        \A n \in cleaner[c].old \ cleaner[c].skipped : at[n] = None

\* A put never waits for the lock on its staged file for ever, a writer that
\* is being written to gets closed, and every cleaner ends.
Termination ==
    /\ \A w \in Writer : writer[w].pc # "new" ~> writer[w].pc \in Ended
    /\ \A c \in Cleaner : cleaner[c].pc # "new" ~> cleaner[c].pc \in {"ok", "err", "dead"}
=============================================================================
