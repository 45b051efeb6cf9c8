-------------------------- MODULE StagedStorageProofs --------------------------
(***************************************************************************)
(* Theorems about StagedStorage, for any number of writers, readers and    *)
(* cleaners, any paths, and any number of failures and kills.              *)
(***************************************************************************)
EXTENDS StagedStorage, TLAPS

-----------------------------------------------------------------------------
(* What holds whoever runs: types, who may hold a lock, and that a staged  *)
(* name leads to the latest file of a writer that has drawn that name.     *)

Staged == Target \X Suffix
AtWork == {"lock", "check", "write"}
WriterPlace(w) ==
    /\ writer[w].pc = "new" => writer[w].level = 1 /\ writer[w].target = None
    /\ writer[w].pc # "new" => writer[w].target \in Target /\ writer[w].suffix \in Draw[w]
    /\ writer[w].pc \in {"exists", "mkdir"} =>
          writer[w].level \in 1..Len(Parents[writer[w].target])
ReaderPlace(r) == reader[r].pc = "read" => reader[r].inode \in Inode
CleanerPlace(c) ==
    /\ cleaner[c].pc \in {"open", "lock", "release", "remove"} => cleaner[c].name \in Name
    /\ cleaner[c].pc \in {"lock", "release"} => cleaner[c].inode \in Inode
LockPlace(i) ==
    /\ lock[i] \in Writer => i = Ino(lock[i]) /\ writer[lock[i]].pc \in {"check", "write"}
    /\ lock[i] \in Cleaner => cleaner[lock[i]].pc = "release" /\ cleaner[lock[i]].inode = i
\* v has created the file n leads to, as its latest.
Owns(v, n) ==
    at[n] = Ino(v) /\ StagedName(v) = n /\ writer[v].pc \in AtWork \cup Ended
NamePlace(n) == at[n] # None => \E v \in Writer : Owns(v, n)
Base ==
    /\ TypeOK
    /\ \A w \in Writer : WriterPlace(w)
    /\ \A r \in Reader : ReaderPlace(r)
    /\ \A c \in Cleaner : CleanerPlace(c)
    /\ \A i \in Inode : LockPlace(i)
    /\ \A n \in Staged : NamePlace(n)

LEMMA InoFacts ==
    ASSUME Base, NEW w \in Writer
    PROVE  /\ Ino(w) \in Inode /\ Ino(w) # None /\ Ino(w)[1] = w
           /\ \A v : Ino(v) = Ino(w) => v = w
           /\ writer[w].pc # "new" =>
                 /\ StagedName(w) \in Staged /\ StagedName(w) \in Name
                 /\ writer[w].target \in Target /\ writer[w].target \in Name
                 /\ writer[w].target # StagedName(w)
<1>1. writer[w].try \in 1..Attempts
  BY DEF Base, TypeOK, WriterCall
<1>2. Ino(w) \in Inode /\ Ino(w) # None /\ Ino(w)[1] = w /\ \A v : Ino(v) = Ino(w) => v = w
  BY <1>1, NoneAssumption DEF Ino, Inode
<1>3. ASSUME writer[w].pc # "new"
      PROVE  /\ StagedName(w) \in Staged /\ StagedName(w) \in Name
             /\ writer[w].target \in Target /\ writer[w].target \in Name
             /\ writer[w].target # StagedName(w)
  <2>1. writer[w].target \in Target /\ writer[w].suffix \in Suffix
    BY <1>3, SizesAssumption DEF Base, WriterPlace
  <2>2. StagedName(w) \in Staged
    BY <2>1 DEF StagedName, Staged
  <2> QED BY <2>1, <2>2, NoneAssumption DEF Name, Staged
<1> QED BY <1>2, <1>3

\* A step of the writer w leaves the others alone and keeps the types.
WriterFrameOK(w) ==
    /\ writer' \in [Writer -> WriterCall] /\ \A v \in Writer \ {w} : writer'[v] = writer[v]
    /\ faults' \in 0..MaxFaults /\ dirs' \subseteq Dir /\ WriterPlace(w)'
    /\ UNCHANGED <<reader, cleaner>>
    /\ writer[w].pc \notin Ended /\ writer'[w].pc # "new"
    /\ writer[w].pc = "new" => writer'[w].pc \in {"open", "exists"}
    /\ writer[w].pc # "new" => StagedName(w)' = StagedName(w)
                               /\ writer'[w].target = writer[w].target
\* What it does to names, locks and contents.
SameNames(w) ==
    /\ at' = at /\ Ino(w)' = Ino(w)
    /\ writer'[w].pc \in AtWork => writer[w].pc \in AtWork
    /\ writer[w].pc \in AtWork => writer'[w].pc \in AtWork \cup Ended
Created(w) ==
    /\ writer[w].pc = "open" /\ at[StagedName(w)] = None
    /\ at' = [at EXCEPT ![StagedName(w)] = Ino(w)] /\ Ino(w)' = Ino(w)
    /\ writer'[w].pc = "lock"
Renamed(w) ==
    /\ writer[w].pc = "write" /\ at[StagedName(w)] # None /\ Ino(w)' = Ino(w)
    /\ at' = [at EXCEPT ![writer[w].target] = at[StagedName(w)], ![StagedName(w)] = None]
    /\ \/ writer'[w].pc = "ok" /\ written[Ino(w)] = Whole
       \/ writer'[w].pc = "dropped"
Retried(w) ==
    /\ writer[w].pc = "check" /\ at[StagedName(w)] = None /\ at' = at
    /\ writer'[w].pc = "open"
Locks(w) ==
    /\ lock' \in [Inode -> Writer \cup Cleaner \cup {None}]
    /\ \/ /\ lock' = lock /\ Ino(w)' = Ino(w)
          /\ writer[w].pc \in {"check", "write"} <=> writer'[w].pc \in {"check", "write"}
       \/ lock' = [lock EXCEPT ![Ino(w)] = w] /\ writer'[w].pc = "check" /\ Ino(w)' = Ino(w)
       \/ Unlock(w)
WriterOK(w) ==
    /\ WriterFrameOK(w) /\ Locks(w)
    /\ SameNames(w) \/ Created(w) \/ Renamed(w) \/ Retried(w)
    /\ writer'[w].pc = "ok" => Renamed(w)
    /\ \/ written' = written
       \/ /\ writer[w].pc = "write" /\ writer'[w].pc = "write" /\ at' = at
          /\ written[Ino(w)] < Whole /\ written' = [written EXCEPT ![Ino(w)] = @ + 1]

LEMMA GotoFacts ==
    ASSUME TypeOK, NEW w \in Writer, NEW pc, WriterGoto(w, pc),
           pc \in Ended \cup {"new", "exists", "mkdir", "open", "lock", "check", "write"}
    PROVE  /\ writer' \in [Writer -> WriterCall] /\ \A v \in Writer \ {w} : writer'[v] = writer[v]
           /\ writer'[w].pc = pc /\ writer'[w].target = writer[w].target
           /\ writer'[w].suffix = writer[w].suffix /\ writer'[w].level = writer[w].level
           /\ writer'[w].try = writer[w].try
           /\ Ino(w)' = Ino(w) /\ StagedName(w)' = StagedName(w)
<1>1. writer' = [writer EXCEPT ![w].pc = pc]
  BY DEF WriterGoto
<1>2. /\ writer' \in [Writer -> WriterCall] /\ \A v \in Writer \ {w} : writer'[v] = writer[v]
      /\ writer'[w].pc = pc /\ writer'[w].target = writer[w].target
      /\ writer'[w].suffix = writer[w].suffix /\ writer'[w].level = writer[w].level
      /\ writer'[w].try = writer[w].try
  BY <1>1 DEF TypeOK, WriterCall
<1> QED BY <1>2 DEF Ino, StagedName

LEMMA UnlockFacts ==
    ASSUME TypeOK, NEW w \in Writer, Unlock(w)
    PROVE  lock' \in [Inode -> Writer \cup Cleaner \cup {None}]
  BY DEF TypeOK, Unlock

\* A writer moves on in its call, and nothing else of it changes.
LEMMA GoesOK ==
    ASSUME Base, NEW w \in Writer, writer[w].pc \notin Ended \cup {"new"},
           NEW pc \in Ended \cup {"mkdir", "open", "lock", "check", "write"}, WriterGoto(w, pc),
           pc = "mkdir" => writer[w].pc = "exists",
           faults' \in 0..MaxFaults, dirs' \subseteq Dir, UNCHANGED <<reader, cleaner>>
    PROVE  WriterFrameOK(w)
<1>1. TypeOK /\ WriterPlace(w)
  BY DEF Base
<1>2. /\ writer' \in [Writer -> WriterCall] /\ \A v \in Writer \ {w} : writer'[v] = writer[v]
      /\ writer'[w].pc = pc /\ writer'[w].target = writer[w].target
      /\ writer'[w].suffix = writer[w].suffix /\ writer'[w].level = writer[w].level
      /\ StagedName(w)' = StagedName(w)
  BY <1>1, GotoFacts
<1>3. WriterPlace(w)'
  BY <1>1, <1>2 DEF WriterPlace, Ended
<1>4. pc # "new"
  BY DEF Ended
<1> QED BY <1>2, <1>3, <1>4 DEF WriterFrameOK

LEMMA PutStartOK == ASSUME Base, NEW w \in Writer, PutStart(w) PROVE WriterOK(w)
<1>1. /\ TypeOK /\ writer[w].pc = "new" /\ writer[w].level = 1
      /\ UNCHANGED <<faults, dirs, at, written, lock, reader, cleaner>>
  BY DEF Base, WriterPlace, PutStart, WriterFrame
<1>2. PICK t \in Target, s \in Draw[w] :
          writer' = [writer EXCEPT ![w].target = t, ![w].suffix = s,
                       ![w].pc = IF Parents[t] = <<>> THEN "open" ELSE "exists"]
  BY DEF PutStart
<1>3. s \in Suffix /\ Parents[t] \in Seq(Dir)
  BY SizesAssumption
<1> DEFINE pc == IF Parents[t] = <<>> THEN "open" ELSE "exists"
<1>4. pc \in {"open", "exists"} /\ (pc = "exists" => 1 \in 1..Len(Parents[t]))
  BY <1>3
<1>5. writer' = [writer EXCEPT ![w].target = t, ![w].suffix = s, ![w].pc = pc]
  BY <1>2
<1> HIDE DEF pc
<1>6. /\ writer' \in [Writer -> WriterCall] /\ \A v \in Writer \ {w} : writer'[v] = writer[v]
      /\ writer'[w].pc = pc /\ writer'[w].target = t /\ writer'[w].suffix = s
      /\ writer'[w].level = writer[w].level /\ writer'[w].try = writer[w].try
  BY <1>1, <1>3, <1>4, <1>5 DEF TypeOK, WriterCall
<1>7. WriterPlace(w)'
  BY <1>1, <1>4, <1>6 DEF WriterPlace
<1>8. WriterFrameOK(w)
  BY <1>1, <1>4, <1>6, <1>7 DEF WriterFrameOK, Ended, TypeOK
<1>9. SameNames(w)
  BY <1>1, <1>4, <1>6 DEF SameNames, AtWork, Ino
<1>10. Locks(w)
  BY <1>1, <1>4, <1>6 DEF Locks, Ino, TypeOK
<1> QED BY <1>1, <1>4, <1>6, <1>8, <1>9, <1>10 DEF WriterOK
\* The next directory, or the end of them.
LEMMA NextLevelOK ==
    ASSUME Base, NEW w \in Writer, writer[w].pc \in {"exists", "mkdir"}, NextLevel(w),
           faults' \in 0..MaxFaults, dirs' \subseteq Dir,
           UNCHANGED <<at, written, lock, reader, cleaner>>
    PROVE  WriterOK(w)
<1> DEFINE n == Len(Parents[writer[w].target])
           l == writer[w].level
           pc == IF l = n THEN "open" ELSE "exists"
<1>1. /\ TypeOK /\ l \in 1..n
      /\ writer[w].target \in Target
  BY DEF Base, WriterPlace
<1>2. n \in Nat
  BY <1>1, SizesAssumption
<1>3. writer' = [writer EXCEPT ![w].level = l + 1, ![w].pc = pc]
  BY DEF NextLevel
<1>4. pc \in {"open", "exists"} /\ (pc = "exists" => l + 1 \in 1..n) /\ l + 1 \in Nat \ {0}
  BY <1>1, <1>2
<1> HIDE DEF n, l, pc
<1>5. /\ writer' \in [Writer -> WriterCall] /\ \A v \in Writer \ {w} : writer'[v] = writer[v]
      /\ writer'[w].pc = pc /\ writer'[w].target = writer[w].target
      /\ writer'[w].suffix = writer[w].suffix
      /\ writer'[w].level = l + 1 /\ writer'[w].try = writer[w].try
  BY <1>1, <1>3, <1>4 DEF TypeOK, WriterCall
<1>6. WriterPlace(w)'
  <2>1. WriterPlace(w)
    BY DEF Base
  <2> QED BY <2>1, <1>4, <1>5 DEF WriterPlace, n
<1>7. WriterFrameOK(w)
  BY <1>4, <1>5, <1>6 DEF WriterFrameOK, StagedName, Ended
<1>8. SameNames(w)
  BY <1>4, <1>5 DEF SameNames, AtWork, Ino
<1>9. Locks(w)
  BY <1>1, <1>4, <1>5 DEF Locks, Ino, TypeOK
<1> QED BY <1>4, <1>5, <1>7, <1>8, <1>9 DEF WriterOK

LEMMA PutExistsOK == ASSUME Base, NEW w \in Writer, PutExists(w) PROVE WriterOK(w)
<1>1. /\ TypeOK /\ writer[w].pc = "exists"
      /\ UNCHANGED <<faults, dirs, at, written, lock, reader, cleaner>>
  BY DEF Base, PutExists, WriterFrame
<1>2. faults' \in 0..MaxFaults /\ dirs' \subseteq Dir
  BY <1>1 DEF TypeOK
<1>3. CASE NextLevel(w)
  BY <1>1, <1>2, <1>3, NextLevelOK
<1>4. CASE WriterGoto(w, "mkdir")
  <2>1. WriterFrameOK(w)
    BY <1>1, <1>2, <1>4, GoesOK DEF Ended
  <2>2. writer'[w].pc = "mkdir" /\ Ino(w)' = Ino(w)
    BY <1>1, <1>4, GotoFacts
  <2>3. SameNames(w)
    BY <1>1, <2>2 DEF SameNames, AtWork
  <2>4. Locks(w)
    BY <1>1, <2>2 DEF Locks, TypeOK
  <2> QED BY <1>1, <2>1, <2>2, <2>3, <2>4 DEF WriterOK
<1> QED BY <1>3, <1>4 DEF PutExists

\* A call that fails or ends by itself, without a change of any name.
LEMMA EndsOK ==
    ASSUME Base, NEW w \in Writer, writer[w].pc \notin Ended \cup {"new"},
           NEW pc \in Ended \ {"ok"}, WriterGoto(w, pc),
           Unlock(w) \/ (lock' = lock /\ writer[w].pc \notin {"check", "write"}),
           faults' \in 0..MaxFaults, dirs' \subseteq Dir,
           UNCHANGED <<at, written, reader, cleaner>>
    PROVE  WriterOK(w)
<1>1. TypeOK
  BY DEF Base
<1>2. WriterFrameOK(w)
  <2>1. pc \in Ended \cup {"mkdir", "open", "lock", "check", "write"} /\ pc # "mkdir"
    BY DEF Ended
  <2> QED BY <2>1, GoesOK
<1>3. writer'[w].pc = pc /\ Ino(w)' = Ino(w)
  BY <1>1, GotoFacts DEF Ended
<1>4. SameNames(w)
  BY <1>3 DEF SameNames, AtWork, Ended
<1>5. Locks(w)
  BY <1>1, <1>3, UnlockFacts DEF Locks, TypeOK, Ended
<1> QED BY <1>2, <1>3, <1>4, <1>5 DEF WriterOK

LEMMA PutMkdirOK == ASSUME Base, NEW w \in Writer, PutMkdir(w) PROVE WriterOK(w)
<1>1. /\ TypeOK /\ writer[w].pc = "mkdir" /\ WriterPlace(w)
      /\ UNCHANGED <<faults, at, written, lock, reader, cleaner>>
  BY DEF Base, PutMkdir, WriterFrame
<1>2. Parent(w) \in Dir
  <2>1. writer[w].target \in Target /\ writer[w].level \in 1..Len(Parents[writer[w].target])
    BY <1>1 DEF WriterPlace
  <2> QED BY <2>1, SizesAssumption DEF Parent
<1>3. faults' \in 0..MaxFaults /\ dirs' \subseteq Dir
  BY <1>1, <1>2 DEF TypeOK, PutMkdir
<1>4. CASE NextLevel(w)
  BY <1>1, <1>3, <1>4, NextLevelOK
<1>5. CASE WriterGoto(w, "err")
  BY <1>1, <1>3, <1>5, EndsOK DEF Ended
<1> QED BY <1>4, <1>5 DEF PutMkdir

LEMMA PutOpenOK == ASSUME Base, NEW w \in Writer, PutOpen(w) PROVE WriterOK(w)
<1>1. /\ TypeOK /\ writer[w].pc = "open"
      /\ UNCHANGED <<faults, dirs, written, lock, reader, cleaner>>
  BY DEF Base, PutOpen, WriterFrame
<1>2. faults' \in 0..MaxFaults /\ dirs' \subseteq Dir
  BY <1>1 DEF TypeOK
<1>3. CASE /\ CanCreate(w) /\ WriterGoto(w, "lock")
           /\ at' = [at EXCEPT ![StagedName(w)] = Ino(w)]
  <2>1. WriterFrameOK(w)
    BY <1>1, <1>2, <1>3, GoesOK DEF Ended
  <2>2. writer'[w].pc = "lock" /\ Ino(w)' = Ino(w)
    BY <1>1, <1>3, GotoFacts
  <2>3. Created(w)
    BY <1>1, <1>3, <2>2 DEF Created, CanCreate
  <2>4. Locks(w)
    BY <1>1, <2>2 DEF Locks, TypeOK
  <2> QED BY <1>1, <2>1, <2>2, <2>3, <2>4 DEF WriterOK
<1>4. CASE UNCHANGED at /\ WriterGoto(w, "err")
  BY <1>1, <1>2, <1>4, EndsOK DEF Ended
<1> QED BY <1>3, <1>4 DEF PutOpen

LEMMA PutLockOK == ASSUME Base, NEW w \in Writer, PutLock(w) PROVE WriterOK(w)
<1>1. /\ TypeOK /\ writer[w].pc = "lock" /\ WriterGoto(w, "check")
      /\ lock' = [lock EXCEPT ![Ino(w)] = w]
      /\ UNCHANGED <<faults, dirs, at, written, reader, cleaner>>
  BY DEF Base, PutLock, WriterFrame
<1>2. WriterFrameOK(w)
  BY <1>1, GoesOK DEF Ended, TypeOK
<1>3. writer'[w].pc = "check" /\ Ino(w)' = Ino(w)
  BY <1>1, GotoFacts
<1>4. SameNames(w)
  BY <1>1, <1>3 DEF SameNames, AtWork
<1>5. Locks(w)
  <2>1. Ino(w) \in Inode
    BY InoFacts
  <2>2. lock' \in [Inode -> Writer \cup Cleaner \cup {None}]
    BY <1>1, <2>1 DEF TypeOK
  <2> QED BY <1>1, <1>3, <2>2 DEF Locks
<1> QED BY <1>1, <1>2, <1>3, <1>4, <1>5 DEF WriterOK

LEMMA PutCheckOK == ASSUME Base, NEW w \in Writer, PutCheck(w) PROVE WriterOK(w)
<1>1. /\ TypeOK /\ writer[w].pc = "check"
      /\ UNCHANGED <<faults, dirs, at, written, reader, cleaner>>
  BY DEF Base, PutCheck, WriterFrame
<1>2. faults' \in 0..MaxFaults /\ dirs' \subseteq Dir
  BY <1>1 DEF TypeOK
<1>3. CASE at[StagedName(w)] # None /\ WriterGoto(w, "write") /\ UNCHANGED lock
  <2>1. WriterFrameOK(w)
    BY <1>1, <1>2, <1>3, GoesOK DEF Ended
  <2>2. writer'[w].pc = "write" /\ Ino(w)' = Ino(w)
    BY <1>1, <1>3, GotoFacts
  <2>3. SameNames(w)
    BY <1>1, <2>2 DEF SameNames, AtWork
  <2>4. Locks(w)
    BY <1>1, <1>3, <2>2 DEF Locks, TypeOK
  <2> QED BY <1>1, <2>1, <2>2, <2>3, <2>4 DEF WriterOK
<1>4. CASE Unlock(w) /\ WriterGoto(w, "err")
  BY <1>1, <1>2, <1>4, EndsOK DEF Ended
<1>5. CASE /\ at[StagedName(w)] = None /\ Unlock(w) /\ ~LastTry(w)
           /\ writer' = [writer EXCEPT ![w].pc = "open", ![w].try = @ + 1]
  <2> DEFINE k == writer[w].try
  <2>1. k \in 1..Attempts /\ k + 1 \in 1..Attempts /\ Attempts \in Nat
    BY <1>1, <1>5, SizesAssumption DEF TypeOK, WriterCall, LastTry
  <2>2. PICK m \in 1..Attempts : writer' = [writer EXCEPT ![w].pc = "open", ![w].try = m]
    BY <1>5, <2>1
  <2> HIDE DEF k
  <2>3. /\ writer' \in [Writer -> WriterCall] /\ \A v \in Writer \ {w} : writer'[v] = writer[v]
        /\ writer'[w].pc = "open" /\ writer'[w].target = writer[w].target
        /\ writer'[w].suffix = writer[w].suffix
    <3> DEFINE call == [writer[w] EXCEPT !.pc = "open", !.try = m]
    <3>1. call \in WriterCall /\ call.pc = "open"
          /\ call.target = writer[w].target /\ call.suffix = writer[w].suffix
      BY <1>1 DEF TypeOK, WriterCall
    <3>2. writer' = [writer EXCEPT ![w] = call]
      BY <2>2
    <3> HIDE DEF call
    <3> QED BY <1>1, <3>1, <3>2 DEF TypeOK
  <2>4. WriterPlace(w)'
    BY <1>1, <2>3 DEF Base, WriterPlace
  <2>5. WriterFrameOK(w)
    BY <1>1, <1>2, <2>3, <2>4 DEF WriterFrameOK, StagedName, Ended
  <2>6. Retried(w)
    BY <1>1, <1>5, <2>3 DEF Retried
  <2>7. Locks(w)
    BY <1>1, <1>5, UnlockFacts DEF Locks
  <2> QED BY <1>1, <2>3, <2>5, <2>6, <2>7 DEF WriterOK
<1> QED BY <1>3, <1>4, <1>5 DEF PutCheck

LEMMA WriteOK == ASSUME Base, NEW w \in Writer, Write(w) PROVE WriterOK(w)
<1>1. /\ TypeOK /\ writer[w].pc = "write" /\ WriterPlace(w)
      /\ UNCHANGED <<faults, dirs, at, lock, writer, reader, cleaner>>
  BY DEF Base, Write, WriterFrame
<1>2. WriterFrameOK(w)
  BY <1>1 DEF WriterFrameOK, TypeOK, WriterPlace, StagedName, Ended
<1>3. SameNames(w) /\ Locks(w)
  BY <1>1 DEF SameNames, Locks, AtWork, Ino, TypeOK
<1> QED BY <1>1, <1>2, <1>3 DEF WriterOK, Write

LEMMA FinalizeOK ==
    ASSUME Base, NEW w \in Writer, writer[w].pc = "write",
           NEW done \in {"ok", "dropped"}, NEW failed \in {"err", "panic"},
           done = "ok" => written[Ino(w)] = Whole, Finalize(w, done, failed)
    PROVE  WriterOK(w)
<1>1. /\ TypeOK /\ Unlock(w)
      /\ UNCHANGED <<faults, dirs, written, reader, cleaner>>
  BY DEF Base, Finalize, WriterFrame
<1>2. faults' \in 0..MaxFaults /\ dirs' \subseteq Dir
  BY <1>1 DEF TypeOK
<1>3. CASE /\ at[StagedName(w)] # None /\ WriterGoto(w, done)
           /\ at' = [at EXCEPT ![writer[w].target] = at[StagedName(w)],
                               ![StagedName(w)] = None]
  <2>1. WriterFrameOK(w)
    BY <1>1, <1>2, <1>3, GoesOK DEF Ended
  <2>2. writer'[w].pc = done /\ Ino(w)' = Ino(w)
    BY <1>1, <1>3, GotoFacts DEF Ended
  <2>3. Renamed(w)
    BY <1>3, <2>2 DEF Renamed
  <2>4. Locks(w)
    BY <1>1, UnlockFacts DEF Locks
  <2> QED BY <1>1, <2>1, <2>3, <2>4 DEF WriterOK
<1>4. CASE UNCHANGED at /\ WriterGoto(w, failed)
  BY <1>1, <1>2, <1>4, EndsOK DEF Ended
<1> QED BY <1>3, <1>4 DEF Finalize

LEMMA WriterFailOK ==
    ASSUME Base, NEW w \in Writer, WriterFail(w) \/ WriterCrash(w) PROVE WriterOK(w)
<1>1. /\ TypeOK /\ Fault /\ Unlock(w)
      /\ UNCHANGED <<dirs, at, written, reader, cleaner>>
      /\ writer[w].pc \notin Ended \cup {"new"}
  BY DEF Base, WriterFail, WriterCrash, WriterFrame, Ended
<1>2. faults' \in 0..MaxFaults /\ dirs' \subseteq Dir
  BY <1>1, SizesAssumption DEF TypeOK, Fault
<1>3. PICK pc \in {"err", "panic", "dead"} : WriterGoto(w, pc)
  BY DEF WriterFail, WriterCrash
<1>4. pc \in Ended \ {"ok"}
  BY DEF Ended
<1> QED BY <1>1, <1>2, <1>3, <1>4, EndsOK

LEMMA EveryWriterOK ==
    ASSUME Base, NEW w \in Writer,
           PutStart(w) \/ WriterStep(w) \/ Drop(w) \/ WriterFail(w) \/ WriterCrash(w)
    PROVE  WriterOK(w)
<1>1. CASE PutStart(w) BY <1>1, PutStartOK
<1>2. CASE PutExists(w) BY <1>2, PutExistsOK
<1>3. CASE PutMkdir(w) BY <1>3, PutMkdirOK
<1>4. CASE PutOpen(w) BY <1>4, PutOpenOK
<1>5. CASE PutLock(w) BY <1>5, PutLockOK
<1>6. CASE PutCheck(w) BY <1>6, PutCheckOK
<1>7. CASE Write(w) BY <1>7, WriteOK
<1>8. CASE Close(w) BY <1>8, FinalizeOK DEF Close
<1>9. CASE Drop(w) BY <1>9, FinalizeOK DEF Drop
<1>10. CASE WriterFail(w) \/ WriterCrash(w) BY <1>10, WriterFailOK
<1> QED BY <1>1, <1>2, <1>3, <1>4, <1>5, <1>6, <1>7, <1>8, <1>9, <1>10 DEF WriterStep
-----------------------------------------------------------------------------
(* Base is inductive.                                                      *)

\* Who owned a name keeps owning it, or the name leads nowhere any more.
LEMMA WriterKeepsNames ==
    ASSUME Base, NEW w \in Writer, WriterOK(w), at' \in [Name -> Inode \cup {None}],
           NEW n \in Staged
    PROVE  NamePlace(n)'
<1>1. /\ TypeOK /\ n \in Name /\ WriterFrameOK(w) /\ NamePlace(n)
      /\ at[n] # None => at[n] \in Inode
  BY DEF Base, WriterOK, Staged, Name, TypeOK
<1>2. \A v \in Writer \ {w} : writer'[v] = writer[v] /\ Ino(v)' = Ino(v)
                                /\ StagedName(v)' = StagedName(v)
  BY <1>1 DEF WriterFrameOK, Ino, StagedName
<1>3. ASSUME NEW v \in Writer \ {w}, Owns(v, n), at'[n] = at[n] PROVE Owns(v, n)'
  BY <1>2, <1>3 DEF Owns
<1>4. CASE SameNames(w)
  <2>1. at' = at
    BY <1>4 DEF SameNames
  <2>2. ASSUME Owns(w, n) PROVE Owns(w, n)'
    <3>1. writer[w].pc \in AtWork
      BY <1>1, <2>2 DEF Owns, WriterFrameOK
    <3>2. StagedName(w)' = StagedName(w)
      BY <1>1, <3>1 DEF WriterFrameOK, AtWork
    <3> QED BY <1>4, <2>1, <2>2, <3>1, <3>2 DEF Owns, SameNames
  <2> QED BY <1>1, <1>3, <2>1, <2>2 DEF NamePlace
<1>5. CASE Created(w)
  <2>1. StagedName(w)' = StagedName(w) /\ StagedName(w) \in Name
    BY <1>1, <1>5, InoFacts DEF WriterFrameOK, Created
  <2>2. CASE n = StagedName(w)
    <3>1. at'[n] = Ino(w)
      BY <1>1, <1>5, <2>1, <2>2 DEF Created, TypeOK
    <3>2. Owns(w, n)'
      BY <1>5, <2>1, <2>2, <3>1 DEF Owns, Created, AtWork
    <3> QED BY <3>2 DEF NamePlace
  <2>3. CASE n # StagedName(w)
    <3>1. at'[n] = at[n]
      BY <1>1, <1>5, <2>1, <2>3 DEF Created, TypeOK
    <3>2. ~Owns(w, n)
      BY <2>3 DEF Owns
    <3> QED BY <1>1, <1>3, <3>1, <3>2 DEF NamePlace
  <2> QED BY <2>2, <2>3
<1>6. CASE Renamed(w)
  <2>1. /\ StagedName(w) \in Name /\ writer[w].target \in Target
    BY <1>6, InoFacts DEF Renamed
  <2>2. n # writer[w].target
    BY <2>1, NoneAssumption DEF Staged
  <2>3. CASE n = StagedName(w)
    BY <1>1, <1>6, <2>1, <2>3 DEF Renamed, NamePlace, TypeOK
  <2>4. CASE n # StagedName(w)
    <3>1. at'[n] = at[n]
      BY <1>1, <1>6, <2>1, <2>2, <2>4 DEF Renamed, TypeOK
    <3>2. ~Owns(w, n)
      BY <2>4 DEF Owns
    <3> QED BY <1>1, <1>3, <3>1, <3>2 DEF NamePlace
  <2> QED BY <2>3, <2>4
<1>7. CASE Retried(w)
  <2>1. at'[n] # None => ~Owns(w, n)
    BY <1>7 DEF Retried, Owns
  <2> QED BY <1>1, <1>3, <1>7, <2>1 DEF NamePlace, Retried
<1> QED BY <1>4, <1>5, <1>6, <1>7 DEF WriterOK

LEMMA WriterKeepsLocks ==
    ASSUME Base, NEW w \in Writer, WriterOK(w), NEW i \in Inode
    PROVE  LockPlace(i)'
<1>1. /\ TypeOK /\ LockPlace(i) /\ WriterFrameOK(w) /\ Locks(w) /\ cleaner' = cleaner
      /\ Ino(w) \in Inode
  BY InoFacts DEF Base, WriterOK, WriterFrameOK
<1>2. \A v \in Writer \ {w} : writer'[v] = writer[v] /\ Ino(v)' = Ino(v)
  BY <1>1 DEF WriterFrameOK, Ino
<1>3. w \notin Cleaner
  BY NoneAssumption
<1>4. CASE lock'[i] = lock[i] /\ lock[i] # w
  BY <1>1, <1>2, <1>4 DEF LockPlace
<1>5. CASE /\ lock' = lock /\ Ino(w)' = Ino(w) /\ lock[i] = w
           /\ writer[w].pc \in {"check", "write"} <=> writer'[w].pc \in {"check", "write"}
  BY <1>1, <1>3, <1>5 DEF LockPlace
<1>6. CASE /\ lock' = [lock EXCEPT ![Ino(w)] = w] /\ writer'[w].pc = "check"
           /\ Ino(w)' = Ino(w) /\ lock'[i] = w
  <2>1. lock[i] = w \/ i = Ino(w)
    BY <1>1, <1>6 DEF TypeOK
  <2>2. i = Ino(w)
    BY <1>1, <2>1 DEF LockPlace
  <2> QED BY <1>3, <1>6, <2>2 DEF LockPlace
<1>7. CASE Unlock(w)
  <2>1. lock'[i] = IF lock[i] = w THEN None ELSE lock[i]
    BY <1>7 DEF Unlock
  <2>2. None \notin Writer \cup Cleaner
    BY NoneAssumption
  <2> QED BY <1>4, <2>1, <2>2 DEF LockPlace
<1>8. lock'[i] = lock[i] \/ lock'[i] = w \/ Unlock(w)
  BY <1>1 DEF Locks, TypeOK
<1> QED BY <1>1, <1>4, <1>5, <1>6, <1>7, <1>8 DEF Locks

LEMMA WriterKeepsBase == ASSUME Base, NEW w \in Writer, WriterOK(w) PROVE Base'
<1>1. /\ TypeOK /\ WriterFrameOK(w) /\ Locks(w)
      /\ Ino(w) \in Inode
      /\ \A v \in Writer \ {w} : writer'[v] = writer[v]
      /\ UNCHANGED <<reader, cleaner>>
  BY InoFacts DEF Base, WriterOK, WriterFrameOK
<1>2. at' \in [Name -> Inode \cup {None}]
  <2>1. CASE at' = at BY <1>1, <2>1 DEF TypeOK
  <2>2. CASE Created(w)
    <3>1. StagedName(w) \in Name
      BY <2>2, InoFacts DEF Created
    <3> QED BY <1>1, <2>2, <3>1 DEF TypeOK, Created
  <2>3. CASE Renamed(w)
    <3>1. StagedName(w) \in Name /\ writer[w].target \in Name
      BY <2>3, InoFacts DEF Renamed
    <3>2. at[StagedName(w)] \in Inode
      BY <1>1, <2>3, <3>1 DEF Renamed, TypeOK
    <3> QED BY <1>1, <2>3, <3>1, <3>2 DEF TypeOK, Renamed
  <2> QED BY <2>1, <2>2, <2>3 DEF WriterOK, SameNames, Retried
<1>3. written' \in [Inode -> 0..Whole]
  <2>1. CASE written' = written BY <1>1, <2>1 DEF TypeOK
  <2>2. CASE written[Ino(w)] < Whole /\ written' = [written EXCEPT ![Ino(w)] = @ + 1]
    <3>1. written[Ino(w)] + 1 \in 0..Whole
      BY <1>1, <2>2, SizesAssumption DEF TypeOK
    <3> QED BY <1>1, <2>2, <3>1 DEF TypeOK
  <2> QED BY <2>1, <2>2 DEF WriterOK
<1>4. TypeOK'
  BY <1>1, <1>2, <1>3 DEF TypeOK, WriterFrameOK, Locks
<1>5. ASSUME NEW v \in Writer PROVE WriterPlace(v)'
  <2>1. CASE v = w BY <1>1, <2>1 DEF WriterFrameOK
  <2>2. CASE v # w
    <3>1. writer'[v] = writer[v] /\ WriterPlace(v)
      BY <1>1, <2>2 DEF Base
    <3> QED BY <3>1 DEF WriterPlace
  <2> QED BY <2>1, <2>2
<1>6. ASSUME NEW r \in Reader PROVE ReaderPlace(r)'
  BY <1>1 DEF Base, ReaderPlace
<1>7. ASSUME NEW c \in Cleaner PROVE CleanerPlace(c)'
  BY <1>1 DEF Base, CleanerPlace
<1>8. ASSUME NEW i \in Inode PROVE LockPlace(i)'
  BY WriterKeepsLocks
<1>9. ASSUME NEW n \in Staged PROVE NamePlace(n)'
  BY <1>2, WriterKeepsNames
<1> QED BY <1>4, <1>5, <1>6, <1>7, <1>8, <1>9 DEF Base
\* A step of the cleaner c.
CleanerOK(c) ==
    /\ cleaner' \in [Cleaner -> CleanerCall] /\ \A d \in Cleaner \ {c} : cleaner'[d] = cleaner[d]
    /\ faults' \in 0..MaxFaults /\ CleanerPlace(c)' /\ cleaner'[c].pc # "new"
    /\ UNCHANGED <<dirs, written, writer, reader>>
    /\ \/ at' = at
       \/ cleaner[c].pc = "remove" /\ at' = [at EXCEPT ![cleaner[c].name] = None]
    /\ lock' \in [Inode -> Writer \cup Cleaner \cup {None}]
    /\ \/ lock' = lock /\ cleaner[c].pc # "release"
       \/ /\ cleaner[c].pc = "lock" /\ lock[cleaner[c].inode] = None
          /\ lock' = [lock EXCEPT ![cleaner[c].inode] = c]
          /\ cleaner'[c].pc = "release" /\ cleaner'[c].inode = cleaner[c].inode
       \/ cleaner[c].pc = "release" /\ lock' = [lock EXCEPT ![cleaner[c].inode] = None]
       \/ lock' = [i \in Inode |-> IF lock[i] = c THEN None ELSE lock[i]]

LEMMA CleanerGotoFacts ==
    ASSUME Base, NEW c \in Cleaner, NEW pc, CleanerGoto(c, pc),
           pc \in {"release", "remove", "ok", "err", "dead"},
           pc = "release" => cleaner[c].pc = "lock",
           pc = "remove" => cleaner[c].pc = "release"
    PROVE  /\ cleaner' \in [Cleaner -> CleanerCall]
           /\ \A d \in Cleaner \ {c} : cleaner'[d] = cleaner[d]
           /\ cleaner'[c].pc = pc /\ cleaner'[c].inode = cleaner[c].inode
           /\ cleaner'[c].name = cleaner[c].name /\ cleaner'[c].todo = cleaner[c].todo
           /\ cleaner'[c].old = cleaner[c].old /\ cleaner'[c].skipped = cleaner[c].skipped
           /\ CleanerPlace(c)'
<1>1. cleaner' = [cleaner EXCEPT ![c].pc = pc] /\ TypeOK /\ CleanerPlace(c)
  BY DEF CleanerGoto, Base
<1>2. /\ cleaner' \in [Cleaner -> CleanerCall]
      /\ \A d \in Cleaner \ {c} : cleaner'[d] = cleaner[d]
      /\ cleaner'[c].pc = pc /\ cleaner'[c].inode = cleaner[c].inode
      /\ cleaner'[c].name = cleaner[c].name /\ cleaner'[c].todo = cleaner[c].todo
      /\ cleaner'[c].old = cleaner[c].old /\ cleaner'[c].skipped = cleaner[c].skipped
  BY <1>1 DEF TypeOK, CleanerCall
<1> QED BY <1>1, <1>2 DEF CleanerPlace

LEMMA NextNameFacts ==
    ASSUME Base, NEW c \in Cleaner, cleaner[c].pc \in {"open", "lock", "remove"},
           NextName(c) \/ SkipName(c)
    PROVE  /\ cleaner' \in [Cleaner -> CleanerCall]
           /\ \A d \in Cleaner \ {c} : cleaner'[d] = cleaner[d]
           /\ cleaner'[c].pc = "scan" /\ cleaner'[c].todo = cleaner[c].todo
           /\ cleaner'[c].old = cleaner[c].old
           /\ NextName(c) => cleaner'[c].skipped = cleaner[c].skipped
           /\ SkipName(c) => cleaner'[c].skipped = cleaner[c].skipped \cup {cleaner[c].name}
           /\ CleanerPlace(c)'
<1>1. /\ cleaner \in [Cleaner -> CleanerCall] /\ cleaner[c] \in CleanerCall
      /\ cleaner[c].name \in Name
  BY DEF Base, TypeOK, CleanerPlace
<1> DEFINE more == cleaner[c].skipped \cup {cleaner[c].name}
           next == [cleaner[c] EXCEPT !.pc = "scan", !.name = None, !.inode = None]
           skip == [cleaner[c] EXCEPT !.pc = "scan", !.name = None, !.inode = None,
                                      !.skipped = more]
<1>2. NextName(c) => cleaner' = [cleaner EXCEPT ![c] = next]
  BY DEF NextName
<1>3. SkipName(c) => cleaner' = [cleaner EXCEPT ![c] = skip]
  BY <1>1 DEF SkipName
<1>4. /\ next \in CleanerCall /\ next.pc = "scan" /\ next.todo = cleaner[c].todo
      /\ next.old = cleaner[c].old /\ next.skipped = cleaner[c].skipped
  BY <1>1 DEF CleanerCall
<1>5. more \in SUBSET Name
  BY <1>1 DEF CleanerCall
<1> HIDE DEF more
<1>6. /\ skip \in CleanerCall /\ skip.pc = "scan" /\ skip.todo = cleaner[c].todo
      /\ skip.old = cleaner[c].old /\ skip.skipped = more
  BY <1>1, <1>5 DEF CleanerCall
<1> HIDE DEF next, skip
<1>7. ASSUME NEW call \in CleanerCall, cleaner' = [cleaner EXCEPT ![c] = call]
      PROVE  /\ cleaner' \in [Cleaner -> CleanerCall] /\ cleaner'[c] = call
             /\ \A d \in Cleaner \ {c} : cleaner'[d] = cleaner[d]
  BY <1>1, <1>7
<1>8. /\ NextName(c) => cleaner'[c] = next
      /\ SkipName(c) => cleaner'[c] = skip
      /\ cleaner' \in [Cleaner -> CleanerCall]
      /\ \A d \in Cleaner \ {c} : cleaner'[d] = cleaner[d]
  BY <1>2, <1>3, <1>4, <1>6, <1>7
<1>9. cleaner'[c].pc = "scan" => CleanerPlace(c)'
  BY DEF CleanerPlace
<1> QED BY <1>4, <1>6, <1>8, <1>9 DEF more

LEMMA CleanerStartOK == ASSUME Base, NEW c \in Cleaner, CleanerStart(c) PROVE CleanerOK(c)
<1> DEFINE call == [pc |-> "scan", todo |-> Scanned, name |-> None, inode |-> None,
                    old |-> {n \in Staged : Leftover(n)}, skipped |-> {}]
<1>1. /\ TypeOK /\ cleaner[c].pc \in {"new", "ok", "err"}
      /\ cleaner' = [cleaner EXCEPT ![c] = call]
      /\ UNCHANGED <<faults, at, lock, dirs, written, writer, reader>>
  BY DEF Base, CleanerStart, CleanerFrame, Staged
<1>2. call \in CleanerCall /\ call.pc = "scan"
  BY SizesAssumption DEF CleanerCall, Scanned, Staged, Name
<1> HIDE DEF call
<1>3. /\ cleaner' \in [Cleaner -> CleanerCall] /\ \A d \in Cleaner \ {c} : cleaner'[d] = cleaner[d]
      /\ cleaner'[c].pc = "scan"
  BY <1>1, <1>2 DEF TypeOK
<1>4. CleanerPlace(c)'
  BY <1>3 DEF CleanerPlace
<1> QED BY <1>1, <1>3, <1>4 DEF CleanerOK, TypeOK

LEMMA CleanerScanOK == ASSUME Base, NEW c \in Cleaner, CleanerScan(c) PROVE CleanerOK(c)
<1>1. /\ TypeOK /\ cleaner[c].pc = "scan" /\ CleanerPlace(c)
      /\ UNCHANGED <<faults, at, lock, dirs, written, writer, reader>>
  BY DEF Base, CleanerScan, CleanerFrame
<1>2. ASSUME NEW n \in cleaner[c].todo,
             cleaner' = [cleaner EXCEPT ![c].pc = "open", ![c].name = n, ![c].todo = @ \ {n}]
      PROVE  CleanerOK(c)
  <2>1. n \in Name
    BY <1>1 DEF TypeOK, CleanerCall
  <2>2. /\ cleaner' \in [Cleaner -> CleanerCall]
        /\ \A d \in Cleaner \ {c} : cleaner'[d] = cleaner[d]
        /\ cleaner'[c].pc = "open" /\ cleaner'[c].name = n
    BY <1>1, <1>2, <2>1 DEF TypeOK, CleanerCall
  <2>3. CleanerPlace(c)'
    BY <2>1, <2>2 DEF CleanerPlace
  <2> QED BY <1>1, <2>2, <2>3 DEF CleanerOK, TypeOK
<1>3. ASSUME NEW n \in cleaner[c].todo, cleaner' = [cleaner EXCEPT ![c].todo = @ \ {n}]
      PROVE  CleanerOK(c)
  <2>1. /\ cleaner' \in [Cleaner -> CleanerCall]
        /\ \A d \in Cleaner \ {c} : cleaner'[d] = cleaner[d]
        /\ cleaner'[c].pc = "scan"
    BY <1>1, <1>3 DEF TypeOK, CleanerCall
  <2>2. CleanerPlace(c)'
    BY <2>1 DEF CleanerPlace
  <2> QED BY <1>1, <2>1, <2>2 DEF CleanerOK, TypeOK
<1>4. CASE CleanerGoto(c, "ok")
  BY <1>1, <1>4, CleanerGotoFacts DEF CleanerOK, TypeOK
<1> QED BY <1>2, <1>3, <1>4 DEF CleanerScan

LEMMA CleanerOpenOK == ASSUME Base, NEW c \in Cleaner, CleanerOpen(c) PROVE CleanerOK(c)
<1>1. /\ TypeOK /\ cleaner[c].pc = "open" /\ cleaner[c].name \in Name
      /\ UNCHANGED <<faults, at, lock, dirs, written, writer, reader>>
  BY DEF Base, CleanerPlace, CleanerOpen, CleanerFrame
<1>2. CASE /\ at[cleaner[c].name] # None
           /\ cleaner' = [cleaner EXCEPT ![c].pc = "lock", ![c].inode = at[cleaner[c].name]]
  <2>1. at[cleaner[c].name] \in Inode
    BY <1>1, <1>2 DEF TypeOK
  <2>2. /\ cleaner' \in [Cleaner -> CleanerCall]
        /\ \A d \in Cleaner \ {c} : cleaner'[d] = cleaner[d]
        /\ cleaner'[c].pc = "lock" /\ cleaner'[c].inode = at[cleaner[c].name]
        /\ cleaner'[c].name = cleaner[c].name
    <3> DEFINE call == [cleaner[c] EXCEPT !.pc = "lock", !.inode = at[cleaner[c].name]]
    <3>1. /\ call \in CleanerCall /\ call.pc = "lock" /\ call.inode = at[cleaner[c].name]
          /\ call.name = cleaner[c].name
      BY <1>1, <2>1 DEF TypeOK, CleanerCall
    <3>2. cleaner' = [cleaner EXCEPT ![c] = call]
      BY <1>2
    <3> HIDE DEF call
    <3> QED BY <1>1, <3>1, <3>2 DEF TypeOK
  <2>3. CleanerPlace(c)'
    BY <1>1, <2>1, <2>2 DEF CleanerPlace
  <2> QED BY <1>1, <2>2, <2>3 DEF CleanerOK, TypeOK
<1>3. CASE NextName(c)
  BY <1>1, <1>3, NextNameFacts DEF CleanerOK, TypeOK
<1> QED BY <1>2, <1>3 DEF CleanerOpen

LEMMA CleanerLockOK == ASSUME Base, NEW c \in Cleaner, CleanerLock(c) PROVE CleanerOK(c)
<1>1. /\ TypeOK /\ cleaner[c].pc = "lock" /\ cleaner[c].inode \in Inode
      /\ UNCHANGED <<faults, at, dirs, written, writer, reader>>
  BY DEF Base, CleanerPlace, CleanerLock, CleanerFrame
<1>2. CASE /\ IsFree(cleaner[c].inode) /\ lock' = [lock EXCEPT ![cleaner[c].inode] = c]
           /\ CleanerGoto(c, "release")
  <2>1. lock' \in [Inode -> Writer \cup Cleaner \cup {None}]
    BY <1>1, <1>2 DEF TypeOK
  <2> QED BY <1>1, <1>2, <2>1, CleanerGotoFacts DEF CleanerOK, TypeOK, IsFree
<1>3. CASE UNCHANGED lock /\ (NextName(c) \/ SkipName(c))
  BY <1>1, <1>3, NextNameFacts DEF CleanerOK, TypeOK
<1> QED BY <1>2, <1>3 DEF CleanerLock

LEMMA CleanerReleaseOK ==
    ASSUME Base, NEW c \in Cleaner, CleanerRelease(c) PROVE CleanerOK(c)
<1>1. /\ TypeOK /\ cleaner[c].pc = "release" /\ cleaner[c].inode \in Inode
      /\ UNCHANGED <<faults, at, dirs, written, writer, reader>>
      /\ CleanerGoto(c, "remove") /\ lock' = [lock EXCEPT ![cleaner[c].inode] = None]
  BY DEF Base, CleanerPlace, CleanerRelease, CleanerFrame, GiveLockBack
<1>2. lock' \in [Inode -> Writer \cup Cleaner \cup {None}]
  BY <1>1 DEF TypeOK
<1> QED BY <1>1, <1>2, CleanerGotoFacts DEF CleanerOK, TypeOK

LEMMA CleanerRemoveOK ==
    ASSUME Base, NEW c \in Cleaner, CleanerRemove(c) PROVE CleanerOK(c)
<1>1. /\ TypeOK /\ cleaner[c].pc = "remove"
      /\ UNCHANGED <<faults, lock, dirs, written, writer, reader>>
  BY DEF Base, CleanerRemove, CleanerFrame
<1>2. CASE at' = [at EXCEPT ![cleaner[c].name] = None] /\ NextName(c)
  BY <1>1, <1>2, NextNameFacts DEF CleanerOK, TypeOK
<1>3. CASE UNCHANGED at /\ CleanerGoto(c, "err")
  BY <1>1, <1>3, CleanerGotoFacts DEF CleanerOK, TypeOK
<1> QED BY <1>2, <1>3 DEF CleanerRemove

LEMMA CleanerFailOK == ASSUME Base, NEW c \in Cleaner, CleanerFail(c) PROVE CleanerOK(c)
<1>1. /\ TypeOK /\ Fault /\ UNCHANGED <<at, dirs, written, writer, reader>>
  BY DEF Base, CleanerFail, CleanerFrame
<1>2. faults' \in 0..MaxFaults
  BY <1>1, SizesAssumption DEF TypeOK, Fault
<1>3. CASE cleaner[c].pc \in {"scan", "remove"} /\ CleanerGoto(c, "err") /\ UNCHANGED lock
  BY <1>1, <1>2, <1>3, CleanerGotoFacts DEF CleanerOK, TypeOK
<1>4. CASE /\ CleanerGoto(c, "dead")
           /\ lock' = [i \in Inode |-> IF lock[i] = c THEN None ELSE lock[i]]
  <2>1. lock' \in [Inode -> Writer \cup Cleaner \cup {None}]
    BY <1>1, <1>4 DEF TypeOK
  <2> QED BY <1>1, <1>2, <1>4, <2>1, CleanerGotoFacts DEF CleanerOK
<1> QED BY <1>3, <1>4 DEF CleanerFail

LEMMA CleanerSkipOK == ASSUME Base, NEW c \in Cleaner, CleanerSkip(c) PROVE CleanerOK(c)
<1>1. /\ TypeOK /\ Fault /\ cleaner[c].pc \in {"open", "lock"} /\ SkipName(c)
      /\ UNCHANGED <<at, lock, dirs, written, writer, reader>>
  BY DEF Base, CleanerSkip, CleanerFrame
<1>2. faults' \in 0..MaxFaults
  BY <1>1, SizesAssumption DEF TypeOK, Fault
<1> QED BY <1>1, <1>2, NextNameFacts DEF CleanerOK, TypeOK

CleanerActs(c) == CleanerStart(c) \/ CleanerStep(c) \/ CleanerSkip(c) \/ CleanerFail(c)

LEMMA EveryCleanerOK ==
    ASSUME Base, NEW c \in Cleaner, CleanerActs(c)
    PROVE  CleanerOK(c)
  BY CleanerStartOK, CleanerScanOK, CleanerOpenOK, CleanerLockOK, CleanerReleaseOK,
     CleanerRemoveOK, CleanerSkipOK, CleanerFailOK DEF CleanerActs, CleanerStep

LEMMA CleanerKeepsBase == ASSUME Base, NEW c \in Cleaner, CleanerOK(c) PROVE Base'
<1>1. /\ TypeOK /\ CleanerPlace(c)
      /\ \A d \in Cleaner \ {c} : cleaner'[d] = cleaner[d]
      /\ UNCHANGED <<dirs, written, writer, reader>>
  BY DEF Base, CleanerOK
<1>2. /\ at' \in [Name -> Inode \cup {None}]
      /\ \A n \in Name : at'[n] = at[n] \/ at'[n] = None
  BY <1>1 DEF CleanerOK, TypeOK
<1>3. TypeOK'
  BY <1>1, <1>2 DEF TypeOK, CleanerOK
<1>4. \A w \in Writer : WriterPlace(w)'
  BY <1>1 DEF Base, WriterPlace
<1>5. \A r \in Reader : ReaderPlace(r)'
  BY <1>1 DEF Base, ReaderPlace
<1>6. ASSUME NEW d \in Cleaner PROVE CleanerPlace(d)'
  <2>1. CASE d = c BY <2>1 DEF CleanerOK
  <2>2. CASE d # c
    <3>1. cleaner'[d] = cleaner[d] /\ CleanerPlace(d)
      BY <1>1, <2>2 DEF Base
    <3> QED BY <3>1 DEF CleanerPlace
  <2> QED BY <2>1, <2>2
<1>7. ASSUME NEW i \in Inode PROVE LockPlace(i)'
  <2>1. /\ LockPlace(i) /\ c \notin Writer /\ None \notin Writer \cup Cleaner
        /\ Writer \cap Cleaner = {}
    BY NoneAssumption DEF Base
  <2>2. \A w \in Writer : Ino(w)' = Ino(w)
    BY <1>1 DEF Ino
  <2>3. CASE lock'[i] = lock[i] /\ lock[i] # c
    BY <1>1, <2>1, <2>2, <2>3 DEF LockPlace
  <2>4. CASE lock'[i] = None
    BY <2>1, <2>4 DEF LockPlace
  <2>5. CASE /\ cleaner[c].pc = "lock" /\ lock'[i] = c /\ i = cleaner[c].inode
             /\ cleaner'[c].pc = "release" /\ cleaner'[c].inode = cleaner[c].inode
    BY <2>1, <2>5 DEF LockPlace
  <2>6. lock[i] = c => cleaner[c].pc = "release" /\ cleaner[c].inode = i
    BY <2>1 DEF LockPlace
  <2>7. CASE lock' = lock /\ cleaner[c].pc # "release"
    BY <2>3, <2>6, <2>7
  <2>8. CASE /\ cleaner[c].pc = "lock" /\ lock' = [lock EXCEPT ![cleaner[c].inode] = c]
             /\ cleaner'[c].pc = "release" /\ cleaner'[c].inode = cleaner[c].inode
    <3>1. i # cleaner[c].inode => lock'[i] = lock[i]
      BY <1>1, <2>8 DEF TypeOK
    <3>2. i = cleaner[c].inode => lock'[i] = c
      BY <1>1, <2>8 DEF TypeOK
    <3> QED BY <2>3, <2>5, <2>6, <2>8, <3>1, <3>2
  <2>9. CASE cleaner[c].pc = "release" /\ lock' = [lock EXCEPT ![cleaner[c].inode] = None]
    <3>1. i # cleaner[c].inode => lock'[i] = lock[i]
      BY <1>1, <2>9 DEF TypeOK
    <3>2. i = cleaner[c].inode => lock'[i] = None
      BY <1>1, <2>9 DEF TypeOK
    <3> QED BY <2>3, <2>4, <2>6, <3>1, <3>2
  <2>10. CASE lock' = [j \in Inode |-> IF lock[j] = c THEN None ELSE lock[j]]
    <3>1. lock'[i] = IF lock[i] = c THEN None ELSE lock[i]
      BY <2>10
    <3> QED BY <2>3, <2>4, <3>1
  <2> QED BY <2>7, <2>8, <2>9, <2>10 DEF CleanerOK
<1>8. ASSUME NEW n \in Staged PROVE NamePlace(n)'
  <2>1. NamePlace(n) /\ (at'[n] = at[n] \/ at'[n] = None)
    BY <1>2 DEF Base, Staged, Name
  <2> QED BY <1>1, <2>1 DEF NamePlace, Owns, Ino, StagedName
<1> QED BY <1>3, <1>4, <1>5, <1>6, <1>7, <1>8 DEF Base
LEMMA OthersKeepBase ==
    ASSUME Base,
           \/ \E r \in Reader : GetOpen(r) \/ Read(r)
           \/ \E t \in Target : Delete(t)
           \/ UNCHANGED vars
    PROVE  Base'
<1>1. /\ TypeOK /\ UNCHANGED <<faults, dirs, written, lock, writer, cleaner>>
  BY DEF Base, GetOpen, Read, Delete, vars
<1>2. /\ at' \in [Name -> Inode \cup {None}]
      /\ \A n \in Staged : at'[n] = at[n]
  <2>1. CASE at' = at BY <1>1, <2>1 DEF TypeOK
  <2>2. ASSUME NEW t \in Target, Delete(t)
        PROVE  /\ at' \in [Name -> Inode \cup {None}]
               /\ \A n \in Staged : at'[n] = at[n]
    BY <1>1, <2>2, NoneAssumption DEF Delete, TypeOK, Staged, Name
  <2> QED BY <2>1, <2>2 DEF GetOpen, Read, vars
<1>3. reader' \in [Reader -> ReaderCall] /\ \A r \in Reader : ReaderPlace(r)'
  <2>1. CASE reader' = reader
    BY <1>1, <2>1 DEF Base, TypeOK, ReaderPlace
  <2>2. ASSUME NEW r \in Reader, GetOpen(r)
        PROVE  reader' \in [Reader -> ReaderCall] /\ \A q \in Reader : ReaderPlace(q)'
    <3>1. PICK t \in Target :
             reader' = [reader EXCEPT ![r].target = t, ![r].inode = at[t],
                          ![r].pc = IF at[t] = None THEN "none" ELSE "read"]
      BY <2>2 DEF GetOpen
    <3> DEFINE call == [reader[r] EXCEPT !.target = t, !.inode = at[t],
                                         !.pc = IF at[t] = None THEN "none" ELSE "read"]
    <3>2. at[t] \in Inode \cup {None}
      BY <1>1 DEF TypeOK, Name
    <3>3. call \in ReaderCall /\ (call.pc = "read" => call.inode \in Inode)
      BY <1>1, <3>2 DEF TypeOK, ReaderCall
    <3>4. reader' = [reader EXCEPT ![r] = call]
      BY <3>1
    <3> HIDE DEF call
    <3> QED BY <1>1, <3>3, <3>4 DEF TypeOK, Base, ReaderPlace
  <2>3. ASSUME NEW r \in Reader, Read(r)
        PROVE  reader' \in [Reader -> ReaderCall] /\ \A q \in Reader : ReaderPlace(q)'
    <3>1. reader[r].pc = "read" /\ reader[r].inode \in Inode
      BY <2>3 DEF Read, Base, ReaderPlace
    <3>2. CASE /\ reader[r].got < written[reader[r].inode]
               /\ reader' = [reader EXCEPT ![r].got = @ + 1]
      <4> DEFINE call == [reader[r] EXCEPT !.got = @ + 1]
      <4>1. reader[r].got + 1 \in 0..Whole
        BY <1>1, <3>1, <3>2, SizesAssumption DEF TypeOK, ReaderCall
      <4>2. call \in ReaderCall /\ call.inode = reader[r].inode
        BY <1>1, <4>1 DEF TypeOK, ReaderCall
      <4>3. reader' = [reader EXCEPT ![r] = call]
        BY <3>2
      <4> HIDE DEF call
      <4> QED BY <1>1, <3>1, <4>2, <4>3 DEF TypeOK, Base, ReaderPlace
    <3>3. CASE reader' = [reader EXCEPT ![r].pc = "done"]
      BY <1>1, <3>3 DEF TypeOK, Base, ReaderPlace, ReaderCall
    <3> QED BY <2>3, <3>2, <3>3 DEF Read
  <2> QED BY <2>1, <2>2, <2>3 DEF Delete, vars
<1>4. TypeOK'
  BY <1>1, <1>2, <1>3 DEF TypeOK
<1>5. \A w \in Writer : WriterPlace(w)'
  BY <1>1 DEF Base, WriterPlace
<1>6. \A c \in Cleaner : CleanerPlace(c)'
  BY <1>1 DEF Base, CleanerPlace
<1>7. \A i \in Inode : LockPlace(i)'
  BY <1>1 DEF Base, LockPlace, Ino
<1>8. \A n \in Staged : NamePlace(n)'
  BY <1>1, <1>2 DEF Base, NamePlace, Owns, Ino, StagedName
<1> QED BY <1>3, <1>4, <1>5, <1>6, <1>7, <1>8 DEF Base

LEMMA InitBase == Init => Base
<1> SUFFICES ASSUME Init PROVE Base
  OBVIOUS
<1>1. TypeOK
  <2>1. [pc |-> "new", target |-> None, suffix |-> None, level |-> 1, try |-> 1] \in WriterCall
    BY SizesAssumption DEF WriterCall
  <2>2. [pc |-> "new", target |-> None, inode |-> None, got |-> 0] \in ReaderCall
    BY SizesAssumption DEF ReaderCall
  <2>3. [pc |-> "new", todo |-> {}, name |-> None, inode |-> None, old |-> {},
         skipped |-> {}] \in CleanerCall
    BY DEF CleanerCall
  <2> QED BY <2>1, <2>2, <2>3, SizesAssumption DEF Init, TypeOK
<1>2. /\ \A w \in Writer : writer[w].pc = "new" /\ writer[w].level = 1
                            /\ writer[w].target = None
      /\ \A r \in Reader : reader[r].pc = "new"
      /\ \A c \in Cleaner : cleaner[c].pc = "new"
      /\ \A i \in Inode : lock[i] = None
      /\ \A n \in Name : at[n] = None
  BY DEF Init
<1>3. None \notin Writer \cup Cleaner
  BY NoneAssumption
<1> QED BY <1>1, <1>2, <1>3
        DEF Base, WriterPlace, ReaderPlace, CleanerPlace, LockPlace, NamePlace, Staged, Name

LEMMA NextKeepsBase == ASSUME Base, [Next]_vars PROVE Base'
<1>1. ASSUME NEW w \in Writer,
             PutStart(w) \/ WriterStep(w) \/ Drop(w) \/ WriterFail(w) \/ WriterCrash(w)
      PROVE  Base'
  BY <1>1, EveryWriterOK, WriterKeepsBase
<1>2. ASSUME NEW c \in Cleaner, CleanerActs(c)
      PROVE  Base'
  BY <1>2, EveryCleanerOK, CleanerKeepsBase
<1>3. CASE \/ \E r \in Reader : GetOpen(r) \/ Read(r)
           \/ \E t \in Target : Delete(t)
           \/ UNCHANGED vars
  BY <1>3, OthersKeepBase
<1> QED BY <1>1, <1>2, <1>3 DEF Next, CleanerActs

\* Whatever runs at the same time, wherever calls fail and processes are
\* killed: names lead to inodes, locks are held by writers and cleaners, and no
\* call gets beyond what the code knows (FilesystemStorage, StagedFile::new,
\* finalize, and clean_leftover_tmp_files).
THEOREM TypeCorrect == Spec => []TypeOK
<1>1. Init => Base
  BY InitBase
<1>2. Base /\ [Next]_vars => Base'
  BY NextKeepsBase
<1>3. Base => TypeOK
  BY DEF Base
<1> QED BY <1>1, <1>2, <1>3, PTL DEF Spec

-----------------------------------------------------------------------------
(* Without cleaners a staged name keeps leading to the file of its writer: *)
(* another writer that has drawn the same name finds it taken.             *)

Kept(w) == writer[w].pc \in AtWork => at[StagedName(w)] = Ino(w)
Alone == Cleaner = {} => \A w \in Writer : Kept(w)

LEMMA WriterKeepsKept ==
    ASSUME Base, \A w \in Writer : Kept(w), NEW v \in Writer, WriterOK(v), NEW w \in Writer
    PROVE  Kept(w)'
<1>1. /\ TypeOK /\ WriterFrameOK(v) /\ Kept(v) /\ Kept(w)
  BY DEF Base, WriterOK
<1>2. CASE w = v
  <2>1. CASE SameNames(v)
    <3>1. writer'[v].pc \in AtWork => writer[v].pc \in AtWork /\ writer[v].pc # "new"
      BY <2>1 DEF SameNames, AtWork
    <3> QED BY <1>1, <1>2, <2>1, <3>1 DEF Kept, SameNames, WriterFrameOK
  <2>2. CASE Created(v)
    <3>1. StagedName(v)' = StagedName(v) /\ StagedName(v) \in Name
      BY <1>1, <2>2, InoFacts DEF WriterFrameOK, Created
    <3> QED BY <1>1, <1>2, <2>2, <3>1 DEF Kept, Created, TypeOK
  <2>3. CASE Renamed(v) \/ Retried(v)
    BY <1>2, <2>3 DEF Kept, Renamed, Retried, AtWork
  <2> QED BY <2>1, <2>2, <2>3 DEF WriterOK
<1>3. CASE w # v
  <2>1. /\ writer'[w] = writer[w] /\ Ino(w)' = Ino(w) /\ StagedName(w)' = StagedName(w)
    BY <1>1, <1>3 DEF WriterFrameOK, Ino, StagedName
  <2> SUFFICES ASSUME writer[w].pc \in AtWork PROVE at'[StagedName(w)] = Ino(w)
    BY <2>1 DEF Kept
  <2>2. /\ at[StagedName(w)] = Ino(w) /\ Ino(w) # None
        /\ StagedName(w) \in Staged /\ StagedName(w) \in Name
    BY <1>1, InoFacts DEF Kept, AtWork
  <2>3. CASE Created(v)
    <3>1. StagedName(v) # StagedName(w)
      BY <2>2, <2>3 DEF Created
    <3> QED BY <1>1, <2>2, <2>3, <3>1 DEF Created, TypeOK
  <2>4. CASE Renamed(v)
    <3>1. /\ at[StagedName(v)] = Ino(v) /\ Ino(v) # Ino(w) /\ writer[v].target \in Target
          /\ StagedName(v) \in Name
      BY <1>1, <1>3, <2>4, InoFacts DEF Kept, Renamed, AtWork
    <3>2. StagedName(v) # StagedName(w) /\ writer[v].target # StagedName(w)
      BY <2>2, <3>1, NoneAssumption DEF Staged
    <3> QED BY <1>1, <2>2, <2>4, <3>1, <3>2 DEF Renamed, TypeOK
  <2>5. CASE SameNames(v) \/ Retried(v)
    BY <2>2, <2>5 DEF SameNames, Retried
  <2> QED BY <2>3, <2>4, <2>5 DEF WriterOK
<1> QED BY <1>2, <1>3

LEMMA NextKeepsAlone == ASSUME Base, Alone, [Next]_vars PROVE Alone'
<1> SUFFICES ASSUME Cleaner = {}, NEW w \in Writer PROVE Kept(w)'
  BY DEF Alone
<1>1. TypeOK /\ \A v \in Writer : Kept(v)
  BY DEF Alone, Base
<1>2. ASSUME NEW v \in Writer,
             PutStart(v) \/ WriterStep(v) \/ Drop(v) \/ WriterFail(v) \/ WriterCrash(v)
      PROVE  Kept(w)'
  BY <1>1, <1>2, EveryWriterOK, WriterKeepsKept
<1>3. ASSUME UNCHANGED <<at, writer>> PROVE Kept(w)'
  BY <1>1, <1>3 DEF Kept, StagedName, Ino
<1>4. ASSUME NEW t \in Target, Delete(t) PROVE Kept(w)'
  <2>1. UNCHANGED writer /\ at' = [at EXCEPT ![t] = None]
    BY <1>4 DEF Delete
  <2>2. writer[w].pc \in AtWork => StagedName(w) \in Name /\ StagedName(w) # t
    BY InoFacts, NoneAssumption DEF AtWork, Staged
  <2> QED BY <1>1, <2>1, <2>2 DEF Kept, StagedName, Ino, TypeOK
<1> QED BY <1>2, <1>3, <1>4 DEF Next, CleanerActs, GetOpen, Read, vars

\* Without cleaners, what a writer has staged stays under its name until the
\* writer is closed, given up or killed, also if others draw the same suffix
\* (create_new in StagedFile::new, and finalize).
THEOREM StagedKept == Cleaner = {} /\ Spec => []StagedIsKept
<1> DEFINE Inv == Base /\ Alone
<1>1. Init => Inv
  <2>1. Init => Alone
    BY DEF Init, Alone, Kept, AtWork
  <2> QED BY <2>1, InitBase
<1>2. Inv /\ [Next]_vars => Inv'
  BY NextKeepsBase, NextKeepsAlone
<1>3. Inv => (Cleaner = {} => StagedIsKept)
  BY DEF Alone, Kept, StagedIsKept, AtWork
<1> HIDE DEF Inv
<1>4. Spec => [](Cleaner = {} => StagedIsKept)
  BY <1>1, <1>2, <1>3, PTL DEF Spec
<1>5. CASE Cleaner = {}
  <2>1. (Cleaner = {} => StagedIsKept) => StagedIsKept
    BY <1>5
  <2> QED BY <1>4, <2>1, PTL
<1> QED BY <1>5
-----------------------------------------------------------------------------
(* Where no two writers may draw the same suffix, nobody but its writer    *)
(* puts a file under a staged name: once removed, a leftover stays away.   *)

DrawsApart == \A v, w \in Writer : v # w => Draw[v] \cap Draw[w] = {}
EndedAs(n) == \E w \in Writer : writer[w].pc \in Ended /\ StagedName(w) = n
\* c has n still to do, or is at it.
StillTo(c, n) ==
    \/ cleaner[c].pc \in {"scan", "open", "lock", "release", "remove"} /\ n \in cleaner[c].todo
    \/ /\ cleaner[c].pc \in {"open", "lock", "release", "remove"} /\ cleaner[c].name = n
       /\ cleaner[c].pc = "lock" => cleaner[c].inode = at[n]
OldPlace(c) ==
    /\ \A n \in cleaner[c].old : n \in Staged /\ EndedAs(n)
    /\ cleaner[c].pc \notin {"err", "dead"} =>
          \A n \in cleaner[c].old \ cleaner[c].skipped : at[n] = None \/ StillTo(c, n)
Olds == \A c \in Cleaner : OldPlace(c)

LEMMA NamesApart ==
    ASSUME Base, DrawsApart, NEW v \in Writer, NEW w \in Writer,
           writer[v].pc # "new", writer[w].pc # "new", StagedName(v) = StagedName(w)
    PROVE  v = w
<1>1. writer[v].suffix \in Draw[v] /\ writer[w].suffix \in Draw[w]
  BY DEF Base, WriterPlace
<1>2. writer[v].suffix = writer[w].suffix
  BY DEF StagedName
<1> QED BY <1>1, <1>2 DEF DrawsApart

\* What a writer does to a name whose writer has ended.
LEMMA EndedStays ==
    ASSUME Base, DrawsApart, NEW v \in Writer, WriterOK(v), NEW n \in Staged, EndedAs(n)
    PROVE  EndedAs(n)' /\ (at'[n] = at[n] \/ at'[n] = None)
<1>1. PICK w \in Writer : writer[w].pc \in Ended /\ StagedName(w) = n
  BY DEF EndedAs
<1>2. /\ TypeOK /\ n \in Name /\ v # w /\ writer'[w] = writer[w] /\ writer[v].pc \notin Ended
  BY <1>1 DEF Base, WriterOK, WriterFrameOK, Staged, Name
<1>3. EndedAs(n)'
  BY <1>1, <1>2 DEF EndedAs, StagedName
<1>4. CASE Created(v)
  <2>1. StagedName(v) # n
    BY <1>1, <1>2, <1>4, NamesApart DEF Created, Ended
  <2> QED BY <1>2, <1>3, <1>4, <2>1 DEF Created, TypeOK
<1>5. CASE Renamed(v)
  <2>1. writer[v].target \in Target /\ writer[v].target # n
    BY <1>5, InoFacts, NoneAssumption DEF Renamed, Staged
  <2> QED BY <1>2, <1>3, <1>5, <2>1 DEF Renamed, TypeOK
<1>6. CASE SameNames(v) \/ Retried(v)
  BY <1>3, <1>6 DEF SameNames, Retried
<1> QED BY <1>4, <1>5, <1>6 DEF WriterOK

\* No writer holds the lock of a file whose writer has ended.
LEMMA LeftoverIsFree ==
    ASSUME Base, DrawsApart, NEW n \in Staged, EndedAs(n), at[n] # None
    PROVE  lock[at[n]] \in Cleaner \cup {None}
<1>1. PICK w \in Writer : writer[w].pc \in Ended /\ StagedName(w) = n
  BY DEF EndedAs
<1>2. PICK v \in Writer : Owns(v, n)
  BY DEF Base, NamePlace
<1>3. v = w
  BY <1>1, <1>2, NamesApart DEF Owns, AtWork, Ended
<1>4. at[n] = Ino(w) /\ Ino(w) \in Inode /\ LockPlace(Ino(w)) /\ TypeOK
  BY <1>2, <1>3, InoFacts DEF Owns, Base
<1>5. lock[Ino(w)] \notin Writer
  <2>1. SUFFICES ASSUME lock[Ino(w)] \in Writer PROVE FALSE
    OBVIOUS
  <2>2. lock[Ino(w)] = w
    BY <1>4, <2>1, InoFacts DEF LockPlace
  <2> QED BY <1>1, <1>4, <2>1, <2>2 DEF LockPlace, Ended
<1> QED BY <1>4, <1>5 DEF TypeOK

\* What c skips it need not remove.
LEMMA Skipped ==
    ASSUME Base, NEW c \in Cleaner, OldPlace(c), cleaner[c].pc \in {"open", "lock"}, at' = at,
           UNCHANGED writer, SkipName(c)
    PROVE  OldPlace(c)'
<1>1. /\ cleaner'[c].pc = "scan" /\ cleaner'[c].todo = cleaner[c].todo
      /\ cleaner'[c].old = cleaner[c].old
      /\ cleaner'[c].skipped = cleaner[c].skipped \cup {cleaner[c].name}
  BY NextNameFacts
<1>2. \A n \in cleaner'[c].old : n \in Staged /\ EndedAs(n)'
  BY <1>1 DEF OldPlace, EndedAs, StagedName
<1>3. \A n \in cleaner'[c].old \ cleaner'[c].skipped : at'[n] = None \/ StillTo(c, n)'
  BY <1>1 DEF OldPlace, StillTo
<1> QED BY <1>2, <1>3 DEF OldPlace

LEMMA CleanerKeepsOld ==
    ASSUME Base, DrawsApart, Olds, NEW c \in Cleaner,
           CleanerActs(c)
    PROVE  OldPlace(c)'
<1>1. /\ TypeOK /\ OldPlace(c) /\ CleanerOK(c) /\ CleanerPlace(c)
      /\ UNCHANGED writer
      /\ \A d \in Cleaner \ {c} : cleaner'[d] = cleaner[d]
      /\ \A n : EndedAs(n)' <=> EndedAs(n)
  <2>1. CleanerOK(c)
    BY EveryCleanerOK
  <2>2. UNCHANGED writer /\ \A d \in Cleaner \ {c} : cleaner'[d] = cleaner[d]
    BY <2>1 DEF CleanerOK
  <2>3. \A n : EndedAs(n)' <=> EndedAs(n)
    BY <2>2 DEF EndedAs, StagedName
  <2> QED BY <2>1, <2>2, <2>3 DEF Base, Olds
<1>2. CASE CleanerStart(c)
  <2> DEFINE call == [pc |-> "scan", todo |-> Scanned, name |-> None, inode |-> None,
                      old |-> {n \in Staged : Leftover(n)}, skipped |-> {}]
  <2>1. cleaner'[c] = call
    BY <1>1, <1>2 DEF CleanerStart, Staged, TypeOK
  <2>2. ASSUME NEW n \in Staged, Leftover(n) PROVE EndedAs(n)
    <3>1. PICK v \in Writer : Owns(v, n)
      BY <2>2 DEF Base, NamePlace, Leftover
    <3>2. Ino(v)[1] = v
      BY InoFacts
    <3> QED BY <2>2, <3>1, <3>2 DEF Leftover, Owns, EndedAs
  <2>3. cleaner'[c].pc = "scan" /\ cleaner'[c].todo = Scanned
        /\ cleaner'[c].old = {n \in Staged : Leftover(n)}
    BY <2>1
  <2>4. \A n \in cleaner'[c].old : n \in Staged /\ EndedAs(n)' /\ StillTo(c, n)'
    BY <1>1, <2>2, <2>3 DEF StillTo, Scanned, Staged
  <2> QED BY <2>4 DEF OldPlace
<1>3. \A n \in Staged : at'[n] = at[n] \/ at'[n] = None
  BY <1>1 DEF CleanerOK, TypeOK, Staged, Name
<1>4. ASSUME cleaner'[c].old = cleaner[c].old, cleaner[c].pc \notin {"err", "dead"},
             cleaner[c].skipped \subseteq cleaner'[c].skipped,
             ASSUME NEW n \in cleaner[c].old \ cleaner'[c].skipped, at[n] # None,
                    at'[n] # None, n \in Staged, StillTo(c, n), EndedAs(n),
                    cleaner'[c].pc \notin {"err", "dead"}
             PROVE  StillTo(c, n)'
      PROVE  OldPlace(c)'
  BY <1>1, <1>3, <1>4 DEF OldPlace
<1>5. CASE CleanerScan(c)
  <2>1. cleaner[c].pc = "scan" /\ at' = at
    BY <1>5 DEF CleanerScan
  <2>2. ASSUME NEW m \in cleaner[c].todo,
               cleaner' = [cleaner EXCEPT ![c].pc = "open", ![c].name = m, ![c].todo = @ \ {m}]
        PROVE  OldPlace(c)'
    <3>1. /\ cleaner'[c].pc = "open" /\ cleaner'[c].name = m
          /\ cleaner'[c].todo = cleaner[c].todo \ {m} /\ cleaner'[c].old = cleaner[c].old
          /\ cleaner'[c].skipped = cleaner[c].skipped
      BY <1>1, <2>2 DEF TypeOK, CleanerCall
    <3> QED BY <1>4, <2>1, <3>1 DEF StillTo
  <2>3. ASSUME NEW m \in cleaner[c].todo, at[m] = None,
               cleaner' = [cleaner EXCEPT ![c].todo = @ \ {m}]
        PROVE  OldPlace(c)'
    <3>1. /\ cleaner'[c].pc = "scan"
          /\ cleaner'[c].todo = cleaner[c].todo \ {m} /\ cleaner'[c].old = cleaner[c].old
          /\ cleaner'[c].skipped = cleaner[c].skipped
      BY <1>1, <2>1, <2>3 DEF TypeOK, CleanerCall
    <3> QED BY <1>4, <2>1, <2>3, <3>1 DEF StillTo
  <2>4. CASE cleaner[c].todo = {} /\ CleanerGoto(c, "ok")
    <3>1. cleaner'[c].old = cleaner[c].old /\ cleaner'[c].skipped = cleaner[c].skipped
      BY <2>4, CleanerGotoFacts
    <3>2. \A n : ~StillTo(c, n)
      BY <2>1, <2>4 DEF StillTo
    <3> QED BY <1>4, <2>1, <3>1, <3>2
  <2> QED BY <1>5, <2>2, <2>3, <2>4 DEF CleanerScan
<1>6. CASE CleanerOpen(c)
  <2>1. cleaner[c].pc = "open" /\ at' = at
    BY <1>6 DEF CleanerOpen
  <2>2. CASE cleaner' = [cleaner EXCEPT ![c].pc = "lock", ![c].inode = at[cleaner[c].name]]
    <3>1. /\ cleaner'[c].pc = "lock" /\ cleaner'[c].name = cleaner[c].name
          /\ cleaner'[c].inode = at[cleaner[c].name]
          /\ cleaner'[c].todo = cleaner[c].todo /\ cleaner'[c].old = cleaner[c].old
          /\ cleaner'[c].skipped = cleaner[c].skipped
      BY <1>1, <2>2 DEF TypeOK, CleanerCall
    <3> QED BY <1>4, <2>1, <3>1 DEF StillTo
  <2>3. CASE at[cleaner[c].name] = None /\ NextName(c)
    <3>1. /\ cleaner'[c].pc = "scan" /\ cleaner'[c].skipped = cleaner[c].skipped
          /\ cleaner'[c].todo = cleaner[c].todo /\ cleaner'[c].old = cleaner[c].old
      BY <2>1, <2>3, NextNameFacts
    <3> QED BY <1>4, <2>1, <2>3, <3>1 DEF StillTo
  <2> QED BY <1>6, <2>2, <2>3 DEF CleanerOpen
<1>7. CASE CleanerLock(c)
  <2>1. cleaner[c].pc = "lock" /\ at' = at
    BY <1>7 DEF CleanerLock
  <2>2. CASE CleanerGoto(c, "release")
    <3>1. /\ cleaner'[c].pc = "release" /\ cleaner'[c].name = cleaner[c].name
          /\ cleaner'[c].skipped = cleaner[c].skipped
          /\ cleaner'[c].todo = cleaner[c].todo /\ cleaner'[c].old = cleaner[c].old
      BY <2>1, <2>2, CleanerGotoFacts
    <3> QED BY <1>4, <2>1, <3>1 DEF StillTo
  <2>3. CASE /\ ~IsFree(cleaner[c].inode) /\ lock[cleaner[c].inode] \notin Cleaner
             /\ NextName(c)
    <3>1. /\ cleaner'[c].pc = "scan" /\ cleaner'[c].skipped = cleaner[c].skipped
          /\ cleaner'[c].todo = cleaner[c].todo /\ cleaner'[c].old = cleaner[c].old
      BY <2>1, <2>3, NextNameFacts
    <3>2. ASSUME NEW n \in cleaner[c].old, at[n] # None, n \in Staged, StillTo(c, n), EndedAs(n)
          PROVE  n \in cleaner[c].todo
      BY <2>1, <2>3, <3>2, LeftoverIsFree DEF StillTo, IsFree
    <3> QED BY <1>4, <2>1, <3>1, <3>2 DEF StillTo
  <2>4. CASE SkipName(c)
    BY <1>1, <2>1, <2>4, Skipped
  <2> QED BY <1>7, <2>2, <2>3, <2>4 DEF CleanerLock
<1>8. CASE CleanerRelease(c)
  <2>1. cleaner[c].pc = "release" /\ CleanerGoto(c, "remove")
    BY <1>8 DEF CleanerRelease
  <2>2. /\ cleaner'[c].pc = "remove" /\ cleaner'[c].name = cleaner[c].name
        /\ cleaner'[c].skipped = cleaner[c].skipped
        /\ cleaner'[c].todo = cleaner[c].todo /\ cleaner'[c].old = cleaner[c].old
    BY <2>1, CleanerGotoFacts
  <2> QED BY <1>4, <2>1, <2>2 DEF StillTo
<1>9. CASE CleanerRemove(c)
  <2>1. cleaner[c].pc = "remove" /\ cleaner[c].name \in Name
    BY <1>1, <1>9 DEF CleanerRemove, CleanerPlace
  <2>2. CASE at' = [at EXCEPT ![cleaner[c].name] = None] /\ NextName(c)
    <3>1. /\ cleaner'[c].pc = "scan" /\ cleaner'[c].skipped = cleaner[c].skipped
          /\ cleaner'[c].todo = cleaner[c].todo /\ cleaner'[c].old = cleaner[c].old
      BY <2>1, <2>2, NextNameFacts
    <3>2. at'[cleaner[c].name] = None
      BY <1>1, <2>1, <2>2 DEF TypeOK
    <3> QED BY <1>4, <2>1, <3>1, <3>2 DEF StillTo
  <2>3. CASE CleanerGoto(c, "err")
    <3>1. /\ cleaner'[c].old = cleaner[c].old /\ cleaner'[c].pc = "err"
          /\ cleaner'[c].skipped = cleaner[c].skipped
      BY <2>3, CleanerGotoFacts
    <3> QED BY <1>4, <2>1, <3>1
  <2> QED BY <1>9, <2>2, <2>3 DEF CleanerRemove
<1>10. CASE CleanerFail(c)
  <2>1. PICK pc \in {"err", "dead"} : CleanerGoto(c, pc)
    BY <1>10 DEF CleanerFail
  <2>2. cleaner'[c].old = cleaner[c].old /\ cleaner'[c].pc = pc
    BY <2>1, CleanerGotoFacts
  <2> QED BY <1>1, <2>2 DEF OldPlace
<1>11. CASE CleanerSkip(c)
  <2>1. cleaner[c].pc \in {"open", "lock"} /\ at' = at /\ SkipName(c)
    BY <1>11 DEF CleanerSkip
  <2> QED BY <1>1, <2>1, Skipped
<1> QED BY <1>2, <1>5, <1>6, <1>7, <1>8, <1>9, <1>10, <1>11 DEF CleanerActs, CleanerStep

\* A step that is not c's.
LEMMA OldFrame ==
    ASSUME Olds, NEW c \in Cleaner, cleaner'[c] = cleaner[c],
           \A n \in Staged : EndedAs(n) =>
               EndedAs(n)' /\ (at'[n] = at[n] \/ at'[n] = None)
    PROVE  OldPlace(c)'
<1>1. OldPlace(c)
  BY DEF Olds
<1> QED BY <1>1 DEF OldPlace, StillTo

LEMMA NextKeepsOlds == ASSUME Base, DrawsApart, Olds, [Next]_vars PROVE Olds'
<1>1. TypeOK
  BY DEF Base
<1>2. ASSUME NEW v \in Writer,
             PutStart(v) \/ WriterStep(v) \/ Drop(v) \/ WriterFail(v) \/ WriterCrash(v)
      PROVE  Olds'
  <2>1. WriterOK(v)
    BY <1>2, EveryWriterOK
  <2>2. cleaner' = cleaner
    BY <2>1 DEF WriterOK, WriterFrameOK
  <2>3. ASSUME NEW c \in Cleaner PROVE OldPlace(c)'
    BY <2>1, <2>2, EndedStays, OldFrame
  <2> QED BY <2>3 DEF Olds
<1>3. ASSUME NEW d \in Cleaner, CleanerActs(d)
      PROVE  Olds'
  <2>1. CleanerOK(d) /\ cleaner'[d].pc # "new"
    BY <1>3, EveryCleanerOK DEF CleanerOK
  <2>2. /\ \A e \in Cleaner \ {d} : cleaner'[e] = cleaner[e]
        /\ UNCHANGED writer /\ \A n \in Staged : at'[n] = at[n] \/ at'[n] = None
    BY <1>1, <2>1 DEF CleanerOK, TypeOK, Staged, Name
  <2>3. ASSUME NEW c \in Cleaner PROVE OldPlace(c)'
    <3>1. CASE c = d BY <1>3, <3>1, CleanerKeepsOld
    <3>2. CASE c # d
      BY <2>2, <3>2, OldFrame DEF EndedAs, StagedName
    <3> QED BY <3>1, <3>2
  <2> QED BY <2>3 DEF Olds
<1>4. ASSUME UNCHANGED <<writer, cleaner>>, \A n \in Staged : at'[n] = at[n] PROVE Olds'
  <2>1. ASSUME NEW c \in Cleaner PROVE OldPlace(c)'
    BY <1>4, OldFrame DEF EndedAs, StagedName
  <2> QED BY <2>1 DEF Olds
<1>5. ASSUME NEW t \in Target, Delete(t) PROVE Olds'
  <2>1. \A n \in Staged : at'[n] = at[n]
    BY <1>1, <1>5, NoneAssumption DEF Delete, TypeOK, Staged, Name
  <2> QED BY <1>4, <1>5, <2>1 DEF Delete
<1>6. ASSUME NEW r \in Reader, GetOpen(r) \/ Read(r) PROVE Olds'
  BY <1>4, <1>6 DEF GetOpen, Read
<1>7. CASE UNCHANGED vars
  BY <1>4, <1>7 DEF vars
<1> QED BY <1>2, <1>3, <1>5, <1>6, <1>7 DEF Next, CleanerActs

\* A cleaner that succeeds has removed every file that was left over when it
\* began, but for those a failing call or another cleaner kept it from trying
\* the lock of, as long as no two writers draw the same suffix: no writer holds
\* the lock of such a file, and nobody puts a file there again
\* (clean_leftover_tmp_files).
THEOREM LeftoversGone == DrawsApart /\ Spec => []LeftoversGo
<1> DEFINE Inv == Base /\ (DrawsApart => Olds)
<1>1. Init => Inv
  <2>1. Init => Olds
    BY DEF Init, Olds, OldPlace
  <2> QED BY <2>1, InitBase
<1>2. Inv /\ [Next]_vars => Inv'
  BY NextKeepsBase, NextKeepsOlds
<1>3. Inv => (DrawsApart => LeftoversGo)
  BY DEF Olds, OldPlace, StillTo, LeftoversGo
<1> HIDE DEF Inv
<1>4. Spec => [](DrawsApart => LeftoversGo)
  BY <1>1, <1>2, <1>3, PTL DEF Spec
<1>5. CASE DrawsApart
  <2>1. (DrawsApart => LeftoversGo) => LeftoversGo
    BY <1>5
  <2> QED BY <1>4, <2>1, PTL
<1> QED BY <1>5
-----------------------------------------------------------------------------
(* The steps of StagedStorage are steps of StorageSpec, if there are no    *)
(* cleaners or no two writers draw the same suffix: then only what its own *)
(* writer has ended is published.                                          *)

Separate == Cleaner = {} \/ DrawsApart
EndedInode(i) == i \in Inode /\ writer[i[1]].pc \in Ended
Published ==
    /\ \A t \in Target : at[t] # None => EndedInode(at[t])
    /\ \A r \in Reader : /\ reader[r].pc = "read" => EndedInode(reader[r].inode)
                         /\ reader[r].pc = "done" => reader[r].inode \in Inode
RefInv == Base /\ Alone /\ (Separate => Published)

\* A writer renames its own file.
LEMMA OwnFile ==
    ASSUME Base, Alone, Separate, NEW w \in Writer, writer[w].pc = "write",
           at[StagedName(w)] # None
    PROVE  at[StagedName(w)] = Ino(w)
<1>1. CASE Cleaner = {}
  BY <1>1 DEF Alone, Kept, AtWork
<1>2. CASE DrawsApart
  <2>1. PICK v \in Writer : Owns(v, StagedName(w))
    BY InoFacts DEF Base, NamePlace
  <2>2. v = w
    BY <1>2, <2>1, NamesApart DEF Owns, AtWork, Ended
  <2> QED BY <2>1, <2>2 DEF Owns
<1> QED BY <1>1, <1>2 DEF Separate

LEMMA InodeEnded ==
    ASSUME Base, NEW w \in Writer, WriterOK(w), NEW i, EndedInode(i)
    PROVE  EndedInode(i)' /\ i # Ino(w) /\ written'[i] = written[i]
<1>1. /\ TypeOK /\ WriterFrameOK(w) /\ i \in Inode /\ i[1] \in Writer /\ Ino(w)[1] = w
      /\ Ino(w) \in Inode
  BY InoFacts DEF Base, WriterOK, EndedInode, Inode
<1>2. i[1] # w /\ writer'[i[1]] = writer[i[1]]
  BY <1>1 DEF EndedInode, WriterFrameOK
<1>3. written'[i] = written[i]
  BY <1>1, <1>2 DEF WriterOK, TypeOK
<1> QED BY <1>1, <1>2, <1>3 DEF EndedInode

\* What a writer does to the published files.
LEMMA WriterPublishes ==
    ASSUME Base, Alone, Separate, NEW w \in Writer, WriterOK(w), NEW t \in Target
    PROVE  \/ at'[t] = at[t]
           \/ Renamed(w) /\ t = writer[w].target /\ at'[t] = Ino(w)
<1>1. /\ TypeOK /\ t \in Name /\ t \notin Staged
  BY NoneAssumption DEF Base, Name, Staged
<1>2. CASE Created(w)
  <2>1. StagedName(w) \in Staged
    BY <1>2, InoFacts DEF Created
  <2> QED BY <1>1, <1>2, <2>1 DEF Created, TypeOK
<1>3. CASE Renamed(w)
  <2>1. /\ StagedName(w) \in Staged /\ writer[w].target \in Name
        /\ at[StagedName(w)] = Ino(w)
    BY <1>3, InoFacts, OwnFile DEF Renamed
  <2> QED BY <1>1, <1>3, <2>1 DEF Renamed, TypeOK
<1>4. CASE SameNames(w) \/ Retried(w)
  BY <1>4 DEF SameNames, Retried
<1> QED BY <1>2, <1>3, <1>4 DEF WriterOK

LEMMA NextKeepsPublished ==
    ASSUME Base, Alone, Separate, Published, [Next]_vars PROVE Published'
<1>1. TypeOK
  BY DEF Base
<1>2. ASSUME NEW w \in Writer,
             PutStart(w) \/ WriterStep(w) \/ Drop(w) \/ WriterFail(w) \/ WriterCrash(w)
      PROVE  Published'
  <2>1. WriterOK(w) /\ reader' = reader
    BY <1>2, EveryWriterOK DEF WriterOK, WriterFrameOK
  <2>2. \A i : EndedInode(i) => EndedInode(i)'
    BY <2>1, InodeEnded
  <2>3. ASSUME NEW t \in Target, at'[t] # None PROVE EndedInode(at[t])'
    <3>1. CASE at'[t] = at[t]
      BY <2>2, <2>3, <3>1 DEF Published, EndedInode
    <3>2. CASE Renamed(w) /\ at'[t] = Ino(w)
      <4>1. Ino(w) \in Inode /\ Ino(w)[1] = w
        BY InoFacts
      <4> QED BY <3>2, <4>1 DEF EndedInode, Renamed, Ended
    <3> QED BY <2>1, <3>1, <3>2, WriterPublishes
  <2>4. ASSUME NEW r \in Reader, reader'[r].pc = "read" PROVE EndedInode(reader[r].inode)'
    BY <2>1, <2>2, <2>4 DEF Published, EndedInode
  <2> QED BY <2>1, <2>3, <2>4 DEF Published
<1>3. ASSUME writer' = writer, \A t \in Target : at'[t] = at[t] \/ at'[t] = None, reader' = reader
      PROVE  Published'
  BY <1>3 DEF Published, EndedInode
<1>4. ASSUME NEW c \in Cleaner, CleanerActs(c)
      PROVE  Published'
  BY <1>1, <1>3, <1>4, EveryCleanerOK DEF CleanerOK, TypeOK, Name
<1>5. ASSUME NEW t \in Target, Delete(t) PROVE Published'
  BY <1>1, <1>3, <1>5 DEF Delete, TypeOK, Name
<1>6. ASSUME NEW r \in Reader, GetOpen(r) \/ Read(r) PROVE Published'
  <2>1. UNCHANGED <<at, writer>> /\ \A q \in Reader \ {r} : reader'[q] = reader[q]
    BY <1>1, <1>6 DEF GetOpen, Read, TypeOK
  <2>2. /\ reader'[r].pc = "read" => EndedInode(reader'[r].inode)
        /\ reader'[r].pc = "done" => reader'[r].inode \in Inode
    <3>1. CASE GetOpen(r)
      BY <1>1, <3>1 DEF GetOpen, TypeOK, Published
    <3>2. CASE Read(r)
      BY <1>1, <3>2 DEF Read, TypeOK, ReaderCall, Published, EndedInode
    <3> QED BY <1>6, <3>1, <3>2
  <2> QED BY <2>1, <2>2 DEF Published, EndedInode
<1>7. CASE UNCHANGED vars
  BY <1>3, <1>7 DEF vars
<1> QED BY <1>2, <1>4, <1>5, <1>6, <1>7 DEF Next, CleanerActs

Path    == [w \in Writer |-> writer[w].target]
Content == [t \in Target |-> IF at[t] = None THEN None ELSE ValueOf(at[t], written[at[t]])]
Answer  == [r \in Reader |-> AnswerOf(r)]
Outcome == [w \in Writer |-> OutcomeOf(w)]

LEMMA OutcomeFacts ==
    ASSUME NEW w \in Writer
    PROVE  /\ writer[w].pc = "ok" => OutcomeOf(w) = "ok"
           /\ writer[w].pc \in Ended \ {"ok"} => OutcomeOf(w) = "off"
           /\ writer[w].pc \notin Ended => OutcomeOf(w) = "open"
  BY DEF OutcomeOf, Ended

LEMMA WriterAbstract ==
    ASSUME Base, Alone, Separate, Published, NEW w \in Writer, WriterOK(w)
    PROVE  \/ Abstract!Put(w) \/ Abstract!Close(w) \/ Abstract!GiveUp(w)
           \/ UNCHANGED <<Path, Content, Answer, Outcome>>
<1>1. /\ TypeOK /\ WriterFrameOK(w) /\ reader' = reader
      /\ Ino(w) \in Inode /\ Ino(w)[1] = w /\ Ino(w) # None
  BY InoFacts DEF Base, WriterOK, WriterFrameOK
<1>2. Answer' = Answer
  <2>1. ASSUME NEW r \in Reader PROVE AnswerOf(r)' = AnswerOf(r)
    <3>1. reader[r].pc = "read" => written'[reader[r].inode] = written[reader[r].inode]
      BY InodeEnded DEF Published
    <3> QED BY <1>1, <3>1 DEF AnswerOf, FoundBy, ValueOf
  <2> QED BY <2>1 DEF Answer
<1>3. \A v \in Writer \ {w} : OutcomeOf(v)' = OutcomeOf(v)
  BY <1>1 DEF WriterFrameOK, OutcomeOf
<1>4. OutcomeOf(w) = "open" /\ \A v \in Writer \ {w} : writer'[v].target = writer[v].target
  BY <1>1, OutcomeFacts DEF WriterFrameOK
<1>5. ASSUME NEW t \in Target, at'[t] = at[t] PROVE Content'[t] = Content[t]
  BY <1>5, InodeEnded DEF Published, Content, ValueOf
<1>8. CASE writer[w].pc = "new"
  <2>1. /\ writer'[w].pc \in {"open", "exists"} /\ writer[w].target = None
        /\ writer'[w].target \in Target /\ WriterPlace(w)'
    BY <1>1, <1>8 DEF WriterFrameOK, Base, WriterPlace
  <2>2. PICK t \in Target : t = writer'[w].target
    BY <2>1
  <2>3. Path[w] = None /\ Path' = [Path EXCEPT ![w] = t]
    BY <1>4, <2>1, <2>2 DEF Path
  <2>4. Content' = Content
    <3>1. ~Renamed(w)
      BY <1>8 DEF Renamed
    <3> QED BY <1>5, <3>1, WriterPublishes DEF Content
  <2>5. Outcome' = Outcome
    <3>1. OutcomeOf(w)' = "open"
      BY <2>1 DEF OutcomeOf, Ended
    <3> QED BY <1>3, <1>4, <3>1 DEF Outcome
  <2>6. Abstract!Put(w)
    BY <1>2, <2>3, <2>4, <2>5 DEF Abstract!Put, Path, Content, Answer, Outcome
  <2> QED BY <2>6
<1>9. ASSUME writer[w].pc # "new"
      PROVE  Path' = Path /\ Path[w] = writer[w].target /\ Path[w] # None
  BY <1>1, <1>4, <1>9, InoFacts, NoneAssumption DEF WriterFrameOK, Path, Name
<1>6. CASE Renamed(w)
  <2> DEFINE t == writer[w].target
  <2>0. Path' = Path /\ Path[w] = t /\ Path[w] # None
    BY <1>6, <1>9 DEF Renamed
  <2>1. t \in Target /\ at[StagedName(w)] = Ino(w)
    BY <1>6, InoFacts, OwnFile DEF Renamed
  <2>2. at'[t] = Ino(w) /\ written' = written
    <3>1. StagedName(w) \in Name /\ t \in Name /\ t # StagedName(w)
      BY <1>6, InoFacts DEF Renamed
    <3>2. at'[t] = Ino(w)
      BY <1>1, <1>6, <2>1, <3>1 DEF Renamed, TypeOK
    <3>3. written' = written
      BY <1>6 DEF Renamed, WriterOK
    <3> QED BY <3>2, <3>3
  <2>3. Content' = [Content EXCEPT ![t] = ValueOf(Ino(w), written[Ino(w)])]
    <3>1. ASSUME NEW s \in Target, s # t PROVE Content'[s] = Content[s]
      BY <1>5, <3>1, WriterPublishes
    <3>2. Content'[t] = ValueOf(Ino(w), written[Ino(w)])
      BY <1>1, <2>1, <2>2 DEF Content, ValueOf
    <3> QED BY <2>1, <3>1, <3>2 DEF Content
  <2>4. written[Ino(w)] \in 0..Whole
    BY <1>1 DEF TypeOK
  <2>5. CASE writer'[w].pc = "ok"
    <3>1. OutcomeOf(w)' = "ok" /\ written[Ino(w)] = Whole
      BY <1>6, <2>5 DEF Renamed, OutcomeOf
    <3>2. Outcome' = [Outcome EXCEPT ![w] = "ok"]
      BY <1>3, <3>1 DEF Outcome
    <3>3. Abstract!Close(w)
      BY <1>1, <1>2, <1>4, <2>0, <2>1, <2>3, <3>1, <3>2
         DEF Abstract!Close, Path, Content, Answer, Outcome, ValueOf
    <3> QED BY <3>3
  <2>6. CASE writer'[w].pc = "dropped"
    <3>1. OutcomeOf(w)' = "off"
      BY <2>6 DEF OutcomeOf, Ended
    <3>2. Outcome' = [Outcome EXCEPT ![w] = "off"]
      BY <1>3, <3>1 DEF Outcome
    <3>3. \E n \in 0..Whole :
             Content' = [Content EXCEPT ![Path[w]] = [by |-> w, upto |-> n]]
      BY <1>1, <2>0, <2>1, <2>3, <2>4 DEF ValueOf
    <3>4. Abstract!GiveUp(w)
      BY <1>2, <1>4, <2>0, <3>2, <3>3 DEF Abstract!GiveUp, Path, Content, Answer, Outcome
    <3> QED BY <3>4
  <2> QED BY <1>6, <2>5, <2>6 DEF Renamed
<1>7. CASE ~Renamed(w) /\ writer[w].pc # "new"
  <2>1. Content' = Content
    BY <1>5, <1>7, WriterPublishes DEF Content
  <2>2. CASE writer'[w].pc \in Ended
    <3>1. OutcomeOf(w)' = "off"
      BY <1>7, <2>2 DEF WriterOK, OutcomeOf, Ended
    <3>2. Outcome' = [Outcome EXCEPT ![w] = "off"]
      BY <1>3, <3>1 DEF Outcome
    <3>3. Abstract!GiveUp(w)
      BY <1>2, <1>4, <1>7, <1>9, <2>1, <3>2
         DEF Abstract!GiveUp, Path, Content, Answer, Outcome
    <3> QED BY <3>3
  <2>3. CASE writer'[w].pc \notin Ended
    <3>1. OutcomeOf(w)' = "open"
      BY <2>3 DEF OutcomeOf, Ended
    <3>2. Outcome' = Outcome
      BY <1>3, <1>4, <3>1 DEF Outcome
    <3> QED BY <1>2, <1>7, <1>9, <2>1, <3>2
  <2> QED BY <2>2, <2>3
<1> QED BY <1>6, <1>7, <1>8

\* A published file that goes away goes as a whole.
LEMMA RemovalAbstract ==
    ASSUME Base, NEW n \in Name, at' = [at EXCEPT ![n] = None],
           UNCHANGED <<written, writer, reader>>
    PROVE  (\E t \in Target : Abstract!Delete(t)) \/ UNCHANGED <<Path, Content, Answer, Outcome>>
<1>1. Path' = Path /\ Answer' = Answer /\ Outcome' = Outcome
  BY DEF Path, Answer, Outcome, AnswerOf, FoundBy, OutcomeOf
<1>2. \A s \in Name : at'[s] = IF s = n THEN None ELSE at[s]
  BY DEF Base, TypeOK
<1>3. CASE n \in Target
  <2>1. Content' = [Content EXCEPT ![n] = None]
    BY <1>2, <1>3 DEF Content, ValueOf, Name
  <2>2. Abstract!Delete(n)
    BY <1>1, <2>1 DEF Abstract!Delete, Path, Content, Answer, Outcome
  <2> QED BY <1>3, <2>2
<1>4. CASE n \notin Target
  <2>1. Content' = Content
    BY <1>2, <1>4 DEF Content, Name
  <2> QED BY <1>1, <2>1
<1> QED BY <1>3, <1>4

LEMMA ReaderAbstract ==
    ASSUME Base, NEW r \in Reader, GetOpen(r) \/ Read(r)
    PROVE  Abstract!Read(r) \/ UNCHANGED <<Path, Content, Answer, Outcome>>
<1>1. /\ TypeOK /\ UNCHANGED <<at, written, writer>>
      /\ \A q \in Reader \ {r} : reader'[q] = reader[q]
  BY DEF Base, GetOpen, Read, TypeOK
<1>2. Path' = Path /\ Content' = Content /\ Outcome' = Outcome
  BY <1>1 DEF Path, Content, Outcome, OutcomeOf
<1>3. \A q \in Reader \ {r} : AnswerOf(q)' = AnswerOf(q)
  BY <1>1 DEF AnswerOf, FoundBy
<1>4. CASE GetOpen(r)
  <2>1. PICK t \in Target :
           reader' = [reader EXCEPT ![r].target = t, ![r].inode = at[t],
                        ![r].pc = IF at[t] = None THEN "none" ELSE "read"]
    BY <1>4 DEF GetOpen
  <2>2. /\ reader'[r].inode = at[t] /\ reader'[r].target = t
        /\ reader'[r].pc = IF at[t] = None THEN "none" ELSE "read"
    BY <1>1, <2>1 DEF TypeOK, ReaderCall
  <2>3. AnswerOf(r) = Pending
    BY <1>4 DEF GetOpen, AnswerOf
  <2>4. AnswerOf(r)' = [path |-> t, file |-> Content[t]]
    BY <1>1, <2>2 DEF AnswerOf, FoundBy, Content, ValueOf
  <2>5. Answer' = [Answer EXCEPT ![r] = [path |-> t, file |-> Content[t]]]
    BY <1>3, <2>4 DEF Answer
  <2>6. Abstract!Read(r)
    BY <1>2, <2>3, <2>5 DEF Abstract!Read, Path, Content, Answer, Outcome
  <2> QED BY <2>6
<1>5. CASE Read(r)
  <2>1. /\ reader[r].pc = "read" /\ reader'[r].inode = reader[r].inode
        /\ reader'[r].target = reader[r].target
        /\ \/ reader'[r].pc = "read"
           \/ reader'[r].pc = "done" /\ reader'[r].got = written[reader[r].inode]
    BY <1>1, <1>5 DEF Read, TypeOK, ReaderCall
  <2>2. AnswerOf(r)' = AnswerOf(r)
    BY <1>1, <2>1 DEF AnswerOf, FoundBy, ValueOf
  <2>3. Answer' = Answer
    BY <1>3, <2>2 DEF Answer
  <2> QED BY <1>2, <2>3
<1> QED BY <1>4, <1>5

LEMMA InitAbstract == Init => Abstract!Init
<1> SUFFICES ASSUME Init PROVE Abstract!Init
  OBVIOUS
<1>1. \A t \in Target : at[t] = None
  BY DEF Init, Name
<1>2. \A r \in Reader : AnswerOf(r) = Pending
  BY DEF Init, AnswerOf
<1>3. \A w \in Writer : OutcomeOf(w) = "open" /\ writer[w].target = None
  BY DEF Init, OutcomeOf, Ended
<1> QED BY <1>1, <1>2, <1>3 DEF Abstract!Init

LEMMA NextAbstract ==
    ASSUME Base, Alone, Separate, Published, [Next]_vars
    PROVE  [Abstract!Next]_<<Path, Content, Answer, Outcome>>
<1>1. ASSUME NEW w \in Writer,
             PutStart(w) \/ WriterStep(w) \/ Drop(w) \/ WriterFail(w) \/ WriterCrash(w)
      PROVE  [Abstract!Next]_<<Path, Content, Answer, Outcome>>
  BY <1>1, EveryWriterOK, WriterAbstract DEF Abstract!Next
<1>2. ASSUME NEW r \in Reader, GetOpen(r) \/ Read(r)
      PROVE  [Abstract!Next]_<<Path, Content, Answer, Outcome>>
  BY <1>2, ReaderAbstract DEF Abstract!Next
<1>3. ASSUME NEW t \in Target, Delete(t)
      PROVE  [Abstract!Next]_<<Path, Content, Answer, Outcome>>
  <2>1. t \in Name
    BY DEF Name
  <2> QED BY <1>3, <2>1, RemovalAbstract DEF Delete, Abstract!Next
<1>4. ASSUME UNCHANGED <<at, written, writer, reader>>
      PROVE  [Abstract!Next]_<<Path, Content, Answer, Outcome>>
  BY <1>4 DEF Path, Content, Answer, Outcome, AnswerOf, FoundBy, OutcomeOf
<1>5. ASSUME NEW c \in Cleaner, CleanerActs(c)
      PROVE  [Abstract!Next]_<<Path, Content, Answer, Outcome>>
  <2>1. CleanerOK(c)
    BY <1>5, EveryCleanerOK
  <2>2. CASE cleaner[c].pc = "remove" /\ at' = [at EXCEPT ![cleaner[c].name] = None]
    <3>1. cleaner[c].name \in Name
      BY <2>2 DEF Base, CleanerPlace
    <3> QED BY <2>1, <2>2, <3>1, RemovalAbstract DEF CleanerOK, Abstract!Next
  <2> QED BY <1>4, <2>1, <2>2 DEF CleanerOK
<1>6. CASE UNCHANGED vars
  BY <1>4, <1>6 DEF vars
<1> QED BY <1>1, <1>2, <1>3, <1>5, <1>6 DEF Next, CleanerActs

\* Files appear in one step at the path their writer was put at, whole if it was
\* closed, are replaced and removed as a whole, and readers get what was at the
\* path they named when they opened it: StagedFile implements what the Storage trait promises, if there are no
\* cleaners of leftovers, or no two writers draw the same suffix.
THEOREM Implements == Separate /\ Spec => ImplementsStorage
<1>1. Init => RefInv
  <2>1. Init => Published
    BY DEF Init, Published, Name
  <2>2. Init => Alone
    BY DEF Init, Alone, Kept, AtWork
  <2> QED BY <2>1, <2>2, InitBase DEF RefInv
<1>2. RefInv /\ [Next]_vars => RefInv'
  BY NextKeepsBase, NextKeepsAlone, NextKeepsPublished DEF RefInv
<1>3. CASE Separate
  <2>1. RefInv /\ [Next]_vars => [Abstract!Next]_<<Path, Content, Answer, Outcome>>
    BY <1>3, NextAbstract DEF RefInv
  <2>2. Spec => Abstract!Init /\ [][Abstract!Next]_<<Path, Content, Answer, Outcome>>
    BY <1>1, <1>2, <2>1, InitAbstract, PTL DEF Spec
  <2> QED BY <2>2, PTL DEF ImplementsStorage, Abstract!Spec, Path, Content, Answer, Outcome
<1> QED BY <1>3
=============================================================================
