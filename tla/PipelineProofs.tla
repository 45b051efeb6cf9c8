---------------------------- MODULE PipelineProofs ----------------------------
(***************************************************************************)
(* Theorems about jobs that share a cache, for any number of jobs, cleans, *)
(* keys, entries and faults.  The invariant follows an archive: metas of a *)
(* writer lead to a complete archive of a store that was given the key,    *)
(* restore unpacks that archive from its first entry on, and knows what of *)
(* the keys before was missing.  Last, that jobs repair broken keys.       *)
(***************************************************************************)
EXTENDS Pipeline, Minima

-----------------------------------------------------------------------------
(* The keys that are given.                                                *)

Filter(s, n, f) ==
    [i \in 0..n |-> IF i = 0 THEN <<>>
                    ELSE IF s[i] = Blank THEN f[i - 1] ELSE Append(f[i - 1], s[i])]

LEMMA FilterExists ==
    ASSUME NEW s, NEW n \in Nat PROVE \E f : f = Filter(s, n, f)
<1> DEFINE Without == {m \in Nat : ~ \E f : f = Filter(s, m, f)}
<1> SUFFICES ASSUME Without # {} PROVE FALSE
  OBVIOUS
<1>1. PICK m \in Without : \A l \in Without : m <= l
  <2>1. Without \in SUBSET Nat
    OBVIOUS
  <2> HIDE DEF Without
  <2> QED BY <2>1, LeastNumber
<1>2. m # 0
  <2>1. [i \in 0..0 |-> <<>>] = Filter(s, 0, [i \in 0..0 |-> <<>>])
    BY DEF Filter
  <2> QED BY <1>1, <2>1
<1>3. m - 1 \in Nat /\ m - 1 \notin Without
  BY <1>1, <1>2
<1>4. PICK f : f = Filter(s, m - 1, f)
  BY <1>3
<1> DEFINE g == [i \in 0..m |-> IF i # m THEN f[i]
                               ELSE IF s[m] = Blank THEN f[m - 1] ELSE Append(f[m - 1], s[m])]
<1>5. ASSUME NEW i \in 0..m PROVE g[i] = Filter(s, m, g)[i]
  <2>1. CASE i = m
    BY <1>2, <1>3, <2>1 DEF Filter
  <2>2. CASE i # m
    <3>1. i \in 0..(m - 1) /\ (i # 0 => i - 1 \in 0..m /\ i - 1 # m)
      BY <1>1, <2>2
    <3>2. f[i] = Filter(s, m - 1, f)[i]
      BY <1>4
    <3> QED BY <2>2, <3>1, <3>2 DEF Filter
  <2> QED BY <2>1, <2>2
<1>6. g = Filter(s, m, g)
  BY <1>5 DEF Filter
<1> QED BY <1>1, <1>6

\* The first n of the keys that are given.
LEMMA FilterFacts ==
    ASSUME NEW s \in Seq(Key \cup {Blank}), NEW f, f = Filter(s, Len(s), f)
    PROVE  \A n \in 0..Len(s) :
              /\ f[n] \in Seq(Key)
              /\ n > 0 /\ s[1] # Blank => f[n] # <<>> /\ f[n][1] = s[1]
<1> DEFINE Wrong == {n \in 0..Len(s) :
                ~ (/\ f[n] \in Seq(Key)
                   /\ n > 0 /\ s[1] # Blank => f[n] # <<>> /\ f[n][1] = s[1])}
<1> SUFFICES ASSUME Wrong # {} PROVE FALSE
  OBVIOUS
<1>1. PICK n \in Wrong : \A m \in Wrong : n <= m
  <2>1. Wrong \in SUBSET Nat
    OBVIOUS
  <2> HIDE DEF Wrong
  <2> QED BY <2>1, LeastNumber
<1>2. n \in 0..Len(s) /\ f[n] = Filter(s, Len(s), f)[n]
  OBVIOUS
<1>3. n # 0
  <2> SUFFICES ASSUME n = 0 PROVE n \notin Wrong
    BY <1>1
  <2>1. f[n] = <<>>
    BY <1>2 DEF Filter
  <2>2. f[n] \in Seq(Key)
    BY <2>1
  <2> QED BY <2>2
<1>4. /\ n - 1 \in 0..Len(s) /\ n \in 1..Len(s)
      /\ f[n] = IF s[n] = Blank THEN f[n - 1] ELSE Append(f[n - 1], s[n])
  BY <1>2, <1>3 DEF Filter
<1>5. n - 1 \notin Wrong
  BY <1>1, <1>4
<1>6. /\ f[n - 1] \in Seq(Key) 
      /\ n - 1 > 0 /\ s[1] # Blank => f[n - 1] # <<>> /\ f[n - 1][1] = s[1]
  BY <1>4, <1>5
<1>7. s[n] = Blank \/ s[n] \in Key
  BY <1>4
<1>8. f[n] \in Seq(Key)
  BY <1>4, <1>6, <1>7
<1>9. ASSUME s[1] # Blank PROVE f[n] # <<>> /\ f[n][1] = s[1]
  <2>1. CASE n = 1
    <3>1. f[0] = Filter(s, Len(s), f)[0]
      OBVIOUS
    <3>2. f[0] = <<>>
      BY <3>1 DEF Filter
    <3> QED BY <1>4, <1>9, <2>1, <3>2
  <2>2. CASE n # 1
    <3>1. f[n - 1] # <<>> /\ f[n - 1][1] = s[1]
      BY <1>4, <1>6, <1>9, <2>2
    <3> QED BY <1>4, <1>6, <1>7, <3>1
  <2> QED BY <2>1, <2>2
<1> QED BY <1>8, <1>9

\* All keys given are keys, and the first is the primary key if there is one.
LEMMA GivenFacts ==
    \A j \in Job : /\ Given(j) \in Seq(Key)
                   /\ Keys[j][1] # Blank => Given(j) # <<>> /\ Given(j)[1] = Keys[j][1]
<1> SUFFICES ASSUME NEW j \in Job
             PROVE  /\ Given(j) \in Seq(Key)
                    /\ Keys[j][1] # Blank => Given(j) # <<>> /\ Given(j)[1] = Keys[j][1]
  OBVIOUS
<1>1. Keys[j] \in Seq(Key \cup {Blank}) /\ Len(Keys[j]) \in Nat /\ Len(Keys[j]) > 0
  BY KeysAssumption
<1> DEFINE f == CHOOSE f : f = Filter(Keys[j], Len(Keys[j]), f)
<1>2. f = Filter(Keys[j], Len(Keys[j]), f)
  BY <1>1, FilterExists
<1>3. Given(j) = f[Len(Keys[j])]
  BY DEF Given, GivenKeys, Filter
<1> HIDE DEF f
<1> QED BY <1>1, <1>2, <1>3, FilterFacts

\* What a writer has moved, it has staged, one meta for each key.
WriterPlace(j) ==
    /\ writer[j].lo <= writer[j].hi /\ writer[j].hi <= Len(Given(j))
    /\ writer[j].pc \in {"closeblob", "closemeta", "closed"} => writer[j].n = Size
WriterInv == \A j \in Job : WriterPlace(j)

\* k leads to the complete archive of a store that was given k.
GivenTo(k, j) == \E i \in DOMAIN Given(j) : Given(j)[i] = k
Complete(k, j) == GivenTo(k, j) /\ writer[j].n = Size
EntryInv == \A k \in Key : entry[k] \in Job => Complete(k, entry[k])

\* Where a job is says what its directory holds, and whence.
Empty(j) == \A p \in 1..Size : dest[j][p] = Absent
HoldsPart(j) == \A p \in 1..Size : dest[j][p] = IF p <= job[j].n THEN job[j].from ELSE Absent
Over(j) ==
    /\ job[j].restored \in {"0", "3"} /\ ~job[j].cut =>
          (\A p \in 1..Size : dest[j][p] = job[j].from) /\ GivenTo(job[j].key, job[j].from)
    /\ job[j].restored = "4" => Empty(j)
JobPlace(j) ==
    /\ job[j].pc \in {"new", "lookup", "unpack"} => job[j].restored = Absent
    /\ job[j].pc \in {"new", "lookup"} => Empty(j) /\ job[j].n = 0
    /\ job[j].pc = "unpack" =>
          /\ job[j].from \in Job /\ job[j].key \in Key
          /\ Complete(job[j].key, job[j].from) /\ HoldsPart(j)
    /\ job[j].pc \in {"make", "store", "wait"} => job[j].restored # "0"
    /\ RestoreOver(j) => Over(j)
JobInv == \A j \in Job : JobPlace(j)

\* What is kept is there, and what has been looked up in vain is not kept.
FirstLost(j) == Keys[j][1] \notin kept[j]
PrimaryPlace(j) ==
    /\ \A k \in kept[j] : Found(k)
    /\ job[j].pc = "new" => job[j].i = 1
    /\ job[j].pc \in {"lookup", "unpack"} => (job[j].i = 1 \/ FirstLost(j))
    /\ job[j].pc = "unpack" => job[j].i \in DOMAIN Given(j) /\ job[j].key = Given(j)[job[j].i]
    /\ job[j].restored \in {"3", "4"} /\ job[j].pc # "dead" => FirstLost(j)
PrimaryInv == \A j \in Job : PrimaryPlace(j)

\* Only in a directory does a killed job leave staged metas behind, and nobody
\* does so twice: what a clean has found is passed over or gone for good.
IsDead(f) == job[f[1]].pc = "dead"
CleanPlace(c) ==
    /\ \A f \in cleaner[c].old : IsDead(f)
    /\ remote => cleaner[c].old = {}
    /\ cleaner[c].pc = "tmp" => cleaner[c].old \cap left \subseteq cleaner[c].tmp \cup cleaner[c].skipped
    /\ cleaner[c].pc = "ok" => cleaner[c].old \cap left \subseteq cleaner[c].skipped
CleanInv ==
    /\ \A f \in left : IsDead(f)
    /\ remote => left = {}
    /\ \A c \in Cleaner : CleanPlace(c)

IInv == TypeOK /\ WriterInv /\ EntryInv /\ JobInv /\ PrimaryInv /\ CleanInv

LEMMA InitInv == Init => IInv
<1> SUFFICES ASSUME Init PROVE IInv
  OBVIOUS
<1>1. /\ remote \in BOOLEAN /\ faults \in 0..MaxFaults
      /\ entry \in [Key -> Job \cup {Absent, Broken}]
      /\ blob \in [Job -> {"none", "there", "deleted"}]
      /\ kept \in [Job -> SUBSET Key] /\ dirs \subseteq Dir /\ left \subseteq Job \X Key
      /\ races \in Nat /\ since \in [Job -> Nat \cup {Absent}]
  BY SizeAssumption DEF Init
<1>2. writer \in [Job -> Writer]
  BY SizeAssumption DEF Init, Writer
<1>3. job \in [Job -> JobState]
  BY SizeAssumption DEF Init, JobState, Ended, Exit
<1>4. dest \in [Job -> [1..Size -> Job \cup {Absent}]]
  BY DEF Init
<1>5. cleaner \in [Cleaner -> Clean]
  BY DEF Init, Clean
<1>6. TypeOK
  BY <1>1, <1>2, <1>3, <1>4, <1>5 DEF TypeOK
<1>7. WriterInv /\ EntryInv
  BY GivenFacts, KeysAssumption DEF Init, WriterInv, WriterPlace, EntryInv
<1>8. JobInv
  BY DEF Init, JobInv, JobPlace, Empty, RestoreOver
<1>9. PrimaryInv /\ CleanInv
  BY KeysAssumption DEF Init, PrimaryInv, PrimaryPlace, CleanInv, CleanPlace
<1> QED BY <1>6, <1>7, <1>8, <1>9 DEF IInv

-----------------------------------------------------------------------------
(* What the steps of others leave alone.                                   *)

\* An archive that is complete stays so.
Grows ==
    /\ writer' \in [Job -> Writer]
    /\ \A j \in Job : writer[j].n = Size => writer'[j].n = Size

LEMMA EntryStays == ASSUME EntryInv, Grows, UNCHANGED entry PROVE EntryInv'
  BY DEF EntryInv, Complete, GivenTo, Grows

LEMMA EntryMoves ==
    ASSUME EntryInv, Grows, NEW K \in SUBSET Key,
           \A k \in Key \ K : entry'[k] = entry[k],
           \A k \in K : entry'[k] \in Job => Complete(k, entry'[k])
    PROVE  EntryInv'
  BY DEF EntryInv, Complete, GivenTo, Grows

LEMMA JobStays == ASSUME JobInv, Grows, UNCHANGED <<job, dest>> PROVE JobInv'
<1> SUFFICES ASSUME NEW j \in Job PROVE JobPlace(j)'
  BY DEF JobInv
<1>1. JobPlace(j)
  BY DEF JobInv
<1>2. Complete(job[j].key, job[j].from) /\ job[j].from \in Job
        => Complete(job[j].key, job[j].from)'
  BY DEF Complete, GivenTo, Grows
<1> QED BY <1>1, <1>2 DEF JobPlace, Empty, HoldsPart, Over, RestoreOver, GivenTo

\* One job moves, and nobody else writes to the directory of another.
LEMMA JobMoves ==
    ASSUME JobInv, Grows, NEW j \in Job, JobPlace(j)',
           \A o \in Job \ {j} : job'[o] = job[o] /\ dest'[o] = dest[o]
    PROVE  JobInv'
<1> SUFFICES ASSUME NEW o \in Job \ {j} PROVE JobPlace(o)'
  BY DEF JobInv
<1>1. JobPlace(o) /\ job'[o] = job[o] /\ dest'[o] = dest[o]
  BY DEF JobInv
<1>2. Complete(job[o].key, job[o].from) /\ job[o].from \in Job
        => Complete(job[o].key, job[o].from)'
  BY <1>1 DEF Complete, GivenTo, Grows
<1> QED BY <1>1, <1>2 DEF JobPlace, Empty, HoldsPart, Over, RestoreOver, GivenTo

LEMMA PrimaryMoves ==
    ASSUME PrimaryInv, NEW j \in Job, PrimaryPlace(j)', UNCHANGED <<entry, blob, kept>>,
           \A o \in Job \ {j} : job'[o] = job[o]
    PROVE  PrimaryInv'
<1> SUFFICES ASSUME NEW o \in Job \ {j} PROVE PrimaryPlace(o)'
  BY DEF PrimaryInv
<1> QED BY DEF PrimaryInv, PrimaryPlace, FirstLost, Found

LEMMA PrimaryStays ==
    ASSUME PrimaryInv, UNCHANGED <<job, entry, blob, kept>> PROVE PrimaryInv'
  BY DEF PrimaryInv, PrimaryPlace, FirstLost, Found

\* Whatever becomes of the cache, nothing is kept that is not there.
LEMMA BecomesPrimary ==
    ASSUME TypeOK, PrimaryInv, NEW e, NEW b, CacheBecomes(e, b), UNCHANGED job
    PROVE  PrimaryInv'
<1> SUFFICES ASSUME NEW j \in Job PROVE PrimaryPlace(j)'
  BY DEF PrimaryInv
<1>1. kept'[j] = {k \in kept[j] : e[k] \in Job /\ b[e[k]] = "there"}
  BY DEF CacheBecomes
<1>2. \A k \in kept'[j] : Found(k)'
  BY <1>1 DEF CacheBecomes, Found
<1>3. kept'[j] \subseteq kept[j]
  BY <1>1
<1> QED BY <1>2, <1>3 DEF PrimaryInv, PrimaryPlace, FirstLost

LEMMA BecomesType ==
    ASSUME TypeOK, NEW e \in [Key -> Job \cup {Absent, Broken}],
           NEW b \in [Job -> {"none", "there", "deleted"}], CacheBecomes(e, b)
    PROVE  /\ entry' \in [Key -> Job \cup {Absent, Broken}]
           /\ blob' \in [Job -> {"none", "there", "deleted"}]
           /\ kept' \in [Job -> SUBSET Key]
  BY DEF TypeOK, CacheBecomes

LEMMA CleanStays ==
    ASSUME TypeOK, CleanInv, UNCHANGED <<remote, cleaner>>, left' \subseteq Job \X Key,
           \A j \in Job : job[j].pc = "dead" => job'[j].pc = "dead",
           \A f \in left' : f \in left \/ (~IsDead(f) /\ IsDead(f)' /\ ~remote)
    PROVE  CleanInv'
<1>1. left \subseteq Job \X Key /\ \A c \in Cleaner : cleaner[c].old \subseteq Job \X Key
  BY DEF TypeOK, Clean
<1>2. \A f \in Job \X Key : IsDead(f) => IsDead(f)'
  BY DEF IsDead
<1>3. \A f \in left' : IsDead(f)'
  BY <1>1, <1>2 DEF CleanInv
<1>4. remote' => left' = {}
  BY DEF CleanInv
<1>5. ASSUME NEW c \in Cleaner PROVE CleanPlace(c)'
  <2>1. CleanPlace(c) /\ cleaner[c].old \subseteq Job \X Key /\ cleaner' = cleaner /\ remote' = remote
    BY <1>1 DEF CleanInv
  <2>2. \A f \in cleaner[c].old : IsDead(f) /\ IsDead(f)' /\ (f \in left' => f \in left)
    BY <1>2, <2>1 DEF CleanPlace
  <2> QED BY <2>1, <2>2 DEF CleanPlace
<1> QED BY <1>3, <1>4, <1>5 DEF CleanInv

LEMMA FaultType == ASSUME TypeOK, Fault \/ UNCHANGED faults PROVE (faults \in 0..MaxFaults)'
  BY SizeAssumption DEF TypeOK, Fault

LEMMA RestoredJob ==
    ASSUME TypeOK, NEW j \in Job, NEW rc \in {"0", "1", "3", "4"}, Restored(j, rc)
    PROVE  /\ job' \in [Job -> JobState]
           /\ \A o \in Job \ {j} : job'[o] = job[o]
           /\ job'[j] = [job[j] EXCEPT !.restored = rc, !.pc = IF rc = "0" THEN "done" ELSE "make"]
<1>1. job[j] \in JobState
  BY DEF TypeOK
<1>2. job' = [job EXCEPT ![j] = [job[j] EXCEPT !.restored = rc,
                                    !.pc = IF rc = "0" THEN "done" ELSE "make"]]
  BY DEF Restored, TypeOK
<1>3. [job[j] EXCEPT !.restored = rc, !.pc = IF rc = "0" THEN "done" ELSE "make"] \in JobState
  BY <1>1 DEF JobState, Ended, Exit
<1> QED BY <1>2, <1>3 DEF TypeOK

-----------------------------------------------------------------------------
(* restore.                                                                *)

LEMMA RestoreFrameStays ==
    ASSUME IInv, RestoreFrame, NEW j \in Job, job[j].pc # "dead",
           \A o \in Job \ {j} : job'[o] = job[o]
    PROVE  WriterInv' /\ Grows /\ CleanInv'
<1>1. WriterInv'
  BY DEF IInv, WriterInv, WriterPlace, RestoreFrame
<1>2. Grows
  BY DEF IInv, TypeOK, Grows, RestoreFrame
<1>3. CleanInv'
  <2>1. left' \subseteq Job \X Key /\ left' = left /\ UNCHANGED <<remote, cleaner>>
    BY DEF IInv, TypeOK, RestoreFrame, storage
  <2> QED BY <2>1, CleanStays DEF IInv
<1> QED BY <1>1, <1>2, <1>3

LEMMA RestoreStartInv == ASSUME IInv, NEW j \in Job, RestoreStart(j) PROVE IInv'
<1>1. TypeOK /\ job[j] \in JobState /\ JobPlace(j) /\ PrimaryPlace(j)
  BY DEF IInv, TypeOK, JobInv, PrimaryInv
<1>4. /\ job' \in [Job -> JobState] /\ \A o \in Job \ {j} : job'[o] = job[o]
      /\ \/ job'[j] = [job[j] EXCEPT !.pc = "lookup"]
         \/ job'[j] = [job[j] EXCEPT !.restored = "1", !.pc = "make"]
  <2>1. CASE job' = [job EXCEPT ![j].pc = "lookup"]
    BY <1>1, <2>1 DEF TypeOK, JobState
  <2>2. CASE Restored(j, "1")
    BY <1>1, <2>2, RestoredJob
  <2> QED BY <2>1, <2>2 DEF RestoreStart
<1>2. WriterInv' /\ Grows /\ CleanInv'
  BY <1>4, RestoreFrameStays DEF RestoreStart
<1>3. EntryInv'
  BY <1>2, EntryStays DEF IInv, RestoreStart
<1>5. since' \in [Job -> Nat \cup {Absent}] /\ kept' \in [Job -> SUBSET Key]
  BY <1>1, SizeAssumption DEF TypeOK, RestoreStart, Mishaps
<1>6. TypeOK'
  <2>1. (faults \in 0..MaxFaults)'
    BY <1>1, FaultType DEF RestoreStart
  <2> QED BY <1>1, <1>4, <1>5, <2>1 DEF TypeOK, RestoreStart, RestoreFrame, storage
<1>7. JobPlace(j)'
  BY <1>1, <1>4 DEF JobPlace, Empty, RestoreOver, Over, RestoreStart, JobState
<1>8. JobInv'
  BY <1>2, <1>4, <1>7, JobMoves DEF IInv, RestoreStart
<1>9. PrimaryInv'
  <2> SUFFICES ASSUME NEW o \in Job PROVE PrimaryPlace(o)'
    BY DEF PrimaryInv
  <2>1. \A k \in kept'[o] : Found(k)'
    <3>1. CASE o = j
      BY <1>1, <3>1 DEF RestoreStart, Found, TypeOK
    <3>2. CASE o # j
      BY <1>1, <3>2 DEF RestoreStart, Found, TypeOK, IInv, PrimaryInv, PrimaryPlace
    <3> QED BY <3>1, <3>2
  <2>2. CASE o = j
    <3>1. job[j].pc = "new" /\ job[j].i = 1 /\ job[j].restored = Absent
      BY <1>1 DEF PrimaryPlace, JobPlace, RestoreStart
    <3>2. job'[j].pc \in {"lookup", "make"} /\ job'[j].i = 1 /\ job'[j].restored \in {Absent, "1"}
      BY <1>1, <1>4, <3>1 DEF JobState
    <3>3. job'[j].restored \notin {"3", "4"}
      BY <3>2, KeysAssumption
    <3> QED BY <2>1, <2>2, <3>2, <3>3 DEF PrimaryPlace
  <2>3. CASE o # j
    <3>1. kept'[o] = kept[o] /\ job'[o] = job[o] /\ PrimaryPlace(o)
      BY <1>1, <1>4, <2>3 DEF RestoreStart, TypeOK, IInv, PrimaryInv
    <3> QED BY <2>1, <3>1 DEF PrimaryPlace, FirstLost
  <2> QED BY <2>2, <2>3
<1> QED BY <1>2, <1>3, <1>6, <1>8, <1>9 DEF IInv

\* The steps that leave the cache alone, and move one job.
LEMMA RestoreQuietInv ==
    ASSUME IInv, NEW j \in Job, RestoreFrame, UNCHANGED <<cache, since>>, Fault \/ UNCHANGED faults,
           job' \in [Job -> JobState], \A o \in Job \ {j} : job'[o] = job[o],
           job[j].pc # "dead",
           dest' \in [Job -> [1..Size -> Job \cup {Absent}]],
           \A o \in Job \ {j} : dest'[o] = dest[o],
           JobPlace(j)', PrimaryPlace(j)'
    PROVE  IInv'
<1>1. WriterInv' /\ Grows /\ CleanInv'
  BY RestoreFrameStays
<1>2. EntryInv'
  BY <1>1, EntryStays DEF IInv, cache
<1>3. TypeOK'
  <2>1. (faults \in 0..MaxFaults)'
    BY FaultType DEF IInv
  <2> QED BY <2>1 DEF IInv, TypeOK, RestoreFrame, cache, storage
<1>4. JobInv'
  BY <1>1, JobMoves DEF IInv
<1>5. PrimaryInv'
  BY PrimaryMoves DEF IInv, cache
<1> QED BY <1>1, <1>2, <1>3, <1>4, <1>5 DEF IInv

\* What a job knows that has looked up its i-th key.
LEMMA LookedUp ==
    ASSUME IInv, NEW j \in Job, job[j].pc = "lookup", job[j].i <= Len(Given(j))
    PROVE  /\ job[j].i \in DOMAIN Given(j) /\ Given(j)[job[j].i] \in Key
           /\ job[j].i + 1 \in Nat \ {0}
<1>1. job[j] \in JobState /\ Given(j) \in Seq(Key)
  BY GivenFacts DEF IInv, TypeOK
<1> QED BY <1>1 DEF JobState

\* A first key that is not found is not kept, be it blank or not.
LEMMA FirstMissed ==
    ASSUME IInv, NEW j \in Job, job[j].pc = "lookup", job[j].i <= Len(Given(j)),
           ~Found(Given(j)[job[j].i])
    PROVE  FirstLost(j)
<1>1. PrimaryPlace(j) /\ kept[j] \subseteq Key
  BY DEF IInv, PrimaryInv, TypeOK
<1>2. CASE Keys[j][1] = Blank
  BY <1>1, <1>2, KeysAssumption DEF FirstLost
<1>3. CASE Keys[j][1] # Blank
  BY <1>1, <1>3, GivenFacts DEF FirstLost, PrimaryPlace
<1> QED BY <1>2, <1>3

LEMMA LookupInv == ASSUME IInv, NEW j \in Job, Lookup(j) PROVE IInv'
<1> DEFINE k == Given(j)[job[j].i]
<1>1. /\ TypeOK /\ job[j] \in JobState /\ JobPlace(j) /\ PrimaryPlace(j) /\ EntryInv
      /\ dest \in [Job -> [1..Size -> Job \cup {Absent}]]
  BY DEF IInv, TypeOK, JobInv, PrimaryInv
<1>2. job[j].i \in DOMAIN Given(j) /\ k \in Key /\ job[j].i + 1 \in Nat \ {0}
  BY LookedUp DEF Lookup
<1>3. job[j].pc = "lookup" /\ UNCHANGED <<cache, dest, faults, since>> /\ RestoreFrame
  BY DEF Lookup
<1>4. CASE Found(k) /\ job' = [job EXCEPT ![j].pc = "unpack", ![j].key = k, ![j].from = entry[k]]
  <2>1. entry[k] \in Job /\ Complete(k, entry[k])
    BY <1>1, <1>2, <1>4 DEF Found, EntryInv
  <2>2. job'[j] = [job[j] EXCEPT !.pc = "unpack", !.key = k, !.from = entry[k]]
    BY <1>1, <1>4 DEF TypeOK
  <2>3. job' \in [Job -> JobState] /\ \A o \in Job \ {j} : job'[o] = job[o]
    BY <1>1, <1>2, <1>4, <2>1 DEF TypeOK, JobState
  <2>4. HoldsPart(j)'
    BY <1>1, <1>3, <2>2 DEF JobPlace, Empty, HoldsPart, JobState
  <2>5. JobPlace(j)'
    <3>1. job'[j].key = k /\ job'[j].from = entry[k] /\ entry' = entry /\ job'[j].pc = "unpack"
      BY <1>1, <1>3, <2>2 DEF JobState, cache
    <3>2. Complete(job[j].key, job[j].from)'
      BY <2>1, <3>1, <1>3 DEF Complete, GivenTo, RestoreFrame
    <3> QED BY <1>1, <1>2, <1>3, <2>1, <2>2, <2>4, <3>1, <3>2
          DEF JobPlace, RestoreOver, JobState
  <2>6. PrimaryPlace(j)'
    BY <1>1, <1>2, <1>3, <2>2 DEF PrimaryPlace, FirstLost, Found, JobState, JobPlace, cache
  <2> QED BY <1>1, <1>3, <2>3, <2>5, <2>6, RestoreQuietInv
<1>5. CASE entry[k] # Broken /\ ~Found(k) /\ TryNextKey(j)
  <2>1. job'[j] = [job[j] EXCEPT !.i = job[j].i + 1]
    BY <1>1, <1>5 DEF TypeOK, TryNextKey
  <2>2. job' \in [Job -> JobState] /\ \A o \in Job \ {j} : job'[o] = job[o]
    BY <1>1, <1>2, <1>5 DEF TypeOK, JobState, TryNextKey
  <2>3. JobPlace(j)'
    BY <1>1, <1>3, <2>1 DEF JobPlace, Empty, RestoreOver, JobState
  <2>4. FirstLost(j)
    BY <1>2, <1>3, <1>5, FirstMissed DEF Lookup
  <2>5. PrimaryPlace(j)'
    BY <1>1, <1>3, <2>1, <2>4 DEF PrimaryPlace, FirstLost, Found, JobState, cache
  <2> QED BY <1>1, <1>3, <2>2, <2>3, <2>5, RestoreQuietInv
<1>6. CASE Restored(j, "1")
  <2>1. /\ job' \in [Job -> JobState] /\ \A o \in Job \ {j} : job'[o] = job[o]
        /\ job'[j] = [job[j] EXCEPT !.restored = "1", !.pc = "make"]
    BY <1>1, <1>6, RestoredJob
  <2>2. JobPlace(j)' /\ PrimaryPlace(j)'
    BY <1>1, <1>3, <2>1 DEF JobPlace, RestoreOver, Over, PrimaryPlace, Found, JobState, cache
  <2> QED BY <1>1, <1>3, <2>1, <2>2, RestoreQuietInv
<1> QED BY <1>4, <1>5, <1>6 DEF Lookup

LEMMA LookupFailsInv == ASSUME IInv, NEW j \in Job, LookupFails(j) PROVE IInv'
<1>1. TypeOK /\ job[j] \in JobState /\ JobPlace(j) /\ PrimaryPlace(j)
  BY DEF IInv, TypeOK, JobInv, PrimaryInv
<1>2. /\ job[j].pc = "lookup" /\ UNCHANGED <<dest, since>> /\ RestoreFrame /\ Fault
      /\ Given(j)[job[j].i] \in Key
  BY LookedUp DEF LookupFails
<1>3. /\ job' \in [Job -> JobState] /\ \A o \in Job \ {j} : job'[o] = job[o]
      /\ job'[j] = [job[j] EXCEPT !.restored = "1", !.pc = "make"]
  BY <1>1, RestoredJob DEF LookupFails
<1>4. JobPlace(j)'
  BY <1>1, <1>2, <1>3 DEF JobPlace, RestoreOver, Over, JobState
<1>5. WriterInv' /\ Grows /\ CleanInv'
  BY <1>2, <1>3, RestoreFrameStays
<1>6. JobInv'
  BY <1>2, <1>3, <1>4, <1>5, JobMoves DEF IInv
<1>7. CASE UNCHANGED cache
  <2>1. PrimaryPlace(j)'
    BY <1>1, <1>2, <1>3, <1>7 DEF PrimaryPlace, Found, JobState, cache
  <2> QED BY <1>1, <1>2, <1>3, <1>4, <1>7, <2>1, RestoreQuietInv DEF TypeOK
<1>8. CASE CacheBecomes([entry EXCEPT ![Given(j)[job[j].i]] = Broken], blob)
  <2> DEFINE k == Given(j)[job[j].i]
             e == [entry EXCEPT ![k] = Broken]
  <2>1. e \in [Key -> Job \cup {Absent, Broken}]
    BY <1>1, <1>2 DEF TypeOK
  <2>2. /\ entry' = e /\ entry' \in [Key -> Job \cup {Absent, Broken}]
        /\ blob' \in [Job -> {"none", "there", "deleted"}] /\ kept' \in [Job -> SUBSET Key]
    BY <1>1, <1>8, <2>1, BecomesType DEF TypeOK, CacheBecomes
  <2>3. TypeOK'
    <3>1. (faults \in 0..MaxFaults)'
      BY <1>1, <1>2, FaultType
    <3> QED BY <1>1, <1>2, <1>3, <2>2, <3>1 DEF TypeOK, RestoreFrame, storage
  <2>4. EntryInv'
    <3>1. \A l \in Key : entry'[l] = IF l = k THEN Broken ELSE entry[l]
      BY <1>1, <2>2 DEF TypeOK
    <3>2. {k} \in SUBSET Key /\ entry'[k] \notin Job
      BY <1>2, <3>1, KeysAssumption
    <3>3. \A l \in Key \ {k} : entry'[l] = entry[l]
      BY <3>1
    <3> HIDE DEF k
    <3> QED BY <1>5, <3>2, <3>3, EntryMoves DEF IInv
  <2>5. PrimaryInv'
    <3> SUFFICES ASSUME NEW o \in Job PROVE PrimaryPlace(o)'
      BY DEF PrimaryInv
    <3>1. kept'[o] = {l \in kept[o] : e[l] \in Job /\ blob[e[l]] = "there"}
      BY <1>8 DEF CacheBecomes
    <3>2. \A l \in kept'[o] : Found(l)'
      BY <1>8, <3>1 DEF CacheBecomes, Found
    <3>3. kept'[o] \subseteq kept[o] /\ PrimaryPlace(o)
      BY <3>1 DEF IInv, PrimaryInv
    <3> QED BY <1>1, <1>2, <1>3, <3>2, <3>3 DEF PrimaryPlace, FirstLost, JobState
  <2> QED BY <1>5, <1>6, <2>3, <2>4, <2>5 DEF IInv
<1> QED BY <1>7, <1>8 DEF LookupFails

LEMMA NoKeyFoundInv == ASSUME IInv, NEW j \in Job, NoKeyFound(j) PROVE IInv'
<1>1. /\ TypeOK /\ job[j] \in JobState /\ JobPlace(j) /\ PrimaryPlace(j) /\ kept[j] \subseteq Key
      /\ Given(j) \in Seq(Key)
  BY GivenFacts DEF IInv, TypeOK, JobInv, PrimaryInv
<1>2. job[j].pc = "lookup" /\ UNCHANGED <<cache, dest, faults, since>> /\ RestoreFrame
  BY DEF NoKeyFound
<1>3. /\ job' \in [Job -> JobState] /\ \A o \in Job \ {j} : job'[o] = job[o]
      /\ job'[j] = [job[j] EXCEPT !.restored = "4", !.pc = "make"]
  BY <1>1, RestoredJob DEF NoKeyFound
<1>4. JobPlace(j)'
  BY <1>1, <1>2, <1>3 DEF JobPlace, RestoreOver, Over, Empty, JobState
<1>5. FirstLost(j)
  <2>1. CASE Keys[j][1] = Blank
    BY <1>1, <2>1, KeysAssumption DEF FirstLost
  <2>2. CASE Keys[j][1] # Blank
    <3>1. Len(Given(j)) >= 1
      BY <1>1, <2>2, GivenFacts
    <3>2. job[j].i # 1
      BY <1>1, <3>1 DEF NoKeyFound, JobState
    <3> QED BY <1>1, <1>2, <3>2 DEF PrimaryPlace
  <2> QED BY <2>1, <2>2
<1>6. PrimaryPlace(j)'
  BY <1>1, <1>2, <1>3, <1>5 DEF PrimaryPlace, FirstLost, Found, JobState, cache
<1> QED BY <1>1, <1>2, <1>3, <1>4, <1>6, RestoreQuietInv DEF TypeOK

\* Unpacking goes on in the archive it began in, which is complete.
LEMMA Unpacking ==
    ASSUME IInv, NEW j \in Job, job[j].pc = "unpack"
    PROVE  /\ TypeOK /\ job[j] \in JobState /\ JobPlace(j) /\ PrimaryPlace(j)
           /\ dest \in [Job -> [1..Size -> Job \cup {Absent}]]
           /\ job[j].from \in Job /\ writer[job[j].from].n = Size /\ HoldsPart(j)
           /\ GivenTo(job[j].key, job[j].from) /\ job[j].n \in 0..Size
  BY DEF IInv, TypeOK, JobInv, PrimaryInv, JobPlace, Complete, JobState

LEMMA UnpackInv == ASSUME IInv, NEW j \in Job, Unpack(j) PROVE IInv'
<1>1. job[j].pc = "unpack" /\ UNCHANGED <<cache, faults, since>> /\ RestoreFrame
  BY DEF Unpack
<1>2. /\ TypeOK /\ job[j] \in JobState /\ JobPlace(j) /\ PrimaryPlace(j)
      /\ dest \in [Job -> [1..Size -> Job \cup {Absent}]]
      /\ job[j].from \in Job /\ writer[job[j].from].n = Size /\ HoldsPart(j)
      /\ job[j].n \in 0..Size
  BY <1>1, Unpacking
<1>3. job[j].n < Size /\ job[j].n + 1 \in 1..Size
  BY <1>2, SizeAssumption DEF Unpack, HasMore
<1>4. /\ job'[j] = [job[j] EXCEPT !.n = job[j].n + 1] /\ \A o \in Job \ {j} : job'[o] = job[o]
      /\ job' \in [Job -> JobState]
  <2>1. job' = [job EXCEPT ![j] = [job[j] EXCEPT !.n = job[j].n + 1]]
    BY <1>2 DEF Unpack, TypeOK
  <2>2. [job[j] EXCEPT !.n = job[j].n + 1] \in JobState
    BY <1>2, <1>3 DEF JobState
  <2> QED BY <1>2, <2>1, <2>2 DEF TypeOK
<1>5. /\ dest'[j] = [dest[j] EXCEPT ![job[j].n + 1] = job[j].from]
      /\ \A o \in Job \ {j} : dest'[o] = dest[o]
      /\ dest' \in [Job -> [1..Size -> Job \cup {Absent}]]
  BY <1>2, <1>3 DEF Unpack
<1>6. HoldsPart(j)'
  <2>1. job'[j].n = job[j].n + 1 /\ job'[j].from = job[j].from
    BY <1>2, <1>4 DEF JobState
  <2>2. dest[j] \in [1..Size -> Job \cup {Absent}]
    BY <1>2
  <2> SUFFICES ASSUME NEW p \in 1..Size
               PROVE  dest'[j][p] = IF p <= job[j].n + 1 THEN job[j].from ELSE Absent
    BY <2>1 DEF HoldsPart
  <2>3. dest'[j][p] = IF p = job[j].n + 1 THEN job[j].from ELSE dest[j][p]
    BY <1>5, <2>2
  <2>4. dest[j][p] = IF p <= job[j].n THEN job[j].from ELSE Absent
    BY <1>2 DEF HoldsPart
  <2> QED BY <1>2, <2>3, <2>4
<1>7. JobPlace(j)'
  <2>1. Complete(job[j].key, job[j].from)'
    BY <1>1, <1>2, <1>4 DEF JobPlace, JobState, Complete, GivenTo, RestoreFrame
  <2> QED BY <1>1, <1>2, <1>4, <1>6, <2>1 DEF JobPlace, JobState, RestoreOver
<1>8. PrimaryPlace(j)'
  BY <1>1, <1>2, <1>4 DEF PrimaryPlace, FirstLost, Found, JobState, cache
<1> QED BY <1>1, <1>4, <1>5, <1>7, <1>8, RestoreQuietInv

\* The exit code 3 is the truth.
LEMMA OtherKey ==
    ASSUME IInv, NEW j \in Job, job[j].pc = "unpack", ExitCode(j) = "3" PROVE FirstLost(j)
<1>1. /\ PrimaryPlace(j) /\ job[j] \in JobState /\ kept[j] \subseteq Key /\ Given(j) \in Seq(Key)
  BY GivenFacts DEF IInv, TypeOK, PrimaryInv
<1>2. job[j].key # Keys[j][1]
  BY DEF ExitCode
<1>3. CASE Keys[j][1] = Blank
  BY <1>1, <1>3, KeysAssumption DEF FirstLost
<1>4. CASE Keys[j][1] # Blank
  BY <1>1, <1>2, <1>4, GivenFacts DEF PrimaryPlace
<1> QED BY <1>3, <1>4

LEMMA UnpackedInv == ASSUME IInv, NEW j \in Job, Unpacked(j) PROVE IInv'
<1>1. job[j].pc = "unpack" /\ UNCHANGED <<cache, dest, faults, since>> /\ RestoreFrame
  BY DEF Unpacked
<1>2. /\ TypeOK /\ job[j] \in JobState /\ JobPlace(j) /\ PrimaryPlace(j)
      /\ dest \in [Job -> [1..Size -> Job \cup {Absent}]]
      /\ writer[job[j].from].n = Size /\ HoldsPart(j)
      /\ GivenTo(job[j].key, job[j].from) /\ job[j].n \in 0..Size
  BY <1>1, Unpacking
<1>3. \A p \in 1..Size : dest[j][p] = job[j].from
  BY <1>2, SizeAssumption DEF Unpacked, HasMore, HoldsPart
<1>4. ExitCode(j) \in {"0", "3"}
  BY DEF ExitCode
<1>5. /\ job' \in [Job -> JobState] /\ \A o \in Job \ {j} : job'[o] = job[o]
      /\ job'[j] = [job[j] EXCEPT !.restored = ExitCode(j),
                                  !.pc = IF ExitCode(j) = "0" THEN "done" ELSE "make"]
  BY <1>2, <1>4, RestoredJob DEF Unpacked
<1>6. /\ job'[j].from = job[j].from /\ job'[j].key = job[j].key /\ dest' = dest
      /\ job'[j].restored = ExitCode(j) /\ job'[j].i = job[j].i
      /\ job'[j].pc = IF ExitCode(j) = "0" THEN "done" ELSE "make"
  BY <1>1, <1>2, <1>5 DEF JobState
<1>7. JobPlace(j)'
  <2>1. Over(j)'
    BY <1>2, <1>3, <1>4, <1>6 DEF Over, GivenTo
  <2> QED BY <1>4, <1>6, <2>1 DEF JobPlace
<1>8. PrimaryPlace(j)'
  <2>1. ExitCode(j) = "3" => FirstLost(j)
    BY <1>1, OtherKey
  <2> QED BY <1>1, <1>2, <1>4, <1>6, <2>1 DEF PrimaryPlace, FirstLost, Found, cache
<1> QED BY <1>1, <1>2, <1>5, <1>7, <1>8, RestoreQuietInv

LEMMA UnpackFailsInv == ASSUME IInv, NEW j \in Job, UnpackFails(j) PROVE IInv'
<1>1. job[j].pc = "unpack" /\ UNCHANGED <<cache, dest, since>> /\ RestoreFrame /\ Fault
  BY DEF UnpackFails
<1>2. /\ TypeOK /\ job[j] \in JobState /\ JobPlace(j) /\ PrimaryPlace(j)
      /\ dest \in [Job -> [1..Size -> Job \cup {Absent}]]
  BY <1>1, Unpacking
<1>3. CASE Restored(j, "1")
  <2>1. /\ job' \in [Job -> JobState] /\ \A o \in Job \ {j} : job'[o] = job[o]
        /\ job'[j] = [job[j] EXCEPT !.restored = "1", !.pc = "make"]
    BY <1>2, <1>3, RestoredJob
  <2>2. JobPlace(j)' /\ PrimaryPlace(j)'
    BY <1>1, <1>2, <2>1 DEF JobPlace, RestoreOver, Over, PrimaryPlace, Found, JobState, cache
  <2> QED BY <1>1, <1>2, <2>1, <2>2, RestoreQuietInv
<1>4. CASE job' = [job EXCEPT ![j].cut = TRUE, ![j].restored = ExitCode(j),
                              ![j].pc = IF ExitCode(j) = "0" THEN "done" ELSE "make"]
  <2>1. ExitCode(j) \in {"0", "3"}
    BY DEF ExitCode
  <2>2. /\ job'[j] = [job[j] EXCEPT !.cut = TRUE, !.restored = ExitCode(j),
                                    !.pc = IF ExitCode(j) = "0" THEN "done" ELSE "make"]
        /\ \A o \in Job \ {j} : job'[o] = job[o]
    BY <1>2, <1>4 DEF TypeOK
  <2>3. job' \in [Job -> JobState]
    BY <1>2, <1>4, <2>1 DEF TypeOK, JobState, Ended, Exit
  <2>4. /\ job'[j].cut /\ job'[j].restored = ExitCode(j)
        /\ job'[j].pc = IF ExitCode(j) = "0" THEN "done" ELSE "make"
    BY <1>2, <2>2 DEF JobState
  <2>5. JobPlace(j)'
    BY <2>1, <2>4 DEF JobPlace, Over
  <2>6. PrimaryPlace(j)'
    <3>1. ExitCode(j) = "3" => FirstLost(j)
      BY <1>1, OtherKey
    <3> QED BY <1>1, <1>2, <2>1, <2>4, <3>1 DEF PrimaryPlace, FirstLost, Found, cache
  <2> QED BY <1>1, <1>2, <2>2, <2>3, <2>5, <2>6, RestoreQuietInv
<1> QED BY <1>3, <1>4 DEF UnpackFails

LEMMA MakeInv == ASSUME IInv, NEW j \in Job, Make(j) PROVE IInv'
<1>1. /\ TypeOK /\ job[j] \in JobState /\ JobPlace(j) /\ PrimaryPlace(j)
      /\ dest \in [Job -> [1..Size -> Job \cup {Absent}]]
  BY DEF IInv, TypeOK, JobInv, PrimaryInv
<1>2. job[j].pc = "make" /\ UNCHANGED <<cache, faults, since>> /\ RestoreFrame
  BY DEF Make
<1>3. /\ job'[j] = [job[j] EXCEPT !.pc = "store"] /\ \A o \in Job \ {j} : job'[o] = job[o]
      /\ job' \in [Job -> JobState]
  BY <1>1 DEF Make, TypeOK, JobState
<1>4. /\ \A o \in Job \ {j} : dest'[o] = dest[o]
      /\ dest' \in [Job -> [1..Size -> Job \cup {Absent}]]
  BY <1>1 DEF Make
<1>5. JobPlace(j)' /\ PrimaryPlace(j)'
  BY <1>1, <1>2, <1>3 DEF JobPlace, RestoreOver, PrimaryPlace, FirstLost, Found, JobState, cache
<1> QED BY <1>2, <1>3, <1>4, <1>5, RestoreQuietInv

-----------------------------------------------------------------------------
(* store.                                                                  *)

LEMMA WriterMoves ==
    ASSUME IInv, NEW j \in Job, NEW r \in Writer,
           writer' = [writer EXCEPT ![j] = r],
           r.lo <= r.hi, r.hi <= Len(Given(j)),
           writer[j].n = Size => r.n = Size,
           r.pc \in {"closeblob", "closemeta", "closed"} => r.n = Size
    PROVE  WriterInv' /\ Grows
<1>1. writer \in [Job -> Writer] /\ WriterInv
  BY DEF IInv, TypeOK
<1>2. \A o \in Job : writer'[o] = IF o = j THEN r ELSE writer[o]
  BY <1>1
<1>3. writer' \in [Job -> Writer]
  BY <1>1
<1>4. WriterInv' /\ Grows
  BY <1>1, <1>2, <1>3 DEF WriterInv, WriterPlace, Grows
<1> QED BY <1>4

\* What becomes of a job that stores, or that is killed.
Leaves(j) ==
    \/ JobGoes(j, "wait") /\ job[j].pc = "store"
    \/ (\E rc \in {"0", "1"} : Exits(j, rc)) /\ job[j].pc \in {"store", "wait"}
    \/ JobGoes(j, "dead")

LEMMA LeavesClean ==
    ASSUME IInv, NEW j \in Job, UNCHANGED <<remote, cleaner, left>>, UNCHANGED job \/ Leaves(j)
    PROVE  CleanInv'
<1>1. TypeOK /\ job \in [Job -> JobState] /\ job[j] \in JobState /\ left' \subseteq Job \X Key
  BY DEF IInv, TypeOK
<1>2. \A o \in Job : job[o].pc = "dead" => job'[o].pc = "dead"
  BY <1>1 DEF Leaves, JobGoes, Exits, JobState
<1> QED BY <1>1, <1>2, CleanStays DEF IInv

LEMMA StoreQuietInv ==
    ASSUME IInv, NEW j \in Job, StoreFrame, UNCHANGED cache, Fault \/ UNCHANGED faults,
           dirs' \subseteq Dir, left' \subseteq Job \X Key, races' \in Nat,
           WriterInv', Grows, CleanInv', UNCHANGED job \/ Leaves(j)
    PROVE  IInv'
<1>1. /\ TypeOK /\ job[j] \in JobState /\ JobPlace(j) /\ PrimaryPlace(j)
      /\ job \in [Job -> JobState]
  BY DEF IInv, TypeOK, JobInv, PrimaryInv
<1>2. EntryInv' /\ (faults \in 0..MaxFaults)'
  BY <1>1, EntryStays, FaultType DEF IInv, cache
<1>3. CASE UNCHANGED job
  <2>1. JobInv' /\ PrimaryInv'
    BY <1>3, JobStays, PrimaryStays DEF IInv, StoreFrame, cache
  <2>2. TypeOK'
    BY <1>1, <1>2, <1>3 DEF TypeOK, StoreFrame, cache, Grows
  <2> QED BY <1>2, <2>1, <2>2 DEF IInv
<1>4. CASE Leaves(j)
  <2>1. /\ job' \in [Job -> JobState] /\ \A o \in Job \ {j} : job'[o] = job[o]
        /\ job'[j].restored = job[j].restored
        /\ \/ job'[j].pc \in {"wait", "done"} /\ job[j].pc \in {"store", "wait"}
           \/ job'[j].pc = "dead"
    <3>1. CASE JobGoes(j, "wait") /\ job[j].pc = "store"
      BY <1>1, <3>1 DEF JobGoes, JobState
    <3>2. CASE (\E rc \in {"0", "1"} : Exits(j, rc)) /\ job[j].pc \in {"store", "wait"}
      <4>1. PICK rc \in {"0", "1"} : Exits(j, rc)
        BY <3>2
      <4>2. job' = [job EXCEPT ![j] = [job[j] EXCEPT !.pc = "done", !.stored = rc]]
        BY <1>1, <4>1 DEF Exits
      <4>3. [job[j] EXCEPT !.pc = "done", !.stored = rc] \in JobState
        BY <1>1 DEF JobState, Ended, Exit
      <4> QED BY <1>1, <3>2, <4>2, <4>3 DEF JobState
    <3>3. CASE JobGoes(j, "dead")
      BY <1>1, <3>3 DEF JobGoes, JobState, Ended
    <3> QED BY <1>4, <3>1, <3>2, <3>3 DEF Leaves
  <2>2. JobPlace(j)'
    BY <1>1, <2>1 DEF JobPlace, RestoreOver, Over
  <2>3. JobInv'
    BY <2>1, <2>2, JobMoves DEF IInv, StoreFrame
  <2>4. PrimaryPlace(j)'
    BY <1>1, <2>1 DEF PrimaryPlace, FirstLost, Found, cache
  <2>5. PrimaryInv'
    BY <2>1, <2>4, PrimaryMoves DEF IInv, cache
  <2>6. TypeOK'
    BY <1>1, <1>2, <2>1 DEF TypeOK, StoreFrame, cache, Grows
  <2> QED BY <1>2, <2>3, <2>5, <2>6 DEF IInv
<1> QED BY <1>3, <1>4

\* A job whose set fails begins to wait for that, unless it is gone.
LEMMA GivesUpLeaves ==
    ASSUME TypeOK, NEW j \in Job, GivesUp(j) PROVE UNCHANGED job \/ Leaves(j)
<1>1. job \in [Job -> JobState]
  BY DEF TypeOK
<1>2. CASE job[j].pc = "store"
  BY <1>1, <1>2 DEF GivesUp, Leaves, JobGoes
<1>3. CASE job[j].pc # "store"
  <2>1. job' = [job EXCEPT ![j].pc = job[j].pc]
    BY <1>3 DEF GivesUp
  <2>2. [job EXCEPT ![j].pc = job[j].pc] = job
    BY <1>1 DEF JobState
  <2> QED BY <2>1, <2>2
<1> QED BY <1>2, <1>3

\* Making directories, writing, finishing and failing, before anything is moved.
Stages(j) == StoreStart(j) \/ MissesDir(j) \/ MakeDir(j) \/ Put(j) \/ AddEntry(j) \/ Finish(j)
LEMMA StageInv == ASSUME IInv, NEW j \in Job, Stages(j) \/ StoreFails(j) PROVE IInv'
<1> DEFINE w == writer[j]
<1>1. /\ TypeOK /\ w \in Writer /\ WriterPlace(j) /\ writer \in [Job -> Writer]
      /\ Given(j) \in Seq(Key) /\ left \subseteq Job \X Key /\ dirs \subseteq Dir /\ races \in Nat
  BY GivenFacts DEF IInv, TypeOK, WriterInv
<1>2. Len(Given(j)) \in Nat /\ w.lo \in Nat /\ w.hi \in Nat /\ w.n \in 0..Size
  BY <1>1 DEF Writer
<1>3. /\ StoreFrame /\ UNCHANGED <<cache, left>> /\ (Fault \/ UNCHANGED faults)
      /\ UNCHANGED job \/ Leaves(j)
  <2>1. CASE MakeDir(j) \/ StoreFails(j)
    BY <1>1, <2>1, GivesUpLeaves DEF MakeDir, StoreFails, Leaves, storage
  <2>2. CASE ~MakeDir(j) /\ ~StoreFails(j)
    BY <2>2 DEF Stages, StoreStart, MissesDir, Put, AddEntry, Finish, Leaves, storage
  <2> QED BY <2>1, <2>2
<1>4. dirs' \subseteq Dir /\ left' \subseteq Job \X Key /\ races' \in Nat
  <2>1. CASE MakeDir(j)
    BY <1>1, <2>1 DEF MakeDir, Writer
  <2>2. CASE ~MakeDir(j)
    BY <1>1, <2>2 DEF Stages, StoreStart, MissesDir, Put, AddEntry, Finish, StoreFails, storage
  <2> QED BY <2>1, <2>2
<1>5. WriterInv' /\ Grows
  <2>1. CASE UNCHANGED writer
    BY <1>1, <2>1 DEF IInv, WriterInv, WriterPlace, Grows
  <2>2. ASSUME NEW pc \in {"putblob", "write", "closeblob", "undo", "dropblob", "dropped"},
               WriterGoes(j, pc), pc = "closeblob" => w.n = Size
        PROVE  WriterInv' /\ Grows
    <3>1. [w EXCEPT !.pc = pc] \in Writer /\ writer' = [writer EXCEPT ![j] = [w EXCEPT !.pc = pc]]
      BY <1>1, <2>2 DEF Writer, WriterGoes
    <3> QED BY <1>1, <2>2, <3>1, WriterMoves DEF Writer, WriterPlace
  <2>3. ASSUME NEW d \in Dir \cup {Absent}, w.pc \in {"putblob", "putmeta"},
               writer' = [writer EXCEPT ![j].dir = d]
        PROVE  WriterInv' /\ Grows
    <3>1. /\ [w EXCEPT !.dir = d] \in Writer
          /\ writer' = [writer EXCEPT ![j] = [w EXCEPT !.dir = d]]
      BY <1>1, <2>3 DEF Writer
    <3> QED BY <1>1, <2>3, <3>1, WriterMoves DEF Writer, WriterPlace
  <2>4. ASSUME NEW n \in {w.hi, w.hi + 1}, n <= Len(Given(j)),
               writer' = [writer EXCEPT ![j].pc = "putmeta", ![j].hi = n]
        PROVE  WriterInv' /\ Grows
    <3>1. n \in Nat /\ w.lo <= n
      BY <1>1, <1>2 DEF WriterPlace
    <3>2. /\ [w EXCEPT !.pc = "putmeta", !.hi = n] \in Writer
          /\ writer' = [writer EXCEPT ![j] = [w EXCEPT !.pc = "putmeta", !.hi = n]]
      BY <1>1, <2>4, <3>1 DEF Writer
    <3> QED BY <1>1, <2>4, <3>1, <3>2, WriterMoves DEF Writer, WriterPlace
  <2>5. CASE w.pc = "write" /\ w.n < Size /\ writer' = [writer EXCEPT ![j].n = @ + 1]
    <3>1. /\ [w EXCEPT !.n = w.n + 1] \in Writer
          /\ writer' = [writer EXCEPT ![j] = [w EXCEPT !.n = w.n + 1]]
      <4>1. w.n + 1 \in 0..Size
        BY <1>2, <2>5, SizeAssumption
      <4>2. [w EXCEPT !.n = w.n + 1] \in Writer
        BY <1>1, <4>1 DEF Writer
      <4> QED BY <1>1, <2>5, <4>2
    <3>2. w.n # Size
      BY <1>2, <2>5, SizeAssumption
    <3> QED BY <1>1, <2>5, <3>1, <3>2, WriterMoves DEF Writer, WriterPlace
  <2>6. CASE StoreStart(j)
    BY <2>1, <2>2, <2>6 DEF StoreStart
  <2>7. CASE MissesDir(j)
    <3>1. Missing(j) \subseteq Dir
      <4>1. ~AllPut(j) /\ w.pc = "putmeta" => w.hi + 1 \in DOMAIN Given(j)
        BY <1>1, <1>2 DEF AllPut, WriterPlace
      <4>2. ~AllPut(j) /\ w.pc = "putmeta" => Given(j)[w.hi + 1] \in Key
        BY <1>1, <4>1
      <4> QED BY <2>7, <4>2 DEF Missing, MissesDir, Putting, Dir
    <3> QED BY <2>3, <2>7, <3>1 DEF MissesDir, Putting
  <2>8. ASSUME GivesUp(j), Putting(j) PROVE WriterInv' /\ Grows
    <3>1. PICK pc \in {"dropped", "undo"} : WriterGoes(j, pc)
      BY <2>8 DEF GivesUp, WriterGoes
    <3> QED BY <2>2, <3>1
  <2>9. CASE MakeDir(j)
    BY <2>3, <2>8, <2>9 DEF MakeDir, Putting
  <2>10. CASE Put(j)
    <3>1. CASE AllPut(j)
      BY <2>2, <2>10, <3>1 DEF Put
    <3>2. CASE ~AllPut(j)
      <4>1. PICK n \in {w.hi, w.hi + 1} :
                /\ writer' = [writer EXCEPT ![j].pc = "putmeta", ![j].hi = n]
                /\ n = IF w.pc = "putmeta" THEN w.hi + 1 ELSE w.hi
        BY <2>10, <3>2 DEF Put
      <4>2. n <= Len(Given(j))
        BY <1>1, <1>2, <3>2, <4>1 DEF AllPut, WriterPlace
      <4> QED BY <2>4, <4>1, <4>2
    <3> QED BY <3>1, <3>2
  <2>11. CASE AddEntry(j) \/ Finish(j)
    BY <2>2, <2>5, <2>11 DEF AddEntry, Finish
  <2>12. CASE StoreFails(j)
    BY <2>1, <2>2, <2>8, <2>12 DEF StoreFails
  <2> QED BY <2>6, <2>7, <2>9, <2>10, <2>11, <2>12 DEF Stages
<1>6. CleanInv'
  BY <1>3, LeavesClean DEF StoreFrame
<1> QED BY <1>3, <1>4, <1>5, <1>6, StoreQuietInv

LEMMA BecomesInv ==
    ASSUME IInv, NEW e \in [Key -> Job \cup {Absent, Broken}],
           NEW b \in [Job -> {"none", "there", "deleted"}], CacheBecomes(e, b),
           UNCHANGED <<remote, storage, job, dest, since, faults>>,
           cleaner' \in [Cleaner -> Clean], Grows, WriterInv', EntryInv', CleanInv'
    PROVE  IInv'
<1>1. TypeOK'
  BY BecomesType DEF IInv, TypeOK, Grows, storage
<1>2. JobInv'
  BY JobStays DEF IInv
<1>3. PrimaryInv'
  BY BecomesPrimary DEF IInv
<1> QED BY <1>1, <1>2, <1>3 DEF IInv

LEMMA MoveBlobInv ==
    ASSUME IInv, NEW j \in Job, NEW next \in {"closemeta", "dropmeta", "dropped"}, MoveBlob(j, next),
           next = "closemeta" => writer[j].pc = "closeblob"
    PROVE  IInv'
<1> DEFINE b == [blob EXCEPT ![j] = "there"]
<1>1. /\ writer[j] \in Writer /\ writer \in [Job -> Writer] /\ WriterPlace(j)
      /\ entry \in [Key -> Job \cup {Absent, Broken}] /\ cleaner \in [Cleaner -> Clean]
      /\ b \in [Job -> {"none", "there", "deleted"}]
  BY DEF IInv, TypeOK, WriterInv
<1>2. WriterInv' /\ Grows /\ CleanInv'
  <2>1. [writer[j] EXCEPT !.pc = next] \in Writer
    BY <1>1 DEF Writer
  <2>2. WriterInv' /\ Grows
    BY <1>1, <2>1, WriterMoves DEF MoveBlob, WriterGoes, StoreFrame, Writer, WriterPlace
  <2>3. CleanInv'
    BY LeavesClean DEF MoveBlob, StoreFrame, storage
  <2> QED BY <2>2, <2>3
<1>3. EntryInv'
  BY <1>2, EntryStays DEF IInv, MoveBlob, CacheBecomes
<1> QED BY <1>1, <1>2, <1>3, BecomesInv DEF MoveBlob, StoreFrame

\* A meta that leads to j is moved only when the archive of j is complete.
LEMMA MoveMetaInv ==
    ASSUME IInv, NEW j \in Job, NEW to \in {j, Broken}, MoveMeta(j, to),
           to = j => writer[j].pc = "closemeta"
    PROVE  IInv'
<1> DEFINE w == writer[j]
           k == NextMeta(j)
           e == [entry EXCEPT ![k] = to]
<1>1. /\ w \in Writer /\ writer \in [Job -> Writer] /\ WriterPlace(j)
      /\ entry \in [Key -> Job \cup {Absent, Broken}] /\ cleaner \in [Cleaner -> Clean]
      /\ blob \in [Job -> {"none", "there", "deleted"}] /\ Given(j) \in Seq(Key)
  BY GivenFacts DEF IInv, TypeOK, WriterInv
<1>2. /\ w.lo \in Nat /\ w.hi \in Nat /\ w.lo < w.hi /\ Len(Given(j)) \in Nat
  BY <1>1 DEF Writer, MoveMeta, MetaLeft
<1>3. w.lo + 1 \in DOMAIN Given(j) /\ k \in Key /\ w.lo + 1 <= w.hi
  BY <1>1, <1>2 DEF WriterPlace, NextMeta
<1>4. WriterInv' /\ Grows /\ CleanInv'
  <2>1. [w EXCEPT !.lo = w.lo + 1] \in Writer
    <3>1. w.lo + 1 \in Nat
      BY <1>2
    <3> QED BY <1>1, <3>1 DEF Writer
  <2>2. writer' = [writer EXCEPT ![j] = [w EXCEPT !.lo = w.lo + 1]]
    BY <1>1 DEF MoveMeta
  <2>3. WriterInv' /\ Grows
    BY <1>1, <1>3, <2>1, <2>2, WriterMoves DEF Writer, WriterPlace
  <2>4. CleanInv'
    BY LeavesClean DEF MoveMeta, StoreFrame, storage
  <2> QED BY <2>3, <2>4
<1>5. e \in [Key -> Job \cup {Absent, Broken}] /\ entry' = e
  BY <1>1, <1>3 DEF MoveMeta, CacheBecomes
<1>6. EntryInv'
  <2>1. to \in Job => Complete(k, to)
    <3>1. CASE to = j
      BY <1>1, <1>3, <3>1 DEF Complete, GivenTo, WriterPlace, NextMeta
    <3>2. CASE to = Broken
      BY <3>2, KeysAssumption
    <3> QED BY <3>1, <3>2
  <2>2. \A l \in Key : entry'[l] = IF l = k THEN to ELSE entry[l]
    BY <1>1, <1>3, <1>5
  <2>3. {k} \in SUBSET Key /\ \A l \in Key \ {k} : entry'[l] = entry[l]
    BY <1>3, <2>2
  <2>4. \A l \in {k} : entry'[l] \in Job => Complete(l, entry'[l])
    BY <1>3, <2>1, <2>2
  <2> HIDE DEF k
  <2> QED BY <1>4, <2>3, <2>4, EntryMoves DEF IInv
<1>7. CacheBecomes(e, blob) /\ UNCHANGED <<remote, storage, job, dest, since, faults, cleaner>>
  BY DEF MoveMeta, StoreFrame
<1> QED BY <1>1, <1>4, <1>5, <1>6, <1>7, BecomesInv

\* The storage is left alone.
LEMMA QuietStorageInv ==
    ASSUME IInv, NEW j \in Job, StoreFrame, UNCHANGED <<cache, storage>>, Fault \/ UNCHANGED faults,
           WriterInv', Grows, UNCHANGED job \/ Leaves(j)
    PROVE  IInv'
<1>1. dirs' \subseteq Dir /\ left' \subseteq Job \X Key /\ races' \in Nat
  BY DEF IInv, TypeOK, storage
<1>2. CleanInv'
  BY LeavesClean DEF StoreFrame, storage
<1> QED BY <1>1, <1>2, StoreQuietInv

LEMMA WriterGoesInv ==
    ASSUME IInv, NEW j \in Job, NEW pc \in {"closed", "dropped", "dropmeta"},
           WriterGoes(j, pc), pc = "closed" => writer[j].pc = "closemeta",
           StoreFrame, UNCHANGED <<cache, storage, job>>, Fault \/ UNCHANGED faults
    PROVE  IInv'
<1>1. writer[j] \in Writer /\ writer \in [Job -> Writer] /\ WriterPlace(j)
  BY DEF IInv, TypeOK, WriterInv
<1>2. [writer[j] EXCEPT !.pc = pc] \in Writer
  BY <1>1 DEF Writer
<1>3. WriterInv' /\ Grows
  BY <1>1, <1>2, WriterMoves DEF WriterGoes, Writer, WriterPlace
<1> QED BY <1>3, QuietStorageInv

LEMMA CloseStepInv == ASSUME IInv, NEW j \in Job, CloseStep(j) \/ DropStep(j) PROVE IInv'
<1>1. CASE writer[j].pc = "closeblob" /\ MoveBlob(j, "closemeta")
  BY <1>1, MoveBlobInv
<1>2. CASE MoveBlob(j, "dropmeta") \/ MoveBlob(j, "dropped")
  BY <1>2, MoveBlobInv
<1>3. CASE writer[j].pc = "closemeta" /\ MoveMeta(j, j)
  BY <1>3, MoveMetaInv
<1>4. CASE MoveMeta(j, Broken)
  BY <1>4, MoveMetaInv, KeysAssumption
<1>5. CASE \/ writer[j].pc = "closemeta" /\ AllMoved(j, "closed")
           \/ writer[j].pc = "dropmeta" /\ AllMoved(j, "dropped")
  BY <1>5, WriterGoesInv DEF AllMoved
<1> QED BY <1>1, <1>2, <1>3, <1>4, <1>5 DEF CloseStep, DropStep, AsDropped

LEMMA CloseFailsInv == ASSUME IInv, NEW j \in Job, CloseFails(j) PROVE IInv'
<1> DEFINE w == writer[j]
<1>1. w \in Writer /\ writer \in [Job -> Writer] /\ WriterPlace(j)
  BY DEF IInv, TypeOK, WriterInv
<1>2. Fault /\ UNCHANGED <<cache, storage, job>> /\ StoreFrame
  BY DEF CloseFails
<1>3. CASE w.pc = "closeblob" /\ WriterGoes(j, "dropmeta")
  BY <1>2, <1>3, WriterGoesInv
<1>4. CASE w.pc = "closemeta" /\ MetaLeft(j)
           /\ \E lo \in {w.lo, w.lo + 1} : writer' = [writer EXCEPT ![j].pc = "dropmeta", ![j].lo = lo]
  <2>1. PICK lo \in {w.lo, w.lo + 1} : writer' = [writer EXCEPT ![j].pc = "dropmeta", ![j].lo = lo]
    BY <1>4
  <2>2. w.lo \in Nat /\ w.hi \in Nat /\ lo \in Nat /\ lo <= w.hi
    BY <1>1, <1>4, <2>1 DEF Writer, MetaLeft
  <2>3. [w EXCEPT !.pc = "dropmeta", !.lo = lo] \in Writer
    BY <1>1, <2>2 DEF Writer
  <2>4. writer' = [writer EXCEPT ![j] = [w EXCEPT !.pc = "dropmeta", !.lo = lo]]
    BY <1>1, <2>1
  <2>5. WriterInv' /\ Grows
    BY <1>1, <1>4, <2>2, <2>3, <2>4, WriterMoves DEF Writer, WriterPlace
  <2> QED BY <1>2, <2>5, QuietStorageInv
<1> QED BY <1>3, <1>4 DEF CloseFails

LEMMA StoreEndsInv == ASSUME IInv, NEW j \in Job, StoreEnds(j) PROVE IInv'
<1>1. /\ StoreFrame /\ UNCHANGED <<cache, storage, writer>> /\ (Fault \/ UNCHANGED faults) /\ Leaves(j)
  BY DEF StoreEnds, Leaves
<1>2. WriterInv' /\ Grows
  BY <1>1 DEF IInv, TypeOK, WriterInv, WriterPlace, Grows
<1> QED BY <1>1, <1>2, QuietStorageInv

\* A writer in a server outlives the job; what is left behind is of the job.
LEMMA KillInv == ASSUME IInv, NEW j \in Job, Kill(j) PROVE IInv'
<1> DEFINE w == writer[j]
<1>1. /\ w \in Writer /\ writer \in [Job -> Writer] /\ WriterPlace(j) /\ TypeOK /\ CleanInv
      /\ job \in [Job -> JobState] /\ left \subseteq Job \X Key /\ Given(j) \in Seq(Key)
  BY GivenFacts DEF IInv, TypeOK, WriterInv
<1>2. /\ Fault /\ UNCHANGED <<cache, dirs, races>> /\ StoreFrame /\ Leaves(j) /\ JobGoes(j, "dead")
      /\ job[j].pc # "dead"
  BY DEF Kill, Leaves, Ended
<1>3. PICK pc \in {"dead", "dropblob", w.pc} : WriterGoes(j, pc)
  BY DEF Kill
<1>4. WriterInv' /\ Grows
  <2>1. [w EXCEPT !.pc = pc] \in Writer /\ writer' = [writer EXCEPT ![j] = [w EXCEPT !.pc = pc]]
    BY <1>1, <1>3 DEF Writer, WriterGoes
  <2> QED BY <1>1, <1>3, <2>1, WriterMoves DEF Writer, WriterPlace
<1>5. \A f \in left' : f \in left \/ (f \in {j} \X Key /\ ~remote)
  <2>1. StagedBy(j) \subseteq {j} \X Key
    <3> SUFFICES ASSUME NEW i \in (w.lo + 1)..w.hi PROVE Given(j)[i] \in Key
      BY DEF StagedBy
    <3>1. i \in DOMAIN Given(j)
      BY <1>1 DEF Writer, WriterPlace
    <3> QED BY <1>1, <3>1
  <2>2. WritesBack(j) \subseteq {j} \X Key
    BY DEF WritesBack
  <2> QED BY <2>1, <2>2 DEF Kill
<1>6. left' \subseteq Job \X Key
  BY <1>1, <1>5
<1>7. job'[j].pc = "dead" /\ \A o \in Job \ {j} : job'[o] = job[o]
  BY <1>1, <1>2 DEF JobGoes, JobState
<1>8. CleanInv'
  <2>1. \A o \in Job : job[o].pc = "dead" => job'[o].pc = "dead"
    BY <1>7
  <2>2. \A f \in {j} \X Key : ~IsDead(f) /\ IsDead(f)'
    BY <1>2, <1>7 DEF IsDead
  <2>3. \A f \in left' : f \in left \/ (~IsDead(f) /\ IsDead(f)' /\ ~remote)
    BY <1>5, <2>2
  <2> QED BY <1>1, <1>2, <1>6, <2>1, <2>3, CleanStays DEF StoreFrame
<1>9. dirs' \subseteq Dir /\ races' \in Nat
  BY <1>1, <1>2 DEF TypeOK
<1> QED BY <1>2, <1>4, <1>6, <1>8, <1>9, StoreQuietInv

-----------------------------------------------------------------------------
(* clean.                                                                  *)

\* Where a clean may go to that has found what is left.
OldIsMet(r) ==
    /\ \A f \in r.old : IsDead(f)
    /\ remote => r.old = {}
    /\ r.pc = "tmp" => r.old \cap left \subseteq r.tmp \cup r.skipped
    /\ r.pc = "ok" => r.old \cap left \subseteq r.skipped

\* A clean moves, and leaves the jobs and the leftovers alone.
LEMMA CleanMoves ==
    ASSUME IInv, NEW c \in Cleaner, NEW r \in Clean, cleaner' = [cleaner EXCEPT ![c] = r],
           CleanFrame, UNCHANGED left, OldIsMet(r)
    PROVE  cleaner' \in [Cleaner -> Clean] /\ WriterInv' /\ Grows /\ CleanInv'
<1>1. /\ cleaner \in [Cleaner -> Clean] /\ writer \in [Job -> Writer] /\ WriterInv /\ CleanInv
      /\ UNCHANGED <<remote, writer, job>>
  BY DEF IInv, TypeOK, CleanFrame
<1>2. \A d \in Cleaner : cleaner'[d] = IF d = c THEN r ELSE cleaner[d]
  BY <1>1
<1>3. cleaner' \in [Cleaner -> Clean]
  BY <1>1
<1>4. WriterInv' /\ Grows
  BY <1>1 DEF WriterInv, WriterPlace, Grows
<1>5. CleanInv'
  <2>1. ASSUME NEW d \in Cleaner PROVE CleanPlace(d)'
    BY <1>1, <1>2 DEF CleanInv, CleanPlace, IsDead, OldIsMet
  <2> QED BY <1>1, <2>1 DEF CleanInv, IsDead
<1> QED BY <1>3, <1>4, <1>5

\* A clean moves, and neither the cache nor the jobs do.
LEMMA CleanQuietInv ==
    ASSUME IInv, UNCHANGED cache, UNCHANGED <<remote, job, dest, since, dirs, races>>,
           Fault \/ UNCHANGED faults, left' \subseteq Job \X Key,
           cleaner' \in [Cleaner -> Clean], WriterInv', Grows, CleanInv'
    PROVE  IInv'
<1>1. TypeOK'
  <2>1. (faults \in 0..MaxFaults)'
    BY FaultType DEF IInv
  <2> QED BY <2>1 DEF IInv, TypeOK, cache, Grows
<1>2. EntryInv' /\ JobInv' /\ PrimaryInv'
  BY EntryStays, JobStays, PrimaryStays DEF IInv, cache
<1> QED BY <1>1, <1>2 DEF IInv

LEMMA CleanTurnInv ==
    ASSUME IInv, NEW c \in Cleaner, NEW r \in Clean, cleaner' = [cleaner EXCEPT ![c] = r],
           CleanFrame, UNCHANGED left, OldIsMet(r), UNCHANGED cache, Fault \/ UNCHANGED faults
    PROVE  IInv'
<1>1. left' \subseteq Job \X Key
  BY DEF IInv, TypeOK
<1> QED BY <1>1, CleanMoves, CleanQuietInv DEF CleanFrame

\* What is left, and what a clean has noted of it.
LEMMA Leaving ==
    ASSUME IInv, NEW c \in Cleaner
    PROVE  /\ left \subseteq Job \X Key /\ \A f \in left : IsDead(f)
           /\ remote => left = {}
           /\ cleaner \in [Cleaner -> Clean] /\ cleaner[c] \in Clean /\ OldIsMet(cleaner[c])
  BY DEF IInv, TypeOK, CleanInv, CleanPlace, OldIsMet

LEMMA CleanGoesInv ==
    ASSUME IInv, NEW c \in Cleaner, NEW pc \in {"evict", "err"}, CleanGoes(c, pc),
           CleanFrame, UNCHANGED left, UNCHANGED cache, Fault \/ UNCHANGED faults
    PROVE  IInv'
<1> DEFINE r == [cleaner[c] EXCEPT !.pc = pc]
<1>1. cleaner[c] \in Clean /\ OldIsMet(cleaner[c])
  BY Leaving
<1>2. r \in Clean /\ OldIsMet(r)
  BY <1>1 DEF Clean, OldIsMet
<1>3. cleaner' = [cleaner EXCEPT ![c] = r]
  BY DEF CleanGoes
<1> QED BY <1>2, <1>3, CleanTurnInv

LEMMA WalkInv ==
    ASSUME IInv, NEW c \in Cleaner, WalkLeftovers(c), CleanFrame, UNCHANGED left,
           UNCHANGED <<cache, faults>>
    PROVE  IInv'
<1> DEFINE r == [cleaner[c] EXCEPT !.pc = IF remote THEN "ok" ELSE "tmp", !.tmp = left]
<1>1. /\ left \subseteq Job \X Key /\ cleaner \in [Cleaner -> Clean] /\ cleaner[c] \in Clean
      /\ OldIsMet(cleaner[c])
  BY Leaving
<1>2. r \in Clean /\ OldIsMet(r)
  BY <1>1 DEF Clean, OldIsMet
<1>3. cleaner' = [cleaner EXCEPT ![c] = r]
  BY <1>1 DEF WalkLeftovers
<1> QED BY <1>2, <1>3, CleanTurnInv

LEMMA CleanStartInv == ASSUME IInv, NEW c \in Cleaner, CleanStart(c) PROVE IInv'
<1> DEFINE mark == [cleaner[c] EXCEPT !.old = left]
<1>1. /\ cleaner \in [Cleaner -> Clean] /\ cleaner[c] \in Clean /\ CleanFrame /\ left \subseteq Job \X Key
      /\ (\A f \in left : IsDead(f)) /\ (remote => left = {}) /\ UNCHANGED <<cache, left, faults>>
  BY Leaving DEF CleanStart
<1>2. CASE CleanGoes(c, "err")
  BY <1>1, <1>2, CleanGoesInv
<1>3. ASSUME NEW pc \in {"read", "tmp"}, NEW read \in SUBSET Key, NEW todo \in SUBSET Job,
             NEW tmp \in SUBSET (Job \X Key), pc = "tmp" => tmp = left,
             cleaner' = [cleaner EXCEPT ![c] = [mark EXCEPT !.pc = pc, !.read = read, !.todo = todo,
                                                            !.tmp = tmp]]
      PROVE  IInv'
  <2> DEFINE r == [mark EXCEPT !.pc = pc, !.read = read, !.todo = todo, !.tmp = tmp]
  <2>1. r \in Clean /\ r.old = left /\ r.pc = pc /\ r.tmp = tmp
    BY <1>1 DEF Clean
  <2>2. cleaner' = [cleaner EXCEPT ![c] = r]
    BY <1>3
  <2> HIDE DEF r
  <2>3. OldIsMet(r)
    BY <1>1, <1>3, <2>1 DEF OldIsMet
  <2> QED BY <1>1, <2>1, <2>2, <2>3, CleanTurnInv
<1>4. mark \in Clean /\ mark.read \subseteq Key /\ mark.todo \subseteq Job /\ mark.tmp \subseteq Job \X Key
  BY <1>1 DEF Clean
<1>5. ASSUME cleaner' = [cleaner EXCEPT ![c] = [mark EXCEPT !.pc = "read", !.read = Key,
                                                   !.todo = {j \in Job : blob[j] = "there"}]]
      PROVE  IInv'
  <2> DEFINE there == {j \in Job : blob[j] = "there"}
  <2>1. there \in SUBSET Job /\ Key \in SUBSET Key
    OBVIOUS
  <2> HIDE DEF there
  <2>2. [mark EXCEPT !.pc = "read", !.read = Key, !.todo = there]
          = [mark EXCEPT !.pc = "read", !.read = Key, !.todo = there, !.tmp = mark.tmp]
    BY <1>4 DEF Clean
  <2>3. cleaner' = [cleaner EXCEPT ![c] = [mark EXCEPT !.pc = "read", !.read = Key, !.todo = there,
                                                       !.tmp = mark.tmp]]
    BY <1>5, <2>2 DEF there
  <2> HIDE DEF mark
  <2> QED BY <1>3, <1>4, <2>1, <2>3
<1>6. ASSUME cleaner' = [cleaner EXCEPT ![c] = [mark EXCEPT !.pc = "tmp", !.tmp = left]]
      PROVE  IInv'
  <2>1. [mark EXCEPT !.pc = "tmp", !.tmp = left]
          = [mark EXCEPT !.pc = "tmp", !.read = mark.read, !.todo = mark.todo, !.tmp = left]
    BY <1>4 DEF Clean
  <2>2. cleaner' = [cleaner EXCEPT ![c] = [mark EXCEPT !.pc = "tmp", !.read = mark.read,
                                                       !.todo = mark.todo, !.tmp = left]]
    BY <1>6, <2>1
  <2> HIDE DEF mark
  <2> QED BY <1>1, <1>3, <1>4, <2>2
<1> QED BY <1>2, <1>5, <1>6 DEF CleanStart

\* A clean only notes archives that a key led to.
LEMMA CleanReadInv == ASSUME IInv, NEW c \in Cleaner, CleanRead(c) PROVE IInv'
<1>1. /\ cleaner \in [Cleaner -> Clean] /\ cleaner[c] \in Clean /\ OldIsMet(cleaner[c])
      /\ cleaner[c].pc = "read" /\ CleanFrame /\ UNCHANGED <<cache, left, faults>>
  BY Leaving DEF CleanRead
<1>2. CASE CleanGoes(c, "err")
  BY <1>1, <1>2, CleanGoesInv
<1>3. ASSUME NEW k \in cleaner[c].read, Reads(c, k) PROVE IInv'
  <2> DEFINE noted == {<<k, entry[k]>>} \cap ({k} \X cleaner[c].todo)
             r == [cleaner[c] EXCEPT !.read = cleaner[c].read \ {k},
                                     !.found = cleaner[c].found \cup noted]
  <2>1. noted \subseteq Key \X Job
    BY <1>1, <1>3 DEF Clean
  <2>2. cleaner' = [cleaner EXCEPT ![c] = r]
    BY <1>1, <1>3 DEF Reads
  <2> HIDE DEF noted
  <2>3. r \in Clean /\ OldIsMet(r)
    BY <1>1, <2>1 DEF Clean, OldIsMet
  <2> QED BY <1>1, <2>2, <2>3, CleanTurnInv
<1>4. ASSUME NEW todo \in SUBSET {e[2] : e \in cleaner[c].found},
             cleaner' = [cleaner EXCEPT ![c].pc = "evict", ![c].todo = todo]
      PROVE  IInv'
  <2> DEFINE r == [cleaner[c] EXCEPT !.pc = "evict", !.todo = todo]
  <2>1. todo \subseteq Job
    BY <1>1 DEF Clean
  <2>2. r \in Clean /\ OldIsMet(r)
    BY <1>1, <2>1 DEF Clean, OldIsMet
  <2>3. cleaner' = [cleaner EXCEPT ![c] = r]
    BY <1>1, <1>4
  <2> QED BY <1>1, <2>2, <2>3, CleanTurnInv
<1> QED BY <1>2, <1>3, <1>4 DEF CleanRead

LEMMA CleanEvictInv == ASSUME IInv, NEW c \in Cleaner, CleanEvict(c) PROVE IInv'
<1>1. /\ cleaner[c] \in Clean /\ cleaner \in [Cleaner -> Clean] /\ OldIsMet(cleaner[c])
      /\ UNCHANGED <<cache, left, faults>> /\ CleanFrame
  BY Leaving DEF CleanEvict
<1>2. ASSUME NEW j \in cleaner[c].todo,
             cleaner' = [cleaner EXCEPT ![c].pc = "keys", ![c].victim = j, ![c].todo = @ \ {j}]
      PROVE  IInv'
  <2> DEFINE r == [cleaner[c] EXCEPT !.pc = "keys", !.victim = j, !.todo = cleaner[c].todo \ {j}]
  <2>1. r \in Clean /\ OldIsMet(r)
    BY <1>1, <1>2 DEF Clean, OldIsMet
  <2>2. cleaner' = [cleaner EXCEPT ![c] = r]
    BY <1>1, <1>2
  <2> QED BY <1>1, <2>1, <2>2, CleanTurnInv
<1>3. CASE WalkLeftovers(c)
  BY <1>1, <1>3, WalkInv
<1> QED BY <1>2, <1>3 DEF CleanEvict

\* Deleting a key, or an archive, makes no key lead anywhere else.
LEMMA CleanKeyInv == ASSUME IInv, NEW c \in Cleaner, CleanKey(c) PROVE IInv'
<1>1. /\ cleaner[c] \in Clean /\ cleaner \in [Cleaner -> Clean] /\ OldIsMet(cleaner[c])
      /\ entry \in [Key -> Job \cup {Absent, Broken}]
      /\ blob \in [Job -> {"none", "there", "deleted"}]
      /\ UNCHANGED <<left, faults>> /\ CleanFrame /\ KeysOf(c) \subseteq Key \X Job
  BY Leaving DEF IInv, TypeOK, CleanKey, KeysOf, Clean
<1>2. CASE CleanGoes(c, "err") /\ UNCHANGED cache
  BY <1>1, <1>2, CleanGoesInv
<1>3. ASSUME NEW e \in KeysOf(c), CacheBecomes([entry EXCEPT ![e[1]] = Absent], blob),
             cleaner' = [cleaner EXCEPT ![c].found = @ \ {e}]
      PROVE  IInv'
  <2> DEFINE r == [cleaner[c] EXCEPT !.found = cleaner[c].found \ {e}]
             t == [entry EXCEPT ![e[1]] = Absent]
  <2>1. r \in Clean /\ OldIsMet(r) /\ cleaner' = [cleaner EXCEPT ![c] = r]
    BY <1>1, <1>3 DEF Clean, OldIsMet
  <2> HIDE DEF r
  <2>2. cleaner' \in [Cleaner -> Clean] /\ WriterInv' /\ Grows /\ CleanInv'
    BY <1>1, <2>1, CleanMoves
  <2>3. t \in [Key -> Job \cup {Absent, Broken}] /\ entry' = t
    BY <1>1, <1>3 DEF CacheBecomes
  <2>4. EntryInv'
    <3>1. e[1] \in Key /\ \A l \in Key : entry'[l] = IF l = e[1] THEN Absent ELSE entry[l]
      BY <1>1, <2>3
    <3>2. {e[1]} \in SUBSET Key /\ \A l \in Key \ {e[1]} : entry'[l] = entry[l]
      BY <3>1
    <3>3. \A l \in {e[1]} : entry'[l] \notin Job
      BY <3>1, KeysAssumption
    <3> QED BY <2>2, <3>2, <3>3, EntryMoves DEF IInv
  <2>5. UNCHANGED <<remote, storage, job, dest, since, faults>>
    BY <1>1 DEF CleanFrame, storage
  <2> QED BY <1>1, <1>3, <2>2, <2>3, <2>4, <2>5, BecomesInv
<1> QED BY <1>2, <1>3 DEF CleanKey

LEMMA CleanBlobInv == ASSUME IInv, NEW c \in Cleaner, CleanBlob(c) PROVE IInv'
<1>1. /\ cleaner[c] \in Clean /\ cleaner \in [Cleaner -> Clean] /\ OldIsMet(cleaner[c])
      /\ entry \in [Key -> Job \cup {Absent, Broken}]
      /\ blob \in [Job -> {"none", "there", "deleted"}]
      /\ UNCHANGED <<left, faults>> /\ CleanFrame
  BY Leaving DEF IInv, TypeOK, CleanBlob
<1>2. CASE CleanGoes(c, "err") /\ UNCHANGED cache
  BY <1>1, <1>2, CleanGoesInv
<1>3. CASE CleanGoes(c, "evict") /\ CacheBecomes(entry, [blob EXCEPT ![cleaner[c].victim] = "deleted"])
  <2> DEFINE r == [cleaner[c] EXCEPT !.pc = "evict"]
  <2>1. r \in Clean /\ OldIsMet(r) /\ cleaner' = [cleaner EXCEPT ![c] = r]
    BY <1>1, <1>3 DEF Clean, OldIsMet, CleanGoes
  <2> HIDE DEF r
  <2>2. cleaner' \in [Cleaner -> Clean] /\ WriterInv' /\ Grows /\ CleanInv'
    BY <1>1, <2>1, CleanMoves
  <2>3. EntryInv'
    BY <1>3, <2>2, EntryStays DEF IInv, CacheBecomes
  <2>4. [blob EXCEPT ![cleaner[c].victim] = "deleted"] \in [Job -> {"none", "there", "deleted"}]
    BY <1>1
  <2>5. UNCHANGED <<remote, storage, job, dest, since, faults>>
    BY <1>1 DEF CleanFrame, storage
  <2> QED BY <1>1, <1>3, <2>2, <2>3, <2>4, <2>5, BecomesInv
<1> QED BY <1>2, <1>3 DEF CleanBlob

\* What is left gets less: what another clean has still to see, too.
LEMMA CleanTmpInv == ASSUME IInv, NEW c \in Cleaner, CleanTmp(c) PROVE IInv'
<1>1. /\ cleaner[c] \in Clean /\ cleaner \in [Cleaner -> Clean] /\ OldIsMet(cleaner[c])
      /\ cleaner[c].pc = "tmp" /\ CleanFrame /\ UNCHANGED <<cache, faults>>
  BY Leaving DEF CleanTmp
<1>2. ASSUME NEW f \in cleaner[c].tmp, left' = left \ {f},
             cleaner' = [cleaner EXCEPT ![c].tmp = @ \ {f}]
      PROVE  IInv'
  <2>1. /\ writer \in [Job -> Writer] /\ WriterInv /\ CleanInv /\ left \subseteq Job \X Key
        /\ UNCHANGED <<remote, writer, job>>
    BY <1>1 DEF IInv, TypeOK, CleanFrame
  <2>2. WriterInv' /\ Grows
    BY <2>1 DEF WriterInv, WriterPlace, Grows
  <2> DEFINE r == [cleaner[c] EXCEPT !.tmp = cleaner[c].tmp \ {f}]
  <2>3. r \in Clean /\ cleaner' = [cleaner EXCEPT ![c] = r]
    BY <1>1, <1>2 DEF Clean
  <2>4. cleaner' \in [Cleaner -> Clean]
    BY <1>1, <2>3
  <2>5. /\ r.old = cleaner[c].old /\ r.skipped = cleaner[c].skipped /\ r.pc = "tmp"
        /\ r.tmp = cleaner[c].tmp \ {f}
    BY <1>1 DEF Clean
  <2> HIDE DEF r
  <2>6. ASSUME NEW d \in Cleaner PROVE CleanPlace(d)'
    <3>1. CASE d = c
      <4>1. cleaner'[d] = r
        BY <1>1, <2>3, <3>1
      <4>2. r.old \cap left' \subseteq r.tmp \cup r.skipped
        BY <1>1, <1>2, <2>5 DEF OldIsMet
      <4> QED BY <1>1, <2>1, <2>5, <4>1, <4>2 DEF OldIsMet, CleanPlace, IsDead
    <3>2. CASE d # c
      <4>1. cleaner'[d] = cleaner[d] /\ CleanPlace(d)
        BY <1>1, <2>1, <2>3, <3>2 DEF CleanInv
      <4> QED BY <1>2, <2>1, <4>1 DEF CleanPlace, IsDead
    <3> QED BY <3>1, <3>2
  <2>7. CleanInv'
    BY <1>2, <2>1, <2>6 DEF CleanInv, IsDead
  <2>8. left' \subseteq Job \X Key
    BY <1>2, <2>1
  <2> QED BY <1>1, <2>2, <2>4, <2>7, <2>8, CleanQuietInv DEF CleanFrame
<1>3. ASSUME NEW f \in cleaner[c].tmp, UNCHANGED left,
             cleaner' = [cleaner EXCEPT ![c].tmp = WalkGoesOn(c, f), ![c].skipped = @ \cup {f}]
      PROVE  IInv'
  <2> DEFINE r == [cleaner[c] EXCEPT !.tmp = cleaner[c].tmp \ {f},
                                     !.skipped = cleaner[c].skipped \cup {f}]
  <2>1. cleaner' = [cleaner EXCEPT ![c] = r]
    BY <1>1, <1>3 DEF WalkGoesOn
  <2>2. f \in Job \X Key
    BY <1>1, <1>3 DEF Clean
  <2>3. r \in Clean
    BY <1>1, <2>2 DEF Clean
  <2>4. /\ r.old = cleaner[c].old /\ r.skipped = cleaner[c].skipped \cup {f}
        /\ r.pc = cleaner[c].pc /\ r.tmp = cleaner[c].tmp \ {f}
    BY <1>1 DEF Clean
  <2> HIDE DEF r
  <2>5. OldIsMet(r)
    BY <1>1, <1>3, <2>4 DEF OldIsMet
  <2> QED BY <1>1, <1>3, <2>1, <2>3, <2>5, CleanTurnInv
<1>4. CASE cleaner[c].tmp = {} /\ CleanGoes(c, "ok") /\ UNCHANGED left
  <2> DEFINE r == [cleaner[c] EXCEPT !.pc = "ok"]
  <2>1. r \in Clean /\ OldIsMet(r)
    BY <1>1, <1>4 DEF Clean, OldIsMet
  <2>2. cleaner' = [cleaner EXCEPT ![c] = r]
    BY <1>4 DEF CleanGoes
  <2> QED BY <1>1, <1>4, <2>1, <2>2, CleanTurnInv
<1> QED BY <1>2, <1>3, <1>4 DEF CleanTmp

LEMMA CleanFailsInv == ASSUME IInv, NEW c \in Cleaner, CleanFails(c) PROVE IInv'
  BY CleanGoesInv DEF CleanFails

-----------------------------------------------------------------------------
(* The theorems.                                                           *)

LEMMA NextInv == ASSUME IInv, [Next]_vars PROVE IInv'
<1>1. ASSUME NEW j \in Job, RestoreStep(j) PROVE IInv'
  BY <1>1, RestoreStartInv, LookupInv, NoKeyFoundInv, UnpackInv, UnpackedInv, MakeInv
     DEF RestoreStep
<1>2. ASSUME NEW j \in Job, StoreStep(j) \/ WriterStep(j) PROVE IInv'
  BY <1>2, StageInv, StoreEndsInv, CloseStepInv DEF StoreStep, WriterStep, Stages
<1>3. ASSUME NEW j \in Job, JobFails(j) PROVE IInv'
  BY <1>3, LookupFailsInv, UnpackFailsInv, StageInv, CloseFailsInv, KillInv DEF JobFails
<1>4. ASSUME NEW c \in Cleaner, CleanStart(c) \/ CleanStep(c) \/ CleanFails(c) PROVE IInv'
  BY <1>4, CleanStartInv, CleanReadInv, CleanEvictInv, CleanKeyInv, CleanBlobInv, CleanTmpInv, CleanFailsInv
     DEF CleanStep
<1>5. CASE UNCHANGED vars
  <2>1. WriterInv' /\ Grows
    BY <1>5 DEF IInv, TypeOK, WriterInv, WriterPlace, Grows, vars
  <2>2. cleaner' \in [Cleaner -> Clean] /\ left' \subseteq Job \X Key
    BY <1>5 DEF IInv, TypeOK, vars
  <2>3. CleanInv'
    BY <1>5, <2>2, CleanStays DEF IInv, vars
  <2> QED BY <1>5, <2>1, <2>2, <2>3, CleanQuietInv DEF vars, cache
<1> QED BY <1>1, <1>2, <1>3, <1>4, <1>5 DEF Next

THEOREM Invariance == Spec => []IInv
  BY InitInv, NextInv, PTL DEF Spec

\* Type correctness.
THEOREM TypeCorrect == Spec => []TypeOK
<1>1. IInv => TypeOK
  BY DEF IInv
<1> QED BY <1>1, Invariance, PTL

\* What restore leaves behind when it reports success is the whole archive of
\* one store that was given the key; it leaves nothing if there is no key.
THEOREM RestoredWhole == Spec => []RestoredIsWhole
<1>1. IInv => RestoredIsWhole
  BY DEF IInv, JobInv, JobPlace, Over, Empty, GivenTo, RestoredIsWhole
<1> QED BY <1>1, Invariance, PTL

\* The exit codes 3 and 4 are the truth about the primary key.
THEOREM PrimaryMissing == Spec => []PrimaryWasMissing
<1>1. IInv => PrimaryWasMissing
  BY DEF IInv, PrimaryInv, PrimaryPlace, FirstLost, PrimaryWasMissing
<1> QED BY <1>1, Invariance, PTL

\* A clean that succeeds has removed the staged metas that killed jobs had left,
\* but those it could not open or lock.
THEOREM LeftoversGone == Spec => []LeftoversGo
<1>1. IInv => LeftoversGo
  BY DEF IInv, CleanInv, CleanPlace, LeftoversGo
<1> QED BY <1>1, Invariance, PTL

-----------------------------------------------------------------------------
(* Jobs repair what earlier failures left.                                 *)

\* Before the first clean, a job since whose start nothing has failed.
Untouched == \A c \in Cleaner : cleaner[c].pc = "new"
Undisturbed(j) == Untouched /\ since[j] = Mishaps

\* Nothing but a fault or a lost race makes a writer be dropped: when there was
\* none since a restore that saw no writer that was or had to be dropped, none
\* has.
SinceInv ==
    /\ \A j \in Job : since[j] \in 0..Mishaps \/ since[j] = Absent
    /\ \A j \in Job : since[j] = Mishaps => \A o \in Job : ~Doomed(o)

\* How far a store and its writer have come.
StorePlace(j) ==
    /\ job[j].pc \in {"new", "lookup", "unpack", "make"} => writer[j].pc = "none"
    /\ writer[j].pc \in {"none", "putblob", "putmeta", "write", "closeblob"} => writer[j].lo = 0
    /\ writer[j].pc \in {"write", "closeblob", "closemeta", "closed"} => writer[j].hi = Len(Given(j))
    /\ writer[j].pc = "closed" => writer[j].lo = writer[j].hi
StoreInv == \A j \in Job : StorePlace(j)

\* Metas are moved once the archive is there, and only a clean deletes it.
BlobInv == Untouched => \A j \in Job : writer[j].pc = "closemeta" => blob[j] = "there"

\* An undisturbed job unpacks what is still found, and its first key is found
\* from the moment its first meta is moved.
FirstFound(j) == Given(j) # <<>> => Found(Given(j)[1])
RepairPlace(j) ==
    /\ writer[j].pc # "dropped"
    /\ writer[j].lo > 0 => FirstFound(j)
    /\ job[j].pc = "unpack" => Found(job[j].key)
    /\ job[j].pc = "done" /\ j \notin AnyKey => FirstFound(j)
RepairInv == \A j \in Job : Undisturbed(j) => RepairPlace(j)

RInv == IInv /\ SinceInv /\ StoreInv /\ BlobInv /\ RepairInv

LEMMA InitRepair == Init => RInv
<1> SUFFICES ASSUME Init PROVE RInv
  OBVIOUS
<1>1. SinceInv
  BY DEF Init, SinceInv, Doomed, Dropping, Putting, Mishaps
<1>2. StoreInv /\ BlobInv
  BY DEF Init, StoreInv, StorePlace, BlobInv
<1>3. RepairInv
  BY DEF Init, RepairInv, RepairPlace
<1> QED BY <1>1, <1>2, <1>3, InitInv DEF RInv

LEMMA FirstKey == ASSUME NEW j \in Job, Given(j) # <<>> PROVE Given(j)[1] \in Key
  BY GivenFacts

LEMMA MishapCounts ==
    ASSUME TypeOK, (Fault /\ UNCHANGED races) \/ (UNCHANGED faults /\ races' = races + 1)
    PROVE  Mishaps \in Nat /\ Mishaps' \in Nat /\ Mishaps < Mishaps'
<1>1. faults \in Nat /\ races \in Nat /\ Mishaps = faults + races /\ Mishaps' = faults' + races'
  BY SizeAssumption DEF TypeOK, Mishaps
<1> QED BY <1>1 DEF Fault

\* What began before a mishap began with fewer of them.
LEMMA MishapPasses ==
    ASSUME RInv, Mishaps \in Nat, Mishaps' \in Nat, Mishaps < Mishaps', NEW o \in Job,
           since'[o] = since[o] \/ since'[o] = Mishaps \/ since'[o] = Absent
    PROVE  since'[o] # Mishaps' /\ (since'[o] \in 0..Mishaps' \/ since'[o] = Absent)
<1>1. since[o] \in 0..Mishaps \/ since[o] = Absent
  BY DEF RInv, SinceInv
<1>2. Absent \notin Nat
  BY KeysAssumption
<1> QED BY <1>1, <1>2

\* A step of one job and its writer that is no fault.
LEMMA RepairMoves ==
    ASSUME RInv, IInv', NEW j \in Job, UNCHANGED <<cleaner, faults, races, since>>,
           \A o \in Job \ {j} : job'[o] = job[o] /\ writer'[o] = writer[o],
           StorePlace(j)', Doomed(j)' => Doomed(j),
           \A o \in Job : blob[o] = "there" => blob'[o] = "there",
           writer'[j].pc = "closemeta" /\ Untouched => blob'[j] = "there",
           ~Doomed(j) /\ Untouched => \A k \in Key : Found(k) => Found(k)',
           Undisturbed(j) => RepairPlace(j)'
    PROVE  RInv'
<1>1. SinceInv' /\ Mishaps' = Mishaps
  <2>1. Mishaps' = Mishaps
    BY DEF Mishaps
  <2>2. \A o \in Job : Doomed(o)' => Doomed(o)
    BY DEF Doomed, Dropping, Putting
  <2> QED BY <2>1, <2>2 DEF RInv, SinceInv
<1>2. StoreInv' /\ BlobInv'
  BY DEF RInv, StoreInv, StorePlace, BlobInv, Untouched
<1>3. RepairInv'
  <2> SUFFICES ASSUME NEW o \in Job, Undisturbed(o) PROVE RepairPlace(o)'
    BY <1>1 DEF RepairInv, Undisturbed, Untouched
  <2>1. CASE o = j
    BY <2>1
  <2>2. CASE o # j
    <3>1. /\ job'[o] = job[o] /\ writer'[o] = writer[o] /\ RepairPlace(o)
          /\ \A k \in Key : Found(k) => Found(k)'
      BY <2>2 DEF RInv, RepairInv, SinceInv, Undisturbed
    <3>2. FirstFound(o) => FirstFound(o)'
      BY <3>1, FirstKey DEF FirstFound
    <3>3. job[o].pc = "unpack" => job[o].key \in Key
      BY DEF RInv, IInv, JobInv, JobPlace
    <3>4. Found(job[o].key) /\ job[o].key \in Key => Found(job[o].key)'
      BY <3>1 DEF Found
    <3> QED BY <3>1, <3>2, <3>3, <3>4 DEF RepairPlace
  <2> QED BY <2>1, <2>2
<1> QED BY <1>1, <1>2, <1>3 DEF RInv

\* After a mishap no job that has begun is undisturbed.
LEMMA RepairMishap ==
    ASSUME RInv, IInv', (Fault /\ UNCHANGED races) \/ (UNCHANGED faults /\ races' = races + 1),
           UNCHANGED cleaner, NEW j \in Job,
           \A o \in Job : since'[o] = since[o] \/ since'[o] = Mishaps \/ since'[o] = Absent,
           \A o \in Job \ {j} : job'[o] = job[o] /\ writer'[o] = writer[o],
           StorePlace(j)', UNCHANGED blob, writer'[j].pc = "closemeta" => writer[j].pc = "closemeta"
    PROVE  RInv'
<1>1. \A o \in Job : since'[o] # Mishaps' /\ (since'[o] \in 0..Mishaps' \/ since'[o] = Absent)
  BY MishapCounts, MishapPasses DEF RInv, IInv
<1>2. SinceInv' /\ RepairInv'
  BY <1>1 DEF SinceInv, RepairInv, Undisturbed
<1>3. StoreInv' /\ BlobInv'
  BY DEF RInv, StoreInv, StorePlace, BlobInv, Untouched
<1> QED BY <1>2, <1>3 DEF RInv

\* Once a clean has begun nothing is promised of the cache.
LEMMA RepairClean ==
    ASSUME RInv, IInv', NEW c \in Cleaner, cleaner'[c].pc # "new",
           UNCHANGED <<job, writer, since, races>>, Fault \/ UNCHANGED faults
    PROVE  RInv'
<1>1. BlobInv' /\ RepairInv'
  BY DEF BlobInv, RepairInv, Undisturbed, Untouched
<1>2. StoreInv'
  BY DEF RInv, StoreInv, StorePlace
<1>3. \A o \in Job : Doomed(o)' => Doomed(o)
  BY DEF Doomed, Dropping, Putting
<1>4. SinceInv'
  <2>1. CASE Fault
    <3>1. \A o \in Job : since'[o] # Mishaps' /\ (since'[o] \in 0..Mishaps' \/ since'[o] = Absent)
      BY <2>1, MishapCounts, MishapPasses DEF RInv, IInv
    <3> QED BY <3>1 DEF SinceInv
  <2>2. CASE UNCHANGED faults
    <3>1. Mishaps' = Mishaps
      BY <2>2 DEF Mishaps
    <3> QED BY <1>3, <3>1 DEF RInv, SinceInv
  <2> QED BY <2>1, <2>2
<1> QED BY <1>1, <1>2, <1>4 DEF RInv

\* restore, which leaves the cache and the writers alone.
LEMMA RestoreRepair ==
    ASSUME RInv, IInv', NEW j \in Job, RestoreFrame, UNCHANGED <<cache, faults, since>>,
           \A o \in Job \ {j} : job'[o] = job[o],
           job[j].pc \in {"lookup", "unpack", "make"},
           Undisturbed(j) => /\ job'[j].pc = "unpack" => Found(job'[j].key)
                             /\ job'[j].pc = "done" /\ j \notin AnyKey => FirstFound(j)
    PROVE  RInv'
<1>1. /\ writer' = writer /\ cleaner' = cleaner /\ blob' = blob /\ entry' = entry
      /\ races' = races /\ writer[j].pc = "none" /\ writer[j].lo = 0
  BY DEF RestoreFrame, storage, cache, RInv, StoreInv, StorePlace
<1>2. StorePlace(j)'
  BY <1>1 DEF StorePlace
<1>3. Undisturbed(j) => RepairPlace(j)'
  BY <1>1 DEF RepairPlace, FirstFound, Found
<1>4. Doomed(j)' => Doomed(j)
  BY <1>1 DEF Doomed, Dropping, Putting
<1>5. \A k \in Key : Found(k) => Found(k)'
  BY <1>1 DEF Found
<1> QED BY <1>1, <1>2, <1>3, <1>4, <1>5, RepairMoves

LEMMA RestoreStartRepair == ASSUME RInv, IInv', NEW j \in Job, RestoreStart(j) PROVE RInv'
<1>1. /\ job[j].pc = "new" /\ UNCHANGED <<entry, blob, dest>> /\ RestoreFrame
      /\ job[j] \in JobState /\ job \in [Job -> JobState] /\ since \in [Job -> Nat \cup {Absent}]
      /\ races' = races
  BY DEF RestoreStart, RestoreFrame, storage, RInv, IInv, TypeOK
<1>2. writer' = writer /\ cleaner' = cleaner /\ writer[j].pc = "none" /\ writer[j].lo = 0
  BY <1>1 DEF RestoreFrame, RInv, StoreInv, StorePlace
<1>3. StorePlace(j)'
  BY <1>2 DEF StorePlace
<1>4. \A o \in Job : since'[o] = IF o = j
                                 THEN IF \E p \in Job : Doomed(p) THEN Absent ELSE Mishaps
                                 ELSE since[o]
  BY <1>1 DEF RestoreStart
<1>5. CASE Fault /\ Restored(j, "1")
  <2>1. \A o \in Job \ {j} : job'[o] = job[o]
    BY <1>1, <1>5 DEF Restored
  <2> QED BY <1>1, <1>2, <1>3, <1>4, <1>5, <2>1, RepairMishap
<1>6. CASE job' = [job EXCEPT ![j].pc = "lookup"] /\ UNCHANGED faults
  <2>1. job'[j].pc = "lookup" /\ \A o \in Job \ {j} : job'[o] = job[o]
    BY <1>1, <1>6 DEF JobState
  <2>2. Mishaps \in Nat /\ Mishaps' = Mishaps
    BY <1>1, <1>6, SizeAssumption DEF RInv, IInv, TypeOK, Mishaps
  <2>3. SinceInv'
    <3>1. \A o \in Job : Doomed(o)' <=> Doomed(o)
      BY <1>2, <2>1 DEF Doomed, Dropping, Putting
    <3>2. ASSUME NEW o \in Job
          PROVE  /\ since'[o] \in 0..Mishaps \/ since'[o] = Absent
                 /\ since'[o] = Mishaps => \A p \in Job : ~Doomed(p)
      <4>1. CASE o # j
        BY <1>4, <4>1 DEF RInv, SinceInv
      <4>2. CASE o = j /\ \E p \in Job : Doomed(p)
        BY <1>4, <2>2, <4>2, KeysAssumption
      <4>3. CASE o = j /\ ~\E p \in Job : Doomed(p)
        BY <1>4, <2>2, <4>3
      <4> QED BY <4>1, <4>2, <4>3
    <3> QED BY <2>2, <3>1, <3>2 DEF SinceInv
  <2>4. StoreInv' /\ BlobInv'
    BY <1>1, <1>2, <1>3, <2>1 DEF RInv, StoreInv, StorePlace, BlobInv, Untouched
  <2>5. RepairInv'
    <3> SUFFICES ASSUME NEW o \in Job, Undisturbed(o)' PROVE RepairPlace(o)'
      BY DEF RepairInv
    <3>1. CASE o = j
      BY <1>2, <2>1, <3>1 DEF RepairPlace
    <3>2. CASE o # j
      <4>1. Undisturbed(o) /\ job'[o] = job[o]
        BY <1>2, <1>4, <2>1, <2>2, <3>2 DEF Undisturbed, Untouched
      <4> QED BY <1>1, <1>2, <4>1 DEF RInv, RepairInv, RepairPlace, FirstFound, Found
    <3> QED BY <3>1, <3>2
  <2> QED BY <2>3, <2>4, <2>5 DEF RInv
<1> QED BY <1>5, <1>6 DEF RestoreStart

LEMMA RestoredGoes ==
    ASSUME RInv, NEW j \in Job, NEW rc \in {"0", "1", "3", "4"}, Restored(j, rc)
    PROVE  /\ job'[j].pc = IF rc = "0" THEN "done" ELSE "make"
           /\ \A o \in Job \ {j} : job'[o] = job[o]
<1>1. TypeOK /\ job[j] \in JobState
  BY DEF RInv, IInv, TypeOK
<1>2. /\ \A o \in Job \ {j} : job'[o] = job[o]
      /\ job'[j] = [job[j] EXCEPT !.restored = rc, !.pc = IF rc = "0" THEN "done" ELSE "make"]
  BY <1>1, RestoredJob
<1> QED BY <1>1, <1>2 DEF JobState

LEMMA LookupRepair == ASSUME RInv, IInv', NEW j \in Job, Lookup(j) PROVE RInv'
<1> DEFINE k == Given(j)[job[j].i]
<1>1. /\ job[j].pc = "lookup" /\ UNCHANGED <<cache, faults, since>> /\ RestoreFrame
      /\ TypeOK /\ job[j] \in JobState
  BY DEF Lookup, RInv, IInv, TypeOK
<1>2. CASE Found(k) /\ job' = [job EXCEPT ![j].pc = "unpack", ![j].key = k, ![j].from = entry[k]]
  <2>1. /\ job'[j].pc = "unpack" /\ job'[j].key = k /\ \A o \in Job \ {j} : job'[o] = job[o]
    BY <1>1, <1>2 DEF TypeOK, JobState
  <2> QED BY <1>1, <1>2, <2>1, RestoreRepair
<1>3. CASE TryNextKey(j)
  <2>1. job'[j].pc = "lookup" /\ \A o \in Job \ {j} : job'[o] = job[o]
    BY <1>1, <1>3 DEF TypeOK, JobState, TryNextKey
  <2> QED BY <1>1, <2>1, RestoreRepair
<1>4. CASE Restored(j, "1")
  <2>1. job'[j].pc = "make" /\ \A o \in Job \ {j} : job'[o] = job[o]
    BY <1>4, RestoredGoes
  <2> QED BY <1>1, <2>1, RestoreRepair
<1> QED BY <1>2, <1>3, <1>4 DEF Lookup

LEMMA NoKeyFoundRepair == ASSUME RInv, IInv', NEW j \in Job, NoKeyFound(j) PROVE RInv'
<1>1. TypeOK /\ job[j] \in JobState
  BY DEF RInv, IInv, TypeOK
<1>2. job'[j].pc = "make" /\ \A o \in Job \ {j} : job'[o] = job[o]
  BY RestoredGoes DEF NoKeyFound
<1> QED BY <1>2, RestoreRepair DEF NoKeyFound

LEMMA UnpackRepair == ASSUME RInv, IInv', NEW j \in Job, Unpack(j) PROVE RInv'
<1>1. TypeOK /\ job[j] \in JobState
  BY DEF RInv, IInv, TypeOK
<1>2. /\ job[j].pc = "unpack" /\ job'[j].pc = "unpack" /\ job'[j].key = job[j].key
      /\ \A o \in Job \ {j} : job'[o] = job[o]
  BY <1>1 DEF Unpack, TypeOK, JobState
<1>3. Undisturbed(j) => Found(job[j].key)
  BY <1>2 DEF RInv, RepairInv, RepairPlace
<1> QED BY <1>2, <1>3, RestoreRepair DEF Unpack

\* Exit code 0 means that the first key was found, blank keys set aside.
LEMMA UnpackedRepair == ASSUME RInv, IInv', NEW j \in Job, Unpacked(j) PROVE RInv'
<1>1. TypeOK /\ job[j] \in JobState /\ job[j].pc = "unpack" /\ job[j].key \in Key
  BY DEF RInv, IInv, TypeOK, JobInv, JobPlace, Unpacked
<1>2. ExitCode(j) \in {"0", "3"}
  BY DEF ExitCode
<1>3. /\ job'[j].pc = IF ExitCode(j) = "0" THEN "done" ELSE "make"
      /\ \A o \in Job \ {j} : job'[o] = job[o]
  BY <1>2, RestoredGoes DEF Unpacked
<1>4. Undisturbed(j) => Found(job[j].key)
  BY <1>1 DEF RInv, RepairInv, RepairPlace
<1>5. ExitCode(j) = "0" /\ j \notin AnyKey => job[j].key = Keys[j][1]
  BY DEF ExitCode
<1>6. Keys[j][1] # Blank => Given(j)[1] = Keys[j][1]
  BY GivenFacts
<1>7. Undisturbed(j) /\ job'[j].pc = "done" /\ j \notin AnyKey => FirstFound(j)
  BY <1>1, <1>3, <1>4, <1>5, <1>6, KeysAssumption DEF FirstFound
<1> QED BY <1>1, <1>3, <1>7, RestoreRepair DEF Unpacked

LEMMA MakeRepair == ASSUME RInv, IInv', NEW j \in Job, Make(j) PROVE RInv'
<1>1. TypeOK /\ job[j] \in JobState
  BY DEF RInv, IInv, TypeOK
<1>2. job[j].pc = "make" /\ job'[j].pc = "store" /\ \A o \in Job \ {j} : job'[o] = job[o]
  BY <1>1 DEF Make, TypeOK, JobState
<1> QED BY <1>2, RestoreRepair DEF Make

\* While nobody is dropped, what is found stays found.
LEMMA FirstStays ==
    ASSUME NEW j \in Job, \A k \in Key : Found(k) => Found(k)', FirstFound(j)
    PROVE  FirstFound(j)'
  BY FirstKey DEF FirstFound

\* The writer is made, is filled, and is finished: nothing is moved.
LEMMA StageRepair ==
    ASSUME RInv, IInv', NEW j \in Job, Stages(j), UNCHANGED <<faults, races>>
    PROVE  RInv'
<1> DEFINE w == writer[j]
<1>1. /\ w \in Writer /\ writer \in [Job -> Writer] /\ job[j] \in JobState /\ job \in [Job -> JobState]
      /\ StorePlace(j) /\ StoreFrame /\ UNCHANGED cache /\ races \in Nat
      /\ w.pc \in {"none", "putblob", "putmeta", "write"} /\ w.lo = 0
  BY DEF RInv, IInv, TypeOK, StoreInv, StorePlace, Stages, StoreStart, MissesDir, MakeDir, Put,
         AddEntry, Finish, Putting
<1>2. job[j].pc = "store" \/ Putting(j)
  BY DEF Stages, StoreStart, MissesDir, MakeDir, Put, AddEntry, Finish
<1>3. /\ \A o \in Job \ {j} : writer'[o] = writer[o]
      /\ writer'[j].lo = 0 /\ writer'[j].pc \in {"putblob", "putmeta", "write", "closeblob", "dropblob"}
      /\ writer'[j].pc \in {"write", "closeblob"} => writer'[j].hi = Len(Given(j))
      /\ writer'[j].pc = "dropblob" => job[j].pc # "store" /\ Putting(j)
      /\ writer'[j].pc \in {"putblob", "putmeta"} => Putting(j) \/ job[j].pc = "store"
  <2>1. CASE StoreStart(j)
    BY <1>1, <2>1 DEF StoreStart, WriterGoes, Writer, Fault, RInv, IInv, TypeOK
  <2>2. CASE MissesDir(j)
    BY <1>1, <2>2 DEF MissesDir, Writer, Putting
  <2>3. CASE MakeDir(j)
    BY <1>1, <2>3 DEF MakeDir, Writer, Putting
  <2>4. CASE Put(j)
    <3>1. CASE AllPut(j)
      BY <1>1, <2>4, <3>1 DEF Put, AllPut, WriterGoes, Writer
    <3>2. CASE ~AllPut(j)
      BY <1>1, <2>4, <3>2 DEF Put, Writer
    <3> QED BY <3>1, <3>2
  <2>5. CASE AddEntry(j)
    BY <1>1, <2>5 DEF AddEntry, Writer, StorePlace
  <2>6. CASE Finish(j)
    BY <1>1, <2>6 DEF Finish, WriterGoes, Writer, StorePlace
  <2> QED BY <2>1, <2>2, <2>3, <2>4, <2>5, <2>6 DEF Stages
<1>4. UNCHANGED job \/ (JobGoes(j, "wait") /\ writer'[j].pc = "closeblob")
  <2>1. CASE StoreStart(j)
    BY <1>1, <2>1 DEF StoreStart, Fault, RInv, IInv, TypeOK
  <2>2. CASE MakeDir(j)
    BY <1>1, <2>2 DEF MakeDir
  <2>3. CASE Finish(j)
    BY <1>1, <2>3 DEF Finish, WriterGoes
  <2> QED BY <2>1, <2>2, <2>3 DEF Stages, MissesDir, Put, AddEntry
<1>5. /\ \A o \in Job \ {j} : job'[o] = job[o]
      /\ job'[j].pc \in {job[j].pc, "wait"} /\ job'[j].key = job[j].key
      /\ job'[j].pc = job[j].pc \/ writer'[j].pc = "closeblob"
  BY <1>1, <1>4 DEF JobGoes, JobState
<1>6. StorePlace(j)'
  <2>1. job'[j].pc \notin {"new", "lookup", "unpack", "make"}
    BY <1>1, <1>2, <1>5 DEF StorePlace, Putting
  <2> QED BY <1>3, <2>1 DEF StorePlace
<1>7. Undisturbed(j) => RepairPlace(j)'
  <2>1. Undisturbed(j) => RepairPlace(j)
    BY DEF RInv, RepairInv
  <2> QED BY <1>1, <1>3, <1>5, <2>1 DEF RepairPlace, FirstFound, Found, cache
<1>8. Doomed(j)' => Doomed(j)
  BY <1>2, <1>3, <1>5 DEF Doomed, Dropping, Putting
<1>9. writer'[j].pc # "closemeta" /\ \A k \in Key : Found(k) => Found(k)'
  BY <1>1, <1>3 DEF Found, cache
<1> QED BY <1>1, <1>3, <1>5, <1>6, <1>7, <1>8, <1>9, RepairMoves DEF StoreFrame, cache

LEMMA MoveBlobRepair ==
    ASSUME RInv, IInv', NEW j \in Job, NEW next \in {"closemeta", "dropmeta", "dropped"},
           MoveBlob(j, next), next = "closemeta" => writer[j].pc = "closeblob",
           next # "closemeta" => Dropping(j)
    PROVE  RInv'
<1>1. /\ writer[j] \in Writer /\ writer \in [Job -> Writer] /\ blob \in [Job -> {"none", "there", "deleted"}]
      /\ StorePlace(j) /\ UNCHANGED <<job, faults, races, entry>> /\ StoreFrame
      /\ blob' = [blob EXCEPT ![j] = "there"]
  BY DEF RInv, IInv, TypeOK, StoreInv, MoveBlob, CacheBecomes, storage
<1>2. /\ \A o \in Job \ {j} : writer'[o] = writer[o]
      /\ writer'[j].pc = next /\ writer'[j].lo = writer[j].lo /\ writer'[j].hi = writer[j].hi
  BY <1>1 DEF MoveBlob, WriterGoes, Writer
<1>3. StorePlace(j)'
  BY <1>1, <1>2 DEF StorePlace, Dropping
<1>4. blob'[j] = "there" /\ \A o \in Job : blob[o] = "there" => blob'[o] = "there"
  BY <1>1
<1>5. \A k \in Key : Found(k) => Found(k)'
  BY <1>1, <1>4 DEF Found
<1>6. Doomed(j)' => Doomed(j)
  BY <1>2 DEF Doomed, Dropping, Putting
<1>7. Undisturbed(j) => RepairPlace(j)'
  <2> SUFFICES ASSUME Undisturbed(j) PROVE RepairPlace(j)'
    OBVIOUS
  <2>1. RepairPlace(j) /\ job[j].pc # "unpack" /\ writer'[j].pc # "dropped"
    BY <1>1, <1>2 DEF RInv, RepairInv, SinceInv, Undisturbed, Doomed, Dropping, StorePlace
  <2>2. FirstFound(j) => FirstFound(j)'
    BY <1>5, FirstStays
  <2> QED BY <1>1, <1>2, <2>1, <2>2 DEF RepairPlace
<1> QED BY <1>1, <1>2, <1>3, <1>4, <1>5, <1>6, <1>7, RepairMoves DEF StoreFrame

\* The first meta that is moved makes the first key found.
LEMMA MoveMetaRepair ==
    ASSUME RInv, IInv', NEW j \in Job, NEW to \in {j, Broken}, MoveMeta(j, to),
           to = j => writer[j].pc = "closemeta",
           to = Broken => Dropping(j)
    PROVE  RInv'
<1> DEFINE w == writer[j]
<1>1. /\ w \in Writer /\ writer \in [Job -> Writer] /\ WriterPlace(j)
      /\ entry \in [Key -> Job \cup {Absent, Broken}]
      /\ StorePlace(j) /\ UNCHANGED <<job, faults, races, blob>> /\ StoreFrame
      /\ entry' = [entry EXCEPT ![NextMeta(j)] = to] /\ Given(j) \in Seq(Key)
  BY GivenFacts DEF RInv, IInv, TypeOK, WriterInv, StoreInv, MoveMeta, CacheBecomes, storage
<1>2. w.lo \in Nat /\ w.hi \in Nat /\ w.lo < w.hi /\ w.hi <= Len(Given(j))
  BY <1>1 DEF Writer, WriterPlace, MoveMeta, MetaLeft
<1>3. writer' = [writer EXCEPT ![j] = [w EXCEPT !.lo = w.lo + 1]]
  BY <1>1 DEF MoveMeta
<1>4. /\ \A o \in Job \ {j} : writer'[o] = writer[o]
      /\ writer'[j].pc = w.pc /\ writer'[j].lo = w.lo + 1 /\ writer'[j].hi = w.hi
  BY <1>1, <1>3 DEF Writer
<1>5. StorePlace(j)'
  BY <1>1, <1>4 DEF StorePlace, Dropping
<1>6. PICK n \in Key : /\ n = Given(j)[w.lo + 1]
                       /\ \A k \in Key : entry'[k] = IF k = n THEN to ELSE entry[k]
  BY <1>1, <1>2 DEF NextMeta
<1>7. ASSUME ~Doomed(j), Untouched
      PROVE  Found(n)' /\ \A k \in Key : Found(k) => Found(k)'
  <2>1. to = j /\ blob[j] = "there" /\ blob' = blob
    BY <1>1, <1>7 DEF Doomed, Dropping, RInv, BlobInv
  <2>2. entry'[n] = j /\ \A k \in Key : entry'[k] = j \/ entry'[k] = entry[k]
    BY <1>6, <2>1
  <2> QED BY <2>1, <2>2 DEF Found
<1>8. Undisturbed(j) => RepairPlace(j)'
  <2> SUFFICES ASSUME Undisturbed(j) PROVE RepairPlace(j)'
    OBVIOUS
  <2>1. ~Doomed(j) /\ Untouched /\ RepairPlace(j) /\ job[j].pc # "unpack"
    BY <1>1, <1>2 DEF RInv, RepairInv, SinceInv, Undisturbed, Dropping, StorePlace
  <2>2. FirstFound(j)'
    <3>1. CASE w.lo = 0
      BY <1>6, <1>7, <2>1, <3>1 DEF FirstFound
    <3>2. CASE w.lo > 0
      BY <1>7, <2>1, <3>2, FirstStays DEF RepairPlace
    <3> QED BY <1>2, <3>1, <3>2
  <2> QED BY <1>1, <1>4, <2>1, <2>2 DEF RepairPlace
<1>9. Doomed(j)' => Doomed(j)
  BY <1>1, <1>4 DEF Doomed, Dropping, Putting
<1>10. writer'[j].pc = "closemeta" /\ Untouched => blob'[j] = "there"
  BY <1>1, <1>4 DEF RInv, BlobInv
<1> QED BY <1>1, <1>4, <1>5, <1>7, <1>8, <1>9, <1>10, RepairMoves DEF StoreFrame

LEMMA AllMovedRepair ==
    ASSUME RInv, IInv', NEW j \in Job, NEW pc \in {"closed", "dropped"}, AllMoved(j, pc),
           pc = "closed" => writer[j].pc = "closemeta",
           pc = "dropped" => writer[j].pc = "dropmeta"
    PROVE  RInv'
<1>1. /\ writer[j] \in Writer /\ writer \in [Job -> Writer] /\ WriterPlace(j)
      /\ StorePlace(j) /\ UNCHANGED <<cache, job, faults, races>> /\ StoreFrame
  BY DEF RInv, IInv, TypeOK, WriterInv, StoreInv, AllMoved, storage
<1>2. /\ \A o \in Job \ {j} : writer'[o] = writer[o]
      /\ writer'[j].pc = pc /\ writer'[j].lo = writer[j].lo /\ writer'[j].hi = writer[j].hi
  BY <1>1 DEF AllMoved, WriterGoes, Writer
<1>3. writer[j].lo = writer[j].hi
  BY <1>1 DEF AllMoved, MetaLeft, WriterPlace, Writer
<1>4. StorePlace(j)' /\ ~Doomed(j)'
  BY <1>1, <1>2, <1>3 DEF StorePlace, Doomed, Dropping, Putting
<1>5. \A k \in Key : Found(k) => Found(k)'
  BY <1>1 DEF Found, cache
<1>6. Undisturbed(j) => RepairPlace(j)'
  <2> SUFFICES ASSUME Undisturbed(j) PROVE RepairPlace(j)'
    OBVIOUS
  <2>1. RepairPlace(j) /\ ~Doomed(j) /\ job[j].pc # "unpack"
    BY <1>1 DEF RInv, RepairInv, SinceInv, Undisturbed, StorePlace, AllMoved
  <2>2. pc # "dropped"
    BY <2>1 DEF Doomed, Dropping
  <2>3. FirstFound(j) => FirstFound(j)'
    BY <1>5, FirstStays
  <2> QED BY <1>1, <1>2, <2>1, <2>2, <2>3 DEF RepairPlace
<1> QED BY <1>1, <1>2, <1>4, <1>5, <1>6, RepairMoves DEF StoreFrame, cache

LEMMA WriterRepair == ASSUME RInv, IInv', NEW j \in Job, CloseStep(j) \/ DropStep(j) PROVE RInv'
<1>1. CASE writer[j].pc = "closeblob" /\ MoveBlob(j, "closemeta")
  BY <1>1, MoveBlobRepair
<1>2. CASE Dropping(j) /\ (MoveBlob(j, "dropmeta") \/ MoveBlob(j, "dropped"))
  BY <1>2, MoveBlobRepair
<1>3. CASE writer[j].pc = "closemeta" /\ MoveMeta(j, j)
  BY <1>3, MoveMetaRepair, KeysAssumption
<1>4. CASE Dropping(j) /\ MoveMeta(j, Broken)
  BY <1>4, MoveMetaRepair, KeysAssumption
<1>5. CASE writer[j].pc = "closemeta" /\ AllMoved(j, "closed")
  BY <1>5, AllMovedRepair
<1>6. CASE writer[j].pc = "dropmeta" /\ AllMoved(j, "dropped")
  BY <1>6, AllMovedRepair
<1> QED BY <1>1, <1>2, <1>3, <1>4, <1>5, <1>6 DEF CloseStep, DropStep, AsDropped, Dropping

\* A job that waits for its store learns that it succeeded, or has met a fault.
LEMMA StoreEndsRepair == ASSUME RInv, IInv', NEW j \in Job, StoreEnds(j) PROVE RInv'
<1>1. /\ writer[j] \in Writer /\ WriterPlace(j) /\ StorePlace(j) /\ job[j].pc = "wait"
      /\ job[j] \in JobState /\ job \in [Job -> JobState] /\ Given(j) \in Seq(Key)
      /\ UNCHANGED <<cache, writer, races>> /\ StoreFrame
  BY GivenFacts DEF RInv, IInv, TypeOK, WriterInv, StoreInv, StoreEnds, storage
<1>2. job'[j].pc = "done" /\ \A o \in Job \ {j} : job'[o] = job[o]
  <2>1. PICK rc \in {"0", "1"} : Exits(j, rc)
    BY DEF StoreEnds
  <2> QED BY <1>1, <2>1 DEF Exits, JobState
<1>3. StorePlace(j)' /\ (Doomed(j)' => Doomed(j))
  BY <1>1, <1>2 DEF StorePlace, Doomed, Dropping, Putting
<1>4. \A k \in Key : Found(k) => Found(k)'
  BY <1>1 DEF Found, cache
<1>5. CASE Fault
  BY <1>1, <1>2, <1>3, <1>5, RepairMishap DEF StoreFrame, cache
<1>6. CASE UNCHANGED faults /\ (writer[j].pc \in {"closed", "dropped"} \/ Doomed(j))
  <2>1. Undisturbed(j) => RepairPlace(j)'
    <3> SUFFICES ASSUME Undisturbed(j) PROVE RepairPlace(j)'
      OBVIOUS
    <3>1. RepairPlace(j) /\ ~Doomed(j)
      BY DEF RInv, RepairInv, SinceInv, Undisturbed
    <3>2. writer[j].pc = "closed" /\ writer[j].lo = Len(Given(j))
      BY <1>1, <1>6, <3>1 DEF RepairPlace, StorePlace
    <3>3. Given(j) # <<>> => writer[j].lo > 0
      BY <1>1, <3>2
    <3>4. FirstFound(j)
      BY <3>1, <3>3 DEF RepairPlace, FirstFound
    <3>5. FirstFound(j)'
      BY <1>4, <3>4, FirstStays
    <3> QED BY <1>1, <1>2, <3>1, <3>5 DEF RepairPlace
  <2>2. writer'[j].pc = "closemeta" /\ Untouched => blob'[j] = "there"
    BY <1>1 DEF RInv, BlobInv, cache
  <2> QED BY <1>1, <1>2, <1>3, <1>4, <1>6, <2>1, <2>2, RepairMoves DEF StoreFrame, cache
<1> QED BY <1>5, <1>6 DEF StoreEnds

\* What fails, the race for a directory included.
LEMMA LostRaceRepair ==
    ASSUME RInv, IInv', NEW j \in Job, GivesUp(j), Putting(j), StoreFrame, UNCHANGED cache,
           (Fault /\ UNCHANGED races) \/ (UNCHANGED faults /\ races' = races + 1)
    PROVE  RInv'
<1>1. /\ writer[j] \in Writer /\ writer \in [Job -> Writer] /\ StorePlace(j)
      /\ job[j] \in JobState /\ job \in [Job -> JobState]
  BY DEF RInv, IInv, TypeOK, StoreInv
<1>2. /\ \A o \in Job \ {j} : job'[o] = job[o] /\ writer'[o] = writer[o]
      /\ writer'[j].pc \in {"dropped", "undo"} /\ job'[j].pc \in {job[j].pc, "wait"}
  BY <1>1 DEF GivesUp, Writer, JobState
<1>3. StorePlace(j)'
  BY <1>1, <1>2 DEF StorePlace, Putting
<1> QED BY <1>2, <1>3, RepairMishap DEF StoreFrame, cache

LEMMA FailsRepair ==
    ASSUME RInv, IInv', NEW j \in Job, JobFails(j) \/ (StoreStart(j) /\ Fault)
    PROVE  RInv'
<1> DEFINE w == writer[j]
<1>1. /\ w \in Writer /\ writer \in [Job -> Writer] /\ StorePlace(j)
      /\ job[j] \in JobState /\ job \in [Job -> JobState]
  BY DEF RInv, IInv, TypeOK, StoreInv
<1>2. Fault /\ UNCHANGED <<blob, since, cleaner, races>>
  <2>1. CASE LookupFails(j) \/ UnpackFails(j)
    BY <2>1 DEF LookupFails, UnpackFails, RestoreFrame, storage, cache, CacheBecomes
  <2>2. CASE StoreFails(j) \/ CloseFails(j) \/ (StoreStart(j) /\ Fault)
    BY <2>2 DEF StoreFails, CloseFails, StoreStart, StoreFrame, storage, cache
  <2>3. CASE Kill(j)
    BY <2>3 DEF Kill, StoreFrame, cache
  <2> QED BY <2>1, <2>2, <2>3 DEF JobFails
<1>3. CASE LookupFails(j) \/ UnpackFails(j)
  <2>1. writer' = writer /\ job[j].pc \in {"lookup", "unpack"}
    BY <1>3 DEF LookupFails, UnpackFails, RestoreFrame
  <2>2. \A o \in Job \ {j} : job'[o] = job[o]
    BY <1>1, <1>3 DEF LookupFails, UnpackFails, Restored
  <2>3. StorePlace(j)'
    BY <1>1, <2>1 DEF StorePlace
  <2> QED BY <1>2, <2>1, <2>2, <2>3, RepairMishap
<1>4. CASE StoreStart(j) /\ Fault
  <2>1. writer' = writer /\ job[j].pc = "store" /\ Exits(j, "1")
    BY <1>1, <1>4 DEF StoreStart, Fault, RInv, IInv, TypeOK
  <2>2. job'[j].pc = "done" /\ \A o \in Job \ {j} : job'[o] = job[o]
    BY <1>1, <2>1 DEF Exits, JobState
  <2>3. StorePlace(j)'
    BY <1>1, <2>1, <2>2 DEF StorePlace
  <2> QED BY <1>2, <2>1, <2>2, <2>3, RepairMishap
<1>5. CASE StoreFails(j)
  <2>1. CASE Putting(j) /\ GivesUp(j)
    BY <1>2, <1>5, <2>1, LostRaceRepair DEF StoreFails
  <2>2. CASE JobGoes(j, "wait") /\ job[j].pc = "store"
             /\ (UNCHANGED writer \/ (writer[j].pc = "write" /\ WriterGoes(j, "dropblob")))
    <3>1. /\ \A o \in Job \ {j} : job'[o] = job[o] /\ writer'[o] = writer[o]
          /\ writer'[j].pc \in {w.pc, "dropblob"} /\ writer'[j].lo = w.lo /\ writer'[j].hi = w.hi
          /\ job'[j].pc = "wait"
      BY <1>1, <2>2 DEF JobGoes, WriterGoes, JobState, Writer
    <3>2. StorePlace(j)'
      BY <1>1, <3>1 DEF StorePlace
    <3> QED BY <1>2, <3>1, <3>2, RepairMishap
  <2> QED BY <1>5, <2>1, <2>2 DEF StoreFails
<1>6. CASE CloseFails(j)
  <2>1. /\ writer'[j].pc = "dropmeta" /\ \A o \in Job \ {j} : writer'[o] = writer[o]
        /\ UNCHANGED job /\ job[j].pc \notin {"new", "lookup", "unpack", "make"}
    BY <1>1, <1>6 DEF CloseFails, WriterGoes, Writer, StorePlace
  <2>2. StorePlace(j)'
    BY <2>1 DEF StorePlace
  <2> QED BY <1>2, <2>1, <2>2, RepairMishap
<1>7. CASE Kill(j)
  <2>1. /\ \A o \in Job \ {j} : job'[o] = job[o] /\ writer'[o] = writer[o]
        /\ job'[j].pc = "dead" /\ writer'[j].lo = w.lo /\ writer'[j].hi = w.hi
        /\ writer'[j].pc \in {w.pc, "dead", "dropblob"}
    BY <1>1, <1>7 DEF Kill, JobGoes, WriterGoes, JobState, Writer
  <2>2. StorePlace(j)'
    BY <1>1, <2>1 DEF StorePlace
  <2> QED BY <1>2, <2>1, <2>2, RepairMishap
<1> QED BY <1>3, <1>4, <1>5, <1>6, <1>7 DEF JobFails

LEMMA CleanRepair ==
    ASSUME RInv, IInv', NEW c \in Cleaner, CleanStart(c) \/ CleanStep(c) \/ CleanFails(c)
    PROVE  RInv'
<1>1. /\ cleaner[c] \in Clean /\ cleaner \in [Cleaner -> Clean]
  BY DEF RInv, IInv, TypeOK
<1>2. UNCHANGED <<job, writer, since, races>> /\ (Fault \/ UNCHANGED faults)
  BY DEF CleanStart, CleanStep, CleanRead, CleanEvict, CleanKey, CleanBlob, CleanTmp, CleanFails,
         CleanFrame
<1>3. ASSUME NEW pc \in {"evict", "ok", "err"}, CleanGoes(c, pc) PROVE cleaner'[c].pc # "new"
  BY <1>1, <1>3 DEF CleanGoes, Clean
<1>4. ASSUME WalkLeftovers(c) PROVE cleaner'[c].pc # "new"
  BY <1>1, <1>4 DEF WalkLeftovers, Clean
<1>5. CASE CleanStart(c)
  <2>1. ASSUME NEW m, cleaner' = [cleaner EXCEPT ![c] = m], m.pc # "new" PROVE cleaner'[c].pc # "new"
    BY <1>1, <2>1
  <2>2. CleanGoes(c, "err") => cleaner'[c].pc # "new"
    BY <1>3
  <2>3. ASSUME cleaner' = [cleaner EXCEPT ![c] = [[cleaner[c] EXCEPT !.old = left]
                                  EXCEPT !.pc = "read", !.read = Key,
                                         !.todo = {j \in Job : blob[j] = "there"}]]
        PROVE  cleaner'[c].pc # "new"
    BY <1>1, <2>1, <2>3 DEF Clean
  <2>4. ASSUME cleaner' = [cleaner EXCEPT ![c] = [[cleaner[c] EXCEPT !.old = left]
                                  EXCEPT !.pc = "tmp", !.tmp = left]]
        PROVE  cleaner'[c].pc # "new"
    BY <1>1, <2>1, <2>4 DEF Clean
  <2> QED BY <1>2, <1>5, <2>2, <2>3, <2>4, RepairClean DEF CleanStart
<1>6. CASE CleanRead(c)
  <2>1. ASSUME NEW k, Reads(c, k), cleaner[c].pc = "read" PROVE cleaner'[c].pc # "new"
    BY <1>1, <2>1 DEF Reads, Clean
  <2>2. ASSUME NEW todo, cleaner' = [cleaner EXCEPT ![c].pc = "evict", ![c].todo = todo]
        PROVE  cleaner'[c].pc # "new"
    BY <1>1, <2>2 DEF Clean
  <2> QED BY <1>2, <1>3, <1>6, <2>1, <2>2, RepairClean DEF CleanRead
<1>7. CASE CleanEvict(c)
  <2>1. ASSUME NEW j, cleaner' = [cleaner EXCEPT ![c].pc = "keys", ![c].victim = j, ![c].todo = @ \ {j}]
        PROVE  cleaner'[c].pc # "new"
    BY <1>1, <2>1 DEF Clean
  <2> QED BY <1>2, <1>4, <1>7, <2>1, RepairClean DEF CleanEvict
<1>8. CASE CleanKey(c) \/ CleanBlob(c)
  <2>1. ASSUME NEW e, cleaner' = [cleaner EXCEPT ![c].found = @ \ {e}], cleaner[c].pc = "keys"
        PROVE  cleaner'[c].pc # "new"
    BY <1>1, <2>1 DEF Clean
  <2> QED BY <1>2, <1>3, <1>8, <2>1, RepairClean DEF CleanKey, CleanBlob
<1>9. CASE CleanTmp(c)
  <2>1. ASSUME NEW T, NEW S, cleaner[c].pc = "tmp",
               cleaner' = [cleaner EXCEPT ![c].tmp = T, ![c].skipped = S]
        PROVE  cleaner'[c].pc # "new"
    BY <1>1, <2>1 DEF Clean
  <2>2. ASSUME NEW f, cleaner[c].pc = "tmp", cleaner' = [cleaner EXCEPT ![c].tmp = @ \ {f}]
        PROVE  cleaner'[c].pc # "new"
    BY <1>1, <2>2 DEF Clean
  <2> QED BY <1>1, <1>2, <1>3, <1>9, <2>1, <2>2, RepairClean DEF CleanTmp
<1>10. CASE CleanFails(c)
  BY <1>2, <1>3, <1>10, RepairClean DEF CleanFails
<1> QED BY <1>5, <1>6, <1>7, <1>8, <1>9, <1>10 DEF CleanStep

LEMMA NextRepair == ASSUME RInv, [Next]_vars PROVE RInv'
<1>1. IInv'
  BY NextInv DEF RInv
<1>2. ASSUME NEW j \in Job, RestoreStep(j) PROVE RInv'
  BY <1>1, <1>2, RestoreStartRepair, LookupRepair, NoKeyFoundRepair, UnpackRepair, UnpackedRepair,
     MakeRepair DEF RestoreStep
<1>3. ASSUME NEW j \in Job, StoreStep(j) \/ WriterStep(j) \/ JobFails(j) PROVE RInv'
  <2>1. CASE StoreStart(j)
    BY <1>1, <2>1, StageRepair, FailsRepair DEF StoreStart, Stages, storage
  <2>2. CASE MakeDir(j)
    BY <1>1, <2>2, StageRepair, LostRaceRepair DEF MakeDir, Stages
  <2>3. CASE MissesDir(j) \/ Put(j) \/ AddEntry(j) \/ Finish(j)
    BY <1>1, <2>3, StageRepair DEF MissesDir, Put, AddEntry, Finish, Stages, storage
  <2> QED BY <1>1, <1>3, <2>1, <2>2, <2>3, StoreEndsRepair, WriterRepair, FailsRepair
        DEF StoreStep, WriterStep
<1>4. ASSUME NEW c \in Cleaner, CleanStart(c) \/ CleanStep(c) \/ CleanFails(c) PROVE RInv'
  BY <1>1, <1>4, CleanRepair
<1>5. CASE UNCHANGED vars
  <2>1. Mishaps' = Mishaps /\ \A o \in Job : Doomed(o)' => Doomed(o)
    BY <1>5 DEF vars, Mishaps, Doomed, Dropping, Putting
  <2>2. SinceInv'
    BY <1>5, <2>1 DEF vars, RInv, SinceInv
  <2>3. StoreInv' /\ BlobInv'
    BY <1>5 DEF vars, cache, RInv, StoreInv, StorePlace, BlobInv, Untouched
  <2>4. RepairInv'
    BY <1>5, <2>1 DEF vars, cache, RInv, RepairInv, RepairPlace, Undisturbed, Untouched, FirstFound, Found
  <2> QED BY <1>1, <2>2, <2>3, <2>4 DEF RInv
<1> QED BY <1>2, <1>3, <1>4, <1>5 DEF Next

\* A job that meets no fault and no lost race for a directory leaves its first
\* key in the cache, whatever earlier failures made of it.
THEOREM Repairs == Spec => []JobsRepair
<1>1. Spec => []RInv
  BY InitRepair, NextRepair, PTL DEF Spec
<1>2. RInv => JobsRepair
  BY DEF RInv, RepairInv, RepairPlace, Undisturbed, Untouched, FirstFound, JobsRepair
<1> QED BY <1>1, <1>2, PTL

-----------------------------------------------------------------------------
(* Without faults, who fails has lost a race for a directory, or has found *)
(* what such a store has left.                                             *)

Spoilt(k) == \E o \in Job : LostRace(o) /\ GivenTo(k, o)
RunPlace(j) ==
    /\ Putting(j) => job[j].pc = "store"
    /\ Dropping(j) \/ writer[j].pc = "dropped" \/ job[j].stored = "1" => LostRace(j)
    /\ job[j].restored = "1" => Spoilt(Given(j)[job[j].i])
SpoiltInv == \A k \in Key : entry[k] = Broken => Spoilt(k)
RunInv == faults = 0 => SpoiltInv /\ \A j \in Job : RunPlace(j)

LEMMA InitRun == Init => RunInv
  BY KeysAssumption DEF Init, RunInv, RunPlace, SpoiltInv, Putting, Dropping

\* Who has lost a race has lost it for good: nobody removes a directory.
RacesStay == \A o \in Job : LostRace(o) => LostRace(o)'
LEMMA LostForGood == ASSUME TypeOK, [Next]_vars PROVE RacesStay
<1> SUFFICES ASSUME NEW o \in Job, LostRace(o) PROVE LostRace(o)'
  BY DEF RacesStay
<1>1. /\ writer \in [Job -> Writer] /\ writer[o].dir \in dirs /\ writer[o].dir # Absent
  BY KeysAssumption DEF TypeOK, LostRace
<1>2. ASSUME NEW j \in Job, RestoreStep(j) \/ LookupFails(j) \/ UnpackFails(j)
      PROVE  UNCHANGED <<writer, dirs>>
  BY <1>2 DEF RestoreStep, RestoreStart, Lookup, LookupFails, NoKeyFound, Unpack, Unpacked, UnpackFails,
     Make, RestoreFrame, storage
<1>3. ASSUME NEW j \in Job, StoreStep(j) PROVE writer'[o].dir = writer[o].dir /\ dirs' = dirs
  BY <1>1, <1>3 DEF StoreStep, StoreStart, AddEntry, Finish, StoreEnds, WriterGoes, storage, Writer
<1>4. ASSUME NEW j \in Job, MissesDir(j) \/ MakeDir(j) \/ Put(j)
      PROVE  writer'[o].dir = writer[o].dir /\ dirs \subseteq dirs'
  <2>1. CASE MissesDir(j)
    BY <1>1, <2>1 DEF MissesDir, storage
  <2>2. CASE MakeDir(j)
    BY <1>1, <2>2 DEF MakeDir, GivesUp, Writer
  <2>3. CASE Put(j)
    BY <1>1, <2>3 DEF Put, WriterGoes, storage, Writer
  <2> QED BY <1>4, <2>1, <2>2, <2>3
<1>5. ASSUME NEW j \in Job, CloseStep(j) \/ DropStep(j)
      PROVE  writer'[o].dir = writer[o].dir /\ dirs' = dirs
  BY <1>1, <1>5 DEF CloseStep, DropStep, MoveBlob, MoveMeta, AllMoved, WriterGoes, storage, Writer
<1>6. ASSUME NEW j \in Job, StoreFails(j) \/ CloseFails(j) \/ Kill(j)
      PROVE  writer'[o].dir = writer[o].dir /\ dirs' = dirs
  BY <1>1, <1>6 DEF StoreFails, CloseFails, Kill, GivesUp, WriterGoes, storage, Writer
<1>7. ASSUME NEW c \in Cleaner, CleanStart(c) \/ CleanStep(c) \/ CleanFails(c)
      PROVE  UNCHANGED <<writer, dirs>>
  BY <1>7 DEF CleanStart, CleanStep, CleanRead, CleanEvict, CleanKey, CleanBlob, CleanTmp, CleanFails,
     CleanFrame
<1>8. UNCHANGED vars => UNCHANGED <<writer, dirs>>
  BY DEF vars
<1> QED BY <1>1, <1>2, <1>3, <1>4, <1>5, <1>6, <1>7, <1>8 DEF Next, WriterStep, JobFails, LostRace

StillSpoilt(k) == \E o \in Job : LostRace(o)' /\ GivenTo(k, o)
LEMMA SpoiltForGood == ASSUME RacesStay PROVE \A k : Spoilt(k) => StillSpoilt(k)
  BY DEF RacesStay, Spoilt, StillSpoilt

\* A step of one job: what it spoils and what becomes of it.
LEMMA RunMoves ==
    ASSUME RunInv, faults = 0, RacesStay, NEW j \in Job,
           \A o \in Job \ {j} : job'[o] = job[o] /\ writer'[o] = writer[o],
           \A k \in Key : entry'[k] = Broken => entry[k] = Broken \/ Spoilt(k),
           RunPlace(j)'
    PROVE  RunInv'
<1>1. \A k \in Key : entry'[k] = Broken => Spoilt(k)'
  BY SpoiltForGood DEF RunInv, SpoiltInv, Spoilt, StillSpoilt
<1>2. ASSUME NEW o \in Job \ {j} PROVE RunPlace(o)'
  <2>1. RunPlace(o) /\ (LostRace(o) => LostRace(o)') /\ job'[o] = job[o] /\ writer'[o] = writer[o]
    BY DEF RunInv, RacesStay
  <2>2. Spoilt(Given(o)[job[o].i]) => StillSpoilt(Given(o)[job[o].i])
    BY SpoiltForGood
  <2> QED BY <2>1, <2>2 DEF RunPlace, Putting, Dropping, Spoilt, StillSpoilt
<1> QED BY <1>1, <1>2 DEF RunInv, SpoiltInv

\* A step of one job that restores.
LEMMA RestoreRun ==
    ASSUME RunInv, faults = 0, RacesStay, NEW j \in Job, job \in [Job -> JobState],
           RestoreFrame, UNCHANGED entry, job[j].pc # "store", job'[j].stored = job[j].stored,
           \A o \in Job \ {j} : job'[o] = job[o],
           job'[j].restored = "1" => \/ job[j].restored = "1" /\ job'[j].i = job[j].i
                                     \/ Spoilt(Given(j)[job'[j].i])
    PROVE  RunInv'
<1>1. RunPlace(j) /\ writer' = writer /\ (LostRace(j) => LostRace(j)')
  BY DEF RunInv, RestoreFrame, RacesStay
<1>2. job'[j].restored = "1" => StillSpoilt(Given(j)[job'[j].i])
  BY <1>1, SpoiltForGood DEF RunPlace
<1>3. RunPlace(j)'
  BY <1>1, <1>2 DEF RunPlace, Putting, Dropping, RestoreFrame, Spoilt, StillSpoilt
<1> QED BY <1>1, <1>3, RunMoves

LEMMA RestoreStepRun ==
    ASSUME IInv, RunInv, faults = 0, UNCHANGED faults, RacesStay, NEW j \in Job, RestoreStep(j)
    PROVE  RunInv'
<1> DEFINE b == job[j]
<1>1. /\ job \in [Job -> JobState] /\ b \in JobState /\ JobPlace(j)
      /\ RunPlace(j) /\ SpoiltInv /\ "1" \notin {"0", "3", "4", Absent}
  BY KeysAssumption DEF IInv, TypeOK, JobInv, RunInv
<1>2. RestoreFrame /\ b.pc # "store" /\ UNCHANGED entry
  BY DEF RestoreStep, RestoreStart, Lookup, NoKeyFound, Unpack, Unpacked, Make, cache
<1>3. ASSUME NEW rc, Restored(j, rc)
      PROVE  /\ job'[j].stored = b.stored /\ job'[j].restored = rc /\ job'[j].i = b.i
             /\ \A o \in Job \ {j} : job'[o] = job[o]
  BY <1>1, <1>3 DEF Restored, JobState
<1>4. CASE RestoreStart(j)
  <2>1. job' = [job EXCEPT ![j].pc = "lookup"]
    BY <1>4 DEF RestoreStart, Fault, IInv, TypeOK
  <2> QED BY <1>1, <1>2, <2>1, RestoreRun DEF JobState
<1>5. CASE Lookup(j)
  <2> DEFINE k == Given(j)[b.i]
  <2>1. b.i \in DOMAIN Given(j) /\ k \in Key /\ b.restored = Absent
    BY <1>1, <1>5, GivenFacts DEF Lookup, JobState, JobPlace
  <2>2. CASE job' = [job EXCEPT ![j].pc = "unpack", ![j].key = k, ![j].from = entry[k]]
    BY <1>1, <1>2, <2>1, <2>2, RestoreRun DEF JobState
  <2>3. CASE TryNextKey(j)
    BY <1>1, <1>2, <2>1, <2>3, RestoreRun DEF JobState, TryNextKey
  <2>4. CASE entry[k] = Broken /\ Restored(j, "1")
    <3>1. Spoilt(k)
      BY <1>1, <2>1, <2>4 DEF SpoiltInv
    <3> QED BY <1>1, <1>2, <1>3, <2>4, <3>1, RestoreRun
  <2> QED BY <1>5, <2>2, <2>3, <2>4 DEF Lookup
<1>6. CASE NoKeyFound(j)
  BY <1>1, <1>2, <1>3, <1>6, RestoreRun DEF NoKeyFound
<1>7. CASE Unpack(j)
  BY <1>1, <1>2, <1>7, RestoreRun DEF Unpack, JobState
<1>8. CASE Unpacked(j)
  <2>1. ExitCode(j) \in {"0", "3"}
    BY DEF ExitCode
  <2> QED BY <1>1, <1>2, <1>3, <1>8, <2>1, RestoreRun DEF Unpacked
<1>9. CASE Make(j)
  <2>1. job' = [job EXCEPT ![j].pc = "store"]
    BY <1>9 DEF Make
  <2>2. job'[j].stored = b.stored /\ job'[j].restored = b.restored /\ job'[j].i = b.i
    BY <1>1, <2>1 DEF JobState
  <2> QED BY <1>1, <1>2, <2>1, <2>2, RestoreRun
<1> QED BY <1>4, <1>5, <1>6, <1>7, <1>8, <1>9 DEF RestoreStep

\* Its store: the job is at it as long as files are put.
LEMMA StoreStepRun ==
    ASSUME IInv, RunInv, faults = 0, UNCHANGED faults, RacesStay, NEW j \in Job,
           StoreStep(j) \/ MissesDir(j) \/ MakeDir(j) \/ Put(j)
    PROVE  RunInv'
<1> DEFINE b == job[j]  w == writer[j]
<1>1. /\ job \in [Job -> JobState] /\ b \in JobState /\ writer \in [Job -> Writer] /\ w \in Writer
      /\ RunPlace(j) /\ faults \in Nat /\ dirs \subseteq Dir /\ (LostRace(j) => LostRace(j)')
  BY DEF IInv, TypeOK, RunInv, RacesStay
<1>2. UNCHANGED entry
  BY DEF StoreStep, StoreStart, MissesDir, MakeDir, Put, AddEntry, Finish, StoreEnds, cache
<1>3. b.restored = "1" => StillSpoilt(Given(j)[b.i])
  BY <1>1, SpoiltForGood DEF RunPlace
<1>4. CASE StoreStart(j)
  <2>1. /\ b.pc = "store" /\ UNCHANGED job /\ writer'[j].pc = "putblob"
        /\ \A o \in Job \ {j} : writer'[o] = writer[o]
    BY <1>1, <1>4 DEF StoreStart, Fault, WriterGoes, Writer
  <2>2. RunPlace(j)'
    BY <1>1, <1>3, <2>1 DEF RunPlace, Putting, Dropping, Spoilt, StillSpoilt
  <2> QED BY <1>2, <2>1, <2>2, RunMoves
<1>5. CASE MissesDir(j)
  <2>1. /\ UNCHANGED job /\ writer'[j].pc = w.pc /\ Putting(j)
        /\ \A o \in Job \ {j} : writer'[o] = writer[o]
    BY <1>1, <1>5 DEF MissesDir, Writer
  <2>2. RunPlace(j)'
    BY <1>1, <1>3, <2>1 DEF RunPlace, Putting, Dropping, Spoilt, StillSpoilt
  <2> QED BY <1>2, <2>1, <2>2, RunMoves
<1>6. CASE MakeDir(j)
  <2>1. CASE w.dir \in dirs /\ GivesUp(j)
    <3>1. /\ writer'[j].pc \in {"dropped", "undo"} /\ LostRace(j) /\ b.pc = "store"
          /\ job' = [job EXCEPT ![j].pc = "wait"]
          /\ \A o \in Job \ {j} : writer'[o] = writer[o]
      BY <1>1, <1>6, <2>1 DEF MakeDir, GivesUp, Writer, LostRace, RunPlace
    <3>2. RunPlace(j)'
      BY <1>1, <1>3, <3>1 DEF RunPlace, Putting, Dropping, Spoilt, StillSpoilt, JobState
    <3> QED BY <1>1, <1>2, <3>1, <3>2, RunMoves
  <2>2. CASE UNCHANGED job /\ writer' = [writer EXCEPT ![j].dir = Absent]
    <3>1. writer'[j].pc = w.pc /\ Putting(j) /\ \A o \in Job \ {j} : writer'[o] = writer[o]
      BY <1>1, <1>6, <2>2 DEF MakeDir, Writer
    <3>2. RunPlace(j)'
      BY <1>1, <1>3, <2>2, <3>1 DEF RunPlace, Putting, Dropping, Spoilt, StillSpoilt
    <3> QED BY <1>2, <2>2, <3>1, <3>2, RunMoves
  <2> QED BY <1>6, <2>1, <2>2 DEF MakeDir
<1>7. CASE Put(j)
  <2>1. b.pc = "store" /\ Putting(j) /\ UNCHANGED job
    BY <1>1, <1>7 DEF Put, RunPlace
  <2>2. writer'[j].pc \in {"putmeta", "write"} /\ \A o \in Job \ {j} : writer'[o] = writer[o]
    <3>1. CASE AllPut(j)
      BY <1>1, <1>7, <2>1, <3>1 DEF Put, WriterGoes, Writer
    <3>2. CASE ~AllPut(j)
      BY <1>1, <1>7, <3>2 DEF Put, Writer
    <3> QED BY <3>1, <3>2
  <2>3. RunPlace(j)'
    BY <1>1, <1>3, <2>1, <2>2 DEF RunPlace, Putting, Dropping, Spoilt, StillSpoilt
  <2> QED BY <1>2, <2>1, <2>2, <2>3, RunMoves
<1>8. CASE AddEntry(j) \/ Finish(j)
  <2>1. /\ b.pc = "store" /\ w.pc = "write" /\ writer'[j].pc \in {"write", "closeblob"}
        /\ \A o \in Job \ {j} : writer'[o] = writer[o]
    BY <1>1, <1>8 DEF AddEntry, Finish, WriterGoes, Writer
  <2>2. UNCHANGED job \/ JobGoes(j, "wait")
    BY <1>8 DEF AddEntry, Finish
  <2>3. /\ \A o \in Job \ {j} : job'[o] = job[o]
        /\ job'[j].stored = b.stored /\ job'[j].restored = b.restored /\ job'[j].i = b.i
    BY <1>1, <2>2 DEF JobGoes, JobState
  <2>4. RunPlace(j)'
    BY <1>1, <1>3, <2>1, <2>3 DEF RunPlace, Putting, Dropping, Spoilt, StillSpoilt
  <2> QED BY <1>2, <2>1, <2>3, <2>4, RunMoves
<1>9. CASE StoreEnds(j)
  <2>1. b.pc = "wait" /\ UNCHANGED writer
    BY <1>9 DEF StoreEnds
  <2>2. PICK rc \in {"0", "1"} : Exits(j, rc) /\ (rc = "1" => LostRace(j))
    BY <1>1, <1>9, <2>1 DEF StoreEnds, Doomed, RunPlace, Fault
  <2>3. /\ \A o \in Job \ {j} : job'[o] = job[o]
        /\ job'[j].stored = rc /\ job'[j].restored = b.restored /\ job'[j].i = b.i
    BY <1>1, <2>2 DEF Exits, JobState
  <2>4. RunPlace(j)'
    BY <1>1, <1>3, <2>1, <2>2, <2>3 DEF RunPlace, Putting, Dropping, Spoilt, StillSpoilt
  <2> QED BY <1>2, <2>1, <2>3, <2>4, RunMoves
<1> QED BY <1>4, <1>5, <1>6, <1>7, <1>8, <1>9 DEF StoreStep

\* Its writer: only one that has lost a race is dropped, and breaks its keys.
LEMMA WriterRun ==
    ASSUME IInv, RunInv, faults = 0, UNCHANGED faults, RacesStay, NEW j \in Job,
           CloseStep(j) \/ DropStep(j)
    PROVE  RunInv'
<1> DEFINE w == writer[j]
<1>1. /\ writer \in [Job -> Writer] /\ w \in Writer /\ WriterPlace(j) /\ Given(j) \in Seq(Key)
      /\ RunPlace(j) /\ (LostRace(j) => LostRace(j)')
      /\ entry \in [Key -> Job \cup {Absent, Broken}] /\ UNCHANGED job
  BY GivenFacts DEF IInv, TypeOK, WriterInv, RunInv, RacesStay, CloseStep, DropStep, MoveBlob, MoveMeta,
     AllMoved
<1>2. /\ \A o \in Job \ {j} : writer'[o] = writer[o]
      /\ writer'[j].pc \in {"closemeta", "closed", "dropmeta", "dropped", "undo"}
      /\ writer'[j].pc \in {"dropmeta", "dropped", "undo"} => Dropping(j)
  BY <1>1 DEF CloseStep, DropStep, MoveBlob, MoveMeta, AllMoved, WriterGoes, Writer, Dropping
<1>3. \A k \in Key : entry'[k] = Broken => entry[k] = Broken \/ Spoilt(k)
  <2>1. CASE UNCHANGED entry
    BY <2>1
  <2>2. CASE MoveMeta(j, Broken) /\ Dropping(j)
    <3>1. w.lo \in Nat /\ w.hi \in Nat /\ w.lo < w.hi /\ w.hi <= Len(Given(j))
      BY <1>1, <2>2 DEF Writer, WriterPlace, MoveMeta, MetaLeft
    <3>2. Spoilt(NextMeta(j)) /\ LostRace(j)
      BY <1>1, <2>2, <3>1 DEF NextMeta, Spoilt, GivenTo, RunPlace
    <3> QED BY <1>1, <2>2, <3>2 DEF MoveMeta, CacheBecomes
  <2>3. CASE MoveMeta(j, j)
    BY <1>1, <2>3, KeysAssumption DEF MoveMeta, CacheBecomes
  <2> QED BY <2>1, <2>2, <2>3 DEF CloseStep, DropStep, MoveBlob, AllMoved, CacheBecomes, cache,
             AsDropped, Dropping
<1>4. job[j].restored = "1" => StillSpoilt(Given(j)[job[j].i])
  BY <1>1, SpoiltForGood DEF RunPlace
<1>5. RunPlace(j)'
  BY <1>1, <1>2, <1>4 DEF RunPlace, Putting, Dropping, Spoilt, StillSpoilt
<1> QED BY <1>1, <1>2, <1>3, <1>5, RunMoves

\* Cleans take keys away, and break none.
LEMMA CleanRun ==
    ASSUME IInv, RunInv, faults = 0, RacesStay, UNCHANGED <<job, writer>>,
           \A k \in Key : entry'[k] = Broken => entry[k] = Broken
    PROVE  RunInv'
<1>1. \A k \in Key : entry'[k] = Broken => Spoilt(k)'
  BY SpoiltForGood DEF RunInv, SpoiltInv, Spoilt, StillSpoilt
<1>2. ASSUME NEW o \in Job PROVE RunPlace(o)'
  <2>1. RunPlace(o) /\ (LostRace(o) => LostRace(o)')
    BY DEF RunInv, RacesStay
  <2>2. Spoilt(Given(o)[job[o].i]) => StillSpoilt(Given(o)[job[o].i])
    BY SpoiltForGood
  <2> QED BY <2>1, <2>2 DEF RunPlace, Putting, Dropping, Spoilt, StillSpoilt
<1> QED BY <1>1, <1>2 DEF RunInv, SpoiltInv

LEMMA NextRun == ASSUME IInv, RunInv, [Next]_vars PROVE RunInv'
<1> SUFFICES ASSUME faults' = 0 PROVE RunInv'
  BY DEF RunInv
<1>1. faults \in Nat /\ ~Fault
  BY SizeAssumption DEF IInv, TypeOK, Fault
<1>2. RacesStay
  BY LostForGood DEF IInv
<1>3. ASSUME NEW j \in Job, RestoreStep(j) PROVE RunInv'
  <2>1. UNCHANGED faults
    BY <1>1, <1>3 DEF RestoreStep, RestoreStart, Lookup, NoKeyFound, Unpack, Unpacked, Make
  <2> QED BY <1>2, <1>3, <2>1, RestoreStepRun
<1>4. ASSUME NEW j \in Job, StoreStep(j) \/ WriterStep(j) PROVE RunInv'
  <2>1. UNCHANGED faults
    BY <1>1, <1>4 DEF StoreStep, WriterStep, StoreStart, MissesDir, MakeDir, Put, AddEntry, Finish,
       StoreEnds, CloseStep, DropStep, MoveBlob, MoveMeta, AllMoved
  <2> QED BY <1>2, <1>4, <2>1, StoreStepRun, WriterRun DEF WriterStep
<1>5. \A j \in Job : ~JobFails(j)
  BY <1>1 DEF JobFails, LookupFails, UnpackFails, StoreFails, CloseFails, Kill
<1>6. ASSUME NEW c \in Cleaner, CleanStart(c) \/ CleanStep(c) \/ CleanFails(c) PROVE RunInv'
  <2>1. UNCHANGED <<job, writer, faults>>
    BY <1>1, <1>6 DEF CleanStart, CleanStep, CleanRead, CleanEvict, CleanKey, CleanBlob, CleanTmp,
       CleanFails, CleanFrame
  <2>2. \A k \in Key : entry'[k] = Broken => entry[k] = Broken
    <3>1. entry \in [Key -> Job \cup {Absent, Broken}] /\ Absent # Broken
      BY KeysAssumption DEF IInv, TypeOK
    <3>2. CASE CleanKey(c)
      BY <3>1, <3>2 DEF CleanKey, CacheBecomes, cache
    <3>3. CASE ~CleanKey(c)
      BY <1>6, <3>3 DEF CleanStart, CleanStep, CleanRead, CleanEvict, CleanBlob, CleanTmp, CleanFails,
         CacheBecomes, cache
    <3> QED BY <3>2, <3>3
  <2> QED BY <1>2, <2>1, <2>2, CleanRun
<1>7. CASE UNCHANGED vars
  <2>1. UNCHANGED <<job, writer, entry, faults>>
    BY <1>7 DEF vars, cache
  <2> QED BY <1>2, <2>1, CleanRun
<1> QED BY <1>3, <1>4, <1>5, <1>6, <1>7 DEF Next

\* If no operation fails, a store fails only if it has lost a race for a
\* directory, and a restore only on a key of such a store.
THEOREM RunsThrough == Spec => []JobsRunThrough
<1>1. IInv /\ RunInv => JobsRunThrough
  BY DEF RunInv, RunPlace, Spoilt, GivenTo, JobsRunThrough
<1>2. Init => IInv /\ RunInv
  BY InitInv, InitRun
<1>3. IInv /\ RunInv /\ [Next]_vars => IInv' /\ RunInv'
  BY NextInv, NextRun
<1> QED BY <1>1, <1>2, <1>3, PTL DEF Spec
=============================================================================
