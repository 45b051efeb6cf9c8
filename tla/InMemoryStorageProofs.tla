------------------------- MODULE InMemoryStorageProofs -------------------------
(***************************************************************************)
(* Theorems about InMemoryStorage, for any tree of paths and any number of *)
(* writers and readers.                                                    *)
(***************************************************************************)
EXTENDS InMemoryStorage, TLAPS

\* A writer has the node its own put created; nodes in the tree have one.
WriterPlace(w) ==
    /\ writer[w].pc \in {"write", "ok", "dropped"} => writer[w].node = w
    /\ writer[w].pc \in {"new", "err"} => writer[w].node = None
    /\ writer[w].pc = "ok" => content[w] = Whole
TreeInv == \A p \in Path : IsFile(p) => writer[tree[p]].node = tree[p]
\* A reader never gets ahead of what has been written to its node.
ReaderPlace(r) ==
    /\ reader[r].pc = "new" => reader[r].offset = 0 /\ reader[r].got = 0 /\ ~reader[r].final
    /\ reader[r].pc = "none" => ~reader[r].final
    /\ reader[r].pc \in {"read", "done"} => reader[r].node \in Writer
    /\ reader[r].pc = "read" =>
          reader[r].got = reader[r].offset /\ reader[r].got <= content[reader[r].node]
    /\ reader[r].final =>
          writer[reader[r].node].pc = "ok" /\ reader[r].hint = Whole
    /\ reader[r].pc = "done" /\ reader[r].final => reader[r].got = Whole
IInv ==
    /\ TypeOK /\ TreeInv
    /\ \A w \in Writer : WriterPlace(w)
    /\ \A r \in Reader : ReaderPlace(r)

LEMMA InitInv == Init => IInv
<1> SUFFICES ASSUME Init PROVE IInv
  OBVIOUS
<1>1. TypeOK
  BY NodeAssumption DEF Init, TypeOK, WriterCall, ReaderCall
<1>2. TreeInv
  BY NodeAssumption DEF Init, TreeInv, IsFile
<1>3. \A w \in Writer : WriterPlace(w)
  BY DEF Init, WriterPlace
<1>4. \A r \in Reader : ReaderPlace(r)
  BY DEF Init, ReaderPlace
<1> QED BY <1>1, <1>2, <1>3, <1>4 DEF IInv

\* The walk to a path creates directories, and takes no file away.
LEMMA Walk ==
    ASSUME TypeOK, NEW p \in Path
    PROVE  /\ WithDirs(p) \in [Path -> Writer \cup {Folder, None}]
           /\ \A q \in Path : WithDirs(p)[q] \in Writer <=> IsFile(q)
           /\ \A q \in Path : IsFile(q) => WithDirs(p)[q] = tree[q]
           /\ \A q \in Path : tree[q] # None => WithDirs(p)[q] = tree[q]
  BY NodeAssumption DEF TypeOK, WithDirs, Walked, IsFile

LEMMA PutInv == ASSUME IInv, NEW w \in Writer, Put(w) PROVE IInv'
<1> PICK p \in Path :
        \/ ~Blocked(p) /\ tree[p] # Folder /\ CreateFile(w, p)
        \/ /\ Blocked(p) \/ tree[p] = Folder
           /\ tree' = WithDirs(p)
           /\ writer' = [writer EXCEPT ![w].pc = "err", ![w].path = p]
           /\ UNCHANGED content
  BY DEF Put
<1>1. /\ TypeOK /\ TreeInv /\ writer \in [Writer -> WriterCall] /\ writer[w] \in WriterCall
      /\ WriterPlace(w) /\ writer[w].pc = "new" /\ writer[w].node = None
      /\ reader' = reader /\ content' = content
  BY DEF IInv, TypeOK, Put, WriterPlace, CreateFile
<1>2. /\ WithDirs(p) \in [Path -> Writer \cup {Folder, None}]
      /\ \A q \in Path : WithDirs(p)[q] \in Writer <=> IsFile(q)
      /\ \A q \in Path : IsFile(q) => WithDirs(p)[q] = tree[q]
  BY <1>1, Walk
<1>3. \A q \in Path : IsFile(q) => tree[q] # w
  BY <1>1, NodeAssumption DEF TreeInv
<1>4. /\ writer' \in [Writer -> WriterCall]
      /\ \A v \in Writer \ {w} : writer'[v] = writer[v]
      /\ \/ writer'[w].pc = "write" /\ writer'[w].node = w
         \/ writer'[w].pc = "err" /\ writer'[w].node = None
  <2>1. CASE CreateFile(w, p)
    <3>1. [pc |-> "write", path |-> p, node |-> w] \in WriterCall
      BY DEF WriterCall
    <3> QED BY <1>1, <2>1, <3>1 DEF CreateFile
  <2>2. CASE writer' = [writer EXCEPT ![w].pc = "err", ![w].path = p]
    <3>1. [writer[w] EXCEPT !.pc = "err", !.path = p] \in WriterCall
      BY <1>1 DEF WriterCall
    <3> QED BY <1>1, <2>2, <3>1 DEF WriterCall
  <2> QED BY <2>1, <2>2
<1>5. /\ tree' \in [Path -> Writer \cup {Folder, None}]
      /\ \A q \in Path : tree'[q] \in Writer =>
            \/ tree'[q] = tree[q] /\ IsFile(q)
            \/ tree'[q] = w /\ writer'[w].node = w
  <2>1. CASE CreateFile(w, p)
    BY <1>1, <1>2, <2>1 DEF CreateFile
  <2>2. CASE tree' = WithDirs(p)
    BY <1>2, <2>2
  <2> QED BY <2>1, <2>2
<1>6. TypeOK'
  BY <1>1, <1>4, <1>5 DEF TypeOK
<1>7. TreeInv'
  BY <1>1, <1>3, <1>4, <1>5 DEF TreeInv, IsFile
<1>8. \A v \in Writer : WriterPlace(v)'
  BY <1>1, <1>4 DEF IInv, WriterPlace
<1>9. \A r \in Reader : ReaderPlace(r)'
  <2> SUFFICES ASSUME NEW r \in Reader PROVE ReaderPlace(r)'
    OBVIOUS
  <2>1. ReaderPlace(r) /\ reader[r] \in ReaderCall
    BY <1>1 DEF IInv, TypeOK
  <2>2. reader[r].final => reader[r].node \in Writer \ {w}
    BY <1>1, <2>1 DEF ReaderPlace, ReaderCall
  <2> QED BY <1>1, <1>4, <2>1, <2>2 DEF ReaderPlace
<1> QED BY <1>6, <1>7, <1>8, <1>9 DEF IInv

\* A writer writes to its own node, which only grows.
LEMMA WriteInv == ASSUME IInv, NEW w \in Writer, Write(w) PROVE IInv'
<1>1. /\ TypeOK /\ writer[w].pc = "write" /\ writer[w].node = w /\ content[w] < Whole
      /\ content \in [Writer -> 0..Whole] /\ UNCHANGED <<tree, writer, reader>>
  BY DEF IInv, TypeOK, Write, WriterPlace
<1>2. content' = [content EXCEPT ![w] = content[w] + 1] /\ content[w] + 1 \in 0..Whole
  BY <1>1, NodeAssumption DEF Write
<1>3. content' \in [Writer -> 0..Whole] /\ \A v \in Writer : content[v] <= content'[v]
  BY <1>1, <1>2, NodeAssumption
<1>4. TypeOK' /\ TreeInv'
  BY <1>1, <1>3 DEF IInv, TypeOK, TreeInv, IsFile
<1>5. \A v \in Writer : WriterPlace(v)'
  BY <1>1, <1>2 DEF IInv, WriterPlace
<1>6. \A r \in Reader : ReaderPlace(r)'
  <2> SUFFICES ASSUME NEW r \in Reader PROVE ReaderPlace(r)'
    OBVIOUS
  <2>1. ReaderPlace(r) /\ reader[r].got \in 0..Whole
    BY <1>1 DEF IInv, TypeOK, ReaderCall
  <2>2. \A v \in Writer : content[v] \in 0..Whole /\ content'[v] \in 0..Whole
    BY <1>1, <1>3
  <2>3. reader[r].pc = "read" => reader[r].got <= content'[reader[r].node]
    BY <1>3, <2>1, <2>2, NodeAssumption DEF ReaderPlace
  <2> QED BY <1>1, <2>1, <2>3 DEF ReaderPlace
<1> QED BY <1>4, <1>5, <1>6 DEF IInv

LEMMA EndInv == ASSUME IInv, NEW w \in Writer, Close(w) \/ Drop(w) PROVE IInv'
<1>1. /\ TypeOK /\ writer \in [Writer -> WriterCall] /\ writer[w].pc = "write"
      /\ writer[w].node = w /\ UNCHANGED <<tree, content, reader>>
  BY DEF IInv, TypeOK, Close, Drop, WriterPlace
<1>2. /\ writer' \in [Writer -> WriterCall] /\ writer'[w].node = w
      /\ \A v \in Writer \ {w} : writer'[v] = writer[v]
      /\ writer'[w].pc = "dropped" \/ (writer'[w].pc = "ok" /\ content[w] = Whole)
  BY <1>1 DEF Close, Drop, WriterCall
<1>3. TypeOK' /\ TreeInv'
  BY <1>1, <1>2 DEF IInv, TypeOK, TreeInv, IsFile
<1>4. \A v \in Writer : WriterPlace(v)'
  BY <1>1, <1>2 DEF IInv, WriterPlace
<1>5. \A r \in Reader : ReaderPlace(r)'
  <2> SUFFICES ASSUME NEW r \in Reader PROVE ReaderPlace(r)'
    OBVIOUS
  <2>1. ReaderPlace(r) /\ reader[r] \in ReaderCall
    BY <1>1 DEF IInv, TypeOK
  <2>2. reader[r].final => reader[r].node \in Writer \ {w}
    BY <1>1, <2>1 DEF ReaderPlace, ReaderCall
  <2> QED BY <1>1, <1>2, <2>1, <2>2 DEF ReaderPlace
<1> QED BY <1>3, <1>4, <1>5 DEF IInv

LEMMA GetInv == ASSUME IInv, NEW r \in Reader, Get(r) PROVE IInv'
<1>1. /\ TypeOK /\ TreeInv /\ reader \in [Reader -> ReaderCall] /\ reader[r] \in ReaderCall
      /\ ReaderPlace(r) /\ reader[r].pc = "new" /\ UNCHANGED <<tree, content, writer>>
      /\ content \in [Writer -> 0..Whole]
  BY DEF IInv, TypeOK, Get
<1>2. /\ reader' \in [Reader -> ReaderCall] /\ ReaderPlace(r)'
      /\ \A q \in Reader \ {r} : reader'[q] = reader[q]
  <2>1. ASSUME NEW p \in Path, IsFile(p),
               reader' = [reader EXCEPT ![r].pc = "read", ![r].node = tree[p],
                   ![r].hint = content[tree[p]], ![r].final = writer[tree[p]].pc = "ok"]
        PROVE  /\ reader' \in [Reader -> ReaderCall] /\ ReaderPlace(r)'
               /\ \A q \in Reader \ {r} : reader'[q] = reader[q]
    <3> DEFINE n == tree[p]
               f == writer[n].pc = "ok"
    <3>1. n \in Writer /\ content[n] \in 0..Whole /\ f \in BOOLEAN
      BY <1>1, <2>1 DEF IsFile
    <3>2. f => content[n] = Whole
      BY <3>1 DEF IInv, WriterPlace
    <3> HIDE DEF n, f
    <3>3. [reader[r] EXCEPT !.pc = "read", !.node = n, !.hint = content[n], !.final = f] \in ReaderCall
      BY <1>1, <3>1 DEF ReaderCall
    <3>4. /\ reader' = [reader EXCEPT ![r] =
                 [reader[r] EXCEPT !.pc = "read", !.node = n, !.hint = content[n], !.final = f]]
          /\ f => writer[n].pc = "ok"
      BY <1>1, <2>1 DEF n, f
    <3>5. /\ reader'[r].pc = "read" /\ reader'[r].node = n /\ reader'[r].hint = content[n]
          /\ reader'[r].final = f /\ reader'[r].got = 0 /\ reader'[r].offset = 0
      BY <1>1, <3>4 DEF ReaderCall, ReaderPlace
    <3>6. ReaderPlace(r)'
      BY <1>1, <3>1, <3>2, <3>4, <3>5, NodeAssumption DEF ReaderPlace
    <3> QED BY <1>1, <3>3, <3>4, <3>6
  <2>2. CASE reader' = [reader EXCEPT ![r].pc = "none"]
    BY <1>1, <2>2 DEF ReaderCall, ReaderPlace
  <2> QED BY <2>1, <2>2 DEF Get
<1>3. \A q \in Reader : ReaderPlace(q)'
  BY <1>1, <1>2 DEF IInv, ReaderPlace
<1>4. TypeOK' /\ TreeInv' /\ \A w \in Writer : WriterPlace(w)'
  BY <1>1, <1>2 DEF IInv, TypeOK, TreeInv, IsFile, WriterPlace
<1> QED BY <1>3, <1>4 DEF IInv

\* The end of a node is its content, which a reader has then got.
LEMMA ReadInv == ASSUME IInv, NEW r \in Reader, Read(r) PROVE IInv'
<1> DEFINE n == reader[r].node
<1>1. /\ TypeOK /\ TreeInv /\ reader \in [Reader -> ReaderCall] /\ reader[r] \in ReaderCall
      /\ ReaderPlace(r) /\ reader[r].pc = "read" /\ UNCHANGED <<tree, content, writer>>
      /\ n \in Writer /\ content[n] \in 0..Whole
  BY DEF IInv, TypeOK, Read, ReaderPlace
<1>2. /\ reader[r].got = reader[r].offset /\ reader[r].got <= content[n]
      /\ reader[r].got \in 0..Whole /\ reader[r].offset + 1 \in 0..(Whole + 1)
  BY <1>1, NodeAssumption DEF ReaderPlace, ReaderCall
<1>3. /\ reader' \in [Reader -> ReaderCall] /\ ReaderPlace(r)'
      /\ \A q \in Reader \ {r} : reader'[q] = reader[q]
  <2>1. CASE ~AtEnd(r) /\ reader' = [reader EXCEPT ![r].offset = @ + 1, ![r].got = @ + 1]
    <3>1. reader[r].got + 1 \in 0..Whole /\ reader[r].got + 1 <= content[n]
      BY <1>1, <1>2, <2>1, NodeAssumption DEF AtEnd
    <3>2. reader' = [reader EXCEPT ![r] =
              [reader[r] EXCEPT !.offset = reader[r].offset + 1, !.got = reader[r].got + 1]]
      BY <1>1, <2>1
    <3>3. [reader[r] EXCEPT !.offset = reader[r].offset + 1, !.got = reader[r].got + 1] \in ReaderCall
      BY <1>1, <1>2, <3>1 DEF ReaderCall
    <3>4. /\ reader'[r].pc = "read" /\ reader'[r].node = n /\ reader'[r].hint = reader[r].hint
          /\ reader'[r].final = reader[r].final /\ reader'[r].got = reader[r].got + 1
          /\ reader'[r].offset = reader[r].offset + 1
      BY <1>1, <3>2 DEF ReaderCall
    <3> QED BY <1>1, <1>2, <3>1, <3>2, <3>3, <3>4 DEF ReaderPlace
  <2>2. CASE AtEnd(r) /\ reader' = [reader EXCEPT ![r].offset = @ + 1, ![r].pc = "done"]
    <3>1. reader[r].got = content[n]
      BY <1>1, <1>2, <2>2, NodeAssumption DEF AtEnd
    <3>2. reader' = [reader EXCEPT ![r] =
              [reader[r] EXCEPT !.offset = reader[r].offset + 1, !.pc = "done"]]
      BY <1>1, <2>2
    <3>3. [reader[r] EXCEPT !.offset = reader[r].offset + 1, !.pc = "done"] \in ReaderCall
      BY <1>1, <1>2 DEF ReaderCall
    <3>4. /\ reader'[r].pc = "done" /\ reader'[r].node = n /\ reader'[r].hint = reader[r].hint
          /\ reader'[r].final = reader[r].final /\ reader'[r].got = reader[r].got
      BY <1>1, <3>2 DEF ReaderCall
    <3>5. reader[r].final => content[n] = Whole
      BY <1>1 DEF IInv, ReaderPlace, WriterPlace
    <3>6. ReaderPlace(r)'
      BY <1>1, <3>1, <3>4, <3>5 DEF ReaderPlace
    <3> QED BY <1>1, <3>2, <3>3, <3>6
  <2> QED BY <2>1, <2>2 DEF Read
<1>4. \A q \in Reader : ReaderPlace(q)'
  BY <1>1, <1>3 DEF IInv, ReaderPlace
<1>5. TypeOK' /\ TreeInv' /\ \A w \in Writer : WriterPlace(w)'
  BY <1>1, <1>3 DEF IInv, TypeOK, TreeInv, IsFile, WriterPlace
<1> QED BY <1>4, <1>5 DEF IInv

\* Only the path itself goes: below it there was nothing.
LEMMA Deleting ==
    ASSUME TypeOK, NEW p \in Path, Delete(p)
    PROVE  /\ tree' \in [Path -> Writer \cup {Folder, None}]
           /\ tree'[p] = None /\ \A q \in Path \ {p} : tree'[q] = tree[q]
  BY DEF TypeOK, Delete, Deletable, Without

LEMMA DeleteInv == ASSUME IInv, NEW p \in Path, Delete(p) PROVE IInv'
<1>1. TypeOK /\ UNCHANGED <<content, writer, reader>>
  BY DEF IInv, Delete
<1>2. TypeOK' /\ TreeInv'
  BY <1>1, Deleting, NodeAssumption DEF IInv, TypeOK, TreeInv, IsFile
<1> QED BY <1>1, <1>2 DEF IInv, WriterPlace, ReaderPlace

LEMMA NextInv == ASSUME IInv, [Next]_vars PROVE IInv'
<1>1. CASE UNCHANGED vars
  BY <1>1 DEF IInv, TypeOK, TreeInv, IsFile, WriterPlace, ReaderPlace, vars
<1> QED BY <1>1, PutInv, WriteInv, EndInv, GetInv, ReadInv, DeleteInv DEF Next

THEOREM Invariance == Spec => []IInv
  BY InitInv, NextInv, PTL DEF Spec

\* Type correctness.
THEOREM TypeCorrect == Spec => []TypeOK
<1>1. IInv => TypeOK
  BY DEF IInv
<1> QED BY <1>1, Invariance, PTL

\* A file that was closed when it was opened is read to its end, and has the
\* size that was promised, even if its path is stored again or deleted.
THEOREM ClosedReadWhole == Spec => []ClosedIsReadWhole
<1>1. IInv => ClosedIsReadWhole
  <2> SUFFICES ASSUME IInv, NEW r \in Reader, reader[r].pc = "done", reader[r].final
               PROVE  reader[r].got = Whole /\ reader[r].hint = Whole
    BY DEF ClosedIsReadWhole
  <2> QED BY DEF IInv, ReaderPlace
<1> QED BY <1>1, Invariance, PTL

\* Writers of the same path each write to a file of their own.
THEOREM WritersApart == Spec => []WritersDoNotMix
<1>1. IInv => WritersDoNotMix
  <2> SUFFICES ASSUME IInv PROVE WritersDoNotMix
    OBVIOUS
  <2>1. \A w \in Writer : writer[w].node \in {w, None} /\ (writer[w].pc = "ok" => writer[w].node = w)
    BY DEF IInv, TypeOK, WriterCall, WriterPlace
  <2> QED BY <2>1, NodeAssumption DEF IInv, WriterPlace, WritersDoNotMix
<1> QED BY <1>1, Invariance, PTL

\* A file goes only when its own path is deleted, and then nothing else goes, or
\* when its own path is put again (DirNode::delete, DirNode::create_file and
\* DirNode::get_or_insert_dir).
THEOREM FilesRemain == Spec => FilesStay
<1> DEFINE Alone(p) == \A q \in Path \ {p} : tree[q] # None => tree'[q] = tree[q]
           PutAt(p) == \E w \in Writer :
                          tree'[p] = w /\ writer[w].pc = "new" /\ writer'[w].path = p
           Stay == \A p \in Path : IsFile(p) /\ tree'[p] # tree[p] =>
                      Alone(p) /\ (tree'[p] # None => PutAt(p))
<1>1. IInv /\ [Next]_vars => [Stay]_vars
  <2> SUFFICES ASSUME IInv, Next, NEW p \in Path, IsFile(p), tree'[p] # tree[p]
               PROVE  Alone(p) /\ (tree'[p] # None => PutAt(p))
    BY DEF Stay
  <2>1. TypeOK
    BY DEF IInv
  <2>2. ASSUME NEW w \in Writer, Put(w) PROVE Alone(p) /\ PutAt(p)
    <3>1. writer[w].pc = "new" /\ writer \in [Writer -> WriterCall]
      BY <2>1, <2>2 DEF Put, TypeOK
    <3>2. PICK o \in Path :
             \/ tree' = WithDirs(o)
             \/ /\ tree' = [WithDirs(o) EXCEPT ![o] = w]
                /\ writer' = [writer EXCEPT ![w] = [pc |-> "write", path |-> o, node |-> w]]
      BY <2>2 DEF Put, CreateFile
    <3>3. /\ WithDirs(o) \in [Path -> Writer \cup {Folder, None}]
          /\ \A q \in Path : IsFile(q) => WithDirs(o)[q] = tree[q]
          /\ \A q \in Path : tree[q] # None => WithDirs(o)[q] = tree[q]
      BY <2>1, Walk
    <3>4. /\ o = p /\ tree' = [WithDirs(p) EXCEPT ![p] = w]
          /\ writer' = [writer EXCEPT ![w] = [pc |-> "write", path |-> p, node |-> w]]
      BY <3>2, <3>3
    <3>5. Alone(p)
      BY <3>3, <3>4
    <3>6. tree'[p] = w /\ writer'[w].path = p
      BY <3>1, <3>3, <3>4
    <3> QED BY <3>1, <3>5, <3>6
  <2>3. ASSUME NEW o \in Path, Delete(o) PROVE Alone(p) /\ tree'[p] = None
    BY <2>1, <2>3, Deleting
  <2>4. CASE tree' = tree
    BY <2>4
  <2> QED BY <2>2, <2>3, <2>4 DEF Next, Write, Close, Drop, Get, Read
<1>2. [Stay]_vars =>
         [\A p \in Path : IsFile(p) /\ tree'[p] # tree[p] =>
             /\ \A q \in Path \ {p} : tree[q] # None => tree'[q] = tree[q]
             /\ tree'[p] # None => \E w \in Writer :
                   tree'[p] = w /\ writer[w].pc = "new" /\ writer'[w].path = p]_vars
  OBVIOUS
<1> QED BY <1>1, <1>2, Invariance, PTL DEF Spec, FilesStay
=============================================================================
