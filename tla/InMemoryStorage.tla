---------------------------- MODULE InMemoryStorage ----------------------------
(***************************************************************************)
(* InMemoryStorage (btdt/src/storage/in_memory): a tree of directories and *)
(* file nodes under one lock, so that put, get and delete are atomic.  The *)
(* writers and readers they return hold on to their node and use it        *)
(* outside of that lock, whatever becomes of the path.                     *)
(*                                                                         *)
(* A Writer is one call of put and the FileWriter it returns, which also   *)
(* names the node that put creates; a Reader is one call of get and the    *)
(* FileReader it returns.                                                  *)
(***************************************************************************)
EXTENDS Naturals, FiniteSets

CONSTANTS
    Path, Above,  \* Above[p]: the directories above p
    Writer, Reader,
    Whole,        \* writes it takes to write a file
    Folder, None  \* a directory; no such file

ASSUME TreeAssumption ==
    /\ Above \in [Path -> SUBSET Path]
    /\ \A p \in Path : p \notin Above[p] /\ \A q \in Above[p] : Above[q] \subseteq Above[p]
ASSUME NodeAssumption ==
    /\ Whole \in Nat
    /\ Folder \notin Writer /\ None \notin Writer /\ Folder # None

VARIABLES
    tree,     \* tree[p]: the directory or file node at p
    content,  \* content[n]: how much has been written to a node, and by whom
    writer, reader
vars == <<tree, content, writer, reader>>

\* The node a writer has is the one its put created.
WriterCall == [pc : {"new", "write", "ok", "dropped", "err"}, path : Path \cup {None},
               node : Writer \cup {None}]
\* final: the file was closed when it was opened; hint: its size then;
\* offset runs past the end when the end is read.
ReaderCall == [pc : {"new", "none", "read", "done"}, node : Writer \cup {None},
               offset : 0..(Whole + 1), got : 0..Whole, hint : 0..Whole, final : BOOLEAN]

TypeOK ==
    /\ tree \in [Path -> Writer \cup {Folder, None}]
    /\ content \in [Writer -> 0..Whole]
    /\ writer \in [Writer -> WriterCall]
    /\ reader \in [Reader -> ReaderCall]

Init ==
    /\ tree = [p \in Path |-> None]
    /\ content = [n \in Writer |-> 0]
    /\ writer = [w \in Writer |-> [pc |-> "new", path |-> None, node |-> None]]
    /\ reader = [r \in Reader |-> [pc |-> "new", node |-> None, offset |-> 0, got |-> 0,
                                   hint |-> 0, final |-> FALSE]]

-----------------------------------------------------------------------------
(* put walks down from the root: get_or_insert_dir for every directory,    *)
(* then create_file.                                                       *)

IsFile(p) == tree[p] \in Writer
\* A file where a directory has to be: the walk ends there.
Blocked(p) == \E q \in Above[p] : IsFile(q)
\* The directories the walk passes, and creates where there is nothing.
Walked(p) == {q \in Above[p] : ~IsFile(q) /\ ~Blocked(q)}
WithDirs(p) == [q \in Path |-> IF q \in Walked(p) THEN Folder ELSE tree[q]]

\* Mutant: a file that exists is truncated and written to.
Truncate(w, p) ==
    LET n == IF IsFile(p) THEN tree[p] ELSE w
    IN  /\ tree' = [WithDirs(p) EXCEPT ![p] = n]
        /\ content' = [content EXCEPT ![n] = 0]
        /\ writer' = [writer EXCEPT ![w] = [pc |-> "write", path |-> p, node |-> n]]
\* Whether or not there was a file: its readers and writers keep theirs.
CreateFile(w, p) ==
    /\ tree' = [WithDirs(p) EXCEPT ![p] = w]
    /\ writer' = [writer EXCEPT ![w] = [pc |-> "write", path |-> p, node |-> w]]
    /\ UNCHANGED content

Put(w) ==
    /\ writer[w].pc = "new"
    /\ \E p \in Path :
          \/ ~Blocked(p) /\ tree[p] # Folder /\ CreateFile(w, p)
          \/ /\ Blocked(p) \/ tree[p] = Folder
             /\ tree' = WithDirs(p)
             /\ writer' = [writer EXCEPT ![w].pc = "err", ![w].path = p]
             /\ UNCHANGED content
    /\ UNCHANGED reader

Write(w) ==
    /\ writer[w].pc = "write" /\ content[writer[w].node] < Whole
    /\ content' = [content EXCEPT ![writer[w].node] = @ + 1]
    /\ UNCHANGED <<tree, writer, reader>>

\* close drops the writer, as giving it up does; neither touches the tree.
Close(w) ==
    /\ writer[w].pc = "write" /\ content[writer[w].node] = Whole
    /\ writer' = [writer EXCEPT ![w].pc = "ok"]
    /\ UNCHANGED <<tree, content, reader>>
Drop(w) ==
    /\ writer[w].pc = "write" /\ writer' = [writer EXCEPT ![w].pc = "dropped"]
    /\ UNCHANGED <<tree, content, reader>>

\* A path through a file is NotFound like one that leads to nothing.
Get(r) ==
    /\ reader[r].pc = "new"
    /\ \E p \in Path :
          \/ /\ IsFile(p) /\ ~Blocked(p)
             /\ reader' = [reader EXCEPT ![r].pc = "read", ![r].node = tree[p],
                   ![r].hint = content[tree[p]], ![r].final = writer[tree[p]].pc = "ok"]
          \/ ~(IsFile(p) /\ ~Blocked(p)) /\ reader' = [reader EXCEPT ![r].pc = "none"]
    /\ UNCHANGED <<tree, content, writer>>

AtEnd(r) == reader[r].offset >= content[reader[r].node]
Read(r) ==
    /\ reader[r].pc = "read"
    /\ \/ ~AtEnd(r) /\ reader' = [reader EXCEPT ![r].offset = @ + 1, ![r].got = @ + 1]
       \/ AtEnd(r) /\ reader' = [reader EXCEPT ![r].offset = @ + 1, ![r].pc = "done"]
    /\ UNCHANGED <<tree, content, writer>>

\* Mutant: a directory is deleted with all there is in it.
DeletableTree(p) == tree[p] # None
\* A directory has to be empty.
Deletable(p) ==
    tree[p] # None /\ \A q \in Path : p \in Above[q] => tree[q] = None
Without(p) == [q \in Path |-> IF q = p \/ p \in Above[q] THEN None ELSE tree[q]]
Delete(p) ==
    /\ Deletable(p) /\ tree' = Without(p)
    /\ UNCHANGED <<content, writer, reader>>

Next ==
    \/ \E w \in Writer : Put(w) \/ Write(w) \/ Close(w) \/ Drop(w)
    \/ \E r \in Reader : Get(r) \/ Read(r)
    \/ \E p \in Path : Delete(p)

Spec == Init /\ [][Next]_vars

-----------------------------------------------------------------------------
(* Correctness.                                                            *)

\* A file that was closed when it was opened is read whole, and is as long
\* as the size hint says, even if it is replaced or deleted meanwhile.
ClosedIsReadWhole ==
    \A r \in Reader : reader[r].pc = "done" /\ reader[r].final =>
        reader[r].got = Whole /\ reader[r].hint = Whole

\* Writers of the same path do not mix: each goes on writing to its own file,
\* and one that was closed has written all of it.
WritersDoNotMix ==
    /\ \A v, w \in Writer : v # w /\ writer[v].node # None => writer[v].node # writer[w].node
    /\ \A w \in Writer : writer[w].pc = "ok" => content[writer[w].node] = Whole

\* A file only goes when its own path is deleted, which takes away nothing else
\* that is there, not even a directory, or when it makes place for the file of
\* a put of this path: deleting another path, or a put that fails half-way,
\* takes no file away.
FilesStay ==
    [][\A p \in Path : IsFile(p) /\ tree'[p] # tree[p] =>
          /\ \A q \in Path \ {p} : tree[q] # None => tree'[q] = tree[q]
          /\ tree'[p] # None => \E w \in Writer :
                tree'[p] = w /\ writer[w].pc = "new" /\ writer'[w].path = p]_vars
=============================================================================
