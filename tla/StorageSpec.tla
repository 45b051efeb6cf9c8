------------------------------ MODULE StorageSpec ------------------------------
(***************************************************************************)
(* What a storage promises of its files (the Storage trait,                *)
(* btdt/src/storage/mod.rs): the file at a path becomes available in one   *)
(* step, when the writer put at that path is done, and from then on it is  *)
(* replaced or deleted as a whole but never changed.  Who opens a path     *)
(* gets what was there at that moment, to the end.                         *)
(***************************************************************************)
EXTENDS Naturals

CONSTANTS Target, Writer, Reader,
          Whole,           \* the length of what a writer has to write
          Pending, Nothing \* no answer yet; no such file

VARIABLES path,     \* the path a writer was put at
          content,  \* content[t]: the writer of the file at t, how far it got
          answer,   \* what each reader finds at the path it names
          outcome   \* what became of each writer

Value == [by : Writer, upto : 0..Whole]

Init ==
    /\ path = [w \in Writer |-> Nothing]
    /\ content = [t \in Target |-> Nothing]
    /\ answer = [r \in Reader |-> Pending]
    /\ outcome = [w \in Writer |-> "open"]

Put(w) ==
    /\ path[w] = Nothing
    /\ \E t \in Target : path' = [path EXCEPT ![w] = t]
    /\ UNCHANGED <<content, answer, outcome>>

\* A writer is closed; its file holds all it has written.
Close(w) ==
    /\ path[w] # Nothing /\ outcome[w] = "open"
    /\ content' = [content EXCEPT ![path[w]] = [by |-> w, upto |-> Whole]]
    /\ outcome' = [outcome EXCEPT ![w] = "ok"]
    /\ UNCHANGED <<path, answer>>

\* A writer is given up; its file may still appear, as far as it got.
GiveUp(w) ==
    /\ path[w] # Nothing /\ outcome[w] = "open"
    /\ \/ UNCHANGED content
       \/ \E n \in 0..Whole :
             content' = [content EXCEPT ![path[w]] = [by |-> w, upto |-> n]]
    /\ outcome' = [outcome EXCEPT ![w] = "off"]
    /\ UNCHANGED <<path, answer>>

Delete(t) == content' = [content EXCEPT ![t] = Nothing] /\ UNCHANGED <<path, answer, outcome>>

Read(r) ==
    /\ answer[r] = Pending
    /\ \E t \in Target : answer' = [answer EXCEPT ![r] = [path |-> t, file |-> content[t]]]
    /\ UNCHANGED <<path, content, outcome>>

Next ==
    \/ \E w \in Writer : Put(w) \/ Close(w) \/ GiveUp(w)
    \/ \E t \in Target : Delete(t)
    \/ \E r \in Reader : Read(r)

Spec == Init /\ [][Next]_<<path, content, answer, outcome>>
=============================================================================
