---------------------------- MODULE MCRemoteCache ----------------------------
(* Small instances of RemoteCache for TLC. *)
EXTENDS RemoteCache

CONSTANTS branch, main

\* The text of one key begins with that of the other.
Prefixed == [k \in Key |-> IF k = branch THEN {main} ELSE {}]
Lists    == {<<>>, <<branch, main>>}
ListsOfOne == {<<main>>}
NoPrefix == [k \in Key |-> {}]
=============================================================================
