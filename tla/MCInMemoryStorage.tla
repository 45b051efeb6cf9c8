--------------------------- MODULE MCInMemoryStorage ---------------------------
(* Small instances of InMemoryStorage for TLC. *)
EXTENDS InMemoryStorage, TLC

CONSTANTS d, df, dg

\* /d, /d/f and /d/g: a path can be a file in one call, a directory in another.
TwoLevels == [p \in Path |-> IF p \in {df, dg} THEN {d} ELSE {}]

CallSymmetry == Permutations(Writer) \cup Permutations(Reader)
=============================================================================
