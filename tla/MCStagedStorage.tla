---------------------------- MODULE MCStagedStorage ----------------------------
(* Small instances of StagedStorage for TLC. *)
EXTENDS StagedStorage

CONSTANTS w1, w2, w3, t1, t2, d1, x1, x2, x3

Flat == [t \in Target |-> <<>>]
\* Below a directory that the first put has to make.
Deep == [t \in Target |-> <<d1>>]

\* Random suffixes differ, or two writers draw the same one.
OwnSuffix == [w \in Writer |-> IF w = w1 THEN {x1} ELSE IF w = w2 THEN {x2} ELSE {x3}]
AnySuffix == [w \in Writer |-> Suffix]

\* A target may be named like a staged file.
Lookalike == {t2}
=============================================================================
