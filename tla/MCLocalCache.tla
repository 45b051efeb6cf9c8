----------------------------- MODULE MCLocalCache -----------------------------
(* Instances of LocalCache for TLC.                                        *)
EXTENDS LocalCache, TLC

CONSTANTS k1, k2, s1, s2

OneKey     == {<<k1>>}
BothKeys   == {<<k1, k2>>}
KeyOrBoth  == {<<k1>>, <<k1, k2>>}
SecondFirst == {<<k2, k1>>}
NoneOrBoth == {<<>>, <<k1, k2>>}

UnitSize   == [s \in Setter |-> 1]
\* The blob of s1 is twice as large as any other.
UnevenSize == [s \in Setter |-> IF s = s1 THEN 2 ELSE 1]

\* Each key and each blob in a directory of its own; all blobs in one.
OwnDirs    == [x \in Key \cup Setter |-> x]
OneBlobDir == [x \in Key \cup Setter |-> IF x \in Setter THEN "2c" ELSE x]

NoNames == {}
AllStaged == Staged

CallSymmetry == Permutations(Getter) \cup Permutations(Setter)
=============================================================================
