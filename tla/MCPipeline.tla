------------------------------ MODULE MCPipeline ------------------------------
(* A small instance of Pipeline for TLC. *)
EXTENDS Pipeline

CONSTANTS j1, j2, lock, fallback

\* The guide's two keys; one job has no primary key.
GuideKeys == [j \in Job |-> IF j = j2 THEN <<Blank, lock>> ELSE <<lock, fallback>>]

\* All archives in one directory, all metas in another.
TwoDirs == [x \in Key \cup Job |-> IF x \in Job THEN "2c" ELSE "7a"]
=============================================================================
