--------------------------- MODULE CleanupTaskProofs ---------------------------
(***************************************************************************)
(* Proofs about the cleanup thread, for every interval, any caches and     *)
(* wake-ups at any time.                                                   *)
(***************************************************************************)
EXTENDS CleanupTask, TLAPS

\* While the thread waits, it has waited no longer than since the last pass.
WaitInv == thread \notin {"reset", "killed"} => elapsed <= since
\* After the abort the thread is about to begin a pass at most once.
LateInv == /\ ~aborted => late = 0
           /\ late = 0 \/ (late = 1 /\ thread # "due")
\* What a pass has not tried it has still to do.
PassInv == thread = "clean" => todo \cup tried = Cache

IInv == TypeOK /\ WaitInv /\ LateInv /\ PassInv

LEMMA InitInv == Init => IInv
<1> SUFFICES ASSUME Init PROVE IInv
  OBVIOUS
<1>1. interval \in Nat
  BY IntervalAssumption DEF Init
<1>2. TypeOK
  <2>1. aborted \in BOOLEAN /\ token \in BOOLEAN
    BY DEF Init
  <2>2. /\ elapsed \in 0..(interval + 1) /\ since \in 0..(interval + 1)
        /\ left \in 0..interval /\ late \in 0..2
    BY <1>1 DEF Init
  <2> QED BY <2>1, <2>2 DEF Init, TypeOK
<1> QED BY <1>1, <1>2 DEF Init, IInv, WaitInv, LateInv, PassInv

LEMMA LaterType ==
    ASSUME IInv, NEW t \in 0..(interval + 1)
    PROVE  Later(t) \in 0..(interval + 1) /\ Later(t) >= t
  BY IntervalAssumption DEF IInv, TypeOK, Later

\* Counting saturates, and keeps the order of the two counts.
LEMMA TickInv == ASSUME IInv, Tick PROVE IInv'
<1>1. interval \in Nat
  BY IntervalAssumption DEF IInv, TypeOK
<1>2. TypeOK'
  BY <1>1, LaterType DEF IInv, TypeOK, Tick
<1>3. WaitInv'
  BY <1>1 DEF IInv, TypeOK, WaitInv, Tick, Later
<1>4. LateInv' /\ PassInv'
  BY DEF IInv, LateInv, PassInv, Tick
<1> QED BY <1>2, <1>3, <1>4 DEF IInv

LEMMA WaitingInv ==
    ASSUME IInv, Remaining \/ Park \/ SpuriousWakeup \/ CheckFlag
    PROVE  IInv'
<1>1. interval \in Nat
  BY IntervalAssumption DEF IInv, TypeOK
<1>2. CASE Remaining
  BY <1>1, <1>2 DEF IInv, TypeOK, WaitInv, LateInv, PassInv, Remaining, IsLeft
<1>3. CASE Park \/ SpuriousWakeup
  BY <1>1, <1>3 DEF IInv, TypeOK, WaitInv, LateInv, PassInv, Park, SpuriousWakeup,
     Unparked, TimedOut, Spurious
<1>4. CASE CheckFlag
  BY <1>1, <1>4 DEF IInv, TypeOK, WaitInv, LateInv, PassInv, CheckFlag, Stops
<1> QED BY <1>2, <1>3, <1>4

LEMMA PassingInv ==
    ASSUME IInv, CheckDue \/ CleanCache \/ Reset
    PROVE  IInv'
<1>1. interval \in Nat
  BY IntervalAssumption DEF IInv, TypeOK
<1>2. CASE CheckDue
  BY <1>1, <1>2 DEF IInv, TypeOK, WaitInv, LateInv, PassInv, CheckDue, WaitOn
<1>3. CASE CleanCache
  BY <1>1, <1>3 DEF IInv, TypeOK, WaitInv, LateInv, PassInv, CleanCache, GoOn
<1>4. CASE Reset
  BY <1>1, <1>4 DEF IInv, TypeOK, WaitInv, LateInv, PassInv, Reset
<1> QED BY <1>2, <1>3, <1>4

LEMMA AfterStep ==
    /\ AbortOrder[1] = "store" /\ After("store") = "unpark" /\ After("unpark") = "join"
<1>1. /\ AbortOrder[1] = "store" /\ AbortOrder[2] = "unpark" /\ AbortOrder[3] = "join"
      /\ AbortOrder[2 - 1] = "store" /\ AbortOrder[3 - 1] = "unpark"
  BY DEF AbortOrder
<1>2. ASSUME NEW i \in 2..3 PROVE i = 2 \/ i = 3
  OBVIOUS
<1>3. (CHOOSE i \in 2..3 : AbortOrder[i - 1] = "store") = 2
  BY <1>1, <1>2
<1>4. (CHOOSE i \in 2..3 : AbortOrder[i - 1] = "unpark") = 3
  BY <1>1, <1>2
<1> QED BY <1>1, <1>3, <1>4 DEF After

LEMMA MainInv ==
    ASSUME IInv, Shutdown \/ MainStep \/ ServerFails
    PROVE  IInv'
<1>1. interval \in Nat
  BY IntervalAssumption DEF IInv, TypeOK
<1>2. main' \in {"store", "unpark", "join", "exited", "failed"}
  BY AfterStep DEF Shutdown, MainStep, Store, Unpark, Join, ServerFails
<1>3. CASE Shutdown \/ Join \/ Unpark
  BY <1>1, <1>2, <1>3 DEF IInv, TypeOK, WaitInv, LateInv, PassInv, Shutdown, Join, Unpark
<1>4. CASE Store
  BY <1>1, <1>2, <1>4 DEF IInv, TypeOK, WaitInv, LateInv, PassInv, Store
<1>5. CASE ServerFails
  BY <1>1, <1>2, <1>5 DEF IInv, TypeOK, WaitInv, LateInv, PassInv, ServerFails
<1> QED BY <1>3, <1>4, <1>5 DEF MainStep

LEMMA NextInv == ASSUME IInv, [Next]_vars PROVE IInv'
<1>1. CASE UNCHANGED vars
  BY <1>1 DEF IInv, TypeOK, WaitInv, LateInv, PassInv, vars
<1> QED BY <1>1, TickInv, WaitingInv, PassingInv, MainInv DEF Next, ThreadStep

\* Every variable keeps its type; in particular the timeout never underflows.
THEOREM TypeCorrect == Spec => []TypeOK
<1>1. IInv => TypeOK
  BY DEF IInv
<1> QED BY InitInv, NextInv, <1>1, PTL DEF Spec

\* At most one pass begins after the abort, whatever wakes the thread when.
THEOREM AbortIsHeededHolds == Spec => []AbortIsHeeded
<1>1. IInv => AbortIsHeeded
  BY DEF IInv, LateInv, AbortIsHeeded
<1> QED BY InitInv, NextInv, <1>1, PTL DEF Spec

\* No pass begins before the interval is over, whatever wakes the thread.
THEOREM NotBeforeIntervalHolds == Spec => NotBeforeInterval
<1>1. IInv /\ [Next]_vars => [thread = "due" /\ thread' = "clean" => since >= interval]_vars
  <2> SUFFICES ASSUME IInv, Next, thread = "due", thread' = "clean" PROVE since >= interval
    BY DEF vars
  <2>1. interval \in Nat /\ elapsed \in Nat /\ since \in Nat /\ elapsed <= since
    BY IntervalAssumption DEF IInv, TypeOK, WaitInv
  <2>2. CheckDue
    BY DEF Next, Tick, ThreadStep, Remaining, Park, CheckFlag, CleanCache, Reset,
       SpuriousWakeup, Unparked, TimedOut, Spurious, Shutdown, MainStep, Store, Unpark,
       Join, ServerFails
  <2> QED BY <2>1, <2>2 DEF CheckDue, Due
<1> QED BY InitInv, NextInv, <1>1, PTL DEF Spec, NotBeforeInterval

\* A pass tries every cache before it ends, however many cleans fail.
THEOREM PassIsCompleteHolds == Spec => PassIsComplete
<1>1. IInv /\ [Next]_vars => [thread = "clean" /\ thread' = "reset" => tried = Cache]_vars
  <2> SUFFICES ASSUME IInv, Next, thread = "clean", thread' = "reset" PROVE tried = Cache
    BY DEF vars
  <2>1. CleanCache
    BY DEF Next, Tick, ThreadStep, Remaining, Park, CheckFlag, CheckDue, Reset,
       SpuriousWakeup, Unparked, TimedOut, Spurious, Shutdown, MainStep, Store, Unpark,
       Join, ServerFails
  <2>2. todo = {}
    BY <2>1 DEF CleanCache
  <2> QED BY <2>2 DEF IInv, PassInv
<1> QED BY InitInv, NextInv, <1>1, PTL DEF Spec, PassIsComplete
=============================================================================
