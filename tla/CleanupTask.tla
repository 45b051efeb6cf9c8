------------------------------ MODULE CleanupTask ------------------------------
(***************************************************************************)
(* The server's cleanup thread (btdt-server/src/main.rs, CleanupTask): it  *)
(* parks for the cleanup interval, cleans all caches and parks again,      *)
(* until the main thread, shutting down, sets a flag and unparks it.       *)
(*                                                                         *)
(* Time is counted from `parked_since' on, up to where the code can tell   *)
(* no difference any more.  park_timeout may return without a reason.      *)
(***************************************************************************)
EXTENDS Naturals, Sequences

CONSTANTS Cache, Intervals  \* the cleanup intervals that can be configured

ASSUME IntervalAssumption == Intervals \subseteq Nat

VARIABLES
    interval,
    elapsed,    \* parked_since.elapsed(), up to interval + 1
    aborted, token,  \* the flag; the permit unpark leaves for park
    thread, main,    \* where the two threads are
    left,       \* what is left of the timeout of park_timeout
    todo,       \* the caches this pass has still to clean
    tried, since, late
        \* history: the caches this pass has cleaned or failed to; the time
        \* since the last pass ended; the passes begun after the abort
vars == <<interval, elapsed, aborted, token, thread, main, left, todo, tried, since, late>>

TypeOK ==
    /\ interval \in Intervals
    /\ elapsed \in 0..(interval + 1) /\ since \in 0..(interval + 1)
    /\ aborted \in BOOLEAN /\ token \in BOOLEAN
    /\ thread \in {"remaining", "park", "flag", "due", "clean", "reset", "stopped", "killed"}
    /\ main \in {"serving", "store", "unpark", "join", "exited", "failed"}
    /\ left \in 0..interval
    /\ todo \subseteq Cache /\ tried \subseteq Cache
    /\ late \in 0..2

Init ==
    /\ interval \in Intervals
    /\ elapsed = 0 /\ since = 0 /\ left = 0
    /\ aborted = FALSE /\ token = FALSE
    /\ thread = "remaining" /\ main = "serving"
    /\ todo = {} /\ tried = {} /\ late = 0

Later(t) == IF t > interval THEN t ELSE t + 1
Tick ==
    /\ thread \notin {"stopped", "killed"}
    /\ elapsed' = Later(elapsed) /\ since' = Later(since)
    /\ left' = IF left > 0 THEN left - 1 ELSE 0
    /\ UNCHANGED <<interval, aborted, token, thread, main, todo, tried, late>>

-----------------------------------------------------------------------------
(* The loop of the cleanup thread.                                         *)

\* Mutant: the subtraction is not checked.
Unchecked == TRUE
\* interval.checked_sub(elapsed)
IsLeft == elapsed <= interval
Remaining ==
    /\ thread = "remaining"
    /\ \/ IsLeft /\ left' = interval - elapsed /\ thread' = "park"
       \/ ~IsLeft /\ thread' = "flag" /\ UNCHANGED left
    /\ UNCHANGED <<interval, elapsed, aborted, token, main, todo, tried, since, late>>

\* park_timeout returns at once if there is a permit, when the time is up,
\* or spuriously.
Unparked == thread = "park" /\ token /\ token' = FALSE /\ thread' = "flag"
TimedOut == thread = "park" /\ ~token /\ left = 0 /\ thread' = "flag" /\ UNCHANGED token
Spurious == thread = "park" /\ ~token /\ thread' = "flag" /\ UNCHANGED token
Park ==
    /\ Unparked \/ TimedOut
    /\ UNCHANGED <<interval, elapsed, aborted, main, left, todo, tried, since, late>>
SpuriousWakeup ==
    /\ Spurious
    /\ UNCHANGED <<interval, elapsed, aborted, main, left, todo, tried, since, late>>

\* Mutant: the loop is only left while it has nothing to clean.
StopsIfIdle == aborted /\ elapsed < interval
Stops == aborted
CheckFlag ==
    /\ thread = "flag"
    /\ \/ Stops /\ thread' = "stopped"
       \/ ~Stops /\ thread' = "due"
    /\ UNCHANGED <<interval, elapsed, aborted, token, main, left, todo, tried, since, late>>

\* Mutant: every wake-up counts as the end of the interval.
DueWhenAwake == TRUE
Due == elapsed >= interval
\* Mutant: waiting starts anew after a wake-up.
WaitAnew == elapsed' = 0
WaitOn == UNCHANGED elapsed
CheckDue ==
    /\ thread = "due"
    /\ \/ /\ Due /\ thread' = "clean" /\ todo' = Cache /\ tried' = {}
          /\ late' = IF aborted /\ late < 2 THEN late + 1 ELSE late
          /\ UNCHANGED elapsed
       \/ ~Due /\ thread' = "remaining" /\ WaitOn /\ UNCHANGED <<todo, tried, late>>
    /\ UNCHANGED <<interval, aborted, token, main, left, since>>

\* Mutant: the first error ends the pass.
StopAtError(c, ok) == todo' = IF ok THEN todo \ {c} ELSE {}
\* An error is only logged.
GoOn(c, ok) == todo' = todo \ {c}
CleanCache ==
    /\ thread = "clean"
    /\ \/ /\ \E c \in todo, ok \in BOOLEAN : GoOn(c, ok) /\ tried' = tried \cup {c}
          /\ UNCHANGED <<thread, since>>
       \/ todo = {} /\ thread' = "reset" /\ since' = 0 /\ UNCHANGED <<todo, tried>>
    /\ UNCHANGED <<interval, elapsed, aborted, token, main, left, late>>

Reset ==
    /\ thread = "reset" /\ elapsed' = 0 /\ thread' = "remaining"
    /\ UNCHANGED <<interval, aborted, token, main, left, todo, tried, since, late>>

ThreadStep == Remaining \/ Park \/ CheckFlag \/ CheckDue \/ CleanCache \/ Reset

-----------------------------------------------------------------------------
(* The main thread.                                                        *)

\* Mutant: the thread is woken before the flag is set.
UnparkFirst == <<"unpark", "store", "join">>
AbortOrder  == <<"store", "unpark", "join">>
After(step) == AbortOrder[CHOOSE i \in 2..3 : AbortOrder[i - 1] = step]

\* A signal arrives, and the requests in progress are answered.
Shutdown ==
    /\ main = "serving" /\ main' = AbortOrder[1]
    /\ UNCHANGED <<interval, elapsed, aborted, token, thread, left, todo, tried, since, late>>

Store ==
    /\ main = "store" /\ aborted' = TRUE /\ main' = After("store")
    /\ UNCHANGED <<interval, elapsed, token, thread, left, todo, tried, since, late>>
Unpark ==
    /\ main = "unpark" /\ token' = TRUE /\ main' = After("unpark")
    /\ UNCHANGED <<interval, elapsed, aborted, thread, left, todo, tried, since, late>>
Join ==
    /\ main = "join" /\ thread = "stopped" /\ main' = "exited"
    /\ UNCHANGED <<interval, elapsed, aborted, token, thread, left, todo, tried, since, late>>

\* The server fails: main returns, which ends the cleanup thread wherever it is.
ServerFails ==
    /\ main = "serving" /\ main' = "failed" /\ thread' = "killed"
    /\ UNCHANGED <<interval, elapsed, aborted, token, left, todo, tried, since, late>>

MainStep == Store \/ Unpark \/ Join
Next == Tick \/ ThreadStep \/ SpuriousWakeup \/ Shutdown \/ MainStep \/ ServerFails

Spec == Init /\ [][Next]_vars
\* Both threads are scheduled; cleaning a cache comes to an end.
FairSpec == Spec /\ WF_vars(ThreadStep) /\ WF_vars(MainStep)

-----------------------------------------------------------------------------
(* Correctness.                                                            *)

\* No pass begins before the interval is over since the last one ended,
\* whatever wakes the thread.
NotBeforeInterval ==
    [][thread = "due" /\ thread' = "clean" => since >= interval]_vars

\* Once the flag is set, at most the pass that was about to begin is begun.
AbortIsHeeded == late <= 1

\* A pass gets to every cache, even if cleaning others fails.
PassIsComplete ==
    [][thread = "clean" /\ thread' = "reset" => tried = Cache]_vars

\* A shutdown ends the thread and then the process, without waiting for the
\* interval: no time has to pass.
ShutdownEnds == main \notin {"serving", "failed"} ~> main = "exited"

\* As time passes, there is always another pass, unless the server stops.
PassesRecur == WF_vars(Tick) => []<>(thread = "clean" \/ main # "serving")
=============================================================================
