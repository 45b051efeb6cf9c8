------------------------------- MODULE CacheSpec -------------------------------
(***************************************************************************)
(* What a cache promises (the Cache trait, btdt/src/cache/mod.rs): data is *)
(* stored under keys, and looked up by a list of keys finds what is stored *)
(* under the first of them that has an entry.  It never makes anything up: *)
(* a hit is the whole content of some set, stored under the key the hit    *)
(* names, which is one the get was given.  A cache may forget, and from    *)
(* then on any lookup may miss; but as long as nothing was forgotten, no   *)
(* lookup passes over a key that was stored before it was made.  A set     *)
(* stores under none but its own keys, and when it reports success it has  *)
(* stored under all of them.  Which of several contents stored under one   *)
(* key is found is left open here: the local cache's OverwriteSticks says  *)
(* how far data stored again replaces the old.                             *)
(***************************************************************************)
EXTENDS Naturals, Sequences

CONSTANTS Key, Getter, Setter,
          Lookups, Stores,  \* the key lists get and set are called with
          Pending, Failed   \* no call or answer yet; the call did not succeed

VARIABLES stored,     \* stored[k]: the sets that stored their content under k
          forgetful,  \* whether anything may have been forgotten
          lookup,     \* the keys of each get, and which had an entry then
          answer,     \* what each get returned: no hit, or a set with the hit
          request,    \* the keys a set was called with
          outcome     \* what each set returned
vars == <<stored, forgetful, lookup, answer, request, outcome>>

Init ==
    /\ stored = [k \in Key |-> <<>>]
    /\ forgetful \in BOOLEAN
    /\ lookup = [g \in Getter |-> Pending]
    /\ answer = [g \in Getter |-> Pending]
    /\ request = [s \in Setter |-> Pending]
    /\ outcome = [s \in Setter |-> Pending]

Holds(log, s) == \E i \in DOMAIN log : log[i] = s
Entries == {k \in Key : stored[k] # <<>>}

Request(s) ==
    /\ request[s] = Pending
    /\ \E ks \in Stores : request' = [request EXCEPT ![s] = ks]
    /\ UNCHANGED <<stored, forgetful, lookup, answer, outcome>>

\* The content becomes available under one key; a set that ends with it has
\* then stored all.
Store(s) ==
    /\ request[s] # Pending /\ outcome[s] = Pending
    /\ \E i \in DOMAIN request[s] :
          /\ ~Holds(stored[request[s][i]], s)
          /\ stored' = [stored EXCEPT ![request[s][i]] = Append(@, s)]
    /\ outcome' \in {outcome, [outcome EXCEPT ![s] = "ok"]}
    /\ outcome'[s] = "ok" =>
          \A i \in DOMAIN request[s] : Holds(stored'[request[s][i]], s)
    /\ UNCHANGED <<forgetful, lookup, answer, request>>

\* A set that fails, and one that reports success after it stored all.
Finish(s) ==
    /\ request[s] # Pending /\ outcome[s] = Pending
    /\ \E result \in {"ok", Failed} :
          /\ result = "ok" =>
                \A i \in DOMAIN request[s] : Holds(stored[request[s][i]], s)
          /\ outcome' = [outcome EXCEPT ![s] = result]
    /\ UNCHANGED <<stored, forgetful, lookup, answer, request>>

Forget == forgetful' = TRUE /\ UNCHANGED <<stored, lookup, answer, request, outcome>>

LookUp(g) ==
    /\ lookup[g] = Pending
    /\ \E ks \in Lookups :
          lookup' = [lookup EXCEPT ![g] = [keys |-> ks, entries |-> Entries]]
    /\ UNCHANGED <<stored, forgetful, answer, request, outcome>>

\* The first n keys of a get may be passed over.
MayPass(g, n) ==
    forgetful \/ \A i \in 1..n : lookup[g].keys[i] \notin lookup[g].entries

Miss(g) == MayPass(g, Len(lookup[g].keys)) /\ answer' = [answer EXCEPT ![g] = {}]
Hit(g) ==
    \E i \in DOMAIN lookup[g].keys, s \in Setter :
        LET k == lookup[g].keys[i]
        IN  /\ MayPass(g, i - 1) /\ Holds(stored[k], s)
            /\ answer' = [answer EXCEPT ![g] = {[key |-> k, content |-> s]}]
Answer(g) ==
    /\ lookup[g] # Pending /\ answer[g] = Pending
    /\ Miss(g) \/ Hit(g) \/ answer' = [answer EXCEPT ![g] = Failed]
    /\ UNCHANGED <<stored, forgetful, lookup, request, outcome>>

Next ==
    \/ \E s \in Setter : Request(s) \/ Store(s) \/ Finish(s)
    \/ \E g \in Getter : LookUp(g) \/ Answer(g)
    \/ Forget

Spec == Init /\ [][Next]_vars
=============================================================================
