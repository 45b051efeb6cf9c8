------------------------------ MODULE ServerStart ------------------------------
(***************************************************************************)
(* Processes of btdt-server that start, serve, shut down, crash and are    *)
(* started again (btdt-server/src/main.rs, run_server), with one file for  *)
(* the private key that tokens are made with: a server that finds no file  *)
(* creates it.                                                             *)
(*                                                                         *)
(* An action is one system call, or what lies between two of them.  The    *)
(* cleanup thread of a server is the matter of CleanupTask.                *)
(***************************************************************************)
EXTENDS HumanBytesSpec

CONSTANTS
    Server, Address,
    MaxRuns,     \* how often a process is started
    MaxRequests, \* requests a server has in progress
    MaxFaults,   \* bound on failing system calls and crashes
    Settings,    \* max_cache_size, its text and the bytes it stands for, and
                 \* the address each server is configured to listen on
    Given,       \* a key that an operator has provided
    None         \* no file, no key in it

Key == (Server \X (1..MaxRuns)) \cup {Given}
File == [key : Key \cup {None}, private : BOOLEAN]

ASSUME ServerAssumption ==
    /\ MaxRuns \in Nat /\ MaxRequests \in Nat /\ MaxFaults \in Nat
    /\ None \notin Key \cup File /\ Given \notin Server \X (1..MaxRuns)
    /\ \A e \in Settings : /\ e.text \in Seq(Char) /\ e.at \in [Server -> Address]
                           /\ e.bytes = IF IsSize(e.text) THEN Meaning(e.text) ELSE Error

VARIABLES
    file,      \* the key file
    settings,
    server,
    faults,
    alone      \* history: starts that no other process and no fault disturbed
vars == <<file, settings, server, faults, alone>>

Starting == {"exists", "create", "write", "stat", "read", "cleanup", "bind"}
Up == {"serving", "draining", "join"}
Process == [pc : {"down", "failed", "exited"} \cup Starting \cup Up, run : 0..MaxRuns,
            key : Key \cup {None}, limit : 0..(Word - 1), open : 0..MaxRequests]

TypeOK ==
    /\ file \in File \cup {None} /\ settings \in Settings
    /\ server \in [Server -> Process]
    /\ faults \in 0..MaxFaults /\ alone \subseteq Server

Init ==
    /\ file \in [key : {Given}, private : BOOLEAN] \cup {None}
    /\ settings \in Settings
    /\ server = [s \in Server |-> [pc |-> "down", run |-> 0, key |-> None, limit |-> 0, open |-> 0]]
    /\ faults = 0 /\ alone = {}

Goes(s, pc) == server' = [server EXCEPT ![s].pc = pc]
Takes(s, key) == server' = [server EXCEPT ![s].pc = "cleanup", ![s].key = key]
Frame == UNCHANGED <<settings, faults, alone>>
Fault == faults < MaxFaults /\ faults' = faults + 1
HasKey == file # None /\ file.key # None

-----------------------------------------------------------------------------
(* load_or_create_auth_keys.                                               *)

Disturbs(o, s) ==
    o # s /\ (server[o].pc \in Starting \/ (server[o].pc \in Up /\ settings.at[o] = settings.at[s]))
Start(s) ==
    /\ server[s].pc \in {"down", "failed", "exited"} /\ server[s].run < MaxRuns
    /\ server' = [server EXCEPT ![s] = [pc |-> "exists", run |-> @.run + 1, key |-> None,
                                        limit |-> 0, open |-> 0]]
    /\ alone' = {o \in alone \ {s} : server[o].pc \notin Starting}
                    \cup {t \in {s} : \A o \in Server : ~Disturbs(o, t)}
    /\ UNCHANGED <<file, settings, faults>>

\* Mutant: the file is never looked for.
NeverThere == FALSE
IsThere == file # None
Exists(s) ==
    /\ server[s].pc = "exists" /\ Goes(s, IF IsThere THEN "stat" ELSE "create")
    /\ UNCHANGED file /\ Frame

\* Mutant: open with create(true) and truncate(true) in place of create_new(true).
Truncate == TRUE
CreateNew == file = None
Create(s) ==
    /\ server[s].pc = "create"
    /\ \/ CreateNew /\ file' = [key |-> None, private |-> TRUE] /\ Goes(s, "write")
       \/ ~CreateNew /\ UNCHANGED file /\ Goes(s, "failed")
    /\ Frame
\* A new key is generated, and used from now on.
Generated(s) == <<s, server[s].run>>
WriteKey(s) ==
    /\ server[s].pc = "write" /\ Takes(s, Generated(s))
    /\ file' = IF file = None THEN None ELSE [file EXCEPT !.key = Generated(s)]
    /\ Frame

Stat(s) ==
    /\ server[s].pc = "stat"
    /\ Goes(s, IF file # None /\ file.private THEN "read" ELSE "failed")
    /\ UNCHANGED file /\ Frame
\* A file without a key in it cannot be parsed.
Read(s) ==
    /\ server[s].pc = "read"
    /\ IF HasKey THEN Takes(s, file.key) ELSE Goes(s, "failed")
    /\ UNCHANGED file /\ Frame

-----------------------------------------------------------------------------
(* run_server, from CleanupTask::new on.                                   *)

LimitIn == [e \in Settings |-> parse_bytes_from_str(e.text)]
ParseSettings(s) ==
    /\ server[s].pc = "cleanup"
    /\ \/ LimitIn[settings] = Error /\ Goes(s, "failed")
       \/ LimitIn[settings] # Error
          /\ server' = [server EXCEPT ![s].pc = "bind", ![s].limit = LimitIn[settings]]
    /\ UNCHANGED file /\ Frame

Listening(a) == {s \in Server : server[s].pc = "serving" /\ settings.at[s] = a}
Bind(s) ==
    /\ server[s].pc = "bind"
    /\ Goes(s, IF Listening(settings.at[s]) = {} THEN "serving" ELSE "failed")
    /\ UNCHANGED file /\ Frame

\* Mutant: connections are accepted until the process has ended.
AcceptsAlways(s) == server[s].pc \in Up
Accepts(s) == server[s].pc = "serving"
Request(s) ==
    /\ Accepts(s) /\ server[s].open < MaxRequests
    /\ server' = [server EXCEPT ![s].open = @ + 1] /\ UNCHANGED file /\ Frame
RequestEnds(s) ==
    /\ server[s].pc \in Up /\ server[s].open > 0
    /\ server' = [server EXCEPT ![s].open = @ - 1] /\ UNCHANGED file /\ Frame

\* SIGINT or SIGTERM: the listener is closed, the requests in progress go on,
\* without a time limit, and at last the cleanup thread is joined.
Signal(s) == server[s].pc = "serving" /\ Goes(s, "draining") /\ UNCHANGED file /\ Frame
Drained(s) ==
    /\ server[s].pc = "draining" /\ server[s].open = 0 /\ Goes(s, "join")
    /\ UNCHANGED file /\ Frame
Join(s) == server[s].pc = "join" /\ Goes(s, "exited") /\ UNCHANGED file /\ Frame

-----------------------------------------------------------------------------
\* The process is killed, or a system call fails whose error is passed on.
Crash(s) ==
    /\ server[s].pc \in Starting \cup Up /\ Fault
    /\ Goes(s, "failed") /\ alone' = alone \ {s} /\ UNCHANGED <<file, settings>>

\* An operator makes a file usable while no process is about to use it.
Operate ==
    /\ \A s \in Server : server[s].pc \notin Starting
    /\ \/ file # None /\ file.key = None /\ file' = None
       \/ file # None /\ ~file.private /\ file' = [file EXCEPT !.private = TRUE]
    /\ UNCHANGED <<settings, server, faults, alone>>

StartStep(s) ==
    Exists(s) \/ Create(s) \/ WriteKey(s) \/ Stat(s) \/ Read(s) \/ ParseSettings(s) \/ Bind(s)
ShutdownStep(s) == Drained(s) \/ Join(s)

Next ==
    \/ \E s \in Server : \/ Start(s) \/ StartStep(s) \/ Request(s) \/ RequestEnds(s)
                         \/ Signal(s) \/ ShutdownStep(s) \/ Crash(s)
    \/ Operate

Spec == Init /\ [][Next]_vars
\* A process goes on as long as nothing but itself is in its way.
FairSpec == Spec /\ \A s \in Server : WF_vars(ShutdownStep(s))

-----------------------------------------------------------------------------
(* Correctness.                                                            *)

\* All servers that serve requests accept the same tokens, and these are the
\* ones made with the key in the file, however their starts, crashes and
\* restarts interleave.
ServersShareKey ==
    \A s \in Server : server[s].pc \in Up => HasKey /\ server[s].key = file.key

\* The key a server has written stays: tokens outlive the server.
KeyOutlives == [][HasKey => file' # None /\ file'.key = file.key]_vars

\* A server that nothing disturbs starts, if its settings make sense and the
\* key file is as it has to be, or not there: also when it was shut down or
\* crashed before.
StartsUndisturbed ==
    [][\A s \in alone \cap alone' : server[s].pc \in Starting /\ server'[s].pc = "failed" =>
          \/ settings.bytes = Error
          \/ file # None /\ (~file.private \/ file.key = None)]_vars

\* The limit a server cleans its caches with is the one that was set, if it
\* fits into a word; with a text that makes no sense none serves.
LimitIsMeant ==
    \A s \in Server : server[s].pc \in Up =>
        settings.bytes # Error /\ (settings.bytes < Word => server[s].limit = settings.bytes)

\* A shutdown ends if the requests in progress do: none is accepted any more.
ShutdownEnds ==
    \A s \in Server : WF_vars(RequestEnds(s)) =>
        (server[s].pc = "draining" ~> server[s].pc \notin Up)
=============================================================================
