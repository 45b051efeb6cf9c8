------------------------------ MODULE RemoteCache ------------------------------
(***************************************************************************)
(* A cache used over HTTP: RemoteCache and its HttpClient on one side      *)
(* (btdt/src/cache/remote.rs, btdt/src/util/http), the API of the server   *)
(* with its StreamAdapter on the other (btdt-server/src/app,               *)
(* btdt-server/lib/asyncio.rs), and between them a connection per call     *)
(* that may end at any point of a message.                                 *)
(*                                                                         *)
(* The server's own cache is taken as CacheSpec describes it: it may have  *)
(* forgotten, or else passes over no key that had an entry when the get    *)
(* was called, and it may fail.  A content is Whole parts.                 *)
(***************************************************************************)
EXTENDS Naturals, Sequences

CONSTANTS
    Key, Getter, Setter,
    KeyLists,    \* the key lists calls are made with
    Begins,      \* Begins[k]: the other keys whose text k's text begins with
    Whole,       \* parts of a content
    Forgetful,   \* whether the server's cache is ever cleaned
    Capacity,    \* of the channel of a StreamAdapter
    MaxBuf, Threshold, \* of its read buffer, in parts: the size of a new one, and
                       \* the room below which it is replaced
    MaxFaults,   \* connections that fail and errors of the server's storage
    Absent, Open \* no key, no content; a call without an answer yet

Call == Getter \cup Setter

ASSUME BoundsAssumption ==
    Whole \in Nat \ {0} /\ Capacity \in Nat \ {0} /\ MaxFaults \in Nat /\ Forgetful \in BOOLEAN
ASSUME BufferAssumption == MaxBuf \in Nat /\ Threshold \in 1..MaxBuf
ASSUME KeyAssumption ==
    /\ KeyLists \subseteq Seq(Key) /\ Begins \in [Key -> SUBSET Key]
    /\ Absent \notin Key \cup Setter /\ Getter \cap Setter = {}
\* What stands for no answer yet and for a failure is told from the others.
ASSUME AnswerAssumption ==
    /\ "ok" \notin {Absent, Open} /\ Open \notin KeyLists \cup {<<>>}
    /\ Open \notin [keys : Seq(Key), entries : SUBSET Key]

VARIABLES
    stored,   \* stored[k]: the sets whose content was stored under k, in order
    client,   \* the calls of RemoteCache
    handler,  \* their requests in the server
    feed,     \* the StreamAdapters: the thread that reads, and its channel
    up, down, \* up[c], down[c]: what was sent and not read yet, by direction
    lost,     \* connections that broke
    faults
server == <<stored, handler, feed>>
vars == <<stored, client, handler, feed, up, down, lost, faults>>

Final == {"ok", "hit", "miss", "err", "panic", "gone"}
ClientCall == [pc : {"new", "status", "headers", "body", "write"} \cup Final,
               keys : KeyLists \cup {<<>>}, key : Key \cup {Absent}, chunked : BOOLEAN,
               n : 0..Whole, held : SUBSET Key]
Request == [pc : {"idle", "stream", "copy", "close", "done"}, keys : KeyLists \cup {<<>>},
            content : Setter \cup {Absent}, n : 0..Whole]
\* What one read delivered: the parts behind the first from of the content, up
\* to the to-th.  A chunk without any is an error.
Chunk == [from : 0..Whole, to : 0..Whole]
Adapter == [pc : {"none", "read", "done"}, n : 0..Whole, buf : 0..MaxBuf, channel : Seq(Chunk)]

TypeOK ==
    /\ stored \in [Key -> Seq(Setter)]
    /\ client \in [Call -> ClientCall]
    /\ handler \in [Call -> Request]
    /\ feed \in [Getter -> Adapter]
    /\ \A g \in Getter : Len(feed[g].channel) <= Capacity
    /\ lost \in [Call -> BOOLEAN] /\ faults \in 0..MaxFaults

Init ==
    /\ stored = [k \in Key |-> <<>>]
    /\ client = [c \in Call |-> [pc |-> "new", keys |-> <<>>, key |-> Absent,
                                 chunked |-> FALSE, n |-> 0, held |-> {}]]
    /\ handler = [c \in Call |-> [pc |-> "idle", keys |-> <<>>, content |-> Absent, n |-> 0]]
    /\ feed = [g \in Getter |-> [pc |-> "none", n |-> 0, buf |-> 0, channel |-> <<>>]]
    /\ up = [c \in Call |-> <<>>] /\ down = [c \in Call |-> <<>>]
    /\ lost = [c \in Call |-> FALSE] /\ faults = 0

-----------------------------------------------------------------------------
(* The connection.  A line or chunk that breaks off is marked cut.         *)

Token(is, val) == [is |-> is, val |-> val, cut |-> FALSE]
Left(c) == client[c].pc \in Final
Holds(log, s) == \E i \in DOMAIN log : log[i] = s
Entries == {k \in Key : stored[k] # <<>>}
Fault == faults < MaxFaults /\ faults' = faults + 1

Send(c, tokens) == up' = IF lost[c] THEN up ELSE [up EXCEPT ![c] = @ \o tokens]
Reply(c, tokens) ==
    down' = IF lost[c] \/ Left(c) THEN down ELSE [down EXCEPT ![c] = @ \o tokens]

ClientSeesEnd(c) == down[c] = <<>> /\ (lost[c] \/ handler[c].pc = "done")
ServerSeesEnd(c) == up[c] = <<>> /\ (lost[c] \/ Left(c))
\* Closing a connection with something unread on it resets it.
Reset(c) == lost[c] \/ (handler[c].pc = "done" /\ up[c] # <<>>)

\* What is on its way arrives up to some point, which may lie within a line.
BreaksOff(c) ==
    /\ lost' = [lost EXCEPT ![c] = TRUE]
    /\ \E n \in 0..Len(up[c]) : up' = [up EXCEPT ![c] = SubSeq(@, 1, n)]
    /\ \E n \in 0..Len(down[c]) :
          \/ down' = [down EXCEPT ![c] = SubSeq(@, 1, n)]
          \/ n > 0 /\ down' = [down EXCEPT ![c] = [SubSeq(@, 1, n) EXCEPT ![n].cut = TRUE]]
Lose(c) ==
    /\ client[c].pc # "new" /\ ~Left(c) /\ ~lost[c] /\ Fault
    /\ BreaksOff(c) /\ UNCHANGED <<client, server>>

Goes(c, pc) == client' = [client EXCEPT ![c].pc = pc]
\* The token may permit the operation on the cache, and the server know it.
Requests(keys) == [keys : {keys}, permits : BOOLEAN, known : BOOLEAN]
\* held is history: the keys with an entry when the call began.
Begin(c, keys, pc) ==
    client' = [client EXCEPT ![c].pc = pc, ![c].keys = keys, ![c].held = Entries]
\* connect opens the connection the request is written to, or fails.
Connects(c, keys, pc) ==
    \/ /\ Begin(c, keys, pc)
       /\ \E request \in Requests(keys) : Send(c, <<Token("request", request)>>)
       /\ UNCHANGED faults
    \/ Begin(c, keys, "err") /\ Fault /\ UNCHANGED up

-----------------------------------------------------------------------------
(* RemoteCache: reading the answer.                                        *)

GetStart(g) ==
    /\ client[g].pc = "new"
    /\ \E keys \in KeyLists :
          \/ keys # <<>> /\ Connects(g, keys, "status")
          \/ keys = <<>> /\ Begin(g, keys, "miss") /\ UNCHANGED <<up, faults>>
    /\ UNCHANGED <<server, down, lost>>

\* Mutant: whatever is not an error of the server is a success.
NotServerError(code) == code # "500"
IsSuccess(code) == code \in {"200", "204"}
GetAnswer(code) ==
    CASE code = "204" -> "miss" [] code # "204" /\ IsSuccess(code) -> "headers"
      [] OTHER -> "err"
SetAnswer(code) == IF IsSuccess(code) THEN "ok" ELSE "err"
\* A status line that breaks off within the code is indexed past its end.
ReadStatus(c) ==
    /\ client[c].pc = "status"
    /\ \/ /\ down[c] # <<>>
          /\ LET t == Head(down[c])
                 answer == IF c \in Getter THEN GetAnswer(t.val) ELSE SetAnswer(t.val)
             IN  \E pc \in {answer} \cup (IF t.cut THEN {"err", "panic"} ELSE {}) : Goes(c, pc)
          /\ down' = [down EXCEPT ![c] = Tail(@)]
       \/ (ClientSeesEnd(c) \/ Reset(c)) /\ Goes(c, "err") /\ UNCHANGED down
    /\ UNCHANGED <<server, up, lost, faults>>

Named(keys, k) == IF \E i \in DOMAIN keys : keys[i] = k THEN k ELSE Absent
\* Reading on at the end of the connection looks like the end of the headers.
ReadHeader(g) ==
    /\ client[g].pc = "headers"
    /\ \/ /\ IF down[g] = <<>> THEN ClientSeesEnd(g) ELSE Head(down[g]).is = "end"
          /\ Goes(g, IF client[g].key = Absent THEN "err" ELSE "body")
       \/ /\ down[g] # <<>> /\ Head(down[g]).is = "key"
          /\ LET t == Head(down[g])
                 texts == {t.val} \cup (IF t.cut THEN Begins[t.val] \cup {Absent} ELSE {})
             IN  \E k \in texts : client' = [client EXCEPT ![g].key = Named(client[g].keys, k)]
       \/ /\ down[g] # <<>> /\ Head(down[g]).is = "chunked"
          /\ client' = [client EXCEPT ![g].chunked = TRUE]
       \/ /\ Reset(g) \/ (down[g] # <<>> /\ Head(down[g]).cut) \* no colon, no known encoding
          /\ Goes(g, "err")
    /\ down' = [down EXCEPT ![g] = IF @ = <<>> THEN @ ELSE Tail(@)]
    /\ UNCHANGED <<server, up, lost, faults>>

\* One chunk, or what read makes of the end: without an encoding there is no
\* body, and a chunk that breaks off in its data ends the body like the last.
ReadBody(g) ==
    /\ client[g].pc = "body"
    /\ \/ ~client[g].chunked /\ Goes(g, "hit")
       \/ client[g].chunked /\ (ClientSeesEnd(g) \/ Reset(g)) /\ Goes(g, "err")
       \/ /\ client[g].chunked /\ down[g] # <<>>
          /\ LET t == Head(down[g])
             IN  \/ t.is = "chunk" /\ ~t.cut /\ client' = [client EXCEPT ![g].n = t.val.to]
                 \/ t.is = "last" /\ Goes(g, "hit")
                 \/ t.cut /\ \E pc \in {"hit", "err"} : Goes(g, pc)
    /\ down' = [down EXCEPT ![g] = IF @ = <<>> THEN @ ELSE Tail(@)]
    /\ UNCHANGED <<server, up, lost, faults>>
\* The reader is dropped before its end.
GiveUp(g) ==
    /\ client[g].pc = "body" /\ Goes(g, "gone")
    /\ UNCHANGED <<server, up, down, lost, faults>>

(* RemoteCache: the RemoteWriter.                                          *)

SetStart(s) ==
    /\ client[s].pc = "new" /\ \E keys \in KeyLists : Connects(s, keys, "write")
    /\ UNCHANGED <<server, down, lost>>
WritePart(s) ==
    /\ client[s].pc = "write" /\ client[s].n < Whole
    /\ client' = [client EXCEPT ![s].n = @ + 1]
    /\ Send(s, <<Token("part", client[s].n + 1)>>)
    /\ UNCHANGED <<server, down, lost, faults>>
Close(s) ==
    /\ client[s].pc = "write" /\ client[s].n = Whole
    /\ Goes(s, "status") /\ Send(s, <<Token("last", 0)>>)
    /\ UNCHANGED <<server, down, lost, faults>>
\* Given up, or after a write that failed: the body never gets its last chunk.
Drop(s) ==
    /\ client[s].pc = "write"
    /\ \/ Goes(s, "gone")
       \/ (lost[s] \/ handler[s].pc = "done") /\ Goes(s, "err")
    /\ UNCHANGED <<server, up, down, lost, faults>>

-----------------------------------------------------------------------------
(* Api.  Even a token that permits the request may have expired, the cache *)
(* of the server may fail, or it may not be there.                         *)

Refusals(request) ==
    {"403"} \cup (IF request.permits THEN {IF request.known THEN "500" ELSE "404"} ELSE {})
Served(request) == request.permits /\ request.known
Answers(c, code) ==
    handler' = [handler EXCEPT ![c].pc = "done"] /\ Reply(c, <<Token("status", code)>>)
RequestOf(c) == Head(up[c]).val
Arrives(c) == handler[c].pc = "idle" /\ up[c] # <<>> /\ up' = [up EXCEPT ![c] = Tail(@)]

\* The adapter is told the size of the content.
Least(a, b) == IF a < b THEN a ELSE b
Hit(g, k, s) ==
    /\ handler' = [handler EXCEPT ![g].pc = "stream", ![g].content = s]
    /\ feed' = [feed EXCEPT ![g].pc = "read", ![g].buf = Least(Whole + Threshold, MaxBuf)]
    /\ \E headers \in {<<Token("key", k), Token("chunked", 0)>>,
                       <<Token("chunked", 0), Token("key", k)>>} :
          Reply(g, <<Token("status", "200")>> \o headers \o <<Token("end", 0)>>)
\* The first n keys had no entry, or may have been forgotten: what CacheSpec
\* promises of a lookup that is made as early as can be.
MayPass(held, keys, n) == Forgetful \/ \A i \in 1..n : keys[i] \notin held
GetFromCache(g) ==
    /\ Arrives(g)
    /\ \/ \E code \in Refusals(RequestOf(g)) : Answers(g, code) /\ UNCHANGED feed
       \/ /\ Served(RequestOf(g)) /\ Answers(g, "204") /\ UNCHANGED feed
          /\ MayPass(client[g].held, RequestOf(g).keys, Len(RequestOf(g).keys))
       \/ /\ Served(RequestOf(g))
          /\ \E i \in DOMAIN RequestOf(g).keys, s \in Setter :
                /\ MayPass(client[g].held, RequestOf(g).keys, i - 1)
                /\ Holds(stored[RequestOf(g).keys[i]], s)
                /\ Hit(g, RequestOf(g).keys[i], s)
    /\ UNCHANGED <<stored, client, lost, faults>>

PutIntoCache(s) ==
    /\ Arrives(s)
    /\ \/ \E code \in Refusals(RequestOf(s)) : Answers(s, code)
       \/ /\ Served(RequestOf(s)) /\ UNCHANGED down
          /\ handler' = [handler EXCEPT ![s].pc = "copy", ![s].keys = RequestOf(s).keys]
    /\ UNCHANGED <<stored, client, feed, lost, faults>>

\* Mutant: a body that breaks off is taken for a body that ends.
EndsAnyhow(s) == IF up[s] = <<>> THEN ServerSeesEnd(s) ELSE Head(up[s]).is = "last"
BodyEnds(s) == up[s] # <<>> /\ Head(up[s]).is = "last"
Copy(s) ==
    /\ handler[s].pc = "copy"
    /\ \/ /\ up[s] # <<>> /\ Head(up[s]).is = "part"
          /\ handler' = [handler EXCEPT ![s].n = Head(up[s]).val] /\ UNCHANGED down
       \/ BodyEnds(s) /\ handler' = [handler EXCEPT ![s].pc = "close"] /\ UNCHANGED down
       \/ ServerSeesEnd(s) /\ ~BodyEnds(s) /\ Answers(s, "500")
    /\ up' = [up EXCEPT ![s] = IF @ = <<>> THEN @ ELSE Tail(@)]
    /\ UNCHANGED <<stored, client, feed, lost, faults>>

\* close stores under one key after the other; only then it is answered.
Unstored(s) == {k \in Key : ~Holds(stored[k], s) /\ \E i \in DOMAIN handler[s].keys :
                                                     handler[s].keys[i] = k}
Store(s) ==
    /\ handler[s].pc = "close"
    /\ \/ /\ \E k \in Unstored(s) : stored' = [stored EXCEPT ![k] = Append(@, s)]
          /\ UNCHANGED <<handler, down>>
       \/ Unstored(s) = {} /\ Answers(s, "204") /\ UNCHANGED stored
    /\ UNCHANGED <<client, feed, up, lost, faults>>
\* The storage fails; the writer is dropped.
PutFails(s) ==
    /\ handler[s].pc \in {"copy", "close"} /\ Fault /\ Answers(s, "500")
    /\ UNCHANGED <<stored, client, feed, up, lost>>
\* The request never arrived.
NoRequest(c) ==
    /\ handler[c].pc = "idle" /\ client[c].pc # "new" /\ ServerSeesEnd(c)
    /\ handler' = [handler EXCEPT ![c].pc = "done"]
    /\ UNCHANGED <<stored, client, feed, up, down, lost, faults>>

-----------------------------------------------------------------------------
(* StreamAdapter: a thread reads, the response sends what it has read.     *)

\* Mutant: the thread does not notice that nobody receives.
NeverFails(g) == FALSE
SendFails(g) == handler[g].pc = "done"
\* Mutant: the whole buffer is sent on, however little was read into it.
FillsBuffer(g) == IF feed[g].n < Whole THEN {feed[g].buf} ELSE {}
\* A read may return less than there is room for; if there is nothing left, or
\* no room at all, it returns nothing, which is the end.
Reads(g) == 1..Least(feed[g].buf, Whole - feed[g].n)
\* Mutant: what was read before stays in the buffer and is sent again.
Unsplit(g, n) == [from |-> 0, to |-> feed[g].n + n]
SplitOff(g, n) == [from |-> feed[g].n, to |-> feed[g].n + n]
Error(g) == [from |-> feed[g].n, to |-> feed[g].n]
\* Mutant: a buffer is never replaced.
Kept(room) == room
Refilled(room) == IF room < Threshold THEN MaxBuf ELSE room
ReadPart(g) ==
    /\ feed[g].pc = "read"
    /\ \/ /\ Reads(g) = {} \/ SendFails(g)
          /\ feed' = [feed EXCEPT ![g].pc = "done"] /\ UNCHANGED faults
       \/ /\ ~SendFails(g) /\ Len(feed[g].channel) < Capacity
          /\ \/ /\ \E n \in Reads(g) :
                   feed' = [feed EXCEPT ![g].n = @ + n, ![g].buf = Refilled(@ - n),
                                        ![g].channel = Append(@, SplitOff(g, n))]
                /\ UNCHANGED faults
             \/ /\ Reads(g) # {} /\ Fault
                /\ feed' = [feed EXCEPT ![g].buf = Refilled(@),
                                        ![g].channel = Append(@, Error(g))]
    /\ UNCHANGED <<stored, client, handler, up, down, lost>>

ChannelClosed(g) == feed[g].channel = <<>> /\ feed[g].pc = "done"
IsError(chunk) == chunk.to = chunk.from
EndStream(g) == handler' = [handler EXCEPT ![g].pc = "done"]
Received(g) == feed' = [feed EXCEPT ![g].channel = Tail(@)]
SendPart(g) ==
    /\ handler[g].pc = "stream"
    /\ \/ (lost[g] \/ Left(g)) /\ EndStream(g) /\ UNCHANGED <<feed, up, down, lost>>
       \/ /\ feed[g].channel # <<>> /\ ~IsError(Head(feed[g].channel)) /\ Received(g)
          /\ Reply(g, <<Token("chunk", Head(feed[g].channel))>>)
          /\ UNCHANGED <<handler, up, lost>>
       \/ /\ ChannelClosed(g) /\ EndStream(g) /\ Reply(g, <<Token("last", 0)>>)
          /\ UNCHANGED <<feed, up, lost>>
       \/ /\ feed[g].channel # <<>> /\ IsError(Head(feed[g].channel)) \* the response is aborted
          /\ EndStream(g) /\ Received(g) /\ BreaksOff(g)
    /\ UNCHANGED <<stored, client, faults>>

-----------------------------------------------------------------------------
Read(g) == ReadStatus(g) \/ ReadHeader(g) \/ ReadBody(g) \/ GiveUp(g)
Write(s) == WritePart(s) \/ Close(s) \/ Drop(s) \/ ReadStatus(s)
Respond(g) == GetFromCache(g) \/ SendPart(g) \/ NoRequest(g)
Receive(s) == PutIntoCache(s) \/ Copy(s) \/ Store(s) \/ NoRequest(s)

Next ==
    \/ \E g \in Getter : GetStart(g) \/ Read(g) \/ Respond(g) \/ ReadPart(g)
    \/ \E s \in Setter : SetStart(s) \/ Write(s) \/ Receive(s) \/ PutFails(s)
    \/ \E c \in Call : Lose(c)

Spec == Init /\ [][Next]_vars
\* Whoever uses a reader or writer reads, writes or gives up, and the server's
\* threads and tasks are scheduled.  No connection has to break.
FairSpec ==
    /\ Spec
    /\ \A g \in Getter : WF_vars(Read(g)) /\ WF_vars(Respond(g)) /\ WF_vars(ReadPart(g))
    /\ \A s \in Setter : WF_vars(Write(s)) /\ WF_vars(Receive(s))

-----------------------------------------------------------------------------
(* Correctness.                                                            *)

\* Whatever chunk a get reads next belongs to a content that was stored under
\* the key the hit names, and begins where the get has read to: nothing is left
\* out, sent again or out of order, wherever the connection ends.
ReadsWhatWasStored ==
    \A g \in Getter :
        client[g].pc = "body" /\ down[g] # <<>> /\ Head(down[g]).is = "chunk" =>
            /\ client[g].key # Absent
            /\ Holds(stored[client[g].key], handler[g].content)
            /\ Head(down[g]).val.from = client[g].n

\* A hit that is read to its end on a connection that did not break is whole:
\* the channel between the server's reader and the response loses nothing.
UnbrokenIsWhole ==
    \A g \in Getter : client[g].pc = "hit" /\ ~lost[g] => client[g].n = Whole

\* An upload that breaks off, or is given up, is never stored as if it were all.
OnlyWholeIsStored ==
    \A k \in Key : \A i \in DOMAIN stored[k] :
        LET s == stored[k][i]
        IN  /\ client[s].n = Whole /\ client[s].pc \in {"status", "ok", "err", "panic"}
            /\ handler[s].n = Whole

\* The cache as its users see it.  A call is over when the server has ended,
\* too; a hit that was cut short answers nothing here.
LookupOf(g) ==
    IF client[g].pc = "new" THEN Open ELSE [keys |-> client[g].keys, entries |-> client[g].held]
Over(c) == Left(c) /\ handler[c].pc = "done"
AnswerOf(g) ==
    CASE ~Over(g) -> Open
      [] Over(g) /\ client[g].pc = "miss" -> {}
      [] Over(g) /\ client[g].pc = "hit" /\ client[g].n = Whole ->
             {[key |-> client[g].key, content |-> handler[g].content]}
      [] OTHER -> Absent
OutcomeOf(s) ==
    IF ~Over(s) THEN Open ELSE IF client[s].pc = "ok" THEN "ok" ELSE Absent
Abstract == INSTANCE CacheSpec WITH
    Lookups <- KeyLists, Stores <- KeyLists, Pending <- Open, Failed <- Absent,
    forgetful <- Forgetful,
    request <- [s \in Setter |-> IF client[s].pc = "new" THEN Open ELSE client[s].keys],
    lookup <- [g \in Getter |-> LookupOf(g)],
    answer <- [g \in Getter |-> AnswerOf(g)],
    outcome <- [s \in Setter |-> OutcomeOf(s)]

\* Through the network, too, a cache keeps the promises of the Cache trait: a
\* hit that is read to its end is under the first key with an entry, a miss
\* means that none has one, and a set that reports success has stored under all
\* of its keys - however the connection of the answer fared.
ImplementsCache == Abstract!Spec

\* A get returns a reader for the data that was stored: what it reads without
\* an error is all of it.
HitIsWhole == \A g \in Getter : client[g].pc = "hit" => client[g].n = Whole

\* Every call ends, and so does everything it started in the server: no thread
\* waits for room in a channel nobody receives from.
Termination ==
    /\ \A c \in Call : client[c].pc # "new" ~> Left(c)
    /\ \A c \in Call : client[c].pc # "new" ~> handler[c].pc \in {"idle", "done"}
    /\ \A g \in Getter : feed[g].pc = "read" ~> feed[g].pc = "done"
=============================================================================
