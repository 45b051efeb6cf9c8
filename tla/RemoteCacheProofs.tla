--------------------------- MODULE RemoteCacheProofs ---------------------------
(***************************************************************************)
(* Theorems about RemoteCache, for any number of calls, key lists, sizes   *)
(* of contents, channels and buffers, and any number of broken connections *)
(* and failures; that CacheSpec is implemented is the last part.           *)
(***************************************************************************)
EXTENDS RemoteCache, TLAPS

-----------------------------------------------------------------------------
(* Sequences.                                                              *)

LEMMA TailFacts ==
    ASSUME NEW S, NEW q \in Seq(S), q # <<>>
    PROVE  /\ Tail(q) \in Seq(S) /\ Len(q) \in Nat \ {0} /\ Len(Tail(q)) = Len(q) - 1
           /\ Head(q) \in S /\ Head(q) = q[1]
           /\ \A i \in 1..(Len(q) - 1) : Tail(q)[i] = q[i + 1]
  OBVIOUS

LEMMA EmptyFacts == ASSUME NEW S, NEW q \in Seq(S) PROVE Len(q) = 0 => q = <<>>
  OBVIOUS

LEMMA LastFacts ==
    ASSUME NEW S, NEW q, NEW r \in Seq(S), Len(q) \in Nat \ {0}, Len(r) = Len(q) - 1,
           \A i \in 1..(Len(q) - 1) : r[i] = q[i + 1]
    PROVE  IF r = <<>> THEN q[Len(q)] = q[1] ELSE q[Len(q)] = r[Len(r)]
<1>1. CASE r = <<>>
  <2>1. Len(r) = 0
    BY <1>1
  <2> QED BY <1>1, <2>1
<1>2. CASE r # <<>>
  <2>1. Len(r) # 0
    BY <1>2, EmptyFacts
  <2>2. \A x \in Nat \ {0} : x - 1 # 0 => x - 1 \in 1..(x - 1) /\ x - 1 + 1 = x
    OBVIOUS
  <2> QED BY <1>2, <2>1, <2>2
<1> QED BY <1>1, <1>2

LEMMA ConcatFacts ==
    ASSUME NEW S, NEW q \in Seq(S), NEW r \in Seq(S)
    PROVE  /\ q \o r \in Seq(S) /\ Len(q \o r) = Len(q) + Len(r)
           /\ \A i \in 1..Len(q) : (q \o r)[i] = q[i]
           /\ \A i \in 1..Len(r) : (q \o r)[Len(q) + i] = r[i]
  OBVIOUS

LEMMA AppendFacts ==
    ASSUME NEW S, NEW q \in Seq(S), NEW e \in S
    PROVE  /\ Append(q, e) \in Seq(S) /\ Len(Append(q, e)) = Len(q) + 1
           /\ \A i \in 1..Len(q) : Append(q, e)[i] = q[i]
           /\ Append(q, e)[Len(q) + 1] = e
  OBVIOUS

LEMMA PrefixFacts ==
    ASSUME NEW S, NEW q \in Seq(S), NEW n \in 0..Len(q)
    PROVE  /\ SubSeq(q, 1, n) \in Seq(S) /\ Len(SubSeq(q, 1, n)) = n
           /\ \A i \in 1..n : SubSeq(q, 1, n)[i] = q[i]
  OBVIOUS

\* One, two and one more make four.
LEMMA JoinFacts ==
    ASSUME NEW S, NEW p \in Seq(S), NEW q \in Seq(S), NEW r \in Seq(S)
    PROVE  Len(p) = 1 /\ Len(q) = 2 /\ Len(r) = 1 =>
               /\ p \o q \o r \in Seq(S) /\ Len(p \o q \o r) = 4
               /\ (p \o q \o r)[1] = p[1] /\ (p \o q \o r)[2] = q[1]
               /\ (p \o q \o r)[3] = q[2] /\ (p \o q \o r)[4] = r[1]
<1>1. PICK u \in Seq(S) : u = p \o q
  BY ConcatFacts
<1>2. /\ Len(u) = Len(p) + Len(q) /\ \A i \in 1..Len(p) : u[i] = p[i]
      /\ \A i \in 1..Len(q) : u[Len(p) + i] = q[i]
  BY <1>1, ConcatFacts
<1>3. PICK v \in Seq(S) : v = u \o r
  BY ConcatFacts
<1>4. /\ Len(v) = Len(u) + Len(r) /\ \A i \in 1..Len(u) : v[i] = u[i]
      /\ \A i \in 1..Len(r) : v[Len(u) + i] = r[i]
  BY <1>3, ConcatFacts
<1>5. ASSUME Len(p) = 1, Len(q) = 2, Len(r) = 1
      PROVE  /\ Len(v) = 4 /\ v[1] = p[1] /\ v[2] = q[1] /\ v[3] = q[2] /\ v[4] = r[1]
  <2>1. Len(u) = 3 /\ u[1] = p[1] /\ u[1 + 1] = q[1] /\ u[1 + 2] = q[2]
    BY <1>2, <1>5
  <2>2. Len(v) = 4 /\ v[1] = u[1] /\ v[2] = u[2] /\ v[3] = u[3] /\ v[3 + 1] = r[1]
    BY <1>4, <1>5, <2>1
  <2> QED BY <2>1, <2>2
<1> QED BY <1>1, <1>3, <1>5

LEMMA FourFacts ==
    ASSUME NEW S, NEW a \in S, NEW b \in S, NEW c \in S, NEW d \in S
    PROVE  LET q == <<a>> \o <<b, c>> \o <<d>>
           IN  /\ q \in Seq(S) /\ Len(q) = 4
               /\ q[1] = a /\ q[2] = b /\ q[3] = c /\ q[4] = d
<1>1. <<a>> \in Seq(S) /\ Len(<<a>>) = 1 /\ <<a>>[1] = a
  OBVIOUS
<1>2. <<b, c>> \in Seq(S) /\ Len(<<b, c>>) = 2 /\ <<b, c>>[1] = b /\ <<b, c>>[2] = c
  OBVIOUS
<1>3. <<d>> \in Seq(S) /\ Len(<<d>>) = 1 /\ <<d>>[1] = d
  OBVIOUS
<1> QED BY <1>1, <1>2, <1>3, JoinFacts

-----------------------------------------------------------------------------
(* What is on a connection.                                                *)

Code == {"200", "204", "403", "404", "500"}
LineOf(is, V) == [is : {is}, val : V, cut : BOOLEAN]
Line ==
    LineOf("request", [keys : KeyLists, permits : BOOLEAN, known : BOOLEAN])
        \cup LineOf("status", Code) \cup LineOf("key", Key) \cup LineOf("part", 1..Whole)
        \cup LineOf("chunk", Chunk) \cup LineOf("chunked", {0}) \cup LineOf("end", {0})
        \cup LineOf("last", {0})

LEMMA LineFacts ==
    ASSUME NEW t \in Line
    PROVE  /\ t.is \in {"request", "status", "key", "part", "chunk", "chunked", "end", "last"}
           /\ t.cut \in BOOLEAN
           /\ t.is = "request" => /\ t.val.keys \in KeyLists
                                  /\ t.val.permits \in BOOLEAN /\ t.val.known \in BOOLEAN
           /\ t.is = "status" => t.val \in Code
           /\ t.is = "key" => t.val \in Key
           /\ t.is = "part" => t.val \in 1..Whole
           /\ t.is = "chunk" => t.val \in Chunk
           /\ [t EXCEPT !.cut = TRUE] \in Line
<1>1. ASSUME NEW is, NEW V, t \in LineOf(is, V)
      PROVE  /\ t.is = is /\ t.val \in V /\ t.cut \in BOOLEAN
             /\ [t EXCEPT !.cut = TRUE] \in LineOf(is, V)
  BY <1>1 DEF LineOf
<1> DEFINE R == [keys : KeyLists, permits : BOOLEAN, known : BOOLEAN]
<1>2. CASE t \in LineOf("request", R)
  <2>1. /\ t.is = "request" /\ t.val \in R /\ t.cut \in BOOLEAN
        /\ [t EXCEPT !.cut = TRUE] \in LineOf("request", R)
    BY <1>1, <1>2
  <2> QED BY <2>1 DEF Line
<1>3. CASE t \in LineOf("status", Code)
  <2>1. /\ t.is = "status" /\ t.val \in Code /\ t.cut \in BOOLEAN
        /\ [t EXCEPT !.cut = TRUE] \in LineOf("status", Code)
    BY <1>1, <1>3
  <2> QED BY <2>1 DEF Line
<1>4. CASE t \in LineOf("key", Key)
  <2>1. /\ t.is = "key" /\ t.val \in Key /\ t.cut \in BOOLEAN
        /\ [t EXCEPT !.cut = TRUE] \in LineOf("key", Key)
    BY <1>1, <1>4
  <2> QED BY <2>1 DEF Line
<1>5. CASE t \in LineOf("part", 1..Whole)
  <2>1. /\ t.is = "part" /\ t.val \in 1..Whole /\ t.cut \in BOOLEAN
        /\ [t EXCEPT !.cut = TRUE] \in LineOf("part", 1..Whole)
    BY <1>1, <1>5
  <2> QED BY <2>1 DEF Line
<1>9. CASE t \in LineOf("chunk", Chunk)
  <2>1. /\ t.is = "chunk" /\ t.val \in Chunk /\ t.cut \in BOOLEAN
        /\ [t EXCEPT !.cut = TRUE] \in LineOf("chunk", Chunk)
    BY <1>1, <1>9
  <2> QED BY <2>1 DEF Line
<1>6. CASE t \in LineOf("chunked", {0})
  <2>1. /\ t.is = "chunked" /\ t.val \in {0} /\ t.cut \in BOOLEAN
        /\ [t EXCEPT !.cut = TRUE] \in LineOf("chunked", {0})
    BY <1>1, <1>6
  <2> QED BY <2>1 DEF Line
<1>7. CASE t \in LineOf("end", {0})
  <2>1. /\ t.is = "end" /\ t.val \in {0} /\ t.cut \in BOOLEAN
        /\ [t EXCEPT !.cut = TRUE] \in LineOf("end", {0})
    BY <1>1, <1>7
  <2> QED BY <2>1 DEF Line
<1>8. CASE t \in LineOf("last", {0})
  <2>1. /\ t.is = "last" /\ t.val \in {0} /\ t.cut \in BOOLEAN
        /\ [t EXCEPT !.cut = TRUE] \in LineOf("last", {0})
    BY <1>1, <1>8
  <2> QED BY <2>1 DEF Line
<1> QED BY <1>2, <1>3, <1>4, <1>5, <1>6, <1>7, <1>8, <1>9 DEF Line

LEMMA TokenType ==
    /\ \A k \in Key : Token("key", k) \in Line
    /\ \A n \in 1..Whole : Token("part", n) \in Line
    /\ \A chunk \in Chunk : Token("chunk", chunk) \in Line
    /\ \A code \in Code : Token("status", code) \in Line
    /\ Token("chunked", 0) \in Line /\ Token("end", 0) \in Line /\ Token("last", 0) \in Line
    /\ \A keys \in KeyLists : \A request \in Requests(keys) : Token("request", request) \in Line
<1>1. \A keys \in KeyLists : \A request \in Requests(keys) :
          request \in [keys : KeyLists, permits : BOOLEAN, known : BOOLEAN]
  BY DEF Requests
<1>2. \A is, val, V : val \in V => Token(is, val) \in LineOf(is, V)
  BY DEF Token, LineOf
<1> QED BY <1>1, <1>2 DEF Line

WireOK == up \in [Call -> Seq(Line)] /\ down \in [Call -> Seq(Line)]

LEMMA SendFacts ==
    ASSUME WireOK, NEW c \in Call, NEW tokens \in Seq(Line), Send(c, tokens)
    PROVE  /\ up' \in [Call -> Seq(Line)]
           /\ \A o \in Call \ {c} : up'[o] = up[o]
           /\ up'[c] = IF lost[c] THEN up[c] ELSE up[c] \o tokens
<1>1. up[c] \o tokens \in Seq(Line)
  BY ConcatFacts DEF WireOK
<1> QED BY <1>1 DEF WireOK, Send

LEMMA ReplyFacts ==
    ASSUME WireOK, NEW c \in Call, NEW tokens \in Seq(Line), Reply(c, tokens)
    PROVE  /\ down' \in [Call -> Seq(Line)]
           /\ \A o \in Call \ {c} : down'[o] = down[o]
           /\ down'[c] = IF lost[c] \/ Left(c) THEN down[c] ELSE down[c] \o tokens
<1>1. down[c] \o tokens \in Seq(Line)
  BY ConcatFacts DEF WireOK
<1> QED BY <1>1 DEF WireOK, Reply

\* One line or chunk is taken off a queue, if there is one.
LEMMA TakeFacts ==
    ASSUME NEW f \in [Call -> Seq(Line)], NEW c \in Call, NEW g,
           g = [f EXCEPT ![c] = IF @ = <<>> THEN @ ELSE Tail(@)]
    PROVE  /\ g \in [Call -> Seq(Line)] /\ \A o \in Call \ {c} : g[o] = f[o]
           /\ f[c] = <<>> => g[c] = <<>>
           /\ f[c] # <<>> => /\ g[c] = Tail(f[c]) /\ Len(f[c]) \in Nat \ {0}
                             /\ Len(g[c]) = Len(f[c]) - 1
                             /\ Head(f[c]) \in Line /\ Head(f[c]) = f[c][1]
                             /\ \A i \in 1..Len(g[c]) : g[c][i] = f[c][i + 1]
<1>1. CASE f[c] = <<>>
  BY <1>1
<1>2. CASE f[c] # <<>>
  <2>1. /\ Tail(f[c]) \in Seq(Line) /\ Len(f[c]) \in Nat \ {0}
        /\ Len(Tail(f[c])) = Len(f[c]) - 1
        /\ Head(f[c]) \in Line /\ Head(f[c]) = f[c][1]
        /\ \A i \in 1..(Len(f[c]) - 1) : Tail(f[c])[i] = f[c][i + 1]
    BY <1>2, TailFacts
  <2> QED BY <1>2, <2>1
<1> QED BY <1>1, <1>2

\* What arrives of a connection that breaks: the last that does may be cut.
Arrived(q, r) ==
    /\ Len(r) <= Len(q)
    /\ \A i \in 1..Len(r) : /\ r[i].is = q[i].is /\ r[i].val = q[i].val
                            /\ r[i].cut => q[i].cut \/ i = Len(r)
LEMMA BreakFacts ==
    ASSUME WireOK, lost \in [Call -> BOOLEAN], NEW c \in Call, BreaksOff(c)
    PROVE  /\ WireOK' /\ lost' \in [Call -> BOOLEAN] /\ lost'[c]
           /\ \A o \in Call \ {c} : up'[o] = up[o] /\ down'[o] = down[o] /\ lost'[o] = lost[o]
           /\ Len(up'[c]) <= Len(up[c]) /\ \A i \in 1..Len(up'[c]) : up'[c][i] = up[c][i]
           /\ Arrived(down[c], down'[c])
<1>1. lost' \in [Call -> BOOLEAN] /\ lost'[c] /\ \A o \in Call \ {c} : lost'[o] = lost[o]
  BY DEF BreaksOff
<1>2. /\ up' \in [Call -> Seq(Line)] /\ \A o \in Call \ {c} : up'[o] = up[o]
      /\ Len(up'[c]) <= Len(up[c]) /\ \A i \in 1..Len(up'[c]) : up'[c][i] = up[c][i]
  <2>1. PICK n \in 0..Len(up[c]) : up' = [up EXCEPT ![c] = SubSeq(@, 1, n)]
    BY DEF BreaksOff
  <2>2. /\ SubSeq(up[c], 1, n) \in Seq(Line) /\ Len(SubSeq(up[c], 1, n)) = n
        /\ \A i \in 1..n : SubSeq(up[c], 1, n)[i] = up[c][i]
    BY PrefixFacts DEF WireOK
  <2> QED BY <2>1, <2>2 DEF WireOK
<1>3. /\ down' \in [Call -> Seq(Line)] /\ \A o \in Call \ {c} : down'[o] = down[o]
      /\ Arrived(down[c], down'[c])
  <2>1. PICK n \in 0..Len(down[c]) :
           \/ down' = [down EXCEPT ![c] = SubSeq(@, 1, n)]
           \/ n > 0 /\ down' = [down EXCEPT ![c] = [SubSeq(@, 1, n) EXCEPT ![n].cut = TRUE]]
    BY DEF BreaksOff
  <2> DEFINE q == SubSeq(down[c], 1, n)
  <2>2. q \in Seq(Line) /\ Len(q) = n /\ \A i \in 1..n : q[i] = down[c][i]
    BY PrefixFacts DEF WireOK
  <2>3. CASE down' = [down EXCEPT ![c] = q]
    BY <2>2, <2>3 DEF WireOK, Arrived
  <2>4. CASE n > 0 /\ down' = [down EXCEPT ![c] = [q EXCEPT ![n].cut = TRUE]]
    <3> DEFINE t == [q[n] EXCEPT !.cut = TRUE]
               r == [q EXCEPT ![n] = t]
    <3>1. q[n] \in Line /\ n \in 1..n
      BY <2>2, <2>4
    <3>2. t \in Line /\ t.is = q[n].is /\ t.val = q[n].val
      BY <3>1, LineFacts DEF Line, LineOf
    <3> HIDE DEF q, t
    <3>3. /\ r \in Seq(Line) /\ Len(r) = n /\ r[n] = t
          /\ \A i \in 1..n : i # n => r[i] = q[i]
      BY <2>2, <3>1, <3>2
    <3>4. down'[c] = r /\ \A o \in Call \ {c} : down'[o] = down[o]
      BY <2>4 DEF WireOK, t
    <3>5. down' \in [Call -> Seq(Line)]
      BY <2>4, <3>3 DEF WireOK, t
    <3>6. Arrived(down[c], r)
      BY <2>2, <3>2, <3>3 DEF Arrived
    <3> QED BY <3>4, <3>5, <3>6
  <2> QED BY <2>1, <2>3, <2>4
<1> QED BY <1>1, <1>2, <1>3 DEF WireOK

-----------------------------------------------------------------------------
(* Type correctness.  A request is read off a connection only because it is *)
(* the first thing on it, so this is part of what is kept.                 *)

Idle(c) == handler[c].pc = "idle"
RequestPlace(c) ==
    /\ client[c].pc = "new" => up[c] = <<>> /\ Idle(c)
    /\ Idle(c) /\ up[c] # <<>> => up[c][1].is = "request"
    /\ client[c].pc = "write" /\ Idle(c) /\ up[c] = <<>> => lost[c]
TypeInv == TypeOK /\ WireOK /\ \A c \in Call : RequestPlace(c)

\* A step of one call leaves the other calls as they are.
Apart(c) ==
    /\ \A o \in Call \ {c} : /\ client'[o] = client[o] /\ handler'[o] = handler[o]
                             /\ up'[o] = up[o] /\ down'[o] = down[o] /\ lost'[o] = lost[o]
    /\ \A o \in Getter \ {c} : feed'[o] = feed[o]
\* What is stored stays; a step stores at most the content of its own call.
Grows(c) == \A k \in Key : stored'[k] = stored[k] \/ stored'[k] = Append(stored[k], c)

LEMMA GoesFacts ==
    ASSUME TypeOK, NEW c \in Call, NEW pc, Goes(c, pc),
           pc \in {"new", "status", "headers", "body", "write"} \cup Final
    PROVE  /\ client' \in [Call -> ClientCall] /\ \A o \in Call \ {c} : client'[o] = client[o]
           /\ client'[c].pc = pc /\ client'[c].keys = client[c].keys
           /\ client'[c].key = client[c].key /\ client'[c].chunked = client[c].chunked
           /\ client'[c].n = client[c].n /\ client'[c].held = client[c].held
  BY DEF TypeOK, ClientCall, Goes

LEMMA BeginFacts ==
    ASSUME TypeOK, NEW c \in Call, NEW keys \in KeyLists, NEW pc, Begin(c, keys, pc),
           pc \in {"new", "status", "headers", "body", "write"} \cup Final
    PROVE  /\ client' \in [Call -> ClientCall] /\ \A o \in Call \ {c} : client'[o] = client[o]
           /\ client'[c].pc = pc /\ client'[c].keys = keys /\ client'[c].held = Entries
           /\ client'[c].key = client[c].key /\ client'[c].chunked = client[c].chunked
           /\ client'[c].n = client[c].n
<1> DEFINE E == Entries
<1>1. E \in SUBSET Key
  BY DEF Entries
<1>2. client' = [client EXCEPT ![c].pc = pc, ![c].keys = keys, ![c].held = E]
  BY DEF Begin
<1> HIDE DEF E
<1> QED BY <1>1, <1>2 DEF TypeOK, ClientCall, E

LEMMA AnswersFacts ==
    ASSUME TypeOK, WireOK, NEW c \in Call, NEW code \in Code, Answers(c, code)
    PROVE  /\ handler' \in [Call -> Request] /\ \A o \in Call \ {c} : handler'[o] = handler[o]
           /\ handler'[c].pc = "done" /\ handler'[c].n = handler[c].n
           /\ handler'[c].content = handler[c].content
           /\ down' \in [Call -> Seq(Line)] /\ \A o \in Call \ {c} : down'[o] = down[o]
           /\ down'[c] = IF lost[c] \/ Left(c) THEN down[c]
                         ELSE down[c] \o <<Token("status", code)>>
<1>1. <<Token("status", code)>> \in Seq(Line)
  BY TokenType
<1>2. Reply(c, <<Token("status", code)>>)
  BY DEF Answers
<1>3. /\ down' \in [Call -> Seq(Line)] /\ \A o \in Call \ {c} : down'[o] = down[o]
      /\ down'[c] = IF lost[c] \/ Left(c) THEN down[c]
                    ELSE down[c] \o <<Token("status", code)>>
  BY <1>1, <1>2, ReplyFacts
<1>4. /\ handler' \in [Call -> Request] /\ \A o \in Call \ {c} : handler'[o] = handler[o]
      /\ handler'[c].pc = "done" /\ handler'[c].n = handler[c].n
      /\ handler'[c].content = handler[c].content
  BY DEF Answers, TypeOK, Request
<1> QED BY <1>3, <1>4

LEMMA ConnectsFacts ==
    ASSUME TypeOK, WireOK, NEW c \in Call, NEW keys \in KeyLists, NEW pc \in {"status", "write"},
           Connects(c, keys, pc)
    PROVE  /\ client' \in [Call -> ClientCall] /\ \A o \in Call \ {c} : client'[o] = client[o]
           /\ client'[c].keys = keys /\ client'[c].key = client[c].key
           /\ client'[c].chunked = client[c].chunked /\ client'[c].n = client[c].n
           /\ client'[c].held = Entries
           /\ up' \in [Call -> Seq(Line)] /\ \A o \in Call \ {c} : up'[o] = up[o]
           /\ faults' \in 0..MaxFaults
           /\ \/ client'[c].pc = "err" /\ up'[c] = up[c]
              \/ /\ client'[c].pc = pc
                 /\ \/ lost[c] /\ up'[c] = up[c]
                    \/ /\ ~lost[c]
                       /\ \E t \in Line : /\ t.is = "request" /\ t.val.keys = keys
                                           /\ up'[c] = up[c] \o <<t>>
<1>1. CASE \E request \in Requests(keys) :
              /\ Begin(c, keys, pc)
              /\ Send(c, <<Token("request", request)>>) /\ UNCHANGED faults
  <2>1. PICK request \in Requests(keys) :
              /\ Begin(c, keys, pc)
              /\ Send(c, <<Token("request", request)>>) /\ UNCHANGED faults
    BY <1>1
  <2> DEFINE t == Token("request", request)
  <2>2. t \in Line /\ t.is = "request" /\ t.val.keys = keys
    BY TokenType DEF Token, Requests
  <2>3. <<t>> \in Seq(Line)
    BY <2>2
  <2> HIDE DEF t
  <2>4. Send(c, <<t>>)
    BY <2>1 DEF t
  <2>5. /\ up' \in [Call -> Seq(Line)] /\ \A o \in Call \ {c} : up'[o] = up[o]
        /\ up'[c] = IF lost[c] THEN up[c] ELSE up[c] \o <<t>>
    BY <2>3, <2>4, SendFacts
  <2>6. /\ client' \in [Call -> ClientCall] /\ \A o \in Call \ {c} : client'[o] = client[o]
        /\ client'[c].keys = keys /\ client'[c].key = client[c].key /\ client'[c].pc = pc
        /\ client'[c].chunked = client[c].chunked /\ client'[c].n = client[c].n
        /\ client'[c].held = Entries
    BY <2>1, BeginFacts
  <2>7. faults' \in 0..MaxFaults
    BY <2>1 DEF TypeOK
  <2> QED BY <2>2, <2>5, <2>6, <2>7
<1>2. CASE Begin(c, keys, "err") /\ Fault /\ UNCHANGED up
  <2>1. /\ client' \in [Call -> ClientCall] /\ \A o \in Call \ {c} : client'[o] = client[o]
        /\ client'[c].keys = keys /\ client'[c].key = client[c].key /\ client'[c].pc = "err"
        /\ client'[c].chunked = client[c].chunked /\ client'[c].n = client[c].n
        /\ client'[c].held = Entries
    BY <1>2, BeginFacts DEF Final
  <2>2. faults' \in 0..MaxFaults
    BY <1>2, BoundsAssumption DEF TypeOK, Fault
  <2> QED BY <1>2, <2>1, <2>2 DEF WireOK
<1> QED BY <1>1, <1>2 DEF Connects

\* What a step of the call c has to do to keep the type invariant.
StepOK(c) == TypeOK' /\ WireOK' /\ Apart(c) /\ Grows(c) /\ RequestPlace(c)'

LEMMA GetStartOK ==
    ASSUME TypeInv, NEW c \in Getter, GetStart(c) PROVE StepOK(c)
<1> c \in Call
  BY DEF Call
<1>1. /\ TypeOK /\ WireOK /\ RequestPlace(c) /\ up[c] = <<>> /\ Idle(c)
      /\ UNCHANGED <<server, down, lost>>
  BY DEF TypeInv, GetStart, RequestPlace
<1>2. PICK keys \in KeyLists :
          \/ keys # <<>> /\ Connects(c, keys, "status")
          \/ keys = <<>> /\ Begin(c, keys, "miss") /\ UNCHANGED <<up, faults>>
  BY DEF GetStart
<1>3. CASE Connects(c, keys, "status")
  <2>1. /\ client' \in [Call -> ClientCall] /\ \A o \in Call \ {c} : client'[o] = client[o]
        /\ client'[c].pc \in {"err", "status"}
        /\ up' \in [Call -> Seq(Line)] /\ \A o \in Call \ {c} : up'[o] = up[o]
        /\ faults' \in 0..MaxFaults
        /\ \/ up'[c] = up[c]
           \/ \E t \in Line : t.is = "request" /\ up'[c] = up[c] \o <<t>>
    BY <1>1, <1>3, ConnectsFacts
  <2>2. TypeOK'
    BY <1>1, <2>1 DEF TypeOK, server
  <2>3. WireOK' /\ Apart(c) /\ Grows(c)
    BY <1>1, <2>1 DEF WireOK, Apart, Grows, server
  <2>4. up'[c] # <<>> => up'[c][1].is = "request"
    BY <1>1, <2>1
  <2>5. RequestPlace(c)'
    BY <1>1, <2>1, <2>4 DEF RequestPlace, Idle, server
  <2> QED BY <2>2, <2>3, <2>5 DEF StepOK
<1>4. CASE Begin(c, keys, "miss") /\ UNCHANGED <<up, faults>>
  <2>1. /\ client' \in [Call -> ClientCall] /\ \A o \in Call \ {c} : client'[o] = client[o]
        /\ client'[c].pc = "miss"
    BY <1>1, <1>4, BeginFacts DEF Final
  <2>2. TypeOK'
    BY <1>1, <1>4, <2>1 DEF TypeOK, server
  <2>3. WireOK' /\ Apart(c) /\ Grows(c)
    BY <1>1, <1>4, <2>1 DEF WireOK, Apart, Grows, server
  <2>5. RequestPlace(c)'
    BY <1>1, <1>4, <2>1 DEF RequestPlace, Idle, server
  <2> QED BY <2>2, <2>3, <2>5 DEF StepOK
<1> QED BY <1>2, <1>3, <1>4

LEMMA SetStartOK ==
    ASSUME TypeInv, NEW c \in Setter, SetStart(c) PROVE StepOK(c)
<1> c \in Call
  BY DEF Call
<1>1. /\ TypeOK /\ WireOK /\ RequestPlace(c) /\ up[c] = <<>> /\ Idle(c)
      /\ UNCHANGED <<server, down, lost>>
  BY DEF TypeInv, SetStart, RequestPlace
<1>2. PICK keys \in KeyLists : Connects(c, keys, "write")
  BY DEF SetStart
<1>3. /\ client' \in [Call -> ClientCall] /\ \A o \in Call \ {c} : client'[o] = client[o]
      /\ up' \in [Call -> Seq(Line)] /\ \A o \in Call \ {c} : up'[o] = up[o]
      /\ faults' \in 0..MaxFaults
      /\ \/ client'[c].pc = "err" /\ up'[c] = up[c]
         \/ /\ client'[c].pc = "write"
            /\ \/ lost[c] /\ up'[c] = up[c]
               \/ \E t \in Line : t.is = "request" /\ up'[c] = up[c] \o <<t>>
  BY <1>1, <1>2, ConnectsFacts
<1>4. TypeOK'
  BY <1>1, <1>3 DEF TypeOK, server
<1>5. WireOK' /\ Apart(c) /\ Grows(c)
  BY <1>1, <1>3 DEF WireOK, Apart, Grows, server
<1>6. /\ up'[c] # <<>> => up'[c][1].is = "request"
      /\ up'[c] = <<>> => lost[c] \/ client'[c].pc = "err"
  <2>1. CASE up'[c] = up[c]
    BY <1>1, <1>3, <2>1
  <2>2. ASSUME NEW t \in Line, t.is = "request", up'[c] = up[c] \o <<t>>
        PROVE  up'[c] # <<>> /\ up'[c][1].is = "request"
    BY <1>1, <2>2
  <2> QED BY <1>3, <2>1, <2>2
<1>7. RequestPlace(c)'
  BY <1>1, <1>3, <1>6 DEF RequestPlace, Idle, server
<1> QED BY <1>4, <1>5, <1>7 DEF StepOK

\* The client takes something off the connection, and nothing else happens to it.
LEMMA ReadOK ==
    ASSUME TypeInv, NEW c \in Call,
           client[c].pc \notin {"new", "write"}, client'[c].pc \notin {"new", "write"},
           client' \in [Call -> ClientCall], \A o \in Call \ {c} : client'[o] = client[o],
           down' \in [Call -> Seq(Line)], \A o \in Call \ {c} : down'[o] = down[o],
           UNCHANGED <<server, up, lost, faults>>
    PROVE  StepOK(c)
<1>1. TypeOK /\ WireOK /\ RequestPlace(c)
  BY DEF TypeInv
<1>2. TypeOK'
  BY <1>1 DEF TypeOK, server
<1>3. WireOK' /\ Apart(c) /\ Grows(c)
  BY <1>1 DEF WireOK, Apart, Grows, server
<1>4. RequestPlace(c)'
  BY <1>1 DEF RequestPlace, Idle, server
<1> QED BY <1>2, <1>3, <1>4 DEF StepOK

LEMMA ReadStatusOK ==
    ASSUME TypeInv, NEW c \in Call, ReadStatus(c) PROVE StepOK(c)
<1>1. /\ TypeOK /\ WireOK /\ client[c].pc = "status" /\ UNCHANGED <<server, up, lost, faults>>
  BY DEF TypeInv, ReadStatus
<1> DEFINE PCs == {"ok", "miss", "headers", "err", "panic"}
<1>2. PICK pc \in PCs : Goes(c, pc)
  <2>1. \A code : GetAnswer(code) \in PCs /\ SetAnswer(code) \in PCs
    BY DEF GetAnswer, SetAnswer
  <2>2. ASSUME down[c] # <<>>,
               LET t == Head(down[c])
                   answer == IF c \in Getter THEN GetAnswer(t.val) ELSE SetAnswer(t.val)
               IN  \E pc \in {answer} \cup (IF t.cut THEN {"err", "panic"} ELSE {}) : Goes(c, pc)
        PROVE  \E pc \in PCs : Goes(c, pc)
    BY <2>1, <2>2
  <2> QED BY <2>2 DEF ReadStatus
<1>3. /\ client' \in [Call -> ClientCall] /\ \A o \in Call \ {c} : client'[o] = client[o]
      /\ client'[c].pc = pc
  BY <1>1, <1>2, GoesFacts DEF Final
<1>4. down' = down \/ (down[c] # <<>> /\ down' = [down EXCEPT ![c] = Tail(@)])
  BY DEF ReadStatus
<1>5. down' \in [Call -> Seq(Line)] /\ \A o \in Call \ {c} : down'[o] = down[o]
  <2>1. down[c] # <<>> => Tail(down[c]) \in Seq(Line)
    BY <1>1, TailFacts DEF WireOK
  <2> QED BY <1>1, <1>4, <2>1 DEF WireOK
<1> QED BY <1>1, <1>3, <1>5, ReadOK

LEMMA NamedFacts ==
    ASSUME NEW keys \in KeyLists \cup {<<>>}, NEW k
    PROVE  /\ Named(keys, k) \in Key \cup {Absent} /\ Named(keys, k) \in {k, Absent}
  BY KeyAssumption DEF Named

\* What the header that is read next may be.
LEMMA ReadHeaderCases ==
    ASSUME TypeInv, NEW c \in Getter, ReadHeader(c)
    PROVE  /\ client[c].pc = "headers" /\ UNCHANGED <<server, up, lost, faults>>
           /\ down' = [down EXCEPT ![c] = IF @ = <<>> THEN @ ELSE Tail(@)]
           /\ client' \in [Call -> ClientCall] /\ \A o \in Call \ {c} : client'[o] = client[o]
           /\ client'[c].keys = client[c].keys /\ client'[c].n = client[c].n
           /\ \/ /\ IF down[c] = <<>> THEN ClientSeesEnd(c) ELSE Head(down[c]).is = "end"
                 /\ client'[c].pc = IF client[c].key = Absent THEN "err" ELSE "body"
                 /\ client'[c].key = client[c].key /\ client'[c].chunked = client[c].chunked
              \/ /\ down[c] # <<>> /\ Head(down[c]).is = "key"
                 /\ client'[c].key \in {Head(down[c]).val, Absent} \/ Head(down[c]).cut
                 /\ client'[c].pc = "headers" /\ client'[c].chunked = client[c].chunked
              \/ /\ down[c] # <<>> /\ Head(down[c]).is = "chunked" /\ client'[c].chunked
                 /\ client'[c].pc = "headers" /\ client'[c].key = client[c].key
              \/ /\ client'[c].pc = "err" /\ client'[c].key = client[c].key
                 /\ client'[c].chunked = client[c].chunked
<1> c \in Call
  BY DEF Call
<1>1. /\ TypeOK /\ WireOK /\ client[c].pc = "headers" /\ UNCHANGED <<server, up, lost, faults>>
      /\ down' = [down EXCEPT ![c] = IF @ = <<>> THEN @ ELSE Tail(@)]
  BY DEF TypeInv, ReadHeader
<1>2. CASE /\ IF down[c] = <<>> THEN ClientSeesEnd(c) ELSE Head(down[c]).is = "end"
           /\ Goes(c, IF client[c].key = Absent THEN "err" ELSE "body")
  <2> DEFINE pc == IF client[c].key = Absent THEN "err" ELSE "body"
  <2>1. Goes(c, pc) /\ pc \in {"new", "status", "headers", "body", "write"} \cup Final
    BY <1>2 DEF Final
  <2> HIDE DEF pc
  <2>2. /\ client' \in [Call -> ClientCall] /\ \A o \in Call \ {c} : client'[o] = client[o]
        /\ client'[c].pc = pc /\ client'[c].keys = client[c].keys
        /\ client'[c].key = client[c].key /\ client'[c].chunked = client[c].chunked
        /\ client'[c].n = client[c].n
    BY <1>1, <2>1, GoesFacts
  <2> QED BY <1>1, <1>2, <2>2 DEF pc
<1>3. CASE /\ down[c] # <<>> /\ Head(down[c]).is = "key"
           /\ LET t == Head(down[c])
                  texts == {t.val} \cup (IF t.cut THEN Begins[t.val] \cup {Absent} ELSE {})
              IN  \E k \in texts : client' = [client EXCEPT ![c].key = Named(client[c].keys, k)]
  <2>1. PICK k : /\ client' = [client EXCEPT ![c].key = Named(client[c].keys, k)]
                 /\ k = Head(down[c]).val \/ Head(down[c]).cut
    <3>1. Head(down[c]) \in Line
      BY <1>1, <1>3, TailFacts DEF WireOK
    <3>2. Head(down[c]).cut \in BOOLEAN
      BY <3>1, LineFacts
    <3> QED BY <1>3, <3>2
  <2> DEFINE key == Named(client[c].keys, k)
  <2>2. key \in Key \cup {Absent} /\ key \in {k, Absent}
    <3>1. client[c].keys \in KeyLists \cup {<<>>}
      BY <1>1 DEF TypeOK, ClientCall
    <3> QED BY <3>1, NamedFacts
  <2> HIDE DEF key
  <2>3. client' = [client EXCEPT ![c].key = key]
    BY <2>1 DEF key
  <2>4. /\ client' \in [Call -> ClientCall] /\ \A o \in Call \ {c} : client'[o] = client[o]
        /\ client'[c].pc = client[c].pc /\ client'[c].keys = client[c].keys
        /\ client'[c].key = key /\ client'[c].chunked = client[c].chunked
        /\ client'[c].n = client[c].n
    BY <1>1, <2>2, <2>3 DEF TypeOK, ClientCall
  <2>5. client'[c].key \in {Head(down[c]).val, Absent} \/ Head(down[c]).cut
    BY <2>1, <2>2, <2>4
  <2> QED BY <1>1, <1>3, <2>4, <2>5
<1>4. CASE /\ down[c] # <<>> /\ Head(down[c]).is = "chunked"
           /\ client' = [client EXCEPT ![c].chunked = TRUE]
  <2>1. /\ client' \in [Call -> ClientCall] /\ \A o \in Call \ {c} : client'[o] = client[o]
        /\ client'[c].pc = client[c].pc /\ client'[c].keys = client[c].keys
        /\ client'[c].key = client[c].key /\ client'[c].chunked = TRUE
        /\ client'[c].n = client[c].n
    BY <1>1, <1>4 DEF TypeOK, ClientCall
  <2> QED BY <1>1, <1>4, <2>1
<1>5. CASE Goes(c, "err")
  <2>1. /\ client' \in [Call -> ClientCall] /\ \A o \in Call \ {c} : client'[o] = client[o]
        /\ client'[c].pc = "err" /\ client'[c].keys = client[c].keys
        /\ client'[c].key = client[c].key /\ client'[c].chunked = client[c].chunked
        /\ client'[c].n = client[c].n
    BY <1>1, <1>5, GoesFacts DEF Final
  <2> QED BY <1>1, <2>1
<1> QED BY <1>2, <1>3, <1>4, <1>5 DEF ReadHeader

LEMMA ReadHeaderOK ==
    ASSUME TypeInv, NEW c \in Getter, ReadHeader(c) PROVE StepOK(c)
<1> c \in Call
  BY DEF Call
<1>1. /\ client[c].pc = "headers" /\ UNCHANGED <<server, up, lost, faults>>
      /\ down' = [down EXCEPT ![c] = IF @ = <<>> THEN @ ELSE Tail(@)]
      /\ client' \in [Call -> ClientCall] /\ \A o \in Call \ {c} : client'[o] = client[o]
      /\ client'[c].pc \in {"err", "body", "headers"}
  BY ReadHeaderCases
<1>2. down' \in [Call -> Seq(Line)] /\ \A o \in Call \ {c} : down'[o] = down[o]
  BY <1>1, TakeFacts DEF TypeInv, WireOK
<1> QED BY <1>1, <1>2, ReadOK

\* What a read of the body may be.
LEMMA ReadBodyCases ==
    ASSUME TypeInv, NEW c \in Getter, ReadBody(c)
    PROVE  /\ client[c].pc = "body" /\ UNCHANGED <<server, up, lost, faults>>
           /\ down' = [down EXCEPT ![c] = IF @ = <<>> THEN @ ELSE Tail(@)]
           /\ client' \in [Call -> ClientCall] /\ \A o \in Call \ {c} : client'[o] = client[o]
           /\ client'[c].key = client[c].key /\ client'[c].chunked = client[c].chunked
           /\ \/ /\ ~client[c].chunked /\ client'[c].pc = "hit" /\ client'[c].n = client[c].n
              \/ /\ client'[c].pc = "err" /\ client'[c].n = client[c].n
              \/ /\ down[c] # <<>> /\ Head(down[c]).is = "chunk" /\ ~Head(down[c]).cut
                 /\ client'[c].pc = "body" /\ client'[c].n = Head(down[c]).val.to
              \/ /\ down[c] # <<>> /\ (Head(down[c]).is = "last" \/ Head(down[c]).cut)
                 /\ client'[c].pc \in {"hit", "err"} /\ client'[c].n = client[c].n
<1> c \in Call
  BY DEF Call
<1>1. /\ TypeOK /\ WireOK /\ client[c].pc = "body" /\ UNCHANGED <<server, up, lost, faults>>
      /\ down' = [down EXCEPT ![c] = IF @ = <<>> THEN @ ELSE Tail(@)]
  BY DEF TypeInv, ReadBody
<1>2. ASSUME NEW pc \in {"hit", "err"}, Goes(c, pc)
      PROVE  /\ client' \in [Call -> ClientCall]
             /\ \A o \in Call \ {c} : client'[o] = client[o] /\ client'[c].pc = pc
             /\ client'[c].key = client[c].key /\ client'[c].chunked = client[c].chunked
             /\ client'[c].n = client[c].n /\ client'[c].pc = pc
  BY <1>1, <1>2, GoesFacts DEF Final
<1>3. CASE ~client[c].chunked /\ Goes(c, "hit")
  <2>1. /\ client' \in [Call -> ClientCall] /\ \A o \in Call \ {c} : client'[o] = client[o]
        /\ client'[c].key = client[c].key /\ client'[c].chunked = client[c].chunked
        /\ client'[c].n = client[c].n /\ client'[c].pc = "hit"
    BY <1>2, <1>3
  <2> QED BY <1>1, <1>3, <2>1
<1>4. CASE Goes(c, "err")
  <2>1. /\ client' \in [Call -> ClientCall] /\ \A o \in Call \ {c} : client'[o] = client[o]
        /\ client'[c].key = client[c].key /\ client'[c].chunked = client[c].chunked
        /\ client'[c].n = client[c].n /\ client'[c].pc = "err"
    BY <1>2, <1>4
  <2> QED BY <1>1, <2>1
<1>5. CASE /\ down[c] # <<>> /\ Head(down[c]).is = "chunk" /\ ~Head(down[c]).cut
           /\ client' = [client EXCEPT ![c].n = Head(down[c]).val.to]
  <2> DEFINE n == Head(down[c]).val.to
  <2>1. n \in 0..Whole
    <3>1. Head(down[c]) \in Line
      BY <1>1, <1>5, TailFacts DEF WireOK
    <3>2. Head(down[c]).val \in Chunk
      BY <1>5, <3>1, LineFacts
    <3> QED BY <3>2 DEF Chunk
  <2>2. client' = [client EXCEPT ![c].n = n]
    BY <1>5
  <2> HIDE DEF n
  <2>3. /\ client' \in [Call -> ClientCall] /\ \A o \in Call \ {c} : client'[o] = client[o]
        /\ client'[c].key = client[c].key /\ client'[c].chunked = client[c].chunked
        /\ client'[c].n = n /\ client'[c].pc = client[c].pc
    BY <1>1, <2>1, <2>2 DEF TypeOK, ClientCall
  <2> QED BY <1>1, <1>5, <2>3 DEF n
<1>6. CASE /\ down[c] # <<>> /\ (Head(down[c]).is = "last" \/ Head(down[c]).cut)
           /\ \E pc \in {"hit", "err"} : Goes(c, pc)
  <2>1. PICK pc \in {"hit", "err"} : Goes(c, pc)
    BY <1>6
  <2>2. /\ client' \in [Call -> ClientCall] /\ \A o \in Call \ {c} : client'[o] = client[o]
        /\ client'[c].key = client[c].key /\ client'[c].chunked = client[c].chunked
        /\ client'[c].n = client[c].n /\ client'[c].pc = pc
    BY <1>2, <2>1
  <2> QED BY <1>1, <1>6, <2>2
<1> QED BY <1>3, <1>4, <1>5, <1>6 DEF ReadBody

LEMMA ReadBodyOK ==
    ASSUME TypeInv, NEW c \in Getter, ReadBody(c) PROVE StepOK(c)
<1> c \in Call
  BY DEF Call
<1>1. /\ client[c].pc = "body" /\ UNCHANGED <<server, up, lost, faults>>
      /\ down' = [down EXCEPT ![c] = IF @ = <<>> THEN @ ELSE Tail(@)]
      /\ client' \in [Call -> ClientCall] /\ \A o \in Call \ {c} : client'[o] = client[o]
      /\ client'[c].pc \in {"hit", "err", "body"}
  BY ReadBodyCases
<1>2. down' \in [Call -> Seq(Line)] /\ \A o \in Call \ {c} : down'[o] = down[o]
  BY <1>1, TakeFacts DEF TypeInv, WireOK
<1> QED BY <1>1, <1>2, ReadOK

LEMMA GiveUpOK ==
    ASSUME TypeInv, NEW c \in Getter, GiveUp(c) PROVE StepOK(c)
<1> c \in Call
  BY DEF Call
<1>1. /\ client[c].pc = "body" /\ UNCHANGED <<server, up, down, lost, faults>>
      /\ TypeOK /\ WireOK
  BY DEF GiveUp, TypeInv
<1>2. /\ client' \in [Call -> ClientCall] /\ \A o \in Call \ {c} : client'[o] = client[o]
      /\ client'[c].pc = "gone"
  BY <1>1, GoesFacts DEF GiveUp, Final
<1> QED BY <1>1, <1>2, ReadOK DEF WireOK

\* The writer puts something behind what it has put on the connection before.
LEMMA SentOK ==
    ASSUME TypeInv, NEW c \in Setter, client[c].pc = "write", NEW t \in Line, Send(c, <<t>>),
           client' \in [Call -> ClientCall], \A o \in Call \ {c} : client'[o] = client[o],
           client'[c].pc # "new", UNCHANGED <<server, down, lost, faults>>
    PROVE  /\ StepOK(c)
           /\ up'[c] = IF lost[c] THEN up[c] ELSE up[c] \o <<t>>
<1> c \in Call
  BY DEF Call
<1>1. /\ TypeOK /\ WireOK /\ RequestPlace(c)
  BY DEF TypeInv
<1>2. /\ up' \in [Call -> Seq(Line)] /\ \A o \in Call \ {c} : up'[o] = up[o]
      /\ up'[c] = IF lost[c] THEN up[c] ELSE up[c] \o <<t>>
  <2>1. <<t>> \in Seq(Line)
    OBVIOUS
  <2> QED BY <1>1, <2>1, SendFacts
<1>3. TypeOK'
  BY <1>1 DEF TypeOK, server
<1>4. WireOK' /\ Apart(c) /\ Grows(c)
  BY <1>1, <1>2 DEF WireOK, Apart, Grows, server
<1>5. RequestPlace(c)'
  <2>1. CASE lost[c]
    <3>1. up'[c] = up[c] /\ lost'[c] /\ handler'[c] = handler[c]
      BY <1>2, <2>1 DEF server
    <3> QED BY <1>1, <3>1 DEF RequestPlace, Idle
  <2>2. CASE ~lost[c]
    <3>1. up'[c] # <<>> /\ (up[c] # <<>> => up'[c][1] = up[c][1])
      <4>1. up[c] \in Seq(Line) /\ <<t>> \in Seq(Line) /\ Len(<<t>>) = 1
        BY <1>1 DEF WireOK
      <4>2. /\ Len(up'[c]) = Len(up[c]) + 1
            /\ \A i \in 1..Len(up[c]) : up'[c][i] = up[c][i]
        BY <1>2, <2>2, <4>1, ConcatFacts
      <4> QED BY <4>1, <4>2
    <3>2. Idle(c) => up[c] # <<>>
      BY <1>1, <2>2 DEF RequestPlace
    <3> QED BY <1>1, <3>1, <3>2 DEF RequestPlace, Idle, server
  <2> QED BY <1>1, <2>1, <2>2 DEF TypeOK
<1> QED BY <1>2, <1>3, <1>4, <1>5 DEF StepOK

LEMMA WritePartOK ==
    ASSUME TypeInv, NEW c \in Setter, WritePart(c)
    PROVE  /\ StepOK(c) /\ client[c].pc = "write" /\ client[c].n < Whole
           /\ client'[c].pc = "write" /\ client'[c].n = client[c].n + 1
           /\ up'[c] = IF lost[c] THEN up[c] ELSE up[c] \o <<Token("part", client[c].n + 1)>>
<1> c \in Call
  BY DEF Call
<1> DEFINE t == Token("part", client[c].n + 1)
<1>1. /\ TypeOK /\ client[c].pc = "write" /\ client[c].n < Whole /\ client[c].n \in 0..Whole
      /\ Send(c, <<t>>) /\ UNCHANGED <<server, down, lost, faults>>
  BY DEF TypeInv, TypeOK, ClientCall, WritePart
<1>2. t \in Line
  <2>1. client[c].n + 1 \in 1..Whole
    BY <1>1, BoundsAssumption
  <2> QED BY <2>1, TokenType
<1>3. /\ client' \in [Call -> ClientCall] /\ \A o \in Call \ {c} : client'[o] = client[o]
      /\ client'[c].pc = "write" /\ client'[c].n = client[c].n + 1
  <2>1. client' = [client EXCEPT ![c].n = @ + 1] /\ client[c].n + 1 \in 0..Whole
    BY <1>1, BoundsAssumption DEF WritePart
  <2> QED BY <1>1, <2>1 DEF TypeOK, ClientCall
<1> HIDE DEF t
<1>4. StepOK(c) /\ up'[c] = IF lost[c] THEN up[c] ELSE up[c] \o <<t>>
  BY <1>1, <1>2, <1>3, SentOK
<1> QED BY <1>1, <1>3, <1>4 DEF t

LEMMA CloseOK ==
    ASSUME TypeInv, NEW c \in Setter, Close(c)
    PROVE  /\ StepOK(c) /\ client[c].pc = "write" /\ client[c].n = Whole
           /\ client'[c].pc = "status" /\ client'[c].n = Whole
           /\ up'[c] = IF lost[c] THEN up[c] ELSE up[c] \o <<Token("last", 0)>>
<1> c \in Call
  BY DEF Call
<1> DEFINE t == Token("last", 0)
<1>1. /\ TypeOK /\ client[c].pc = "write" /\ client[c].n = Whole
      /\ Send(c, <<t>>) /\ UNCHANGED <<server, down, lost, faults>>
  BY DEF TypeInv, Close
<1>2. t \in Line
  BY TokenType
<1>3. /\ client' \in [Call -> ClientCall] /\ \A o \in Call \ {c} : client'[o] = client[o]
      /\ client'[c].pc = "status" /\ client'[c].n = client[c].n
  BY <1>1, GoesFacts DEF Close
<1> HIDE DEF t
<1>4. StepOK(c) /\ up'[c] = IF lost[c] THEN up[c] ELSE up[c] \o <<t>>
  BY <1>1, <1>2, <1>3, SentOK
<1> QED BY <1>1, <1>3, <1>4 DEF t

LEMMA DropOK ==
    ASSUME TypeInv, NEW c \in Setter, Drop(c)
    PROVE  /\ StepOK(c) /\ client[c].pc = "write" /\ client'[c].pc \in {"gone", "err"}
           /\ client'[c].n = client[c].n /\ UNCHANGED <<server, up, lost>>
<1> c \in Call
  BY DEF Call
<1>1. /\ TypeOK /\ WireOK /\ RequestPlace(c)
      /\ client[c].pc = "write" /\ UNCHANGED <<server, up, down, lost, faults>>
  BY DEF TypeInv, Drop
<1>2. /\ client' \in [Call -> ClientCall] /\ \A o \in Call \ {c} : client'[o] = client[o]
      /\ client'[c].pc \in {"gone", "err"} /\ client'[c].n = client[c].n
  <2>1. PICK pc \in {"gone", "err"} : Goes(c, pc)
    BY DEF Drop
  <2>2. /\ client' \in [Call -> ClientCall] /\ \A o \in Call \ {c} : client'[o] = client[o]
        /\ client'[c].pc = pc /\ client'[c].n = client[c].n
    BY <1>1, <2>1, GoesFacts DEF Final
  <2> QED BY <2>2
<1>3. TypeOK'
  BY <1>1, <1>2 DEF TypeOK, server
<1>4. WireOK' /\ Apart(c) /\ Grows(c)
  BY <1>1, <1>2 DEF WireOK, Apart, Grows, server
<1>5. RequestPlace(c)'
  BY <1>1, <1>2 DEF RequestPlace, Idle, server
<1> QED BY <1>1, <1>2, <1>3, <1>4, <1>5 DEF StepOK

-----------------------------------------------------------------------------
(* The server's side.                                                      *)

\* Only a request is taken for a request.
LEMMA ArrivesFacts ==
    ASSUME TypeInv, NEW c \in Call, Arrives(c)
    PROVE  /\ RequestOf(c).keys \in KeyLists
           /\ Refusals(RequestOf(c)) \subseteq Code \ {"200", "204"}
           /\ Idle(c) /\ up[c] # <<>> /\ client[c].pc # "new"
           /\ up' \in [Call -> Seq(Line)] /\ \A o \in Call \ {c} : up'[o] = up[o]
           /\ up'[c] = Tail(up[c])
<1>1. /\ WireOK /\ RequestPlace(c) /\ Idle(c) /\ up[c] # <<>>
      /\ up' = [up EXCEPT ![c] = Tail(@)]
  BY DEF TypeInv, Arrives, Idle
<1>2. Tail(up[c]) \in Seq(Line) /\ Head(up[c]) \in Line /\ Head(up[c]) = up[c][1]
  BY <1>1, TailFacts DEF WireOK
<1>3. Head(up[c]).is = "request"
  BY <1>1, <1>2 DEF RequestPlace
<1>4. RequestOf(c).keys \in KeyLists
  BY <1>2, <1>3, LineFacts DEF RequestOf
<1>5. Refusals(RequestOf(c)) \subseteq Code \ {"200", "204"}
  BY DEF Refusals, Code
<1>6. client[c].pc # "new"
  BY <1>1 DEF RequestPlace
<1> QED BY <1>1, <1>2, <1>4, <1>5, <1>6 DEF WireOK

\* A step of the server that keeps the client's side as it is.
LEMMA ServerOK ==
    ASSUME TypeInv, NEW c \in Call, client[c].pc # "new",
           stored' \in [Key -> Seq(Setter)], Grows(c),
           handler' \in [Call -> Request], \A o \in Call \ {c} : handler'[o] = handler[o],
           handler'[c].pc # "idle",
           feed' \in [Getter -> Adapter], \A o \in Getter \ {c} : feed'[o] = feed[o],
           \A g \in Getter : Len(feed'[g].channel) <= Capacity,
           up' \in [Call -> Seq(Line)], \A o \in Call \ {c} : up'[o] = up[o],
           down' \in [Call -> Seq(Line)], \A o \in Call \ {c} : down'[o] = down[o],
           lost' \in [Call -> BOOLEAN], \A o \in Call \ {c} : lost'[o] = lost[o],
           UNCHANGED client, faults' \in 0..MaxFaults
    PROVE  StepOK(c)
<1>1. TypeOK'
  BY DEF TypeInv, TypeOK
<1>2. WireOK' /\ Apart(c)
  BY DEF WireOK, Apart
<1>3. RequestPlace(c)'
  BY DEF RequestPlace, Idle
<1> QED BY <1>1, <1>2, <1>3 DEF StepOK

\* The response to a hit: its first line and headers, and a thread that reads.
IsHead(q, k) ==
    /\ q \in Seq(Line) /\ Len(q) = 4 /\ \A i \in 1..4 : ~q[i].cut
    /\ q[1].is = "status" /\ q[1].val = "200" /\ q[4].is = "end"
    /\ \E i \in {2, 3} : /\ q[i].is = "key" /\ q[i].val = k
                        /\ \A j \in {2, 3} : j # i => q[j].is = "chunked"

LEMMA HitFacts ==
    ASSUME TypeInv, NEW c \in Getter, NEW k \in Key, NEW s \in Setter, Hit(c, k, s)
    PROVE  /\ handler' \in [Call -> Request] /\ \A o \in Call \ {c} : handler'[o] = handler[o]
           /\ handler'[c].pc = "stream" /\ handler'[c].content = s
           /\ feed' \in [Getter -> Adapter] /\ \A o \in Getter \ {c} : feed'[o] = feed[o]
           /\ feed'[c].pc = "read" /\ feed'[c].n = feed[c].n /\ feed'[c].channel = feed[c].channel
           /\ feed'[c].buf >= Threshold
           /\ down' \in [Call -> Seq(Line)] /\ \A o \in Call \ {c} : down'[o] = down[o]
           /\ \E q : /\ IsHead(q, k)
                     /\ down'[c] = IF lost[c] \/ Left(c) THEN down[c] ELSE down[c] \o q
<1> c \in Call
  BY DEF Call
<1>1. TypeOK /\ WireOK
  BY DEF TypeInv
<1>2. /\ handler' \in [Call -> Request] /\ \A o \in Call \ {c} : handler'[o] = handler[o]
      /\ handler'[c].pc = "stream" /\ handler'[c].content = s
  BY <1>1 DEF Hit, TypeOK, Request
<1>3. /\ feed' \in [Getter -> Adapter] /\ \A o \in Getter \ {c} : feed'[o] = feed[o]
      /\ feed'[c].pc = "read" /\ feed'[c].n = feed[c].n /\ feed'[c].channel = feed[c].channel
      /\ feed'[c].buf >= Threshold
  <2> DEFINE room == Least(Whole + Threshold, MaxBuf)
  <2>1. room \in 0..MaxBuf /\ room >= Threshold
    BY BoundsAssumption, BufferAssumption DEF Least
  <2>2. feed' = [feed EXCEPT ![c].pc = "read", ![c].buf = room]
    BY DEF Hit
  <2> HIDE DEF room
  <2> QED BY <1>1, <2>1, <2>2 DEF TypeOK, Adapter
<1>4. PICK q : IsHead(q, k) /\ Reply(c, q)
  <2>1. /\ Token("key", k) \in Line /\ Token("chunked", 0) \in Line
        /\ Token("end", 0) \in Line /\ Token("status", "200") \in Line
    BY TokenType DEF Code
  <2>2. PICK h \in Line, i \in Line :
           /\ \/ h = Token("key", k) /\ i = Token("chunked", 0)
              \/ h = Token("chunked", 0) /\ i = Token("key", k)
           /\ Reply(c, <<Token("status", "200")>> \o <<h, i>> \o <<Token("end", 0)>>)
    BY <2>1 DEF Hit
  <2> DEFINE q == <<Token("status", "200")>> \o <<h, i>> \o <<Token("end", 0)>>
  <2>3. /\ q \in Seq(Line) /\ Len(q) = 4 /\ q[1] = Token("status", "200")
        /\ q[2] = h /\ q[3] = i /\ q[4] = Token("end", 0)
    BY <2>1, FourFacts
  <2> HIDE DEF q
  <2>4. IsHead(q, k)
    <3>1. \A j \in 1..4 : j = 1 \/ j = 2 \/ j = 3 \/ j = 4
      OBVIOUS
    <3>2. \A j \in 1..4 : ~q[j].cut
      BY <2>2, <2>3, <3>1 DEF Token
    <3>3. \E j \in {2, 3} : /\ q[j].is = "key" /\ q[j].val = k
                           /\ \A l \in {2, 3} : l # j => q[l].is = "chunked"
      BY <2>2, <2>3 DEF Token
    <3> QED BY <2>3, <3>2, <3>3 DEF IsHead, Token
  <2> QED BY <2>2, <2>4 DEF q
<1>6. /\ down' \in [Call -> Seq(Line)] /\ \A o \in Call \ {c} : down'[o] = down[o]
      /\ down'[c] = IF lost[c] \/ Left(c) THEN down[c] ELSE down[c] \o q
  <2>1. q \in Seq(Line)
    BY <1>4 DEF IsHead
  <2> QED BY <1>1, <1>4, <2>1, ReplyFacts
<1> QED BY <1>2, <1>3, <1>4, <1>6

LEMMA GetFromCacheOK ==
    ASSUME TypeInv, NEW c \in Getter, GetFromCache(c)
    PROVE  /\ StepOK(c) /\ Idle(c) /\ UNCHANGED <<stored, client, lost>>
           /\ up[c] # <<>>
           /\ \/ \E code \in Code \ {"200"} :
                    /\ code = "204" =>
                          MayPass(client[c].held, RequestOf(c).keys, Len(RequestOf(c).keys))
                    /\ Answers(c, code) /\ UNCHANGED feed
              \/ \E i \in DOMAIN RequestOf(c).keys, s \in Setter :
                    /\ MayPass(client[c].held, RequestOf(c).keys, i - 1)
                    /\ RequestOf(c).keys[i] \in Key
                    /\ Holds(stored[RequestOf(c).keys[i]], s)
                    /\ Hit(c, RequestOf(c).keys[i], s)
<1> c \in Call
  BY DEF Call
<1>1. TypeOK /\ WireOK /\ Arrives(c) /\ UNCHANGED <<stored, client, lost, faults>>
  BY DEF TypeInv, GetFromCache
<1>2. /\ RequestOf(c).keys \in KeyLists
      /\ Refusals(RequestOf(c)) \subseteq Code \ {"200", "204"}
      /\ Idle(c) /\ client[c].pc # "new" /\ up[c] # <<>>
      /\ up' \in [Call -> Seq(Line)] /\ \A o \in Call \ {c} : up'[o] = up[o]
  BY <1>1, ArrivesFacts
<1>3. ASSUME NEW code \in Code \ {"200"}, Answers(c, code), UNCHANGED feed
      PROVE  StepOK(c)
  <2>1. /\ handler' \in [Call -> Request] /\ \A o \in Call \ {c} : handler'[o] = handler[o]
        /\ handler'[c].pc = "done"
        /\ down' \in [Call -> Seq(Line)] /\ \A o \in Call \ {c} : down'[o] = down[o]
    BY <1>1, <1>3, AnswersFacts
  <2>2. /\ stored' \in [Key -> Seq(Setter)] /\ Grows(c) /\ feed' \in [Getter -> Adapter]
        /\ \A g \in Getter : Len(feed'[g].channel) <= Capacity
        /\ lost' \in [Call -> BOOLEAN] /\ faults' \in 0..MaxFaults
    BY <1>1, <1>3 DEF TypeOK, Grows
  <2> QED BY <1>1, <1>2, <1>3, <2>1, <2>2, ServerOK
<1>4. ASSUME NEW k \in Key, NEW s \in Setter, Hit(c, k, s)
      PROVE  StepOK(c)
  <2>1. /\ handler' \in [Call -> Request] /\ \A o \in Call \ {c} : handler'[o] = handler[o]
        /\ handler'[c].pc = "stream"
        /\ feed' \in [Getter -> Adapter] /\ \A o \in Getter \ {c} : feed'[o] = feed[o]
        /\ feed'[c].channel = feed[c].channel
        /\ down' \in [Call -> Seq(Line)] /\ \A o \in Call \ {c} : down'[o] = down[o]
    BY <1>4, HitFacts
  <2>2. /\ stored' \in [Key -> Seq(Setter)] /\ Grows(c)
        /\ \A g \in Getter : Len(feed'[g].channel) <= Capacity
        /\ lost' \in [Call -> BOOLEAN] /\ faults' \in 0..MaxFaults
    BY <1>1, <2>1 DEF TypeOK, Grows
  <2> QED BY <1>1, <1>2, <2>1, <2>2, ServerOK
<1>5. CASE \E code \in Refusals(RequestOf(c)) : Answers(c, code) /\ UNCHANGED feed
  BY <1>1, <1>2, <1>3, <1>5
<1>6. CASE /\ Answers(c, "204") /\ UNCHANGED feed
           /\ MayPass(client[c].held, RequestOf(c).keys, Len(RequestOf(c).keys))
  <2>1. "204" \in Code \ {"200"}
    BY DEF Code
  <2>2. StepOK(c)
    BY <1>3, <1>6, <2>1
  <2> QED BY <1>1, <1>2, <1>6, <2>1, <2>2
<1>7. CASE \E i \in DOMAIN RequestOf(c).keys, s \in Setter :
                /\ MayPass(client[c].held, RequestOf(c).keys, i - 1)
                /\ Holds(stored[RequestOf(c).keys[i]], s)
                /\ Hit(c, RequestOf(c).keys[i], s)
  <2>1. PICK i \in DOMAIN RequestOf(c).keys, s \in Setter :
                /\ MayPass(client[c].held, RequestOf(c).keys, i - 1)
                /\ Holds(stored[RequestOf(c).keys[i]], s)
                /\ Hit(c, RequestOf(c).keys[i], s)
    BY <1>7
  <2>2. RequestOf(c).keys[i] \in Key
    <3>1. RequestOf(c).keys \in Seq(Key)
      BY <1>2, KeyAssumption
    <3> QED BY <2>1, <3>1
  <2>3. StepOK(c)
    BY <1>4, <2>1, <2>2
  <2> QED BY <1>1, <1>2, <2>1, <2>2, <2>3
<1> QED BY <1>1, <1>5, <1>6, <1>7 DEF GetFromCache

LEMMA PutIntoCacheOK ==
    ASSUME TypeInv, NEW c \in Setter, PutIntoCache(c)
    PROVE  /\ StepOK(c) /\ Idle(c) /\ UNCHANGED <<stored, client, lost>>
           /\ up[c] # <<>> /\ up'[c] = Tail(up[c])
           /\ handler'[c].pc \in {"copy", "done"} /\ handler'[c].n = handler[c].n
<1> c \in Call
  BY DEF Call
<1>1. /\ TypeOK /\ WireOK /\ Arrives(c) /\ UNCHANGED <<stored, client, feed, lost, faults>>
  BY DEF TypeInv, PutIntoCache
<1>2. /\ RequestOf(c).keys \in KeyLists
      /\ Refusals(RequestOf(c)) \subseteq Code \ {"200"}
      /\ Idle(c) /\ client[c].pc # "new" /\ up[c] # <<>> /\ up'[c] = Tail(up[c])
      /\ up' \in [Call -> Seq(Line)] /\ \A o \in Call \ {c} : up'[o] = up[o]
  BY <1>1, ArrivesFacts
<1>3. /\ handler' \in [Call -> Request] /\ \A o \in Call \ {c} : handler'[o] = handler[o]
      /\ handler'[c].pc \in {"copy", "done"} /\ handler'[c].n = handler[c].n
      /\ down' \in [Call -> Seq(Line)] /\ \A o \in Call \ {c} : down'[o] = down[o]
  <2>1. ASSUME NEW code \in Refusals(RequestOf(c)), Answers(c, code)
        PROVE  /\ handler' \in [Call -> Request] /\ \A o \in Call \ {c} : handler'[o] = handler[o]
               /\ handler'[c].pc = "done" /\ handler'[c].n = handler[c].n
               /\ down' \in [Call -> Seq(Line)] /\ \A o \in Call \ {c} : down'[o] = down[o]
    <3>1. code \in Code
      BY <1>2
    <3> QED BY <1>1, <2>1, <3>1, AnswersFacts
  <2>2. CASE /\ handler' = [handler EXCEPT ![c].pc = "copy", ![c].keys = RequestOf(c).keys]
             /\ UNCHANGED down
    <3> DEFINE keys == RequestOf(c).keys
    <3>1. keys \in KeyLists \cup {<<>>}
      BY <1>2
    <3>2. handler' = [handler EXCEPT ![c].pc = "copy", ![c].keys = keys] /\ UNCHANGED down
      BY <2>2
    <3> HIDE DEF keys
    <3>3. /\ handler' \in [Call -> Request] /\ \A o \in Call \ {c} : handler'[o] = handler[o]
          /\ handler'[c].pc = "copy" /\ handler'[c].n = handler[c].n
      BY <1>1, <3>1, <3>2 DEF TypeOK, Request
    <3> QED BY <1>1, <3>2, <3>3 DEF WireOK
  <2> QED BY <2>1, <2>2 DEF PutIntoCache
<1>4. /\ stored' \in [Key -> Seq(Setter)] /\ Grows(c) /\ feed' \in [Getter -> Adapter]
      /\ \A g \in Getter : Len(feed'[g].channel) <= Capacity
      /\ lost' \in [Call -> BOOLEAN] /\ faults' \in 0..MaxFaults
  BY <1>1 DEF TypeOK, Grows
<1>5. StepOK(c)
  BY <1>1, <1>2, <1>3, <1>4, ServerOK
<1> QED BY <1>1, <1>2, <1>3, <1>5

LEMMA CopyOK ==
    ASSUME TypeInv, NEW c \in Setter, client[c].pc # "new", Copy(c)
    PROVE  /\ StepOK(c) /\ handler[c].pc = "copy" /\ UNCHANGED <<stored, client, lost>>
           /\ up' = [up EXCEPT ![c] = IF @ = <<>> THEN @ ELSE Tail(@)]
           /\ \/ /\ up[c] # <<>> /\ Head(up[c]).is = "part"
                 /\ handler'[c].pc = "copy" /\ handler'[c].n = Head(up[c]).val
              \/ /\ up[c] # <<>> /\ Head(up[c]).is = "last"
                 /\ handler'[c].pc = "close" /\ handler'[c].n = handler[c].n
              \/ handler'[c].pc = "done"
<1> c \in Call
  BY DEF Call
<1>1. /\ TypeOK /\ WireOK /\ handler[c].pc = "copy"
      /\ UNCHANGED <<stored, client, feed, lost, faults>>
      /\ up' = [up EXCEPT ![c] = IF @ = <<>> THEN @ ELSE Tail(@)]
  BY DEF TypeInv, Copy
<1>2. up' \in [Call -> Seq(Line)] /\ \A o \in Call \ {c} : up'[o] = up[o]
  BY <1>1, TakeFacts DEF WireOK
<1>3. /\ handler' \in [Call -> Request] /\ \A o \in Call \ {c} : handler'[o] = handler[o]
      /\ down' \in [Call -> Seq(Line)] /\ \A o \in Call \ {c} : down'[o] = down[o]
      /\ \/ /\ up[c] # <<>> /\ Head(up[c]).is = "part"
            /\ handler'[c].pc = "copy" /\ handler'[c].n = Head(up[c]).val
         \/ /\ up[c] # <<>> /\ Head(up[c]).is = "last"
            /\ handler'[c].pc = "close" /\ handler'[c].n = handler[c].n
         \/ handler'[c].pc = "done"
  <2>1. CASE /\ up[c] # <<>> /\ Head(up[c]).is = "part"
             /\ handler' = [handler EXCEPT ![c].n = Head(up[c]).val] /\ UNCHANGED down
    <3> DEFINE n == Head(up[c]).val
    <3>1. n \in 0..Whole
      <4>1. Head(up[c]) \in Line
        BY <1>1, <2>1, TailFacts DEF WireOK
      <4>2. n \in 1..Whole
        BY <2>1, <4>1, LineFacts
      <4> QED BY <4>2, BoundsAssumption
    <3>2. handler' = [handler EXCEPT ![c].n = n]
      BY <2>1
    <3> HIDE DEF n
    <3>3. /\ handler' \in [Call -> Request] /\ \A o \in Call \ {c} : handler'[o] = handler[o]
          /\ handler'[c].pc = "copy" /\ handler'[c].n = n
      BY <1>1, <3>1, <3>2 DEF TypeOK, Request
    <3> QED BY <1>1, <2>1, <3>3 DEF n, WireOK
  <2>2. CASE BodyEnds(c) /\ handler' = [handler EXCEPT ![c].pc = "close"] /\ UNCHANGED down
    <3>1. /\ handler' \in [Call -> Request] /\ \A o \in Call \ {c} : handler'[o] = handler[o]
          /\ handler'[c].pc = "close" /\ handler'[c].n = handler[c].n
      BY <1>1, <2>2 DEF TypeOK, Request
    <3> QED BY <1>1, <2>2, <3>1 DEF BodyEnds, WireOK
  <2>3. CASE Answers(c, "500")
    <3>1. "500" \in Code
      BY DEF Code
    <3>2. /\ handler' \in [Call -> Request] /\ \A o \in Call \ {c} : handler'[o] = handler[o]
          /\ handler'[c].pc = "done"
          /\ down' \in [Call -> Seq(Line)] /\ \A o \in Call \ {c} : down'[o] = down[o]
      BY <1>1, <2>3, <3>1, AnswersFacts
    <3> QED BY <3>2
  <2> QED BY <2>1, <2>2, <2>3 DEF Copy
<1>4. /\ stored' \in [Key -> Seq(Setter)] /\ Grows(c) /\ feed' \in [Getter -> Adapter]
      /\ \A g \in Getter : Len(feed'[g].channel) <= Capacity
      /\ lost' \in [Call -> BOOLEAN] /\ faults' \in 0..MaxFaults
  BY <1>1 DEF TypeOK, Grows
<1>5. handler'[c].pc # "idle"
  BY <1>3
<1>6. StepOK(c)
  BY <1>1, <1>2, <1>3, <1>4, <1>5, ServerOK
<1> QED BY <1>1, <1>3, <1>6

LEMMA StoreOK ==
    ASSUME TypeInv, NEW c \in Setter, client[c].pc # "new", Store(c)
    PROVE  /\ StepOK(c) /\ handler[c].pc = "close" /\ UNCHANGED <<client, up, lost>>
           /\ handler'[c].pc \in {"close", "done"} /\ handler'[c].n = handler[c].n
<1> c \in Call
  BY DEF Call
<1>1. /\ TypeOK /\ WireOK /\ handler[c].pc = "close" /\ UNCHANGED <<client, feed, up, lost, faults>>
  BY DEF TypeInv, Store
<1>2. /\ stored' \in [Key -> Seq(Setter)] /\ Grows(c)
      /\ handler' \in [Call -> Request] /\ \A o \in Call \ {c} : handler'[o] = handler[o]
      /\ handler'[c].pc \in {"close", "done"} /\ handler'[c].n = handler[c].n
      /\ down' \in [Call -> Seq(Line)] /\ \A o \in Call \ {c} : down'[o] = down[o]
  <2>1. CASE /\ \E k \in Unstored(c) : stored' = [stored EXCEPT ![k] = Append(@, c)]
             /\ UNCHANGED <<handler, down>>
    <3>1. PICK k \in Key : stored' = [stored EXCEPT ![k] = Append(@, c)]
      BY <2>1 DEF Unstored
    <3>2. Append(stored[k], c) \in Seq(Setter)
      BY <1>1 DEF TypeOK
    <3>3. stored' \in [Key -> Seq(Setter)] /\ Grows(c)
      BY <1>1, <3>1, <3>2 DEF TypeOK, Grows
    <3> QED BY <1>1, <2>1, <3>3 DEF TypeOK, WireOK
  <2>2. CASE Answers(c, "204") /\ UNCHANGED stored
    <3>1. "204" \in Code
      BY DEF Code
    <3>2. /\ handler' \in [Call -> Request] /\ \A o \in Call \ {c} : handler'[o] = handler[o]
          /\ handler'[c].pc = "done" /\ handler'[c].n = handler[c].n
          /\ down' \in [Call -> Seq(Line)] /\ \A o \in Call \ {c} : down'[o] = down[o]
      BY <1>1, <2>2, <3>1, AnswersFacts
    <3>3. stored' \in [Key -> Seq(Setter)] /\ Grows(c)
      BY <1>1, <2>2 DEF TypeOK, Grows
    <3> QED BY <3>2, <3>3
  <2> QED BY <2>1, <2>2 DEF Store
<1>3. /\ feed' \in [Getter -> Adapter]
      /\ \A g \in Getter : Len(feed'[g].channel) <= Capacity
      /\ lost' \in [Call -> BOOLEAN] /\ faults' \in 0..MaxFaults
      /\ up' \in [Call -> Seq(Line)] /\ handler'[c].pc # "idle"
  BY <1>1, <1>2 DEF TypeOK, WireOK
<1>4. StepOK(c)
  BY <1>1, <1>2, <1>3, ServerOK
<1> QED BY <1>1, <1>2, <1>4

\* The request ends, with or without an answer.
LEMMA EndsOK ==
    ASSUME TypeInv, NEW c \in Call, client[c].pc # "new",
           UNCHANGED <<stored, client, feed, up, lost>>, faults' \in 0..MaxFaults,
           \/ Answers(c, "500")
           \/ handler' = [handler EXCEPT ![c].pc = "done"] /\ UNCHANGED down
    PROVE  /\ StepOK(c) /\ handler'[c].pc = "done" /\ handler'[c].n = handler[c].n
           /\ handler'[c].content = handler[c].content
<1>1. TypeOK /\ WireOK
  BY DEF TypeInv
<1>2. /\ handler' \in [Call -> Request] /\ \A o \in Call \ {c} : handler'[o] = handler[o]
      /\ handler'[c].pc = "done" /\ handler'[c].n = handler[c].n
      /\ handler'[c].content = handler[c].content
      /\ down' \in [Call -> Seq(Line)] /\ \A o \in Call \ {c} : down'[o] = down[o]
  <2>1. CASE Answers(c, "500")
    <3>1. "500" \in Code
      BY DEF Code
    <3> QED BY <1>1, <2>1, <3>1, AnswersFacts
  <2>2. CASE handler' = [handler EXCEPT ![c].pc = "done"] /\ UNCHANGED down
    <3>1. /\ handler' \in [Call -> Request] /\ \A o \in Call \ {c} : handler'[o] = handler[o]
          /\ handler'[c].pc = "done" /\ handler'[c].n = handler[c].n
          /\ handler'[c].content = handler[c].content
      BY <1>1, <2>2 DEF TypeOK, Request
    <3> QED BY <1>1, <2>2, <3>1 DEF WireOK
  <2> QED BY <2>1, <2>2
<1>3. /\ stored' \in [Key -> Seq(Setter)] /\ Grows(c)
      /\ feed' \in [Getter -> Adapter]
      /\ \A g \in Getter : Len(feed'[g].channel) <= Capacity
      /\ lost' \in [Call -> BOOLEAN]
      /\ up' \in [Call -> Seq(Line)] /\ handler'[c].pc # "idle"
  BY <1>1, <1>2 DEF TypeOK, WireOK, Grows
<1>4. StepOK(c)
  BY <1>1, <1>2, <1>3, ServerOK
<1> QED BY <1>2, <1>4

LEMMA FaultFacts == ASSUME TypeOK, Fault PROVE faults' \in 0..MaxFaults
  BY BoundsAssumption DEF TypeOK, Fault

LEMMA PutFailsOK ==
    ASSUME TypeInv, NEW c \in Setter, client[c].pc # "new", PutFails(c)
    PROVE  /\ StepOK(c) /\ handler'[c].pc = "done" /\ handler'[c].n = handler[c].n
           /\ UNCHANGED <<stored, client, up, lost>>
<1> c \in Call
  BY DEF Call
<1> QED BY FaultFacts, EndsOK DEF PutFails, TypeInv

LEMMA NoRequestOK ==
    ASSUME TypeInv, NEW c \in Call, NoRequest(c)
    PROVE  /\ StepOK(c) /\ handler'[c].pc = "done" /\ handler'[c].n = handler[c].n
           /\ handler'[c].content = handler[c].content /\ Idle(c) /\ (lost[c] \/ Left(c))
           /\ UNCHANGED <<stored, client, feed, up, down, lost>>
<1>1. /\ client[c].pc # "new" /\ UNCHANGED <<stored, client, feed, up, down, lost, faults>>
      /\ handler' = [handler EXCEPT ![c].pc = "done"] /\ faults \in 0..MaxFaults
      /\ Idle(c) /\ (lost[c] \/ Left(c))
  BY DEF NoRequest, TypeInv, TypeOK, Idle, ServerSeesEnd
<1>2. /\ StepOK(c) /\ handler'[c].pc = "done" /\ handler'[c].n = handler[c].n
      /\ handler'[c].content = handler[c].content
  BY <1>1, EndsOK
<1> QED BY <1>1, <1>2

-----------------------------------------------------------------------------
(* The adapter.                                                            *)

LEMMA ReadPartOK ==
    ASSUME TypeInv, NEW c \in Getter, ReadPart(c)
    PROVE  /\ StepOK(c) /\ feed[c].pc = "read"
           /\ UNCHANGED <<stored, client, handler, up, down, lost>>
           /\ \/ /\ Reads(c) = {} \/ SendFails(c)
                 /\ feed'[c].pc = "done" /\ feed'[c].n = feed[c].n
                 /\ feed'[c].buf = feed[c].buf /\ feed'[c].channel = feed[c].channel
              \/ /\ feed'[c].pc = "read" /\ feed'[c].buf >= Threshold
                 /\ feed'[c].channel = Append(feed[c].channel, [from |-> feed[c].n, to |-> feed'[c].n])
<1> c \in Call
  BY DEF Call
<1>1. /\ TypeOK /\ WireOK /\ RequestPlace(c) /\ feed[c].pc = "read"
      /\ UNCHANGED <<stored, client, handler, up, down, lost>>
  BY DEF TypeInv, ReadPart
<1>2. feed[c] \in Adapter /\ Len(feed[c].channel) <= Capacity
  BY <1>1 DEF TypeOK
<1> DEFINE Frame == /\ feed' \in [Getter -> Adapter] /\ \A o \in Getter \ {c} : feed'[o] = feed[o]
                    /\ Len(feed'[c].channel) <= Capacity /\ faults' \in 0..MaxFaults
           Ends == /\ Reads(c) = {} \/ SendFails(c)
                   /\ feed'[c].pc = "done" /\ feed'[c].n = feed[c].n
                   /\ feed'[c].buf = feed[c].buf /\ feed'[c].channel = feed[c].channel
           Passes == /\ feed'[c].pc = "read" /\ feed'[c].buf >= Threshold
                     /\ feed'[c].channel = Append(feed[c].channel,
                                                  [from |-> feed[c].n, to |-> feed'[c].n])
<1>3. ASSUME NEW room \in Nat, room <= MaxBuf
      PROVE  Refilled(room) \in 0..MaxBuf /\ Refilled(room) >= Threshold
  BY <1>3, BufferAssumption DEF Refilled
<1>4. ASSUME Reads(c) = {} \/ SendFails(c),
             feed' = [feed EXCEPT ![c].pc = "done"], UNCHANGED faults
      PROVE  Frame /\ Ends
  <2>1. Frame
    BY <1>1, <1>2, <1>4 DEF TypeOK, Adapter
  <2>2. Ends
    BY <1>1, <1>2, <1>4 DEF TypeOK, Adapter
  <2> QED BY <2>1, <2>2
<1>5. ASSUME Len(feed[c].channel) < Capacity, UNCHANGED faults, NEW n \in Reads(c),
             feed' = [feed EXCEPT ![c].n = feed[c].n + n, ![c].buf = Refilled(@ - n),
                                  ![c].channel = Append(@, SplitOff(c, n))]
      PROVE  Frame /\ Passes
  <2> DEFINE sent == feed[c].n + n
             room == Refilled(feed[c].buf - n)
             channel == Append(feed[c].channel, [from |-> feed[c].n, to |-> sent])
  <2>2. n \in Nat /\ n > 0 /\ n <= Whole - feed[c].n /\ n <= feed[c].buf
    BY <1>2, BoundsAssumption, BufferAssumption DEF Reads, Least, Adapter
  <2>3. sent \in 0..Whole /\ [from |-> feed[c].n, to |-> sent] \in Chunk
    BY <1>2, <2>2, BoundsAssumption DEF Adapter, Chunk
  <2>4. room \in 0..MaxBuf /\ room >= Threshold
    <3>1. feed[c].buf - n \in Nat /\ feed[c].buf - n <= MaxBuf
      BY <1>2, <2>2, BufferAssumption DEF Adapter
    <3> QED BY <1>3, <3>1
  <2>5. channel \in Seq(Chunk) /\ Len(channel) <= Capacity
    <3>1. feed[c].channel \in Seq(Chunk)
      BY <1>2 DEF Adapter
    <3>2. channel \in Seq(Chunk) /\ Len(channel) = Len(feed[c].channel) + 1
      BY <2>3, <3>1, AppendFacts
    <3> QED BY <1>5, <3>1, <3>2, BoundsAssumption
  <2>6. feed' = [feed EXCEPT ![c].n = sent, ![c].buf = room, ![c].channel = channel]
    BY <1>5 DEF SplitOff
  <2> HIDE DEF sent, room, channel
  <2>7. /\ feed' \in [Getter -> Adapter] /\ \A o \in Getter \ {c} : feed'[o] = feed[o]
        /\ feed'[c].pc = feed[c].pc /\ feed'[c].n = sent /\ feed'[c].buf = room
        /\ feed'[c].channel = channel
    BY <1>1, <2>3, <2>4, <2>5, <2>6 DEF TypeOK, Adapter
  <2>8. Frame
    BY <1>1, <1>5, <2>5, <2>7 DEF TypeOK
  <2>9. Passes
    BY <1>1, <2>3, <2>4, <2>7 DEF channel
  <2> QED BY <2>8, <2>9
<1>6. ASSUME Len(feed[c].channel) < Capacity, Fault,
             feed' = [feed EXCEPT ![c].buf = Refilled(@), ![c].channel = Append(@, Error(c))]
      PROVE  Frame /\ Passes
  <2> DEFINE room == Refilled(feed[c].buf)
             channel == Append(feed[c].channel, [from |-> feed[c].n, to |-> feed[c].n])
  <2>1. room \in 0..MaxBuf /\ room >= Threshold
    <3>1. feed[c].buf \in Nat /\ feed[c].buf <= MaxBuf
      BY <1>2, BufferAssumption DEF Adapter
    <3> QED BY <1>3, <3>1
  <2>2. channel \in Seq(Chunk) /\ Len(channel) <= Capacity
    <3>1. feed[c].channel \in Seq(Chunk) /\ [from |-> feed[c].n, to |-> feed[c].n] \in Chunk
      BY <1>2 DEF Adapter, Chunk
    <3>2. channel \in Seq(Chunk) /\ Len(channel) = Len(feed[c].channel) + 1
      BY <3>1, AppendFacts
    <3> QED BY <1>6, <3>1, <3>2, BoundsAssumption
  <2>3. feed' = [feed EXCEPT ![c].buf = room, ![c].channel = channel]
    BY <1>6 DEF Error
  <2> HIDE DEF room, channel
  <2>4. /\ feed' \in [Getter -> Adapter] /\ \A o \in Getter \ {c} : feed'[o] = feed[o]
        /\ feed'[c].pc = feed[c].pc /\ feed'[c].n = feed[c].n /\ feed'[c].buf = room
        /\ feed'[c].channel = channel
    BY <1>1, <2>1, <2>2, <2>3 DEF TypeOK, Adapter
  <2>5. Frame
    BY <1>1, <1>6, <2>2, <2>4, FaultFacts
  <2>6. Passes
    BY <1>1, <2>1, <2>4 DEF channel
  <2> QED BY <2>5, <2>6
<1> HIDE DEF Frame, Ends, Passes
<1>7. Frame /\ (Ends \/ Passes)
  BY <1>4, <1>5, <1>6 DEF ReadPart
<1>8. TypeOK'
  BY <1>1, <1>7 DEF TypeOK, Frame
<1>9. WireOK' /\ Apart(c) /\ Grows(c)
  BY <1>1, <1>7 DEF WireOK, Apart, Grows, Frame
<1>10. RequestPlace(c)'
  BY <1>1 DEF RequestPlace, Idle
<1> QED BY <1>1, <1>7, <1>8, <1>9, <1>10 DEF StepOK, Ends, Passes

LEMMA SendPartOK ==
    ASSUME TypeInv, NEW c \in Getter, SendPart(c)
    PROVE  /\ StepOK(c) /\ handler[c].pc = "stream" /\ UNCHANGED <<stored, client>>
           /\ handler'[c].content = handler[c].content
           /\ feed'[c].pc = feed[c].pc /\ feed'[c].n = feed[c].n /\ feed'[c].buf = feed[c].buf
           /\ \/ /\ lost[c] \/ Left(c)
                 /\ handler'[c].pc = "done" /\ down'[c] = down[c] /\ lost'[c] = lost[c]
              \/ /\ feed[c].channel # <<>> /\ ~IsError(Head(feed[c].channel))
                 /\ feed'[c].channel = Tail(feed[c].channel)
                 /\ handler'[c].pc = "stream" /\ lost'[c] = lost[c]
                 /\ down'[c] = IF lost[c] \/ Left(c) THEN down[c]
                               ELSE down[c] \o <<Token("chunk", Head(feed[c].channel))>>
              \/ /\ feed[c].channel = <<>> /\ feed[c].pc = "done"
                 /\ feed'[c].channel = feed[c].channel
                 /\ handler'[c].pc = "done" /\ lost'[c] = lost[c]
                 /\ down'[c] = IF lost[c] \/ Left(c) THEN down[c]
                               ELSE down[c] \o <<Token("last", 0)>>
              \/ /\ handler'[c].pc = "done" /\ lost'[c] /\ Arrived(down[c], down'[c])
<1> c \in Call
  BY DEF Call
<1>1. /\ TypeOK /\ WireOK /\ RequestPlace(c) /\ handler[c].pc = "stream"
      /\ UNCHANGED <<stored, client, faults>> /\ client[c].pc # "new"
  BY DEF TypeInv, SendPart, RequestPlace, Idle
<1> DEFINE Ended == /\ handler' \in [Call -> Request]
                    /\ \A o \in Call \ {c} : handler'[o] = handler[o]
                    /\ handler'[c].pc = "done" /\ handler'[c].content = handler[c].content
           Shorter == /\ feed' \in [Getter -> Adapter]
                      /\ \A o \in Getter \ {c} : feed'[o] = feed[o]
                      /\ \A g \in Getter : Len(feed'[g].channel) <= Capacity
                      /\ feed'[c].pc = feed[c].pc /\ feed'[c].n = feed[c].n
                      /\ feed'[c].buf = feed[c].buf
                      /\ feed'[c].channel = Tail(feed[c].channel)
           Told(t) == /\ down' \in [Call -> Seq(Line)] /\ \A o \in Call \ {c} : down'[o] = down[o]
                      /\ down'[c] = IF lost[c] \/ Left(c) THEN down[c] ELSE down[c] \o <<t>>
           Same == /\ stored' \in [Key -> Seq(Setter)] /\ Grows(c) /\ faults' \in 0..MaxFaults
<1>2. Same
  BY <1>1 DEF TypeOK, Grows
<1>3. ASSUME EndStream(c) PROVE Ended
  BY <1>1, <1>3 DEF EndStream, TypeOK, Request
<1>4. ASSUME feed[c].channel # <<>>, Received(c) PROVE Shorter
  <2>1. feed[c].channel \in Seq(Chunk) /\ Len(feed[c].channel) <= Capacity
    BY <1>1 DEF TypeOK, Adapter
  <2> DEFINE channel == Tail(feed[c].channel)
  <2>2. channel \in Seq(Chunk) /\ Len(channel) <= Capacity
    <3>1. /\ channel \in Seq(Chunk) /\ Len(channel) = Len(feed[c].channel) - 1
          /\ Len(feed[c].channel) \in Nat
      BY <1>4, <2>1, TailFacts
    <3> HIDE DEF channel
    <3> QED BY <2>1, <3>1, BoundsAssumption
  <2>3. feed' = [feed EXCEPT ![c].channel = channel]
    BY <1>4 DEF Received
  <2> HIDE DEF channel
  <2>4. /\ feed' \in [Getter -> Adapter] /\ \A o \in Getter \ {c} : feed'[o] = feed[o]
        /\ feed'[c].pc = feed[c].pc /\ feed'[c].n = feed[c].n /\ feed'[c].buf = feed[c].buf
        /\ feed'[c].channel = channel
    BY <1>1, <2>2, <2>3 DEF TypeOK, Adapter
  <2>5. \A g \in Getter : Len(feed'[g].channel) <= Capacity
    BY <1>1, <2>2, <2>4 DEF TypeOK
  <2> QED BY <2>4, <2>5 DEF channel
<1>5. ASSUME NEW t \in Line, Reply(c, <<t>>) PROVE Told(t)
  <2>1. <<t>> \in Seq(Line)
    OBVIOUS
  <2> QED BY <1>1, <1>5, <2>1, ReplyFacts
<1>6. CASE (lost[c] \/ Left(c)) /\ EndStream(c) /\ UNCHANGED <<feed, up, down, lost>>
  <2>1. Ended
    BY <1>3, <1>6
  <2>2. /\ feed' \in [Getter -> Adapter] /\ \A g \in Getter : Len(feed'[g].channel) <= Capacity
        /\ up' \in [Call -> Seq(Line)] /\ down' \in [Call -> Seq(Line)]
        /\ lost' \in [Call -> BOOLEAN]
    BY <1>1, <1>6 DEF TypeOK, WireOK
  <2>3. StepOK(c)
    BY <1>1, <1>2, <1>6, <2>1, <2>2, ServerOK
  <2> QED BY <1>1, <1>6, <2>1, <2>3
<1>7. CASE /\ feed[c].channel # <<>> /\ ~IsError(Head(feed[c].channel)) /\ Received(c)
           /\ Reply(c, <<Token("chunk", Head(feed[c].channel))>>)
           /\ UNCHANGED <<handler, up, lost>>
  <2> DEFINE t == Token("chunk", Head(feed[c].channel))
  <2>1. t \in Line
    <3>1. feed[c].channel \in Seq(Chunk)
      BY <1>1 DEF TypeOK, Adapter
    <3>2. Head(feed[c].channel) \in Chunk
      BY <1>7, <3>1, TailFacts
    <3> QED BY <3>2, TokenType
  <2> HIDE DEF t
  <2>2. Reply(c, <<t>>)
    BY <1>7 DEF t
  <2>3. Told(t)
    BY <1>5, <2>1, <2>2
  <2>4. Shorter
    BY <1>4, <1>7
  <2>5. /\ handler' \in [Call -> Request] /\ up' \in [Call -> Seq(Line)]
        /\ lost' \in [Call -> BOOLEAN]
    BY <1>1, <1>7 DEF TypeOK, WireOK
  <2>6. StepOK(c)
    BY <1>1, <1>2, <1>7, <2>3, <2>4, <2>5, ServerOK
  <2> QED BY <1>1, <1>7, <2>3, <2>4, <2>6 DEF t
<1>8. CASE /\ ChannelClosed(c) /\ EndStream(c) /\ Reply(c, <<Token("last", 0)>>)
           /\ UNCHANGED <<feed, up, lost>>
  <2> DEFINE t == Token("last", 0)
  <2>1. t \in Line
    BY TokenType
  <2> HIDE DEF t
  <2>2. Reply(c, <<t>>)
    BY <1>8 DEF t
  <2>3. Told(t)
    BY <1>5, <2>1, <2>2
  <2>4. Ended
    BY <1>3, <1>8
  <2>5. /\ feed' \in [Getter -> Adapter] /\ \A g \in Getter : Len(feed'[g].channel) <= Capacity
        /\ up' \in [Call -> Seq(Line)] /\ lost' \in [Call -> BOOLEAN]
    BY <1>1, <1>8 DEF TypeOK, WireOK
  <2>6. StepOK(c)
    BY <1>1, <1>2, <1>8, <2>3, <2>4, <2>5, ServerOK
  <2>7. feed[c].channel = <<>> /\ feed[c].pc = "done"
    BY <1>8 DEF ChannelClosed
  <2> QED BY <1>1, <1>8, <2>3, <2>4, <2>6, <2>7 DEF t
<1>9. CASE /\ feed[c].channel # <<>> /\ IsError(Head(feed[c].channel))
           /\ EndStream(c) /\ Received(c) /\ BreaksOff(c)
  <2>1. Ended /\ Shorter
    BY <1>3, <1>4, <1>9
  <2>2. /\ WireOK' /\ lost' \in [Call -> BOOLEAN] /\ lost'[c]
        /\ \A o \in Call \ {c} : up'[o] = up[o] /\ down'[o] = down[o] /\ lost'[o] = lost[o]
        /\ Arrived(down[c], down'[c])
    BY <1>1, <1>9, BreakFacts DEF TypeOK
  <2>3. StepOK(c)
    BY <1>1, <1>2, <2>1, <2>2, ServerOK DEF WireOK
  <2> QED BY <1>1, <2>1, <2>2, <2>3
<1> QED BY <1>6, <1>7, <1>8, <1>9 DEF SendPart

LEMMA LoseOK ==
    ASSUME TypeInv, NEW c \in Call, Lose(c)
    PROVE  /\ StepOK(c) /\ UNCHANGED <<client, server>> /\ ~Left(c) /\ lost'[c]
           /\ Len(up'[c]) <= Len(up[c]) /\ \A i \in 1..Len(up'[c]) : up'[c][i] = up[c][i]
           /\ Arrived(down[c], down'[c])
<1>1. /\ TypeOK /\ WireOK /\ RequestPlace(c) /\ client[c].pc # "new"
      /\ BreaksOff(c) /\ UNCHANGED <<client, server>> /\ ~Left(c) /\ Fault
  BY DEF TypeInv, Lose
<1>2. /\ WireOK' /\ lost' \in [Call -> BOOLEAN] /\ lost'[c]
      /\ \A o \in Call \ {c} : up'[o] = up[o] /\ down'[o] = down[o] /\ lost'[o] = lost[o]
      /\ Len(up'[c]) <= Len(up[c]) /\ \A i \in 1..Len(up'[c]) : up'[c][i] = up[c][i]
      /\ Arrived(down[c], down'[c])
  BY <1>1, BreakFacts DEF TypeOK
<1>3. faults' \in 0..MaxFaults
  BY <1>1, FaultFacts
<1>4. TypeOK'
  BY <1>1, <1>2, <1>3 DEF TypeOK, server
<1>5. Apart(c) /\ Grows(c)
  BY <1>1, <1>2 DEF Apart, Grows, server
<1>6. RequestPlace(c)'
  <2>1. up'[c] # <<>> => up[c] # <<>> /\ up'[c][1] = up[c][1]
    <3>1. up[c] \in Seq(Line) /\ up'[c] \in Seq(Line)
      BY <1>1, <1>2 DEF WireOK
    <3> QED BY <1>2, <3>1
  <2>2. client'[c] = client[c] /\ handler'[c] = handler[c]
    BY <1>1 DEF server
  <2> QED BY <1>1, <1>2, <2>1, <2>2 DEF RequestPlace, Idle
<1> QED BY <1>1, <1>2, <1>4, <1>5, <1>6 DEF StepOK

-----------------------------------------------------------------------------
(* Every step is a step of one call.                                       *)

Acts(c) ==
    \/ /\ c \in Getter
       /\ GetStart(c) \/ Read(c) \/ GetFromCache(c) \/ SendPart(c) \/ ReadPart(c)
    \/ /\ c \in Setter
       /\ \/ SetStart(c) \/ WritePart(c) \/ Close(c) \/ Drop(c) \/ ReadStatus(c)
          \/ PutIntoCache(c) \/ Copy(c) \/ Store(c) \/ PutFails(c)
    \/ NoRequest(c) \/ Lose(c)

LEMMA NextActs == ASSUME Next PROVE \E c \in Call : Acts(c)
  BY DEF Next, Acts, Read, Write, Respond, Receive, Call

LEMMA ActsOK == ASSUME TypeInv, NEW c \in Call, Acts(c) PROVE StepOK(c)
<1>1. RequestPlace(c)
  BY DEF TypeInv
<1>2. CASE c \in Getter /\ (GetStart(c) \/ Read(c))
  BY <1>2, GetStartOK, ReadStatusOK, ReadHeaderOK, ReadBodyOK, GiveUpOK DEF Read
<1>3. CASE c \in Getter /\ (GetFromCache(c) \/ SendPart(c) \/ ReadPart(c))
  BY <1>3, GetFromCacheOK, SendPartOK, ReadPartOK
<1>4. CASE /\ c \in Setter
           /\ \/ SetStart(c) \/ WritePart(c) \/ Close(c) \/ Drop(c) \/ ReadStatus(c)
              \/ PutIntoCache(c)
  BY <1>4, SetStartOK, WritePartOK, CloseOK, DropOK, ReadStatusOK, PutIntoCacheOK
<1>5. CASE c \in Setter /\ (Copy(c) \/ Store(c) \/ PutFails(c))
  <2>1. client[c].pc # "new"
    BY <1>1, <1>5 DEF RequestPlace, Idle, Copy, Store, PutFails
  <2> QED BY <1>5, <2>1, CopyOK, StoreOK, PutFailsOK
<1>6. CASE NoRequest(c) \/ Lose(c)
  BY <1>6, NoRequestOK, LoseOK
<1> QED BY <1>2, <1>3, <1>4, <1>5, <1>6 DEF Acts

LEMMA StepTypeInv == ASSUME TypeInv, NEW c \in Call, StepOK(c) PROVE TypeInv'
<1>1. TypeOK' /\ WireOK' /\ RequestPlace(c)'
  BY DEF StepOK
<1>2. ASSUME NEW o \in Call, o # c PROVE RequestPlace(o)'
  BY <1>2 DEF StepOK, Apart, TypeInv, RequestPlace, Idle
<1> QED BY <1>1, <1>2 DEF TypeInv

LEMMA InitTypeInv == Init => TypeInv
<1> SUFFICES ASSUME Init PROVE TypeInv
  OBVIOUS
<1>1. client \in [Call -> ClientCall] /\ \A c \in Call : client[c].pc = "new"
  BY BoundsAssumption DEF Init, ClientCall
<1>2. handler \in [Call -> Request] /\ \A c \in Call : handler[c].pc = "idle"
  BY BoundsAssumption DEF Init, Request
<1>3. feed \in [Getter -> Adapter] /\ \A g \in Getter : Len(feed[g].channel) <= Capacity
  BY BoundsAssumption, BufferAssumption DEF Init, Adapter
<1>4. stored \in [Key -> Seq(Setter)] /\ lost \in [Call -> BOOLEAN] /\ faults \in 0..MaxFaults
  BY BoundsAssumption DEF Init
<1>5. /\ up \in [Call -> Seq(Line)] /\ down \in [Call -> Seq(Line)]
      /\ \A c \in Call : up[c] = <<>>
  BY DEF Init
<1>6. \A c \in Call : RequestPlace(c)
  BY <1>1, <1>2, <1>5 DEF RequestPlace, Idle
<1> QED BY <1>1, <1>2, <1>3, <1>4, <1>5, <1>6 DEF TypeInv, TypeOK, WireOK

LEMMA TypeStutters == TypeInv /\ UNCHANGED vars => TypeInv'
<1> SUFFICES ASSUME TypeInv, UNCHANGED vars PROVE TypeInv'
  OBVIOUS
<1>1. UNCHANGED <<stored, client, handler, feed, up, down, lost, faults>>
  BY DEF vars
<1>2. TypeOK' /\ WireOK'
  BY <1>1 DEF TypeInv, TypeOK, WireOK
<1>3. \A c \in Call : RequestPlace(c)'
  BY <1>1 DEF TypeInv, RequestPlace, Idle
<1> QED BY <1>2, <1>3 DEF TypeInv

\* Type correctness, and that what the server takes for a request is one: the
\* fields of a call, the lines on a connection and the channel of a
\* StreamAdapter stay within what the code can put there.
THEOREM TypesKept == Spec => []TypeInv
<1>1. TypeInv /\ [Next]_vars => TypeInv'
  BY NextActs, ActsOK, StepTypeInv, TypeStutters
<1> QED BY <1>1, InitTypeInv, PTL DEF Spec

\* Every variable of the client, the server and the connections keeps its type;
\* no StreamAdapter holds more than the capacity of its channel.
COROLLARY TypeCorrect == Spec => []TypeOK
<1>1. TypeInv => TypeOK
  BY DEF TypeInv
<1> QED BY <1>1, TypesKept, PTL

-----------------------------------------------------------------------------
(* An upload.  What the writer has sent is the request, the parts in order *)
(* and the last chunk; the server has taken a beginning of it, and what is *)
(* on the connection follows right behind.                                 *)

Uploaded(s) == client[s].n = Whole /\ client[s].pc \in {"status", "ok", "err", "panic"}
Taken(s) == IF Idle(s) THEN 0 ELSE 1 + handler[s].n
IsNth(t, i) ==
    IF i = 1 THEN t.is = "request"
    ELSE IF i = Whole + 2 THEN t.is = "last" ELSE t.is = "part" /\ t.val = i - 1
Receiving(s) == handler[s].pc \in {"idle", "copy"}
UpPlace(s) ==
    /\ client[s].pc = "new" => client[s].n = 0
    /\ Idle(s) => handler[s].n = 0
    /\ Receiving(s) =>
          /\ \A i \in 1..Len(up[s]) : IsNth(up[s][i], Taken(s) + i)
          /\ Taken(s) + Len(up[s]) <= Whole + 2
          /\ Taken(s) + Len(up[s]) = Whole + 2 => Uploaded(s)
          /\ client[s].pc = "write" => /\ Taken(s) + Len(up[s]) <= client[s].n + 1
                                       /\ ~lost[s] => Taken(s) + Len(up[s]) = client[s].n + 1
    /\ handler[s].pc = "close" => Uploaded(s) /\ handler[s].n = Whole
StoredPlace(s) ==
    (\E k \in Key : Holds(stored[k], s)) =>
        Uploaded(s) /\ handler[s].n = Whole /\ handler[s].pc \in {"close", "done"}
UpInv(s) == UpPlace(s) /\ StoredPlace(s)

LEMMA StoredFacts ==
    ASSUME TypeInv, NEW c \in Call, Grows(c), NEW k \in Key, NEW s
    PROVE  /\ Holds(stored[k], s) => Holds(stored[k], s)'
           /\ s # c /\ Holds(stored[k], s)' => Holds(stored[k], s)
<1>1. stored[k] \in Seq(Setter) /\ Setter \subseteq Call
  BY DEF TypeInv, TypeOK, Call
<1>2. CASE stored'[k] = stored[k]
  BY <1>2 DEF Holds
<1>3. CASE stored'[k] = Append(stored[k], c)
  <2>1. stored[k] \in Seq(Call)
    BY <1>1
  <2>2. /\ Len(stored'[k]) = Len(stored[k]) + 1 /\ stored'[k][Len(stored[k]) + 1] = c
        /\ \A i \in 1..Len(stored[k]) : stored'[k][i] = stored[k][i]
        /\ stored'[k] \in Seq(Call)
    BY <1>3, <2>1, AppendFacts
  <2>3. /\ DOMAIN stored[k] = 1..Len(stored[k]) /\ DOMAIN stored'[k] = 1..Len(stored'[k])
        /\ Len(stored[k]) \in Nat
    BY <2>1, <2>2
  <2>4. ASSUME NEW i \in DOMAIN stored'[k] PROVE i \in DOMAIN stored[k] \/ stored'[k][i] = c
    BY <2>2, <2>3
  <2>5. ASSUME NEW i \in DOMAIN stored[k]
        PROVE  i \in DOMAIN stored'[k] /\ stored'[k][i] = stored[k][i]
    BY <2>2, <2>3
  <2> QED BY <2>4, <2>5 DEF Holds
<1> QED BY <1>2, <1>3 DEF Grows

\* A step of another call, or one that touches nothing an upload depends on.
LEMMA UpUntouched ==
    ASSUME NEW s \in Setter, UpInv(s),
           client'[s].pc = client[s].pc, client'[s].n = client[s].n,
           handler'[s].pc = handler[s].pc, handler'[s].n = handler[s].n,
           up'[s] = up[s], lost'[s] = lost[s],
           \A k \in Key : Holds(stored[k], s)' => Holds(stored[k], s)
    PROVE  UpInv(s)'
<1>1. UpPlace(s)'
  BY DEF UpInv, UpPlace, Uploaded, Taken, Idle, IsNth, Receiving
<1>2. StoredPlace(s)'
  BY DEF UpInv, StoredPlace, Uploaded
<1> QED BY <1>1, <1>2 DEF UpInv

LEMMA UpApart ==
    ASSUME TypeInv, NEW c \in Call, StepOK(c), NEW s \in Setter, UpInv(s), s # c
    PROVE  UpInv(s)'
<1>1. s \in Call
  BY DEF Call
<1>2. \A k \in Key : Holds(stored[k], s)' => Holds(stored[k], s)
  BY StoredFacts DEF StepOK
<1> QED BY <1>1, <1>2, UpUntouched DEF StepOK, Apart

LEMMA UpTypes ==
    ASSUME TypeInv, NEW s \in Setter
    PROVE  /\ s \in Call /\ s \notin Getter /\ client[s].n \in 0..Whole /\ handler[s].n \in 0..Whole
           /\ up[s] \in Seq(Line) /\ Len(up[s]) \in Nat /\ Taken(s) \in 0..(Whole + 1)
           /\ handler[s].pc \in {"idle", "stream", "copy", "close", "done"}
           /\ Whole \in Nat \ {0} /\ RequestPlace(s) /\ lost[s] \in BOOLEAN
<1>1. /\ s \in Call /\ s \notin Getter
  BY KeyAssumption DEF Call
<1>2. /\ client[s].n \in 0..Whole /\ handler[s].n \in 0..Whole
      /\ handler[s].pc \in {"idle", "stream", "copy", "close", "done"} /\ lost[s] \in BOOLEAN
  BY <1>1 DEF TypeInv, TypeOK, ClientCall, Request
<1>3. up[s] \in Seq(Line) /\ Len(up[s]) \in Nat /\ RequestPlace(s)
  BY <1>1 DEF TypeInv, WireOK
<1>4. Taken(s) \in 0..(Whole + 1)
  BY <1>2, BoundsAssumption DEF Taken
<1> QED BY <1>1, <1>2, <1>3, <1>4, BoundsAssumption

\* Whatever the client does while nothing of its upload is stored.
LEMMA UpNotStored ==
    ASSUME NEW s \in Setter, UpInv(s), ~Uploaded(s), UNCHANGED stored
    PROVE  StoredPlace(s)'
  BY DEF UpInv, StoredPlace, Holds

\* One more line or chunk behind the others.
LEMMA UpSent ==
    ASSUME TypeInv, NEW s \in Setter, UpInv(s), client[s].pc \in {"new", "write"},
           UNCHANGED <<stored, handler, lost>>, NEW t \in Line,
           up'[s] = IF lost[s] THEN up[s] ELSE up[s] \o <<t>>,
           Receiving(s) => /\ Taken(s) + Len(up[s]) <= client[s].n + 1
                           /\ ~lost[s] => IsNth(t, Taken(s) + Len(up[s]) + 1),
           \/ /\ client'[s].pc = "write" /\ client'[s].n \in 0..Whole
              /\ Receiving(s) => /\ client'[s].n + 1 >= Taken(s) + Len(up[s])
                                 /\ ~lost[s] => client'[s].n = Taken(s) + Len(up[s])
           \/ client'[s].pc = "status" /\ client'[s].n = Whole
    PROVE  UpInv(s)'
<1>1. /\ s \in Call /\ up[s] \in Seq(Line) /\ Len(up[s]) \in Nat /\ Taken(s) \in 0..(Whole + 1)
      /\ Whole \in Nat \ {0} /\ client[s].n \in 0..Whole
  BY UpTypes
<1>2. StoredPlace(s)'
  BY UpNotStored DEF Uploaded
<1>3. handler[s].pc # "close"
  BY DEF UpInv, UpPlace, Uploaded
<1>4. Taken(s)' = Taken(s) /\ handler'[s] = handler[s] /\ lost'[s] = lost[s]
  BY DEF Taken, Idle
<1>5. ASSUME Receiving(s)
      PROVE  /\ \A i \in 1..Len(up'[s]) : IsNth(up'[s][i], Taken(s) + i)
             /\ Len(up'[s]) = IF lost[s] THEN Len(up[s]) ELSE Len(up[s]) + 1
  <2>1. \A i \in 1..Len(up[s]) : IsNth(up[s][i], Taken(s) + i)
    BY <1>5 DEF UpInv, UpPlace
  <2>2. CASE lost[s]
    BY <2>1, <2>2
  <2>3. CASE ~lost[s]
    <3>1. <<t>> \in Seq(Line) /\ Len(<<t>>) = 1 /\ <<t>>[1] = t
      OBVIOUS
    <3>2. /\ Len(up'[s]) = Len(up[s]) + Len(<<t>>)
          /\ \A i \in 1..Len(up[s]) : up'[s][i] = up[s][i]
          /\ \A i \in 1..Len(<<t>>) : up'[s][Len(up[s]) + i] = <<t>>[i]
      BY <1>1, <2>3, <3>1, ConcatFacts
    <3>3. Len(up'[s]) = Len(up[s]) + 1 /\ up'[s][Len(up[s]) + 1] = t
      BY <1>1, <3>1, <3>2
    <3>4. IsNth(t, Taken(s) + (Len(up[s]) + 1))
      <4>1. Taken(s) + (Len(up[s]) + 1) = Taken(s) + Len(up[s]) + 1
        BY <1>1
      <4> QED BY <1>5, <2>3, <4>1
    <3>5. ASSUME NEW i \in 1..Len(up'[s]) PROVE IsNth(up'[s][i], Taken(s) + i)
      <4>1. CASE i \in 1..Len(up[s])
        BY <2>1, <3>2, <4>1
      <4>2. CASE i = Len(up[s]) + 1
        BY <3>3, <3>4, <4>2
      <4> QED BY <1>1, <3>3, <4>1, <4>2
    <3> QED BY <2>3, <3>3, <3>5
  <2> QED BY <1>1, <2>2, <2>3, UpTypes
<1>6. /\ client'[s].pc # "new" /\ (Idle(s) => handler[s].n = 0)
      /\ client[s].n <= Whole
  BY <1>1 DEF UpInv, UpPlace
<1>7. ASSUME Receiving(s)
      PROVE  /\ Taken(s) + Len(up'[s]) <= Whole + 2
             /\ Taken(s) + Len(up'[s]) = Whole + 2 => Uploaded(s)'
             /\ client'[s].pc = "write" =>
                   /\ Taken(s) + Len(up'[s]) <= client'[s].n + 1
                   /\ ~lost[s] => Taken(s) + Len(up'[s]) = client'[s].n + 1
  <2>1. Len(up'[s]) = IF lost[s] THEN Len(up[s]) ELSE Len(up[s]) + 1
    BY <1>5, <1>7
  <2> DEFINE T == Taken(s)
             L == Len(up[s])
             M == Len(up'[s])
             n == client'[s].n
  <2>2. T \in Nat /\ L \in Nat /\ M \in Nat /\ T + L <= Whole + 1
    BY <1>1, <1>6, <1>7, <2>1
  <2>3. CASE client'[s].pc = "status" /\ n = Whole
    BY <1>1, <2>1, <2>2, <2>3 DEF Uploaded
  <2>4. CASE /\ client'[s].pc = "write" /\ n \in 0..Whole /\ n + 1 >= T + L
             /\ (~lost[s] => n = T + L)
    <3>1. n \in Nat /\ n <= Whole
      BY <1>1, <2>4
    <3> HIDE DEF T, L, M, n
    <3>2. T + M <= n + 1 /\ (~lost[s] => T + M = n + 1)
      BY <2>1, <2>2, <2>4, <3>1 DEF L, M
    <3>3. T + M <= Whole + 1
      BY <1>1, <2>2, <3>1, <3>2
    <3>4. T + M <= Whole + 2 /\ T + M # Whole + 2
      BY <1>1, <2>2, <3>3
    <3> QED BY <2>4, <3>2, <3>4 DEF T, L, M, n
  <2> QED BY <1>7, <2>3, <2>4
<1>8. UpPlace(s)'
  <2>1. Idle(s)' = Idle(s) /\ Receiving(s)' = Receiving(s)
    BY <1>4 DEF Idle, Receiving
  <2> QED BY <1>3, <1>4, <1>5, <1>6, <1>7, <2>1 DEF UpPlace
<1> QED BY <1>2, <1>8 DEF UpInv

\* The client goes on without sending anything.
LEMMA UpMoves ==
    ASSUME TypeInv, NEW s \in Setter, UpInv(s),
           client'[s].pc \notin {"new", "write"}, client'[s].n = client[s].n,
           Uploaded(s) => Uploaded(s)',
           UNCHANGED <<stored, handler, lost>>, up'[s] = up[s]
    PROVE  UpInv(s)'
<1>1. Taken(s)' = Taken(s) /\ Idle(s)' = Idle(s) /\ Receiving(s)' = Receiving(s)
  BY DEF Taken, Idle, Receiving
<1>2. UpPlace(s)'
  BY <1>1 DEF UpInv, UpPlace, IsNth
<1>3. StoredPlace(s)'
  BY DEF UpInv, StoredPlace, Holds
<1> QED BY <1>2, <1>3 DEF UpInv

LEMMA UpWriter ==
    ASSUME TypeInv, NEW s \in Setter, UpInv(s),
           SetStart(s) \/ WritePart(s) \/ Close(s) \/ Drop(s) \/ ReadStatus(s)
    PROVE  UpInv(s)'
<1>1. /\ s \in Call /\ s \notin Getter /\ client[s].n \in 0..Whole /\ handler[s].n \in 0..Whole
      /\ up[s] \in Seq(Line) /\ Len(up[s]) \in Nat /\ Taken(s) \in 0..(Whole + 1)
      /\ Whole \in Nat \ {0} /\ RequestPlace(s) /\ lost[s] \in BOOLEAN
      /\ TypeOK /\ WireOK
  BY UpTypes DEF TypeInv
<1>2. CASE SetStart(s)
  <2>1. /\ client[s].pc = "new" /\ up[s] = <<>> /\ Idle(s) /\ client[s].n = 0
        /\ UNCHANGED <<stored, handler, lost>>
    BY <1>1, <1>2 DEF SetStart, RequestPlace, server, UpInv, UpPlace
  <2>2. PICK keys \in KeyLists : Connects(s, keys, "write")
    BY <1>2 DEF SetStart
  <2>3. /\ client'[s].n = client[s].n
        /\ \/ client'[s].pc = "err" /\ up'[s] = up[s]
           \/ /\ client'[s].pc = "write"
              /\ \/ lost[s] /\ up'[s] = up[s]
                 \/ ~lost[s] /\ \E t \in Line : t.is = "request" /\ up'[s] = up[s] \o <<t>>
    BY <1>1, <2>2, ConnectsFacts
  <2>4. Taken(s) = 0 /\ Len(up[s]) = 0
    BY <2>1 DEF Taken
  <2>5. CASE client'[s].pc = "err" /\ up'[s] = up[s]
    <3>1. ~Uploaded(s)
      BY <2>1 DEF Uploaded
    <3> QED BY <2>1, <2>3, <2>5, <3>1, UpMoves
  <2>6. CASE client'[s].pc = "write"
    <3>1. PICK t \in Line : /\ t.is = "request" \/ lost[s]
                            /\ up'[s] = IF lost[s] THEN up[s] ELSE up[s] \o <<t>>
      <4>1. CASE lost[s] /\ up'[s] = up[s]
        BY <4>1, TokenType
      <4>2. CASE ~lost[s]
        BY <2>3, <2>6, <4>2
      <4> QED BY <2>3, <2>6, <4>1, <4>2
    <3>2. ~lost[s] => IsNth(t, Taken(s) + Len(up[s]) + 1)
      BY <2>4, <3>1 DEF IsNth
    <3>3. Receiving(s) => /\ Taken(s) + Len(up[s]) <= client[s].n + 1
                          /\ ~lost[s] => IsNth(t, Taken(s) + Len(up[s]) + 1)
      BY <2>1, <2>4, <3>2
    <3>4. /\ client'[s].n \in 0..Whole
          /\ Receiving(s) => /\ client'[s].n + 1 >= Taken(s) + Len(up[s])
                             /\ ~lost[s] => client'[s].n = Taken(s) + Len(up[s])
      BY <1>1, <2>1, <2>3, <2>4
    <3> QED BY <2>1, <2>6, <3>1, <3>3, <3>4, UpSent
  <2> QED BY <2>3, <2>5, <2>6
<1>3. CASE WritePart(s)
  <2> DEFINE t == Token("part", client[s].n + 1)
  <2>1. /\ client[s].pc = "write" /\ client[s].n < Whole
        /\ client'[s].pc = "write" /\ client'[s].n = client[s].n + 1
        /\ up'[s] = IF lost[s] THEN up[s] ELSE up[s] \o <<t>>
        /\ UNCHANGED <<stored, handler, lost>>
    BY <1>3, WritePartOK DEF WritePart, server
  <2>2. /\ t \in Line /\ t.is = "part" /\ t.val = client[s].n + 1
    <3>1. client[s].n + 1 \in 1..Whole
      BY <1>1, <2>1
    <3> QED BY <3>1, TokenType DEF Token
  <2> HIDE DEF t
  <2>3. Receiving(s) => /\ Taken(s) + Len(up[s]) <= client[s].n + 1
                        /\ ~lost[s] => Taken(s) + Len(up[s]) = client[s].n + 1
    BY <2>1 DEF UpInv, UpPlace
  <2>4. Receiving(s) => (~lost[s] => IsNth(t, Taken(s) + Len(up[s]) + 1))
    <3>1. SUFFICES ASSUME Receiving(s), ~lost[s] PROVE IsNth(t, client[s].n + 1 + 1)
      BY <2>3
    <3> QED BY <1>1, <2>1, <2>2 DEF IsNth
  <2>5. client'[s].n \in 0..Whole
    BY <1>1, <2>1
  <2>6. Receiving(s) => /\ client'[s].n + 1 >= Taken(s) + Len(up[s])
                        /\ ~lost[s] => client'[s].n = Taken(s) + Len(up[s])
    BY <1>1, <2>1, <2>3
  <2> QED BY <2>1, <2>2, <2>3, <2>4, <2>5, <2>6, UpSent
<1>4. CASE Close(s)
  <2> DEFINE t == Token("last", 0)
  <2>1. /\ client[s].pc = "write" /\ client[s].n = Whole
        /\ client'[s].pc = "status" /\ client'[s].n = Whole
        /\ up'[s] = IF lost[s] THEN up[s] ELSE up[s] \o <<t>>
        /\ UNCHANGED <<stored, handler, lost>>
    BY <1>4, CloseOK DEF Close, server
  <2>2. t \in Line /\ t.is = "last"
    BY TokenType DEF Token
  <2> HIDE DEF t
  <2>3. Receiving(s) => /\ Taken(s) + Len(up[s]) <= client[s].n + 1
                        /\ ~lost[s] => Taken(s) + Len(up[s]) = client[s].n + 1
    BY <2>1 DEF UpInv, UpPlace
  <2>4. Receiving(s) => (~lost[s] => IsNth(t, Taken(s) + Len(up[s]) + 1))
    <3>1. SUFFICES ASSUME Receiving(s), ~lost[s] PROVE IsNth(t, Whole + 1 + 1)
      BY <2>1, <2>3
    <3> QED BY <1>1, <2>2 DEF IsNth
  <2> QED BY <2>1, <2>2, <2>3, <2>4, UpSent
<1>5. CASE Drop(s)
  <2>1. /\ client[s].pc = "write" /\ client'[s].pc \in {"gone", "err"}
        /\ client'[s].n = client[s].n /\ UNCHANGED <<stored, handler, lost>> /\ up'[s] = up[s]
    BY <1>5, DropOK DEF server
  <2>2. ~Uploaded(s)
    BY <2>1 DEF Uploaded
  <2> QED BY <2>1, <2>2, UpMoves
<1>6. CASE ReadStatus(s)
  <2>1. /\ client[s].pc = "status" /\ UNCHANGED <<stored, handler, up, lost>>
    BY <1>6 DEF ReadStatus, server
  <2>2. PICK pc \in {"ok", "err", "panic"} : Goes(s, pc)
    <3>1. \A code : SetAnswer(code) \in {"ok", "err"}
      BY DEF SetAnswer
    <3>2. ASSUME down[s] # <<>>,
                 LET t == Head(down[s])
                     answer == IF s \in Getter THEN GetAnswer(t.val) ELSE SetAnswer(t.val)
                 IN  \E pc \in {answer} \cup (IF t.cut THEN {"err", "panic"} ELSE {}) :
                         Goes(s, pc)
          PROVE  \E pc \in {"ok", "err", "panic"} : Goes(s, pc)
      BY <1>1, <3>1, <3>2
    <3> QED BY <1>6, <3>2 DEF ReadStatus
  <2>3. client'[s].pc = pc /\ client'[s].n = client[s].n
    BY <1>1, <2>2, GoesFacts DEF Final
  <2>4. Uploaded(s) => Uploaded(s)'
    BY <2>3 DEF Uploaded
  <2> QED BY <2>1, <2>3, <2>4, UpMoves
<1> QED BY <1>2, <1>3, <1>4, <1>5, <1>6

\* The server takes the next line or chunk.
LEMMA UpTaken ==
    ASSUME TypeInv, NEW s \in Setter, UpInv(s), Receiving(s), UNCHANGED <<stored, client, lost>>,
           up[s] # <<>>, up'[s] = Tail(up[s]),
           handler'[s].pc = "copy", 1 + handler'[s].n = Taken(s) + 1
    PROVE  UpInv(s)'
<1>1. /\ s \in Call /\ up[s] \in Seq(Line) /\ Len(up[s]) \in Nat /\ Taken(s) \in 0..(Whole + 1)
      /\ Whole \in Nat \ {0} /\ client[s].n \in 0..Whole
  BY UpTypes
<1>2. /\ Len(up[s]) \in Nat \ {0} /\ Len(up'[s]) = Len(up[s]) - 1
      /\ \A i \in 1..(Len(up[s]) - 1) : up'[s][i] = up[s][i + 1]
  BY <1>1, TailFacts
<1>3. Taken(s)' = Taken(s) + 1 /\ ~Idle(s)'
  BY DEF Taken, Idle
<1>4. ASSUME NEW i \in 1..Len(up'[s]) PROVE IsNth(up'[s][i], Taken(s)' + i)
  <2>1. i + 1 \in 1..Len(up[s]) /\ Taken(s) + 1 + i = Taken(s) + (i + 1) /\ up'[s][i] = up[s][i + 1]
    <3>1. i \in 1..(Len(up[s]) - 1) /\ i \in Nat /\ i + 1 <= Len(up[s])
      BY <1>1, <1>2
    <3>2. up'[s][i] = up[s][i + 1]
      BY <1>2, <3>1
    <3>3. i + 1 \in 1..Len(up[s])
      BY <1>1, <3>1
    <3>4. \A T \in Nat : T + 1 + i = T + (i + 1)
      BY <3>1
    <3>5. Taken(s) \in Nat
      BY <1>1
    <3> QED BY <3>2, <3>3, <3>4, <3>5
  <2>2. IsNth(up[s][i + 1], Taken(s) + (i + 1))
    BY <2>1 DEF UpInv, UpPlace
  <2> QED BY <1>3, <2>1, <2>2
<1>5. Taken(s)' + Len(up'[s]) = Taken(s) + Len(up[s])
  BY <1>1, <1>2, <1>3
<1>6. /\ Taken(s) + Len(up[s]) <= Whole + 2
      /\ Taken(s) + Len(up[s]) = Whole + 2 => Uploaded(s)
      /\ client[s].pc = "write" => /\ Taken(s) + Len(up[s]) <= client[s].n + 1
                                   /\ ~lost[s] => Taken(s) + Len(up[s]) = client[s].n + 1
      /\ client[s].pc = "new" => client[s].n = 0
  BY DEF UpInv, UpPlace
<1>7. Uploaded(s)' = Uploaded(s)
  BY DEF Uploaded
<1>8. UpPlace(s)'
  BY <1>3, <1>4, <1>5, <1>6, <1>7 DEF UpPlace
<1>9. StoredPlace(s)'
  BY DEF UpInv, StoredPlace, Receiving, Holds
<1> QED BY <1>8, <1>9 DEF UpInv

\* The request ends.
LEMMA UpEnds ==
    ASSUME NEW s \in Setter, UpInv(s), UNCHANGED <<stored, client>>,
           handler'[s].pc = "done", handler'[s].n = handler[s].n \/ Receiving(s)
    PROVE  UpInv(s)'
<1>1. UpPlace(s)'
  BY DEF UpInv, UpPlace, Idle, Receiving
<1>2. StoredPlace(s)'
  <2>1. CASE Receiving(s)
    BY <2>1 DEF UpInv, StoredPlace, Receiving, Holds
  <2>2. CASE handler'[s].n = handler[s].n
    BY <2>2 DEF UpInv, StoredPlace, Uploaded, Holds
  <2> QED BY <2>1, <2>2
<1> QED BY <1>1, <1>2 DEF UpInv

LEMMA UpReceiver ==
    ASSUME TypeInv, NEW s \in Setter, UpInv(s),
           PutIntoCache(s) \/ Copy(s) \/ Store(s) \/ PutFails(s) \/ NoRequest(s)
    PROVE  UpInv(s)'
<1>1. /\ s \in Call /\ up[s] \in Seq(Line) /\ Len(up[s]) \in Nat /\ Taken(s) \in 0..(Whole + 1)
      /\ Whole \in Nat \ {0} /\ client[s].n \in 0..Whole /\ handler[s].n \in 0..Whole
      /\ RequestPlace(s)
  BY UpTypes
<1>2. CASE PutIntoCache(s)
  <2>1. /\ Idle(s) /\ UNCHANGED <<stored, client, lost>>
        /\ up[s] # <<>> /\ up'[s] = Tail(up[s])
        /\ handler'[s].pc \in {"copy", "done"} /\ handler'[s].n = handler[s].n
    BY <1>2, PutIntoCacheOK
  <2>2. handler[s].n = 0 /\ Taken(s) = 0 /\ Receiving(s)
    BY <2>1 DEF UpInv, UpPlace, Taken, Receiving, Idle
  <2>3. CASE handler'[s].pc = "copy"
    <3>1. 1 + handler'[s].n = Taken(s) + 1
      BY <2>1, <2>2
    <3> QED BY <2>1, <2>2, <2>3, <3>1, UpTaken
  <2>4. CASE handler'[s].pc = "done"
    BY <2>1, <2>4, UpEnds
  <2> QED BY <2>1, <2>3, <2>4
<1>3. CASE Copy(s)
  <2>1. client[s].pc # "new"
    BY <1>1, <1>3 DEF RequestPlace, Idle, Copy
  <2>2. /\ handler[s].pc = "copy" /\ UNCHANGED <<stored, client, lost>>
        /\ up' = [up EXCEPT ![s] = IF @ = <<>> THEN @ ELSE Tail(@)]
        /\ \/ /\ up[s] # <<>> /\ Head(up[s]).is = "part"
              /\ handler'[s].pc = "copy" /\ handler'[s].n = Head(up[s]).val
           \/ /\ up[s] # <<>> /\ Head(up[s]).is = "last"
              /\ handler'[s].pc = "close" /\ handler'[s].n = handler[s].n
           \/ handler'[s].pc = "done"
    BY <1>3, <2>1, CopyOK
  <2>3. Receiving(s) /\ Taken(s) = 1 + handler[s].n /\ Taken(s) >= 1
    BY <1>1, <2>2 DEF Receiving, Taken, Idle
  <2>4. ASSUME up[s] # <<>>
        PROVE  /\ Len(up[s]) >= 1 /\ Head(up[s]) = up[s][1] /\ IsNth(up[s][1], Taken(s) + 1)
               /\ up'[s] = Tail(up[s])
    <3>1. Len(up[s]) \in Nat \ {0} /\ Head(up[s]) = up[s][1]
      BY <1>1, <2>4, TailFacts
    <3>2. up'[s] = Tail(up[s])
      BY <1>1, <2>2, <2>4 DEF TypeInv, WireOK
    <3> QED BY <2>3, <3>1, <3>2 DEF UpInv, UpPlace
  <2>5. CASE /\ up[s] # <<>> /\ Head(up[s]).is = "part"
             /\ handler'[s].pc = "copy" /\ handler'[s].n = Head(up[s]).val
    <3>1. Head(up[s]).val = Taken(s)
      BY <1>1, <2>3, <2>4, <2>5 DEF IsNth
    <3>2. 1 + handler'[s].n = Taken(s) + 1
      BY <1>1, <2>5, <3>1
    <3> QED BY <2>2, <2>3, <2>4, <2>5, <3>2, UpTaken
  <2>6. CASE /\ up[s] # <<>> /\ Head(up[s]).is = "last"
             /\ handler'[s].pc = "close" /\ handler'[s].n = handler[s].n
    <3>1. Taken(s) + 1 = Whole + 2
      BY <1>1, <2>3, <2>4, <2>6 DEF IsNth
    <3>2. handler[s].n = Whole /\ Taken(s) + Len(up[s]) >= Whole + 2
      BY <1>1, <2>3, <2>4, <2>6, <3>1
    <3>3. Uploaded(s)
      <4>1. Taken(s) + Len(up[s]) <= Whole + 2
        BY <2>3 DEF UpInv, UpPlace
      <4>2. Taken(s) + Len(up[s]) = Whole + 2
        BY <1>1, <3>2, <4>1
      <4> QED BY <2>3, <4>2 DEF UpInv, UpPlace
    <3>4. Uploaded(s)' /\ handler'[s].n = Whole
      BY <2>2, <2>6, <3>2, <3>3 DEF Uploaded
    <3> QED BY <2>1, <2>2, <2>6, <3>4 DEF UpInv, UpPlace, StoredPlace, Idle, Receiving
  <2>7. CASE handler'[s].pc = "done"
    BY <2>2, <2>3, <2>7, UpEnds
  <2> QED BY <2>2, <2>5, <2>6, <2>7
<1>4. CASE Store(s)
  <2>1. client[s].pc # "new"
    BY <1>1, <1>4 DEF RequestPlace, Idle, Store
  <2>2. /\ handler[s].pc = "close" /\ UNCHANGED <<client, up, lost>>
        /\ handler'[s].pc \in {"close", "done"} /\ handler'[s].n = handler[s].n
    BY <1>4, <2>1, StoreOK
  <2>3. Uploaded(s)' /\ handler'[s].n = Whole
    BY <2>2 DEF UpInv, UpPlace, Uploaded
  <2> QED BY <2>1, <2>2, <2>3 DEF UpInv, UpPlace, StoredPlace, Idle, Receiving
<1>5. CASE PutFails(s)
  <2>1. client[s].pc # "new"
    BY <1>1, <1>5 DEF RequestPlace, Idle, PutFails
  <2> QED BY <1>5, <2>1, PutFailsOK, UpEnds
<1>6. CASE NoRequest(s)
  BY <1>1, <1>6, NoRequestOK, UpEnds
<1> QED BY <1>2, <1>3, <1>4, <1>5, <1>6

LEMMA UpLoses ==
    ASSUME TypeInv, NEW s \in Setter, UpInv(s), Lose(s)
    PROVE  UpInv(s)'
<1>1. /\ s \in Call /\ up[s] \in Seq(Line) /\ Len(up[s]) \in Nat /\ Taken(s) \in 0..(Whole + 1)
      /\ Whole \in Nat \ {0} /\ client[s].n \in 0..Whole
  BY UpTypes
<1>2. /\ UNCHANGED <<stored, client, handler>> /\ lost'[s] /\ StepOK(s)
      /\ Len(up'[s]) <= Len(up[s]) /\ \A i \in 1..Len(up'[s]) : up'[s][i] = up[s][i]
  BY <1>1, LoseOK DEF server
<1>3. Len(up'[s]) \in Nat
  BY <1>1, <1>2 DEF StepOK, WireOK
<1>4. Taken(s)' = Taken(s) /\ Idle(s)' = Idle(s) /\ Receiving(s)' = Receiving(s)
      /\ Uploaded(s)' = Uploaded(s)
  BY <1>2 DEF Taken, Idle, Receiving, Uploaded
<1>5. ASSUME Receiving(s)
      PROVE  /\ \A i \in 1..Len(up'[s]) : IsNth(up'[s][i], Taken(s) + i)
             /\ Taken(s) + Len(up'[s]) <= Whole + 2
             /\ Taken(s) + Len(up'[s]) = Whole + 2 => Uploaded(s)
             /\ client[s].pc = "write" => Taken(s) + Len(up'[s]) <= client[s].n + 1
  <2>1. /\ \A i \in 1..Len(up[s]) : IsNth(up[s][i], Taken(s) + i)
        /\ Taken(s) + Len(up[s]) <= Whole + 2
        /\ Taken(s) + Len(up[s]) = Whole + 2 => Uploaded(s)
        /\ client[s].pc = "write" => Taken(s) + Len(up[s]) <= client[s].n + 1
    BY <1>5 DEF UpInv, UpPlace
  <2>2. \A i \in 1..Len(up'[s]) : i \in 1..Len(up[s])
    BY <1>1, <1>2, <1>3
  <2>3. \A i \in 1..Len(up'[s]) : IsNth(up'[s][i], Taken(s) + i)
    BY <1>2, <2>1, <2>2
  <2> DEFINE T == Taken(s)
             L == Len(up[s])
             M == Len(up'[s])
  <2>4. T \in Nat /\ L \in Nat /\ M \in Nat /\ M <= L
    BY <1>1, <1>2, <1>3
  <2>5. /\ T + L <= Whole + 2 /\ (T + L = Whole + 2 => Uploaded(s))
        /\ client[s].pc = "write" => T + L <= client[s].n + 1
    BY <2>1
  <2> HIDE DEF T, L, M
  <2>6. /\ T + M <= Whole + 2 /\ (T + M = Whole + 2 => Uploaded(s))
        /\ client[s].pc = "write" => T + M <= client[s].n + 1
    BY <1>1, <2>4, <2>5
  <2> QED BY <2>3, <2>6 DEF T, M
<1>6. UpPlace(s)'
  BY <1>2, <1>4, <1>5 DEF UpInv, UpPlace
<1>7. StoredPlace(s)'
  BY <1>2, <1>4 DEF UpInv, StoredPlace, Holds
<1> QED BY <1>6, <1>7 DEF UpInv

LEMMA UpActs ==
    ASSUME TypeInv, NEW c \in Call, Acts(c), NEW s \in Setter, UpInv(s)
    PROVE  UpInv(s)'
<1>1. CASE s # c
  BY <1>1, ActsOK, UpApart
<1>2. CASE s = c
  <2>1. s \notin Getter
    BY KeyAssumption
  <2> QED BY <1>2, <2>1, UpWriter, UpReceiver, UpLoses DEF Acts
<1> QED BY <1>1, <1>2

SetsInv == TypeInv /\ \A s \in Setter : UpInv(s)

LEMMA InitSetsInv == Init => SetsInv
<1> SUFFICES ASSUME Init PROVE SetsInv
  OBVIOUS
<1>1. TypeInv
  BY InitTypeInv
<1>2. ASSUME NEW s \in Setter PROVE UpInv(s)
  <2>1. /\ s \in Call /\ Whole \in Nat \ {0}
    BY UpTypes, <1>1
  <2>2. /\ client[s].pc = "new" /\ client[s].n = 0 /\ handler[s].pc = "idle" /\ handler[s].n = 0
        /\ up[s] = <<>> /\ Len(up[s]) = 0 /\ \A k \in Key : stored[k] = <<>>
    BY <2>1 DEF Init
  <2>3. UpPlace(s)
    BY <2>1, <2>2 DEF UpPlace, Idle, Receiving, Taken
  <2>4. StoredPlace(s)
    BY <2>2 DEF StoredPlace, Holds
  <2> QED BY <2>3, <2>4 DEF UpInv
<1> QED BY <1>1, <1>2 DEF SetsInv

\* An upload arrives in the order it was sent and without a gap: what the server
\* has taken of it is continued by what is on the connection.
THEOREM SetsKept == Spec => []SetsInv
<1>1. SetsInv /\ [Next]_vars => SetsInv'
  <2> SUFFICES ASSUME SetsInv, [Next]_vars PROVE SetsInv'
    OBVIOUS
  <2>1. CASE Next
    <3>1. PICK c \in Call : Acts(c)
      BY <2>1, NextActs
    <3>2. TypeInv'
      BY <3>1, ActsOK, StepTypeInv DEF SetsInv
    <3>3. \A s \in Setter : UpInv(s)'
      BY <3>1, UpActs DEF SetsInv
    <3> QED BY <3>2, <3>3 DEF SetsInv
  <2>2. CASE UNCHANGED vars
    <3>1. TypeInv'
      BY <2>2, TypeStutters DEF SetsInv
    <3>2. UNCHANGED <<stored, client, handler, up, lost>>
      BY <2>2 DEF vars
    <3>3. \A s \in Setter : UpInv(s)'
      BY <3>2, UpUntouched DEF SetsInv, Holds
    <3> QED BY <3>1, <3>3 DEF SetsInv
  <2> QED BY <2>1, <2>2
<1> QED BY <1>1, InitSetsInv, PTL DEF Spec

\* What is stored was sent and received whole, however the connections fared.
THEOREM OnlyWholeStored == Spec => []OnlyWholeIsStored
<1>1. SetsInv => OnlyWholeIsStored
  <2> SUFFICES ASSUME SetsInv, NEW k \in Key, NEW i \in DOMAIN stored[k]
               PROVE  LET s == stored[k][i]
                      IN  /\ client[s].n = Whole /\ client[s].pc \in {"status", "ok", "err", "panic"}
                          /\ handler[s].n = Whole
    BY DEF OnlyWholeIsStored
  <2>1. stored[k][i] \in Setter
    BY DEF SetsInv, TypeInv, TypeOK
  <2>2. Holds(stored[k], stored[k][i])
    BY DEF Holds
  <2> QED BY <2>1, <2>2 DEF SetsInv, UpInv, StoredPlace, Uploaded
<1> QED BY <1>1, SetsKept, PTL

-----------------------------------------------------------------------------
(* A download.  A line or chunk can only be cut as the last one that       *)
(* arrives of a broken connection; if it is the key, nothing follows it,   *)
(* and the wrong key it may be read as never comes with any content.       *)

\* What the get g may find: the keys its content was stored under of which all
\* before them may be passed over.
Foremost(g, k) ==
    \E i \in DOMAIN client[g].keys : /\ client[g].keys[i] = k
                                     /\ MayPass(client[g].held, client[g].keys, i - 1)
Found(g) == {k \in Key : Holds(stored[k], handler[g].content) /\ Foremost(g, k)}
Missed(g) == MayPass(client[g].held, client[g].keys, Len(client[g].keys))

AskPlace(g) == Idle(g) /\ up[g] # <<>> => up[g][1].val.keys = client[g].keys
LinesPlace(g) ==
    \A i \in 1..Len(down[g]) :
        /\ down[g][i].cut => i = Len(down[g]) /\ lost[g]
        /\ down[g][i].is = "key" => down[g][i].val \in Found(g)
        /\ down[g][i].is = "status" /\ down[g][i].val = "204" => Missed(g)
KeyPlace(g) ==
    /\ Idle(g) => down[g] = <<>> /\ client[g].key = Absent /\ handler[g].content = Absent
    /\ client[g].key # Absent => \/ client[g].key \in Found(g)
                                 \/ lost[g] /\ down[g] = <<>> /\ client[g].n = 0
    /\ client[g].pc = "body" \/ client[g].n > 0 => client[g].key # Absent
    /\ client[g].pc \in {"new", "status", "headers"} => client[g].n = 0
    /\ client[g].pc = "miss" => Missed(g)
    /\ client[g].pc = "status" =>
          IF down[g] = <<>> THEN Idle(g) \/ lost[g] ELSE down[g][1].is = "status"
DownInv(g) == LinesPlace(g) /\ KeyPlace(g)

LEMMA DownTypes ==
    ASSUME TypeInv, NEW g \in Getter
    PROVE  /\ g \in Call /\ g \notin Setter /\ client[g].n \in 0..Whole /\ Whole \in Nat \ {0}
           /\ client[g].key \in Key \cup {Absent} /\ handler[g].content \in Setter \cup {Absent}
           /\ down[g] \in Seq(Line) /\ Len(down[g]) \in Nat /\ lost[g] \in BOOLEAN
           /\ client[g].chunked \in BOOLEAN /\ Absent \notin Setter /\ Absent \notin Key
           /\ feed[g] \in Adapter /\ feed[g].channel \in Seq(Chunk)
           /\ feed[g].n \in 0..Whole /\ feed[g].buf \in 0..MaxBuf
           /\ \A i \in 1..Len(down[g]) : down[g][i].is = "key" => down[g][i].val \in Key
<1>1. g \in Call /\ g \notin Setter /\ Absent \notin Setter /\ Absent \notin Key
  BY KeyAssumption DEF Call
<1>2. /\ client[g].n \in 0..Whole /\ client[g].key \in Key \cup {Absent}
      /\ client[g].chunked \in BOOLEAN /\ lost[g] \in BOOLEAN
  BY <1>1 DEF TypeInv, TypeOK, ClientCall
<1>3. handler[g].content \in Setter \cup {Absent}
  BY <1>1 DEF TypeInv, TypeOK, Request
<1>4. down[g] \in Seq(Line) /\ Len(down[g]) \in Nat
  BY <1>1 DEF TypeInv, WireOK
<1>5. \A i \in 1..Len(down[g]) : down[g][i].is = "key" => down[g][i].val \in Key
  <2> SUFFICES ASSUME NEW i \in 1..Len(down[g]), down[g][i].is = "key"
               PROVE  down[g][i].val \in Key
    OBVIOUS
  <2>1. down[g][i] \in Line
    BY <1>4
  <2> QED BY <2>1, LineFacts
<1>6. /\ feed[g] \in Adapter /\ feed[g].channel \in Seq(Chunk)
      /\ feed[g].n \in 0..Whole /\ feed[g].buf \in 0..MaxBuf
  BY DEF TypeInv, TypeOK, Adapter
<1> QED BY <1>1, <1>2, <1>3, <1>4, <1>5, <1>6, BoundsAssumption

\* Once a call has begun, its keys are fixed.
LEMMA LookKept ==
    ASSUME TypeInv, NEW g \in Getter, client[g].pc # "new", NEW c \in Call, Acts(c)
    PROVE  client'[g].keys = client[g].keys /\ client'[g].held = client[g].held
<1>1. TypeOK /\ g \in Call
  BY DEF TypeInv, Call
<1>2. CASE g # c
  BY <1>1, <1>2, ActsOK DEF StepOK, Apart
<1>3. CASE g = c
  <2>1. c \in Getter /\ c \notin Setter /\ ~GetStart(c)
    BY <1>3, KeyAssumption DEF GetStart
  <2>7. ASSUME NEW pc, Goes(c, pc)
        PROVE  client'[g].keys = client[g].keys /\ client'[g].held = client[g].held
    BY <1>1, <1>3, <2>7 DEF Goes, TypeOK, ClientCall
  <2>2. CASE ReadStatus(c)
    <3>1. \E pc : Goes(c, pc)
      BY <2>2 DEF ReadStatus
    <3> QED BY <2>7, <3>1
  <2>3. CASE ReadHeader(c)
    <3>1. \/ \E pc : Goes(c, pc)
          \/ \E k : client' = [client EXCEPT ![c].key = k]
          \/ client' = [client EXCEPT ![c].chunked = TRUE]
      BY <2>3 DEF ReadHeader
    <3>2. ASSUME NEW k, client' = [client EXCEPT ![c].key = k]
          PROVE  client'[g].keys = client[g].keys /\ client'[g].held = client[g].held
      BY <1>1, <1>3, <3>2 DEF TypeOK, ClientCall
    <3>3. CASE client' = [client EXCEPT ![c].chunked = TRUE]
      BY <1>1, <1>3, <3>3 DEF TypeOK, ClientCall
    <3> QED BY <2>7, <3>1, <3>2, <3>3
  <2>4. CASE ReadBody(c)
    <3>1. (\E pc : Goes(c, pc)) \/ \E n : client' = [client EXCEPT ![c].n = n]
      BY <2>4 DEF ReadBody
    <3> QED BY <1>1, <1>3, <2>7, <3>1 DEF TypeOK, ClientCall
  <2>5. CASE GiveUp(c)
    BY <2>5, <2>7 DEF GiveUp
  <2>6. CASE UNCHANGED client
    BY <1>3, <2>6
  <2> QED BY <1>3, <2>1, <2>2, <2>3, <2>4, <2>5, <2>6
          DEF Acts, Read, GetFromCache, SendPart, ReadPart, NoRequest, Lose
<1> QED BY <1>2, <1>3

\* Nothing that was stored goes.
LEMMA FoundStays ==
    ASSUME TypeInv, NEW c \in Call, Grows(c), NEW g \in Getter,
           client'[g].keys = client[g].keys, client'[g].held = client[g].held,
           handler'[g].content = handler[g].content
    PROVE  Found(g) \subseteq Found(g)' /\ Missed(g)' = Missed(g)
<1>1. \A k \in Key : \A s : Holds(stored[k], s) => Holds(stored'[k], s)
  BY StoredFacts DEF Holds
<1>2. \A k : Foremost(g, k) => Foremost(g, k)'
  BY DEF Foremost, MayPass
<1>3. ASSUME NEW k \in Found(g) PROVE k \in Found(g)'
  <2>1. k \in Key /\ Holds(stored[k], handler[g].content) /\ Foremost(g, k)
    BY <1>3 DEF Found
  <2>2. Holds(stored'[k], handler'[g].content) /\ Foremost(g, k)'
    BY <1>1, <1>2, <2>1
  <2>3. Holds(stored[k], handler[g].content)'
    BY <2>2 DEF Holds
  <2> QED BY <2>1, <2>2, <2>3 DEF Found
<1>4. Missed(g)' = Missed(g)
  BY DEF Missed, MayPass
<1> QED BY <1>3, <1>4

LEMMA DownUntouched ==
    ASSUME NEW g \in Getter, DownInv(g),
           Found(g) \subseteq Found(g)', Missed(g) => Missed(g)',
           client'[g].pc = client[g].pc
               \/ client'[g].pc \notin {"new", "status", "headers", "body", "miss"},
           client'[g].key = client[g].key, client'[g].n = client[g].n,
           handler'[g].content = handler[g].content, Idle(g)' => Idle(g),
           Idle(g) /\ ~Idle(g)' => lost[g] \/ client[g].pc # "status",
           down'[g] = down[g], lost'[g] = lost[g]
    PROVE  DownInv(g)'
<1>1. LinesPlace(g)'
  BY DEF DownInv, LinesPlace
<1>2. KeyPlace(g)'
  BY DEF DownInv, KeyPlace
<1> QED BY <1>1, <1>2 DEF DownInv

LEMMA DownApart ==
    ASSUME TypeInv, NEW c \in Call, StepOK(c), NEW g \in Getter, DownInv(g), g # c
    PROVE  DownInv(g)'
<1>1. /\ client'[g] = client[g] /\ handler'[g] = handler[g] /\ down'[g] = down[g]
      /\ lost'[g] = lost[g] /\ Grows(c)
  BY DEF StepOK, Apart, Call
<1>2. Found(g) \subseteq Found(g)' /\ Missed(g)' = Missed(g)
  BY <1>1, FoundStays
<1> QED BY <1>1, <1>2, DownUntouched DEF Idle

\* The next line or chunk is read.
LEMMA LinesTaken ==
    ASSUME TypeInv, NEW g \in Getter, LinesPlace(g), lost'[g] = lost[g],
           Found(g) \subseteq Found(g)', Missed(g) => Missed(g)',
           down[g] # <<>>, down'[g] = Tail(down[g])
    PROVE  /\ LinesPlace(g)' /\ Head(down[g]) = down[g][1] /\ Len(down[g]) \in Nat \ {0}
           /\ Len(down'[g]) = Len(down[g]) - 1
           /\ \A i \in 1..Len(down'[g]) : i + 1 \in 1..Len(down[g]) /\ down'[g][i] = down[g][i + 1]
           /\ Head(down[g]).cut => lost[g] /\ down'[g] = <<>>
           /\ Head(down[g]).is = "key" => Head(down[g]).val \in Found(g)
           /\ Head(down[g]).is = "status" /\ Head(down[g]).val = "204" => Missed(g)
<1>1. down[g] \in Seq(Line) /\ Len(down[g]) \in Nat
  BY DownTypes
<1>2. /\ Head(down[g]) = down[g][1] /\ Len(down[g]) \in Nat \ {0}
      /\ Len(down'[g]) = Len(down[g]) - 1 /\ down'[g] \in Seq(Line)
      /\ \A i \in 1..(Len(down[g]) - 1) : down'[g][i] = down[g][i + 1]
  BY <1>1, TailFacts
<1>3. \A i \in 1..Len(down'[g]) : i + 1 \in 1..Len(down[g]) /\ down'[g][i] = down[g][i + 1]
  BY <1>2
<1>4. ASSUME NEW i \in 1..Len(down'[g])
      PROVE  /\ down'[g][i].cut => i = Len(down'[g]) /\ lost[g]
             /\ down'[g][i].is = "key" => down'[g][i].val \in Found(g)
             /\ down'[g][i].is = "status" /\ down'[g][i].val = "204" => Missed(g)
  <2>1. i + 1 \in 1..Len(down[g]) /\ down'[g][i] = down[g][i + 1]
    BY <1>3
  <2>2. /\ down[g][i + 1].cut => i + 1 = Len(down[g]) /\ lost[g]
        /\ down[g][i + 1].is = "key" => down[g][i + 1].val \in Found(g)
        /\ down[g][i + 1].is = "status" /\ down[g][i + 1].val = "204" => Missed(g)
    BY <2>1 DEF LinesPlace
  <2>3. i + 1 = Len(down[g]) => i = Len(down'[g])
    BY <1>2
  <2> QED BY <2>1, <2>2, <2>3
<1>5. LinesPlace(g)'
  BY <1>4 DEF LinesPlace
<1>6. 1 \in 1..Len(down[g])
  BY <1>2
<1>7. /\ down[g][1].cut => 1 = Len(down[g]) /\ lost[g]
      /\ down[g][1].is = "key" => down[g][1].val \in Found(g)
      /\ down[g][1].is = "status" /\ down[g][1].val = "204" => Missed(g)
  BY <1>6 DEF LinesPlace
<1>8. Head(down[g]).cut => lost[g] /\ down'[g] = <<>>
  <2>1. 1 = Len(down[g]) => Len(down'[g]) = 0
    BY <1>2
  <2>2. Len(down'[g]) = 0 => down'[g] = <<>>
    BY <1>2, EmptyFacts
  <2> QED BY <1>2, <1>7, <2>1, <2>2
<1> QED BY <1>2, <1>3, <1>5, <1>7, <1>8

LEMMA DownReads ==
    ASSUME TypeInv, NEW g \in Getter, DownInv(g),
           ReadStatus(g) \/ ReadHeader(g) \/ ReadBody(g)
    PROVE  DownInv(g)'
<1>1. /\ g \in Call /\ client[g].n \in 0..Whole /\ Whole \in Nat \ {0}
      /\ client[g].key \in Key \cup {Absent} /\ Absent \notin Key /\ down[g] \in Seq(Line)
  BY DownTypes
<1>2. LinesPlace(g) /\ KeyPlace(g) /\ TypeOK
  BY DEF DownInv, TypeInv
<1>5. Found(g) \subseteq Found(g)' /\ Missed(g)' = Missed(g)
  <2>1. Acts(g) /\ client[g].pc # "new" /\ UNCHANGED <<stored, handler>>
    BY DEF Acts, Read, ReadStatus, ReadHeader, ReadBody, server
  <2>2. client'[g].keys = client[g].keys /\ client'[g].held = client[g].held
    BY <1>1, <2>1, LookKept
  <2> QED BY <1>1, <2>1, <2>2, FoundStays DEF Grows
<1>3. CASE ReadStatus(g)
  <2>1. /\ client[g].pc = "status" /\ UNCHANGED <<stored, handler, up, lost>>
        /\ down' = down \/ (down[g] # <<>> /\ down' = [down EXCEPT ![g] = Tail(@)])
    BY <1>3 DEF ReadStatus, server
  <2>2. PICK pc \in {"miss", "headers", "err", "panic"} :
            /\ Goes(g, pc)
            /\ pc = "miss" => Missed(g)
    <3>1. \A code : GetAnswer(code) \in {"miss", "headers", "err"}
      BY DEF GetAnswer
    <3>2. ASSUME down[g] # <<>>,
                 LET t == Head(down[g])
                     answer == IF g \in Getter THEN GetAnswer(t.val) ELSE SetAnswer(t.val)
                 IN  \E pc \in {answer} \cup (IF t.cut THEN {"err", "panic"} ELSE {}) :
                         Goes(g, pc)
          PROVE  \E pc \in {GetAnswer(Head(down[g]).val), "err", "panic"} : Goes(g, pc)
      BY <3>2
    <3>3. ASSUME down[g] # <<>>, GetAnswer(Head(down[g]).val) = "miss" PROVE Missed(g)
      <4>1. Head(down[g]) = down[g][1] /\ 1 \in 1..Len(down[g])
        BY <1>1, <3>3, TailFacts
      <4>2. Head(down[g]).is = "status"
        BY <1>2, <2>1, <3>3, <4>1 DEF KeyPlace
      <4>3. Head(down[g]).val = "204"
        BY <3>3 DEF GetAnswer
      <4> QED BY <1>2, <4>1, <4>2, <4>3 DEF LinesPlace
    <3> QED BY <1>3, <3>1, <3>2, <3>3 DEF ReadStatus
  <2>3. client'[g].pc = pc /\ client'[g].n = client[g].n /\ client'[g].key = client[g].key
    BY <1>1, <1>2, <2>2, GoesFacts DEF Final
  <2>4. client[g].n = 0 /\ (down[g] = <<>> => down'[g] = <<>>)
    BY <1>2, <2>1 DEF KeyPlace
  <2>5. LinesPlace(g)'
    <3>1. CASE down' = down
      BY <1>2, <1>5, <2>1, <3>1 DEF LinesPlace
    <3>2. CASE down[g] # <<>> /\ down'[g] = Tail(down[g])
      BY <1>2, <1>5, <2>1, <3>2, LinesTaken
    <3> QED BY <1>1, <2>1, <3>1, <3>2 DEF TypeInv, WireOK
  <2>6. KeyPlace(g)'
    BY <1>2, <1>5, <2>1, <2>2, <2>3, <2>4 DEF KeyPlace, Idle
  <2> QED BY <2>5, <2>6 DEF DownInv
<1>4. CASE ReadHeader(g) \/ ReadBody(g)
  <2>1. /\ UNCHANGED <<stored, handler, lost>>
        /\ down' = [down EXCEPT ![g] = IF @ = <<>> THEN @ ELSE Tail(@)]
    BY <1>4 DEF ReadHeader, ReadBody, server
  <2>2. /\ down[g] = <<>> => down'[g] = <<>>
        /\ down[g] # <<>> => down'[g] = Tail(down[g])
    BY <1>1, <2>1 DEF TypeInv, WireOK
  <2>3. LinesPlace(g)'
    <3>1. CASE down[g] = <<>>
      BY <2>2, <3>1 DEF LinesPlace
    <3>2. CASE down[g] # <<>>
      BY <1>2, <1>5, <2>1, <2>2, <3>2, LinesTaken
    <3> QED BY <3>1, <3>2
  <2>4. down[g] # <<>> => /\ Head(down[g]).cut => lost[g] /\ down'[g] = <<>>
                          /\ Head(down[g]).is = "key" => Head(down[g]).val \in Found(g)
    BY <1>2, <1>5, <2>1, <2>2, LinesTaken
  <2>5. CASE ReadHeader(g)
    <3>1. /\ client[g].pc = "headers" /\ client'[g].n = client[g].n
          /\ \/ /\ client'[g].pc = IF client[g].key = Absent THEN "err" ELSE "body"
                /\ client'[g].key = client[g].key
             \/ /\ down[g] # <<>> /\ Head(down[g]).is = "key"
                /\ client'[g].key \in {Head(down[g]).val, Absent} \/ Head(down[g]).cut
                /\ client'[g].pc = "headers"
             \/ client'[g].pc \in {"headers", "err"} /\ client'[g].key = client[g].key
      BY <2>5, ReadHeaderCases
    <3>2. client[g].n = 0 /\ client'[g].n = 0
      BY <1>2, <3>1 DEF KeyPlace
    <3>3. ASSUME down[g] # <<>>, Head(down[g]).is = "key", client'[g].pc = "headers",
                 client'[g].key \in {Head(down[g]).val, Absent} \/ Head(down[g]).cut
          PROVE  KeyPlace(g)'
      <4>1. ~Idle(g)
        BY <1>2, <3>3 DEF KeyPlace
      <4>2. client'[g].key # Absent =>
               \/ client'[g].key \in Found(g)
               \/ lost[g] /\ down'[g] = <<>> /\ client'[g].n = 0
        BY <2>4, <3>2, <3>3
      <4> QED BY <1>5, <2>1, <3>2, <3>3, <4>1, <4>2 DEF KeyPlace, Idle
    <3>4. ASSUME client'[g].key = client[g].key,
                 client'[g].pc = (IF client[g].key = Absent THEN "err" ELSE "body")
                     \/ client'[g].pc \in {"headers", "err"}
          PROVE  KeyPlace(g)'
      BY <1>2, <1>5, <2>1, <2>2, <3>1, <3>2, <3>4 DEF KeyPlace, Idle
    <3>5. KeyPlace(g)'
      BY <3>1, <3>3, <3>4
    <3> QED BY <2>3, <3>5 DEF DownInv
  <2>6. CASE ReadBody(g)
    <3>1. /\ client[g].pc = "body" /\ client'[g].key = client[g].key
          /\ client'[g].pc \in {"hit", "err", "body"}
          /\ \/ client'[g].n = client[g].n
             \/ down[g] # <<>> /\ ~Head(down[g]).cut
      BY <2>6, ReadBodyCases
    <3>2. client[g].key # Absent
      BY <1>2, <3>1 DEF KeyPlace
    <3>3. \/ client[g].key \in Found(g)
          \/ lost[g] /\ down[g] = <<>> /\ client[g].n = 0
      BY <1>2, <3>2 DEF KeyPlace
    <3>4. ~Idle(g)
      BY <1>2, <3>2 DEF KeyPlace
    <3>5. KeyPlace(g)'
      BY <1>5, <2>1, <2>2, <3>1, <3>2, <3>3, <3>4 DEF KeyPlace, Idle
    <3> QED BY <2>3, <3>5 DEF DownInv
  <2> QED BY <1>4, <2>5, <2>6
<1> QED BY <1>3, <1>4

\* One more line or chunk that is not a key.
LEMMA LinesAppended ==
    ASSUME TypeInv, NEW g \in Getter, LinesPlace(g), lost'[g] = lost[g],
           Found(g) \subseteq Found(g)', Missed(g) => Missed(g)',
           NEW t \in Line, ~t.cut, t.is # "key", t.is = "status" /\ t.val = "204" => Missed(g),
           down'[g] = IF lost[g] \/ Left(g) THEN down[g] ELSE down[g] \o <<t>>
    PROVE  /\ LinesPlace(g)'
           /\ ~lost[g] /\ ~Left(g) =>
                 /\ Len(down'[g]) = Len(down[g]) + 1 /\ down'[g][Len(down[g]) + 1] = t
                 /\ \A i \in 1..Len(down[g]) : down'[g][i] = down[g][i]
<1>1. down[g] \in Seq(Line) /\ Len(down[g]) \in Nat
  BY DownTypes
<1>2. CASE lost[g] \/ Left(g)
  BY <1>2 DEF LinesPlace
<1>3. CASE ~lost[g] /\ ~Left(g)
  <2>1. <<t>> \in Seq(Line) /\ Len(<<t>>) = 1 /\ <<t>>[1] = t
    OBVIOUS
  <2>2. /\ Len(down'[g]) = Len(down[g]) + Len(<<t>>)
        /\ \A i \in 1..Len(down[g]) : down'[g][i] = down[g][i]
        /\ \A i \in 1..Len(<<t>>) : down'[g][Len(down[g]) + i] = <<t>>[i]
    BY <1>1, <1>3, <2>1, ConcatFacts
  <2>3. Len(down'[g]) = Len(down[g]) + 1 /\ down'[g][Len(down[g]) + 1] = t
    BY <1>1, <2>1, <2>2
  <2>4. ASSUME NEW i \in 1..Len(down'[g])
        PROVE  /\ ~down'[g][i].cut
               /\ down'[g][i].is = "key" => down'[g][i].val \in Found(g)
               /\ down'[g][i].is = "status" /\ down'[g][i].val = "204" => Missed(g)
    <3>1. CASE i \in 1..Len(down[g])
      BY <1>3, <2>2, <3>1 DEF LinesPlace
    <3>2. CASE i = Len(down[g]) + 1
      BY <2>3, <3>2
    <3> QED BY <1>1, <2>3, <3>1, <3>2
  <2>5. LinesPlace(g)'
    BY <2>4 DEF LinesPlace
  <2> QED BY <2>2, <2>3, <2>5
<1> QED BY <1>2, <1>3

\* What arrives of a broken connection.
LEMMA LinesBreak ==
    ASSUME TypeInv, NEW g \in Getter, LinesPlace(g), lost'[g],
           Found(g) \subseteq Found(g)', Missed(g) => Missed(g)',
           Arrived(down[g], down'[g]), down'[g] \in Seq(Line)
    PROVE  LinesPlace(g)' /\ (down[g] = <<>> => down'[g] = <<>>)
<1>1. down[g] \in Seq(Line) /\ Len(down[g]) \in Nat /\ Len(down'[g]) \in Nat
  BY DownTypes
<1>2. /\ Len(down'[g]) <= Len(down[g])
      /\ \A i \in 1..Len(down'[g]) :
            /\ down'[g][i].is = down[g][i].is /\ down'[g][i].val = down[g][i].val
            /\ down'[g][i].cut => down[g][i].cut \/ i = Len(down'[g])
  BY DEF Arrived
<1>3. ASSUME NEW i \in 1..Len(down'[g])
      PROVE  /\ down'[g][i].cut => i = Len(down'[g])
             /\ down'[g][i].is = "key" => down'[g][i].val \in Found(g)
             /\ down'[g][i].is = "status" /\ down'[g][i].val = "204" => Missed(g)
  <2>1. i \in 1..Len(down[g])
    BY <1>1, <1>2
  <2>2. /\ down[g][i].cut => i = Len(down[g])
        /\ down[g][i].is = "key" => down[g][i].val \in Found(g)
        /\ down[g][i].is = "status" /\ down[g][i].val = "204" => Missed(g)
    BY <2>1 DEF LinesPlace
  <2>3. i = Len(down[g]) => i = Len(down'[g])
    BY <1>1, <1>2
  <2> QED BY <1>2, <2>2, <2>3
<1>4. LinesPlace(g)'
  BY <1>3 DEF LinesPlace
<1>5. down[g] = <<>> => down'[g] = <<>>
  <2>1. Len(down[g]) = 0 => Len(down'[g]) = 0
    BY <1>1, <1>2
  <2> QED BY <2>1, EmptyFacts
<1> QED BY <1>4, <1>5

LEMMA DownStarts ==
    ASSUME TypeInv, NEW g \in Getter, DownInv(g), GetStart(g) PROVE DownInv(g)'
<1>1. /\ g \in Call /\ TypeOK /\ WireOK /\ client[g].pc = "new"
      /\ UNCHANGED <<stored, handler, down, lost>>
  BY DownTypes DEF TypeInv, GetStart, server
<1>2. /\ client'[g].n = client[g].n /\ client'[g].key = client[g].key
      /\ \/ client'[g].pc \in {"status", "err"}
         \/ client'[g].pc = "miss" /\ client'[g].keys = <<>>
  <2>1. PICK keys \in KeyLists :
          \/ keys # <<>> /\ Connects(g, keys, "status")
          \/ keys = <<>> /\ Begin(g, keys, "miss") /\ UNCHANGED <<up, faults>>
    BY DEF GetStart
  <2>2. CASE Connects(g, keys, "status")
    BY <1>1, <2>2, ConnectsFacts
  <2>3. CASE keys = <<>> /\ Begin(g, keys, "miss")
    BY <1>1, <2>3, BeginFacts DEF Final
  <2> QED BY <2>1, <2>2, <2>3
<1>3. /\ client[g].n = 0 /\ Idle(g) /\ down[g] = <<>> /\ client[g].key = Absent
      /\ handler[g].content = Absent
  BY <1>1 DEF DownInv, KeyPlace, TypeInv, RequestPlace
<1>4. LinesPlace(g)'
  BY <1>1, <1>3 DEF LinesPlace
<1>5. client'[g].pc = "miss" => Missed(g)'
  BY <1>2 DEF Missed, MayPass
<1>6. KeyPlace(g)'
  BY <1>1, <1>2, <1>3, <1>5 DEF KeyPlace, Idle
<1> QED BY <1>4, <1>6 DEF DownInv

LEMMA DownAnswers ==
    ASSUME TypeInv, NEW g \in Getter, DownInv(g), AskPlace(g), GetFromCache(g) PROVE DownInv(g)'
<1>1. /\ StepOK(g) /\ Idle(g) /\ UNCHANGED <<stored, client, lost>>
      /\ \/ \E code \in Code \ {"200"} :
               /\ code = "204" => Missed(g)
               /\ Answers(g, code) /\ UNCHANGED feed
         \/ \E k \in Key, s \in Setter : Holds(stored[k], s) /\ Foremost(g, k) /\ Hit(g, k, s)
  <2>1. up[g] # <<>> /\ Idle(g)
    BY GetFromCacheOK
  <2>2. RequestOf(g).keys = client[g].keys
    <3>1. up[g] \in Seq(Line)
      BY DEF TypeInv, WireOK, Call
    <3>2. Head(up[g]) = up[g][1]
      BY <2>1, <3>1, TailFacts
    <3> QED BY <2>1, <3>2 DEF AskPlace, RequestOf
  <2> QED BY <2>2, GetFromCacheOK DEF Missed, Foremost
<1>2. /\ LinesPlace(g) /\ KeyPlace(g) /\ down[g] = <<>> /\ client[g].key = Absent
      /\ g \in Call /\ TypeOK /\ WireOK
  BY <1>1, DownTypes DEF DownInv, KeyPlace, TypeInv
<1>6. \A k : Foremost(g, k)' = Foremost(g, k)
  BY <1>1 DEF Foremost, MayPass
<1>7. Missed(g)' = Missed(g)
  BY <1>1 DEF Missed, MayPass
<1>3. ASSUME ~Idle(g)',
             client[g].pc = "status" =>
                 IF down'[g] = <<>> THEN lost[g] ELSE down'[g][1].is = "status"
      PROVE  KeyPlace(g)'
  BY <1>1, <1>2, <1>3, <1>7 DEF KeyPlace
<1>4. ASSUME NEW code \in Code, code = "204" => Missed(g), Answers(g, code) PROVE DownInv(g)'
  <2> DEFINE t == Token("status", code)
  <2>1. t \in Line /\ ~t.cut /\ t.is = "status" /\ t.val = code
    BY TokenType DEF Token
  <2>2. /\ handler'[g].pc = "done" /\ handler'[g].content = handler[g].content
        /\ down'[g] = IF lost[g] \/ Left(g) THEN down[g] ELSE down[g] \o <<t>>
    BY <1>2, <1>4, AnswersFacts
  <2> HIDE DEF t
  <2>5. Found(g)' = Found(g)
    BY <1>1, <1>6, <2>2 DEF Found, Holds
  <2>3. LinesPlace(g)'
    BY <1>1, <1>2, <1>4, <1>7, <2>1, <2>2, <2>5, LinesAppended
  <2>4. client[g].pc = "status" => IF down'[g] = <<>> THEN lost[g] ELSE down'[g][1].is = "status"
    <3>1. client[g].pc = "status" => ~Left(g)
      BY DEF Left, Final
    <3>2. <<>> \o <<t>> = <<t>> /\ <<t>>[1] = t /\ <<t>> # <<>>
      OBVIOUS
    <3>3. lost[g] \/ Left(g) => down'[g] = <<>>
      BY <1>2, <2>2
    <3>4. ~(lost[g] \/ Left(g)) => down'[g] = <<t>>
      BY <1>2, <2>2, <3>2
    <3> QED BY <2>1, <3>1, <3>2, <3>3, <3>4
  <2> QED BY <1>3, <2>2, <2>3, <2>4 DEF DownInv, Idle
<1>5. ASSUME NEW k \in Key, NEW s \in Setter, Holds(stored[k], s), Foremost(g, k), Hit(g, k, s)
      PROVE  DownInv(g)'
  <2>1. PICK q : /\ IsHead(q, k)
                 /\ down'[g] = IF lost[g] \/ Left(g) THEN down[g] ELSE down[g] \o q
    BY <1>5, HitFacts
  <2>2. handler'[g].pc = "stream" /\ handler'[g].content = s
    BY <1>5, HitFacts
  <2>6. k \in Found(g)'
    BY <1>1, <1>5, <1>6, <2>2 DEF Found, Holds
  <2>3. CASE (lost[g] \/ Left(g)) /\ down'[g] = <<>>
    <3>1. client[g].pc = "status" => ~Left(g)
      BY DEF Left, Final
    <3>2. LinesPlace(g)'
      BY <2>3 DEF LinesPlace
    <3> QED BY <1>3, <2>2, <2>3, <3>1, <3>2 DEF DownInv, Idle
  <2>4. CASE down'[g] = q
    <3>1. ASSUME NEW i \in 1..Len(q)
          PROVE  /\ ~q[i].cut /\ (q[i].is = "key" => q[i].val = k)
                 /\ (q[i].is = "status" => q[i].val = "200")
      <4>1. i \in 1..4 /\ (i = 1 \/ i = 2 \/ i = 3 \/ i = 4)
        BY <2>1 DEF IsHead
      <4>2. PICK j \in {2, 3} : /\ q[j].is = "key" /\ q[j].val = k
                                /\ \A l \in {2, 3} : l # j => q[l].is = "chunked"
        BY <2>1 DEF IsHead
      <4>3. ~q[i].cut /\ q[1].is = "status" /\ q[1].val = "200" /\ q[4].is = "end"
        BY <2>1, <4>1 DEF IsHead
      <4> QED BY <1>5, <4>1, <4>2, <4>3
    <3>2. LinesPlace(g)'
      BY <2>4, <2>6, <3>1 DEF LinesPlace
    <3>4. Len(q) = 4 /\ q[1].is = "status"
      BY <2>1 DEF IsHead
    <3>5. q # <<>>
      BY <3>4
    <3>3. down'[g] # <<>> /\ down'[g][1].is = "status"
      BY <2>4, <3>4, <3>5
    <3> QED BY <1>3, <2>2, <3>2, <3>3 DEF DownInv, Idle
  <2>5. <<>> \o q = q
    BY <2>1 DEF IsHead
  <2> QED BY <1>2, <2>1, <2>3, <2>4, <2>5
<1> QED BY <1>1, <1>4, <1>5

LEMMA DownSends ==
    ASSUME TypeInv, NEW g \in Getter, DownInv(g), SendPart(g) PROVE DownInv(g)'
<1>1. /\ StepOK(g) /\ handler[g].pc = "stream" /\ UNCHANGED <<stored, client>>
      /\ handler'[g].content = handler[g].content /\ handler'[g].pc # "idle"
      /\ g \in Call /\ LinesPlace(g) /\ KeyPlace(g) /\ WireOK'
  BY SendPartOK, DownTypes DEF DownInv, StepOK
<1>8. Found(g) \subseteq Found(g)' /\ Missed(g)' = Missed(g)
  BY <1>1, FoundStays DEF StepOK
<1>2. ASSUME down[g] = <<>> /\ lost[g] => lost'[g] /\ down'[g] = <<>>,
             lost[g] => lost'[g],
             down'[g] = <<>> => down[g] = <<>> \/ lost'[g],
             down[g] # <<>> /\ down'[g] # <<>> => down'[g][1].is = down[g][1].is
      PROVE  KeyPlace(g)'
  BY <1>1, <1>2, <1>8 DEF KeyPlace, Idle
<1>3. CASE down'[g] = down[g] /\ lost'[g] = lost[g]
  BY <1>1, <1>2, <1>3, <1>8 DEF DownInv, LinesPlace
<1>4. ASSUME NEW t \in Line, ~t.cut, t.is \notin {"key", "status"}, lost'[g] = lost[g],
             down'[g] = IF lost[g] \/ Left(g) THEN down[g] ELSE down[g] \o <<t>>
      PROVE  DownInv(g)'
  <2>1. /\ LinesPlace(g)'
        /\ ~lost[g] /\ ~Left(g) =>
              /\ Len(down'[g]) = Len(down[g]) + 1 /\ down'[g][Len(down[g]) + 1] = t
              /\ \A i \in 1..Len(down[g]) : down'[g][i] = down[g][i]
    BY <1>1, <1>4, <1>8, LinesAppended
  <2>2. down[g] # <<>> => Len(down[g]) \in Nat /\ 1 \in 1..Len(down[g])
    BY DownTypes
  <2>3. CASE lost[g] \/ Left(g)
    BY <1>2, <1>4, <2>1, <2>3 DEF DownInv
  <2>4. CASE ~lost[g] /\ ~Left(g)
    <3>1. down'[g] # <<>>
      BY <2>1, <2>4, DownTypes
    <3> QED BY <1>2, <1>4, <2>1, <2>2, <2>4, <3>1 DEF DownInv
  <2> QED BY <2>3, <2>4
<1>5. CASE lost'[g] /\ Arrived(down[g], down'[g])
  <2>1. down'[g] \in Seq(Line)
    BY <1>1 DEF WireOK
  <2>2. LinesPlace(g)' /\ (down[g] = <<>> => down'[g] = <<>>)
    BY <1>1, <1>5, <1>8, <2>1, LinesBreak
  <2>3. down'[g] # <<>> => down'[g][1].is = down[g][1].is
    BY <1>5, <2>1 DEF Arrived
  <2> QED BY <1>2, <1>5, <2>2, <2>3 DEF DownInv
<1>6. CASE /\ feed[g].channel # <<>> /\ ~IsError(Head(feed[g].channel)) /\ lost'[g] = lost[g]
           /\ down'[g] = IF lost[g] \/ Left(g) THEN down[g]
                         ELSE down[g] \o <<Token("chunk", Head(feed[g].channel))>>
  <2> DEFINE t == Token("chunk", Head(feed[g].channel))
  <2>1. Head(feed[g].channel) \in Chunk
    BY <1>6, DownTypes, TailFacts
  <2>2. t \in Line /\ ~t.cut /\ t.is = "chunk"
    BY <2>1, TokenType DEF Token
  <2> HIDE DEF t
  <2>3. down'[g] = IF lost[g] \/ Left(g) THEN down[g] ELSE down[g] \o <<t>>
    BY <1>6 DEF t
  <2> QED BY <1>4, <1>6, <2>2, <2>3
<1>7. CASE /\ lost'[g] = lost[g]
           /\ down'[g] = IF lost[g] \/ Left(g) THEN down[g] ELSE down[g] \o <<Token("last", 0)>>
  <2> DEFINE t == Token("last", 0)
  <2>1. t \in Line /\ ~t.cut /\ t.is = "last"
    BY TokenType DEF Token
  <2> HIDE DEF t
  <2>2. down'[g] = IF lost[g] \/ Left(g) THEN down[g] ELSE down[g] \o <<t>>
    BY <1>7 DEF t
  <2> QED BY <1>4, <1>7, <2>1, <2>2
<1> QED BY <1>3, <1>5, <1>6, <1>7, SendPartOK

LEMMA DownActs ==
    ASSUME TypeInv, NEW c \in Call, Acts(c), NEW g \in Getter, DownInv(g), AskPlace(g)
    PROVE  DownInv(g)'
<1>1. CASE g # c
  BY <1>1, ActsOK, DownApart
<1>2. CASE g = c
  <2>1. g \notin Setter /\ g \in Call /\ StepOK(g) /\ Grows(g)
    BY <1>2, ActsOK, DownTypes DEF StepOK
  <2>6. ASSUME client[g].pc # "new", handler'[g].content = handler[g].content
        PROVE  Found(g) \subseteq Found(g)' /\ Missed(g)' = Missed(g)
    <3>1. client'[g].keys = client[g].keys /\ client'[g].held = client[g].held
      BY <1>2, <2>6, LookKept
    <3> QED BY <2>1, <2>6, <3>1, FoundStays
  <2>2. CASE GiveUp(g)
    <3>1. /\ client'[g].pc = "gone" /\ client'[g].key = client[g].key
          /\ client'[g].n = client[g].n /\ UNCHANGED <<handler, down, lost>>
          /\ client[g].pc = "body"
      <4>1. TypeOK /\ Goes(g, "gone") /\ UNCHANGED <<handler, down, lost>>
        BY <2>2 DEF TypeInv, GiveUp, server
      <4> QED BY <2>1, <2>2, <4>1, GoesFacts DEF Final, GiveUp
    <3> QED BY <2>1, <2>6, <3>1, DownUntouched DEF Idle
  <2>3. CASE ReadPart(g)
    <3>1. UNCHANGED <<stored, client, handler, down, lost>>
      BY <2>3 DEF ReadPart
    <3>2. Found(g) \subseteq Found(g)' /\ Missed(g)' = Missed(g)
      BY <2>1, <3>1, FoundStays
    <3> QED BY <2>1, <3>1, <3>2, DownUntouched DEF Idle
  <2>4. CASE NoRequest(g)
    <3>1. /\ UNCHANGED <<client, down, lost>> /\ handler'[g].pc = "done"
          /\ handler'[g].content = handler[g].content /\ (lost[g] \/ Left(g))
          /\ client[g].pc # "new"
      BY <2>1, <2>4, NoRequestOK DEF NoRequest
    <3>2. Left(g) => client[g].pc # "status"
      BY DEF Left, Final
    <3> QED BY <2>1, <2>6, <3>1, <3>2, DownUntouched DEF Idle
  <2>5. CASE Lose(g)
    <3>1. /\ UNCHANGED <<client, server>> /\ lost'[g] /\ Arrived(down[g], down'[g])
          /\ down'[g] \in Seq(Line) /\ client[g].pc # "new"
      BY <2>1, <2>5, LoseOK DEF StepOK, WireOK, Lose
    <3>4. Found(g) \subseteq Found(g)' /\ Missed(g)' = Missed(g)
      BY <2>6, <3>1 DEF server
    <3>2. LinesPlace(g)' /\ (down[g] = <<>> => down'[g] = <<>>)
      BY <3>1, <3>4, LinesBreak DEF DownInv
    <3>5. down'[g] # <<>> => down'[g][1].is = down[g][1].is
      BY <3>1 DEF Arrived
    <3>3. KeyPlace(g)'
      BY <3>1, <3>2, <3>4, <3>5 DEF server, DownInv, KeyPlace, Idle
    <3> QED BY <3>2, <3>3 DEF DownInv
  <2> QED BY <1>2, <2>1, <2>2, <2>3, <2>4, <2>5, DownStarts, DownReads, DownAnswers, DownSends
          DEF Acts, Read
<1> QED BY <1>1, <1>2

\* The server is asked for the keys the call was made with.
LEMMA AskActs ==
    ASSUME TypeInv, NEW c \in Call, Acts(c), NEW g \in Getter, AskPlace(g) PROVE AskPlace(g)'
<1>1. g \in Call /\ g \notin Setter /\ TypeOK /\ WireOK /\ WireOK' /\ up[g] \in Seq(Line)
  BY DownTypes, ActsOK DEF TypeInv, StepOK, WireOK
<1>2. CASE g # c
  BY <1>1, <1>2, ActsOK DEF StepOK, Apart, AskPlace, Idle
<1>3. CASE GetStart(g)
  <2>1. client[g].pc = "new" /\ up[g] = <<>>
    BY <1>1, <1>3 DEF GetStart, TypeInv, RequestPlace
  <2>2. PICK keys \in KeyLists :
          \/ keys # <<>> /\ Connects(g, keys, "status")
          \/ keys = <<>> /\ Begin(g, keys, "miss") /\ UNCHANGED <<up, faults>>
    BY <1>3 DEF GetStart
  <2>3. CASE Connects(g, keys, "status")
    <3>1. /\ client'[g].keys = keys
          /\ \/ up'[g] = up[g]
             \/ \E t \in Line : t.val.keys = keys /\ up'[g] = up[g] \o <<t>>
      BY <1>1, <2>3, ConnectsFacts
    <3>2. ASSUME NEW t PROVE <<>> \o <<t>> = <<t>> /\ <<t>>[1] = t
      OBVIOUS
    <3>3. up'[g] # <<>> => up'[g][1].val.keys = keys
      <4>1. CASE up'[g] = up[g]
        BY <2>1, <4>1
      <4>2. ASSUME NEW t \in Line, t.val.keys = keys, up'[g] = up[g] \o <<t>>
            PROVE  up'[g][1].val.keys = keys
        <5>1. up'[g] = <<>> \o <<t>>
          BY <2>1, <4>2
        <5>2. up'[g] = <<t>>
          BY <3>2, <5>1
        <5> QED BY <3>2, <4>2, <5>2
      <4> QED BY <3>1, <4>1, <4>2
    <3> QED BY <3>1, <3>3 DEF AskPlace
  <2>4. CASE UNCHANGED <<up, faults>>
    BY <2>1, <2>4 DEF AskPlace
  <2> QED BY <2>2, <2>3, <2>4
<1>4. CASE g = c /\ ~GetStart(g)
  <2>1. \/ handler'[g].pc # "idle"
        \/ /\ handler'[g] = handler[g] /\ up'[g] = up[g] /\ client[g].pc # "new"
        \/ handler'[g] = handler[g] /\ Lose(g)
        \/ UNCHANGED <<client, handler, up>>
    <3>1. CASE Read(g)
      BY <3>1 DEF Read, ReadStatus, ReadHeader, ReadBody, GiveUp, server
    <3>2. CASE GetFromCache(g)
      <4>1. ASSUME NEW code, Answers(g, code) PROVE handler'[g].pc # "idle"
        BY <1>1, <4>1 DEF Answers, TypeOK, Request
      <4>2. ASSUME NEW k, NEW s, Hit(g, k, s) PROVE handler'[g].pc # "idle"
        BY <1>1, <4>2 DEF Hit, TypeOK, Request
      <4> QED BY <3>2, <4>1, <4>2 DEF GetFromCache
    <3>3. CASE SendPart(g)
      BY <3>3, SendPartOK
    <3>4. CASE ReadPart(g)
      BY <3>4 DEF ReadPart
    <3>5. CASE NoRequest(g)
      BY <1>1, <3>5, NoRequestOK
    <3>6. CASE Lose(g)
      BY <3>6 DEF Lose, server
    <3> QED BY <1>1, <1>4, <3>1, <3>2, <3>3, <3>4, <3>5, <3>6 DEF Acts
  <2>2. CASE handler'[g].pc # "idle"
    BY <2>2 DEF AskPlace, Idle
  <2>3. CASE handler'[g] = handler[g] /\ up'[g] = up[g] /\ client[g].pc # "new"
    <3>1. client'[g].keys = client[g].keys
      BY <1>4, <2>3, LookKept
    <3> QED BY <2>3, <3>1 DEF AskPlace, Idle
  <2>4. CASE handler'[g] = handler[g] /\ Lose(g)
    <3>1. /\ UNCHANGED client /\ up'[g] \in Seq(Line) /\ Len(up'[g]) <= Len(up[g])
          /\ \A i \in 1..Len(up'[g]) : up'[g][i] = up[g][i]
      BY <1>1, <2>4, LoseOK DEF WireOK
    <3>2. up'[g] # <<>> => up[g] # <<>> /\ up'[g][1] = up[g][1]
      BY <1>1, <3>1
    <3> QED BY <2>4, <3>1, <3>2 DEF AskPlace, Idle
  <2>5. CASE UNCHANGED <<client, handler, up>>
    BY <2>5 DEF AskPlace, Idle
  <2> QED BY <2>1, <2>2, <2>3, <2>4, <2>5
<1> QED BY <1>2, <1>3, <1>4

-----------------------------------------------------------------------------
(* A response that nothing has cut.  What the client still has to read of  *)
(* it is its first line and headers up to the e-th, and then chunks that   *)
(* end with what the adapter sent last; what is in the channel begins      *)
(* there, chunk behind chunk, and ends where the thread has read to.       *)

Reached(n, q, e, m) == IF m = e THEN n ELSE q[m].val.to
\* A queue of chunks: where it starts, and that it leads up to a.
StartOf(q, a) == IF q = <<>> THEN a ELSE q[1].from
Linked(q, a) == \A i \in 1..Len(q) : q[i].to = IF i = Len(q) THEN a ELSE q[i + 1].from
HeadsPlace(g, e) ==
    /\ client[g].pc \in {"status", "headers", "body"}
    /\ client[g].pc = "status" => e > 1 /\ down[g][1].is = "status"
    /\ client[g].pc = "headers" => e > 0
    /\ client[g].pc = "body" => e = 0
    /\ e > 0 => down[g][e].is = "end"
    /\ \A i \in 1..(e - 1) : down[g][i].is \notin {"end", "chunk"}
    /\ client[g].chunked \/ \E i \in 1..(e - 1) : down[g][i].is = "chunked"
PartsPlace(g, e) ==
    LET len == Len(down[g])
    IN  /\ handler[g].pc = "stream" =>
              /\ \A i \in (e + 1)..len : down[g][i].is = "chunk"
              /\ StartOf(feed[g].channel, feed[g].n) = Reached(client[g].n, down[g], e, len)
        /\ handler[g].pc = "done" =>
              /\ len > e /\ down[g][len].is = "last"
              /\ \A i \in (e + 1)..(len - 1) : down[g][i].is = "chunk"
              /\ Reached(client[g].n, down[g], e, len - 1) = Whole
FeedPlace(g) ==
    /\ handler[g].pc \in {"idle", "stream", "done"}
    /\ Idle(g) => feed[g].pc = "none" /\ feed[g].n = 0 /\ feed[g].channel = <<>>
    /\ handler[g].pc = "stream" =>
          handler[g].content # Absent /\ Linked(feed[g].channel, feed[g].n)
    /\ feed[g].pc = "read" => feed[g].buf >= Threshold
    /\ feed[g].pc = "done" /\ handler[g].pc = "stream" => feed[g].n = Whole
AnswerPlace(g) ==
    /\ client[g].pc = "hit" /\ ~lost[g] => client[g].n = Whole
    /\ ~lost[g] /\ ~Left(g) =>
          IF handler[g].content = Absent
          THEN /\ client[g].pc \in {"new", "status"}
               /\ \A i \in 1..Len(down[g]) : down[g][i].is = "status" /\ down[g][i].val # "200"
          ELSE \E e \in 0..Len(down[g]) : HeadsPlace(g, e) /\ PartsPlace(g, e)
FlowInv(g) == FeedPlace(g) /\ AnswerPlace(g)

\* The thread appends what it has read next.
LEMMA LinkAppended ==
    ASSUME NEW q \in Seq(Chunk), NEW c \in Chunk, Linked(q, c.from)
    PROVE  Linked(Append(q, c), c.to) /\ StartOf(Append(q, c), c.to) = StartOf(q, c.from)
<1> DEFINE r == Append(q, c)
<1>1. /\ Len(r) = Len(q) + 1 /\ Len(q) \in Nat /\ r[Len(q) + 1] = c /\ r # <<>>
      /\ \A i \in 1..Len(q) : r[i] = q[i]
  <2>1. /\ Len(r) = Len(q) + 1 /\ Len(q) \in Nat /\ r[Len(q) + 1] = c
        /\ \A i \in 1..Len(q) : r[i] = q[i]
    BY AppendFacts
  <2> QED BY <2>1
<1> HIDE DEF r
<1>2. ASSUME NEW i \in 1..Len(r) PROVE r[i].to = IF i = Len(r) THEN c.to ELSE r[i + 1].from
  <2>1. CASE i = Len(q) + 1
    BY <1>1, <2>1
  <2>2. CASE i = Len(q) /\ i # Len(q) + 1
    <3>1. i \in 1..Len(q) /\ i + 1 = Len(q) + 1 /\ i # Len(r)
      BY <1>1, <2>2
    <3>2. q[i].to = c.from
      BY <2>2, <3>1 DEF Linked
    <3> QED BY <1>1, <3>1, <3>2
  <2>3. CASE i # Len(q) /\ i # Len(q) + 1
    <3>1. i \in 1..Len(q) /\ i + 1 \in 1..Len(q) /\ i # Len(r)
      BY <1>1, <2>3
    <3>2. q[i].to = q[i + 1].from
      BY <2>3, <3>1 DEF Linked
    <3> QED BY <1>1, <3>1, <3>2
  <2> QED BY <2>1, <2>2, <2>3
<1>3. StartOf(r, c.to) = StartOf(q, c.from)
  <2>1. CASE q = <<>>
    <3>1. Len(q) + 1 = 1
      BY <2>1
    <3> QED BY <1>1, <2>1, <3>1 DEF StartOf
  <2>2. CASE q # <<>>
    <3>1. 1 \in 1..Len(q)
      BY <2>2, EmptyFacts
    <3> QED BY <1>1, <2>2, <3>1 DEF StartOf
  <2> QED BY <2>1, <2>2
<1>4. Linked(r, c.to)
  BY <1>2 DEF Linked
<1> QED BY <1>3, <1>4 DEF r

\* The response takes the first.
LEMMA LinkTaken ==
    ASSUME NEW q \in Seq(Chunk), q # <<>>, NEW a, Linked(q, a)
    PROVE  /\ Linked(Tail(q), a) /\ StartOf(Tail(q), a) = Head(q).to
           /\ StartOf(q, a) = Head(q).from
<1> DEFINE r == Tail(q)
<1>1. /\ r \in Seq(Chunk) /\ Len(q) \in Nat \ {0} /\ Len(r) = Len(q) - 1
      /\ Head(q) = q[1] /\ \A i \in 1..(Len(q) - 1) : r[i] = q[i + 1]
  BY TailFacts
<1> HIDE DEF r
<1>2. ASSUME NEW i \in 1..Len(r) PROVE r[i].to = IF i = Len(r) THEN a ELSE r[i + 1].from
  <2>1. /\ i \in 1..(Len(q) - 1) /\ i + 1 \in 1..Len(q) /\ (i = Len(r) <=> i + 1 = Len(q))
        /\ i # Len(r) => i + 1 \in 1..(Len(q) - 1)
    BY <1>1
  <2>2. q[i + 1].to = IF i + 1 = Len(q) THEN a ELSE q[i + 1 + 1].from
    BY <2>1 DEF Linked
  <2> QED BY <1>1, <2>1, <2>2
<1>3. StartOf(r, a) = q[1].to
  <2>1. q[1].to = IF 1 = Len(q) THEN a ELSE q[1 + 1].from
    <3>1. 1 \in 1..Len(q)
      BY <1>1
    <3> QED BY <3>1 DEF Linked
  <2>2. CASE r = <<>>
    <3>1. Len(q) = 1
      <4>1. Len(r) = 0
        BY <2>2
      <4> QED BY <1>1, <4>1
    <3> QED BY <2>1, <2>2, <3>1 DEF StartOf
  <2>3. CASE r # <<>>
    <3>1. Len(q) # 1 /\ 1 \in 1..(Len(q) - 1)
      <4>1. Len(r) # 0
        BY <1>1, <2>3, EmptyFacts
      <4> QED BY <1>1, <4>1
    <3> QED BY <1>1, <2>1, <2>3, <3>1 DEF StartOf
  <2> QED BY <2>2, <2>3
<1>4. Linked(r, a)
  BY <1>2 DEF Linked
<1> QED BY <1>1, <1>3, <1>4 DEF r, StartOf

LEMMA FlowApart ==
    ASSUME TypeInv, NEW c \in Call, StepOK(c), NEW g \in Getter, FlowInv(g), g # c
    PROVE  FlowInv(g)'
<1>1. /\ client'[g] = client[g] /\ handler'[g] = handler[g] /\ down'[g] = down[g]
      /\ lost'[g] = lost[g] /\ feed'[g] = feed[g]
  BY DEF StepOK, Apart, Call
<1>2. FeedPlace(g)'
  BY <1>1 DEF FlowInv, FeedPlace, Linked, Idle
<1>3. \A e : HeadsPlace(g, e)' = HeadsPlace(g, e) /\ PartsPlace(g, e)' = PartsPlace(g, e)
  BY <1>1 DEF HeadsPlace, PartsPlace, Reached, StartOf
<1>4. AnswerPlace(g)'
  BY <1>1, <1>3 DEF FlowInv, AnswerPlace, Left
<1> QED BY <1>2, <1>4 DEF FlowInv

\* The response is over for the client, or the connection has broken.
LEMMA FlowOver ==
    ASSUME NEW g \in Getter, lost'[g] \/ Left(g)', client'[g].pc = "hit" => lost'[g]
    PROVE  AnswerPlace(g)'
  BY DEF AnswerPlace

\* The next line of the head of the response is read.
LEMMA PartsTaken ==
    ASSUME TypeInv, NEW g \in Getter, NEW e \in 1..Len(down[g]), PartsPlace(g, e),
           down'[g] = Tail(down[g]), client'[g].n = client[g].n,
           handler'[g] = handler[g], feed'[g] = feed[g]
    PROVE  PartsPlace(g, e - 1)'
<1>1. down[g] \in Seq(Line) /\ Len(down[g]) \in Nat /\ e \in Nat
  BY DownTypes
<1>2. down[g] # <<>>
  BY <1>1
<1>3. /\ Len(down'[g]) = Len(down[g]) - 1
      /\ \A i \in 1..(Len(down[g]) - 1) : down'[g][i] = down[g][i + 1]
  BY <1>1, <1>2, TailFacts
<1> DEFINE L == Len(down[g])
           Old(m) == Reached(client[g].n, down[g], e, m)
           New(m) == Reached(client'[g].n, down'[g], e - 1, m)
<1>4. ASSUME NEW m \in Nat, m >= e, m <= L
      PROVE  New(m - 1) = Old(m)
  <2>1. CASE m = e
    BY <1>1, <2>1 DEF Reached
  <2>2. CASE m # e
    <3>1. m - 1 # e - 1 /\ m - 1 \in 1..(L - 1) /\ m - 1 + 1 = m
      BY <1>1, <1>4, <2>2
    <3>2. down'[g][m - 1] = down[g][m]
      BY <1>3, <3>1
    <3> QED BY <2>2, <3>1, <3>2 DEF Reached
  <2> QED BY <2>1, <2>2
<1>5. ASSUME NEW m \in Nat, m >= e, m <= L,
             \A i \in (e + 1)..m : down[g][i].is = "chunk"
      PROVE  \A i \in (e - 1 + 1)..(m - 1) : down'[g][i].is = "chunk"
  <2>1. SUFFICES ASSUME NEW i \in (e - 1 + 1)..(m - 1) PROVE down'[g][i].is = "chunk"
    OBVIOUS
  <2>2. i \in 1..(L - 1) /\ i + 1 \in (e + 1)..m
    BY <1>1, <1>5
  <2> QED BY <1>3, <1>5, <2>2
<1>6. CASE handler[g].pc = "stream"
  <2>1. /\ \A i \in (e + 1)..L : down[g][i].is = "chunk"
        /\ StartOf(feed[g].channel, feed[g].n) = Old(L)
    BY <1>6 DEF PartsPlace
  <2>2. \A i \in (e - 1 + 1)..(L - 1) : down'[g][i].is = "chunk"
    BY <1>1, <1>5, <2>1
  <2>3. New(L - 1) = Old(L)
    BY <1>1, <1>4
  <2>4. New(Len(down'[g])) = Old(L) /\ feed'[g].channel = feed[g].channel /\ feed'[g].n = feed[g].n
    BY <1>3, <2>3
  <2>5. \A i \in (e - 1 + 1)..Len(down'[g]) : down'[g][i].is = "chunk"
    BY <1>3, <2>2
  <2> HIDE DEF Old, L
  <2> QED BY <1>6, <2>1, <2>4, <2>5 DEF PartsPlace, StartOf
<1>7. CASE handler[g].pc = "done"
  <2>1. /\ L > e /\ down[g][L].is = "last"
        /\ \A i \in (e + 1)..(L - 1) : down[g][i].is = "chunk"
        /\ Old(L - 1) = Whole
    BY <1>7 DEF PartsPlace
  <2>2. L - 1 \in Nat /\ L - 1 >= e /\ L - 1 > e - 1
    BY <1>1, <2>1
  <2>3. \A i \in (e - 1 + 1)..(L - 1 - 1) : down'[g][i].is = "chunk"
    BY <1>1, <1>5, <2>1, <2>2
  <2>4. New(L - 1 - 1) = Whole
    BY <1>1, <1>4, <2>1, <2>2
  <2>5. down'[g][L - 1].is = "last"
    <3>1. L - 1 \in 1..(L - 1) /\ L - 1 + 1 = L
      BY <1>1, <2>2
    <3> QED BY <1>3, <2>1, <3>1
  <2> QED BY <1>3, <1>7, <2>2, <2>3, <2>4, <2>5 DEF PartsPlace
<1>8. CASE handler[g].pc \notin {"stream", "done"}
  BY <1>8 DEF PartsPlace
<1> QED BY <1>6, <1>7, <1>8

\* A chunk of the body is read.
LEMMA ChunkTaken ==
    ASSUME TypeInv, NEW g \in Getter, PartsPlace(g, 0), down[g] # <<>>,
           down'[g] = Tail(down[g]), Head(down[g]).is = "chunk",
           client'[g].n = Head(down[g]).val.to,
           handler'[g] = handler[g], feed'[g] = feed[g]
    PROVE  PartsPlace(g, 0)'
<1>1. down[g] \in Seq(Line)
  BY DownTypes
<1>2. /\ Len(down[g]) \in Nat \ {0} /\ Len(down'[g]) = Len(down[g]) - 1 /\ Head(down[g]) = down[g][1]
      /\ \A i \in 1..(Len(down[g]) - 1) : down'[g][i] = down[g][i + 1]
  BY <1>1, TailFacts
<1> DEFINE L == Len(down[g])
           Old(m) == Reached(client[g].n, down[g], 0, m)
           New(m) == Reached(client'[g].n, down'[g], 0, m)
<1>3. ASSUME NEW m \in 1..L PROVE New(m - 1) = Old(m)
  <2>1. CASE m = 1
    BY <1>2, <2>1 DEF Reached
  <2>2. CASE m # 1
    <3>1. m - 1 # 0 /\ m # 0 /\ m - 1 \in 1..(L - 1) /\ m - 1 + 1 = m
      BY <1>2, <2>2
    <3>2. down'[g][m - 1] = down[g][m]
      BY <1>2, <3>1
    <3> QED BY <3>1, <3>2 DEF Reached
  <2> QED BY <2>1, <2>2
<1>4. ASSUME NEW m \in 1..L, \A i \in (0 + 1)..m : down[g][i].is = "chunk"
      PROVE  \A i \in (0 + 1)..(m - 1) : down'[g][i].is = "chunk"
  <2>1. SUFFICES ASSUME NEW i \in (0 + 1)..(m - 1) PROVE down'[g][i].is = "chunk"
    OBVIOUS
  <2>2. i \in 1..(L - 1) /\ i + 1 \in (0 + 1)..m
    BY <1>2
  <2> QED BY <1>2, <1>4, <2>2
<1>5. CASE handler[g].pc = "stream"
  <2>1. /\ \A i \in (0 + 1)..L : down[g][i].is = "chunk"
        /\ StartOf(feed[g].channel, feed[g].n) = Old(L)
    BY <1>5 DEF PartsPlace
  <2>2. \A i \in (0 + 1)..(L - 1) : down'[g][i].is = "chunk"
    BY <1>2, <1>4, <2>1
  <2>3. New(L - 1) = Old(L)
    BY <1>2, <1>3
  <2>4. New(Len(down'[g])) = Old(L) /\ feed'[g].channel = feed[g].channel /\ feed'[g].n = feed[g].n
    BY <1>2, <2>3
  <2>5. \A i \in (0 + 1)..Len(down'[g]) : down'[g][i].is = "chunk"
    BY <1>2, <2>2
  <2> HIDE DEF Old, L
  <2> QED BY <1>5, <2>1, <2>4, <2>5 DEF PartsPlace, StartOf
<1>6. CASE handler[g].pc = "done"
  <2>1. /\ down[g][L].is = "last" /\ Old(L - 1) = Whole
        /\ \A i \in (0 + 1)..(L - 1) : down[g][i].is = "chunk"
    BY <1>6 DEF PartsPlace
  <2>2. L # 1
    BY <1>2, <2>1
  <2>3. L - 1 \in 1..L /\ L - 1 > 0
    <3>1. \A x \in Nat \ {0} : x # 1 => x - 1 \in 1..x /\ x - 1 > 0
      OBVIOUS
    <3> QED BY <1>2, <2>2, <3>1
  <2>4. \A i \in (0 + 1)..(L - 1 - 1) : down'[g][i].is = "chunk"
    BY <1>4, <2>1, <2>3
  <2>5. New(L - 1 - 1) = Whole
    BY <1>3, <2>1, <2>3
  <2>6. down'[g][L - 1].is = "last"
    <3>1. L - 1 \in 1..(L - 1) /\ L - 1 + 1 = L
      BY <1>2, <2>3
    <3> QED BY <1>2, <2>1, <3>1
  <2> QED BY <1>2, <1>6, <2>3, <2>4, <2>5, <2>6 DEF PartsPlace
<1>7. CASE handler[g].pc \notin {"stream", "done"}
  BY <1>7 DEF PartsPlace
<1> QED BY <1>5, <1>6, <1>7

\* Reading changes nothing in the server.
LEMMA FlowReads ==
    ASSUME NEW g \in Getter, FlowInv(g), UNCHANGED server PROVE FeedPlace(g)'
  BY DEF FlowInv, FeedPlace, Linked, Idle, server

\* The head of the response, one line on.
LEMMA HeadsTaken ==
    ASSUME TypeInv, NEW g \in Getter, NEW e \in 1..Len(down[g]), HeadsPlace(g, e),
           down'[g] = Tail(down[g]),
           client'[g].pc = IF e = 1 THEN "body" ELSE "headers",
           client[g].chunked => client'[g].chunked,
           down[g][1].is = "chunked" /\ e > 1 => client'[g].chunked
    PROVE  HeadsPlace(g, e - 1)'
<1>1. down[g] \in Seq(Line) /\ Len(down[g]) \in Nat /\ e \in Nat /\ down[g] # <<>>
  BY DownTypes
<1>2. /\ Len(down'[g]) = Len(down[g]) - 1
      /\ \A i \in 1..(Len(down[g]) - 1) : down'[g][i] = down[g][i + 1]
  BY <1>1, TailFacts
<1>3. \A i \in 1..(e - 1) : down'[g][i] = down[g][i + 1] /\ i + 1 \in 2..e
  BY <1>1, <1>2
<1>4. e - 1 > 0 => down'[g][e - 1].is = "end"
  <2>1. e > 1 => e - 1 \in 1..(e - 1) /\ e - 1 + 1 = e
    BY <1>1
  <2>2. down[g][e].is = "end"
    BY <1>1 DEF HeadsPlace
  <2> QED BY <1>1, <1>3, <2>1, <2>2
<1>5. ASSUME NEW i \in 1..(e - 1 - 1) PROVE down'[g][i].is \notin {"end", "chunk"}
  <2>1. i \in 1..(e - 1) /\ i + 1 \in 1..(e - 1)
    BY <1>1
  <2> QED BY <1>3, <2>1 DEF HeadsPlace
<1>6. client'[g].chunked \/ \E i \in 1..(e - 1 - 1) : down'[g][i].is = "chunked"
  <2>1. CASE client[g].chunked
    BY <2>1
  <2>2. ASSUME NEW i \in 1..(e - 1), down[g][i].is = "chunked", i # 1
        PROVE  \E j \in 1..(e - 1 - 1) : down'[g][j].is = "chunked"
    <3>1. i - 1 \in 1..(e - 1 - 1) /\ i - 1 \in 1..(e - 1) /\ i - 1 + 1 = i
      BY <1>1, <2>2
    <3>2. down'[g][i - 1] = down[g][i]
      BY <1>3, <3>1
    <3> QED BY <2>2, <3>1, <3>2
  <2>3. ASSUME NEW i \in 1..(e - 1), down[g][i].is = "chunked", i = 1
        PROVE  client'[g].chunked
    <3>1. e > 1
      BY <1>1
    <3> QED BY <2>3, <3>1
  <2> QED BY <2>1, <2>2, <2>3 DEF HeadsPlace
<1>7. e - 1 \in Nat /\ (e = 1 <=> e - 1 = 0) /\ (e # 1 => e - 1 > 0)
  BY <1>1
<1> QED BY <1>4, <1>5, <1>6, <1>7 DEF HeadsPlace

LEMMA FlowReadStatus ==
    ASSUME TypeInv, NEW g \in Getter, DownInv(g), FlowInv(g), ReadStatus(g) PROVE FlowInv(g)'
<1>1. /\ g \in Call /\ TypeOK /\ WireOK /\ down[g] \in Seq(Line)
      /\ client[g].pc = "status" /\ UNCHANGED <<server, up, lost, faults>>
      /\ ~Left(g) /\ LinesPlace(g) /\ AnswerPlace(g)
  BY DownTypes DEF TypeInv, ReadStatus, DownInv, FlowInv, Left, Final
<1>2. FeedPlace(g)'
  BY <1>1, FlowReads
<1>3. \A code : GetAnswer(code) \in {"miss", "headers", "err"}
  BY DEF GetAnswer
<1>4. PICK pc \in {"miss", "headers", "err", "panic"} : Goes(g, pc)
  <2>1. ASSUME down[g] # <<>>,
               LET t == Head(down[g])
                   answer == IF g \in Getter THEN GetAnswer(t.val) ELSE SetAnswer(t.val)
               IN  \E pc \in {answer} \cup (IF t.cut THEN {"err", "panic"} ELSE {}) : Goes(g, pc)
        PROVE  \E pc \in {"miss", "headers", "err", "panic"} : Goes(g, pc)
    BY <1>3, <2>1
  <2> QED BY <2>1 DEF ReadStatus
<1>5. /\ client'[g].pc = pc /\ client'[g].n = client[g].n
      /\ client'[g].chunked = client[g].chunked
  BY <1>1, <1>4, GoesFacts DEF Final
<1>6. CASE lost[g] \/ pc # "headers"
  <2>1. lost'[g] \/ Left(g)'
    BY <1>1, <1>5, <1>6 DEF Left, Final
  <2> QED BY <1>2, <1>5, <2>1, FlowOver DEF FlowInv
<1>7. CASE ~lost[g] /\ pc = "headers"
  <2>1. /\ down[g] # <<>> /\ down' = [down EXCEPT ![g] = Tail(@)]
        /\ LET t == Head(down[g])
               answer == IF g \in Getter THEN GetAnswer(t.val) ELSE SetAnswer(t.val)
           IN  \E p \in {answer} \cup (IF t.cut THEN {"err", "panic"} ELSE {}) : Goes(g, p)
    <3>1. ~Goes(g, "err")
      BY <1>1, <1>5, <1>7, GoesFacts DEF Final
    <3> QED BY <3>1 DEF ReadStatus
  <2>2. down'[g] = Tail(down[g])
    BY <1>1, <2>1 DEF TypeInv, WireOK
  <2>3. GetAnswer(Head(down[g]).val) = "headers"
    <3>1. PICK p \in {GetAnswer(Head(down[g]).val), "err", "panic"} : Goes(g, p)
      BY <2>1
    <3>2. p = "headers"
      BY <1>1, <1>3, <1>5, <1>7, <3>1, GoesFacts DEF Final
    <3> QED BY <3>2
  <2>4. Head(down[g]) = down[g][1] /\ 1 \in 1..Len(down[g]) /\ Head(down[g]) \in Line
    BY <1>1, <2>1, TailFacts
  <2>5. handler[g].content # Absent
    <3>1. SUFFICES ASSUME handler[g].content = Absent PROVE FALSE
      OBVIOUS
    <3>2. down[g][1].is = "status" /\ down[g][1].val # "200"
      BY <1>1, <1>7, <2>4, <3>1 DEF AnswerPlace
    <3>3. Head(down[g]).val \in Code
      BY <2>4, <3>2, LineFacts
    <3>4. GetAnswer(Head(down[g]).val) \in {"miss", "err"}
      BY <2>4, <3>2, <3>3 DEF Code, GetAnswer, IsSuccess
    <3> QED BY <2>3, <3>4
  <2>6. PICK e \in 0..Len(down[g]) : HeadsPlace(g, e) /\ PartsPlace(g, e)
    BY <1>1, <1>7, <2>5 DEF AnswerPlace
  <2>7. e > 1 /\ e \in 1..Len(down[g]) /\ e # 1 /\ down[g][1].is = "status"
    BY <1>1, <2>6 DEF HeadsPlace
  <2>8. HeadsPlace(g, e - 1)'
    BY <1>5, <1>7, <2>2, <2>6, <2>7, HeadsTaken
  <2>9. PartsPlace(g, e - 1)'
    BY <1>1, <1>5, <2>2, <2>6, <2>7, PartsTaken DEF server
  <2>10. e - 1 \in 0..Len(down'[g])
    <3>1. Len(down'[g]) = Len(down[g]) - 1
      BY <1>1, <2>1, <2>2, TailFacts
    <3> QED BY <2>7, <3>1
  <2>11. handler'[g].content # Absent /\ client'[g].pc # "hit"
    BY <1>1, <1>5, <1>7, <2>5 DEF server
  <2>12. AnswerPlace(g)'
    BY <2>8, <2>9, <2>10, <2>11 DEF AnswerPlace
  <2> QED BY <1>2, <2>12 DEF FlowInv
<1> QED BY <1>6, <1>7
LEMMA FlowReadHeader ==
    ASSUME TypeInv, NEW g \in Getter, DownInv(g), FlowInv(g), ReadHeader(g) PROVE FlowInv(g)'
<1>1. /\ g \in Call /\ WireOK /\ down[g] \in Seq(Line) /\ Len(down[g]) \in Nat
      /\ AnswerPlace(g) /\ client[g].pc = "headers" /\ ~Left(g)
      /\ UNCHANGED <<server, up, lost, faults>>
      /\ down' = [down EXCEPT ![g] = IF @ = <<>> THEN @ ELSE Tail(@)]
  BY DownTypes DEF TypeInv, ReadHeader, FlowInv, Left, Final
<1>2. FeedPlace(g)'
  BY <1>1, FlowReads
<1>3. /\ client'[g].pc \in {"headers", "body", "err"} /\ client'[g].n = client[g].n
      /\ \/ /\ IF down[g] = <<>> THEN ClientSeesEnd(g) ELSE Head(down[g]).is = "end"
            /\ client'[g].pc \in {"err", "body"} /\ client'[g].chunked = client[g].chunked
         \/ /\ Head(down[g]).is = "key"
            /\ client'[g].pc = "headers" /\ client'[g].chunked = client[g].chunked
         \/ /\ Head(down[g]).is = "chunked" /\ client'[g].chunked /\ client'[g].pc = "headers"
         \/ client'[g].pc = "err"
  BY ReadHeaderCases
<1>4. CASE lost[g] \/ client'[g].pc = "err"
  <2>1. (lost'[g] \/ Left(g)') /\ (client'[g].pc = "hit" => lost'[g])
    BY <1>1, <1>3, <1>4 DEF Left, Final
  <2> QED BY <1>2, <2>1, FlowOver DEF FlowInv
<1>5. CASE ~lost[g] /\ client'[g].pc # "err"
  <2>1. handler[g].content # Absent
    BY <1>1, <1>5 DEF AnswerPlace
  <2>2. PICK e \in 0..Len(down[g]) : HeadsPlace(g, e) /\ PartsPlace(g, e)
    BY <1>1, <1>5, <2>1 DEF AnswerPlace
  <2>3. /\ e > 0 /\ e \in 1..Len(down[g]) /\ down[g] # <<>> /\ down[g][e].is = "end"
        /\ \A i \in 1..(e - 1) : down[g][i].is # "end"
    BY <1>1, <2>2 DEF HeadsPlace
  <2>4. Head(down[g]) = down[g][1] /\ down'[g] = Tail(down[g])
    BY <1>1, <2>3, TailFacts DEF WireOK
  <2>5. down[g][1].is = "end" <=> e = 1
    <3>1. e # 1 => 1 \in 1..(e - 1)
      BY <2>3
    <3> QED BY <2>3, <3>1
  <2>6. /\ client'[g].pc = IF e = 1 THEN "body" ELSE "headers"
        /\ client[g].chunked => client'[g].chunked
        /\ down[g][1].is = "chunked" => client'[g].chunked
    BY <1>3, <1>5, <2>3, <2>4, <2>5
  <2>7. HeadsPlace(g, e - 1)'
    BY <2>2, <2>3, <2>4, <2>6, HeadsTaken
  <2>8. PartsPlace(g, e - 1)'
    BY <1>1, <1>3, <2>2, <2>3, <2>4, PartsTaken DEF server
  <2>9. e - 1 \in 0..Len(down'[g])
    <3>1. Len(down'[g]) = Len(down[g]) - 1
      BY <1>1, <2>3, <2>4, TailFacts
    <3> QED BY <2>3, <3>1
  <2>10. handler'[g].content # Absent /\ client'[g].pc # "hit"
    BY <1>1, <1>3, <2>1 DEF server
  <2>11. AnswerPlace(g)'
    BY <2>7, <2>8, <2>9, <2>10 DEF AnswerPlace
  <2> QED BY <1>2, <2>11 DEF FlowInv
<1> QED BY <1>4, <1>5

LEMMA FlowReadBody ==
    ASSUME TypeInv, NEW g \in Getter, DownInv(g), FlowInv(g), ReadBody(g) PROVE FlowInv(g)'
<1>1. /\ g \in Call /\ WireOK /\ down[g] \in Seq(Line) /\ Len(down[g]) \in Nat
      /\ AnswerPlace(g) /\ FeedPlace(g) /\ LinesPlace(g) /\ KeyPlace(g)
      /\ client[g].pc = "body" /\ ~Left(g) /\ UNCHANGED <<server, up, lost, faults>>
      /\ down' = [down EXCEPT ![g] = IF @ = <<>> THEN @ ELSE Tail(@)]
  BY DownTypes DEF TypeInv, ReadBody, FlowInv, DownInv, Left, Final
<1>2. FeedPlace(g)'
  BY <1>1, FlowReads
<1>3. /\ client'[g].chunked = client[g].chunked
      /\ \/ /\ ~client[g].chunked /\ client'[g].pc = "hit" /\ client'[g].n = client[g].n
         \/ /\ client'[g].pc = "err" /\ client'[g].n = client[g].n
         \/ /\ down[g] # <<>> /\ Head(down[g]).is = "chunk" /\ ~Head(down[g]).cut
            /\ client'[g].pc = "body" /\ client'[g].n = Head(down[g]).val.to
         \/ /\ down[g] # <<>> /\ (Head(down[g]).is = "last" \/ Head(down[g]).cut)
            /\ client'[g].pc \in {"hit", "err"} /\ client'[g].n = client[g].n
  BY ReadBodyCases
<1>4. CASE lost[g]
  <2>1. lost'[g]
    BY <1>1, <1>4
  <2> QED BY <1>2, <2>1, FlowOver DEF FlowInv
<1>5. CASE client'[g].pc = "err"
  <2>1. Left(g)' /\ client'[g].pc # "hit"
    BY <1>5 DEF Left, Final
  <2> QED BY <1>2, <2>1, FlowOver DEF FlowInv
<1>6. CASE ~lost[g] /\ client'[g].pc # "err"
  <2>1. handler[g].content # Absent
    BY <1>1, <1>6 DEF AnswerPlace
  <2>2. PICK e \in 0..Len(down[g]) : HeadsPlace(g, e) /\ PartsPlace(g, e)
    BY <1>1, <1>6, <2>1 DEF AnswerPlace
  <2>3. e = 0
    BY <1>1, <2>2 DEF HeadsPlace
  <2>4. PartsPlace(g, 0)
    BY <2>2, <2>3
  <2>5. client[g].chunked
    <3>1. 1..(0 - 1) = {}
      OBVIOUS
    <3> QED BY <2>2, <2>3, <3>1 DEF HeadsPlace
  <2>6. down[g] # <<>>
    BY <1>3, <1>6, <2>5
  <2>7. /\ Head(down[g]) = down[g][1] /\ down'[g] = Tail(down[g]) /\ 1 \in 1..Len(down[g])
        /\ Len(down[g]) \in Nat \ {0} /\ ~down[g][1].cut
    <3>1. Head(down[g]) = down[g][1] /\ down'[g] = Tail(down[g]) /\ Len(down[g]) \in Nat \ {0}
      BY <1>1, <2>6, TailFacts DEF WireOK
    <3>2. 1 \in 1..Len(down[g])
      BY <3>1
    <3> QED BY <1>1, <1>6, <3>1, <3>2 DEF LinesPlace
  <2>8. CASE Head(down[g]).is = "chunk" /\ client'[g].pc = "body" /\ client'[g].n = Head(down[g]).val.to
    <3>1. PartsPlace(g, 0)'
      BY <1>1, <2>4, <2>6, <2>7, <2>8, ChunkTaken DEF server
    <3>2. HeadsPlace(g, 0)'
      BY <1>3, <2>5, <2>8 DEF HeadsPlace
    <3>3. 0 \in 0..Len(down'[g])
      BY <1>1, <2>6, <2>7, TailFacts
    <3>4. handler'[g].content # Absent /\ client'[g].pc # "hit"
      BY <1>1, <2>1, <2>8 DEF server
    <3>5. AnswerPlace(g)'
      BY <3>1, <3>2, <3>3, <3>4 DEF AnswerPlace
    <3> QED BY <1>2, <3>5 DEF FlowInv
  <2>9. CASE /\ Head(down[g]).is = "last"
             /\ client'[g].pc = "hit" /\ client'[g].n = client[g].n
    <3>1. handler[g].pc # "idle"
      BY <2>6, <1>1 DEF KeyPlace, Idle
    <3>2. handler[g].pc # "stream"
      <4>1. handler[g].pc = "stream" => down[g][1].is = "chunk"
        BY <2>4, <2>7 DEF PartsPlace
      <4> QED BY <2>7, <2>9, <4>1
    <3>3. handler[g].pc = "done"
      BY <1>1, <3>1, <3>2 DEF FeedPlace
    <3>4. /\ \A i \in 1..(Len(down[g]) - 1) : down[g][i].is = "chunk"
          /\ Reached(client[g].n, down[g], 0, Len(down[g]) - 1) = Whole
      BY <2>4, <3>3 DEF PartsPlace
    <3>5. Len(down[g]) = 1
      <4>1. \A x \in Nat \ {0} : x # 1 => 1 \in 1..(x - 1)
        OBVIOUS
      <4> QED BY <2>7, <2>9, <3>4, <4>1
    <3>6. client[g].n = Whole
      BY <3>4, <3>5 DEF Reached
    <3>7. AnswerPlace(g)'
      BY <2>9, <3>6 DEF AnswerPlace, Left, Final
    <3> QED BY <1>2, <3>7 DEF FlowInv
  <2> QED BY <1>3, <1>6, <2>5, <2>7, <2>8, <2>9
<1> QED BY <1>4, <1>5, <1>6

LEMMA FlowStarts ==
    ASSUME TypeInv, NEW g \in Getter, DownInv(g), FlowInv(g), GetStart(g) PROVE FlowInv(g)'
<1>1. /\ g \in Call /\ TypeOK /\ WireOK /\ client[g].pc = "new" /\ RequestPlace(g)
      /\ UNCHANGED <<server, down, lost>>
  BY DownTypes DEF TypeInv, GetStart
<1>2. FeedPlace(g)'
  BY <1>1, FlowReads
<1>3. down[g] = <<>> /\ handler[g].content = Absent /\ Len(down[g]) = 0
  BY <1>1 DEF RequestPlace, DownInv, KeyPlace
<1>4. client'[g].pc \in {"status", "err", "miss"}
  <2>1. PICK keys \in KeyLists :
          \/ keys # <<>> /\ Connects(g, keys, "status")
          \/ keys = <<>> /\ Begin(g, keys, "miss") /\ UNCHANGED <<up, faults>>
    BY DEF GetStart
  <2>2. CASE Connects(g, keys, "status")
    BY <1>1, <2>2, ConnectsFacts
  <2>3. CASE keys = <<>> /\ Begin(g, keys, "miss")
    BY <1>1, <2>3, BeginFacts DEF Final
  <2> QED BY <2>1, <2>2, <2>3
<1>5. CASE client'[g].pc = "status"
  <2>1. handler'[g].content = Absent /\ Len(down'[g]) = 0
    BY <1>1, <1>3 DEF server
  <2>2. AnswerPlace(g)'
    BY <1>5, <2>1 DEF AnswerPlace
  <2> QED BY <1>2, <2>2 DEF FlowInv
<1>6. CASE client'[g].pc # "status"
  <2>1. Left(g)' /\ client'[g].pc # "hit"
    BY <1>4, <1>6 DEF Left, Final
  <2> QED BY <1>2, <2>1, FlowOver DEF FlowInv
<1> QED BY <1>5, <1>6
\* The answer of the server to a get.
LEMMA FlowAnswers ==
    ASSUME TypeInv, NEW g \in Getter, DownInv(g), FlowInv(g), GetFromCache(g) PROVE FlowInv(g)'
<1>1. /\ StepOK(g) /\ Idle(g) /\ UNCHANGED <<stored, client, lost>>
      /\ \/ \E code \in Code \ {"200"} : Answers(g, code) /\ UNCHANGED feed
         \/ \E k \in Key, s \in Setter : Holds(stored[k], s) /\ Hit(g, k, s)
  BY GetFromCacheOK
<1>2. /\ g \in Call /\ TypeOK /\ WireOK /\ down[g] = <<>> /\ handler[g].content = Absent
      /\ feed[g].pc = "none" /\ feed[g].n = 0 /\ feed[g].channel = <<>>
      /\ Absent \notin Setter /\ lost[g] \in BOOLEAN
      /\ client[g].pc = "hit" /\ ~lost[g] => client[g].n = Whole
  BY <1>1, DownTypes DEF TypeInv, DownInv, KeyPlace, FlowInv, FeedPlace, AnswerPlace
<1>3. ~lost[g] /\ ~Left(g) => client[g].pc \in {"new", "status"} /\ client[g].n = 0
  <2>1. ~lost[g] /\ ~Left(g) => client[g].pc \in {"new", "status"}
    BY <1>2 DEF FlowInv, AnswerPlace
  <2> QED BY <2>1 DEF DownInv, KeyPlace
<1>4. CASE lost[g] \/ Left(g)
  <2>1. AnswerPlace(g)'
    BY <1>1, <1>2, <1>4 DEF AnswerPlace, Left
  <2>2. CASE \E code \in Code \ {"200"} : Answers(g, code) /\ UNCHANGED feed
    <3>1. handler'[g].pc = "done" /\ feed'[g] = feed[g]
      BY <1>2, <2>2, AnswersFacts
    <3>2. FeedPlace(g)'
      BY <1>2, <3>1 DEF FeedPlace, Idle
    <3> QED BY <2>1, <3>2 DEF FlowInv
  <2>3. CASE \E k \in Key, s \in Setter : Hit(g, k, s)
    <3>1. PICK k \in Key, s \in Setter : Hit(g, k, s)
      BY <2>3
    <3>2. /\ handler'[g].pc = "stream" /\ handler'[g].content = s
          /\ feed'[g].pc = "read" /\ feed'[g].buf >= Threshold
      BY <3>1, HitFacts
    <3>3. FeedPlace(g)'
      BY <1>2, <3>2, HitFacts, <3>1 DEF FeedPlace, Linked, Idle
    <3> QED BY <2>1, <3>3 DEF FlowInv
  <2> QED BY <1>1, <2>2, <2>3
<1>5. CASE ~lost[g] /\ ~Left(g)
  <2>1. client'[g] = client[g] /\ ~lost'[g] /\ client[g].n = 0
        /\ client[g].pc \in {"new", "status"} /\ RequestPlace(g)
    BY <1>1, <1>2, <1>3, <1>5 DEF TypeInv
  <2>2. ASSUME NEW code \in Code \ {"200"}, Answers(g, code), UNCHANGED feed PROVE FlowInv(g)'
    <3>1. /\ handler'[g].pc = "done" /\ feed'[g] = feed[g] /\ handler'[g].content = Absent
          /\ down'[g] = down[g] \o <<Token("status", code)>>
      BY <1>2, <1>5, <2>2, AnswersFacts
    <3>2. FeedPlace(g)'
      BY <1>2, <3>1 DEF FeedPlace, Idle
    <3> DEFINE t == Token("status", code)
    <3>3. t.is = "status" /\ t.val # "200"
      BY <2>2 DEF Token
    <3> HIDE DEF t
    <3>4. down'[g] = <<t>>
      BY <1>2, <3>1 DEF t
    <3>5. \A i \in 1..Len(down'[g]) : down'[g][i] = t
      BY <3>4
    <3>6. AnswerPlace(g)'
      BY <2>1, <3>1, <3>3, <3>5 DEF AnswerPlace
    <3> QED BY <3>2, <3>6 DEF FlowInv
  <2>3. ASSUME NEW k \in Key, NEW s \in Setter, Hit(g, k, s) PROVE FlowInv(g)'
    <3>1. /\ handler'[g].pc = "stream" /\ handler'[g].content = s
          /\ feed'[g].pc = "read" /\ feed'[g].n = 0 /\ feed'[g].channel = <<>>
          /\ feed'[g].buf >= Threshold
      BY <1>2, <2>3, HitFacts
    <3>2. FeedPlace(g)'
      BY <1>2, <3>1 DEF FeedPlace, Linked, Idle
    <3>3. PICK q : IsHead(q, k) /\ down'[g] = down[g] \o q
      <4>1. PICK q : /\ IsHead(q, k)
                     /\ down'[g] = IF lost[g] \/ Left(g) THEN down[g] ELSE down[g] \o q
        BY <2>3, HitFacts
      <4> QED BY <1>5, <4>1
    <3>4. <<>> \o q = q
      BY <3>3 DEF IsHead
    <3>5. down'[g] = q /\ Len(q) = 4 /\ q[1].is = "status" /\ q[4].is = "end"
      BY <1>2, <3>3, <3>4 DEF IsHead
    <3>6. /\ q[2].is \in {"key", "chunked"} /\ q[3].is \in {"key", "chunked"}
          /\ q[2].is = "chunked" \/ q[3].is = "chunked"
      BY <3>3 DEF IsHead
    <3>7. client[g].pc = "status"
      <4>1. Arrives(g)
        BY DEF GetFromCache
      <4> QED BY <1>2, <2>1, <4>1, ArrivesFacts
    <3>8. HeadsPlace(g, 4)'
      <4>1. \A i \in 1..(4 - 1) : i = 1 \/ i = 2 \/ i = 3
        OBVIOUS
      <4>2. \A i \in 1..(4 - 1) : down'[g][i].is \notin {"end", "chunk"}
        BY <3>5, <3>6, <4>1
      <4>3. \E i \in 1..(4 - 1) : down'[g][i].is = "chunked"
        <5>1. 2 \in 1..(4 - 1) /\ 3 \in 1..(4 - 1)
          OBVIOUS
        <5> QED BY <3>5, <3>6, <5>1
      <4> QED BY <2>1, <3>5, <3>7, <4>2, <4>3 DEF HeadsPlace
    <3>9. PartsPlace(g, 4)'
      BY <2>1, <3>1, <3>5 DEF PartsPlace, Reached, StartOf
    <3>10. 4 \in 0..Len(down'[g]) /\ handler'[g].content # Absent /\ client'[g].pc # "hit"
      BY <1>2, <2>1, <3>1, <3>5
    <3>11. AnswerPlace(g)'
      BY <3>8, <3>9, <3>10 DEF AnswerPlace
    <3> QED BY <3>2, <3>11 DEF FlowInv
  <2> QED BY <1>1, <2>2, <2>3
<1> QED BY <1>4, <1>5

\* The response sends on what the adapter has read, ends or is aborted.
LEMMA FlowSends ==
    ASSUME TypeInv, NEW g \in Getter, DownInv(g), FlowInv(g), SendPart(g) PROVE FlowInv(g)'
<1>1. /\ handler[g].pc = "stream" /\ UNCHANGED <<stored, client>>
      /\ handler'[g].content = handler[g].content
      /\ feed'[g].pc = feed[g].pc /\ feed'[g].n = feed[g].n /\ feed'[g].buf = feed[g].buf
      /\ handler'[g].pc \in {"stream", "done"}
      /\ \/ handler'[g].pc = "done" /\ (lost'[g] \/ (lost'[g] = lost[g] /\ Left(g)))
         \/ /\ feed[g].channel # <<>> /\ ~IsError(Head(feed[g].channel))
            /\ feed'[g].channel = Tail(feed[g].channel)
            /\ handler'[g].pc = "stream" /\ lost'[g] = lost[g]
            /\ down'[g] = IF lost[g] \/ Left(g) THEN down[g]
                          ELSE down[g] \o <<Token("chunk", Head(feed[g].channel))>>
         \/ /\ feed[g].channel = <<>> /\ feed[g].pc = "done"
            /\ feed'[g].channel = feed[g].channel
            /\ handler'[g].pc = "done" /\ lost'[g] = lost[g]
            /\ down'[g] = IF lost[g] \/ Left(g) THEN down[g]
                          ELSE down[g] \o <<Token("last", 0)>>
  BY SendPartOK
<1>6. feed[g].channel \in Seq(Chunk) /\ Linked(feed[g].channel, feed[g].n)
  BY <1>1, DownTypes DEF FlowInv, FeedPlace
<1>2. FeedPlace(g)'
  <2>1. handler'[g].pc = "stream" => Linked(feed'[g].channel, feed[g].n)
    BY <1>1, <1>6, LinkTaken
  <2>2. handler'[g].pc = "stream" => Linked(feed[g].channel, feed[g].n)'
    BY <1>1, <2>1 DEF Linked
  <2> QED BY <1>1, <2>2 DEF FlowInv, FeedPlace, Idle
<1>7. Found(g) \subseteq Found(g)' /\ Missed(g)' = Missed(g)
  BY <1>1, SendPartOK, FoundStays DEF StepOK, Call
<1>3. handler[g].content # Absent /\ LinesPlace(g) /\ AnswerPlace(g)
      /\ (feed[g].pc = "done" => feed[g].n = Whole)
  BY <1>1 DEF FlowInv, FeedPlace, DownInv
<1>4. CASE lost'[g] \/ Left(g)
  <2>1. AnswerPlace(g)'
    BY <1>1, <1>3, <1>4 DEF AnswerPlace, Left
  <2> QED BY <1>2, <2>1 DEF FlowInv
<1>5. CASE ~lost'[g] /\ ~Left(g)
  <2>1. ~lost[g] /\ lost'[g] = lost[g]
    BY <1>1, <1>5
  <2>2. PICK e \in 0..Len(down[g]) : HeadsPlace(g, e) /\ PartsPlace(g, e)
    BY <1>3, <1>5, <2>1 DEF AnswerPlace
  <2>3. down[g] \in Seq(Line) /\ Len(down[g]) \in Nat /\ feed[g].channel \in Seq(Chunk)
    BY DownTypes
  <2>4. ASSUME NEW t \in Line, ~t.cut, t.is \notin {"key", "status"}, down'[g] = down[g] \o <<t>>
        PROVE  /\ Len(down'[g]) = Len(down[g]) + 1 /\ down'[g][Len(down[g]) + 1] = t
               /\ \A i \in 1..Len(down[g]) : down'[g][i] = down[g][i]
               /\ e \in 0..Len(down'[g]) /\ HeadsPlace(g, e)'
    <3>1. /\ Len(down'[g]) = Len(down[g]) + 1 /\ down'[g][Len(down[g]) + 1] = t
          /\ \A i \in 1..Len(down[g]) : down'[g][i] = down[g][i]
      BY <1>1, <1>3, <1>5, <1>7, <2>1, <2>4, LinesAppended
    <3>2. e \in 0..Len(down'[g])
      BY <2>3, <3>1
    <3>3. /\ e > 0 => down'[g][e] = down[g][e] /\ down'[g][1] = down[g][1]
          /\ \A i \in 1..(e - 1) : down'[g][i] = down[g][i]
      <4>1. e > 0 => e \in 1..Len(down[g]) /\ 1 \in 1..Len(down[g])
        BY <2>3
      <4>2. \A i \in 1..(e - 1) : i \in 1..Len(down[g])
        BY <2>3
      <4> QED BY <3>1, <4>1, <4>2
    <3>4. HeadsPlace(g, e)'
      <4>1. e > 1 => e > 0
        BY <2>3
      <4> QED BY <1>1, <2>2, <3>3, <4>1 DEF HeadsPlace
    <3> QED BY <3>1, <3>2, <3>4
  <2> DEFINE L == Len(down[g])
  <2>5. /\ \A i \in (e + 1)..L : down[g][i].is = "chunk"
        /\ StartOf(feed[g].channel, feed[g].n) = Reached(client[g].n, down[g], e, L)
    BY <1>1, <2>2 DEF PartsPlace
  <2>6. client'[g].pc # "hit" /\ handler'[g].content # Absent
    BY <1>1, <1>3, <1>5 DEF Left, Final
  <2>7. CASE /\ feed[g].channel # <<>> /\ ~IsError(Head(feed[g].channel))
             /\ feed'[g].channel = Tail(feed[g].channel)
             /\ handler'[g].pc = "stream"
             /\ down'[g] = down[g] \o <<Token("chunk", Head(feed[g].channel))>>
    <3> DEFINE p == Head(feed[g].channel)
               t == Token("chunk", p)
    <3>1. p \in Chunk
      BY <2>3, <2>7, TailFacts
    <3>2. t \in Line /\ ~t.cut /\ t.is = "chunk" /\ t.val = p
      BY <3>1, TokenType DEF Token
    <3> HIDE DEF t
    <3>3. down'[g] = down[g] \o <<t>>
      BY <2>7 DEF t
    <3>4. /\ Len(down'[g]) = L + 1 /\ down'[g][L + 1] = t
          /\ \A i \in 1..L : down'[g][i] = down[g][i]
          /\ e \in 0..Len(down'[g]) /\ HeadsPlace(g, e)'
      BY <2>4, <3>2, <3>3
    <3>5. ASSUME NEW i \in (e + 1)..(L + 1) PROVE down'[g][i].is = "chunk"
      <4>1. i = L + 1 \/ (i \in (e + 1)..L /\ i \in 1..L)
        BY <2>3
      <4> QED BY <2>5, <3>2, <3>4, <4>1
    <3>6. Reached(client'[g].n, down'[g], e, Len(down'[g])) = p.to
      <4>1. L + 1 # e
        BY <2>3
      <4> QED BY <3>2, <3>4, <4>1 DEF Reached
    <3>7. StartOf(feed'[g].channel, feed'[g].n) = p.to
      BY <1>1, <1>6, <2>7, LinkTaken
    <3>11. PartsPlace(g, e)'
      BY <1>1, <2>7, <3>4, <3>5, <3>6, <3>7 DEF PartsPlace, StartOf
    <3>12. AnswerPlace(g)'
      BY <2>6, <3>4, <3>11 DEF AnswerPlace
    <3> QED BY <1>2, <3>12 DEF FlowInv
  <2>8. CASE /\ feed[g].channel = <<>> /\ feed[g].pc = "done"
             /\ handler'[g].pc = "done"
             /\ down'[g] = down[g] \o <<Token("last", 0)>>
    <3> DEFINE t == Token("last", 0)
    <3>1. t \in Line /\ ~t.cut /\ t.is = "last"
      BY TokenType DEF Token
    <3> HIDE DEF t
    <3>2. down'[g] = down[g] \o <<t>>
      BY <2>8 DEF t
    <3>3. /\ Len(down'[g]) = L + 1 /\ down'[g][L + 1] = t
          /\ \A i \in 1..L : down'[g][i] = down[g][i]
          /\ e \in 0..Len(down'[g]) /\ HeadsPlace(g, e)'
      BY <2>4, <3>1, <3>2
    <3>4. L + 1 - 1 = L /\ L + 1 > e /\ (L # e => L \in 1..L)
      BY <2>3
    <3>5. Reached(client'[g].n, down'[g], e, L) = Whole
      <4>1. Reached(client[g].n, down[g], e, L) = Whole
        BY <1>3, <2>5, <2>8 DEF StartOf
      <4>2. client'[g].n = client[g].n /\ (L # e => down'[g][L] = down[g][L])
        BY <1>1, <3>3, <3>4
      <4> QED BY <4>1, <4>2 DEF Reached
    <3>6. \A i \in (e + 1)..L : down'[g][i].is = "chunk"
      <4>1. \A i \in (e + 1)..L : i \in 1..L
        BY <2>3
      <4> QED BY <2>5, <3>3, <4>1
    <3>7. PartsPlace(g, e)'
      BY <2>8, <3>1, <3>3, <3>4, <3>5, <3>6 DEF PartsPlace
    <3>8. AnswerPlace(g)'
      BY <2>6, <3>3, <3>7 DEF AnswerPlace
    <3> QED BY <1>2, <3>8 DEF FlowInv
  <2> QED BY <1>1, <1>5, <2>1, <2>7, <2>8
<1> QED BY <1>4, <1>5

\* The thread reads on, fails or comes to the end.
LEMMA FlowReadsOn ==
    ASSUME TypeInv, NEW g \in Getter, DownInv(g), FlowInv(g), ReadPart(g) PROVE FlowInv(g)'
<1>1. /\ feed[g].pc = "read" /\ UNCHANGED <<stored, client, handler, up, down, lost>>
      /\ \/ /\ Reads(g) = {} \/ SendFails(g)
            /\ feed'[g].pc = "done" /\ feed'[g].n = feed[g].n
            /\ feed'[g].buf = feed[g].buf /\ feed'[g].channel = feed[g].channel
         \/ /\ feed'[g].pc = "read" /\ feed'[g].buf >= Threshold
            /\ feed'[g].channel = Append(feed[g].channel,
                                         [from |-> feed[g].n, to |-> feed'[g].n])
  BY ReadPartOK
<1>2. /\ FeedPlace(g) /\ AnswerPlace(g) /\ ~Idle(g)
  BY <1>1 DEF FlowInv, FeedPlace, Idle
<1>3. /\ feed[g].channel \in Seq(Chunk) /\ feed[g].n \in 0..Whole /\ feed[g].buf \in Nat
      /\ feed[g].buf > 0 /\ Whole \in Nat
  <2>1. /\ feed[g].channel \in Seq(Chunk) /\ feed[g].n \in 0..Whole
        /\ feed[g].buf \in 0..MaxBuf /\ Whole \in Nat
    BY DownTypes
  <2> QED BY <1>1, <1>2, <2>1, BufferAssumption DEF FeedPlace
<1>4. feed'[g].pc = "done" /\ handler[g].pc = "stream" => feed'[g].n = Whole
  <2>1. SUFFICES ASSUME feed'[g].pc = "done", handler[g].pc = "stream" PROVE feed'[g].n = Whole
    OBVIOUS
  <2>2. Reads(g) = {} /\ feed'[g].n = feed[g].n
    BY <1>1, <2>1 DEF SendFails
  <2>3. feed[g].n # Whole => Least(feed[g].buf, Whole - feed[g].n) \in Nat \ {0}
    BY <1>3 DEF Least
  <2>4. \A x \in Nat \ {0} : 1 \in 1..x
    OBVIOUS
  <2> QED BY <2>2, <2>3, <2>4 DEF Reads
<1>9. handler[g].pc = "stream" =>
          /\ Linked(feed'[g].channel, feed'[g].n)
          /\ StartOf(feed'[g].channel, feed'[g].n) = StartOf(feed[g].channel, feed[g].n)
  <2> SUFFICES ASSUME handler[g].pc = "stream"
               PROVE  /\ Linked(feed'[g].channel, feed'[g].n)
                      /\ StartOf(feed'[g].channel, feed'[g].n) = StartOf(feed[g].channel, feed[g].n)
    OBVIOUS
  <2>1. Linked(feed[g].channel, feed[g].n)
    BY <1>2 DEF FeedPlace
  <2>2. CASE feed'[g].n = feed[g].n /\ feed'[g].channel = feed[g].channel
    BY <2>1, <2>2
  <2>3. CASE feed'[g].channel = Append(feed[g].channel, [from |-> feed[g].n, to |-> feed'[g].n])
    <3> DEFINE c == [from |-> feed[g].n, to |-> feed'[g].n]
    <3>1. feed'[g].n \in 0..Whole
      <4>1. StepOK(g)
        BY ReadPartOK
      <4> QED BY <4>1 DEF StepOK, TypeOK, Adapter
    <3>2. c \in Chunk /\ c.from = feed[g].n /\ c.to = feed'[g].n
      BY <1>3, <3>1 DEF Chunk
    <3>3. feed'[g].channel = Append(feed[g].channel, c)
      BY <2>3
    <3> HIDE DEF c
    <3>4. /\ Linked(Append(feed[g].channel, c), c.to)
          /\ StartOf(Append(feed[g].channel, c), c.to) = StartOf(feed[g].channel, c.from)
      BY <1>3, <2>1, <3>2, LinkAppended
    <3> QED BY <3>2, <3>3, <3>4
  <2> QED BY <1>1, <2>2, <2>3
<1>5. FeedPlace(g)'
  <2>1. handler[g].pc = "stream" => Linked(feed[g].channel, feed[g].n)'
    BY <1>9 DEF Linked
  <2> QED BY <1>1, <1>2, <1>4, <2>1 DEF FeedPlace, Idle
<1>6. ASSUME NEW e, PartsPlace(g, e) PROVE PartsPlace(g, e)'
  <2>1. handler[g].pc = "stream" =>
            StartOf(feed[g].channel, feed[g].n)' = StartOf(feed[g].channel, feed[g].n)
    BY <1>9 DEF StartOf
  <2> QED BY <1>1, <1>6, <2>1 DEF PartsPlace, Reached
<1>7. \A e : HeadsPlace(g, e)' = HeadsPlace(g, e)
  BY <1>1 DEF HeadsPlace
<1>8. AnswerPlace(g)'
  BY <1>1, <1>2, <1>6, <1>7 DEF AnswerPlace, Left
<1> QED BY <1>5, <1>8 DEF FlowInv

LEMMA FlowActs ==
    ASSUME TypeInv, NEW c \in Call, Acts(c), NEW g \in Getter, DownInv(g), FlowInv(g)
    PROVE  FlowInv(g)'
<1>1. CASE g # c
  BY <1>1, ActsOK, FlowApart
<1>2. CASE g = c
  <2>1. g \notin Setter /\ g \in Call
    BY DownTypes
  <2>2. CASE GiveUp(g)
    <3>1. TypeOK /\ Goes(g, "gone") /\ UNCHANGED server
      BY <2>2 DEF TypeInv, GiveUp
    <3>2. client'[g].pc = "gone"
      BY <2>1, <3>1, GoesFacts DEF Final
    <3>3. FeedPlace(g)'
      BY <3>1, FlowReads
    <3>4. Left(g)' /\ client'[g].pc # "hit"
      BY <3>2 DEF Left, Final
    <3> QED BY <3>3, <3>4, FlowOver DEF FlowInv
  <2>3. CASE NoRequest(g)
    <3>1. /\ UNCHANGED <<client, feed, lost>> /\ handler'[g].pc = "done"
          /\ Idle(g) /\ (lost[g] \/ Left(g))
      BY <2>1, <2>3, NoRequestOK
    <3>2. FeedPlace(g)'
      BY <3>1 DEF FlowInv, FeedPlace, Idle
    <3>3. AnswerPlace(g)'
      BY <3>1 DEF FlowInv, AnswerPlace, Left
    <3> QED BY <3>2, <3>3 DEF FlowInv
  <2>4. CASE Lose(g)
    <3>1. UNCHANGED server /\ lost'[g]
      BY <2>1, <2>4, LoseOK
    <3>2. FeedPlace(g)'
      BY <3>1, FlowReads
    <3> QED BY <3>1, <3>2, FlowOver DEF FlowInv
  <2> QED BY <1>2, <2>1, <2>2, <2>3, <2>4, FlowStarts, FlowReadStatus, FlowReadHeader,
             FlowReadBody, FlowAnswers, FlowSends, FlowReadsOn DEF Acts, Read
<1> QED BY <1>1, <1>2

-----------------------------------------------------------------------------
(* Nothing is missing in between, even of what arrives of a connection     *)
(* that breaks: every chunk begins where the one before it ends, and the   *)
(* first where the client has read to.                                     *)

IsChunk(q, i) == q[i].is = "chunk"
Chained(n, q) ==
    \A i \in 1..Len(q) :
        IsChunk(q, i) =>
            IF i > 1 /\ IsChunk(q, i - 1) THEN q[i].val.from = q[i - 1].val.to
            ELSE q[i].val.from = n /\ \A j \in 1..(i - 1) : ~IsChunk(q, j)
ChainPlace(g) == ~Left(g) => Chained(client[g].n, down[g])

LEMMA ChainFree ==
    ASSUME NEW n, NEW q, \A i \in 1..Len(q) : ~IsChunk(q, i) PROVE Chained(n, q)
  BY DEF Chained

\* The client reads the next line or chunk.
LEMMA ChainTaken ==
    ASSUME NEW q \in Seq(Line), q # <<>>, NEW n, Chained(n, q)
    PROVE  Chained(IF Head(q).is = "chunk" THEN Head(q).val.to ELSE n, Tail(q))
<1> DEFINE r == Tail(q)
           m == IF Head(q).is = "chunk" THEN Head(q).val.to ELSE n
<1>1. /\ Len(q) \in Nat \ {0} /\ Len(r) = Len(q) - 1 /\ Head(q) = q[1]
      /\ \A i \in 1..(Len(q) - 1) : r[i] = q[i + 1]
  BY TailFacts
<1>2. m = IF IsChunk(q, 1) THEN q[1].val.to ELSE n
  BY <1>1 DEF IsChunk
<1> HIDE DEF r, m
<1>3. ASSUME NEW i \in 1..Len(r), IsChunk(r, i)
      PROVE  IF i > 1 /\ IsChunk(r, i - 1) THEN r[i].val.from = r[i - 1].val.to
             ELSE r[i].val.from = m /\ \A j \in 1..(i - 1) : ~IsChunk(r, j)
  <2>1. /\ i \in 1..(Len(q) - 1) /\ i + 1 \in 1..Len(q) /\ r[i] = q[i + 1] /\ i + 1 > 1
        /\ IsChunk(q, i + 1) /\ i + 1 - 1 = i
    BY <1>1, <1>3 DEF IsChunk
  <2>2. IF IsChunk(q, i) THEN q[i + 1].val.from = q[i].val.to
        ELSE q[i + 1].val.from = n /\ \A j \in 1..i : ~IsChunk(q, j)
    BY <2>1 DEF Chained
  <2>3. CASE i = 1
    <3>1. r[1].val.from = m
      BY <1>2, <2>1, <2>2, <2>3
    <3> QED BY <2>3, <3>1
  <2>4. CASE i # 1
    <3>1. i > 1 /\ i - 1 \in 1..(Len(q) - 1) /\ i - 1 + 1 = i /\ 1 \in 1..i
      BY <1>1, <2>4
    <3>2. r[i - 1] = q[i] /\ (IsChunk(r, i - 1) <=> IsChunk(q, i))
      BY <1>1, <3>1 DEF IsChunk
    <3>3. CASE IsChunk(q, i)
      BY <2>1, <2>2, <3>1, <3>2, <3>3
    <3>4. CASE ~IsChunk(q, i)
      <4>1. q[i + 1].val.from = n /\ ~IsChunk(q, 1)
        BY <2>2, <3>1, <3>4
      <4>2. ASSUME NEW j \in 1..(i - 1) PROVE ~IsChunk(r, j)
        <5>1. j \in 1..(Len(q) - 1) /\ j + 1 \in 1..i
          BY <1>1, <3>1
        <5>2. ~IsChunk(q, j + 1)
          BY <2>2, <3>4, <5>1
        <5> QED BY <1>1, <5>1, <5>2 DEF IsChunk
      <4> QED BY <1>2, <2>1, <3>2, <3>4, <4>1, <4>2
    <3> QED BY <3>3, <3>4
  <2> QED BY <2>3, <2>4
<1>4. Chained(m, r)
  BY <1>3 DEF Chained
<1> QED BY <1>4 DEF m, r

\* The response goes on, with a chunk that follows the last.
LEMMA ChainAppended ==
    ASSUME NEW q \in Seq(Line), NEW n, Chained(n, q), NEW t \in Line,
           t.is = "chunk" =>
               IF Len(q) > 0 /\ IsChunk(q, Len(q)) THEN t.val.from = q[Len(q)].val.to
               ELSE t.val.from = n /\ \A j \in 1..Len(q) : ~IsChunk(q, j)
    PROVE  Chained(n, q \o <<t>>)
<1> DEFINE r == q \o <<t>>
<1>1. <<t>> \in Seq(Line) /\ Len(<<t>>) = 1 /\ <<t>>[1] = t /\ Len(q) \in Nat
  OBVIOUS
<1>2. /\ Len(r) = Len(q) + 1 /\ r[Len(q) + 1] = t
      /\ \A i \in 1..Len(q) : r[i] = q[i]
  <2>1. /\ Len(r) = Len(q) + Len(<<t>>)
        /\ \A i \in 1..Len(q) : r[i] = q[i]
        /\ \A i \in 1..Len(<<t>>) : r[Len(q) + i] = <<t>>[i]
    BY <1>1, ConcatFacts
  <2> QED BY <1>1, <2>1
<1> HIDE DEF r
<1>3. \A i \in 1..Len(q) : IsChunk(r, i) <=> IsChunk(q, i)
  BY <1>2 DEF IsChunk
<1>4. ASSUME NEW i \in 1..Len(r), IsChunk(r, i)
      PROVE  IF i > 1 /\ IsChunk(r, i - 1) THEN r[i].val.from = r[i - 1].val.to
             ELSE r[i].val.from = n /\ \A j \in 1..(i - 1) : ~IsChunk(r, j)
  <2>1. \A j \in 1..(i - 1) : j \in 1..Len(q)
    BY <1>1, <1>2
  <2>2. CASE i \in 1..Len(q)
    <3>1. IF i > 1 /\ IsChunk(q, i - 1) THEN q[i].val.from = q[i - 1].val.to
          ELSE q[i].val.from = n /\ \A j \in 1..(i - 1) : ~IsChunk(q, j)
      BY <1>3, <1>4, <2>2 DEF Chained
    <3>2. i > 1 => i - 1 \in 1..Len(q) /\ r[i - 1] = q[i - 1]
      BY <1>1, <1>2, <2>2
    <3> QED BY <1>2, <1>3, <2>1, <2>2, <3>1, <3>2
  <2>3. CASE i = Len(q) + 1
    <3>1. t.is = "chunk" /\ i - 1 = Len(q) /\ r[i] = t
      BY <1>1, <1>2, <1>4, <2>3 DEF IsChunk
    <3>2. i > 1 <=> Len(q) > 0
      BY <1>1, <2>3
    <3>3. Len(q) > 0 => Len(q) \in 1..Len(q) /\ r[Len(q)] = q[Len(q)]
      BY <1>1, <1>2
    <3> QED BY <1>3, <3>1, <3>2, <3>3
  <2> QED BY <1>1, <1>2, <2>2, <2>3
<1>5. Chained(n, r)
  BY <1>4 DEF Chained
<1> QED BY <1>5 DEF r

\* Only a beginning of it arrives.
LEMMA ChainBroken ==
    ASSUME NEW q \in Seq(Line), NEW r \in Seq(Line), NEW n, Chained(n, q), Arrived(q, r)
    PROVE  Chained(n, r)
<1>1. /\ Len(r) <= Len(q) /\ Len(r) \in Nat /\ Len(q) \in Nat
      /\ \A i \in 1..Len(r) : r[i].val = q[i].val /\ (IsChunk(r, i) <=> IsChunk(q, i))
  BY DEF Arrived, IsChunk
<1>2. ASSUME NEW i \in 1..Len(r), IsChunk(r, i)
      PROVE  IF i > 1 /\ IsChunk(r, i - 1) THEN r[i].val.from = r[i - 1].val.to
             ELSE r[i].val.from = n /\ \A j \in 1..(i - 1) : ~IsChunk(r, j)
  <2>1. i \in 1..Len(q) /\ (i > 1 => i - 1 \in 1..Len(r)) /\ \A j \in 1..(i - 1) : j \in 1..Len(r)
    BY <1>1
  <2>2. IF i > 1 /\ IsChunk(q, i - 1) THEN q[i].val.from = q[i - 1].val.to
        ELSE q[i].val.from = n /\ \A j \in 1..(i - 1) : ~IsChunk(q, j)
    BY <1>1, <1>2, <2>1 DEF Chained
  <2> QED BY <1>1, <2>1, <2>2
<1> QED BY <1>2 DEF Chained

LEMMA ChainReads ==
    ASSUME TypeInv, NEW g \in Getter, DownInv(g), ChainPlace(g),
           ReadStatus(g) \/ ReadHeader(g) \/ ReadBody(g)
    PROVE  ChainPlace(g)'
<1>1. /\ g \in Call /\ TypeOK /\ WireOK /\ down[g] \in Seq(Line)
      /\ client[g].pc \in {"status", "headers", "body"}
  BY DownTypes DEF TypeInv, ReadStatus, ReadHeader, ReadBody
<1>2. Chained(client[g].n, down[g])
  BY <1>1 DEF ChainPlace, Left, Final
<1>3. ASSUME down'[g] = down[g] \/ client'[g].pc \in Final, client'[g].n = client[g].n
      PROVE  ChainPlace(g)'
  BY <1>2, <1>3 DEF ChainPlace, Chained, IsChunk, Left
<1>4. ASSUME down[g] # <<>>, down'[g] = Tail(down[g]),
             client'[g].n = IF Head(down[g]).is = "chunk" THEN Head(down[g]).val.to ELSE client[g].n
      PROVE  ChainPlace(g)'
  <2>1. Chained(client'[g].n, down'[g])
    BY <1>1, <1>2, <1>4, ChainTaken
  <2> QED BY <2>1 DEF ChainPlace, Chained, IsChunk
<1>5. CASE ReadStatus(g)
  <2>1. PICK pc \in {"miss", "headers", "err", "panic"} : Goes(g, pc)
    <3>1. \A code : GetAnswer(code) \in {"miss", "headers", "err"}
      BY DEF GetAnswer
    <3> QED BY <1>5, <3>1 DEF ReadStatus
  <2>2. client'[g].n = client[g].n /\ client'[g].pc = pc
    BY <1>1, <2>1, GoesFacts DEF Final
  <2>3. CASE down[g] # <<>> /\ down' = [down EXCEPT ![g] = Tail(@)]
    <3>1. down'[g] = Tail(down[g])
      BY <1>1, <2>3 DEF WireOK
    <3>2. Head(down[g]).is = "status"
      <4>1. Head(down[g]) = down[g][1]
        BY <1>1, <2>3, TailFacts
      <4> QED BY <1>5, <2>3, <4>1 DEF DownInv, KeyPlace, ReadStatus
    <3> QED BY <1>4, <2>2, <2>3, <3>1, <3>2
  <2>4. CASE UNCHANGED down
    BY <1>3, <2>2, <2>4
  <2> QED BY <1>5, <2>3, <2>4 DEF ReadStatus
<1>6. CASE ReadHeader(g)
  <2>1. /\ client'[g].n = client[g].n
        /\ down' = [down EXCEPT ![g] = IF @ = <<>> THEN @ ELSE Tail(@)]
        /\ \/ down[g] = <<>> \/ client'[g].pc = "err"
           \/ Head(down[g]).is \in {"end", "key", "chunked"}
    BY <1>6, ReadHeaderCases
  <2>2. down'[g] = IF down[g] = <<>> THEN down[g] ELSE Tail(down[g])
    BY <1>1, <2>1 DEF WireOK
  <2>3. CASE down[g] = <<>> \/ client'[g].pc = "err"
    BY <1>3, <2>1, <2>2, <2>3 DEF Final
  <2>4. CASE down[g] # <<>> /\ Head(down[g]).is \in {"end", "key", "chunked"}
    BY <1>4, <2>1, <2>2, <2>4
  <2> QED BY <2>1, <2>3, <2>4
<1>7. CASE ReadBody(g)
  <2>1. /\ down' = [down EXCEPT ![g] = IF @ = <<>> THEN @ ELSE Tail(@)]
        /\ \/ client'[g].pc \in {"hit", "err"} /\ client'[g].n = client[g].n
           \/ /\ down[g] # <<>> /\ Head(down[g]).is = "chunk"
              /\ client'[g].n = Head(down[g]).val.to
    BY <1>7, ReadBodyCases
  <2>2. down[g] # <<>> => down'[g] = Tail(down[g])
    BY <1>1, <2>1 DEF WireOK
  <2> QED BY <1>3, <1>4, <2>1, <2>2 DEF Final
<1> QED BY <1>5, <1>6, <1>7

LEMMA ChainSends ==
    ASSUME TypeInv, NEW g \in Getter, FlowInv(g), ChainPlace(g), SendPart(g)
    PROVE  ChainPlace(g)'
<1>1. /\ StepOK(g) /\ handler[g].pc = "stream" /\ UNCHANGED <<stored, client>>
      /\ g \in Call /\ down[g] \in Seq(Line) /\ WireOK' /\ Len(down[g]) \in Nat
  BY SendPartOK, DownTypes DEF StepOK
<1>2. ASSUME ~Left(g) => Chained(client[g].n, down'[g]) PROVE ChainPlace(g)'
  BY <1>1, <1>2 DEF ChainPlace, Chained, IsChunk, Left
<1>3. CASE down'[g] = down[g]
  BY <1>2, <1>3 DEF ChainPlace
<1>4. CASE Arrived(down[g], down'[g])
  <2>1. down'[g] \in Seq(Line)
    BY <1>1 DEF WireOK
  <2> QED BY <1>1, <1>2, <1>4, <2>1, ChainBroken DEF ChainPlace
<1>5. CASE /\ feed[g].channel # <<>>
           /\ down'[g] = IF lost[g] \/ Left(g) THEN down[g]
                         ELSE down[g] \o <<Token("chunk", Head(feed[g].channel))>>
  <2> SUFFICES ASSUME ~lost[g], ~Left(g) PROVE Chained(client[g].n, down'[g])
    BY <1>2, <1>3, <1>5
  <2> DEFINE p == Head(feed[g].channel)
             t == Token("chunk", p)
             q == down[g]
  <2>1. feed[g].channel \in Seq(Chunk) /\ p \in Chunk
    BY <1>5, DownTypes, TailFacts
  <2>2. t \in Line /\ t.is = "chunk" /\ t.val = p
    BY <2>1, TokenType DEF Token
  <2>3. handler[g].content # Absent /\ Linked(feed[g].channel, feed[g].n)
    BY <1>1 DEF FlowInv, FeedPlace
  <2>4. PICK e \in 0..Len(q) : HeadsPlace(g, e) /\ PartsPlace(g, e)
    BY <2>3 DEF FlowInv, AnswerPlace
  <2>5. p.from = Reached(client[g].n, q, e, Len(q))
    <3>1. StartOf(feed[g].channel, feed[g].n) = p.from
      BY <1>5, <2>1, <2>3, LinkTaken
    <3> QED BY <1>1, <2>4, <3>1 DEF PartsPlace
  <2>6. IF Len(q) > 0 /\ IsChunk(q, Len(q)) THEN p.from = q[Len(q)].val.to
        ELSE p.from = client[g].n /\ \A j \in 1..Len(q) : ~IsChunk(q, j)
    <3>1. CASE Len(q) = e
      <4>1. \A j \in 1..Len(q) : j = e \/ j \in 1..(e - 1)
        BY <1>1, <3>1
      <4>2. \A j \in 1..Len(q) : ~IsChunk(q, j)
        BY <2>4, <4>1 DEF HeadsPlace, IsChunk
      <4>3. Len(q) > 0 => Len(q) \in 1..Len(q)
        BY <1>1
      <4> QED BY <2>5, <3>1, <4>2, <4>3 DEF Reached
    <3>2. CASE Len(q) # e
      <4>1. Len(q) \in (e + 1)..Len(q) /\ Len(q) > 0
        BY <1>1, <3>2
      <4>2. IsChunk(q, Len(q))
        BY <1>1, <2>4, <4>1 DEF PartsPlace, IsChunk
      <4> QED BY <2>5, <3>2, <4>1, <4>2 DEF Reached
    <3> QED BY <3>1, <3>2
  <2>7. Chained(client[g].n, q)
    BY DEF ChainPlace
  <2> HIDE DEF t, p
  <2>8. Chained(client[g].n, q \o <<t>>)
    BY <1>1, <2>2, <2>6, <2>7, ChainAppended
  <2> QED BY <1>5, <2>8 DEF t, p
<1>6. CASE down'[g] = IF lost[g] \/ Left(g) THEN down[g] ELSE down[g] \o <<Token("last", 0)>>
  <2> SUFFICES ASSUME ~lost[g], ~Left(g) PROVE Chained(client[g].n, down'[g])
    BY <1>2, <1>3, <1>6
  <2> DEFINE t == Token("last", 0)
  <2>1. t \in Line /\ t.is = "last"
    BY TokenType DEF Token
  <2>2. Chained(client[g].n, down[g])
    BY DEF ChainPlace
  <2> HIDE DEF t
  <2>3. Chained(client[g].n, down[g] \o <<t>>)
    BY <1>1, <2>1, <2>2, ChainAppended
  <2> QED BY <1>6, <2>3 DEF t
<1> QED BY <1>3, <1>4, <1>5, <1>6, SendPartOK

LEMMA ChainActs ==
    ASSUME TypeInv, NEW c \in Call, Acts(c), NEW g \in Getter, DownInv(g), FlowInv(g),
           ChainPlace(g)
    PROVE  ChainPlace(g)'
<1>1. ASSUME down'[g] = down[g], client'[g].n = client[g].n, Left(g) => Left(g)'
      PROVE  ChainPlace(g)'
  BY <1>1 DEF ChainPlace, Chained, IsChunk
<1>2. ASSUME \A i \in 1..Len(down'[g]) : down'[g][i].is # "chunk" PROVE ChainPlace(g)'
  BY <1>2 DEF ChainPlace, Chained, IsChunk
<1>3. CASE g # c
  <2>1. client'[g] = client[g] /\ down'[g] = down[g]
    BY <1>3, ActsOK DEF StepOK, Apart, Call
  <2> QED BY <1>1, <2>1 DEF Left
<1>4. CASE g = c
  <2>1. g \notin Setter /\ g \in Call /\ TypeOK /\ WireOK /\ StepOK(g)
    BY <1>4, ActsOK, DownTypes DEF TypeInv
  <2>2. CASE GetStart(g)
    <3>1. down'[g] = <<>> /\ Len(<<>>) = 0
      BY <2>1, <2>2 DEF GetStart, TypeInv, RequestPlace, DownInv, KeyPlace
    <3> QED BY <1>2, <3>1
  <2>3. CASE GiveUp(g)
    <3>1. client'[g].pc = "gone"
      BY <2>1, <2>3, GoesFacts DEF GiveUp, Final
    <3> QED BY <3>1 DEF ChainPlace, Left, Final
  <2>4. CASE GetFromCache(g)
    <3>1. /\ down[g] = <<>> /\ Len(<<>>) = 0
          /\ \/ \E code \in Code \ {"200"} : Answers(g, code)
             \/ \E k \in Key, s \in Setter : Hit(g, k, s)
      BY <2>4, GetFromCacheOK DEF DownInv, KeyPlace
    <3>2. ASSUME NEW code \in Code, Answers(g, code) PROVE ChainPlace(g)'
      <4> DEFINE t == Token("status", code)
      <4>1. t.is # "chunk"
        BY DEF Token
      <4>2. down'[g] = IF lost[g] \/ Left(g) THEN down[g] ELSE down[g] \o <<t>>
        BY <2>1, <3>2, AnswersFacts
      <4> HIDE DEF t
      <4>3. <<>> \o <<t>> = <<t>> /\ Len(<<t>>) = 1 /\ <<t>>[1] = t
        OBVIOUS
      <4>4. down'[g] = <<>> \/ down'[g] = <<t>>
        BY <3>1, <4>2, <4>3
      <4> QED BY <1>2, <3>1, <4>1, <4>3, <4>4
    <3>3. ASSUME NEW k \in Key, NEW s \in Setter, Hit(g, k, s) PROVE ChainPlace(g)'
      <4>1. PICK q : /\ IsHead(q, k)
                     /\ down'[g] = IF lost[g] \/ Left(g) THEN down[g] ELSE down[g] \o q
        BY <3>3, HitFacts
      <4>2. <<>> \o q = q /\ Len(q) = 4
        BY <4>1 DEF IsHead
      <4>3. \A i \in 1..4 : q[i].is # "chunk"
        <5>1. \A i \in 1..4 : i = 1 \/ i = 2 \/ i = 3 \/ i = 4
          OBVIOUS
        <5>2. /\ q[1].is = "status" /\ q[4].is = "end"
              /\ q[2].is \in {"key", "chunked"} /\ q[3].is \in {"key", "chunked"}
          BY <4>1 DEF IsHead
        <5> QED BY <5>1, <5>2
      <4>4. down'[g] = <<>> \/ down'[g] = q
        BY <3>1, <4>1, <4>2
      <4> QED BY <1>2, <3>1, <4>2, <4>3, <4>4
    <3> QED BY <3>1, <3>2, <3>3
  <2>5. CASE ReadPart(g) \/ NoRequest(g)
    BY <1>1, <2>5 DEF ReadPart, NoRequest, Left
  <2>6. CASE Lose(g)
    <3>1. UNCHANGED client /\ Arrived(down[g], down'[g]) /\ down'[g] \in Seq(Line)
      BY <2>1, <2>6, LoseOK DEF StepOK, WireOK
    <3>2. ~Left(g) => Chained(client[g].n, down'[g])
      BY <2>1, <3>1, ChainBroken DEF ChainPlace, WireOK
    <3> QED BY <3>1, <3>2 DEF ChainPlace, Chained, IsChunk, Left
  <2> QED BY <1>4, <2>1, <2>2, <2>3, <2>4, <2>5, <2>6, ChainReads, ChainSends DEF Acts, Read
<1> QED BY <1>3, <1>4

DownloadInv(g) == AskPlace(g) /\ DownInv(g) /\ FlowInv(g) /\ ChainPlace(g)
GetsInv == TypeInv /\ \A g \in Getter : DownloadInv(g)

LEMMA InitGetsInv == Init => GetsInv
<1> SUFFICES ASSUME Init PROVE GetsInv
  OBVIOUS
<1>1. TypeInv
  BY InitTypeInv
<1>2. ASSUME NEW g \in Getter PROVE DownloadInv(g)
  <2>1. g \in Call
    BY DEF Call
  <2>2. /\ client[g].pc = "new" /\ client[g].n = 0 /\ client[g].key = Absent
        /\ handler[g].pc = "idle" /\ handler[g].content = Absent
        /\ down[g] = <<>> /\ Len(down[g]) = 0 /\ up[g] = <<>>
        /\ feed[g].pc = "none" /\ feed[g].n = 0 /\ feed[g].channel = <<>>
    BY <2>1 DEF Init
  <2>3. DownInv(g)
    BY <2>2 DEF DownInv, LinesPlace, KeyPlace, Idle
  <2>4. FlowInv(g)
    BY <2>2 DEF FlowInv, FeedPlace, AnswerPlace, Idle
  <2>5. AskPlace(g) /\ ChainPlace(g)
    BY <2>2 DEF AskPlace, ChainPlace, Chained
  <2> QED BY <2>3, <2>4, <2>5 DEF DownloadInv
<1> QED BY <1>1, <1>2 DEF GetsInv

LEMMA GetsStutters == GetsInv /\ UNCHANGED vars => GetsInv'
<1> SUFFICES ASSUME GetsInv, UNCHANGED vars PROVE GetsInv'
  OBVIOUS
<1>1. TypeInv'
  BY TypeStutters DEF GetsInv
<1>2. UNCHANGED <<stored, client, handler, feed, up, down, lost>>
  BY DEF vars
<1>3. ASSUME NEW g \in Getter PROVE DownloadInv(g)'
  <2>6. Found(g)' = Found(g) /\ Missed(g)' = Missed(g)
    BY <1>2 DEF Found, Missed, Foremost, MayPass, Holds
  <2>7. LinesPlace(g)'
    BY <1>2, <2>6 DEF GetsInv, DownloadInv, DownInv, LinesPlace
  <2>8. KeyPlace(g)'
    BY <1>2, <2>6 DEF GetsInv, DownloadInv, DownInv, KeyPlace, Idle
  <2>9. AskPlace(g)'
    BY <1>2 DEF GetsInv, DownloadInv, AskPlace, Idle
  <2>1. AskPlace(g)' /\ DownInv(g)'
    BY <2>7, <2>8, <2>9 DEF DownInv
  <2>2. FeedPlace(g)'
    BY <1>2 DEF GetsInv, DownloadInv, FlowInv, FeedPlace, Linked, Idle
  <2>3. \A e : HeadsPlace(g, e)' = HeadsPlace(g, e) /\ PartsPlace(g, e)' = PartsPlace(g, e)
    BY <1>2 DEF HeadsPlace, PartsPlace, Reached, StartOf
  <2>4. AnswerPlace(g)'
    BY <1>2, <2>3 DEF GetsInv, DownloadInv, FlowInv, AnswerPlace, Left
  <2>5. ChainPlace(g)'
    BY <1>2 DEF GetsInv, DownloadInv, ChainPlace, Chained, IsChunk, Left
  <2> QED BY <2>1, <2>2, <2>4, <2>5 DEF DownloadInv, FlowInv
<1> QED BY <1>1, <1>3 DEF GetsInv

\* Of a response, too, only a beginning arrives, in the order it was sent, and
\* as long as the connection holds nothing of it is missing.
THEOREM GetsKept == Spec => []GetsInv
<1>1. GetsInv /\ Next => GetsInv'
  <2> SUFFICES ASSUME GetsInv, Next PROVE GetsInv'
    OBVIOUS
  <2>1. PICK c \in Call : Acts(c)
    BY NextActs
  <2>2. TypeInv'
    BY <2>1, ActsOK, StepTypeInv DEF GetsInv
  <2>3. \A g \in Getter : DownloadInv(g)'
    BY <2>1, AskActs, DownActs, FlowActs, ChainActs DEF GetsInv, DownloadInv
  <2> QED BY <2>2, <2>3 DEF GetsInv
<1>2. GetsInv /\ [Next]_vars => GetsInv'
  BY <1>1, GetsStutters
<1> QED BY <1>2, InitGetsInv, PTL DEF Spec

\* Whatever chunk a get reads next is of a content that was stored under the
\* key it names, and begins where it has read to, wherever the connection has
\* cut the key, the headers or a chunk.
THEOREM ReadsStored == Spec => []ReadsWhatWasStored
<1>1. GetsInv => ReadsWhatWasStored
  <2> SUFFICES ASSUME GetsInv, NEW g \in Getter, client[g].pc = "body", down[g] # <<>>,
                      Head(down[g]).is = "chunk"
               PROVE  /\ client[g].key # Absent
                      /\ Holds(stored[client[g].key], handler[g].content)
                      /\ Head(down[g]).val.from = client[g].n
    BY DEF ReadsWhatWasStored
  <2>1. DownInv(g) /\ ChainPlace(g) /\ TypeInv
    BY DEF GetsInv, DownloadInv
  <2>2. client[g].key # Absent /\ client[g].key \in Found(g)
    BY <2>1 DEF DownInv, KeyPlace
  <2>3. Holds(stored[client[g].key], handler[g].content)
    BY <2>2 DEF Found
  <2>4. Head(down[g]) = down[g][1] /\ 1 \in 1..Len(down[g])
    BY <2>1, DownTypes, TailFacts
  <2>5. Chained(client[g].n, down[g])
    BY <2>1 DEF ChainPlace, Left, Final
  <2>6. Head(down[g]).val.from = client[g].n
    BY <2>4, <2>5 DEF Chained, IsChunk
  <2> QED BY <2>2, <2>3, <2>6
<1> QED BY <1>1, GetsKept, PTL

\* A hit that is read to its end on an unbroken connection is whole, whatever
\* the sizes of the channel and of the read buffer are.
THEOREM UnbrokenWhole == Spec => []UnbrokenIsWhole
<1>1. GetsInv => UnbrokenIsWhole
  BY DEF GetsInv, DownloadInv, FlowInv, AnswerPlace, UnbrokenIsWhole
<1> QED BY <1>1, GetsKept, PTL

-----------------------------------------------------------------------------
(* RemoteCache implements CacheSpec: a set that reports success has stored *)
(* under all of its keys, and a get that is read to its end has what was   *)
(* stored under the first of its keys that had an entry, however the       *)
(* connections fared.                                                      *)

-----------------------------------------------------------------------------
(* An acknowledgement.  The request names the keys of the call, the server *)
(* stores under them before it sends a success, and the client only takes  *)
(* for a success what was one.                                             *)

AllStored(s) == \A i \in DOMAIN client[s].keys : Holds(stored[client[s].keys[i]], s)
AsksForKeys(s) ==
    \A i \in 1..Len(up[s]) : up[s][i].is = "request" => up[s][i].val.keys = client[s].keys
ServesKeys(s) == handler[s].pc \in {"copy", "close"} => handler[s].keys = client[s].keys
AnsweredTruly(s) == \A i \in 1..Len(down[s]) : IsSuccess(down[s][i].val) => AllStored(s)
AckInv(s) ==
    /\ AsksForKeys(s) /\ ServesKeys(s) /\ AnsweredTruly(s)
    /\ Idle(s) => down[s] = <<>>
    /\ client[s].pc = "ok" => AllStored(s)

LEMMA AckTypes ==
    ASSUME TypeInv, NEW s \in Setter
    PROVE  /\ s \in Call /\ s \notin Getter /\ RequestPlace(s)
           /\ up[s] \in Seq(Line) /\ down[s] \in Seq(Line)
           /\ Len(up[s]) \in Nat /\ Len(down[s]) \in Nat
           /\ client[s] \in ClientCall /\ handler[s] \in Request
           /\ client[s].keys \in Seq(Key)
<1>1. /\ s \in Call /\ s \notin Getter
  BY KeyAssumption DEF Call
<1>2. /\ up[s] \in Seq(Line) /\ down[s] \in Seq(Line) /\ RequestPlace(s)
      /\ client[s] \in ClientCall /\ handler[s] \in Request
  BY <1>1 DEF TypeInv, TypeOK, WireOK
<1>3. client[s].keys \in Seq(Key)
  <2>1. client[s].keys \in KeyLists \cup {<<>>}
    BY <1>2 DEF ClientCall
  <2>2. <<>> \in Seq(Key) /\ KeyLists \subseteq Seq(Key)
    BY KeyAssumption
  <2> QED BY <2>1, <2>2
<1> QED BY <1>1, <1>2, <1>3

LEMMA AllStoredStays ==
    ASSUME TypeInv, NEW c \in Call, StepOK(c), NEW s \in Setter, AllStored(s),
           client'[s].keys = client[s].keys
    PROVE  AllStored(s)'
<1>1. client[s].keys \in Seq(Key)
  BY AckTypes
<1> SUFFICES ASSUME NEW i \in DOMAIN client[s].keys
             PROVE  Holds(stored'[client[s].keys[i]], s)
  BY DEF AllStored, Holds
<1>2. PICK k \in Key : k = client[s].keys[i]
  BY <1>1
<1>3. Holds(stored[k], s) => Holds(stored[k], s)'
  BY StoredFacts DEF StepOK
<1> QED BY <1>2, <1>3 DEF AllStored, Holds

\* A step of another call.
LEMMA AckApart ==
    ASSUME TypeInv, NEW c \in Call, StepOK(c), NEW s \in Setter, AckInv(s), s # c
    PROVE  AckInv(s)'
<1>1. /\ client'[s] = client[s] /\ handler'[s] = handler[s]
      /\ up'[s] = up[s] /\ down'[s] = down[s]
  BY DEF StepOK, Apart, Call
<1>2. AllStored(s) => AllStored(s)'
  BY <1>1, AllStoredStays
<1> QED BY <1>1, <1>2
        DEF AckInv, AsksForKeys, ServesKeys, AnsweredTruly, Idle

\* The lines that are left of those on a connection say what they said.
LEMMA AckLess ==
    ASSUME TypeInv, NEW s \in Setter, StepOK(s), AckInv(s), client'[s].keys = client[s].keys,
           \A i \in 1..Len(up'[s]) : \E j \in 1..Len(up[s]) :
              up'[s][i].is = up[s][j].is /\ up'[s][i].val = up[s][j].val,
           \A i \in 1..Len(down'[s]) : \E j \in 1..Len(down[s]) :
              down'[s][i].val = down[s][j].val
    PROVE  AsksForKeys(s)' /\ AnsweredTruly(s)'
<1>1. AllStored(s) => AllStored(s)'
  BY AllStoredStays, AckTypes
<1>2. AsksForKeys(s)'
  BY DEF AckInv, AsksForKeys
<1>3. AnsweredTruly(s)'
  BY <1>1 DEF AckInv, AnsweredTruly
<1> QED BY <1>2, <1>3

\* What is on a connection, or all but the first line of it.
LEMMA TailLess ==
    ASSUME NEW q \in Seq(Line), q # <<>>
    PROVE  \A i \in 1..Len(Tail(q)) : \E j \in 1..Len(q) :
              Tail(q)[i].is = q[j].is /\ Tail(q)[i].val = q[j].val
<1>1. /\ Len(q) \in Nat \ {0} /\ Len(Tail(q)) = Len(q) - 1
      /\ \A i \in 1..(Len(q) - 1) : Tail(q)[i] = q[i + 1]
  BY TailFacts
<1>2. \A i \in 1..Len(Tail(q)) : i + 1 \in 1..Len(q) /\ Tail(q)[i] = q[i + 1]
  BY <1>1
<1> QED BY <1>2

\* The client: what it sends names its keys, and a success is taken for one.
LEMMA AckWriter ==
    ASSUME TypeInv, NEW s \in Setter, AckInv(s),
           SetStart(s) \/ WritePart(s) \/ Close(s) \/ Drop(s) \/ ReadStatus(s)
    PROVE  AckInv(s)'
<1>1. /\ s \in Call /\ s \notin Getter /\ RequestPlace(s) /\ TypeOK /\ WireOK
      /\ up[s] \in Seq(Line) /\ down[s] \in Seq(Line)
      /\ Len(up[s]) \in Nat /\ client[s] \in ClientCall
  BY AckTypes DEF TypeInv
<1>2. StepOK(s) /\ UNCHANGED <<stored, handler>>
  BY <1>1, SetStartOK, WritePartOK, CloseOK, DropOK, ReadStatusOK
     DEF SetStart, WritePart, Close, Drop, ReadStatus, server
<1>3. ServesKeys(s)' <=> (handler[s].pc \in {"copy", "close"} =>
                             handler[s].keys = client'[s].keys)
  BY <1>2 DEF ServesKeys
<1>4. CASE SetStart(s)
  <2>1. /\ client[s].pc = "new" /\ up[s] = <<>> /\ Idle(s) /\ down[s] = <<>> /\ down' = down
    BY <1>1, <1>4 DEF SetStart, RequestPlace, AckInv
  <2>2. PICK keys \in KeyLists : Connects(s, keys, "write")
    BY <1>4 DEF SetStart
  <2>3. /\ client'[s].keys = keys /\ client'[s].pc \in {"err", "write"}
    BY <1>1, <2>2, ConnectsFacts
  <2>4. up'[s] = <<>> \/ \E request \in Requests(keys) : up'[s] = <<Token("request", request)>>
    <3>1. CASE UNCHANGED up
      BY <2>1, <3>1
    <3>2. CASE \E request \in Requests(keys) : Send(s, <<Token("request", request)>>)
      <4>1. PICK request \in Requests(keys) : Send(s, <<Token("request", request)>>)
        BY <3>2
      <4>2. <<Token("request", request)>> \in Seq(Line)
        BY TokenType
      <4>3. up'[s] = IF lost[s] THEN up[s] ELSE up[s] \o <<Token("request", request)>>
        BY <1>1, <4>1, <4>2, SendFacts
      <4>4. <<>> \o <<Token("request", request)>> = <<Token("request", request)>>
        BY <4>2
      <4> QED BY <2>1, <4>3, <4>4
    <3> QED BY <2>2, <3>1, <3>2 DEF Connects
  <2>5. AsksForKeys(s)'
    <3>1. CASE up'[s] = <<>>
      BY <3>1 DEF AsksForKeys
    <3>2. CASE \E request \in Requests(keys) : up'[s] = <<Token("request", request)>>
      BY <2>3, <3>2 DEF AsksForKeys, Token, Requests
    <3> QED BY <2>4, <3>1, <3>2
  <2>6. AnsweredTruly(s)'
    BY <2>1 DEF AnsweredTruly
  <2>7. handler[s].pc \notin {"copy", "close"}
    BY <2>1 DEF Idle
  <2> QED BY <1>2, <1>3, <2>1, <2>3, <2>5, <2>6, <2>7 DEF AckInv, Idle
<1>5. CASE WritePart(s) \/ Close(s)
  <2>1. /\ client'[s].keys = client[s].keys /\ client'[s].pc \in {"write", "status"}
        /\ down' = down
    BY <1>1, <1>5 DEF WritePart, Close, Goes, ClientCall, TypeOK
  <2>2. PICK t \in Line : t.is # "request" /\ (up'[s] = up[s] \/ up'[s] = up[s] \o <<t>>)
    <3>1. CASE WritePart(s)
      <4>1. client[s].n + 1 \in 1..Whole
        BY <1>1, <3>1, BoundsAssumption DEF WritePart, ClientCall
      <4> QED BY <3>1, <4>1, WritePartOK, TokenType DEF Token
    <3>2. CASE Close(s)
      BY <3>2, CloseOK, TokenType DEF Token
    <3> QED BY <1>5, <3>1, <3>2
  <2>3. AsksForKeys(s)'
    <3>1. CASE up'[s] = up[s]
      BY <2>1, <3>1 DEF AckInv, AsksForKeys
    <3>2. CASE up'[s] = up[s] \o <<t>>
      <4>1. /\ Len(up'[s]) = Len(up[s]) + 1 /\ up'[s][Len(up[s]) + 1] = t
            /\ \A i \in 1..Len(up[s]) : up'[s][i] = up[s][i]
        BY <1>1, <3>2
      <4>2. \A i \in 1..(Len(up[s]) + 1) : i \in 1..Len(up[s]) \/ i = Len(up[s]) + 1
        BY <1>1
      <4> QED BY <2>1, <2>2, <4>1, <4>2 DEF AckInv, AsksForKeys
    <3> QED BY <2>2, <3>1, <3>2
  <2>4. AnsweredTruly(s)'
    <3>1. AllStored(s)' = AllStored(s)
      BY <1>2, <2>1 DEF AllStored, Holds
    <3> QED BY <2>1, <3>1 DEF AckInv, AnsweredTruly
  <2> QED BY <1>2, <1>3, <2>1, <2>3, <2>4 DEF AckInv, ServesKeys, Idle
<1>6. CASE Drop(s) \/ ReadStatus(s)
  <2>1. /\ client'[s].keys = client[s].keys /\ up' = up
        /\ down'[s] = down[s] \/ (down[s] # <<>> /\ down'[s] = Tail(down[s]))
    BY <1>1, <1>6 DEF Drop, ReadStatus, Goes, ClientCall, TypeOK, WireOK
  <2>2. AsksForKeys(s)' /\ AnsweredTruly(s)'
    <3>1. \A i \in 1..Len(down'[s]) : \E j \in 1..Len(down[s]) :
             down'[s][i].is = down[s][j].is /\ down'[s][i].val = down[s][j].val
      <4>1. CASE down'[s] = down[s]
        BY <4>1
      <4>2. CASE down[s] # <<>> /\ down'[s] = Tail(down[s])
        BY <1>1, <4>2, TailLess
      <4> QED BY <2>1, <4>1, <4>2
    <3>2. \A i \in 1..Len(up'[s]) : \E j \in 1..Len(up[s]) :
             up'[s][i].is = up[s][j].is /\ up'[s][i].val = up[s][j].val
      BY <2>1
    <3>3. \A i \in 1..Len(down'[s]) : \E j \in 1..Len(down[s]) :
             down'[s][i].val = down[s][j].val
      BY <3>1
    <3> QED BY <1>2, <2>1, <3>2, <3>3, AckLess
  <2>3. client'[s].pc = "ok" => AllStored(s)
    <3>1. CASE Drop(s)
      BY <3>1, DropOK
    <3>2. CASE ReadStatus(s)
      <4>1. CASE down[s] # <<>> /\ client'[s].pc = "ok"
        <5>1. PICK pc \in {SetAnswer(Head(down[s]).val)} \cup {"err", "panic"} : Goes(s, pc)
          BY <1>1, <3>2, <4>1 DEF ReadStatus
        <5>2. client'[s].pc = pc
          BY <1>1, <5>1 DEF Goes, TypeOK
        <5>3. IsSuccess(Head(down[s]).val)
          BY <4>1, <5>1, <5>2 DEF SetAnswer
        <5>4. Head(down[s]) = down[s][1] /\ 1 \in 1..Len(down[s])
          BY <1>1, <4>1, TailFacts
        <5> QED BY <5>3, <5>4 DEF AckInv, AnsweredTruly
      <4>2. CASE down[s] = <<>>
        <5>1. Goes(s, "err")
          BY <3>2, <4>2 DEF ReadStatus
        <5> QED BY <1>1, <5>1 DEF Goes, TypeOK
      <4> QED BY <4>1, <4>2
    <3> QED BY <1>6, <3>1, <3>2
  <2>4. AllStored(s)' = AllStored(s)
    BY <1>2, <2>1 DEF AllStored, Holds
  <2>5. Idle(s) => down'[s] = <<>>
    BY <2>1 DEF AckInv
  <2> QED BY <1>2, <1>3, <2>1, <2>2, <2>3, <2>4, <2>5 DEF AckInv, ServesKeys, Idle
<1> QED BY <1>4, <1>5, <1>6

\* Whatever the server answers but a success.
LEMMA AckRefused ==
    ASSUME TypeInv, NEW s \in Setter, AckInv(s), NEW code \in Code, Answers(s, code),
           IsSuccess(code) => AllStored(s), UNCHANGED <<stored, client>>
    PROVE  AnsweredTruly(s)' /\ handler'[s].pc = "done"
<1>1. /\ s \in Call /\ TypeOK /\ WireOK /\ down[s] \in Seq(Line) /\ Len(down[s]) \in Nat
  BY AckTypes DEF TypeInv
<1>2. /\ handler'[s].pc = "done"
      /\ down'[s] = IF lost[s] \/ Left(s) THEN down[s]
                    ELSE down[s] \o <<Token("status", code)>>
  BY <1>1, AnswersFacts
<1>3. AllStored(s)' = AllStored(s)
  BY DEF AllStored, Holds
<1>4. PICK t \in Line : t = Token("status", code) /\ t.val = code
  BY TokenType DEF Token
<1>5. CASE down'[s] = down[s]
  BY <1>2, <1>3, <1>5 DEF AckInv, AnsweredTruly
<1>6. CASE down'[s] = down[s] \o <<t>>
  <2>1. /\ Len(down'[s]) = Len(down[s]) + 1 /\ down'[s][Len(down[s]) + 1] = t
        /\ \A i \in 1..Len(down[s]) : down'[s][i] = down[s][i]
    BY <1>1, <1>6
  <2>2. \A i \in 1..(Len(down[s]) + 1) : i \in 1..Len(down[s]) \/ i = Len(down[s]) + 1
    BY <1>1
  <2> QED BY <1>2, <1>3, <1>4, <2>1, <2>2 DEF AckInv, AnsweredTruly
<1> QED BY <1>2, <1>4, <1>5, <1>6

LEMMA Failures == \A code \in {"403", "404", "500"} : code \in Code /\ ~IsSuccess(code)
  BY DEF Code, IsSuccess

\* The server: it serves the keys of the request, and only sends a success
\* when it has stored under all of them.
LEMMA AckReceiver ==
    ASSUME TypeInv, NEW s \in Setter, AckInv(s),
           PutIntoCache(s) \/ Copy(s) \/ Store(s) \/ PutFails(s) \/ NoRequest(s)
    PROVE  AckInv(s)'
<1>1. /\ s \in Call /\ s \notin Getter /\ RequestPlace(s) /\ TypeOK /\ WireOK
      /\ up[s] \in Seq(Line) /\ down[s] \in Seq(Line) /\ Len(down[s]) \in Nat
      /\ client[s] \in ClientCall /\ handler[s] \in Request /\ client[s].keys \in Seq(Key)
  BY AckTypes DEF TypeInv
<1>2. /\ client[s].pc # "new" \/ PutIntoCache(s) \/ NoRequest(s)
      /\ UNCHANGED client
  BY <1>1 DEF RequestPlace, Idle, PutIntoCache, Copy, Store, PutFails, NoRequest
<1>3. StepOK(s)
  BY <1>2, <1>1, PutIntoCacheOK, CopyOK, StoreOK, PutFailsOK, NoRequestOK
<1>4. AllStored(s) => AllStored(s)'
  BY <1>1, <1>2, <1>3, AllStoredStays
<1>5. client[s].pc = "ok" => AllStored(s)'
  BY <1>4 DEF AckInv
<1>6. up'[s] = up[s] \/ (up[s] # <<>> /\ up'[s] = Tail(up[s]))
  BY <1>1 DEF PutIntoCache, Arrives, Copy, Store, PutFails, NoRequest, WireOK
<1>7. AsksForKeys(s)'
  <2>1. \A i \in 1..Len(up'[s]) : \E j \in 1..Len(up[s]) :
           up'[s][i].is = up[s][j].is /\ up'[s][i].val = up[s][j].val
    <3>1. CASE up'[s] = up[s]
      BY <3>1
    <3>2. CASE up[s] # <<>> /\ up'[s] = Tail(up[s])
      <4>1. up[s] \in Seq(Line)
        BY <1>1
      <4> QED BY <3>2, <4>1, TailLess
    <3> QED BY <1>6, <3>1, <3>2
  <2> QED BY <1>2, <2>1 DEF AckInv, AsksForKeys
<1>8. ASSUME NEW code \in {"403", "404", "500"}, Answers(s, code), UNCHANGED stored
      PROVE  AckInv(s)'
  <2>1. AnsweredTruly(s)' /\ handler'[s].pc = "done"
    BY <1>2, <1>8, AckRefused, Failures
  <2> QED BY <1>2, <1>5, <1>7, <2>1 DEF AckInv, ServesKeys, Idle
<1>9. ASSUME UNCHANGED <<stored, down>>, handler'[s].pc # "idle", ServesKeys(s)'
      PROVE  AckInv(s)'
  <2>1. AnsweredTruly(s)'
    BY <1>2, <1>4, <1>9 DEF AckInv, AnsweredTruly
  <2> QED BY <1>2, <1>5, <1>7, <1>9, <2>1 DEF AckInv, Idle
<1>10. CASE PutIntoCache(s)
  <2>1. Idle(s) /\ up[s] # <<>> /\ UNCHANGED stored
    BY <1>10, PutIntoCacheOK
  <2>2. CASE \E code \in Refusals(RequestOf(s)) : Answers(s, code)
    <3>1. Refusals(RequestOf(s)) \subseteq {"403", "404", "500"}
      BY DEF Refusals
    <3> QED BY <1>8, <2>1, <2>2, <3>1
  <2>3. CASE handler' = [handler EXCEPT ![s].pc = "copy", ![s].keys = RequestOf(s).keys]
             /\ UNCHANGED down
    <3>1. handler'[s].pc = "copy" /\ handler'[s].keys = Head(up[s]).val.keys
      BY <1>1, <2>3 DEF TypeOK, Request, RequestOf
    <3>2. Head(up[s]) = up[s][1] /\ 1 \in 1..Len(up[s])
      BY <1>1, <2>1, TailFacts
    <3>3. up[s][1].is = "request"
      BY <1>1, <2>1 DEF RequestPlace
    <3>4. Head(up[s]).val.keys = client[s].keys
      BY <3>2, <3>3 DEF AckInv, AsksForKeys
    <3> QED BY <1>2, <1>9, <2>1, <2>3, <3>1, <3>4 DEF ServesKeys
  <2> QED BY <1>10, <2>2, <2>3 DEF PutIntoCache
<1>11. CASE Copy(s)
  <2>1. handler[s].pc = "copy" /\ UNCHANGED stored
    BY <1>11 DEF Copy
  <2>2. CASE Answers(s, "500")
    BY <1>8, <2>1, <2>2
  <2>3. CASE UNCHANGED down /\ \E n : handler' = [handler EXCEPT ![s].n = n]
    <3>1. handler'[s].pc = "copy" /\ handler'[s].keys = handler[s].keys
      BY <1>1, <2>1, <2>3 DEF TypeOK, Request
    <3> QED BY <1>2, <1>9, <2>1, <2>3, <3>1 DEF AckInv, ServesKeys
  <2>4. CASE UNCHANGED down /\ handler' = [handler EXCEPT ![s].pc = "close"]
    <3>1. handler'[s].pc = "close" /\ handler'[s].keys = handler[s].keys
      BY <1>1, <2>1, <2>4 DEF TypeOK, Request
    <3> QED BY <1>2, <1>9, <2>1, <2>4, <3>1 DEF AckInv, ServesKeys
  <2> QED BY <1>11, <2>2, <2>3, <2>4 DEF Copy
<1>12. CASE Store(s)
  <2>1. handler[s].pc = "close" /\ handler[s].keys = client[s].keys
    BY <1>12 DEF Store, AckInv, ServesKeys
  <2>2. CASE UNCHANGED <<handler, down>>
    BY <1>2, <1>4, <1>5, <1>7, <2>1, <2>2 DEF AckInv, ServesKeys, AnsweredTruly, Idle
  <2>3. CASE Unstored(s) = {} /\ Answers(s, "204") /\ UNCHANGED stored
    <3>1. AllStored(s)
      <4> SUFFICES ASSUME NEW i \in DOMAIN client[s].keys
                   PROVE  Holds(stored[client[s].keys[i]], s)
        BY DEF AllStored
      <4>1. client[s].keys[i] \in Key
        BY <1>1
      <4> QED BY <2>1, <2>3, <4>1 DEF Unstored
    <3>2. AnsweredTruly(s)' /\ handler'[s].pc = "done"
      BY <1>2, <2>3, <3>1, AckRefused DEF Code
    <3> QED BY <1>2, <1>5, <1>7, <3>2 DEF AckInv, ServesKeys, Idle
  <2> QED BY <1>12, <2>2, <2>3 DEF Store
<1>13. CASE PutFails(s)
  BY <1>8, <1>13 DEF PutFails
<1>14. CASE NoRequest(s)
  <2>1. UNCHANGED <<stored, down>> /\ handler'[s].pc = "done"
    BY <1>1, <1>14, NoRequestOK
  <2>2. ServesKeys(s)'
    BY <2>1 DEF ServesKeys
  <2> QED BY <1>9, <2>1, <2>2
<1> QED BY <1>10, <1>11, <1>12, <1>13, <1>14

LEMMA AckLoses ==
    ASSUME TypeInv, NEW s \in Setter, AckInv(s), Lose(s) PROVE AckInv(s)'
<1>1. /\ s \in Call /\ up[s] \in Seq(Line) /\ down[s] \in Seq(Line)
      /\ Len(up[s]) \in Nat /\ Len(down[s]) \in Nat
  BY AckTypes
<1>2. /\ StepOK(s) /\ UNCHANGED <<stored, client, handler>>
      /\ Len(up'[s]) <= Len(up[s]) /\ \A i \in 1..Len(up'[s]) : up'[s][i] = up[s][i]
      /\ Arrived(down[s], down'[s])
  BY <1>1, LoseOK DEF server
<1>3. up'[s] \in Seq(Line) /\ down'[s] \in Seq(Line)
  BY <1>1, <1>2 DEF StepOK, WireOK
<1>4. /\ \A i \in 1..Len(up'[s]) : i \in 1..Len(up[s])
      /\ Len(down'[s]) <= Len(down[s]) /\ \A i \in 1..Len(down'[s]) : i \in 1..Len(down[s])
  BY <1>1, <1>2, <1>3 DEF Arrived
<1>5. /\ \A i \in 1..Len(up'[s]) : \E j \in 1..Len(up[s]) :
            up'[s][i].is = up[s][j].is /\ up'[s][i].val = up[s][j].val
      /\ \A i \in 1..Len(down'[s]) : \E j \in 1..Len(down[s]) :
            down'[s][i].val = down[s][j].val
  BY <1>2, <1>4 DEF Arrived
<1>6. AsksForKeys(s)' /\ AnsweredTruly(s)'
  BY <1>2, <1>5, AckLess
<1>7. Idle(s) => down'[s] = <<>>
  <2> SUFFICES ASSUME Idle(s) PROVE down'[s] = <<>>
    OBVIOUS
  <2>1. Len(down[s]) = 0
    BY DEF AckInv
  <2>2. Len(down'[s]) = 0
    BY <1>3, <1>4, <2>1
  <2> QED BY <1>3, <2>2, EmptyFacts
<1>8. AllStored(s)' = AllStored(s)
  BY <1>2 DEF AllStored, Holds
<1> QED BY <1>2, <1>6, <1>7, <1>8 DEF AckInv, ServesKeys, Idle

LEMMA AckActs ==
    ASSUME TypeInv, NEW c \in Call, Acts(c), NEW s \in Setter, AckInv(s)
    PROVE  AckInv(s)'
<1>1. CASE s # c
  BY <1>1, ActsOK, AckApart
<1>2. CASE s = c
  <2>1. s \notin Getter
    BY KeyAssumption
  <2> QED BY <1>2, <2>1, AckWriter, AckReceiver, AckLoses DEF Acts
<1> QED BY <1>1, <1>2

AcksInv == \A s \in Setter : AckInv(s)

LEMMA InitAcks == Init => AcksInv
<1> SUFFICES ASSUME Init, NEW s \in Setter PROVE AckInv(s)
  BY DEF AcksInv
<1>1. s \in Call
  BY DEF Call
<1>2. /\ client[s].pc = "new" /\ handler[s].pc = "idle" /\ up[s] = <<>> /\ down[s] = <<>>
  BY <1>1 DEF Init
<1> QED BY <1>2 DEF AckInv, AsksForKeys, ServesKeys, AnsweredTruly

-----------------------------------------------------------------------------
(* What the users of the cache see of a step.                              *)

Asked    == [s \in Setter |-> IF client[s].pc = "new" THEN Open ELSE client[s].keys]
Looked   == [g \in Getter |-> LookupOf(g)]
Answered == [g \in Getter |-> AnswerOf(g)]
Outcome  == [s \in Setter |-> OutcomeOf(s)]
Seen == <<stored, Looked, Answered, Asked, Outcome>>

\* A step of a get other than the call: its keys stay, and what it is answered
\* is decided once, when the client and the server are through with it.
LEMMA GetterStays ==
    ASSUME TypeInv, NEW g \in Getter, FeedPlace(g), Acts(g)
    PROVE  /\ g \notin Setter /\ UNCHANGED stored
           /\ ~GetStart(g) => client[g].pc # "new" /\ client'[g].pc # "new"
           /\ Left(g) => client'[g] = client[g]
           /\ handler[g].pc = "done" => handler'[g].pc = "done"
           /\ ~Idle(g) => handler'[g].content = handler[g].content
<1>1. g \in Call /\ g \notin Setter /\ TypeOK /\ WireOK /\ RequestPlace(g)
  BY DownTypes DEF TypeInv
<1>2. CASE GetStart(g)
  BY <1>1, <1>2 DEF GetStart, server, Left, Final
<1>3. CASE ReadStatus(g)
  <2>1. PICK pc \in {"miss", "headers", "err", "panic"} : Goes(g, pc)
    <3>1. \A code : GetAnswer(code) \in {"miss", "headers", "err"}
      BY DEF GetAnswer
    <3> QED BY <1>3, <3>1 DEF ReadStatus
  <2>2. client'[g].pc = pc
    BY <1>1, <2>1, GoesFacts DEF Final
  <2> QED BY <1>1, <1>3, <2>2 DEF ReadStatus, server, Left, Final
<1>4. CASE ReadHeader(g)
  BY <1>1, <1>4, ReadHeaderCases DEF server, Left, Final
<1>5. CASE ReadBody(g)
  BY <1>1, <1>5, ReadBodyCases DEF server, Left, Final
<1>6. CASE GiveUp(g)
  <2>1. client'[g].pc = "gone"
    BY <1>1, <1>6, GoesFacts DEF GiveUp, Final
  <2> QED BY <1>1, <1>6, <2>1 DEF GiveUp, server, Left, Final
<1>7. CASE GetFromCache(g)
  <2>1. client[g].pc # "new"
    BY <1>1, <1>7, ArrivesFacts DEF GetFromCache
  <2> QED BY <1>1, <1>7, <2>1, GetFromCacheOK DEF Idle
<1>8. CASE SendPart(g)
  BY <1>1, <1>8, SendPartOK DEF RequestPlace, Idle
<1>9. CASE ReadPart(g)
  BY <1>1, <1>9, ReadPartOK DEF RequestPlace, FeedPlace, Idle
<1>10. CASE NoRequest(g)
  BY <1>1, <1>10, NoRequestOK DEF NoRequest
<1>11. CASE Lose(g)
  BY <1>1, <1>11, LoseOK DEF Lose, server
<1> QED BY <1>1, <1>2, <1>3, <1>4, <1>5, <1>6, <1>7, <1>8, <1>9, <1>10, <1>11 DEF Acts, Read

\* What a step of the get g leaves alone.
LEMMA GetterFrame ==
    ASSUME TypeInv, NEW g \in Getter, FeedPlace(g), Acts(g), StepOK(g)
    PROVE  /\ UNCHANGED <<stored, Asked, Outcome>>
           /\ Looked' = [Looked EXCEPT ![g] = LookupOf(g)'] /\ Looked[g] = LookupOf(g)
           /\ Answered' = [Answered EXCEPT ![g] = AnswerOf(g)'] /\ Answered[g] = AnswerOf(g)
<1>1. /\ g \in Call /\ g \notin Setter /\ UNCHANGED stored
      /\ \A o \in Call \ {g} : client'[o] = client[o] /\ handler'[o] = handler[o]
  BY GetterStays DEF StepOK, Apart, Call
<1>2. UNCHANGED <<Asked, Outcome>>
  <2>1. \A s \in Setter : client'[s] = client[s] /\ handler'[s] = handler[s]
    BY <1>1 DEF Call
  <2> QED BY <2>1 DEF Asked, Outcome, OutcomeOf, Over, Left
<1>3. \A h \in Getter \ {g} : client'[h] = client[h] /\ handler'[h] = handler[h]
  BY <1>1 DEF Call
<1>4. \A h \in Getter \ {g} : LookupOf(h)' = LookupOf(h) /\ AnswerOf(h)' = AnswerOf(h)
  BY <1>3 DEF LookupOf, AnswerOf, Over, Left
<1> QED BY <1>1, <1>2, <1>4 DEF Looked, Answered

\* The call of a get looks up what is stored then.
LEMMA GetStartAbstract ==
    ASSUME TypeInv, NEW g \in Getter, FeedPlace(g), GetStart(g), StepOK(g)
    PROVE  Abstract!LookUp(g)
<1>1. /\ g \in Call /\ TypeOK /\ WireOK /\ RequestPlace(g) /\ client[g].pc = "new"
      /\ UNCHANGED <<stored, handler>>
  BY DownTypes DEF TypeInv, GetStart, server
<1>2. PICK keys \in KeyLists :
          \/ keys # <<>> /\ Connects(g, keys, "status")
          \/ keys = <<>> /\ Begin(g, keys, "miss") /\ UNCHANGED <<up, faults>>
  BY DEF GetStart
<1>3. client'[g].keys = keys /\ client'[g].held = Entries /\ client'[g].pc # "new"
  <2>1. CASE Connects(g, keys, "status")
    BY <1>1, <2>1, ConnectsFacts
  <2>2. CASE keys = <<>> /\ Begin(g, keys, "miss")
    BY <1>1, <2>2, BeginFacts DEF Final
  <2> QED BY <1>2, <2>1, <2>2
<1>4. LookupOf(g) = Open /\ LookupOf(g)' = [keys |-> keys, entries |-> Entries]
  BY <1>1, <1>3 DEF LookupOf
<1>5. AnswerOf(g) = Open /\ AnswerOf(g)' = Open
  <2>1. ~Left(g) /\ handler'[g].pc # "done"
    BY <1>1 DEF RequestPlace, Idle, Left, Final
  <2> QED BY <1>1, <2>1 DEF AnswerOf, Over
<1>6. /\ UNCHANGED <<stored, Asked, Outcome>>
      /\ Looked' = [Looked EXCEPT ![g] = LookupOf(g)'] /\ Looked[g] = LookupOf(g)
      /\ Answered' = [Answered EXCEPT ![g] = AnswerOf(g)'] /\ Answered[g] = AnswerOf(g)
  BY GetterFrame DEF Acts
<1>7. UNCHANGED Answered
  BY <1>5, <1>6 DEF Answered
<1>8. Entries = Abstract!Entries
  BY DEF Entries, Abstract!Entries
<1> QED BY <1>2, <1>4, <1>6, <1>7, <1>8
        DEF Abstract!LookUp, Asked, Looked, Answered, Outcome

\* Any other step of it, which may be the answer.
LEMMA GetterAbstract ==
    ASSUME TypeInv, TypeInv', NEW g \in Getter, FeedPlace(g), Acts(g), ~GetStart(g), StepOK(g),
           DownInv(g), DownInv(g)'
    PROVE  Abstract!Answer(g) \/ UNCHANGED Seen
<1>1. /\ g \in Call /\ UNCHANGED stored
      /\ client[g].pc # "new" /\ client'[g].pc # "new"
      /\ Left(g) => client'[g] = client[g]
      /\ handler[g].pc = "done" => handler'[g].pc = "done"
      /\ ~Idle(g) => handler'[g].content = handler[g].content
      /\ client'[g].keys = client[g].keys /\ client'[g].held = client[g].held
  BY GetterStays, LookKept DEF Call
<1>2. /\ UNCHANGED <<stored, Asked, Outcome>>
      /\ Looked' = [Looked EXCEPT ![g] = LookupOf(g)'] /\ Looked[g] = LookupOf(g)
      /\ Answered' = [Answered EXCEPT ![g] = AnswerOf(g)'] /\ Answered[g] = AnswerOf(g)
  BY GetterFrame
<1>3. /\ LookupOf(g) = [keys |-> client[g].keys, entries |-> client[g].held]
      /\ LookupOf(g)' = LookupOf(g) /\ LookupOf(g) # Open
  <2>1. client[g].keys \in Seq(Key) /\ client[g].held \in SUBSET Key
    <3>1. client[g] \in ClientCall
      BY <1>1 DEF TypeInv, TypeOK
    <3>2. <<>> \in Seq(Key) /\ KeyLists \subseteq Seq(Key)
      BY KeyAssumption
    <3> QED BY <3>1, <3>2 DEF ClientCall
  <2>2. LookupOf(g) = [keys |-> client[g].keys, entries |-> client[g].held]
    BY <1>1 DEF LookupOf
  <2> QED BY <1>1, <2>1, <2>2, AnswerAssumption DEF LookupOf
<1>4. UNCHANGED Looked
  BY <1>2, <1>3 DEF Looked
<1>5. CASE AnswerOf(g)' = AnswerOf(g)
  <2>1. UNCHANGED Answered
    BY <1>2, <1>5 DEF Answered
  <2> QED BY <1>2, <1>4, <2>1 DEF Seen
<1>6. CASE AnswerOf(g)' # AnswerOf(g)
  <2>1. ~Over(g) /\ Over(g)'
    <3>1. CASE Over(g)
      <4>1. client'[g] = client[g] /\ handler'[g].pc = "done"
        BY <1>1, <3>1 DEF Over
      <4>2. handler'[g].content = handler[g].content
        BY <1>1, <3>1 DEF Over, Idle
      <4> QED BY <1>6, <4>1, <4>2 DEF AnswerOf, Over, Left
    <3>2. CASE ~Over(g) /\ ~Over(g)'
      BY <1>6, <3>2 DEF AnswerOf
    <3> QED BY <3>1, <3>2
  <2>2. Answered[g] = Open /\ Looked[g] # Open
    BY <1>2, <1>3, <2>1 DEF AnswerOf
  <2>3. ASSUME \/ Abstract!Miss(g) \/ Abstract!Hit(g)
               \/ Answered' = [Answered EXCEPT ![g] = Absent]
        PROVE  Abstract!Answer(g)
    BY <1>2, <1>4, <2>2, <2>3 DEF Abstract!Answer, Asked, Looked, Answered, Outcome
  <2>4. ASSUME NEW n, MayPass(client[g].held, client[g].keys, n) PROVE Abstract!MayPass(g, n)
    <3>1. Looked[g].keys = client[g].keys /\ Looked[g].entries = client[g].held
      BY <1>2, <1>3
    <3>2. Forgetful \/ \A i \in 1..n : Looked[g].keys[i] \notin Looked[g].entries
      BY <2>4, <3>1 DEF MayPass
    <3> QED BY <3>2 DEF Abstract!MayPass, Looked
  <2>5. CASE client'[g].pc = "miss"
    <3>1. AnswerOf(g)' = {}
      BY <2>1, <2>5 DEF AnswerOf
    <3>2. Missed(g)'
      BY <2>5 DEF DownInv, KeyPlace
    <3>3. MayPass(client[g].held, client[g].keys, Len(client[g].keys))
      BY <1>1, <3>2 DEF Missed, MayPass
    <3>4. Abstract!MayPass(g, Len(Looked[g].keys))
      BY <1>2, <1>3, <2>4, <3>3
    <3>5. Abstract!Miss(g)
      BY <1>2, <3>1, <3>4 DEF Abstract!Miss, Looked, Answered
    <3> QED BY <2>3, <3>5
  <2>6. CASE client'[g].pc = "hit" /\ client'[g].n = Whole
    <3>1. AnswerOf(g)' = {[key |-> client'[g].key, content |-> handler'[g].content]}
      BY <2>1, <2>6 DEF AnswerOf
    <3>2. client'[g].key \in Found(g)'
      <4>1. client'[g].n > 0 /\ client'[g].n # 0
        BY <2>6, BoundsAssumption
      <4> QED BY <4>1 DEF DownInv, KeyPlace
    <3>10. PICK k : k = client'[g].key
      OBVIOUS
    <3>11. PICK s : s = handler'[g].content
      OBVIOUS
    <3>12. k \in Found(g)'
      BY <3>2, <3>10
    <3>13. Found(g)' = {l \in Key : Holds(stored[l], s) /\ Foremost(g, l)'}
      BY <1>1, <3>11 DEF Found, Holds
    <3>3. k \in Key /\ Holds(stored[k], s) /\ Foremost(g, k)'
      BY <3>12, <3>13
    <3>4. s \in Setter
      <4>1. stored \in [Key -> Seq(Setter)]
        BY DEF TypeInv, TypeOK
      <4> QED BY <3>3, <4>1 DEF Holds
    <3>5. PICK i \in DOMAIN client[g].keys :
             client[g].keys[i] = k /\ MayPass(client[g].held, client[g].keys, i - 1)
      <4>1. \E i \in DOMAIN client'[g].keys :
               client'[g].keys[i] = k /\ MayPass(client'[g].held, client'[g].keys, i - 1)
        BY <3>3 DEF Foremost, MayPass
      <4> QED BY <1>1, <4>1
    <3>6. i \in DOMAIN Looked[g].keys /\ Looked[g].keys[i] = k /\ Abstract!MayPass(g, i - 1)
      BY <1>2, <1>3, <2>4, <3>5
    <3>7. Answered' = [Answered EXCEPT ![g] = {[key |-> k, content |-> s]}]
      BY <1>2, <3>1, <3>10, <3>11
    <3>8. Abstract!Holds(stored[k], s)
      BY <3>3 DEF Abstract!Holds, Holds
    <3>9. Abstract!Hit(g)
      BY <3>4, <3>6, <3>7, <3>8 DEF Abstract!Hit, Looked, Answered
    <3> QED BY <2>3, <3>9
  <2>7. CASE ~(client'[g].pc = "miss") /\ ~(client'[g].pc = "hit" /\ client'[g].n = Whole)
    <3>1. AnswerOf(g)' = Absent
      BY <2>1, <2>7 DEF AnswerOf
    <3> QED BY <1>2, <2>3, <3>1
  <2> QED BY <2>5, <2>6, <2>7
<1> QED BY <1>5, <1>6

\* The call of a set: nothing has been sent, let alone stored.
LEMMA SetStartAbstract ==
    ASSUME TypeInv, NEW s \in Setter, SetStart(s), StepOK(s) PROVE Abstract!Request(s)
<1>1. /\ s \in Call /\ s \notin Getter /\ TypeOK /\ WireOK /\ RequestPlace(s)
      /\ UNCHANGED <<stored, handler>> /\ client[s].pc = "new"
  BY AckTypes DEF TypeInv, SetStart, server
<1>2. PICK keys \in KeyLists : Connects(s, keys, "write")
  BY DEF SetStart
<1>3. client'[s].keys = keys /\ client'[s].pc \in {"err", "write"}
  BY <1>1, <1>2, ConnectsFacts
<1>4. \A o \in Call \ {s} : client'[o] = client[o]
  BY DEF StepOK, Apart
<1>5. Asked[s] = Open /\ Asked' = [Asked EXCEPT ![s] = keys]
  BY <1>1, <1>3, <1>4 DEF Asked, Call
<1>6. UNCHANGED <<Looked, Answered>>
  <2>1. \A g \in Getter : client'[g] = client[g] /\ handler'[g] = handler[g]
    BY <1>1, <1>4 DEF Call
  <2> QED BY <2>1 DEF Looked, Answered, LookupOf, AnswerOf, Over, Left
<1>7. handler[s].pc = "idle"
  BY <1>1 DEF RequestPlace, Idle
<1>8. \A r \in Setter : OutcomeOf(r)' = OutcomeOf(r)
  BY <1>1, <1>4, <1>7 DEF OutcomeOf, Over, Left, Call
<1>9. UNCHANGED Outcome
  BY <1>8 DEF Outcome
<1> QED BY <1>1, <1>2, <1>5, <1>6, <1>9 DEF Abstract!Request, Asked, Looked, Answered, Outcome

\* Every later step: the keys stay, and what the call is answered is decided
\* once, when the client and the server are through with it.
LEMMA SetterStays ==
    ASSUME TypeInv, NEW s \in Setter, Acts(s), ~SetStart(s)
    PROVE  /\ client[s].pc # "new" /\ client'[s].pc # "new"
           /\ client'[s].keys = client[s].keys
           /\ Left(s) => client'[s] = client[s]
           /\ handler[s].pc = "done" => handler'[s].pc = "done"
           /\ UNCHANGED stored \/ Store(s)
<1>1. /\ s \in Call /\ s \notin Getter /\ TypeOK /\ WireOK /\ RequestPlace(s)
      /\ client[s] \in ClientCall
  BY AckTypes DEF TypeInv
<1>2. CASE WritePart(s) \/ Close(s) \/ Drop(s)
  BY <1>1, <1>2 DEF WritePart, Close, Drop, Goes, server, Left, Final, TypeOK, ClientCall
<1>3. CASE ReadStatus(s)
  <2>1. client[s].pc = "status" /\ UNCHANGED <<stored, handler>>
    BY <1>3 DEF ReadStatus, server
  <2>2. PICK pc \in {"ok", "err", "panic"} : Goes(s, pc)
    BY <1>1, <1>3 DEF ReadStatus, SetAnswer
  <2>3. client'[s].pc = pc /\ client'[s].keys = client[s].keys
    BY <1>1, <2>2 DEF Goes, TypeOK, ClientCall
  <2> QED BY <2>1, <2>3 DEF Left, Final
<1>4. CASE PutIntoCache(s) \/ Copy(s) \/ PutFails(s) \/ NoRequest(s)
  <2>1. client[s].pc # "new" /\ UNCHANGED <<stored, client>>
    BY <1>1, <1>4 DEF RequestPlace, Idle, PutIntoCache, Arrives, Copy, PutFails, NoRequest
  <2>2. handler[s].pc # "done"
    BY <1>4 DEF PutIntoCache, Arrives, Copy, PutFails, NoRequest
  <2> QED BY <2>1, <2>2
<1>5. CASE Store(s)
  BY <1>1, <1>5 DEF RequestPlace, Idle, Store
<1>6. CASE Lose(s)
  BY <1>6 DEF Lose, server
<1> QED BY <1>1, <1>2, <1>3, <1>4, <1>5, <1>6 DEF Acts

LEMMA SetterAbstract ==
    ASSUME TypeInv, NEW s \in Setter, Acts(s), ~SetStart(s), StepOK(s), AckInv(s), AckInv(s)'
    PROVE  \/ Abstract!Store(s) \/ Abstract!Finish(s)
           \/ UNCHANGED Seen
<1>1. /\ s \in Call /\ s \notin Getter /\ TypeOK /\ client[s].keys \in Seq(Key)
      /\ client[s] \in ClientCall
      /\ client[s].pc # "new" /\ client'[s].pc # "new" /\ client'[s].keys = client[s].keys
      /\ Left(s) => client'[s] = client[s]
      /\ handler[s].pc = "done" => handler'[s].pc = "done"
      /\ UNCHANGED stored \/ Store(s)
      /\ \A o \in Call \ {s} : client'[o] = client[o] /\ handler'[o] = handler[o]
  BY AckTypes, SetterStays DEF TypeInv, StepOK, Apart
<1>2. UNCHANGED Asked /\ Asked[s] = client[s].keys /\ Asked[s] # Open
  <2>1. client[s].keys \in KeyLists \cup {<<>>}
    BY <1>1 DEF ClientCall
  <2>2. Asked[s] = client[s].keys
    BY <1>1 DEF Asked
  <2>3. \A r \in Setter \ {s} : client'[r] = client[r]
    BY <1>1 DEF Call
  <2>4. UNCHANGED Asked
    BY <1>1, <2>3 DEF Asked
  <2> QED BY <2>1, <2>2, <2>4, AnswerAssumption
<1>3. UNCHANGED <<Looked, Answered>>
  <2>1. \A g \in Getter : client'[g] = client[g] /\ handler'[g] = handler[g]
    BY <1>1 DEF Call
  <2> QED BY <2>1 DEF Looked, Answered, LookupOf, AnswerOf, Over, Left
<1>4. Outcome' = [Outcome EXCEPT ![s] = OutcomeOf(s)'] /\ Outcome[s] = OutcomeOf(s)
  <2>1. \A r \in Setter \ {s} : client'[r] = client[r] /\ handler'[r] = handler[r]
    BY <1>1 DEF Call
  <2>2. \A r \in Setter \ {s} : OutcomeOf(r)' = OutcomeOf(r)
    BY <2>1 DEF OutcomeOf, Over, Left
  <2> QED BY <2>2 DEF Outcome
<1>5. CASE UNCHANGED stored
  <2>1. CASE OutcomeOf(s)' = OutcomeOf(s)
    <3>1. UNCHANGED Outcome
      BY <1>4, <2>1 DEF Outcome
    <3> QED BY <1>2, <1>3, <1>5, <3>1 DEF Seen
  <2>2. CASE OutcomeOf(s)' # OutcomeOf(s)
    <3>1. OutcomeOf(s) = Open
      BY <1>1, <2>2 DEF OutcomeOf, Over, Left
    <3>2. \/ OutcomeOf(s)' = Absent
          \/ OutcomeOf(s)' = "ok" /\ client'[s].pc = "ok"
      BY <2>2, <3>1 DEF OutcomeOf
    <3>3. OutcomeOf(s)' = "ok" =>
             \A i \in DOMAIN Asked[s] : Abstract!Holds(stored[Asked[s][i]], s)
      <4>1. OutcomeOf(s)' = "ok" => client'[s].pc = "ok"
        BY <3>2, AnswerAssumption
      <4> QED BY <1>1, <1>2, <1>5, <4>1 DEF AckInv, AllStored, Abstract!Holds, Holds
    <3>4. PICK result \in {"ok", Absent} : result = OutcomeOf(s)'
      BY <3>2
    <3>5. /\ Outcome' = [Outcome EXCEPT ![s] = result] /\ Outcome[s] = Open
          /\ result = "ok" => \A i \in DOMAIN Asked[s] : Abstract!Holds(stored[Asked[s][i]], s)
      BY <1>4, <3>1, <3>3, <3>4
    <3> QED BY <1>2, <1>3, <1>5, <3>5 DEF Abstract!Finish, Asked, Looked, Answered, Outcome
  <2> QED BY <2>1, <2>2
<1>6. CASE Store(s) /\ stored' # stored
  <2>1. /\ handler[s].pc = "close" /\ UNCHANGED <<client, handler>>
        /\ \E k \in Unstored(s) : stored' = [stored EXCEPT ![k] = Append(@, s)]
    BY <1>6 DEF Store
  <2>2. handler[s].keys = client[s].keys
    BY <2>1 DEF AckInv, ServesKeys
  <2>3. OutcomeOf(s) = Open /\ UNCHANGED Outcome
    <3>1. OutcomeOf(s)' = OutcomeOf(s) /\ OutcomeOf(s) = Open
      BY <2>1 DEF OutcomeOf, Over, Left
    <3> QED BY <1>4, <3>1 DEF Outcome
  <2>4. \E i \in DOMAIN Asked[s] :
           /\ ~Abstract!Holds(stored[Asked[s][i]], s)
           /\ stored' = [stored EXCEPT ![Asked[s][i]] = Append(@, s)]
    <3>1. PICK k \in Unstored(s) : stored' = [stored EXCEPT ![k] = Append(@, s)]
      BY <2>1
    <3>2. PICK i \in DOMAIN handler[s].keys : handler[s].keys[i] = k
      BY DEF Unstored
    <3>3. i \in DOMAIN Asked[s] /\ Asked[s][i] = k
      BY <1>2, <2>2, <3>2
    <3>4. ~Abstract!Holds(stored[k], s)
      BY DEF Unstored, Abstract!Holds, Holds
    <3> QED BY <3>1, <3>3, <3>4
  <2>5. Outcome[s] = Open /\ Outcome'[s] # "ok"
    BY <1>4, <2>3, AnswerAssumption
  <2> QED BY <1>2, <1>3, <2>3, <2>4, <2>5 DEF Abstract!Store, Asked, Looked, Answered, Outcome
<1> QED BY <1>1, <1>5, <1>6

RefInv == GetsInv /\ AcksInv

LEMMA NextRefInv ==
    ASSUME RefInv, [Next]_vars
    PROVE  RefInv' /\ [Abstract!Next]_Seen
<1>1. CASE Next
  <2>1. PICK c \in Call : Acts(c)
    BY <1>1, NextActs
  <2>2. TypeInv /\ StepOK(c) /\ TypeInv'
    BY <2>1, ActsOK, StepTypeInv DEF RefInv, GetsInv
  <2>3. GetsInv'
    <3>1. \A g \in Getter : DownloadInv(g)'
      BY <2>1, AskActs, DownActs, FlowActs, ChainActs DEF RefInv, GetsInv, DownloadInv
    <3> QED BY <2>2, <3>1 DEF GetsInv
  <2>4. AcksInv'
    BY <2>1, <2>2, AckActs DEF RefInv, AcksInv
  <2>5. CASE c \in Getter
    <3>1. FeedPlace(c) /\ DownInv(c) /\ DownInv(c)'
      BY <2>3, <2>5 DEF RefInv, GetsInv, DownloadInv, FlowInv
    <3>2. CASE GetStart(c)
      <4>1. Abstract!LookUp(c)
        BY <2>2, <2>5, <3>1, <3>2, GetStartAbstract
      <4> QED BY <2>3, <2>4, <2>5, <4>1 DEF RefInv, Abstract!Next, Asked, Looked, Answered, Outcome
    <3>3. CASE ~GetStart(c)
      <4>1. Abstract!Answer(c) \/ UNCHANGED Seen
        BY <2>1, <2>2, <2>5, <3>1, <3>3, GetterAbstract
      <4> QED BY <2>3, <2>4, <2>5, <4>1 DEF RefInv, Abstract!Next, Asked, Looked, Answered, Outcome
    <3> QED BY <3>2, <3>3
  <2>6. CASE c \in Setter
    <3>1. CASE SetStart(c)
      BY <2>2, <2>3, <2>4, <2>6, <3>1, SetStartAbstract
         DEF RefInv, Abstract!Next, Asked, Looked, Answered, Outcome
    <3>2. CASE ~SetStart(c)
      <4>1. \/ Abstract!Store(c) \/ Abstract!Finish(c)
            \/ UNCHANGED Seen
        BY <2>1, <2>2, <2>4, <2>6, <3>2, SetterAbstract DEF RefInv, AcksInv
      <4> QED BY <2>3, <2>4, <2>6, <4>1 DEF RefInv, Abstract!Next, Asked, Looked, Answered, Outcome
    <3> QED BY <3>1, <3>2
  <2> QED BY <2>5, <2>6 DEF Call
<1>2. CASE UNCHANGED vars
  <2>1. UNCHANGED <<stored, client, handler, feed, up, down, lost>>
    BY <1>2 DEF vars
  <2>2. GetsInv'
    BY <1>2, GetsStutters DEF RefInv
  <2>3. AcksInv'
    BY <2>1 DEF RefInv, AcksInv, AckInv, AsksForKeys, ServesKeys, AnsweredTruly, AllStored,
                Holds, Idle
  <2>4. UNCHANGED Seen
    BY <2>1 DEF Seen, Asked, Looked, Answered, Outcome, LookupOf, AnswerOf, OutcomeOf, Over, Left
  <2> QED BY <2>2, <2>3, <2>4 DEF RefInv
<1> QED BY <1>1, <1>2

LEMMA InitAbstract == Init => Abstract!Init
<1> SUFFICES ASSUME Init PROVE Abstract!Init
  OBVIOUS
<1>1. \A c \in Call : client[c].pc = "new" /\ ~Left(c)
  BY DEF Init, Left, Final
<1>2. Asked = [s \in Setter |-> Open] /\ Outcome = [s \in Setter |-> Open]
  BY <1>1 DEF Asked, Outcome, OutcomeOf, Over, Call
<1>3. Answered = [g \in Getter |-> Open] /\ Looked = [g \in Getter |-> Open]
  BY <1>1 DEF Answered, Looked, AnswerOf, LookupOf, Over, Call
<1> QED BY <1>2, <1>3, BoundsAssumption
        DEF Init, Abstract!Init, Asked, Looked, Answered, Outcome

\* Through the network, too, a cache keeps the promises of the Cache trait:
\* every step of a client, of the server or of a connection is one of
\* CacheSpec, or one the users of the cache do not see.
THEOREM Implements == Spec => ImplementsCache
<1>1. Init => RefInv
  BY InitGetsInv, InitAcks DEF RefInv
<1>2. Spec => Abstract!Init /\ [][Abstract!Next]_Seen
  BY <1>1, NextRefInv, InitAbstract, PTL DEF Spec
<1>3. [Abstract!Next]_Seen => [Abstract!Next]_(Abstract!vars)
  BY DEF Seen, Abstract!vars, Asked, Looked, Answered, Outcome
<1>4. [][Abstract!Next]_Seen => [][Abstract!Next]_(Abstract!vars)
  BY <1>3, PTL
<1> QED BY <1>2, <1>4, PTL DEF ImplementsCache, Abstract!Spec
================================================================================
