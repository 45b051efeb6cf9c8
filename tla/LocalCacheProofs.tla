--------------------------- MODULE LocalCacheProofs ---------------------------
(***************************************************************************)
(* Theorems about LocalCache, for any number of calls, keys, faults and    *)
(* ticks, a part each: the types, together with the places a call can be   *)
(* in; that a hit delivers complete content stored under its key, from the *)
(* flow of meta records through the files; that what is stored again is    *)
(* overwritten; that no entry is lost before something is cleaned; that    *)
(* CacheSpec is implemented; in which way alone calls in parallel make     *)
(* each other fail; that a clean that has the cache to itself evicts the   *)
(* oldest first, until the limits are met.                                 *)
(***************************************************************************)
EXTENDS LocalCache, Minima

\* A get between reading a meta and its hit has a key and a meta; a set that
\* works on a key has one; a clean goes through blobs, then through files.
GetPlace(g) ==
    /\ get[g].i >= 1
    /\ get[g].pc \in {"put", "write", "close", "open", "hit"} =>
          get[g].i \in DOMAIN get[g].keys /\ get[g].meta \in Meta
SetPlace(s) ==
    /\ set[s].pc \in {"putmeta", "writemeta", "closemeta"} =>
          set[s].i \in DOMAIN set[s].keys
    /\ set[s].pc \in {"new", "putblob", "write"} => set[s].i = 1
CleanPlace(c) ==
    /\ clean[c].pc \in {"blobs", "size"} => clean[c].todo \subseteq Setter
    /\ clean[c].pc = "metas" => clean[c].todo \subseteq File

StoreType ==
    /\ now \in Time /\ faults \in 0..MaxFaults
    /\ file \in [File -> Body]
    /\ blob \in [Setter -> BlobFile]
    /\ dirs \subseteq Dir
    /\ stored \in [Key -> Seq(Setter)]
GetType   == get \in [Getter -> GetCall] /\ \A g \in Getter : GetPlace(g)
SetType   == set \in [Setter -> SetCall] /\ \A s \in Setter : SetPlace(s)
CleanType == clean \in [Cleaner -> CleanCall] /\ \A c \in Cleaner : CleanPlace(c)
TypeInv == StoreType /\ GetType /\ SetType /\ CleanType

LEMMA InitType == Init => TypeInv
<1> SUFFICES ASSUME Init PROVE TypeInv
  OBVIOUS
<1>1. StoreType
  BY BoundsAssumption DEF Init, StoreType, Time, Body, BlobFile
<1>2. GetType
  <2>1. [k \in Key |-> 0] \in [Key -> Nat]
    OBVIOUS
  <2> QED BY <2>1 DEF Init, GetType, GetPlace, GetCall, Ended, BlobFile
<1>3. SetType
  BY BoundsAssumption DEF Init, SetType, SetPlace, SetCall, Ended, Time
<1>4. CleanType
  BY BoundsAssumption DEF Init, CleanType, CleanPlace, CleanCall, Ended, Time
<1> QED BY <1>1, <1>2, <1>3, <1>4 DEF TypeInv

-----------------------------------------------------------------------------
(* What the helpers preserve.                                              *)

\* Staging, writing and renaming keep every file a meta, short or absent.
LEMMA FileType ==
    ASSUME StoreType, NEW t \in File, NEW k \in File, NEW m \in Meta,
           Stage(t, k) \/ WriteTo(t, m) \/ Publish(t, k) \/ UNCHANGED file
    PROVE  file' \in [File -> Body]
<1>1. CASE Stage(t, k)
  BY <1>1 DEF StoreType, Stage, Body
<1>2. CASE WriteTo(t, m)
  BY <1>2 DEF StoreType, WriteTo, Body
<1>3. CASE Publish(t, k)
  BY <1>3 DEF StoreType, Publish, Body
<1>4. CASE UNCHANGED file
  BY <1>4 DEF StoreType
<1> QED BY <1>1, <1>2, <1>3, <1>4

LEMMA GetGotoType ==
    ASSUME GetType, NEW g \in Getter,
           NEW pc \in Ended \cup {"new", "read", "put", "write", "close", "open"},
           GetGoto(g, pc),
           pc \in {"put", "write", "close", "open", "hit"} =>
              get[g].pc \in {"put", "write", "close", "open", "hit"}
    PROVE  GetType'
<1>1. get[g] \in GetCall
  BY DEF GetType
<1>2. get' \in [Getter -> GetCall]
  BY <1>1 DEF GetType, GetGoto, GetCall
<1>3. \A h \in Getter : GetPlace(h)'
  BY <1>1 DEF GetType, GetGoto, GetPlace, GetCall
<1> QED BY <1>2, <1>3 DEF GetType

LEMMA TryNextKeyType ==
    ASSUME GetType, NEW g \in Getter, TryNextKey(g) PROVE GetType'
<1>1. get[g] \in GetCall /\ get[g].i >= 1
  BY DEF GetType, GetPlace
<1>2. get[g].i + 1 \in Nat /\ get[g].i + 1 >= 1
  BY <1>1 DEF GetCall
<1>3. get' = [get EXCEPT ![g] = [get[g] EXCEPT !.pc = "read", !.i = get[g].i + 1]]
  BY DEF TryNextKey, GetType
<1>4. get' \in [Getter -> GetCall]
  BY <1>1, <1>2, <1>3 DEF GetType, GetCall
<1>5. \A h \in Getter : GetPlace(h)'
  BY <1>1, <1>2, <1>3 DEF GetType, GetPlace, GetCall
<1> QED BY <1>4, <1>5 DEF GetType

LEMMA SetGotoType ==
    ASSUME SetType, NEW s \in Setter,
           NEW pc \in Ended \cup {"new", "putblob", "putmeta", "write",
                                  "writemeta", "closemeta", "dropall", "drop", "undo"},
           SetGoto(s, pc),
           pc \in {"putmeta", "writemeta", "closemeta"} =>
              set[s].i \in DOMAIN set[s].keys,
           pc \in {"new", "putblob", "write"} => set[s].i = 1
    PROVE  SetType'
<1>1. set[s] \in SetCall
  BY DEF SetType
<1>2. set' \in [Setter -> SetCall]
  BY <1>1 DEF SetType, SetGoto, SetCall
<1>3. \A r \in Setter : SetPlace(r)'
  BY <1>1 DEF SetType, SetGoto, SetPlace, SetCall
<1> QED BY <1>2, <1>3 DEF SetType

LEMMA CleanGotoType ==
    ASSUME CleanType, NEW c \in Cleaner, NEW pc \in Ended, CleanGoto(c, pc)
    PROVE  CleanType'
<1>1. clean[c] \in CleanCall
  BY DEF CleanType
<1>2. clean' \in [Cleaner -> CleanCall]
  BY <1>1 DEF CleanType, CleanGoto, CleanCall
<1>3. \A d \in Cleaner : CleanPlace(d)'
  BY <1>1 DEF CleanType, CleanGoto, CleanPlace, CleanCall, Ended
<1> QED BY <1>2, <1>3 DEF CleanType

LEMMA FaultType == ASSUME StoreType, Fault PROVE (faults \in 0..MaxFaults)'
  BY BoundsAssumption DEF StoreType, Fault

LEMMA GetFrameType ==
    ASSUME TypeInv, GetFrame, (faults \in 0..MaxFaults)', file' \in [File -> Body]
    PROVE  StoreType' /\ SetType' /\ CleanType'
  BY DEF TypeInv, GetFrame, StoreType, SetType, SetPlace, CleanType, CleanPlace

LEMMA SetFrameType ==
    ASSUME TypeInv, SetFrame PROVE GetType' /\ CleanType' /\ (now \in Time)'
  BY DEF TypeInv, SetFrame, StoreType, GetType, GetPlace, CleanType, CleanPlace

LEMMA CleanFrameType ==
    ASSUME TypeInv, CleanFrame
    PROVE  /\ GetType' /\ SetType' /\ (now \in Time)'
           /\ (dirs \subseteq Dir)' /\ (stored \in [Key -> Seq(Setter)])'
  BY DEF TypeInv, CleanFrame, StoreType, GetType, GetPlace, SetType, SetPlace

-----------------------------------------------------------------------------
(* The actions of get.                                                     *)

LEMMA GetKeyType ==
    ASSUME GetType, NEW g \in Getter, get[g].i <= Len(get[g].keys)
    PROVE  /\ get[g].i \in DOMAIN get[g].keys
           /\ GKey(g) \in Key
  BY DEF GetType, GetPlace, GetCall, GKey

LEMMA GetStartType ==
    ASSUME TypeInv, NEW g \in Getter, GetStart(g) PROVE TypeInv'
<1>1. StoreType' /\ SetType' /\ CleanType'
  BY GetFrameType DEF TypeInv, StoreType, GetStart
<1>2. PICK ks \in Lookups :
         get' = [get EXCEPT ![g].pc = "read", ![g].keys = ks,
                            ![g].mark = [k \in Key |-> Len(stored[k])]]
  BY DEF GetStart
<1>3. [k \in Key |-> Len(stored[k])] \in [Key -> Nat] /\ ks \in Seq(Key)
  BY KeyListAssumption DEF TypeInv, StoreType
<1>4. get[g] \in GetCall
  BY DEF TypeInv, GetType
<1>5. get' \in [Getter -> GetCall]
  BY <1>2, <1>3, <1>4 DEF TypeInv, GetType, GetCall
<1>6. \A h \in Getter : GetPlace(h)'
  BY <1>2, <1>4 DEF TypeInv, GetType, GetPlace, GetCall
<1> QED BY <1>1, <1>5, <1>6 DEF TypeInv, GetType

LEMMA GetReadMetaType ==
    ASSUME TypeInv, NEW g \in Getter, GetReadMeta(g) PROVE TypeInv'
<1>1. StoreType' /\ SetType' /\ CleanType'
  BY GetFrameType DEF TypeInv, StoreType, GetReadMeta
<1>2. GetType /\ get[g] \in GetCall
  BY DEF TypeInv, GetType
<1>3. CASE GetGoto(g, "none") \/ GetGoto(g, "err")
  BY <1>1, <1>2, <1>3, GetGotoType DEF TypeInv, Ended
<1>4. CASE TryNextKey(g)
  BY <1>1, <1>2, <1>4, TryNextKeyType DEF TypeInv
<1>5. CASE /\ get[g].i <= Len(get[g].keys) /\ file[GKey(g)] \in Meta
           /\ get' = [get EXCEPT ![g].pc = "put",
                         ![g].meta = [file[GKey(g)] EXCEPT !.access = now]]
  <2>1. [file[GKey(g)] EXCEPT !.access = now] \in Meta
    BY <1>5 DEF TypeInv, StoreType, Meta
  <2>2. get[g].i \in DOMAIN get[g].keys
    BY <1>2, <1>5, GetKeyType
  <2>3. get' \in [Getter -> GetCall]
    BY <1>2, <1>5, <2>1 DEF GetType, GetCall
  <2>4. \A h \in Getter : GetPlace(h)'
    BY <1>2, <1>5, <2>1, <2>2 DEF GetType, GetPlace, GetCall
  <2> QED BY <1>1, <2>3, <2>4 DEF TypeInv, GetType
<1> QED BY <1>3, <1>4, <1>5 DEF GetReadMeta

\* Staging, writing, renaming the meta, and opening the blob.
LEMMA GetWorkType ==
    ASSUME TypeInv, NEW g \in Getter,
           GetPut(g) \/ GetWrite(g) \/ GetClose(g) \/ GetOpenBlob(g)
    PROVE  TypeInv'
<1>1. /\ GetType /\ get[g] \in GetCall /\ StoreType /\ (faults \in 0..MaxFaults)'
      /\ GetFrame
  BY DEF TypeInv, GetType, StoreType, GetPut, GetWrite, GetClose, GetOpenBlob
<1>2. /\ get[g].meta \in Meta /\ GKey(g) \in Key /\ GKey(g) \in File /\ g \in File
      /\ get[g].pc \in {"put", "write", "close", "open"}
  BY <1>1 DEF GetType, GetPlace, GetCall, GKey, File, Staged,
              GetPut, GetWrite, GetClose, GetOpenBlob
<1>3. file' \in [File -> Body]
  BY <1>1, <1>2, FileType DEF GetPut, GetWrite, GetClose, GetOpenBlob
<1>4. StoreType' /\ SetType' /\ CleanType'
  BY <1>1, <1>3, GetFrameType
<1>5. CASE \E pc \in {"write", "close", "open", "err"} : GetGoto(g, pc)
  BY <1>1, <1>2, <1>4, <1>5, GetGotoType DEF TypeInv, Ended
<1>6. CASE TryNextKey(g)
  BY <1>1, <1>4, <1>6, TryNextKeyType DEF TypeInv
<1>7. CASE get' = [get EXCEPT ![g].pc = "hit", ![g].body = blob[get[g].meta.blob]]
  <2>1. blob[get[g].meta.blob] \in BlobFile
    BY <1>1, <1>2 DEF StoreType, Meta
  <2>2. get' \in [Getter -> GetCall]
    BY <1>1, <1>7, <2>1 DEF GetType, GetCall, Ended
  <2>3. \A h \in Getter : GetPlace(h)'
    BY <1>1, <1>2, <1>7 DEF GetType, GetPlace, GetCall
  <2> QED BY <1>4, <2>2, <2>3 DEF TypeInv, GetType
<1> QED BY <1>5, <1>6, <1>7 DEF GetPut, GetWrite, GetClose, GetOpenBlob

LEMMA GetStopType ==
    ASSUME TypeInv, NEW g \in Getter, GetFail(g) \/ GetCrash(g) PROVE TypeInv'
<1>1. /\ GetType /\ get[g] \in GetCall /\ StoreType /\ (faults \in 0..MaxFaults)'
      /\ GetFrame
  BY FaultType DEF TypeInv, GetType, GetFail, GetCrash
<1>2. g \in File /\ (get[g].pc = "write" => GKey(g) \in File)
  <2>1. get[g].keys \in Seq(Key) /\ (get[g].pc = "write" => get[g].i \in DOMAIN get[g].keys)
    BY <1>1 DEF GetType, GetPlace, GetCall
  <2> QED BY <2>1 DEF GKey, File, Staged
<1>3. file' \in [File -> Body]
  <2>1. CASE UNCHANGED file
    BY <1>1, <2>1 DEF StoreType
  <2>2. CASE get[g].pc = "write" /\ Publish(g, GKey(g))
    BY <1>1, <1>2, <2>2 DEF StoreType, Publish, Body
  <2> QED BY <2>1, <2>2 DEF GetFail, GetCrash
<1>4. StoreType' /\ SetType' /\ CleanType'
  BY <1>1, <1>3, GetFrameType
<1>5. GetType'
  BY <1>1, GetGotoType DEF GetFail, GetCrash, Ended
<1> QED BY <1>4, <1>5 DEF TypeInv

-----------------------------------------------------------------------------
(* The actions of set.                                                     *)

LEMMA SetStartType ==
    ASSUME TypeInv, NEW s \in Setter, SetStart(s) PROVE TypeInv'
<1>1. GetType' /\ CleanType' /\ StoreType'
  BY SetFrameType DEF TypeInv, StoreType, SetStart
<1>2. set[s] \in SetCall /\ set[s].pc = "new" /\ set[s].i = 1 /\ now \in Time
  BY DEF TypeInv, StoreType, SetType, SetPlace, SetStart
<1>3. PICK ks \in Stores :
         set' = [set EXCEPT ![s].pc = "putblob", ![s].keys = ks, ![s].at = now]
  BY DEF SetStart
<1>4. ks \in Seq(Key)
  BY KeyListAssumption
<1>5. set' \in [Setter -> SetCall]
  BY <1>2, <1>3, <1>4 DEF TypeInv, SetType, SetCall
<1>6. \A r \in Setter : SetPlace(r)'
  BY <1>2, <1>3 DEF TypeInv, SetType, SetPlace, SetCall
<1> QED BY <1>1, <1>5, <1>6 DEF TypeInv, SetType

\* Looking up and making a directory: nothing else of the set changes, unless
\* another made the directory first.
LEMMA DirStep ==
    ASSUME TypeInv, NEW s \in Setter, SetMissesDir(s) \/ SetMakeDir(s)
    PROVE  /\ SetFrame /\ UNCHANGED <<faults, file, blob, stored>>
           /\ dirs \subseteq dirs' /\ dirs' \subseteq Dir
           /\ set' \in [Setter -> SetCall]
           /\ \A r \in Setter \ {s} : set'[r] = set[r]
           /\ set[s].pc \in {"putblob", "putmeta"}
           /\ set'[s].keys = set[s].keys /\ set'[s].i = set[s].i
           /\ set'[s].at = set[s].at /\ set'[s].open = set[s].open
           /\ \/ set'[s].pc = set[s].pc
              \/ /\ set[s].pc = "putblob" /\ set'[s].pc = "err"
                 /\ LostRace(s)'
              \/ /\ set[s].pc = "putmeta" /\ set'[s].pc = "undo"
                 /\ LostRace(s)'
<1>1. /\ set \in [Setter -> SetCall] /\ set[s] \in SetCall
      /\ dirs \subseteq Dir /\ Absent \notin Dir
  BY NameAssumption DEF TypeInv, StoreType, SetType
<1>2. CASE SetMissesDir(s)
  <2>1. PICK d \in Missing(s) : set' = [set EXCEPT ![s].dir = d]
    BY <1>2 DEF SetMissesDir
  <2>2. d \in Dir
    <3>1. set[s].pc = "putmeta" => SKey(s) \in Key
      <4>1. set[s].keys \in Seq(Key) /\ SetPlace(s)
        BY <1>1 DEF TypeInv, SetType, SetCall
      <4> QED BY <4>1 DEF SetPlace, SKey
    <3>2. set[s].pc \in {"putblob", "putmeta"}
      BY <1>2 DEF SetMissesDir
    <3> QED BY <2>1, <3>1, <3>2 DEF Missing, Dir
  <2>3. set' = [set EXCEPT ![s] = [set[s] EXCEPT !.dir = d]]
    BY <1>1, <2>1
  <2> QED BY <1>1, <1>2, <2>2, <2>3 DEF SetMissesDir, SetCall
<1>3. CASE SetMakeDir(s)
  <2>1. CASE /\ dirs' = dirs \cup {set[s].dir}
             /\ set' = [set EXCEPT ![s].dir = Absent]
    <3>1. set' = [set EXCEPT ![s] = [set[s] EXCEPT !.dir = Absent]]
      BY <1>1, <2>1
    <3>2. set[s].dir \in Dir
      BY <1>1, <1>3 DEF SetMakeDir, SetCall
    <3>3. /\ SetFrame /\ UNCHANGED <<faults, file, blob, stored>>
          /\ set[s].pc \in {"putblob", "putmeta"}
      BY <1>3 DEF SetMakeDir
    <3>4. dirs \subseteq dirs' /\ dirs' \subseteq Dir
      BY <1>1, <2>1, <3>2
    <3>5. set' \in [Setter -> SetCall]
      BY <1>1, <3>1 DEF SetCall
    <3> QED BY <1>1, <3>1, <3>3, <3>4, <3>5 DEF SetCall
  <2>2. CASE /\ set[s].dir \in dirs /\ UNCHANGED dirs
             /\ SetGoto(s, IF set[s].pc = "putblob" THEN "err" ELSE "undo")
    <3>1. set' = [set EXCEPT ![s] =
             [set[s] EXCEPT !.pc = IF set[s].pc = "putblob" THEN "err" ELSE "undo"]]
      BY <1>1, <2>2 DEF SetGoto
    <3> QED BY <1>1, <1>3, <2>2, <3>1 DEF SetMakeDir, SetCall, LostRace, Ended
  <2> QED BY <1>3, <2>1, <2>2 DEF SetMakeDir
<1> QED BY <1>2, <1>3

LEMMA SetDirType ==
    ASSUME TypeInv, NEW s \in Setter, SetMissesDir(s) \/ SetMakeDir(s) PROVE TypeInv'
<1>1. GetType' /\ CleanType' /\ (now \in Time)'
  BY DirStep, SetFrameType
<1>2. \A r \in Setter : SetPlace(r)'
  BY DirStep DEF TypeInv, SetType, SetPlace
<1> QED BY <1>1, <1>2, DirStep DEF TypeInv, StoreType, SetType

LEMMA SetPutMetaType ==
    ASSUME TypeInv, NEW s \in Setter, SetPutMeta(s) PROVE TypeInv'
<1>1. /\ set[s] \in SetCall /\ set[s].keys \in Seq(Key) /\ set[s].open \subseteq Key
      /\ set[s].i \in 1..Len(set[s].keys) /\ set[s].i \in Nat
  BY DEF TypeInv, SetType, SetPlace, SetCall, SetPutMeta
<1>2. SKey(s) \in Key
  BY <1>1 DEF SKey
<1>3. file' \in [File -> Body]
  BY <1>2 DEF TypeInv, StoreType, SetPutMeta, Stage, Body
<1>4. GetType' /\ CleanType' /\ StoreType'
  BY <1>3, SetFrameType DEF TypeInv, StoreType, SetPutMeta
<1> DEFINE pc == IF LastKey(s) THEN "write" ELSE "putmeta"
           i == IF LastKey(s) THEN 1 ELSE set[s].i + 1
           open == set[s].open \cup {SKey(s)}
<1>5. set' = [set EXCEPT ![s] = [set[s] EXCEPT !.pc = pc, !.i = i, !.open = open]]
  <2>1. set \in [Setter -> SetCall]
    BY DEF TypeInv, SetType
  <2> QED BY <2>1 DEF SetPutMeta
<1>6. /\ pc \in {"write", "putmeta"} /\ i \in Nat /\ open \subseteq Key
      /\ pc = "putmeta" => i \in 1..Len(set[s].keys)
      /\ pc = "write" => i = 1
  BY <1>1, <1>2 DEF LastKey
<1> HIDE DEF pc, i, open
<1>7. set' \in [Setter -> SetCall]
  BY <1>1, <1>5, <1>6 DEF TypeInv, SetType, SetCall
<1>8. \A r \in Setter : SetPlace(r)'
  BY <1>1, <1>5, <1>6 DEF TypeInv, SetType, SetPlace, SetCall
<1> QED BY <1>4, <1>7, <1>8 DEF TypeInv, SetType

LEMMA SetCloseMetaType ==
    ASSUME TypeInv, NEW s \in Setter, SetCloseMeta(s) PROVE TypeInv'
<1>1. /\ set[s] \in SetCall /\ set[s].keys \in Seq(Key) /\ set[s].open \subseteq Key
      /\ set[s].i \in 1..Len(set[s].keys) /\ set[s].i + 1 \in Nat
  BY DEF TypeInv, SetType, SetPlace, SetCall, SetCloseMeta
<1>2. SKey(s) \in Key /\ SKey(s) \in File /\ <<s, SKey(s)>> \in File
  BY <1>1 DEF SKey, File, Staged
<1>3. StoreType'
  <2>1. file' \in [File -> Body]
    BY <1>2 DEF TypeInv, StoreType, SetCloseMeta, Publish, Body
  <2>2. stored' \in [Key -> Seq(Setter)]
    <3>1. stored \in [Key -> Seq(Setter)] /\ Append(stored[SKey(s)], s) \in Seq(Setter)
      BY <1>2 DEF TypeInv, StoreType
    <3>2. \/ stored' = [stored EXCEPT ![SKey(s)] = Append(stored[SKey(s)], s)]
          \/ stored' = stored
      BY <1>2, <3>1 DEF SetCloseMeta
    <3> QED BY <3>1, <3>2
  <2> QED BY <2>1, <2>2, SetFrameType DEF TypeInv, StoreType, SetCloseMeta
<1>4. GetType' /\ CleanType'
  BY SetFrameType DEF SetCloseMeta
<1>5. SetType'
  <2>1. CASE set' = [set EXCEPT ![s].pc = IF LastKey(s) THEN "ok" ELSE "writemeta",
                                ![s].i = @ + 1, ![s].open = @ \ {SKey(s)}]
    <3>1. ~LastKey(s) => set[s].i + 1 \in 1..Len(set[s].keys)
      BY <1>1 DEF LastKey
    <3>2. set' = [set EXCEPT ![s] =
             [set[s] EXCEPT !.pc = IF LastKey(s) THEN "ok" ELSE "writemeta",
                            !.i = set[s].i + 1, !.open = set[s].open \ {SKey(s)}]]
      BY <2>1 DEF TypeInv, SetType
    <3>3. set' \in [Setter -> SetCall]
      BY <1>1, <3>2 DEF TypeInv, SetType, SetCall, Ended
    <3>4. \A r \in Setter : SetPlace(r)'
      BY <1>1, <3>1, <3>2 DEF TypeInv, SetType, SetPlace, SetCall
    <3> QED BY <3>3, <3>4 DEF SetType
  <2>2. CASE set' = [set EXCEPT ![s].pc = "drop", ![s].open = @ \ {SKey(s)}]
    <3>1. set' \in [Setter -> SetCall]
      BY <1>1, <2>2 DEF TypeInv, SetType, SetCall, Ended
    <3>2. \A r \in Setter : SetPlace(r)'
      BY <1>1, <2>2 DEF TypeInv, SetType, SetPlace, SetCall
    <3> QED BY <3>1, <3>2 DEF SetType
  <2> QED BY <2>1, <2>2 DEF SetCloseMeta
<1> QED BY <1>3, <1>4, <1>5 DEF TypeInv

\* Putting the blob, renaming it, writing a meta, dropping the blob.
LEMMA SetWorkType ==
    ASSUME TypeInv, NEW s \in Setter,
           SetPutBlob(s) \/ SetCloseBlob(s) \/ SetWriteMeta(s) \/ SetDropBlob(s)
    PROVE  TypeInv'
<1>1. /\ SetType /\ set[s] \in SetCall /\ set[s].keys \in Seq(Key) /\ StoreType
  BY DEF TypeInv, SetType, SetCall
<1>2. GetType' /\ CleanType' /\ (now \in Time)'
  BY SetFrameType DEF SetPutBlob, SetCloseBlob, SetWriteMeta, SetDropBlob
<1>3. set[s].keys # <<>> => 1 \in DOMAIN set[s].keys
  BY <1>1
<1>4. CASE SetPutBlob(s)
  <2>1. set[s].i = 1
    BY <1>1, <1>4 DEF SetType, SetPlace, SetPutBlob
  <2>2. SetType'
    BY <1>1, <1>3, <1>4, <2>1, SetGotoType DEF SetPutBlob
  <2> QED BY <1>1, <1>2, <1>4, <2>2 DEF TypeInv, StoreType, SetPutBlob
<1>5. CASE SetCloseBlob(s)
  <2>1. set[s].i = 1
    BY <1>1, <1>5 DEF SetType, SetPlace, SetCloseBlob
  <2>2. SetType'
    BY <1>1, <1>3, <1>5, <2>1, SetGotoType DEF SetCloseBlob, Ended
  <2> QED BY <1>1, <1>2, <1>5, <2>2 DEF TypeInv, StoreType, SetCloseBlob, BlobFile
<1>6. CASE SetWriteMeta(s)
  <2>1. set[s].i \in DOMAIN set[s].keys
    BY <1>1, <1>6 DEF SetType, SetPlace, SetWriteMeta
  <2>2. SetType'
    BY <1>1, <1>6, <2>1, SetGotoType DEF SetWriteMeta
  <2>3. <<s, SKey(s)>> \in File /\ FreshMeta(s) \in Meta
    BY <1>1, <2>1 DEF SKey, File, Staged, FreshMeta, Meta, SetCall
  <2>4. file' \in [File -> Body]
    BY <1>1, <1>6, <2>3, FileType DEF SetWriteMeta
  <2> QED BY <1>1, <1>2, <1>6, <2>2, <2>4 DEF TypeInv, StoreType, SetWriteMeta
<1>7. CASE SetDropBlob(s)
  <2>1. SetType'
    BY <1>1, <1>7, SetGotoType DEF SetDropBlob, Ended
  <2> QED BY <1>1, <1>2, <1>7, <2>1 DEF TypeInv, StoreType, SetDropBlob, BlobFile
<1> QED BY <1>4, <1>5, <1>6, <1>7

LEMMA SetDropMetaType ==
    ASSUME TypeInv, NEW s \in Setter, SetDropMeta(s) PROVE TypeInv'
<1>1. /\ SetType /\ set[s] \in SetCall /\ set[s].open \subseteq Key /\ set[s].pc \in {"drop", "undo"}
  BY DEF TypeInv, SetType, SetCall, SetDropMeta
<1>2. GetType' /\ CleanType' /\ (now \in Time)'
  BY SetFrameType DEF SetDropMeta
<1>3. CASE \E k \in set[s].open :
             /\ set' = [set EXCEPT ![s].open = @ \ {k}]
             /\ IF file[<<s, k>>] = Absent THEN UNCHANGED file ELSE Publish(<<s, k>>, k)
  <2>1. PICK k \in set[s].open :
             /\ set' = [set EXCEPT ![s].open = @ \ {k}]
             /\ IF file[<<s, k>>] = Absent THEN UNCHANGED file ELSE Publish(<<s, k>>, k)
    BY <1>3
  <2>2. k \in File /\ <<s, k>> \in File
    BY <1>1 DEF File, Staged
  <2>3. file' \in [File -> Body]
    <3>1. CASE UNCHANGED file
      BY <3>1 DEF TypeInv, StoreType
    <3>2. CASE Publish(<<s, k>>, k)
      BY <2>2, <3>2 DEF TypeInv, StoreType, Publish, Body
    <3> QED BY <2>1, <3>1, <3>2
  <2>4. set' \in [Setter -> SetCall]
    BY <1>1, <2>1 DEF SetType, SetCall
  <2>5. \A r \in Setter : SetPlace(r)'
    BY <1>1, <2>1 DEF SetType, SetPlace, SetCall
  <2> QED BY <1>2, <2>3, <2>4, <2>5 DEF TypeInv, SetType, StoreType, SetDropMeta
<1>4. CASE SetGoto(s, "err") /\ UNCHANGED file
  <2>1. SetType'
    BY <1>1, <1>4, SetGotoType DEF Ended
  <2> QED BY <1>2, <1>4, <2>1 DEF TypeInv, StoreType, SetDropMeta
<1> QED BY <1>3, <1>4 DEF SetDropMeta

LEMMA SetStopType ==
    ASSUME TypeInv, NEW s \in Setter, SetFail(s) \/ SetCrash(s) PROVE TypeInv'
<1>1. SetType /\ set[s] \in SetCall /\ set[s].open \subseteq Key
  BY DEF TypeInv, SetType, SetCall
<1>2. GetType' /\ CleanType' /\ StoreType'
  BY SetFrameType, FaultType DEF TypeInv, StoreType, SetFail, SetCrash
<1>3. CASE \E pc \in {"err", "dead", "drop", "dropall", "undo"} : SetGoto(s, pc)
  BY <1>1, <1>2, <1>3, SetGotoType DEF TypeInv, Ended
<1>4. CASE set' = [set EXCEPT ![s].pc = "drop", ![s].open = @ \ {SKey(s)}]
  <2>1. set' \in [Setter -> SetCall]
    BY <1>1, <1>4 DEF SetType, SetCall
  <2>2. \A r \in Setter : SetPlace(r)'
    BY <1>1, <1>4 DEF SetType, SetPlace, SetCall
  <2> QED BY <1>2, <2>1, <2>2 DEF TypeInv, SetType
<1> QED BY <1>3, <1>4 DEF SetFail, SetCrash

-----------------------------------------------------------------------------
(* The actions of clean.                                                   *)

\* Everything before the first deletion, and the choice of a victim.
LEMMA CleanReadType ==
    ASSUME TypeInv, NEW c \in Cleaner,
           \/ CleanStart(c) \/ CleanSeeBlob(c) \/ CleanSizeBlob(c) \/ CleanListMeta(c)
           \/ CleanListDir(c) \/ CleanReadMeta(c) \/ CleanPlan(c) \/ CleanEvict(c)
    PROVE  TypeInv'
<1>1. /\ CleanType /\ StoreType /\ clean[c] \in CleanCall
      /\ clean[c].todo \subseteq File \cup Setter /\ clean[c].seen \subseteq Setter
      /\ clean[c].found \subseteq [key : File, meta : Meta] /\ clean[c].dirs \subseteq Key
  BY DEF TypeInv, CleanType, CleanCall
<1>2. GetType' /\ SetType' /\ StoreType'
  BY CleanFrameType DEF TypeInv, StoreType, CleanStart, CleanSeeBlob, CleanSizeBlob,
     CleanListMeta, CleanListDir, CleanReadMeta, CleanPlan, CleanEvict
<1>3. CASE CleanStart(c)
  <2>1. clean' \in [Cleaner -> CleanCall]
    BY <1>1, <1>3 DEF CleanType, CleanCall, CleanStart, Ended
  <2>2. \A d \in Cleaner : CleanPlace(d)'
    BY <1>1, <1>3 DEF CleanType, CleanPlace, CleanCall, CleanStart
  <2> QED BY <1>2, <2>1, <2>2 DEF TypeInv, CleanType
<1>4. CASE CleanSeeBlob(c)
  <2>1. PICK b \in clean[c].todo :
          \/ clean' = [clean EXCEPT ![c].pc = "size", ![c].victim = b,
                 ![c].todo = @ \ {b},
                 ![c].seen = IF BlobExists(b) THEN @ \cup {b} ELSE @]
          \/ clean' = [clean EXCEPT ![c].todo = @ \ {b}]
    BY <1>4 DEF CleanSeeBlob
  <2>2. b \in Setter
    BY <1>1, <1>4 DEF CleanSeeBlob, CleanType, CleanPlace
  <2>3. clean' \in [Cleaner -> CleanCall]
    BY <1>1, <2>1, <2>2 DEF CleanType, CleanCall
  <2>4. clean[c].todo \subseteq Setter
    BY <1>1, <1>4 DEF CleanSeeBlob, CleanType, CleanPlace
  <2>5. \A d \in Cleaner : CleanPlace(d)'
    BY <1>1, <2>1, <2>4 DEF CleanType, CleanPlace, CleanCall
  <2> QED BY <1>2, <2>3, <2>5 DEF TypeInv, CleanType
<1>5. CASE CleanSizeBlob(c)
  <2>1. CASE CleanGoto(c, "err")
    BY <1>1, <1>2, <2>1, CleanGotoType DEF TypeInv, Ended
  <2>2. CASE clean' = [clean EXCEPT ![c].pc = "blobs", ![c].victim = Absent]
    <3>1. clean[c].todo \subseteq Setter
      BY <1>1, <1>5 DEF CleanSizeBlob, CleanType, CleanPlace
    <3>2. clean' \in [Cleaner -> CleanCall]
      BY <1>1, <2>2 DEF CleanType, CleanCall
    <3>3. \A d \in Cleaner : CleanPlace(d)'
      BY <1>1, <2>2, <3>1 DEF CleanType, CleanPlace, CleanCall
    <3> QED BY <1>2, <3>2, <3>3 DEF TypeInv, CleanType
  <2> QED BY <1>5, <2>1, <2>2 DEF CleanSizeBlob
<1>6. CASE CleanListMeta(c)
  <2>1. clean' \in [Cleaner -> CleanCall]
    BY <1>1, <1>6 DEF CleanType, CleanCall, CleanListMeta, Ended
  <2>2. \A d \in Cleaner : CleanPlace(d)'
    BY <1>1, <1>6 DEF CleanType, CleanPlace, CleanCall, CleanListMeta
  <2> QED BY <1>2, <2>1, <2>2 DEF TypeInv, CleanType
<1>7. CASE CleanListDir(c)
  <2>1. PICK k \in clean[c].dirs :
          clean' = [clean EXCEPT ![c].dirs = @ \ {k},
                       ![c].todo = {f \in Directory(k) : file[f] # Absent}]
    BY <1>7 DEF CleanListDir
  <2>2. {f \in Directory(k) : file[f] # Absent} \subseteq File
    BY <1>1 DEF Directory, File, Staged
  <2>3. clean' \in [Cleaner -> CleanCall]
    BY <1>1, <2>1, <2>2 DEF CleanType, CleanCall
  <2>4. \A d \in Cleaner : CleanPlace(d)'
    BY <1>1, <2>1, <2>2 DEF CleanType, CleanPlace, CleanCall
  <2> QED BY <1>2, <2>3, <2>4 DEF TypeInv, CleanType
<1>8. CASE CleanReadMeta(c)
  <2>1. CASE CleanGoto(c, "err")
    BY <1>1, <1>2, <2>1, CleanGotoType DEF TypeInv, Ended
  <2>2. CASE \E f \in clean[c].todo :
             /\ file[f] \in Meta
             /\ clean' = [clean EXCEPT ![c].todo = @ \ {f},
                   ![c].found = IF file[f].blob \in clean[c].seen
                                THEN @ \cup {[key |-> f, meta |-> file[f]]} ELSE @]
    <3>1. PICK f \in clean[c].todo :
             /\ file[f] \in Meta
             /\ clean' = [clean EXCEPT ![c].todo = @ \ {f},
                   ![c].found = IF file[f].blob \in clean[c].seen
                                THEN @ \cup {[key |-> f, meta |-> file[f]]} ELSE @]
      BY <2>2
    <3>2. f \in File
      BY <1>1, <1>8 DEF CleanReadMeta, CleanType, CleanPlace
    <3>3. [key |-> f, meta |-> file[f]] \in [key : File, meta : Meta]
      BY <3>1, <3>2
    <3>4. clean' \in [Cleaner -> CleanCall]
      BY <1>1, <3>1, <3>3 DEF CleanType, CleanCall
    <3>5. \A d \in Cleaner : CleanPlace(d)'
      BY <1>1, <3>1 DEF CleanType, CleanPlace, CleanCall
    <3> QED BY <1>2, <3>4, <3>5 DEF TypeInv, CleanType
  <2> QED BY <1>8, <2>1, <2>2 DEF CleanReadMeta
<1>9. CASE CleanPlan(c)
  <2>1. clean' \in [Cleaner -> CleanCall]
    BY <1>1, <1>9 DEF CleanType, CleanCall, CleanPlan, StoreType
  <2>2. \A d \in Cleaner : CleanPlace(d)'
    BY <1>1, <1>9 DEF CleanType, CleanPlace, CleanCall, CleanPlan
  <2> QED BY <1>2, <2>1, <2>2 DEF TypeInv, CleanType
<1>10. CASE CleanEvict(c)
  <2>1. CASE CleanGoto(c, "ok")
    BY <1>1, <1>2, <2>1, CleanGotoType DEF TypeInv, Ended
  <2>2. CASE \E b \in Candidates(c) :
           clean' = [clean EXCEPT ![c].pc = "delmeta", ![c].victim = b,
                                  ![c].todo = {e.key : e \in Entries(c, b)}]
    <3>1. PICK b \in Candidates(c) :
           clean' = [clean EXCEPT ![c].pc = "delmeta", ![c].victim = b,
                                  ![c].todo = {e.key : e \in Entries(c, b)}]
      BY <2>2
    <3>2. b \in Setter
      BY <1>1 DEF Candidates, Meta
    <3>3. {e.key : e \in Entries(c, b)} \subseteq File
      BY <1>1 DEF Entries
    <3>4. clean' \in [Cleaner -> CleanCall]
      BY <1>1, <3>1, <3>2, <3>3 DEF CleanType, CleanCall
    <3>5. \A d \in Cleaner : CleanPlace(d)'
      BY <1>1, <3>1 DEF CleanType, CleanPlace, CleanCall
    <3> QED BY <1>2, <3>4, <3>5 DEF TypeInv, CleanType
  <2> QED BY <1>10, <2>1, <2>2 DEF CleanEvict
<1> QED BY <1>3, <1>4, <1>5, <1>6, <1>7, <1>8, <1>9, <1>10

LEMMA CleanWriteType ==
    ASSUME TypeInv, NEW c \in Cleaner, CleanDelMeta(c) \/ CleanDelBlob(c) \/ CleanFail(c)
    PROVE  TypeInv'
<1>1. /\ CleanType /\ StoreType /\ clean[c] \in CleanCall
      /\ clean[c].todo \subseteq File \cup Setter
      /\ clean[c].found \subseteq [key : File, meta : Meta]
  BY DEF TypeInv, CleanType, CleanCall
<1>2. /\ GetType' /\ SetType' /\ (now \in Time)'
      /\ (dirs \subseteq Dir)' /\ (stored \in [Key -> Seq(Setter)])'
  BY CleanFrameType DEF CleanDelMeta, CleanDelBlob, CleanFail
<1>3. StoreType'
  <2>1. (faults \in 0..MaxFaults)'
    BY <1>1, FaultType DEF StoreType, CleanDelMeta, CleanDelBlob, CleanFail
  <2>2. file' \in [File -> Body]
    BY <1>1 DEF StoreType, Body, CleanDelMeta, CleanDelBlob, CleanFail
  <2>3. blob' \in [Setter -> BlobFile]
    BY <1>1 DEF StoreType, BlobFile, CleanDelMeta, CleanDelBlob, CleanFail
  <2> QED BY <1>2, <2>1, <2>2, <2>3 DEF StoreType
<1>4. CASE CleanGoto(c, "err") \/ CleanGoto(c, "dead")
  BY <1>1, <1>2, <1>3, <1>4, CleanGotoType DEF TypeInv, Ended
<1>5. CASE \E f \in clean[c].todo :
             clean' = [clean EXCEPT ![c].todo = @ \ {f},
                   ![c].pc = IF clean[c].todo = {f} THEN "delblob" ELSE "delmeta"]
  <2>1. PICK f \in clean[c].todo :
             clean' = [clean EXCEPT ![c].todo = @ \ {f},
                   ![c].pc = IF clean[c].todo = {f} THEN "delblob" ELSE "delmeta"]
    BY <1>5
  <2>2. clean' \in [Cleaner -> CleanCall]
    BY <1>1, <2>1 DEF CleanType, CleanCall
  <2>3. \A d \in Cleaner : CleanPlace(d)'
    BY <1>1, <2>1 DEF CleanType, CleanPlace, CleanCall
  <2> QED BY <1>2, <1>3, <2>2, <2>3 DEF TypeInv, CleanType
<1>6. CASE clean' = [clean EXCEPT ![c].pc = "evict",
                                  ![c].found = @ \ Entries(c, clean[c].victim)]
  <2>1. clean' \in [Cleaner -> CleanCall]
    BY <1>1, <1>6 DEF CleanType, CleanCall
  <2>2. \A d \in Cleaner : CleanPlace(d)'
    BY <1>1, <1>6 DEF CleanType, CleanPlace, CleanCall
  <2> QED BY <1>2, <1>3, <2>1, <2>2 DEF TypeInv, CleanType
<1> QED BY <1>4, <1>5, <1>6 DEF CleanDelMeta, CleanDelBlob, CleanFail

LEMMA TickType == ASSUME TypeInv, Tick PROVE TypeInv'
<1>1. StoreType'
  BY BoundsAssumption DEF TypeInv, Tick, StoreType, Time
<1> QED BY <1>1
   DEF TypeInv, Tick, GetType, GetPlace, SetType, SetPlace, CleanType, CleanPlace

LEMMA StutterType == ASSUME TypeInv, UNCHANGED vars PROVE TypeInv'
  BY DEF vars, TypeInv, StoreType, GetType, GetPlace, SetType, SetPlace, CleanType,
         CleanPlace

LEMMA NextType == ASSUME TypeInv, [Next]_vars PROVE TypeInv'
<1>1. CASE \E g \in Getter : GetStart(g) \/ GetStep(g) \/ GetFail(g) \/ GetCrash(g)
  BY <1>1, GetStartType, GetReadMetaType, GetWorkType, GetStopType DEF GetStep
<1>2. CASE \E s \in Setter : SetStart(s) \/ SetStep(s) \/ SetFail(s) \/ SetCrash(s)
  BY <1>2, SetStartType, SetDirType, SetPutMetaType, SetCloseMetaType, SetWorkType,
     SetDropMetaType, SetStopType DEF SetStep
<1>3. CASE \E c \in Cleaner : CleanStart(c) \/ CleanStep(c) \/ CleanFail(c)
  BY <1>3, CleanReadType, CleanWriteType DEF CleanStep
<1> QED BY <1>1, <1>2, <1>3, TickType, StutterType DEF Next

\* Every variable keeps its type, and every record it names exists.
THEOREM TypeCorrect == Spec => []TypeOK
<1>1. TypeInv => TypeOK
  BY DEF TypeInv, StoreType, GetType, SetType, CleanType, TypeOK
<1> QED BY InitType, NextType, <1>1, PTL DEF Spec

-----------------------------------------------------------------------------
(* The flow of metas: only a set whose blob is complete writes a meta that *)
(* names it, every rename of that meta goes to the key it was staged for,  *)
(* and a get passes a meta on only under the key it read it from.          *)

Published(k, s) == \E i \in DOMAIN stored[k] : stored[k][i] = s
\* The complete blob of s was renamed (a clean may have deleted it since).
Sealed(s) == blob[s] \in {"complete", "deleted"}

KeyFlow  == \A k \in Key : file[k] \in Meta => Published(k, file[k].blob)
BlobFlow == \A k \in Key, s \in Setter : Published(k, s) => Sealed(s)
GetFlow(g) ==
    /\ get[g].pc \in {"put", "write", "close", "open", "hit"} =>
          Published(GKey(g), get[g].meta.blob)
    /\ get[g].pc \in {"new", "read", "put", "open"} => file[g] = Absent
    /\ file[g] \in Meta =>
          get[g].i \in DOMAIN get[g].keys /\ Published(GKey(g), file[g].blob)
    /\ get[g].pc = "hit" => get[g].body = "complete"
\* Until it closes a meta, what a set has open holds none: dropping the
\* writers publishes no record.
SetFlow(s) ==
    /\ set[s].pc \in {"new", "putblob", "putmeta", "write", "dropall", "undo"} =>
          blob[s] = "absent"
    /\ set[s].pc \in {"writemeta", "closemeta"} => Sealed(s)
    /\ \A k \in Key : file[<<s, k>>] \in Meta => file[<<s, k>>].blob = s /\ Sealed(s)
    /\ set[s].pc \in {"putblob", "putmeta", "write", "writemeta", "dropall", "drop",
                      "undo"} =>
          \A k \in set[s].open : file[<<s, k>>] \notin Meta
    /\ set[s].pc = "closemeta" =>
          \A k \in set[s].open \ {SKey(s)} : file[<<s, k>>] \notin Meta
FlowInv == /\ KeyFlow /\ BlobFlow
           /\ \A g \in Getter : GetFlow(g)
           /\ \A s \in Setter : SetFlow(s)

LEMMA InitFlow == Init => FlowInv
  BY NameAssumption DEF Init, FlowInv, KeyFlow, BlobFlow, GetFlow, SetFlow, Published,
     Sealed, File, Staged

\* The three kinds of file names are told apart.
LEMMA Names ==
    /\ \A k \in Key : k \in File
    /\ \A g \in Getter : g \in File /\ g \notin Key
    /\ \A s \in Setter, k \in Key : <<s, k>> \in File /\ <<s, k>> \notin Key
    /\ \A g \in Getter, s \in Setter, k \in Key : g # <<s, k>>
  BY NameAssumption DEF File, Staged

\* What is published stays published, what is sealed stays sealed.
Keeps == /\ \A k \in Key, s \in Setter : Published(k, s) => Published(k, s)'
         /\ \A s \in Setter : Sealed(s) => Sealed(s)'

\* A get is not disturbed by steps that leave it and its file alone.
LEMMA OtherGet ==
    ASSUME TypeInv, Keeps, NEW g \in Getter, GetFlow(g),
           get'[g] = get[g], file'[g] \in {file[g], Absent}
    PROVE  GetFlow(g)'
<1>1. /\ get[g] \in GetCall /\ get[g].keys \in Seq(Key)
      /\ get[g].i \in DOMAIN get[g].keys => GKey(g) \in Key
  BY DEF TypeInv, GetType, GetCall, GKey
<1>2. GKey(g)' = GKey(g)
  BY DEF GKey
<1>3. get[g].meta \in Meta => get[g].meta.blob \in Setter
  BY DEF Meta
<1>4. file[g] \in Meta => file[g].blob \in Setter
  BY DEF Meta
<1>5. (get[g].pc \in {"put", "write", "close", "open", "hit"} =>
          Published(GKey(g), get[g].meta.blob))'
  BY <1>1, <1>2, <1>3 DEF GetFlow, Keeps, TypeInv, GetType, GetPlace
<1>6. (file[g] \in Meta =>
          get[g].i \in DOMAIN get[g].keys /\ Published(GKey(g), file[g].blob))'
  BY <1>1, <1>2, <1>4, NameAssumption DEF GetFlow, Keeps
<1> QED BY <1>5, <1>6 DEF GetFlow

LEMMA OtherSet ==
    ASSUME TypeInv, NEW s \in Setter, SetFlow(s), set'[s] = set[s],
           blob'[s] = blob[s] \/ (blob[s] # "absent" /\ blob'[s] = "deleted"),
           \A k \in Key : file'[<<s, k>>] \in {file[<<s, k>>], Absent}
    PROVE  SetFlow(s)'
<1>1. set[s].open \subseteq Key
  BY DEF TypeInv, SetType, SetCall
<1> QED BY <1>1, NameAssumption DEF SetFlow, Sealed, SKey

LEMMA GetFrameFlow ==
    ASSUME TypeInv, FlowInv, NEW g \in Getter, GetFrame,
           \A h \in Getter \ {g} : get'[h] = get[h] /\ file'[h] = file[h],
           \A s \in Setter, k \in Key : file'[<<s, k>>] = file[<<s, k>>],
           KeyFlow', GetFlow(g)'
    PROVE  FlowInv'
<1>1. Keeps /\ BlobFlow'
  BY DEF FlowInv, BlobFlow, GetFrame, Keeps, Published, Sealed
<1>2. \A h \in Getter : GetFlow(h)'
  BY <1>1, OtherGet DEF FlowInv
<1>3. \A s \in Setter : SetFlow(s)'
  BY OtherSet DEF FlowInv, GetFrame
<1> QED BY <1>1, <1>2, <1>3 DEF FlowInv

\* A get that leaves all files alone and goes where nothing is promised of
\* it, or keeps its key and meta.
LEMMA GetReadFlow ==
    ASSUME TypeInv, FlowInv, NEW g \in Getter,
           GetStart(g) \/ GetReadMeta(g) \/ GetOpenBlob(g)
    PROVE  FlowInv'
<1>1. /\ GetFrame /\ file' = file /\ GetFlow(g) /\ KeyFlow /\ get \in [Getter -> GetCall]
      /\ get[g] \in GetCall /\ get[g].pc \in {"new", "read", "open"}
  BY DEF FlowInv, TypeInv, GetType, GetStart, GetReadMeta, GetOpenBlob, GetFrame
<1>2. \A h \in Getter \ {g} : get'[h] = get[h]
  BY <1>1 DEF GetStart, GetReadMeta, GetOpenBlob, GetGoto, TryNextKey
<1>3. KeyFlow'
  BY <1>1 DEF KeyFlow, Published, GetFrame
<1>4. file[g] = Absent /\ Absent \notin Meta
  BY <1>1, NameAssumption DEF GetFlow
<1>5. GetFlow(g)'
  <2>1. CASE get'[g].pc \in {"read", "none", "err"}
    BY <1>1, <1>4, <2>1 DEF GetFlow
  <2>2. CASE /\ get[g].i <= Len(get[g].keys) /\ file[GKey(g)] \in Meta
             /\ get' = [get EXCEPT ![g].pc = "put",
                           ![g].meta = [file[GKey(g)] EXCEPT !.access = now]]
    <3>1. GKey(g) \in Key /\ GKey(g)' = GKey(g)
      BY <1>1, <2>2, GetKeyType DEF TypeInv, GKey, GetCall
    <3>2. get'[g].pc = "put" /\ get'[g].meta.blob = file[GKey(g)].blob
      BY <1>1, <2>2 DEF GetCall, Meta
    <3>3. Published(GKey(g), file[GKey(g)].blob)
      BY <1>1, <2>2, <3>1 DEF KeyFlow
    <3> QED BY <1>1, <1>4, <3>1, <3>2, <3>3 DEF GetFlow, Published, GetFrame
  <2>3. CASE /\ get[g].pc = "open" /\ BlobExists(get[g].meta.blob)
             /\ get' = [get EXCEPT ![g].pc = "hit", ![g].body = blob[get[g].meta.blob]]
    <3>1. /\ get[g].i \in DOMAIN get[g].keys /\ get[g].meta \in Meta
          /\ Published(GKey(g), get[g].meta.blob)
      BY <1>1, <2>3 DEF GetFlow, TypeInv, GetType, GetPlace
    <3>2. GKey(g) \in Key /\ get[g].meta.blob \in Setter
      BY <1>1, <3>1 DEF GKey, GetCall, Meta
    <3>3. blob[get[g].meta.blob] = "complete"
      BY <2>3, <3>1, <3>2 DEF FlowInv, BlobFlow, Sealed, BlobExists
    <3>4. /\ GKey(g)' = GKey(g) /\ get'[g].pc = "hit" /\ get'[g].meta = get[g].meta
          /\ get'[g].body = "complete"
      BY <1>1, <2>3, <3>3 DEF GKey, GetCall
    <3> QED BY <1>1, <1>4, <3>1, <3>4 DEF GetFlow, Published, GetFrame
  <2>4. \/ get'[g].pc \in {"read", "none", "err"}
        \/ /\ get[g].i <= Len(get[g].keys) /\ file[GKey(g)] \in Meta
           /\ get' = [get EXCEPT ![g].pc = "put",
                         ![g].meta = [file[GKey(g)] EXCEPT !.access = now]]
        \/ /\ get[g].pc = "open" /\ BlobExists(get[g].meta.blob)
           /\ get' = [get EXCEPT ![g].pc = "hit", ![g].body = blob[get[g].meta.blob]]
    <3>1. CASE \E pc \in {"none", "err"} : GetGoto(g, pc)
      BY <1>1, <3>1 DEF GetGoto, GetCall
    <3>2. CASE TryNextKey(g)
      BY <1>1, <3>2 DEF TryNextKey, GetCall
    <3>3. CASE GetStart(g)
      <4>1. PICK ks \in Lookups :
               get' = [get EXCEPT ![g].pc = "read", ![g].keys = ks,
                                  ![g].mark = [k \in Key |-> Len(stored[k])]]
        BY <3>3 DEF GetStart
      <4> QED BY <1>1, <4>1 DEF GetCall
    <3>4. CASE GetReadMeta(g)
      <4>1. CASE GetGoto(g, "none") \/ GetGoto(g, "err")
        BY <3>1, <4>1
      <4> QED BY <3>2, <3>4, <4>1 DEF GetReadMeta
    <3>5. CASE GetOpenBlob(g)
      BY <3>2, <3>5 DEF GetOpenBlob
    <3> QED BY <3>3, <3>4, <3>5
  <2> QED BY <2>1, <2>2, <2>3, <2>4
<1> QED BY <1>1, <1>2, <1>3, <1>5, GetFrameFlow

\* Staging, writing and renaming the meta, and failing or dying at any time.
LEMMA GetWriteFlow ==
    ASSUME TypeInv, FlowInv, NEW g \in Getter,
           GetPut(g) \/ GetWrite(g) \/ GetClose(g) \/ GetFail(g) \/ GetCrash(g)
    PROVE  FlowInv'
<1>1. /\ GetFrame /\ GetFlow(g) /\ KeyFlow /\ get[g] \in GetCall /\ GetPlace(g)
      /\ get \in [Getter -> GetCall] /\ file \in [File -> Body]
  BY DEF FlowInv, TypeInv, StoreType, GetType, GetPut, GetWrite, GetClose, GetFail,
         GetCrash
<1>2. PICK pc \in {"write", "close", "open", "err", "dead"} : GetGoto(g, pc)
  BY DEF GetPut, GetWrite, GetClose, GetFail, GetCrash
<1>3. /\ \A h \in Getter \ {g} : get'[h] = get[h]
      /\ get'[g].pc = pc /\ get'[g].i = get[g].i /\ get'[g].keys = get[g].keys
      /\ get'[g].meta = get[g].meta /\ GKey(g)' = GKey(g)
  BY <1>1, <1>2 DEF GetGoto, GetCall, GKey
<1>4. \/ /\ UNCHANGED file
         /\ pc \in {"err", "dead"}
      \/ /\ get[g].pc = "put" /\ pc = "write" /\ Stage(g, GKey(g))
      \/ /\ get[g].pc = "write" /\ pc = "close" /\ WriteTo(g, get[g].meta)
      \/ /\ get[g].pc \in {"close", "write"} /\ pc \in {"open", "err"} /\ Publish(g, GKey(g))
  BY <1>1, <1>2 DEF GetPut, GetWrite, GetClose, GetFail, GetCrash, GetGoto, GetCall
<1>5. CASE UNCHANGED file /\ pc \in {"err", "dead"}
  <2>1. GetFlow(g)'
    BY <1>1, <1>3, <1>5 DEF GetFlow, Published, GetFrame
  <2>2. KeyFlow'
    BY <1>1, <1>5 DEF KeyFlow, Published, GetFrame
  <2> QED BY <1>1, <1>3, <1>5, <2>1, <2>2, GetFrameFlow
<1>6. CASE get[g].pc \in {"put", "write", "close"}
  <2>1. get[g].i \in DOMAIN get[g].keys /\ get[g].meta \in Meta /\ GKey(g) \in Key
    BY <1>1, <1>6 DEF GetPlace, GetCall, GKey
  <2>2. Published(GKey(g), get[g].meta.blob)
    BY <1>1, <1>6 DEF GetFlow
  <2>3. Short \notin Meta /\ Absent \notin Meta
    BY NameAssumption
  <2>4. /\ \A h \in Getter \ {g} : file'[h] = file[h]
        /\ \A s \in Setter, k \in Key : file'[<<s, k>>] = file[<<s, k>>]
    BY <1>1, <1>4, <2>1, Names DEF Stage, WriteTo, Publish
  <2>5. KeyFlow'
    <3>1. \A k \in Key : file'[k] = file[k] \/ (k = GKey(g) /\ file'[k] = file[g])
      BY <1>1, <1>4, <2>1, Names DEF Stage, WriteTo, Publish
    <3> QED BY <1>1, <3>1 DEF KeyFlow, GetFlow, Published, GetFrame
  <2>6. GetFlow(g)'
    <3>1. CASE UNCHANGED file /\ pc \in {"err", "dead"}
      BY <1>1, <1>3, <3>1 DEF GetFlow, Published, GetFrame
    <3>2. CASE pc = "write" /\ Stage(g, GKey(g))
      <4>1. file'[g] = Short
        BY <1>1, <3>2, Names DEF Stage
      <4> QED BY <1>1, <1>3, <2>1, <2>2, <2>3, <3>2, <4>1 DEF GetFlow, Published, GetFrame
    <3>3. CASE pc = "close" /\ WriteTo(g, get[g].meta)
      <4>1. file'[g] \in {Absent, get[g].meta}
        BY <1>1, <3>3, Names DEF WriteTo
      <4> QED BY <1>1, <1>3, <2>1, <2>2, <2>3, <3>3, <4>1 DEF GetFlow, Published, GetFrame
    <3>4. CASE pc \in {"open", "err"} /\ Publish(g, GKey(g))
      <4>1. file'[g] = Absent
        BY <1>1, <2>1, <3>4, Names DEF Publish
      <4> QED BY <1>1, <1>3, <2>1, <2>2, <2>3, <3>4, <4>1 DEF GetFlow, Published, GetFrame
    <3> QED BY <1>4, <3>1, <3>2, <3>3, <3>4
  <2> QED BY <1>1, <1>3, <2>4, <2>5, <2>6, GetFrameFlow
<1> QED BY <1>4, <1>5, <1>6

LEMMA SetFrameFlow ==
    ASSUME TypeInv, FlowInv, NEW s \in Setter, SetFrame, Keeps,
           \A r \in Setter \ {s} : set'[r] = set[r] /\ blob'[r] = blob[r],
           \A r \in Setter \ {s}, k \in Key : file'[<<r, k>>] = file[<<r, k>>],
           \A g \in Getter : file'[g] = file[g],
           KeyFlow', BlobFlow', SetFlow(s)'
    PROVE  FlowInv'
<1>1. \A g \in Getter : GetFlow(g)'
  BY OtherGet DEF FlowInv, SetFrame
<1>2. \A r \in Setter : SetFlow(r)'
  BY OtherSet DEF FlowInv
<1> QED BY <1>1, <1>2 DEF FlowInv

\* Steps of a set that touch no file below /meta and no blob.
LEMMA SetQuietFlow ==
    ASSUME TypeInv, FlowInv, NEW s \in Setter,
           \/ SetStart(s) \/ SetMissesDir(s) \/ SetMakeDir(s) \/ SetPutBlob(s)
           \/ SetFail(s) \/ SetCrash(s)
    PROVE  FlowInv'
<1>1. /\ SetFrame /\ UNCHANGED <<file, blob, stored>> /\ SetFlow(s)
      /\ set \in [Setter -> SetCall] /\ set[s] \in SetCall
  BY DirStep DEF FlowInv, TypeInv, SetType, SetStart, SetPutBlob, SetFail, SetCrash
<1>2. \A r \in Setter \ {s} : set'[r] = set[r]
  BY <1>1, DirStep DEF SetStart, SetPutBlob, SetFail, SetCrash, SetGoto
<1>3. Keeps /\ KeyFlow' /\ BlobFlow'
  BY <1>1 DEF Keeps, FlowInv, KeyFlow, BlobFlow, Published, Sealed
<1>4. SetFlow(s)'
  <2>1. CASE SetStart(s) \/ SetPutBlob(s)
    <3>1. /\ set[s].pc \in {"new", "putblob"} /\ set'[s].pc \in {"putblob", "putmeta", "write"}
          /\ set'[s].open = set[s].open
      <4>1. CASE SetStart(s)
        <5>1. PICK ks \in Stores :
                 set' = [set EXCEPT ![s].pc = "putblob", ![s].keys = ks, ![s].at = now]
          BY <4>1 DEF SetStart
        <5> QED BY <1>1, <4>1, <5>1 DEF SetStart, SetCall
      <4>2. CASE SetPutBlob(s)
        <5>1. PICK pc \in {"write", "putmeta"} : SetGoto(s, pc)
          BY <4>2 DEF SetPutBlob
        <5> QED BY <1>1, <4>2, <5>1 DEF SetPutBlob, SetGoto, SetCall
      <4> QED BY <2>1, <4>1, <4>2
    <3>2. set[s].pc = "new" => \A k \in set[s].open : file[<<s, k>>] \notin Meta
      <4>1. set[s].open \subseteq Key
        BY <1>1 DEF SetCall
      <4> QED BY <1>1, <4>1 DEF SetFlow, Sealed
    <3> QED BY <1>1, <3>1, <3>2 DEF SetFlow, Sealed
  <2>2. CASE \E pc \in {"err", "dead"} : SetGoto(s, pc)
    BY <1>1, <2>2 DEF SetFlow, SetGoto, SetCall, Sealed
  <2>3. CASE \/ set[s].pc = "write" /\ SetGoto(s, "dropall")
             \/ set[s].pc = "putmeta" /\ SetGoto(s, "undo")
    <3>1. /\ set[s].pc \in {"write", "putmeta"} /\ set'[s].pc \in {"dropall", "undo"}
          /\ set'[s].open = set[s].open
      BY <1>1, <2>3 DEF SetGoto, SetCall
    <3> QED BY <1>1, <3>1 DEF SetFlow, Sealed
  <2>4. CASE set[s].pc \in {"write", "writemeta"} /\ SetGoto(s, "drop")
    BY <1>1, <2>4 DEF SetFlow, SetGoto, SetCall, Sealed
  <2>5. CASE /\ set[s].pc = "closemeta"
             /\ set' = [set EXCEPT ![s].pc = "drop", ![s].open = @ \ {SKey(s)}]
    BY <1>1, <2>5 DEF SetFlow, SetCall, Sealed
  <2>6. CASE SetMissesDir(s) \/ SetMakeDir(s)
    BY <1>1, <2>6, DirStep DEF SetFlow, Sealed
  <2> QED BY <2>1, <2>2, <2>3, <2>4, <2>5, <2>6 DEF SetFail, SetCrash
<1> QED BY <1>1, <1>2, <1>3, <1>4, SetFrameFlow

\* Renaming the blob: whole, or as far as it got when it is given up.
LEMMA SetBlobFlow ==
    ASSUME TypeInv, FlowInv, NEW s \in Setter, SetCloseBlob(s) \/ SetDropBlob(s)
    PROVE  FlowInv'
<1>1. /\ SetFrame /\ UNCHANGED <<file, stored>> /\ SetFlow(s)
      /\ set \in [Setter -> SetCall] /\ set[s] \in SetCall /\ blob \in [Setter -> BlobFile]
      /\ set[s].open \subseteq Key
  BY DEF FlowInv, TypeInv, StoreType, SetType, SetCall, SetCloseBlob, SetDropBlob
<1>2. blob[s] = "absent" /\ ~Sealed(s)
  BY <1>1 DEF SetFlow, SetCloseBlob, SetDropBlob, Sealed
<1>3. PICK pc \in {"ok", "writemeta", "drop", "err"} :
         SetGoto(s, pc) /\ (pc \in {"ok", "writemeta"} => blob' = [blob EXCEPT ![s] = "complete"])
  BY DEF SetCloseBlob, SetDropBlob
<1>4. /\ \A r \in Setter \ {s} : set'[r] = set[r] /\ blob'[r] = blob[r]
      /\ set'[s].pc = pc /\ set'[s].open = set[s].open
      /\ pc \in {"ok", "writemeta"} => blob'[s] = "complete"
  BY <1>1, <1>3 DEF SetGoto, SetCall, SetCloseBlob, SetDropBlob
<1>5. Keeps /\ KeyFlow' /\ BlobFlow'
  BY <1>1, <1>2, <1>4 DEF Keeps, FlowInv, KeyFlow, BlobFlow, Published, Sealed
<1>6. SetFlow(s)'
  <2>1. \A k \in Key : file[<<s, k>>] \notin Meta
    BY <1>1, <1>2 DEF SetFlow
  <2> QED BY <1>1, <1>4, <2>1 DEF SetFlow, Sealed
<1> QED BY <1>1, <1>4, <1>5, <1>6, SetFrameFlow

\* Staging and writing a meta: only the set's own staged file changes.
LEMMA SetStageFlow ==
    ASSUME TypeInv, FlowInv, NEW s \in Setter, SetPutMeta(s) \/ SetWriteMeta(s)
    PROVE  FlowInv'
<1>1. /\ SetFrame /\ UNCHANGED <<blob, stored>> /\ SetFlow(s) /\ SetPlace(s)
      /\ set \in [Setter -> SetCall] /\ set[s] \in SetCall /\ file \in [File -> Body]
      /\ set[s].open \subseteq Key /\ set[s].pc \in {"putmeta", "writemeta"}
  BY DEF FlowInv, TypeInv, StoreType, SetType, SetCall, SetPutMeta, SetWriteMeta
<1>2. SKey(s) \in Key
  BY <1>1 DEF SetPlace, SKey, SetCall
<1>3. \A r \in Setter \ {s} : set'[r] = set[r]
  BY <1>1 DEF SetPutMeta, SetWriteMeta, SetGoto
<1>4. \A f \in File : f # <<s, SKey(s)>> => file'[f] = file[f]
  BY <1>1 DEF SetPutMeta, SetWriteMeta, Stage, WriteTo
<1>5. /\ \A k \in Key : file'[k] = file[k]
      /\ \A g \in Getter : file'[g] = file[g]
      /\ \A r \in Setter, k \in Key :
            r # s \/ k # SKey(s) => file'[<<r, k>>] = file[<<r, k>>]
  BY <1>2, <1>4, Names
<1>6. Keeps /\ KeyFlow' /\ BlobFlow'
  BY <1>1, <1>5 DEF Keeps, FlowInv, KeyFlow, BlobFlow, Published, Sealed
<1>7. CASE SetPutMeta(s)
  <2>1. file'[<<s, SKey(s)>>] = Short /\ Short \notin Meta
    BY <1>1, <1>2, <1>7, Names, NameAssumption DEF SetPutMeta, Stage
  <2>2. set'[s].pc \in {"putmeta", "write"} /\ set'[s].open = set[s].open \cup {SKey(s)}
    BY <1>1, <1>7 DEF SetPutMeta, SetCall
  <2>3. \A k \in Key : file[<<s, k>>] \notin Meta
    BY <1>1, <1>7 DEF SetFlow, Sealed, SetPutMeta
  <2>4. \A k \in Key : file'[<<s, k>>] \notin Meta
    BY <1>5, <2>1, <2>3
  <2>5. SetFlow(s)'
    BY <1>1, <1>2, <1>7, <2>2, <2>4 DEF SetFlow, SetPutMeta
  <2> QED BY <1>1, <1>3, <1>5, <1>6, <2>5, SetFrameFlow
<1>8. CASE SetWriteMeta(s)
  <2>1. file'[<<s, SKey(s)>>] \in {Absent, FreshMeta(s)} /\ Absent \notin Meta
    BY <1>1, <1>2, <1>8, Names, NameAssumption DEF SetWriteMeta, WriteTo
  <2>2. /\ set'[s].pc = "closemeta" /\ set'[s].open = set[s].open
        /\ SKey(s)' = SKey(s)
    BY <1>1, <1>8 DEF SetWriteMeta, SetGoto, SetCall, SKey
  <2>3. Sealed(s) /\ Sealed(s)' /\ FreshMeta(s).blob = s
    BY <1>1, <1>8 DEF SetFlow, Sealed, FreshMeta, SetWriteMeta
  <2>4. \A k \in Key : file'[<<s, k>>] \in Meta => file'[<<s, k>>].blob = s
    BY <1>1, <1>5, <2>1, <2>3 DEF SetFlow
  <2>5. \A k \in set[s].open \ {SKey(s)} : file'[<<s, k>>] \notin Meta
    BY <1>1, <1>5, <1>8 DEF SetFlow, SetWriteMeta
  <2>6. SetFlow(s)'
    BY <2>2, <2>3, <2>4, <2>5 DEF SetFlow
  <2> QED BY <1>1, <1>3, <1>5, <1>6, <2>6, SetFrameFlow
<1> QED BY <1>7, <1>8

\* Renaming a meta: the set is published under the key from here on.
LEMMA SetCloseMetaFlow ==
    ASSUME TypeInv, FlowInv, NEW s \in Setter, SetCloseMeta(s)
    PROVE  FlowInv'
<1>1. /\ SetFrame /\ UNCHANGED blob /\ SetFlow(s) /\ SetPlace(s) /\ KeyFlow /\ BlobFlow
      /\ set \in [Setter -> SetCall] /\ set[s] \in SetCall /\ file \in [File -> Body]
      /\ set[s].open \subseteq Key /\ set[s].pc = "closemeta" /\ Sealed(s)
      /\ stored \in [Key -> Seq(Setter)]
  BY DEF FlowInv, TypeInv, StoreType, SetType, SetCall, SetCloseMeta, SetFlow
<1>2. PICK l \in Key : l = SKey(s)
  BY <1>1 DEF SetPlace, SKey, SetCall
<1>3. \A r \in Setter \ {s} : set'[r] = set[r]
  BY <1>1 DEF SetCloseMeta
<1>4. /\ set'[s].open = set[s].open \ {l}
      /\ set'[s].pc \in {"ok", "writemeta", "drop"}
  BY <1>1, <1>2 DEF SetCloseMeta, SetCall
<1>5. \A k \in set[s].open \ {l} : file[<<s, k>>] \notin Meta
  BY <1>1, <1>2 DEF SetFlow
<1>6. CASE UNCHANGED <<file, stored>>
  <2>1. Keeps /\ KeyFlow' /\ BlobFlow'
    BY <1>1, <1>6 DEF Keeps, KeyFlow, BlobFlow, Published, Sealed
  <2>2. SetFlow(s)'
    BY <1>1, <1>4, <1>5, <1>6 DEF SetFlow, Sealed
  <2> QED BY <1>1, <1>3, <1>6, <2>1, <2>2, SetFrameFlow
<1>7. CASE /\ Publish(<<s, l>>, l)
           /\ stored' = [stored EXCEPT ![l] = Append(@, s)]
  <2>1. /\ file'[l] = file[<<s, l>>]
        /\ file'[<<s, l>>] = Absent /\ Absent \notin Meta
        /\ \A f \in File \ {l, <<s, l>>} : file'[f] = file[f]
    BY <1>1, <1>2, <1>7, Names, NameAssumption DEF Publish
  <2>2. /\ \A k \in Key \ {l} : file'[k] = file[k]
        /\ \A g \in Getter : file'[g] = file[g]
        /\ \A r \in Setter, k \in Key :
              r # s \/ k # l => file'[<<r, k>>] = file[<<r, k>>]
    BY <1>2, <2>1, Names
  <2>3. /\ \A k \in Key, r \in Setter : Published(k, r) => Published(k, r)'
        /\ \A k \in Key, r \in Setter :
              Published(k, r)' => Published(k, r) \/ r = s
        /\ Published(l, s)'
    <3>1. \A k \in Key \ {l} : stored'[k] = stored[k]
      BY <1>1, <1>7
    <3>2. stored'[l] = Append(stored[l], s) /\ stored[l] \in Seq(Setter)
      BY <1>1, <1>2, <1>7
    <3>3. /\ DOMAIN stored'[l] = 1..(Len(stored[l]) + 1)
          /\ \A i \in DOMAIN stored[l] : stored'[l][i] = stored[l][i]
          /\ stored'[l][Len(stored[l]) + 1] = s
          /\ DOMAIN stored[l] = 1..Len(stored[l])
          /\ Len(stored[l]) \in Nat
      BY <3>2
    <3>4. ASSUME NEW r \in Setter
          PROVE  /\ Published(l, r) => Published(l, r)'
                 /\ Published(l, r)' => Published(l, r) \/ r = s
      BY <3>3 DEF Published
    <3>5. Published(l, s)'
      BY <3>3 DEF Published
    <3> QED BY <1>2, <3>1, <3>4, <3>5 DEF Published
  <2>4. Keeps
    BY <1>1, <2>3 DEF Keeps, Sealed
  <2>5. KeyFlow'
    <3>1. ASSUME NEW k \in Key, file'[k] \in Meta
          PROVE  \E i \in DOMAIN stored'[k] : stored'[k][i] = file'[k].blob
      <4>1. CASE k = l
        BY <1>1, <2>1, <2>3, <3>1, <4>1 DEF SetFlow, Published
      <4>2. CASE k # l
        <5>1. file'[k] = file[k] /\ stored'[k] = stored[k]
          BY <1>1, <1>7, <2>2, <4>2
        <5>2. Published(k, file[k].blob)
          BY <1>1, <3>1, <5>1 DEF KeyFlow
        <5> QED BY <5>1, <5>2 DEF Published
      <4> QED BY <4>1, <4>2
    <3> QED BY <3>1 DEF KeyFlow, Published
  <2>6. BlobFlow'
    BY <1>1, <2>3 DEF BlobFlow, Sealed
  <2>7. SetFlow(s)'
    BY <1>1, <1>4, <1>5, <2>1, <2>2 DEF SetFlow, Sealed
  <2> QED BY <1>1, <1>3, <2>2, <2>4, <2>5, <2>6, <2>7, SetFrameFlow
<1> QED BY <1>2, <1>6, <1>7 DEF SetCloseMeta

\* Renaming a meta that was given up, to which nothing was written.
LEMMA SetDropMetaFlow ==
    ASSUME TypeInv, FlowInv, NEW s \in Setter, SetDropMeta(s)
    PROVE  FlowInv'
<1>1. /\ SetFrame /\ UNCHANGED <<blob, stored>> /\ SetFlow(s) /\ KeyFlow
      /\ set \in [Setter -> SetCall] /\ set[s] \in SetCall /\ file \in [File -> Body]
      /\ set[s].open \subseteq Key /\ set[s].pc \in {"drop", "undo"}
      /\ Absent \notin Meta
  BY NameAssumption DEF FlowInv, TypeInv, StoreType, SetType, SetCall, SetDropMeta
<1>2. \A r \in Setter \ {s} : set'[r] = set[r]
  BY <1>1 DEF SetDropMeta, SetGoto
<1>3. \A k \in set[s].open : file[<<s, k>>] \notin Meta
  BY <1>1 DEF SetFlow
<1>4. Keeps /\ BlobFlow'
  BY <1>1 DEF Keeps, FlowInv, BlobFlow, Published, Sealed
<1>5. set'[s].pc \in {set[s].pc, "err"} /\ set'[s].open \subseteq set[s].open
  <2>1. CASE SetGoto(s, "err")
    BY <1>1, <2>1 DEF SetGoto, SetCall
  <2>2. CASE \E k \in set[s].open : set' = [set EXCEPT ![s].open = @ \ {k}]
    <3>1. PICK k \in set[s].open : set' = [set EXCEPT ![s].open = @ \ {k}]
      BY <2>2
    <3> QED BY <1>1, <3>1 DEF SetCall
  <2> QED BY <2>1, <2>2 DEF SetDropMeta
<1>6. CASE UNCHANGED file
  <2>1. KeyFlow'
    BY <1>1, <1>6 DEF KeyFlow, Published
  <2>2. SetFlow(s)'
    BY <1>1, <1>3, <1>5, <1>6 DEF SetFlow, Sealed
  <2> QED BY <1>1, <1>2, <1>4, <1>6, <2>1, <2>2, SetFrameFlow
<1>7. CASE \E k \in set[s].open : Publish(<<s, k>>, k)
  <2>1. PICK k \in set[s].open : Publish(<<s, k>>, k)
    BY <1>7
  <2>2. /\ k \in Key /\ file'[k] = file[<<s, k>>] /\ file'[k] \notin Meta
        /\ file'[<<s, k>>] = Absent
        /\ \A f \in File \ {k, <<s, k>>} : file'[f] = file[f]
    BY <1>1, <1>3, <2>1, Names DEF Publish
  <2>3. /\ \A l \in Key \ {k} : file'[l] = file[l]
        /\ \A g \in Getter : file'[g] = file[g]
        /\ \A r \in Setter, l \in Key :
              r # s \/ l # k => file'[<<r, l>>] = file[<<r, l>>]
    BY <2>2, Names
  <2>4. KeyFlow'
    BY <1>1, <2>2, <2>3 DEF KeyFlow, Published
  <2>5. SetFlow(s)'
    BY <1>1, <1>3, <1>5, <2>2, <2>3 DEF SetFlow, Sealed
  <2> QED BY <1>1, <1>2, <1>4, <2>3, <2>4, <2>5, SetFrameFlow
<1> QED BY <1>6, <1>7 DEF SetDropMeta

\* A clean only takes files and blobs away.
LEMMA CleanFlow ==
    ASSUME TypeInv, FlowInv, NEW c \in Cleaner, CleanStart(c) \/ CleanStep(c) \/ CleanFail(c)
    PROVE  FlowInv'
<1>1. /\ UNCHANGED <<stored, get, set>> /\ file \in [File -> Body]
      /\ blob \in [Setter -> BlobFile] /\ Absent \notin Meta
  BY NameAssumption

        DEF TypeInv, StoreType, CleanStart, CleanStep, CleanSeeBlob, CleanSizeBlob,
            CleanListMeta, CleanListDir, CleanReadMeta, CleanPlan, CleanEvict,
            CleanDelMeta, CleanDelBlob, CleanFail, CleanFrame
<1>2. \A f \in File : file'[f] \in {file[f], Absent}
  <2>1. CASE UNCHANGED file
    BY <2>1
  <2>2. CASE CleanDelMeta(c)
    BY <1>1, <2>2 DEF CleanDelMeta
  <2> QED BY <2>1, <2>2

          DEF CleanStart, CleanStep, CleanSeeBlob, CleanSizeBlob, CleanListMeta,
              CleanListDir, CleanReadMeta, CleanPlan, CleanEvict, CleanDelBlob,
              CleanFail
<1>3. \A s \in Setter : blob'[s] = blob[s] \/ (blob[s] # "absent" /\ blob'[s] = "deleted")
  <2>1. CASE UNCHANGED blob
    BY <2>1
  <2>2. CASE CleanDelBlob(c)
    BY <1>1, <2>2 DEF CleanDelBlob, BlobExists
  <2> QED BY <2>1, <2>2

          DEF CleanStart, CleanStep, CleanSeeBlob, CleanSizeBlob, CleanListMeta,
              CleanListDir, CleanReadMeta, CleanPlan, CleanEvict, CleanDelMeta,
              CleanFail
<1>4. Keeps /\ KeyFlow'
  BY <1>1, <1>2, <1>3, Names DEF FlowInv, KeyFlow, Keeps, Published, Sealed
<1>5. BlobFlow'
  BY <1>1, <1>3 DEF FlowInv, BlobFlow, Published, Sealed
<1>6. \A g \in Getter : GetFlow(g)'
  BY <1>1, <1>2, <1>4, Names, OtherGet DEF FlowInv
<1>7. \A s \in Setter : SetFlow(s)'
  BY <1>1, <1>2, <1>3, Names, OtherSet DEF FlowInv
<1> QED BY <1>4, <1>5, <1>6, <1>7 DEF FlowInv

LEMMA QuietFlow == ASSUME TypeInv, FlowInv, Tick \/ UNCHANGED vars PROVE FlowInv'
<1>1. UNCHANGED <<file, blob, stored, get, set>>
  BY DEF Tick, vars
<1> QED BY <1>1
   DEF FlowInv, KeyFlow, BlobFlow, GetFlow, SetFlow, Published, Sealed, GKey, SKey

LEMMA NextFlow == ASSUME TypeInv, FlowInv, [Next]_vars PROVE FlowInv'
<1>1. CASE \E g \in Getter : GetStart(g) \/ GetStep(g) \/ GetFail(g) \/ GetCrash(g)
  BY <1>1, GetReadFlow, GetWriteFlow DEF GetStep
<1>2. CASE \E s \in Setter : SetStart(s) \/ SetStep(s) \/ SetFail(s) \/ SetCrash(s)
  BY <1>2, SetQuietFlow, SetBlobFlow, SetStageFlow, SetCloseMetaFlow, SetDropMetaFlow
     DEF SetStep
<1>3. CASE \E c \in Cleaner : CleanStart(c) \/ CleanStep(c) \/ CleanFail(c)
  BY <1>3, CleanFlow
<1> QED BY <1>1, <1>2, <1>3, QuietFlow DEF Next

\* A hit delivers the complete content some set stored under the key it
\* names, whatever else runs, fails, crashes or is cleaned up.
THEOREM HitIsCompleteHolds == Spec => []HitIsComplete
<1>1. FlowInv => HitIsComplete
  BY DEF FlowInv, GetFlow, HitIsComplete, Published
<1>2. TypeInv /\ FlowInv /\ [Next]_vars => (TypeInv /\ FlowInv)'
  BY NextType, NextFlow
<1> QED BY InitType, InitFlow, <1>1, <1>2, PTL DEF Spec

-----------------------------------------------------------------------------
(* What is stored again is overwritten.  b is excused under k, for a call  *)
(* made after m sets were stored: it was stored since, it is deleted, or a *)
(* get called before has found it, too, and written its meta back.  What   *)
(* the file of a key and a get between reading and opening name is excused *)
(* for all calls so far, and for that get and all before.                  *)

Since(k, b, m) == \E i \in DOMAIN stored[k] : stored[k][i] = b /\ i >= m
Excused(k, b, m) ==
    \/ Since(k, b, m) \/ blob[b] = "deleted"
    \/ \E h \in Getter : WroteBack(h, k, b) /\ get[h].mark[k] < m

FreshFile(k) ==
    file[k] \in Meta => \A m \in 0..Len(stored[k]) : Excused(k, file[k].blob, m)
FreshGet(g) ==
    /\ \A k \in Key : get[g].mark[k] <= Len(stored[k])
    /\ get[g].pc \in {"put", "write", "close", "open"} =>
          \A m \in 0..get[g].mark[GKey(g)] : Excused(GKey(g), get[g].meta.blob, m)
    /\ get[g].pc = "write" => file[g] \notin Meta
    /\ get[g].pc = "close" /\ file[g] \in Meta => file[g] = get[g].meta
FreshInv == (\A k \in Key : FreshFile(k)) /\ (\A g \in Getter : FreshGet(g))

LEMMA InitFresh == Init => FreshInv
  BY NameAssumption DEF Init, FreshInv, FreshFile, FreshGet, File, Staged

\* What a step of a get does to its record and to the files.
Same(g) == /\ get'[g].i = get[g].i /\ get'[g].keys = get[g].keys
           /\ get'[g].mark = get[g].mark
Starts(g) ==
    /\ get[g].pc = "new" /\ get'[g].pc = "read" /\ UNCHANGED file
    /\ get'[g].i = get[g].i
    /\ get'[g].mark = [k \in Key |-> Len(stored[k])]
Reads(g) ==
    /\ get[g].pc = "read" /\ get'[g].pc = "put" /\ Same(g) /\ UNCHANGED file
    /\ get[g].i \in DOMAIN get[g].keys /\ file[GKey(g)] \in Meta
    /\ get'[g].meta.blob = file[GKey(g)].blob
Skips(g) ==
    /\ get[g].pc \in {"read", "open"} /\ get'[g].pc = "read" /\ UNCHANGED file
    /\ get'[g].i = get[g].i + 1 /\ get'[g].keys = get[g].keys
    /\ get'[g].mark = get[g].mark
    /\ get[g].pc = "read" => get[g].i <= Len(get[g].keys) /\ file[GKey(g)] = Absent
    /\ get[g].pc = "open" => ~BlobExists(get[g].meta.blob)
Goes(g) ==
    /\ Same(g) /\ get'[g].meta = get[g].meta
    /\ \/ /\ UNCHANGED file
          /\ \/ get'[g].pc \in {"err", "dead"}
             \/ get'[g].pc = "hit" /\ BlobExists(get[g].meta.blob)
             \/ get[g].pc = "read" /\ get'[g].pc = "none"
       \/ get[g].pc = "put" /\ get'[g].pc = "write" /\ Stage(g, GKey(g))
       \/ get[g].pc = "write" /\ get'[g].pc = "close" /\ WriteTo(g, get[g].meta)
       \/ get[g].pc = "close" /\ get'[g].pc = "open" /\ Publish(g, GKey(g))
       \/ get[g].pc = "write" /\ get'[g].pc = "err" /\ Publish(g, GKey(g))

LEMMA GetMoves ==
    ASSUME TypeInv, NEW g \in Getter, GetStart(g) \/ GetStep(g) \/ GetFail(g) \/ GetCrash(g)
    PROVE  /\ \A h \in Getter \ {g} : get'[h] = get[h]
           /\ UNCHANGED <<blob, stored, set>>
           /\ Starts(g) \/ Reads(g) \/ Skips(g) \/ Goes(g)
<1>1. /\ get \in [Getter -> GetCall] /\ get[g] \in GetCall /\ file \in [File -> Body]
      /\ GetType
  BY DEF TypeInv, StoreType, GetType
<1>2. UNCHANGED <<blob, stored, set>>
  BY DEF GetStep, GetStart, GetReadMeta, GetPut, GetWrite, GetClose, GetOpenBlob, GetFail,
         GetCrash, GetFrame
<1>3. CASE GetStart(g)
  <2>1. PICK ks \in Lookups :
           get' = [get EXCEPT ![g].pc = "read", ![g].keys = ks,
                              ![g].mark = [k \in Key |-> Len(stored[k])]]
    BY <1>3 DEF GetStart
  <2> QED BY <1>1, <1>2, <1>3, <2>1 DEF GetStart, GetCall, Starts
<1>4. CASE GetReadMeta(g)
  <2>1. CASE GetGoto(g, "none") \/ GetGoto(g, "err")
    BY <1>1, <1>2, <1>4, <2>1 DEF GetReadMeta, GetGoto, GetCall, Goes, Same
  <2>2. CASE get[g].i <= Len(get[g].keys) /\ file[GKey(g)] = Absent /\ TryNextKey(g)
    BY <1>1, <1>2, <1>4, <2>2 DEF GetReadMeta, TryNextKey, GetCall, Skips
  <2>3. CASE /\ get[g].i <= Len(get[g].keys) /\ file[GKey(g)] \in Meta
             /\ get' = [get EXCEPT ![g].pc = "put",
                           ![g].meta = [file[GKey(g)] EXCEPT !.access = now]]
    <3>1. get[g].i \in DOMAIN get[g].keys
      BY <1>1, <2>3, GetKeyType
    <3>2. [file[GKey(g)] EXCEPT !.access = now].blob = file[GKey(g)].blob
      BY <2>3 DEF Meta
    <3> QED BY <1>1, <1>2, <1>4, <2>3, <3>1, <3>2 DEF GetReadMeta, GetCall, Reads, Same
  <2> QED BY <1>4, <2>1, <2>2, <2>3 DEF GetReadMeta
<1>5. CASE GetPut(g) \/ GetWrite(g) \/ GetClose(g)
  BY <1>1, <1>2, <1>5 DEF GetPut, GetWrite, GetClose, GetGoto, GetCall, Goes, Same
<1>6. CASE GetOpenBlob(g)
  BY <1>1, <1>2, <1>6 DEF GetOpenBlob, TryNextKey, GetCall, Goes, Same, Skips
<1>7. CASE GetFail(g) \/ GetCrash(g)
  BY <1>1, <1>2, <1>7 DEF GetFail, GetCrash, GetGoto, GetCall, Goes, Same
<1> QED BY <1>3, <1>4, <1>5, <1>6, <1>7 DEF GetStep

\* An excuse holds for good: nothing is taken from what was stored, nor comes
\* back once it is deleted, and a get that has written its meta back and goes
\* on has found the blob deleted.
LEMMA GetExcuses ==
    ASSUME TypeInv, FlowInv, NEW g \in Getter,
           GetStart(g) \/ GetStep(g) \/ GetFail(g) \/ GetCrash(g),
           NEW k \in Key, NEW b \in Setter, NEW m \in Nat, Excused(k, b, m)
    PROVE  Excused(k, b, m)'
<1>1. /\ \A h \in Getter \ {g} : get'[h] = get[h]
      /\ UNCHANGED <<blob, stored>>
      /\ Starts(g) \/ Reads(g) \/ Skips(g) \/ Goes(g)
  BY GetMoves
<1>2. CASE Since(k, b, m) \/ blob[b] = "deleted"
  BY <1>1, <1>2 DEF Excused, Since
<1>3. ASSUME NEW h \in Getter, WroteBack(h, k, b), get[h].mark[k] < m
      PROVE  Excused(k, b, m)'
  <2>1. CASE h # g \/ Goes(g)
    <3>1. WroteBack(h, k, b)' /\ get'[h].mark[k] < m
      BY <1>1, <1>3, <2>1 DEF WroteBack, Goes, Same, GKey
    <3> QED BY <3>1 DEF Excused
  <2>2. CASE h = g /\ Skips(g)
    <3>1. get[g].pc = "open" /\ get[g].meta.blob = b /\ ~BlobExists(b)
      BY <1>3, <2>2 DEF WroteBack, Skips
    <3>2. Published(k, b)
      BY <1>3, <2>2, <3>1 DEF FlowInv, GetFlow, WroteBack
    <3>3. Sealed(b)
      BY <3>2 DEF FlowInv, BlobFlow
    <3> QED BY <1>1, <3>1, <3>3 DEF Sealed, BlobExists, Excused
  <2> QED BY <1>1, <1>3, <2>1, <2>2 DEF WroteBack, Starts, Reads
<1> QED BY <1>2, <1>3 DEF Excused

LEMMA OtherExcuses ==
    ASSUME TypeInv, UNCHANGED get, NEW k \in Key, NEW b \in Setter, NEW m \in Nat,
           stored'[k] = stored[k] \/ \E s \in Setter : stored'[k] = Append(stored[k], s),
           blob[b] = "deleted" => blob'[b] = "deleted", Excused(k, b, m)
    PROVE  Excused(k, b, m)'
<1>1. CASE Since(k, b, m)
  <2>1. stored[k] \in Seq(Setter)
    BY DEF TypeInv, StoreType
  <2>2. \A i \in DOMAIN stored[k] : i \in DOMAIN stored'[k] /\ stored'[k][i] = stored[k][i]
    BY <2>1
  <2> QED BY <1>1, <2>2 DEF Since, Excused
<1>2. CASE \E h \in Getter : WroteBack(h, k, b) /\ get[h].mark[k] < m
  BY <1>2 DEF Excused, WroteBack, GKey
<1> QED BY <1>1, <1>2 DEF Excused

\* The steps of a get.
LEMMA GetKeepsFresh ==
    ASSUME TypeInv, FlowInv, FreshInv, NEW g \in Getter,
           GetStart(g) \/ GetStep(g) \/ GetFail(g) \/ GetCrash(g)
    PROVE  FreshInv'
<1>1. /\ \A h \in Getter \ {g} : get'[h] = get[h]
      /\ UNCHANGED <<blob, stored>>
      /\ Starts(g) \/ Reads(g) \/ Skips(g) \/ Goes(g)
  BY GetMoves
<1>2. /\ stored \in [Key -> Seq(Setter)] /\ file \in [File -> Body]
      /\ \A h \in Getter : get[h] \in GetCall /\ GetPlace(h)
      /\ \A k \in Key : Len(stored[k]) \in Nat
      /\ Absent \notin Meta /\ Short \notin Meta
  BY NameAssumption DEF TypeInv, StoreType, GetType
<1>3. \A h \in Getter : get[h].pc \in {"put", "write", "close", "open"} =>
         /\ GKey(h) \in Key /\ get[h].meta \in Meta /\ get[h].meta.blob \in Setter
         /\ get[h].mark[GKey(h)] \in Nat
  BY <1>2 DEF GetPlace, GetCall, GKey, Meta
<1>4. \A k \in Key, b \in Setter, m \in Nat : Excused(k, b, m) => Excused(k, b, m)'
  BY GetExcuses
<1>5. ASSUME NEW h \in Getter \ {g} PROVE FreshGet(h)'
  <2>1. file'[h] = file[h] /\ GKey(h)' = GKey(h)
    <3>1. get[g].pc \in {"put", "write", "close"} => GKey(g) \in Key
      BY <1>3
    <3> QED BY <1>1, <1>2, <3>1, Names
         DEF Starts, Reads, Skips, Goes, Stage, WriteTo, Publish, GKey
  <2>2. get'[h] = get[h] /\ UNCHANGED stored /\ FreshGet(h)
    BY <1>1 DEF FreshInv
  <2>3. ASSUME get[h].pc \in {"put", "write", "close", "open"}
        PROVE  (\A m \in 0..get[h].mark[GKey(h)] : Excused(GKey(h), get[h].meta.blob, m))'
    <3>1. PICK k \in Key, b \in Setter : k = GKey(h) /\ b = get[h].meta.blob
      BY <1>3, <2>3
    <3>2. \A m \in 0..get[h].mark[k] : m \in Nat /\ Excused(k, b, m)
      BY <1>3, <2>2, <2>3, <3>1 DEF FreshGet
    <3>3. \A m \in 0..get[h].mark[k] : Excused(k, b, m)'
      BY <1>4, <3>2
    <3> QED BY <2>1, <2>2, <3>1, <3>3
  <2> QED BY <2>1, <2>2, <2>3 DEF FreshGet
<1>6. ASSUME \A k \in Key : FreshFile(k)', FreshGet(g)' PROVE FreshInv'
  BY <1>5, <1>6 DEF FreshInv
<1>7. CASE Goes(g) /\ get[g].pc \in {"put", "write", "close"}
  <2>1. /\ GKey(g) \in Key /\ GKey(g)' = GKey(g)
        /\ get'[g].mark = get[g].mark /\ get'[g].meta = get[g].meta
        /\ get[g].i \in DOMAIN get[g].keys /\ get[g].meta \in Meta
    BY <1>2, <1>3, <1>7 DEF Goes, Same, GKey, GetPlace
  <2>2. PICK k \in Key, b \in Setter : k = GKey(g) /\ b = get[g].meta.blob
    BY <1>3, <1>7
  <2>3. \A m \in 0..get[g].mark[k] : m \in Nat /\ Excused(k, b, m)
    BY <1>3, <1>7, <2>2 DEF FreshInv, FreshGet
  <2>4. \A m \in 0..get[g].mark[k] : Excused(k, b, m)'
    BY <1>4, <2>3
  <2>5. FreshGet(g)'
    <3>1. /\ get'[g].pc = "write" => file'[g] = Short
          /\ get'[g].pc = "close" => file'[g] \in {Absent, get[g].meta}
      BY <1>2, <1>7, <2>1, Names DEF Goes, Stage, WriteTo
    <3> QED BY <1>1, <1>2, <2>1, <2>2, <2>4, <3>1 DEF FreshInv, FreshGet
  <2>6. ASSUME NEW l \in Key, file'[l] = file[l] PROVE FreshFile(l)'
    BY <1>1, <1>2, <1>4, <2>6 DEF FreshInv, FreshFile, Meta
  <2>7. ASSUME file'[k] # file[k], file'[k] \in Meta
        PROVE  (\A m \in 0..Len(stored[k]) : Excused(k, file[k].blob, m))'
    <3>1. /\ get[g].pc \in {"write", "close"} /\ file'[k] = file[g]
          /\ get'[g].pc \in {"open", "err"} /\ (get[g].pc = "close" => get'[g].pc = "open")
      BY <1>2, <1>7, <2>1, <2>2, <2>7, Names DEF Goes, Stage, WriteTo, Publish
    <3>2. get[g].pc = "close" /\ get'[g].pc = "open" /\ file'[k].blob = b
      BY <2>2, <2>7, <3>1 DEF FreshInv, FreshGet
    <3>3. WroteBack(g, k, b)'
      BY <1>2, <1>7, <2>1, <2>2, <3>2 DEF WroteBack, Goes, Same
    <3>4. get[g].mark[k] \in Nat
      BY <1>2, <2>2 DEF GetCall
    <3>5. ASSUME NEW m \in 0..Len(stored[k]) PROVE Excused(k, b, m)'
      BY <1>2, <2>1, <2>4, <3>3, <3>4 DEF Excused
    <3> QED BY <1>1, <3>2, <3>5
  <2>8. \A l \in Key : FreshFile(l)'
    <3>1. \A l \in Key : l # k => file'[l] = file[l]
      BY <1>2, <1>7, <2>1, <2>2, Names DEF Goes, Stage, WriteTo, Publish
    <3>2. FreshFile(k)'
      BY <1>1, <2>6, <2>7 DEF FreshFile
    <3> QED BY <2>6, <3>1, <3>2
  <2> QED BY <1>6, <2>5, <2>8
<1>8. CASE UNCHANGED file
  <2>1. \A k \in Key : FreshFile(k)'
    BY <1>1, <1>2, <1>4, <1>8 DEF FreshInv, FreshFile, Meta
  <2>2. CASE Starts(g)
    BY <1>1, <1>2, <1>6, <2>1, <2>2 DEF FreshGet, Starts
  <2>3. CASE Reads(g)
    <3>1. GKey(g) \in Key /\ file[GKey(g)] \in Meta /\ file[GKey(g)].blob \in Setter
      BY <1>2, <2>3 DEF Reads, GKey, GetCall, Meta
    <3>2. PICK k \in Key, b \in Setter : k = GKey(g) /\ b = file[k].blob
      BY <3>1
    <3>3. /\ GKey(g)' = k /\ get'[g].mark = get[g].mark /\ get'[g].meta.blob = b
          /\ get[g].mark[k] \in Nat /\ get[g].mark[k] <= Len(stored[k])
      BY <1>2, <2>3, <3>2 DEF Reads, Same, GKey, GetCall, FreshInv, FreshGet
    <3>4. \A m \in 0..get[g].mark[k] : m \in 0..Len(stored[k]) /\ Excused(k, b, m)'
      BY <1>2, <1>4, <3>1, <3>2, <3>3 DEF FreshInv, FreshFile
    <3>5. FreshGet(g)'
      BY <1>1, <2>3, <3>3, <3>4 DEF FreshInv, FreshGet, Reads
    <3> QED BY <1>6, <2>1, <3>5
  <2>4. CASE get'[g].pc \notin {"put", "write", "close", "open"} /\ get'[g].mark = get[g].mark
    BY <1>1, <1>6, <2>1, <2>4 DEF FreshInv, FreshGet
  <2>5. CASE Goes(g) /\ get[g].pc \in {"put", "write", "close"}
    BY <1>7, <2>5
  <2> QED BY <1>1, <2>2, <2>3, <2>4, <2>5 DEF Skips, Goes, Same
<1> QED BY <1>1, <1>7, <1>8 DEF Starts, Reads, Skips, Goes

\* What was stored under a key and what its file holds change together.
Stored(k) ==
    \/ stored'[k] = stored[k] /\ (file'[k] = file[k] \/ file'[k] \notin Meta)
    \/ \E s \in Setter : /\ stored'[k] = Append(stored[k], s)
                         /\ file'[k] \in Meta => file'[k].blob = s

\* The steps of a set, of a clean and of the clock leave the gets alone.
LEMMA OtherKeepsFresh ==
    ASSUME TypeInv, FlowInv, FreshInv, UNCHANGED get,
           \A g \in Getter : file'[g] \in {file[g], Absent},
           \A b \in Setter : blob[b] = "deleted" => blob'[b] = "deleted",
           \A k \in Key : Stored(k)
    PROVE  FreshInv'
<1>1. /\ stored \in [Key -> Seq(Setter)] /\ file \in [File -> Body]
      /\ \A h \in Getter : get[h] \in GetCall /\ GetPlace(h)
      /\ \A k \in Key : Len(stored[k]) \in Nat
      /\ Absent \notin Meta
  BY NameAssumption DEF TypeInv, StoreType, GetType
<1>2. ASSUME NEW k \in Key, NEW b \in Setter, NEW m \in Nat, Excused(k, b, m)
      PROVE  Excused(k, b, m)'
  <2>1. stored'[k] = stored[k] \/ \E s \in Setter : stored'[k] = Append(stored[k], s)
    BY DEF Stored
  <2> QED BY <1>2, <2>1, OtherExcuses
<1>3. ASSUME NEW k \in Key
      PROVE  Len(stored'[k]) \in {Len(stored[k]), Len(stored[k]) + 1}
  <2>1. CASE \E s \in Setter : stored'[k] = Append(stored[k], s)
    BY <1>1, <2>1
  <2> QED BY <2>1 DEF Stored
<1>4. ASSUME NEW k \in Key PROVE FreshFile(k)'
  <2>1. CASE stored'[k] = stored[k] /\ (file'[k] = file[k] \/ file'[k] \notin Meta)
    BY <1>1, <1>2, <2>1 DEF FreshInv, FreshFile, Meta
  <2>2. ASSUME NEW s \in Setter, stored'[k] = Append(stored[k], s), file'[k] \in Meta,
               file'[k].blob = s
        PROVE  (\A m \in 0..Len(stored[k]) : Excused(k, file[k].blob, m))'
    <3>1. /\ Len(stored'[k]) \in DOMAIN stored'[k] /\ stored'[k][Len(stored'[k])] = s
          /\ Len(stored'[k]) \in Nat
      BY <1>1, <2>2
    <3>2. \A m \in 0..Len(stored'[k]) : Since(k, s, m)'
      BY <3>1 DEF Since
    <3> QED BY <2>2, <3>2 DEF Excused
  <2> QED BY <2>1, <2>2 DEF Stored, FreshFile
<1>5. ASSUME NEW h \in Getter PROVE FreshGet(h)'
  <2>1. FreshGet(h) /\ GKey(h)' = GKey(h)
    BY DEF FreshInv, GKey
  <2>2. ASSUME get[h].pc \in {"put", "write", "close", "open"}
        PROVE  (\A m \in 0..get[h].mark[GKey(h)] : Excused(GKey(h), get[h].meta.blob, m))'
    <3>1. GKey(h) \in Key /\ get[h].meta.blob \in Setter /\ get[h].mark[GKey(h)] \in Nat
      BY <1>1, <2>2 DEF GetPlace, GetCall, GKey, Meta
    <3>2. PICK k \in Key, b \in Setter : k = GKey(h) /\ b = get[h].meta.blob
      BY <3>1
    <3>3. \A m \in 0..get[h].mark[k] : m \in Nat /\ Excused(k, b, m)
      BY <2>1, <2>2, <3>1, <3>2 DEF FreshGet
    <3>4. \A m \in 0..get[h].mark[k] : Excused(k, b, m)'
      BY <1>2, <3>3
    <3> QED BY <2>1, <3>2, <3>4
  <2>3. (\A k \in Key : get[h].mark[k] <= Len(stored[k]))'
    BY <1>1, <1>3, <2>1 DEF FreshGet, GetCall
  <2>4. file'[h] \in {file[h], Absent}
    OBVIOUS
  <2>5. (get[h].pc = "write" => file[h] \notin Meta)'
    BY <1>1, <2>1, <2>4 DEF FreshGet
  <2>6. (get[h].pc = "close" /\ file[h] \in Meta => file[h] = get[h].meta)'
    BY <1>1, <2>1, <2>4 DEF FreshGet
  <2> QED BY <2>2, <2>3, <2>5, <2>6 DEF FreshGet
<1> QED BY <1>4, <1>5 DEF FreshInv

LEMMA SetKeepsFresh ==
    ASSUME TypeInv, FlowInv, FreshInv, NEW s \in Setter,
           SetStart(s) \/ SetStep(s) \/ SetFail(s) \/ SetCrash(s)
    PROVE  FreshInv'
<1>1. /\ UNCHANGED get /\ SetFlow(s) /\ file \in [File -> Body] /\ set[s] \in SetCall
      /\ blob \in [Setter -> BlobFile] /\ stored \in [Key -> Seq(Setter)]
      /\ set[s].open \subseteq Key /\ SetPlace(s)
  BY DEF FlowInv, TypeInv, StoreType, SetType, SetCall, SetStart, SetStep,
         SetMissesDir, SetMakeDir, SetPutBlob, SetPutMeta, SetCloseBlob, SetWriteMeta,
         SetCloseMeta, SetDropBlob, SetDropMeta, SetFail, SetCrash, SetFrame
<1>2. \A b \in Setter : blob[b] = "deleted" => blob'[b] = "deleted"
  BY <1>1
     DEF SetFlow, SetStart, SetStep, SetMissesDir, SetMakeDir, SetPutBlob, SetPutMeta,
         SetCloseBlob, SetWriteMeta, SetCloseMeta, SetDropBlob, SetDropMeta, SetFail,
         SetCrash
<1>3. CASE UNCHANGED <<file, stored>>
  BY <1>1, <1>2, <1>3, OtherKeepsFresh DEF Stored
<1>4. CASE SetPutMeta(s) \/ SetWriteMeta(s)
  <2>1. SKey(s) \in Key
    BY <1>1, <1>4 DEF SetPlace, SetCall, SKey, SetPutMeta, SetWriteMeta
  <2>2. /\ UNCHANGED stored
        /\ \A f \in File \ {<<s, SKey(s)>>} : file'[f] = file[f]
    BY <1>1, <1>4 DEF SetPutMeta, SetWriteMeta, Stage, WriteTo
  <2> QED BY <1>1, <1>2, <2>1, <2>2, Names, OtherKeepsFresh DEF Stored
<1>5. CASE SetCloseMeta(s) /\ ~ UNCHANGED <<file, stored>>
  <2>1. PICK k \in Key : k = SKey(s)
    <3>1. set[s].i \in DOMAIN set[s].keys /\ set[s].keys \in Seq(Key)
      BY <1>1, <1>5 DEF SetPlace, SetCall, SetCloseMeta
    <3> QED BY <3>1 DEF SKey
  <2>2. Publish(<<s, k>>, k) /\ stored' = [stored EXCEPT ![k] = Append(@, s)]
    BY <1>5, <2>1 DEF SetCloseMeta
  <2>3. /\ file'[k] = file[<<s, k>>] /\ stored'[k] = Append(stored[k], s)
        /\ \A f \in File \ {k, <<s, k>>} : file'[f] = file[f]
        /\ \A l \in Key \ {k} : stored'[l] = stored[l]
    BY <1>1, <2>2, Names DEF Publish
  <2>4. file'[k] \in Meta => file'[k].blob = s
    BY <1>1, <2>3 DEF SetFlow
  <2> QED BY <1>1, <1>2, <2>3, <2>4, Names, OtherKeepsFresh DEF Stored
<1>6. CASE SetDropMeta(s) /\ ~ UNCHANGED file
  <2>1. PICK k \in set[s].open : Publish(<<s, k>>, k)
    BY <1>6 DEF SetDropMeta
  <2>2. k \in Key /\ file[<<s, k>>] \notin Meta /\ UNCHANGED stored
    BY <1>1, <1>6 DEF SetFlow, SetDropMeta
  <2>3. /\ file'[k] \notin Meta
        /\ \A f \in File \ {k, <<s, k>>} : file'[f] = file[f]
    BY <1>1, <2>1, <2>2, Names DEF Publish
  <2> QED BY <1>1, <1>2, <2>2, <2>3, Names, OtherKeepsFresh DEF Stored
<1> QED BY <1>3, <1>4, <1>5, <1>6

        DEF SetStart, SetStep, SetMissesDir, SetMakeDir, SetPutBlob, SetCloseBlob,
            SetCloseMeta, SetDropBlob, SetDropMeta, SetFail, SetCrash

LEMMA CleanKeepsFresh ==
    ASSUME TypeInv, FlowInv, FreshInv, NEW c \in Cleaner,
           CleanStart(c) \/ CleanStep(c) \/ CleanFail(c)
    PROVE  FreshInv'
<1>1. /\ UNCHANGED <<stored, get>> /\ file \in [File -> Body]
      /\ blob \in [Setter -> BlobFile] /\ Absent \notin Meta
  BY NameAssumption
     DEF TypeInv, StoreType, CleanStart, CleanStep, CleanSeeBlob, CleanSizeBlob,
         CleanListMeta, CleanListDir, CleanReadMeta, CleanPlan, CleanEvict, CleanDelMeta,
         CleanDelBlob, CleanFail, CleanFrame
<1>2. \A f \in File : file'[f] \in {file[f], Absent}
  <2>1. CASE UNCHANGED file
    BY <2>1
  <2>2. CASE CleanDelMeta(c)
    BY <1>1, <2>2 DEF CleanDelMeta
  <2> QED BY <2>1, <2>2

          DEF CleanStart, CleanStep, CleanSeeBlob, CleanSizeBlob, CleanListMeta,
              CleanListDir, CleanReadMeta, CleanPlan, CleanEvict, CleanDelBlob,
              CleanFail
<1>3. \A b \in Setter : blob[b] = "deleted" => blob'[b] = "deleted"
  BY <1>1
     DEF CleanStart, CleanStep, CleanSeeBlob, CleanSizeBlob, CleanListMeta,
         CleanListDir, CleanReadMeta, CleanPlan, CleanEvict, CleanDelMeta,
         CleanDelBlob, CleanFail
<1> QED BY <1>1, <1>2, <1>3, Names, OtherKeepsFresh DEF Stored

LEMMA NextFresh == ASSUME TypeInv, FlowInv, FreshInv, [Next]_vars PROVE FreshInv'
<1>1. CASE \E c \in Cleaner : CleanStart(c) \/ CleanStep(c) \/ CleanFail(c)
  BY <1>1, CleanKeepsFresh
<1>2. CASE Tick \/ UNCHANGED vars
  BY <1>2, OtherKeepsFresh DEF Stored, Tick, vars
<1> QED BY <1>1, <1>2, GetKeepsFresh, SetKeepsFresh DEF Next

\* Old data only comes back under a key that was stored again if another get,
\* called before, had found it and written its meta back - whatever fails,
\* crashes or is cleaned.
THEOREM OverwriteSticksHolds == Spec => OverwriteSticks
<1> DEFINE Finds(g) == get[g].pc = "open" /\ get'[g].pc = "hit"
           Excuse(g) ==
              LET k == GKey(g)
                  b == get[g].meta.blob
              IN  \/ \E i \in DOMAIN stored[k] : stored[k][i] = b /\ i >= get[g].mark[k]
                  \/ \E h \in Getter \ {g} :
                        WroteBack(h, k, b) /\ get[h].mark[k] < get[g].mark[k]
<1>1. TypeInv /\ FlowInv /\ FreshInv /\ [Next]_vars
         => [\A g \in Getter : Finds(g) => Excuse(g)]_vars
  <2> SUFFICES ASSUME TypeInv, FlowInv, FreshInv, Next, NEW g \in Getter, Finds(g)
               PROVE  Excuse(g)
    OBVIOUS
  <2>1. BlobExists(get[g].meta.blob)
    <3>1. get'[g] # get[g]
      OBVIOUS
    <3>2. PICK h \in Getter : GetStart(h) \/ GetStep(h) \/ GetFail(h) \/ GetCrash(h)
      BY <3>1
         DEF Next, SetStart, SetStep, SetMissesDir, SetMakeDir, SetPutBlob, SetPutMeta,
             SetCloseBlob, SetWriteMeta, SetCloseMeta, SetDropBlob, SetDropMeta,
             SetFail, SetCrash, SetFrame, CleanStart, CleanStep, CleanSeeBlob,
             CleanSizeBlob, CleanListMeta, CleanListDir, CleanReadMeta, CleanPlan,
             CleanEvict, CleanDelMeta, CleanDelBlob, CleanFail, CleanFrame, Tick
    <3>3. h = g /\ (Starts(g) \/ Reads(g) \/ Skips(g) \/ Goes(g))
      BY <3>1, <3>2, GetMoves
    <3> QED BY <3>3 DEF Starts, Reads, Skips, Goes
  <2>2. /\ GKey(g) \in Key /\ get[g].mark[GKey(g)] \in Nat
    BY DEF TypeInv, GetType, GetPlace, GetCall, GKey
  <2>3. Excused(GKey(g), get[g].meta.blob, get[g].mark[GKey(g)])
    BY <2>2 DEF FreshInv, FreshGet
  <2>4. ASSUME NEW h \in Getter, get[h].mark[GKey(g)] < get[g].mark[GKey(g)]
        PROVE  h # g
    BY <2>2, <2>4
  <2> QED BY <2>1, <2>3, <2>4 DEF Excused, Since, BlobExists
<1>2. TypeInv /\ FlowInv /\ FreshInv /\ [Next]_vars => (TypeInv /\ FlowInv /\ FreshInv)'
  BY NextType, NextFlow, NextFresh
<1> QED BY InitType, InitFlow, InitFresh, <1>1, <1>2, PTL DEF Spec, OverwriteSticks

-----------------------------------------------------------------------------
(* As long as nothing is cleaned, a key that something was stored under     *)
(* keeps a file, and every blob a meta names is there.                     *)

\* A clean that has begun does not become new again.
LEMMA CleansRun ==
    ASSUME TypeInv, NEW c \in Cleaner, CleanStart(c) \/ CleanStep(c) \/ CleanFail(c)
    PROVE  clean'[c].pc # "new"
<1>1. clean[c] \in CleanCall /\ clean \in [Cleaner -> CleanCall]
  BY DEF TypeInv, CleanType
<1>2. CASE \E pc \in {"err", "dead", "ok"} : CleanGoto(c, pc)
  BY <1>1, <1>2 DEF CleanGoto
<1>3. CASE CleanStart(c) \/ CleanListMeta(c) \/ CleanPlan(c)
  BY <1>1, <1>3 DEF CleanStart, CleanListMeta, CleanPlan, CleanCall
<1>4. CASE CleanSeeBlob(c)
  BY <1>1, <1>4 DEF CleanSeeBlob, CleanCall
<1>5. CASE CleanListDir(c)
  BY <1>1, <1>5 DEF CleanListDir, CleanCall
<1>6. CASE CleanReadMeta(c)
  BY <1>1, <1>2, <1>6 DEF CleanReadMeta, CleanCall
<1>7. CASE CleanEvict(c)
  <2>1. CASE \E b \in Candidates(c) :
           clean' = [clean EXCEPT ![c].pc = "delmeta", ![c].victim = b,
                                  ![c].todo = {e.key : e \in Entries(c, b)}]
    <3>1. PICK b \in Candidates(c) :
           clean' = [clean EXCEPT ![c].pc = "delmeta", ![c].victim = b,
                                  ![c].todo = {e.key : e \in Entries(c, b)}]
      BY <2>1
    <3> HIDE DEF Entries
    <3> QED BY <1>1, <3>1 DEF CleanCall
  <2> QED BY <1>2, <1>7, <2>1 DEF CleanEvict
<1>8. CASE CleanDelMeta(c)
  BY <1>1, <1>2, <1>8 DEF CleanDelMeta, CleanCall
<1>9. CASE CleanSizeBlob(c)
  <2>1. CASE clean' = [clean EXCEPT ![c].pc = "blobs", ![c].victim = Absent]
    BY <1>1, <2>1 DEF CleanCall
  <2> QED BY <1>2, <1>9, <2>1 DEF CleanSizeBlob
<1>10. CASE CleanDelBlob(c)
  <2>1. CASE clean' = [clean EXCEPT ![c].pc = "evict",
                                    ![c].found = @ \ Entries(c, clean[c].victim)]
    BY <1>1, <2>1 DEF CleanCall
  <2> QED BY <1>2, <1>10, <2>1 DEF CleanDelBlob
<1> QED BY <1>2, <1>3, <1>4, <1>5, <1>6, <1>7, <1>8, <1>9, <1>10 DEF CleanStep, CleanFail

Kept == \A c \in Cleaner : clean[c].pc = "new"
Passed(g) == \A i \in 1..(get[g].i - 1) : get[g].mark[get[g].keys[i]] = 0
KeptInv ==
    /\ \A g \in Getter : get[g].pc = "new" => get[g].i = 1
    /\ Kept => /\ \A k \in Key : stored[k] # <<>> => file[k] # Absent
               /\ \A s \in Setter : blob[s] # "deleted"
               /\ \A g \in Getter : Passed(g)

LEMMA InitKept == Init => KeptInv
  BY DEF Init, KeptInv, Passed

LEMMA KeptBefore ==
    ASSUME TypeInv, [Next]_vars, Kept' PROVE Kept /\ UNCHANGED clean
<1>1. CASE \E c \in Cleaner : CleanStart(c) \/ CleanStep(c) \/ CleanFail(c)
  BY <1>1, CleansRun DEF Kept
<1>2. UNCHANGED clean
  BY <1>1
     DEF vars, Next, GetStart, GetStep, GetReadMeta, GetPut, GetWrite, GetClose,
         GetOpenBlob, GetFail, GetCrash, GetFrame, SetStart, SetStep, SetMissesDir,
         SetMakeDir, SetPutBlob, SetPutMeta, SetCloseBlob, SetWriteMeta, SetCloseMeta,
         SetDropBlob, SetDropMeta, SetFail, SetCrash, SetFrame, Tick
<1> QED BY <1>2 DEF Kept

LEMMA GetKeepsKept ==
    ASSUME TypeInv, FlowInv, FreshInv, KeptInv, Kept, NEW g \in Getter,
           GetStart(g) \/ GetStep(g) \/ GetFail(g) \/ GetCrash(g)
    PROVE  KeptInv'
<1>1. /\ get \in [Getter -> GetCall] /\ file \in [File -> Body] /\ GetPlace(g) /\ GetType
      /\ get[g] \in GetCall /\ get[g].i \in Nat /\ get[g].keys \in Seq(Key)
      /\ stored \in [Key -> Seq(Setter)] /\ get[g].mark \in [Key -> Nat]
      /\ Absent \notin Meta /\ Absent # Short
  BY NameAssumption DEF TypeInv, StoreType, GetType, GetCall
<1>2. /\ \A h \in Getter \ {g} : get'[h] = get[h]
      /\ UNCHANGED <<blob, stored>>
      /\ Starts(g) \/ Reads(g) \/ Skips(g) \/ Goes(g)
  BY GetMoves
<1>3. \A h \in Getter \ {g} : Passed(h)'
  BY <1>2 DEF KeptInv, Passed
<1>4. \A h \in Getter : get'[h].pc = "new" => get'[h].i = 1
  BY <1>2 DEF KeptInv, Starts, Reads, Skips, Goes
<1>5. \A k \in Key : file[k] # Absent => file'[k] # Absent
  <2>1. CASE UNCHANGED file
    BY <2>1
  <2>2. CASE GetPut(g) \/ GetWrite(g)
    BY <1>1, <2>2, Names DEF GetPut, GetWrite, Stage, WriteTo
  <2>3. CASE file[g] # Absent /\ Publish(g, GKey(g))
    BY <1>1, <2>3, Names DEF Publish
  <2> QED BY <2>1, <2>2, <2>3
       DEF GetStart, GetStep, GetReadMeta, GetClose, GetOpenBlob, GetFail, GetCrash
<1>6. Passed(g)'
  <2>1. CASE Starts(g)
    BY <1>1, <1>2, <2>1 DEF KeptInv, Starts, Passed
  <2>2. CASE Same(g)
    BY <2>2 DEF KeptInv, Passed, Same
  <2>3. CASE Skips(g)
    <3>1. get[g].pc = "read" => get[g].i <= Len(get[g].keys) /\ file[GKey(g)] = Absent
      BY <2>3 DEF Skips
    <3>2. /\ get'[g].i = get[g].i + 1 /\ get'[g].keys = get[g].keys
          /\ get'[g].mark = get[g].mark
      BY <2>3 DEF Skips
    <3>3. CASE get[g].pc = "read"
      <4>1. GKey(g) \in Key /\ stored[GKey(g)] = <<>>
        BY <1>1, <3>1, <3>3, GetKeyType DEF KeptInv
      <4>2. get[g].mark[GKey(g)] = 0
        <5>1. get[g].mark[GKey(g)] <= Len(stored[GKey(g)])
          BY <4>1 DEF FreshInv, FreshGet
        <5> QED BY <1>1, <4>1, <5>1
      <4> QED BY <1>1, <3>2, <4>2 DEF KeptInv, Passed, GKey
    <3>4. CASE get[g].pc = "open"
      <4>1. get[g].meta.blob \in Setter /\ GKey(g) \in Key
        BY <1>1, <3>4 DEF GetPlace, Meta, GKey
      <4>2. Sealed(get[g].meta.blob)
        BY <3>4, <4>1 DEF FlowInv, GetFlow, BlobFlow
      <4> QED BY <2>3, <3>4, <4>1, <4>2 DEF Sealed, BlobExists, Skips, KeptInv
    <3> QED BY <2>3, <3>3, <3>4 DEF Skips
  <2> QED BY <1>2, <2>1, <2>2, <2>3 DEF Reads, Goes
<1> QED BY <1>2, <1>3, <1>4, <1>5, <1>6 DEF KeptInv

LEMMA SetKeepsKept ==
    ASSUME TypeInv, KeptInv, Kept, NEW s \in Setter,
           SetStart(s) \/ SetStep(s) \/ SetFail(s) \/ SetCrash(s)
    PROVE  KeptInv'
<1>1. /\ file \in [File -> Body] /\ stored \in [Key -> Seq(Setter)]
      /\ blob \in [Setter -> BlobFile] /\ SetPlace(s)
      /\ set[s].keys \in Seq(Key) /\ set[s].open \subseteq Key
      /\ Absent \notin Meta /\ Absent # Short
  BY NameAssumption DEF TypeInv, StoreType, SetType, SetCall
<1>2. UNCHANGED get
  BY DEF SetStart, SetStep, SetMissesDir, SetMakeDir, SetPutBlob, SetPutMeta,
         SetCloseBlob, SetWriteMeta, SetCloseMeta, SetDropBlob, SetDropMeta, SetFail,
         SetCrash, SetFrame
<1>3. \A r \in Setter : blob'[r] # "deleted"
  BY <1>1
     DEF KeptInv, SetStart, SetStep, SetMissesDir, SetMakeDir, SetPutBlob, SetPutMeta,
         SetCloseBlob, SetWriteMeta, SetCloseMeta, SetDropBlob, SetDropMeta, SetFail,
         SetCrash
<1>4. ASSUME NEW k \in Key
      PROVE  /\ file[k] # Absent => file'[k] # Absent
             /\ stored'[k] = stored[k] \/ file'[k] # Absent
  <2>1. CASE UNCHANGED <<file, stored>>
    BY <2>1
  <2>2. CASE SetPutMeta(s) \/ SetWriteMeta(s)
    <3>1. SKey(s) \in Key
      BY <1>1, <2>2 DEF SetPlace, SKey, SetPutMeta, SetWriteMeta
    <3> QED BY <1>1, <2>2, <3>1, Names DEF SetPutMeta, SetWriteMeta, Stage, WriteTo
  <2>3. CASE SetCloseMeta(s)
    <3>1. set[s].pc = "closemeta" /\ set[s].i \in DOMAIN set[s].keys
      BY <1>1, <2>3 DEF SetPlace, SetCloseMeta
    <3>2. SKey(s) \in Key
      BY <1>1, <3>1 DEF SKey
    <3> QED BY <1>1, <2>3, <3>2, Names DEF SetCloseMeta, Publish
  <2>4. CASE SetDropMeta(s)
    <3>1. UNCHANGED stored
      BY <2>4 DEF SetDropMeta
    <3>2. CASE \E d \in set[s].open : file[<<s, d>>] # Absent /\ Publish(<<s, d>>, d)
      BY <1>1, <3>1, <3>2, Names DEF Publish
    <3> QED BY <2>4, <3>1, <3>2 DEF SetDropMeta
  <2> QED BY <2>1, <2>2, <2>3, <2>4
       DEF SetStart, SetStep, SetMissesDir, SetMakeDir, SetPutBlob, SetCloseBlob,
           SetDropBlob, SetFail, SetCrash
<1>5. \A k \in Key : stored'[k] # <<>> => file'[k] # Absent
  BY <1>4 DEF KeptInv
<1> QED BY <1>2, <1>3, <1>5 DEF KeptInv, Passed

LEMMA NextKept ==
    ASSUME TypeInv, FlowInv, FreshInv, KeptInv, [Next]_vars PROVE KeptInv'
<1>1. CASE Kept'
  <2>1. Kept /\ UNCHANGED clean
    BY <1>1, KeptBefore
  <2>2. CASE Tick \/ UNCHANGED vars
    BY <2>1, <2>2 DEF Tick, vars, KeptInv, Passed
  <2>3. ~ \E c \in Cleaner : CleanStart(c) \/ CleanStep(c) \/ CleanFail(c)
    BY <1>1, CleansRun DEF Kept
  <2> QED BY <2>1, <2>2, <2>3, GetKeepsKept, SetKeepsKept DEF Next
<1>2. (\A g \in Getter : get[g].pc = "new" => get[g].i = 1)'
  <2>1. ASSUME NEW g \in Getter, GetStart(g) \/ GetStep(g) \/ GetFail(g) \/ GetCrash(g)
        PROVE  (\A h \in Getter : get[h].pc = "new" => get[h].i = 1)'
    <3>1. /\ \A h \in Getter \ {g} : get'[h] = get[h]
          /\ Starts(g) \/ Reads(g) \/ Skips(g) \/ Goes(g)
      BY <2>1, GetMoves
    <3> QED BY <3>1 DEF KeptInv, Starts, Reads, Skips, Goes
  <2>2. CASE UNCHANGED get
    BY <2>2 DEF KeptInv
  <2> QED BY <2>1, <2>2

          DEF Next, SetStart, SetStep, SetMissesDir, SetMakeDir, SetPutBlob,
              SetPutMeta, SetCloseBlob, SetWriteMeta, SetCloseMeta, SetDropBlob,
              SetDropMeta, SetFail, SetCrash, SetFrame, CleanStart, CleanStep,
              CleanSeeBlob, CleanSizeBlob, CleanListMeta, CleanListDir, CleanReadMeta,
              CleanPlan, CleanEvict, CleanDelMeta, CleanDelBlob, CleanFail, CleanFrame,
              Tick, vars
<1> QED BY <1>1, <1>2 DEF KeptInv

\* As long as nothing is cleaned no get passes over a key that was stored
\* before it was called, whatever fails or is killed.
THEOREM NoEntryIsLost == Spec => []NoEntryLost
<1>1. KeptInv => NoEntryLost
  BY DEF KeptInv, Kept, Passed, NoEntryLost
<1> DEFINE IInv == TypeInv /\ FlowInv /\ FreshInv /\ KeptInv
<1>2. Init => IInv
  BY InitType, InitFlow, InitFresh, InitKept
<1>3. IInv /\ [Next]_vars => IInv'
  BY NextType, NextFlow, NextFresh, NextKept
<1> QED BY <1>1, <1>2, <1>3, PTL DEF Spec

-----------------------------------------------------------------------------
(* The refinement of CacheSpec.  A meta that is renamed stores the set     *)
(* under its key; the call that ends is what its caller is answered.  A    *)
(* set stores under each of its keys once, in order, and under all of them *)
(* before it succeeds.                                                     *)

Forgetful == \E c \in Cleaner : clean[c].pc # "new"
LookedUp == [g \in Getter |-> LookupOf(g)]
Request == [s \in Setter |-> IF set[s].pc = "new" THEN Short ELSE set[s].keys]
Answers == [g \in Getter |-> AnswerOf(g)]
Outcome == [s \in Setter |-> OutcomeOf(s)]
Seen == <<stored, Forgetful, LookedUp, Answers, Request, Outcome>>

Opening == {"new", "putblob", "putmeta", "write", "dropall", "undo"}
SetStored(s) ==
    /\ set[s].pc # "new" => set[s].keys \in Stores
    /\ set[s].pc \in Opening => \A k \in Key : ~Published(k, s)
    /\ set[s].pc \in {"writemeta", "closemeta"} =>
          \A j \in DOMAIN set[s].keys : Published(set[s].keys[j], s) <=> j < set[s].i
    /\ set[s].pc = "ok" => \A j \in DOMAIN set[s].keys : Published(set[s].keys[j], s)
StoredInv == \A s \in Setter : SetStored(s)

LEMMA InitStored == Init => StoredInv
  BY DEF Init, StoredInv, SetStored, Published, Opening

LEMMA SameStored ==
    ASSUME StoredInv, UNCHANGED stored, NEW s \in Setter, set'[s] = set[s]
    PROVE  SetStored(s)'
  BY DEF StoredInv, SetStored, Published

\* What is published after a meta was renamed.
LEMMA AppendPublished ==
    ASSUME TypeInv, NEW s \in Setter, NEW k \in Key,
           stored' = [stored EXCEPT ![k] = Append(@, s)]
    PROVE  \A l \in Key, r \in Setter :
              Published(l, r)' <=> Published(l, r) \/ (l = k /\ r = s)
<1>1. stored \in [Key -> Seq(Setter)] /\ stored[k] \in Seq(Setter)
  BY DEF TypeInv, StoreType
<1>2. stored'[k] = Append(stored[k], s) /\ \A l \in Key \ {k} : stored'[l] = stored[l]
  BY <1>1
<1>3. \A r \in Setter : Published(k, r)' <=> Published(k, r) \/ r = s
  <2>1. /\ DOMAIN stored'[k] = 1..(Len(stored[k]) + 1) /\ Len(stored[k]) \in Nat
        /\ DOMAIN stored[k] = 1..Len(stored[k])
        /\ stored'[k][Len(stored[k]) + 1] = s
        /\ \A i \in 1..Len(stored[k]) : stored'[k][i] = stored[k][i]
    BY <1>1, <1>2
  <2>2. \A i \in 1..(Len(stored[k]) + 1) : i \in 1..Len(stored[k]) \/ i = Len(stored[k]) + 1
    BY <2>1
  <2>3. Len(stored[k]) + 1 \in DOMAIN stored'[k] /\ DOMAIN stored[k] \subseteq DOMAIN stored'[k]
    BY <2>1
  <2> QED BY <2>1, <2>2, <2>3 DEF Published
<1>4. \A l \in Key \ {k}, r \in Setter : Published(l, r)' <=> Published(l, r)
  BY <1>2 DEF Published
<1> QED BY <1>3, <1>4

\* Every step of a set but the renaming of a meta.
LEMMA SetKeepsStored ==
    ASSUME TypeInv, StoredInv, NEW s \in Setter, UNCHANGED stored,
           \/ SetStart(s) \/ SetMissesDir(s) \/ SetMakeDir(s) \/ SetPutBlob(s)
           \/ SetPutMeta(s) \/ SetCloseBlob(s) \/ SetWriteMeta(s) \/ SetDropBlob(s)
           \/ SetDropMeta(s) \/ SetFail(s) \/ SetCrash(s)
    PROVE  StoredInv'
<1>1. /\ set \in [Setter -> SetCall] /\ set[s] \in SetCall /\ SetStored(s) /\ SetPlace(s)
      /\ set[s].keys \in Seq(Key) /\ set[s].i \in Nat
  BY DEF TypeInv, SetType, SetCall, StoredInv
<1>2. \A r \in Setter \ {s} : set'[r] = set[r]
  BY <1>1, DirStep
     DEF SetStart, SetPutBlob, SetPutMeta, SetCloseBlob, SetWriteMeta, SetDropBlob,
         SetDropMeta, SetFail, SetCrash, SetGoto
<1>3. \A k \in Key : Published(k, s)' <=> Published(k, s)
  BY DEF Published
<1>4. SetStored(s)'
  <2>1. CASE SetStart(s)
    <3>1. PICK ks \in Stores :
             set' = [set EXCEPT ![s].pc = "putblob", ![s].keys = ks, ![s].at = now]
      BY <2>1 DEF SetStart
    <3>2. set'[s].pc = "putblob" /\ set'[s].keys \in Stores
      BY <1>1, <3>1 DEF SetCall
    <3>3. set[s].pc = "new"
      BY <2>1 DEF SetStart
    <3> QED BY <1>1, <1>3, <3>2, <3>3 DEF SetStored, Opening
  <2>2. CASE SetPutBlob(s) \/ SetPutMeta(s)
    <3>1. /\ set[s].pc \in {"putblob", "putmeta"} /\ set'[s].pc \in {"putmeta", "write"}
          /\ set'[s].keys = set[s].keys
      BY <1>1, <2>2 DEF SetPutBlob, SetPutMeta, SetGoto, SetCall
    <3> QED BY <1>1, <1>3, <3>1 DEF SetStored, Opening
  <2>3. CASE SetCloseBlob(s)
    <3>1. /\ set[s].pc = "write" /\ set[s].i = 1 /\ set'[s].i = 1
          /\ set'[s].pc = IF set[s].keys = <<>> THEN "ok" ELSE "writemeta"
          /\ set'[s].keys = set[s].keys
      BY <1>1, <2>3 DEF SetCloseBlob, SetGoto, SetPlace, SetCall
    <3>2. \A j \in DOMAIN set[s].keys : ~Published(set[s].keys[j], s)' /\ ~(j < 1)
      BY <1>1, <1>3, <3>1 DEF SetStored, Opening
    <3> QED BY <1>1, <3>1, <3>2 DEF SetStored, Opening
  <2>4. CASE SetWriteMeta(s)
    <3>1. /\ set[s].pc = "writemeta" /\ set'[s].pc = "closemeta"
          /\ set'[s].keys = set[s].keys /\ set'[s].i = set[s].i
      BY <1>1, <2>4 DEF SetWriteMeta, SetGoto, SetCall
    <3>2. \A j \in DOMAIN set[s].keys : set[s].keys[j] \in Key
      BY <1>1
    <3> QED BY <1>1, <1>3, <3>1, <3>2 DEF SetStored, Opening
  <2>5. CASE SetDropBlob(s) \/ SetDropMeta(s) \/ SetFail(s) \/ SetCrash(s)
    <3>1. /\ set[s].pc # "new" /\ set'[s].keys = set[s].keys
          /\ \/ set'[s].pc \in {"drop", "err", "dead"}
             \/ set[s].pc \in Opening /\ set'[s].pc \in {"dropall", "undo"}
      <4>1. CASE SetDropBlob(s)
        BY <1>1, <4>1 DEF SetDropBlob, SetGoto, SetCall
      <4>2. CASE SetDropMeta(s)
        <5>1. CASE SetGoto(s, "err")
          BY <1>1, <4>2, <5>1 DEF SetDropMeta, SetGoto, SetCall
        <5>2. CASE \E k \in set[s].open : set' = [set EXCEPT ![s].open = @ \ {k}]
          <6>1. PICK k \in set[s].open : set' = [set EXCEPT ![s].open = @ \ {k}]
            BY <5>2
          <6> QED BY <1>1, <4>2, <6>1 DEF SetDropMeta, SetCall, Opening
        <5> QED BY <4>2, <5>1, <5>2 DEF SetDropMeta
      <4>3. CASE SetFail(s)
        BY <1>1, <4>3 DEF SetFail, SetGoto, SetCall, Opening
      <4>4. CASE SetCrash(s)
        BY <1>1, <4>4 DEF SetCrash, SetGoto, SetCall, Running
      <4> QED BY <2>5, <4>1, <4>2, <4>3, <4>4
    <3> QED BY <1>1, <1>3, <3>1 DEF SetStored, Opening
  <2>6. CASE SetMissesDir(s) \/ SetMakeDir(s)
    <3>1. /\ set[s].pc \in {"putblob", "putmeta"}
          /\ set'[s].pc \in {set[s].pc, "err", "undo"} /\ set'[s].keys = set[s].keys
      BY <2>6, DirStep
    <3> QED BY <1>1, <1>3, <3>1 DEF SetStored, Opening
  <2> QED BY <2>1, <2>2, <2>3, <2>4, <2>5, <2>6
<1> QED BY <1>2, <1>4, SameStored DEF StoredInv

\* Renaming a meta stores the set under that key, and under no other.
LEMMA SetCloseMetaStored ==
    ASSUME TypeInv, StoredInv, NEW s \in Setter, SetCloseMeta(s)
    PROVE  StoredInv'
<1>1. /\ set \in [Setter -> SetCall] /\ set[s] \in SetCall /\ SetStored(s)
      /\ set[s].pc = "closemeta" /\ set[s].keys \in Stores
      /\ set[s].keys \in Seq(Key) /\ set[s].i \in DOMAIN set[s].keys
  BY DEF TypeInv, SetType, SetPlace, SetCall, StoredInv, SetStored, SetCloseMeta
<1>2. \A r \in Setter \ {s} : set'[r] = set[r]
  BY <1>1 DEF SetCloseMeta
<1>3. CASE UNCHANGED stored /\ set'[s].pc = "drop" /\ set'[s].keys = set[s].keys
  <2>1. SetStored(s)'
    BY <1>1, <1>3 DEF SetStored, Opening
  <2> QED BY <1>2, <1>3, <2>1, SameStored DEF StoredInv
<1>4. CASE /\ stored' = [stored EXCEPT ![SKey(s)] = Append(@, s)]
           /\ set'[s].pc = (IF LastKey(s) THEN "ok" ELSE "writemeta")
           /\ set'[s].i = set[s].i + 1 /\ set'[s].keys = set[s].keys
  <2>1. SKey(s) \in Key
    BY <1>1 DEF SKey
  <2>2. \A l \in Key, r \in Setter :
           Published(l, r)' <=> Published(l, r) \/ (l = SKey(s) /\ r = s)
    BY <1>4, <2>1, AppendPublished
  <2>3. \A r \in Setter \ {s} : SetStored(r)'
    <3> SUFFICES ASSUME NEW r \in Setter \ {s} PROVE SetStored(r)'
      OBVIOUS
    <3>1. SetStored(r) /\ set'[r] = set[r] /\ set[r].keys \in Seq(Key)
      BY <1>1, <1>2 DEF StoredInv, SetCall
    <3>2. \A j \in DOMAIN set[r].keys : set[r].keys[j] \in Key
      BY <3>1
    <3>3. \A l \in Key : Published(l, r)' <=> Published(l, r)
      BY <2>2
    <3> QED BY <3>1, <3>2, <3>3 DEF SetStored
  <2>4. \A j \in DOMAIN set[s].keys : Published(set[s].keys[j], s)' <=> j < set[s].i + 1
    <3>1. SUFFICES ASSUME NEW j \in DOMAIN set[s].keys
                   PROVE  Published(set[s].keys[j], s)' <=> j < set[s].i + 1
      OBVIOUS
    <3>2. set[s].keys[j] = SKey(s) <=> j = set[s].i
      BY <1>1, KeyListAssumption DEF SKey
    <3>3. set[s].keys[j] \in Key /\ j \in Nat /\ set[s].i \in Nat
      BY <1>1
    <3>4. Published(set[s].keys[j], s) <=> j < set[s].i
      BY <1>1 DEF SetStored
    <3>5. j < set[s].i + 1 <=> j < set[s].i \/ j = set[s].i
      BY <3>3
    <3>6. Published(set[s].keys[j], s)' <=>
             Published(set[s].keys[j], s) \/ set[s].keys[j] = SKey(s)
      <4>1. PICK k \in Key : k = set[s].keys[j]
        BY <3>3
      <4>2. Published(k, s)' <=> Published(k, s) \/ k = SKey(s)
        BY <2>2
      <4>3. set'[s].keys[j] = k
        BY <1>4, <4>1
      <4> QED BY <4>1, <4>2, <4>3 DEF Published
    <3> QED BY <3>2, <3>4, <3>5, <3>6
  <2>5. LastKey(s) => \A j \in DOMAIN set[s].keys : j < set[s].i + 1
    BY <1>1 DEF LastKey
  <2>6. SetStored(s)'
    BY <1>1, <1>4, <2>4, <2>5 DEF SetStored, Opening
  <2> QED BY <2>3, <2>6 DEF StoredInv
<1> QED BY <1>1, <1>3, <1>4 DEF SetCloseMeta, SetCall

LEMMA NextStored == ASSUME TypeInv, StoredInv, [Next]_vars PROVE StoredInv'
<1>1. CASE \E s \in Setter : SetStart(s) \/ SetStep(s) \/ SetFail(s) \/ SetCrash(s)
  <2>1. PICK s \in Setter : SetStart(s) \/ SetStep(s) \/ SetFail(s) \/ SetCrash(s)
    BY <1>1
  <2>2. CASE SetCloseMeta(s)
    BY <2>2, SetCloseMetaStored
  <2>3. CASE ~SetCloseMeta(s)
    <3>1. UNCHANGED stored
      BY <2>1, <2>3
         DEF SetStart, SetStep, SetMissesDir, SetMakeDir, SetPutBlob, SetPutMeta,
             SetCloseBlob, SetWriteMeta, SetDropBlob, SetDropMeta, SetFail, SetCrash
    <3> QED BY <2>1, <2>3, <3>1, SetKeepsStored DEF SetStep
  <2> QED BY <2>2, <2>3
<1>2. CASE \E g \in Getter : GetStart(g) \/ GetStep(g) \/ GetFail(g) \/ GetCrash(g)
  <2>1. UNCHANGED <<stored, set>>
    BY <1>2 DEF GetStart, GetStep, GetReadMeta, GetPut, GetWrite, GetClose, GetOpenBlob,
                GetFail, GetCrash, GetFrame
  <2> QED BY <2>1, SameStored DEF StoredInv
<1>3. CASE \E c \in Cleaner : CleanStart(c) \/ CleanStep(c) \/ CleanFail(c)
  <2>1. UNCHANGED <<stored, set>>
    BY <1>3 DEF CleanStart, CleanStep, CleanSeeBlob, CleanSizeBlob, CleanListMeta,
          CleanListDir, CleanReadMeta, CleanPlan, CleanEvict, CleanDelMeta, CleanDelBlob,
          CleanFail, CleanFrame
  <2> QED BY <2>1, SameStored DEF StoredInv
<1>4. CASE Tick \/ UNCHANGED vars
  <2>1. UNCHANGED <<stored, set>>
    BY <1>4 DEF Tick, vars
  <2> QED BY <2>1, SameStored DEF StoredInv
<1> QED BY <1>1, <1>2, <1>3, <1>4 DEF Next

LEMMA InitAbstract == Init => Abstract!Init
<1> SUFFICES ASSUME Init PROVE Abstract!Init
  OBVIOUS
<1>1. Request = [s \in Setter |-> Short]
  BY DEF Init, Request
<1>2. Answers = [g \in Getter |-> Short]
  BY DEF Init, Answers, AnswerOf
<1>3. Outcome = [s \in Setter |-> Short]
  BY DEF Init, Outcome, OutcomeOf
<1>4. LookedUp = [g \in Getter |-> Short] /\ Forgetful = FALSE
  BY DEF Init, LookedUp, LookupOf, Forgetful
<1> QED BY <1>1, <1>2, <1>3, <1>4
        DEF Init, Abstract!Init, Request, Answers, Outcome, LookedUp, Forgetful

\* What the steps of a get leave of what the callers see.
LEMMA OtherGets ==
    ASSUME TypeInv, NEW g \in Getter,
           GetStart(g) \/ GetStep(g) \/ GetFail(g) \/ GetCrash(g)
    PROVE  /\ UNCHANGED <<stored, Forgetful, Request, Outcome>>
           /\ Answers[g] = Short
           /\ Answers' = [Answers EXCEPT ![g] = AnswerOf(g)']
           /\ LookedUp' = [LookedUp EXCEPT ![g] = LookupOf(g)']
<1>1. UNCHANGED <<stored, set, clean>>
  BY DEF GetStart, GetStep, GetReadMeta, GetPut, GetWrite, GetClose, GetOpenBlob, GetFail,
         GetCrash, GetFrame
<1>2. get[g].pc \notin Ended
  BY DEF GetStart, GetStep, GetReadMeta, GetPut, GetWrite, GetClose, GetOpenBlob, GetFail,
         GetCrash, Ended, Running
<1>3. \A h \in Getter \ {g} : get'[h] = get[h]
  BY GetMoves
<1>4. \A h \in Getter \ {g} : AnswerOf(h)' = AnswerOf(h) /\ LookupOf(h)' = LookupOf(h)
  BY <1>3 DEF AnswerOf, GKey, LookupOf
<1>5. UNCHANGED <<Forgetful, Request, Outcome>>
  BY <1>1 DEF Forgetful, Request, Outcome, OutcomeOf
<1>6. Answers[g] = Short
  BY <1>2 DEF AnswerOf, Answers, Ended
<1> QED BY <1>1, <1>4, <1>5, <1>6 DEF Answers, LookedUp

\* The keys of a get are looked up with what is stored when it is called.
LEMMA GetStartAbstract ==
    ASSUME TypeInv, NEW g \in Getter, GetStart(g) PROVE Abstract!LookUp(g)
<1>1. /\ get \in [Getter -> GetCall] /\ stored \in [Key -> Seq(Setter)]
      /\ get[g].pc = "new"
  BY DEF TypeInv, StoreType, GetType, GetStart
<1>2. PICK ks \in Lookups :
         get' = [get EXCEPT ![g].pc = "read", ![g].keys = ks,
                            ![g].mark = [k \in Key |-> Len(stored[k])]]
  BY DEF GetStart
<1>3. /\ get'[g].pc = "read" /\ get'[g].keys = ks
      /\ get'[g].mark = [k \in Key |-> Len(stored[k])]
  BY <1>1, <1>2 DEF GetCall
<1>4. {k \in Key : get'[g].mark[k] > 0} = {k \in Key : stored[k] # <<>>}
  BY <1>1, <1>3
<1>5. LookupOf(g)' = [keys |-> ks, entries |-> {k \in Key : stored[k] # <<>>}]
  BY <1>3, <1>4 DEF LookupOf
<1>6. AnswerOf(g)' = Short
  BY <1>3 DEF AnswerOf
<1>7. /\ UNCHANGED <<stored, Forgetful, Request, Outcome>> /\ Answers[g] = Short
      /\ Answers' = [Answers EXCEPT ![g] = Short]
      /\ LookedUp' = [LookedUp EXCEPT ![g] =
            [keys |-> ks, entries |-> {k \in Key : stored[k] # <<>>}]]
  BY <1>5, <1>6, OtherGets
<1>8. UNCHANGED Answers
  BY <1>7 DEF Answers
<1>9. LookedUp[g] = Short
  BY <1>1 DEF LookedUp, LookupOf
<1> QED BY <1>7, <1>8, <1>9

           DEF Abstract!LookUp, Abstract!Entries, LookedUp, Answers, Request, Outcome,
               Forgetful

\* A get that is answered is answered once, and with what the keys it has gone
\* through allow: no hit after the last of them, a hit under the one it is at.
LEMMA GetAbstract ==
    ASSUME TypeInv, TypeInv', FlowInv', KeptInv, NEW g \in Getter,
           GetStep(g) \/ GetFail(g) \/ GetCrash(g), get[g].pc # "new"
    PROVE  Abstract!Answer(g) \/ UNCHANGED Seen
<1>1. /\ get \in [Getter -> GetCall] /\ get[g].keys \in Seq(Key) /\ get[g].i \in Nat
      /\ get[g].i >= 1
      /\ Reads(g) \/ Skips(g) \/ Goes(g)
  BY GetMoves DEF TypeInv, GetType, GetPlace, GetCall, Starts
<1>2. /\ get'[g].pc # "new" /\ get'[g].keys = get[g].keys /\ get'[g].mark = get[g].mark
  BY <1>1 DEF Reads, Skips, Goes, Same
<1>3. /\ UNCHANGED <<stored, Forgetful, Request, Outcome>> /\ Answers[g] = Short
      /\ Answers' = [Answers EXCEPT ![g] = AnswerOf(g)']
      /\ LookedUp' = [LookedUp EXCEPT ![g] = LookupOf(g)']
  BY OtherGets
<1>4. /\ LookedUp[g] = [keys |-> get[g].keys, entries |-> {k \in Key : get[g].mark[k] > 0}]
      /\ UNCHANGED LookedUp
  <2>1. LookedUp[g] = LookupOf(g)
    BY DEF LookedUp
  <2>2. LookupOf(g) = [keys |-> get[g].keys, entries |-> {k \in Key : get[g].mark[k] > 0}]
    BY DEF LookupOf
  <2>3. LookupOf(g)' = LookupOf(g)
    BY <1>2, <2>2 DEF LookupOf
  <2>4. UNCHANGED LookedUp
    BY <1>3, <2>1, <2>3 DEF LookedUp
  <2> QED BY <2>1, <2>2, <2>4
<1>5. LookedUp[g] # Short
  BY <1>1, <1>4, AnswerAssumption
<1>6. Forgetful \/ \A i \in 1..(get[g].i - 1) : LookedUp[g].keys[i] \notin LookedUp[g].entries
  BY <1>4 DEF KeptInv, Kept, Passed, Forgetful
<1>7. CASE get'[g].pc = "hit"
  <2>1. get'[g].i = get[g].i
    BY <1>1, <1>7 DEF Reads, Skips, Goes, Same
  <2>2. /\ get'[g].body = "complete" /\ get[g].i \in DOMAIN get[g].keys
        /\ GKey(g)' = get[g].keys[get[g].i] /\ get'[g].meta \in Meta
        /\ Published(GKey(g), get[g].meta.blob)'
    BY <1>2, <1>7, <2>1 DEF FlowInv, GetFlow, TypeInv, GetType, GetPlace, GKey
  <2>3. get'[g].meta.blob \in Setter
    BY <2>2 DEF Meta
  <2>4. AnswerOf(g)' = {[key |-> GKey(g)', content |-> get'[g].meta.blob]}
    BY <1>7, <2>2 DEF AnswerOf
  <2>5. Abstract!MayPass(g, get[g].i - 1)
    BY <1>6 DEF Abstract!MayPass, LookedUp, Forgetful
  <2>6. Abstract!Holds(stored[get[g].keys[get[g].i]], get'[g].meta.blob)
    BY <1>3, <2>2 DEF Abstract!Holds, Published
  <2>7. Answers' = [Answers EXCEPT ![g] =
           {[key |-> get[g].keys[get[g].i], content |-> get'[g].meta.blob]}]
    BY <1>3, <2>2, <2>4
  <2>8. get[g].i \in DOMAIN LookedUp[g].keys /\ LookedUp[g].keys = get[g].keys
    BY <1>4, <2>2
  <2>9. Abstract!Hit(g)
    BY <2>3, <2>5, <2>6, <2>7, <2>8 DEF Abstract!Hit, LookedUp, Answers
  <2> QED BY <1>3, <1>4, <1>5, <2>9
          DEF Abstract!Answer, LookedUp, Answers, Request, Outcome, Forgetful
<1>8. CASE get'[g].pc = "none"
  <2>1. get[g].i > Len(get[g].keys)
    <3>1. GetReadMeta(g) /\ GetGoto(g, "none")
      BY <1>1, <1>8
         DEF GetStep, GetReadMeta, GetPut, GetWrite, GetClose, GetOpenBlob, GetFail,
             GetCrash, GetGoto, TryNextKey, GetCall
    <3>2. \/ get[g].i > Len(get[g].keys)
          \/ TryNextKey(g) \/ GetGoto(g, "err")
          \/ get' = [get EXCEPT ![g].pc = "put",
                        ![g].meta = [file[GKey(g)] EXCEPT !.access = now]]
      BY <3>1 DEF GetReadMeta
    <3> QED BY <1>1, <1>8, <3>2 DEF TryNextKey, GetGoto, GetCall
  <2>2. AnswerOf(g)' = {}
    BY <1>8 DEF AnswerOf
  <2>3. Abstract!MayPass(g, Len(LookedUp[g].keys))
    <3>1. \A i \in 1..Len(LookedUp[g].keys) : i \in 1..(get[g].i - 1)
      BY <1>1, <1>4, <2>1
    <3> QED BY <1>6, <3>1 DEF Abstract!MayPass, LookedUp, Forgetful
  <2>4. Abstract!Miss(g)
    BY <1>3, <2>2, <2>3 DEF Abstract!Miss, LookedUp, Answers
  <2> QED BY <1>3, <1>4, <1>5, <2>4
          DEF Abstract!Answer, LookedUp, Answers, Request, Outcome, Forgetful
<1>9. CASE get'[g].pc \in {"err", "dead"}
  <2>1. AnswerOf(g)' = Absent
    BY <1>9 DEF AnswerOf
  <2> QED BY <1>3, <1>4, <1>5, <2>1
          DEF Abstract!Answer, LookedUp, Answers, Request, Outcome, Forgetful
<1>10. CASE get'[g].pc \notin {"hit", "none", "err", "dead"}
  <2>1. AnswerOf(g)' = Short
    BY <1>10 DEF AnswerOf
  <2>2. Answers' = Answers
    BY <1>3, <2>1 DEF Answers
  <2> QED BY <1>3, <1>4, <2>2 DEF Seen
<1> QED BY <1>7, <1>8, <1>9, <1>10

\* What a step of one set leaves of what the callers see.
LEMMA OtherSets ==
    ASSUME TypeInv, NEW s \in Setter, UNCHANGED <<get, clean>>,
           \A r \in Setter \ {s} : set'[r] = set[r],
           set[s].pc # "new", set'[s].pc # "new", set'[s].keys = set[s].keys
    PROVE  /\ UNCHANGED <<Forgetful, LookedUp, Request, Answers>>
           /\ Request[s] = set[s].keys
           /\ Outcome' = [Outcome EXCEPT ![s] = OutcomeOf(s)']
<1>1. \A r \in Setter \ {s} : OutcomeOf(r)' = OutcomeOf(r)
  BY DEF OutcomeOf
<1>2. UNCHANGED Request /\ Request[s] = set[s].keys
  BY DEF Request
<1>3. UNCHANGED <<Forgetful, LookedUp, Answers>>
  BY DEF Forgetful, LookedUp, LookupOf, Answers, AnswerOf, GKey
<1> QED BY <1>1, <1>2, <1>3 DEF Outcome

\* A call of set, and every step of one that renames no meta.
LEMMA SetAbstract ==
    ASSUME TypeInv, StoredInv, StoredInv', NEW s \in Setter, UNCHANGED stored,
           \/ SetStart(s) \/ SetMissesDir(s) \/ SetMakeDir(s) \/ SetPutBlob(s)
           \/ SetPutMeta(s) \/ SetCloseBlob(s) \/ SetWriteMeta(s) \/ SetDropBlob(s)
           \/ SetDropMeta(s) \/ SetFail(s) \/ SetCrash(s)
    PROVE  \/ Abstract!Request(s) \/ Abstract!Finish(s)
           \/ UNCHANGED Seen
<1>1. /\ set \in [Setter -> SetCall] /\ set[s] \in SetCall /\ UNCHANGED get
      /\ set[s].pc \notin Ended /\ UNCHANGED clean
      /\ \A r \in Setter \ {s} : set'[r] = set[r]
  <2>1. set \in [Setter -> SetCall]
    BY DEF TypeInv, SetType
  <2>2. UNCHANGED <<get, clean>> /\ set[s].pc \notin Ended
    BY DEF SetStart, SetMissesDir, SetMakeDir, SetPutBlob, SetPutMeta, SetCloseBlob,
           SetWriteMeta, SetDropBlob, SetDropMeta, SetFail, SetCrash, SetFrame,
           Running, Ended
  <2>3. \A r \in Setter \ {s} : set'[r] = set[r]
    BY <2>1, DirStep
       DEF SetStart, SetPutBlob, SetPutMeta, SetCloseBlob, SetWriteMeta, SetDropBlob,
           SetDropMeta, SetFail, SetCrash, SetGoto
  <2> QED BY <2>1, <2>2, <2>3
<1>2. OutcomeOf(s) = Short /\ Outcome[s] = Short
  BY <1>1 DEF OutcomeOf, Outcome, Ended
<1>3. CASE SetStart(s)
  <2>1. PICK ks \in Stores :
           set' = [set EXCEPT ![s].pc = "putblob", ![s].keys = ks, ![s].at = now]
    BY <1>3 DEF SetStart
  <2>2. set[s].pc = "new" /\ set'[s].pc = "putblob" /\ set'[s].keys = ks
    BY <1>1, <1>3, <2>1 DEF SetStart, SetCall
  <2>3. Request[s] = Short /\ Request' = [Request EXCEPT ![s] = ks]
    BY <1>1, <2>2 DEF Request
  <2>4. \A r \in Setter : OutcomeOf(r)' = OutcomeOf(r)
    BY <1>1, <1>2, <2>2 DEF OutcomeOf
  <2>5. UNCHANGED <<Forgetful, LookedUp, Answers, Outcome>>
    BY <1>1, <2>4 DEF Forgetful, LookedUp, LookupOf, Answers, AnswerOf, GKey, Outcome
  <2> QED BY <2>3, <2>5
          DEF Abstract!Request, LookedUp, Answers, Request, Outcome, Forgetful
<1>4. CASE ~SetStart(s)
  <2>1. set[s].pc # "new" /\ set'[s].pc # "new" /\ set'[s].keys = set[s].keys
    <3>1. CASE SetPutBlob(s) \/ SetCloseBlob(s) \/ SetWriteMeta(s) \/ SetDropBlob(s)
      BY <1>1, <3>1
         DEF SetPutBlob, SetCloseBlob, SetWriteMeta, SetDropBlob, SetGoto, SetCall
    <3>2. CASE SetPutMeta(s)
      BY <1>1, <3>2 DEF SetPutMeta, SetCall
    <3>3. CASE SetDropMeta(s)
      <4>1. CASE SetGoto(s, "err")
        BY <1>1, <3>3, <4>1 DEF SetDropMeta, SetGoto, SetCall
      <4>2. CASE \E k \in set[s].open : set' = [set EXCEPT ![s].open = @ \ {k}]
        <5>1. PICK k \in set[s].open : set' = [set EXCEPT ![s].open = @ \ {k}]
          BY <4>2
        <5> QED BY <1>1, <3>3, <5>1 DEF SetDropMeta, SetCall
      <4> QED BY <3>3, <4>1, <4>2 DEF SetDropMeta
    <3>4. CASE SetFail(s)
      BY <1>1, <3>4 DEF SetFail, SetGoto, SetCall
    <3>5. CASE SetCrash(s)
      BY <1>1, <3>5 DEF SetCrash, SetGoto, SetCall, Running
    <3>6. CASE SetMissesDir(s) \/ SetMakeDir(s)
      BY <3>6, DirStep
    <3> QED BY <1>4, <3>1, <3>2, <3>3, <3>4, <3>5, <3>6
  <2>2. /\ UNCHANGED <<Forgetful, LookedUp, Request, Answers>> /\ Request[s] = set[s].keys
        /\ Outcome' = [Outcome EXCEPT ![s] = OutcomeOf(s)']
    BY <1>1, <2>1, OtherSets
  <2>3. Request[s] # Short
    BY <2>1, <2>2, AnswerAssumption DEF StoredInv, SetStored
  <2>4. CASE set'[s].pc = "ok"
    <3>1. OutcomeOf(s)' = "ok"
      BY <2>4 DEF OutcomeOf
    <3>2. \A i \in DOMAIN set[s].keys : Published(set[s].keys[i], s)
      BY <2>1, <2>4 DEF StoredInv, SetStored, Published
    <3> QED BY <1>2, <2>2, <2>3, <3>1, <3>2
            DEF Abstract!Finish, Abstract!Holds, Published, LookedUp, Answers, Request,
                Outcome, Forgetful
  <2>5. CASE set'[s].pc \in {"err", "dead"}
    <3>1. OutcomeOf(s)' = Absent
      BY <2>5 DEF OutcomeOf
    <3> QED BY <1>2, <2>2, <2>3, <3>1, AnswerAssumption
            DEF Abstract!Finish, LookedUp, Answers, Request, Outcome, Forgetful
  <2>6. CASE set'[s].pc \notin {"ok", "err", "dead"}
    <3>1. OutcomeOf(s)' = Short
      BY <2>6 DEF OutcomeOf
    <3>2. Outcome' = Outcome
      BY <1>2, <2>2, <3>1 DEF Outcome
    <3> QED BY <2>2, <3>2 DEF Seen
  <2> QED BY <2>4, <2>5, <2>6
<1> QED BY <1>3, <1>4

\* Renaming a meta: the set has stored under one more of its keys, and the
\* last one makes it succeed; if the rename fails nothing is stored.
LEMMA SetCloseMetaAbstract ==
    ASSUME TypeInv, StoredInv, StoredInv', NEW s \in Setter, SetCloseMeta(s)
    PROVE  Abstract!Store(s) \/ UNCHANGED Seen
<1>1. /\ set \in [Setter -> SetCall] /\ set[s] \in SetCall /\ UNCHANGED <<get, clean>>
      /\ set[s].pc = "closemeta" /\ set[s].keys \in Stores
      /\ set[s].keys \in Seq(Key) /\ set[s].i \in DOMAIN set[s].keys /\ set[s].i \in Nat
  BY DEF TypeInv, SetType, SetPlace, SetCall, StoredInv, SetStored, SetCloseMeta, SetFrame
<1>2. /\ \A r \in Setter \ {s} : set'[r] = set[r]
      /\ set'[s].pc # "new" /\ set'[s].keys = set[s].keys
  BY <1>1 DEF SetCloseMeta, SetCall
<1>3. /\ UNCHANGED <<Forgetful, LookedUp, Request, Answers>> /\ Request[s] = set[s].keys
      /\ Outcome' = [Outcome EXCEPT ![s] = OutcomeOf(s)']
  BY <1>1, <1>2, OtherSets
<1>4. Outcome[s] = Short /\ Request[s] # Short
  BY <1>1, <1>3, AnswerAssumption DEF Outcome, OutcomeOf
<1>5. CASE UNCHANGED stored /\ set'[s].pc = "drop"
  <2>1. OutcomeOf(s)' = Short
    BY <1>5 DEF OutcomeOf
  <2>2. Outcome' = Outcome
    BY <1>3, <1>4, <2>1 DEF Outcome
  <2> QED BY <1>3, <1>5, <2>2 DEF Seen
<1>6. CASE /\ stored' = [stored EXCEPT ![SKey(s)] = Append(@, s)]
           /\ set'[s].pc = (IF LastKey(s) THEN "ok" ELSE "writemeta")
  <2>1. ~Published(SKey(s), s)
    BY <1>1 DEF StoredInv, SetStored, SKey
  <2>2. Outcome' \in {Outcome, [Outcome EXCEPT ![s] = "ok"]}
    <3>1. OutcomeOf(s)' \in {Short, "ok"}
      BY <1>6 DEF OutcomeOf
    <3>2. Outcome = [Outcome EXCEPT ![s] = Short]
      BY <1>4 DEF Outcome
    <3> QED BY <1>3, <3>1, <3>2
  <2>3. Outcome'[s] = "ok" =>
           \A i \in DOMAIN set[s].keys : Published(set[s].keys[i], s)'
    <3>1. Outcome'[s] = OutcomeOf(s)'
      BY DEF Outcome
    <3>2. OutcomeOf(s)' = "ok" => set'[s].pc = "ok"
      BY AnswerAssumption DEF OutcomeOf
    <3> QED BY <1>2, <3>1, <3>2 DEF StoredInv, SetStored, Published
  <2>4. \E i \in DOMAIN Request[s] :
           /\ ~Abstract!Holds(stored[Request[s][i]], s)
           /\ stored' = [stored EXCEPT ![Request[s][i]] = Append(@, s)]
    BY <1>1, <1>3, <1>6, <2>1 DEF SKey, Published, Abstract!Holds
  <2>5. Outcome'[s] = "ok" =>
           \A i \in DOMAIN Request[s] : Abstract!Holds(stored'[Request[s][i]], s)
    BY <1>2, <1>3, <2>3 DEF Published, Abstract!Holds
  <2> QED BY <1>3, <1>4, <2>2, <2>4, <2>5
          DEF Abstract!Store, LookedUp, Answers, Request, Outcome, Forgetful
<1> QED BY <1>1, <1>5, <1>6 DEF SetCloseMeta, SetCall

LEMMA NextAbstract ==
    ASSUME TypeInv, TypeInv', FlowInv', KeptInv, StoredInv, StoredInv', [Next]_vars
    PROVE  [Abstract!Next]_Seen
<1>1. CASE \E g \in Getter : GetStart(g) \/ GetStep(g) \/ GetFail(g) \/ GetCrash(g)
  <2>1. PICK g \in Getter : GetStart(g) \/ GetStep(g) \/ GetFail(g) \/ GetCrash(g)
    BY <1>1
  <2>2. CASE GetStart(g)
    BY <2>2, GetStartAbstract
       DEF Abstract!Next, LookedUp, Answers, Request, Outcome, Forgetful
  <2>3. CASE ~GetStart(g)
    <3>1. get[g].pc # "new"
      BY <2>1, <2>3 DEF GetStep, GetReadMeta, GetPut, GetWrite, GetClose, GetOpenBlob,
            GetFail, GetCrash, Running
    <3>2. Abstract!Answer(g) \/ UNCHANGED Seen
      BY <2>1, <2>3, <3>1, GetAbstract
    <3> QED BY <3>2 DEF Abstract!Next, LookedUp, Answers, Request, Outcome, Forgetful
  <2> QED BY <2>2, <2>3
<1>2. CASE \E s \in Setter : SetStart(s) \/ SetStep(s) \/ SetFail(s) \/ SetCrash(s)
  <2>1. PICK s \in Setter : SetStart(s) \/ SetStep(s) \/ SetFail(s) \/ SetCrash(s)
    BY <1>2
  <2>2. CASE SetCloseMeta(s)
    BY <2>2, SetCloseMetaAbstract
       DEF Abstract!Next, LookedUp, Answers, Request, Outcome, Forgetful
  <2>3. CASE ~SetCloseMeta(s)
    <3>1. UNCHANGED stored
      BY <2>1, <2>3
         DEF SetStart, SetStep, SetMissesDir, SetMakeDir, SetPutBlob, SetPutMeta,
             SetCloseBlob, SetWriteMeta, SetDropBlob, SetDropMeta, SetFail, SetCrash
    <3>2. Abstract!Request(s) \/ Abstract!Finish(s) \/ UNCHANGED Seen
      BY <2>1, <2>3, <3>1, SetAbstract DEF SetStep
    <3> QED BY <3>2 DEF Abstract!Next, LookedUp, Answers, Request, Outcome, Forgetful
  <2> QED BY <2>2, <2>3
<1>3. CASE \E c \in Cleaner : CleanStart(c) \/ CleanStep(c) \/ CleanFail(c)
  <2>1. UNCHANGED <<stored, get, set>>
    BY <1>3 DEF CleanStart, CleanStep, CleanSeeBlob, CleanSizeBlob, CleanListMeta,
          CleanListDir, CleanReadMeta, CleanPlan, CleanEvict, CleanDelMeta, CleanDelBlob,
          CleanFail, CleanFrame
  <2>2. UNCHANGED <<LookedUp, Answers, Request, Outcome>>
    BY <2>1 DEF LookedUp, LookupOf, Answers, AnswerOf, GKey, Request, Outcome, OutcomeOf
  <2>3. Forgetful' = TRUE
    BY <1>3, CleansRun DEF Forgetful
  <2>4. Abstract!Forget
    BY <2>1, <2>2, <2>3
       DEF Abstract!Forget, LookedUp, Answers, Request, Outcome, Forgetful
  <2> QED BY <2>4 DEF Abstract!Next, LookedUp, Answers, Request, Outcome, Forgetful
<1>4. CASE Tick \/ UNCHANGED vars
  <2>1. UNCHANGED <<stored, get, set, clean>>
    BY <1>4 DEF Tick, vars
  <2> QED BY <2>1 DEF Seen, LookedUp, LookupOf, Answers, AnswerOf, GKey, Request, Outcome,
             OutcomeOf, Forgetful
<1> QED BY <1>1, <1>2, <1>3, <1>4 DEF Next

\* The local cache keeps the promises of the Cache trait: every step of a
\* get, a set or a clean is one of CacheSpec, or one the callers do not see.
THEOREM Implements == Spec => ImplementsCache
<1> DEFINE RefInv == TypeInv /\ FlowInv /\ FreshInv /\ KeptInv /\ StoredInv
<1>1. Init => RefInv
  BY InitType, InitFlow, InitFresh, InitKept, InitStored
<1>2. RefInv /\ [Next]_vars => RefInv'
  BY NextType, NextFlow, NextFresh, NextKept, NextStored
<1>3. RefInv /\ RefInv' /\ [Next]_vars => [Abstract!Next]_Seen
  BY NextAbstract
<1> HIDE DEF RefInv
<1>4. Spec => Abstract!Init /\ [][Abstract!Next]_Seen
  BY <1>1, <1>2, <1>3, InitAbstract, PTL DEF Spec
<1> QED BY <1>4, PTL

           DEF ImplementsCache, Abstract!Spec, Abstract!vars, Seen, LookedUp, Answers,
               Request, Outcome, Forgetful

-----------------------------------------------------------------------------
(* Without faults, and when no clean can take a staged file for a meta     *)
(* file: what a call has staged is there until it renames it, and the only *)
(* set that fails has lost a race for a directory.  A key with a short     *)
(* file is blamed on such a set: what it had staged for the key is renamed *)
(* when the set gives up.                                                  *)

Calm == NoFaults /\ Collide = {}
Blamed(k) == \E s \in Setter : LostRace(s) /\ \E j \in 1..(set[s].i - 1) : set[s].keys[j] = k
GetCalm(g) ==
    /\ get[g].pc # "dead" /\ (get[g].pc = "err" => Blamed(GKey(g)))
    /\ get[g].pc = "write" => file[g] # Absent
    /\ get[g].pc = "close" => file[g] \in Meta
SetCalm(s) ==
    /\ set[s].pc \notin {"dropall", "drop", "dead"}
    /\ set[s].pc \in {"undo", "err"} => LostRace(s)
    /\ set[s].pc \notin {"putblob", "putmeta", "undo", "err"} => set[s].dir = Absent
    /\ \A k \in set[s].open : file[<<s, k>>] # Absent
    /\ set[s].pc \in {"new", "putblob"} => set[s].open = {}
    /\ set[s].pc \in {"putmeta", "undo"} =>
          \A k \in set[s].open : \E j \in 1..(set[s].i - 1) : set[s].keys[j] = k
    /\ set[s].pc = "putmeta" =>
          \A j \in DOMAIN set[s].keys : j < set[s].i => set[s].keys[j] \in set[s].open
    /\ set[s].pc \in {"write", "writemeta", "closemeta"} =>
          \A j \in DOMAIN set[s].keys : j >= set[s].i => set[s].keys[j] \in set[s].open
    /\ set[s].pc = "closemeta" => file[<<s, SKey(s)>>] \in Meta
CalmInv == Calm => /\ \A k \in Key : file[k] = Short => Blamed(k)
                   /\ \A g \in Getter : GetCalm(g)
                   /\ \A s \in Setter : SetCalm(s)

LEMMA InitCalm == Init => CalmInv
  BY NameAssumption DEF Init, CalmInv, GetCalm, SetCalm, File

LEMMA CalmBefore ==
    ASSUME TypeInv, [Next]_vars, Calm'
    PROVE  Calm /\ ~Fault
<1>1. faults \in Nat
  BY BoundsAssumption DEF TypeInv, StoreType
<1>2. ~Fault
  BY <1>1 DEF Fault, Calm, NoFaults
<1>3. faults = 0
  BY <1>1, <1>2
     DEF Calm, NoFaults, vars, Next, GetStart, GetStep, GetReadMeta, GetPut, GetWrite,
         GetClose, GetOpenBlob, GetFail, GetCrash, SetStart, SetStep, SetMissesDir,
         SetMakeDir, SetPutBlob, SetPutMeta, SetCloseBlob, SetWriteMeta, SetCloseMeta,
         SetDropBlob, SetDropMeta, SetFail, SetCrash, CleanStart, CleanStep, CleanSeeBlob,
         CleanSizeBlob, CleanListMeta, CleanListDir, CleanReadMeta, CleanPlan, CleanEvict,
         CleanDelMeta, CleanDelBlob, CleanFail, Tick
<1> QED BY <1>2, <1>3 DEF Calm, NoFaults

\* A set that has lost a race goes to no other key any more.
BlameStays ==
    \A s \in Setter : LostRace(s) =>
        LostRace(s)' /\ set'[s].keys = set[s].keys /\ set'[s].i = set[s].i

\* Calls are not disturbed by steps that leave them and their files alone.
LEMMA OtherCalm ==
    ASSUME TypeInv, Calm, CalmInv, BlameStays,
           \A k \in Key : file'[k] = Short => file[k] = Short \/ Blamed(k)',
           \A g \in Getter :
              (get'[g] = get[g] /\ file'[g] = file[g]) \/ GetCalm(g)',
           \A s \in Setter :
              \/ set'[s] = set[s] /\ \A k \in Key : file'[<<s, k>>] = file[<<s, k>>]
              \/ SetCalm(s)'
    PROVE  CalmInv'
<1>1. \A k : Blamed(k) => Blamed(k)'
  BY DEF BlameStays, Blamed
<1>2. ASSUME NEW g \in Getter PROVE GetCalm(g)'
  <2>1. CASE get'[g] = get[g] /\ file'[g] = file[g]
    <3>1. GKey(g)' = GKey(g) /\ GetCalm(g)
      BY <2>1 DEF GKey, CalmInv
    <3>2. Blamed(GKey(g)) => Blamed(GKey(g))'
      BY <1>1, <3>1 DEF Blamed
    <3> QED BY <2>1, <3>1, <3>2 DEF GetCalm
  <2> QED BY <2>1
<1>3. ASSUME NEW s \in Setter, set'[s] = set[s],
             \A k \in Key : file'[<<s, k>>] = file[<<s, k>>]
      PROVE  SetCalm(s)'
  <2>1. set[s].open \subseteq Key /\ (set[s].pc = "closemeta" => SKey(s) \in Key)
    BY DEF TypeInv, SetType, SetCall, SetPlace, SKey
  <2>2. SKey(s)' = SKey(s) /\ SetCalm(s) /\ (LostRace(s) => LostRace(s)')
    BY <1>3 DEF CalmInv, SKey, BlameStays
  <2> QED BY <1>3, <2>1, <2>2 DEF SetCalm
<1>4. \A k \in Key : file'[k] = Short => Blamed(k)'
  BY <1>1 DEF CalmInv
<1> QED BY <1>2, <1>3, <1>4 DEF CalmInv

LEMMA GetKeepsCalm ==
    ASSUME TypeInv, Calm, CalmInv, ~Fault, NEW g \in Getter,
           GetStart(g) \/ GetStep(g) \/ GetFail(g) \/ GetCrash(g)
    PROVE  CalmInv'
<1>1. /\ get \in [Getter -> GetCall] /\ get[g] \in GetCall /\ file \in [File -> Body]
      /\ GetType /\ GetCalm(g) /\ GetPlace(g)
      /\ Absent \notin Meta /\ Short \notin Meta /\ Absent # Short
  BY NameAssumption DEF TypeInv, StoreType, GetType, CalmInv
<1>2. /\ \A h \in Getter \ {g} : get'[h] = get[h]
      /\ UNCHANGED set
  BY GetMoves
<1>3. UNCHANGED dirs /\ BlameStays
  BY <1>2 DEF GetStart, GetStep, GetReadMeta, GetPut, GetWrite, GetClose, GetOpenBlob,
        GetFail, GetCrash, GetFrame, BlameStays, LostRace
<1>4. CASE UNCHANGED file /\ get'[g].pc \notin {"write", "close", "err", "dead"}
  BY <1>3, <1>1, <1>2, <1>4, Names, OtherCalm DEF GetCalm
<1>5. CASE GetStart(g) \/ GetReadMeta(g) \/ GetOpenBlob(g)
  <2>1. UNCHANGED file
    BY <1>5 DEF GetStart, GetReadMeta, GetOpenBlob
  <2>2. CASE GetStart(g) \/ GetOpenBlob(g)
    <3>1. get'[g].pc \in {"read", "hit"}
      <4>1. CASE GetOpenBlob(g)
        BY <1>1, <4>1 DEF GetOpenBlob, TryNextKey, GetCall
      <4>2. CASE GetStart(g)
        <5>1. PICK ks \in Lookups :
                 get' = [get EXCEPT ![g].pc = "read", ![g].keys = ks,
                                    ![g].mark = [k \in Key |-> Len(stored[k])]]
          BY <4>2 DEF GetStart
        <5> QED BY <1>1, <5>1 DEF GetCall
      <4> QED BY <2>2, <4>1, <4>2
    <3> QED BY <1>4, <2>1, <3>1
  <2>3. CASE GetReadMeta(g) /\ ~GetGoto(g, "err")
    BY <1>1, <1>4, <2>1, <2>3 DEF GetReadMeta, GetGoto, TryNextKey, GetCall
  <2>4. CASE GetReadMeta(g) /\ GetGoto(g, "err")
    <3>1. /\ get[g].pc = "read" /\ get'[g].pc = "err" /\ GKey(g)' = GKey(g)
          /\ get'[g].i = get[g].i /\ get'[g].keys = get[g].keys
      BY <1>1, <2>4 DEF GetReadMeta, GetGoto, GetCall, GKey
    <3>2. get[g].i <= Len(get[g].keys) /\ file[GKey(g)] = Short
      BY <1>1, <2>4, <3>1 DEF GetReadMeta, GetGoto, TryNextKey, GetCall
    <3>3. GKey(g) \in Key
      BY <1>1, <3>2, GetKeyType
    <3>4. Blamed(GKey(g)) /\ (Blamed(GKey(g)) => Blamed(GKey(g))')
      BY <1>3, <1>2, <3>1, <3>2, <3>3 DEF CalmInv, Blamed, LostRace
    <3>5. GetCalm(g)'
      BY <3>1, <3>4 DEF GetCalm
    <3> QED BY <1>3, <1>2, <2>1, <3>5, OtherCalm
  <2> QED BY <1>5, <2>2, <2>3, <2>4
<1>6. CASE GetPut(g) \/ GetWrite(g) \/ GetClose(g)
  <2>1. GKey(g) \in Key /\ get[g].meta \in Meta
    BY <1>1, <1>6 DEF GetPlace, GetCall, GKey, GetPut, GetWrite, GetClose
  <2>2. /\ \A f \in File \ {g, GKey(g)} : file'[f] = file[f]
        /\ file'[GKey(g)] \in {file[GKey(g)]} \cup Meta
        /\ GetCalm(g)'
    BY <1>1, <1>6, <2>1, Names
       DEF GetPut, GetWrite, GetClose, Stage, WriteTo, Publish, GetGoto, GetCall, GetCalm
  <2>3. \A k \in Key : file'[k] = Short => file[k] = Short
    BY <1>1, <2>1, <2>2, Names
  <2> QED BY <1>3, <1>2, <2>1, <2>2, <2>3, Names, OtherCalm
<1> QED BY <1>5, <1>6 DEF GetStep, GetFail, GetCrash

LEMMA SetKeepsCalm ==
    ASSUME TypeInv, FlowInv, StoredInv, Calm, CalmInv, ~Fault, NEW s \in Setter,
           SetStart(s) \/ SetStep(s) \/ SetFail(s) \/ SetCrash(s)
    PROVE  CalmInv'
<1>1. /\ set \in [Setter -> SetCall] /\ set[s] \in SetCall /\ file \in [File -> Body]
      /\ SetPlace(s) /\ SetCalm(s) /\ set[s].keys \in Seq(Key) /\ set[s].open \subseteq Key
      /\ set[s].i \in Nat /\ Len(set[s].keys) \in Nat
      /\ DOMAIN set[s].keys = 1..Len(set[s].keys)
      /\ Absent \notin Meta /\ Short \notin Meta /\ Absent # Short /\ Absent \notin dirs
  BY NameAssumption DEF TypeInv, StoreType, SetType, SetCall, CalmInv
<1>2. /\ \A r \in Setter \ {s} : set'[r] = set[r]
      /\ UNCHANGED get /\ dirs \subseteq dirs'
  BY <1>1, DirStep
     DEF SetStart, SetStep, SetPutBlob, SetPutMeta, SetCloseBlob, SetWriteMeta,
         SetCloseMeta, SetDropBlob, SetDropMeta, SetFail, SetCrash, SetGoto, SetFrame
<1>3. LostRace(s) => LostRace(s)' /\ set'[s].keys = set[s].keys /\ set'[s].i = set[s].i
  <2> SUFFICES ASSUME LostRace(s)
               PROVE  LostRace(s)' /\ set'[s].keys = set[s].keys /\ set'[s].i = set[s].i
    OBVIOUS
  <2>1. set[s].dir # Absent /\ set[s].pc \in {"putblob", "putmeta", "undo", "err"}
    BY <1>1 DEF LostRace, SetCalm
  <2>2. CASE SetMakeDir(s)
    <3>1. SetGoto(s, IF set[s].pc = "putblob" THEN "err" ELSE "undo") /\ UNCHANGED dirs
      BY <2>2 DEF SetMakeDir, LostRace
    <3> QED BY <1>1, <3>1 DEF SetGoto, SetCall, LostRace
  <2>3. CASE SetDropBlob(s)
    <3>1. SetGoto(s, "err") /\ UNCHANGED dirs
      BY <2>1, <2>3 DEF SetDropBlob
    <3> QED BY <1>1, <3>1 DEF SetGoto, SetCall, LostRace
  <2>4. CASE SetDropMeta(s)
    <3>1. PICK k \in set[s].open : set' = [set EXCEPT ![s].open = @ \ {k}]
      BY <2>1, <2>4 DEF SetDropMeta
    <3> QED BY <1>1, <2>4, <3>1 DEF SetDropMeta, SetCall, LostRace
  <2> QED BY <2>1, <2>2, <2>3, <2>4
       DEF SetStart, SetStep, SetMissesDir, SetPutBlob, SetPutMeta, SetCloseBlob,
           SetWriteMeta, SetCloseMeta, SetFail, SetCrash
<1>4. BlameStays
  BY <1>2, <1>3 DEF BlameStays, LostRace
<1>5. ASSUME UNCHANGED file, SetCalm(s)' PROVE CalmInv'
  BY <1>2, <1>4, <1>5, OtherCalm
<1>6. CASE SetStart(s)
  <2>1. PICK ks \in Stores :
           set' = [set EXCEPT ![s].pc = "putblob", ![s].keys = ks, ![s].at = now]
    BY <1>6 DEF SetStart
  <2>2. SetCalm(s)'
    BY <1>1, <1>6, <2>1 DEF SetStart, SetCall, SetCalm
  <2> QED BY <1>5, <1>6, <2>2 DEF SetStart
<1>7. CASE SetPutBlob(s)
  <2>1. SetCalm(s)'
    BY <1>1, <1>7 DEF SetPutBlob, SetGoto, SetCall, SetCalm, SetPlace
  <2> QED BY <1>5, <1>7, <2>1 DEF SetPutBlob
<1>8. CASE SetCloseBlob(s)
  <2>1. SetCalm(s)'
    BY <1>1, <1>8 DEF SetCloseBlob, SetGoto, SetCall, SetCalm, SetPlace
  <2> QED BY <1>5, <1>8, <2>1 DEF SetCloseBlob
<1>9. CASE SetPutMeta(s)
  <2>1. /\ set[s].pc = "putmeta" /\ set[s].i \in DOMAIN set[s].keys /\ SKey(s) \in Key
        /\ set[s].keys[set[s].i] = SKey(s)
    BY <1>1, <1>9 DEF SetPutMeta, SetPlace, SKey
  <2>2. /\ file'[<<s, SKey(s)>>] = Short
        /\ \A f \in File \ {<<s, SKey(s)>>} : file'[f] = file[f]
    BY <1>1, <1>9, <2>1, Names DEF SetPutMeta, Stage
  <2>3. /\ set'[s].open = set[s].open \cup {SKey(s)} /\ set'[s].keys = set[s].keys
        /\ set'[s].dir = Absent
        /\ set'[s].pc = IF LastKey(s) THEN "write" ELSE "putmeta"
        /\ set'[s].i = IF LastKey(s) THEN 1 ELSE set[s].i + 1
    BY <1>1, <1>9 DEF SetPutMeta, SetCall
  <2>4. \A k \in set'[s].open : file'[<<s, k>>] # Absent
    BY <1>1, <2>1, <2>2, <2>3, Names DEF SetCalm
  <2>5. \A j \in DOMAIN set[s].keys :
           j < set[s].i + 1 \/ LastKey(s) => set[s].keys[j] \in set'[s].open
    BY <1>1, <2>1, <2>3 DEF SetCalm, LastKey
  <2>6. set'[s].pc = "putmeta" =>
           \A k \in set'[s].open : \E j \in 1..(set'[s].i - 1) : set[s].keys[j] = k
    <3>1. SUFFICES ASSUME ~LastKey(s), NEW k \in set'[s].open
                   PROVE  \E j \in 1..set[s].i : set[s].keys[j] = k
      BY <1>1, <2>3
    <3>2. CASE k = SKey(s)
      BY <1>1, <2>1, <3>2
    <3>3. CASE k \in set[s].open
      <4>1. PICK j \in 1..(set[s].i - 1) : set[s].keys[j] = k
        BY <2>1, <3>3, <1>1 DEF SetCalm
      <4> QED BY <1>1, <4>1
    <3> QED BY <2>3, <3>2, <3>3
  <2>7. SetCalm(s)'
    BY <1>1, <2>3, <2>4, <2>5, <2>6 DEF SetCalm
  <2> QED BY <1>2, <1>4, <2>1, <2>2, <2>7, Names, OtherCalm
<1>10. CASE SetWriteMeta(s)
  <2>1. /\ set[s].pc = "writemeta" /\ set[s].i \in DOMAIN set[s].keys /\ SKey(s) \in Key
        /\ SKey(s) \in set[s].open /\ FreshMeta(s) \in Meta
    BY <1>1, <1>10 DEF SetWriteMeta, SetPlace, SKey, SetCalm, FreshMeta, Meta, SetCall
  <2>2. /\ file'[<<s, SKey(s)>>] = FreshMeta(s)
        /\ \A f \in File \ {<<s, SKey(s)>>} : file'[f] = file[f]
    BY <1>1, <1>10, <2>1, Names DEF SetWriteMeta, WriteTo, SetCalm
  <2>3. /\ set'[s].open = set[s].open /\ set'[s].keys = set[s].keys
        /\ set'[s].pc = "closemeta" /\ set'[s].i = set[s].i /\ SKey(s)' = SKey(s)
        /\ set'[s].dir = set[s].dir
    BY <1>1, <1>10 DEF SetWriteMeta, SetGoto, SetCall, SKey
  <2>4. \A k \in set[s].open : file'[<<s, k>>] # Absent
    BY <1>1, <2>1, <2>2, Names DEF SetCalm
  <2>5. SetCalm(s)'
    BY <1>1, <2>1, <2>2, <2>3, <2>4 DEF SetCalm
  <2> QED BY <1>2, <1>4, <2>1, <2>2, <2>5, Names, OtherCalm
<1>11. CASE SetCloseMeta(s)
  <2>1. /\ set[s].pc = "closemeta" /\ set[s].i \in DOMAIN set[s].keys /\ SKey(s) \in Key
        /\ file[<<s, SKey(s)>>] \in Meta /\ set[s].keys \in Stores
    <3>1. set[s].pc = "closemeta" /\ set[s].i \in DOMAIN set[s].keys
      BY <1>1, <1>11 DEF SetCloseMeta, SetPlace
    <3>2. file[<<s, SKey(s)>>] \in Meta /\ set[s].keys \in Stores
      BY <1>1, <3>1 DEF SetCalm, StoredInv, SetStored
    <3> QED BY <1>1, <3>1, <3>2 DEF SKey
  <2>2. /\ file'[SKey(s)] = file[<<s, SKey(s)>>]
        /\ \A f \in File \ {SKey(s), <<s, SKey(s)>>} : file'[f] = file[f]
    BY <1>1, <1>11, <2>1, Names DEF SetCloseMeta, Publish
  <2>3. /\ set'[s].open = set[s].open \ {SKey(s)} /\ set'[s].keys = set[s].keys
        /\ set'[s].pc \in {"ok", "writemeta"} /\ set'[s].i = set[s].i + 1
        /\ set'[s].dir = set[s].dir
    BY <1>1, <1>11, <2>1 DEF SetCloseMeta, SetCall
  <2>4. \A k \in set'[s].open : file'[<<s, k>>] # Absent
    BY <1>1, <2>1, <2>2, <2>3, Names DEF SetCalm
  <2>5. \A j \in DOMAIN set[s].keys : j >= set[s].i + 1 => set[s].keys[j] \in set'[s].open
    BY <1>1, <2>1, <2>3, KeyListAssumption DEF SetCalm, SKey
  <2>6. SetCalm(s)'
    BY <1>1, <2>1, <2>3, <2>4, <2>5 DEF SetCalm
  <2>7. \A k \in Key : file'[k] = Short => file[k] = Short
    BY <1>1, <2>1, <2>2, Names
  <2> QED BY <1>2, <1>4, <2>1, <2>2, <2>6, <2>7, Names, OtherCalm
<1>12. CASE SetMissesDir(s) \/ SetMakeDir(s)
  <2>1. SetCalm(s)'
    BY <1>1, <1>12, DirStep DEF SetCalm, SKey
  <2> QED BY <1>5, <1>12, <2>1, DirStep
<1>13. CASE SetDropBlob(s)
  <2>1. /\ set[s].pc = "undo" /\ set'[s].pc = "err" /\ set[s].open = {} /\ UNCHANGED file
        /\ set'[s].open = {} /\ LostRace(s)
    <3>1. set[s].pc = "undo" /\ set[s].open = {} /\ SetGoto(s, "err") /\ UNCHANGED file
      BY <1>1, <1>13 DEF SetDropBlob, SetCalm
    <3>2. LostRace(s)
      BY <1>1, <3>1 DEF SetCalm
    <3> QED BY <1>1, <3>1, <3>2 DEF SetGoto, SetCall
  <2>2. SetCalm(s)'
    BY <1>3, <2>1 DEF SetCalm
  <2> QED BY <1>5, <2>1, <2>2
<1>14. CASE SetDropMeta(s)
  <2>1. /\ set[s].pc = "undo" /\ LostRace(s)
        /\ \A k \in set[s].open : file[<<s, k>>] # Absent
    BY <1>1, <1>14 DEF SetDropMeta, SetCalm
  <2>2. PICK k \in set[s].open : /\ set' = [set EXCEPT ![s].open = @ \ {k}]
                                 /\ Publish(<<s, k>>, k)
    BY <1>14, <2>1 DEF SetDropMeta
  <2>3. /\ k \in Key
        /\ \A f \in File \ {k, <<s, k>>} : file'[f] = file[f]
    BY <1>1, <2>2, Names DEF Publish
  <2>4. /\ set'[s].pc = "undo" /\ set'[s].open = set[s].open \ {k}
        /\ set'[s].keys = set[s].keys /\ set'[s].i = set[s].i
    BY <1>1, <2>1, <2>2 DEF SetCall
  <2>5. \E j \in 1..(set[s].i - 1) : set[s].keys[j] = k
    BY <1>1, <2>1, <2>2 DEF SetCalm
  <2>6. Blamed(k)'
    BY <1>3, <2>1, <2>4, <2>5 DEF Blamed
  <2>7. SetCalm(s)'
    <3>1. \A d \in set'[s].open : file'[<<s, d>>] # Absent
      BY <1>1, <2>1, <2>3, <2>4, Names
    <3> QED BY <1>1, <1>3, <2>1, <2>4, <3>1 DEF SetCalm
  <2>8. \A d \in Key : file'[d] = Short => file[d] = Short \/ Blamed(d)'
    BY <2>3, <2>6, Names
  <2> QED BY <1>2, <1>4, <2>3, <2>7, <2>8, Names, OtherCalm
<1> QED BY <1>1, <1>6, <1>7, <1>8, <1>9, <1>10, <1>11, <1>12, <1>13, <1>14
     DEF SetStep, SetFail, SetCrash

LEMMA NextCalm ==
    ASSUME TypeInv, FlowInv, StoredInv, CalmInv, [Next]_vars PROVE CalmInv'
<1> SUFFICES ASSUME Calm' PROVE CalmInv'
  BY DEF CalmInv
<1>1. Calm /\ ~Fault
  BY CalmBefore
<1>2. ASSUME NEW c \in Cleaner, CleanStart(c) \/ CleanStep(c) \/ CleanFail(c) PROVE CalmInv'
  <2>1. /\ UNCHANGED <<get, set, dirs>> /\ file \in [File -> Body]
        /\ Absent \notin Meta /\ Absent # Short /\ Collide = {}
    BY <1>1, <1>2, NameAssumption

          DEF Calm, TypeInv, StoreType, CleanStart, CleanStep, CleanSeeBlob,
              CleanSizeBlob, CleanListMeta, CleanListDir, CleanReadMeta, CleanPlan,
              CleanEvict, CleanDelMeta, CleanDelBlob, CleanFail, CleanFrame
  <2>2. /\ \A f \in File \ Key : file'[f] = file[f]
        /\ \A k \in Key : file'[k] \in {file[k], Absent}
    <3>1. CASE UNCHANGED file
      BY <3>1
    <3>2. CASE CleanDelMeta(c) /\ ~UNCHANGED file
      <4>1. PICK f \in clean[c].todo : Deletable(f) /\ file' = [file EXCEPT ![f] = Absent]
        BY <3>2 DEF CleanDelMeta
      <4>2. f \in Key
        BY <2>1, <4>1 DEF Deletable
      <4> QED BY <2>1, <4>1, <4>2, Names
    <3> QED BY <1>2, <3>1, <3>2
         DEF CleanStart, CleanStep, CleanSeeBlob, CleanSizeBlob, CleanListMeta,
             CleanListDir, CleanReadMeta, CleanPlan, CleanEvict, CleanDelBlob, CleanFail
  <2>3. \A k \in Key : file'[k] = Short => file[k] = Short
    BY <2>1, <2>2
  <2>4. BlameStays
    BY <2>1 DEF BlameStays, LostRace
  <2> QED BY <1>1, <2>1, <2>2, <2>3, <2>4, Names, OtherCalm
<1>3. CASE Tick \/ UNCHANGED vars
  <2>1. UNCHANGED <<file, dirs, get, set>>
    BY <1>3 DEF Tick, vars
  <2>2. BlameStays
    BY <2>1 DEF BlameStays, LostRace
  <2> QED BY <1>1, <2>1, <2>2, OtherCalm
<1> QED BY <1>1, <1>2, <1>3, GetKeepsCalm, SetKeepsCalm DEF Next

\* Without I/O errors, calls that run in parallel make a get or a set fail in
\* no way but one: the set lost a race for a directory, or the get was given
\* a key for which such a set had staged a meta.
THEOREM ParallelIsSafe == Spec => []ParallelUseIsSafe
<1>1. CalmInv => ParallelUseIsSafe
  BY DEF CalmInv, Calm, GetCalm, SetCalm, Blamed, ParallelUseIsSafe
<1>2. TypeInv /\ FlowInv /\ StoredInv /\ CalmInv /\ [Next]_vars
         => (TypeInv /\ FlowInv /\ StoredInv /\ CalmInv)'
  BY NextType, NextFlow, NextStored, NextCalm
<1> QED BY InitType, InitFlow, InitStored, InitCalm, <1>1, <1>2, PTL DEF Spec

-----------------------------------------------------------------------------
(* What a clean computes with: the latest access, and the size of blobs,   *)
(* which is a sum over a set.  It is the number of units the blobs are     *)
(* made of, and so grows with the set.                                     *)

\* A set of numbers that are bounded has a greatest one.
LEMMA GreatestNumber ==
    ASSUME NEW n \in Nat, NEW S \in SUBSET (0..n), S # {}
    PROVE  Max(S) \in S /\ \A m \in S : m <= Max(S)
<1> DEFINE Mirrored == {n - m : m \in S}
<1>1. Mirrored \in SUBSET Nat /\ Mirrored # {}
  <2>1. \A m \in S : m \in 0..n /\ n - m \in Nat
    OBVIOUS
  <2>2. PICK m \in S : TRUE
    OBVIOUS
  <2>3. n - m \in Mirrored
    BY <2>2
  <2> QED BY <2>1, <2>3
<1>2. PICK l \in Mirrored : \A m \in Mirrored : l <= m
  <2> HIDE DEF Mirrored
  <2> QED BY <1>1, LeastNumber
<1>3. PICK g \in S : l = n - g
  BY <1>2
<1>4. ASSUME NEW m \in S PROVE g >= m
  <2>1. n - g <= n - m
    BY <1>2, <1>3
  <2> QED BY <2>1
<1>5. Max(S) \in S /\ \A m \in S : Max(S) >= m
  BY <1>4 DEF Max
<1> QED BY <1>5

\* The bytes of a blob, told apart from those of the others.
Unit(b) == {b} \X (1..Size[b])
Units(S) == UNION {Unit(b) : b \in S}

LEMMA UnitSize ==
    ASSUME NEW b \in Setter
    PROVE  IsFiniteSet(Unit(b)) /\ Cardinality(Unit(b)) = Size[b]
<1>1. Size[b] \in Nat
  BY BoundsAssumption
<1>2. IsFiniteSet(1..Size[b]) /\ Cardinality(1..Size[b]) = Size[b]
  BY <1>1, FS_Interval
<1>3. IsFiniteSet({b}) /\ Cardinality({b}) = 1
  BY FS_Singleton
<1>4. /\ IsFiniteSet(Unit(b))
      /\ Cardinality(Unit(b)) = Cardinality({b}) * Cardinality(1..Size[b])
  BY <1>2, <1>3, FS_Product DEF Unit
<1>5. 1 * Size[b] = Size[b]
  BY <1>1
<1> QED BY <1>2, <1>3, <1>4, <1>5

LEMMA UnitsFinite ==
    ASSUME NEW S \in SUBSET Setter, IsFiniteSet(S) PROVE IsFiniteSet(Units(S))
<1> DEFINE T == {Unit(b) : b \in S}
<1>1. IsFiniteSet(T)
  <2> DEFINE f == [b \in S |-> Unit(b)]
  <2>1. f \in Surjection(S, T)
    BY DEF Surjection
  <2> HIDE DEF f, T
  <2> QED BY <2>1, FS_Surjection
<1>2. \A u \in T : IsFiniteSet(u)
  BY UnitSize
<1> HIDE DEF T
<1>3. IsFiniteSet(UNION T)
  BY <1>1, <1>2, FS_UNION
<1> QED BY <1>3 DEF T, Units

LEMMA UnitsStep ==
    ASSUME NEW S \in SUBSET Setter, IsFiniteSet(S), NEW b \in S
    PROVE  Cardinality(Units(S)) = Size[b] + Cardinality(Units(S \ {b}))
<1> DEFINE U == Units(S \ {b})
<1>1. IsFiniteSet(S \ {b})
  BY FS_RemoveElement
<1>2. IsFiniteSet(U) /\ IsFiniteSet(Unit(b)) /\ Cardinality(Unit(b)) = Size[b]
  BY <1>1, UnitsFinite, UnitSize
<1>3. Units(S) = Unit(b) \cup U
  BY DEF Units
<1>4. Unit(b) \cap U = {}
  BY DEF Units, Unit
<1> HIDE DEF U
<1>5. Cardinality(Unit(b) \cup U) = Cardinality(Unit(b)) + Cardinality(U) - Cardinality({})
  BY <1>2, <1>4, FS_Union
<1>6. Cardinality(U) \in Nat /\ Size[b] \in Nat
  BY <1>2, FS_CardinalityType, BoundsAssumption
<1> QED BY <1>2, <1>3, <1>5, <1>6, FS_EmptySet DEF U

\* The sum is the only function that adds the sizes up one by one, and counting
\* the units does so.
LEMMA SizeIsUnits ==
    ASSUME NEW S \in SUBSET Setter, IsFiniteSet(S)
    PROVE  SizeOf(S) = Cardinality(Units(S))
<1> DEFINE Adds(f) == [s \in SUBSET S |->
                          IF s = {} THEN 0
                          ELSE LET x == CHOOSE x \in s : TRUE IN Size[x] + f[s \ {x}]]
           g == [s \in SUBSET S |-> Cardinality(Units(s))]
           sum == CHOOSE f : f = Adds(f)
<1>1. \A s \in SUBSET S : IsFiniteSet(s)
  BY FS_Subset
<1>2. g = Adds(g)
  <2>1. ASSUME NEW s \in SUBSET S PROVE g[s] = Adds(g)[s]
    <3>1. CASE s = {}
      <4>1. Units({}) = {}
        BY DEF Units
      <4> QED BY <3>1, <4>1, FS_EmptySet
    <3>2. CASE s # {}
      <4> DEFINE x == CHOOSE x \in s : TRUE
      <4>1. x \in s
        BY <3>2
      <4> HIDE DEF x
      <4>2. Cardinality(Units(s)) = Size[x] + Cardinality(Units(s \ {x}))
        BY <1>1, <4>1, UnitsStep
      <4> QED BY <3>2, <4>2 DEF x
    <3> QED BY <3>1, <3>2
  <2> QED BY <2>1
<1>3. sum = Adds(sum)
  <2> HIDE DEF Adds, g
  <2> QED BY <1>2
<1>4. sum[S] = g[S]
  <2> DEFINE Wrong == {s \in SUBSET S : sum[s] # g[s]}
  <2> SUFFICES ASSUME Wrong # {} PROVE FALSE
    OBVIOUS
  <2>1. PICK A \in Wrong : \A B \in Wrong : B \subseteq A => B = A
    <3>1. Wrong \in SUBSET SUBSET S
      OBVIOUS
    <3> HIDE DEF Wrong
    <3> QED BY <3>1, LeastSet
  <2> DEFINE x == CHOOSE x \in A : TRUE
  <2>2. A # {} 
    <3>1. ASSUME A = {} PROVE FALSE
      <4>1. Adds(sum)[A] = 0 /\ Adds(g)[A] = 0
        BY <3>1
      <4> HIDE DEF Adds, sum, g
      <4> QED BY <1>2, <1>3, <4>1 DEF Wrong
    <3> QED BY <3>1
  <2>3. x \in A
    BY <2>2
  <2>4. A \ {x} \notin Wrong
    BY <2>1, <2>3
  <2>5. sum[A \ {x}] = g[A \ {x}]
    BY <2>4 DEF Wrong
  <2>6. Adds(sum)[A] = Size[x] + sum[A \ {x}] /\ Adds(g)[A] = Size[x] + g[A \ {x}]
    <3> HIDE DEF sum, g
    <3> QED BY <2>2
  <2> HIDE DEF Adds, sum, g, x
  <2> QED BY <1>2, <1>3, <2>1, <2>5, <2>6 DEF Wrong
<1>5. SizeOf(S) = sum[S]
  BY DEF SizeOf, MapThenSumSet, MapThenFoldSet
<1> QED BY <1>4, <1>5

\* More blobs are not smaller.
LEMMA SizeGrows ==
    ASSUME NEW B \in SUBSET Setter, IsFiniteSet(B), NEW A \in SUBSET B
    PROVE  /\ SizeOf(A) \in Nat /\ SizeOf(B) \in Nat
           /\ SizeOf(A) <= SizeOf(B)
<1>1. IsFiniteSet(A) /\ A \in SUBSET Setter
  BY FS_Subset
<1>2. IsFiniteSet(Units(A)) /\ IsFiniteSet(Units(B))
  BY <1>1, UnitsFinite
<1>3. Units(A) \subseteq Units(B)
  BY DEF Units
<1>4. Cardinality(Units(A)) <= Cardinality(Units(B))
  BY <1>2, <1>3, FS_Subset
<1>5. Cardinality(Units(A)) \in Nat /\ Cardinality(Units(B)) \in Nat
  BY <1>2, FS_CardinalityType
<1> QED BY <1>1, <1>4, <1>5, SizeIsUnits

-----------------------------------------------------------------------------
(* A clean that has the cache to itself.  It evicts against a plan that    *)
(* was made from what it listed and read before; the plan is true as long  *)
(* as nobody else changes the files, and is kept true by what the clean    *)
(* deletes.                                                                *)

HasToItself(c) ==
    /\ \A g \in Getter : ~Running(get[g])
    /\ \A s \in Setter : ~Running(set[s])
    /\ \A d \in Cleaner \ {c} : ~Running(clean[d])
Here == {s \in Setter : BlobExists(s)}
Planning == {"metas", "evict", "delmeta", "delblob"}
\* The files that are still to be listed or read.
Pending(c) == IF clean[c].pc = "metas"
              THEN clean[c].todo \cup UNION {Directory(k) : k \in clean[c].dirs} ELSE {}
\* The entry of the victim that is deleted already.
Gone(c, e) == /\ e.meta.blob = clean[c].victim
              /\ \/ clean[c].pc = "delmeta" /\ e.key \notin clean[c].todo
                 \/ clean[c].pc = "delblob"

\* The blobs listed so far are seen if they are there.
SeenRight(c) ==
    /\ clean[c].pc \in {"blobs", "size"} => clean[c].seen = Here \ clean[c].todo
    /\ clean[c].pc = "metas" => clean[c].seen = Here
\* Every file that leads to a blob is found, unless it is still to be read ...
FoundAll(c) == clean[c].pc \in Planning =>
    \A f \in File : file[f] \in Meta /\ BlobExists(file[f].blob) =>
       f \in Pending(c) \/ [key |-> f, meta |-> file[f]] \in clean[c].found
\* ... and nothing else is, but what was deleted since.
FoundOnly(c) == clean[c].pc \in Planning =>
    \A e \in clean[c].found :
       IF Gone(c, e) THEN file[e.key] = Absent
       ELSE file[e.key] = e.meta /\ BlobExists(e.meta.blob)
Planned(c) ==
    /\ clean[c].pc \in {"evict", "delmeta", "delblob"} => clean[c].at <= now
    /\ clean[c].pc = "delmeta" =>
          clean[c].todo \subseteq {e.key : e \in Entries(c, clean[c].victim)}
Knows(c) == SeenRight(c) /\ FoundAll(c) /\ FoundOnly(c) /\ Planned(c)
\* Nothing is seen or found before the clean gets there.
Unread(c) ==
    /\ clean[c].pc = "new" => clean[c].seen = {}
    /\ clean[c].pc \in {"new", "blobs", "size"} => clean[c].found = {}
SerialInv ==
    /\ \A c \in Cleaner : Unread(c)
    /\ ~Overlap => \A c \in Cleaner : Running(clean[c]) => HasToItself(c) /\ Knows(c)

LEMMA InitSerial == Init => SerialInv
  BY DEF Init, SerialInv, Unread, Running, Ended

\* A get or a set does not step while a clean is running, and none starts.
LEMMA CallsWait ==
    ASSUME SerialInv, ~Overlap,
           \/ \E g \in Getter : GetStart(g) \/ GetStep(g) \/ GetFail(g) \/ GetCrash(g)
           \/ \E s \in Setter : SetStart(s) \/ SetStep(s) \/ SetFail(s) \/ SetCrash(s)
    PROVE  UNCHANGED clean /\ \A c \in Cleaner : ~Running(clean[c])
<1>1. UNCHANGED clean
  BY DEF GetStart, GetStep, GetReadMeta, GetPut, GetWrite, GetClose, GetOpenBlob,
         GetFail, GetCrash, GetFrame, SetStart, SetStep, SetMissesDir, SetMakeDir,
         SetPutBlob, SetPutMeta, SetCloseBlob, SetWriteMeta, SetCloseMeta, SetDropBlob,
         SetDropMeta, SetFail, SetCrash, SetFrame
<1>2. ASSUME NEW g \in Getter, GetStart(g) \/ GetStep(g) \/ GetFail(g) \/ GetCrash(g)
      PROVE  Idle \/ Running(get[g])
  BY <1>2 DEF GetStart, GetStep, GetReadMeta, GetPut, GetWrite, GetClose, GetOpenBlob,
              GetFail, GetCrash, MayStart, Running, Ended
<1>3. ASSUME NEW s \in Setter, SetStart(s) \/ SetStep(s) \/ SetFail(s) \/ SetCrash(s)
      PROVE  Idle \/ Running(set[s])
  BY <1>3
     DEF SetStart, SetStep, SetMissesDir, SetMakeDir, SetPutBlob, SetPutMeta,
         SetCloseBlob, SetWriteMeta, SetCloseMeta, SetDropBlob, SetDropMeta, SetFail,
         SetCrash, MayStart, Running, Ended
<1> QED BY <1>1, <1>2, <1>3 DEF SerialInv, HasToItself, Idle

\* A clean that steps has the cache to itself; all others stay as they are.
LEMMA CleanAlone ==
    ASSUME TypeInv, SerialInv, NEW c \in Cleaner, CleanStart(c) \/ CleanStep(c) \/ CleanFail(c)
    PROVE  /\ UNCHANGED <<now, dirs, stored, get, set>>
           /\ \A d \in Cleaner \ {c} : clean'[d] = clean[d]
           /\ clean[c].pc = "new" \/ Running(clean[c])
           /\ ~Overlap => HasToItself(c) /\ (clean[c].pc # "new" => Knows(c))
<1>1. UNCHANGED <<now, dirs, stored, get, set>>
  BY DEF CleanStart, CleanStep, CleanSeeBlob, CleanSizeBlob, CleanListMeta,
         CleanListDir, CleanReadMeta, CleanPlan, CleanEvict, CleanDelMeta,
         CleanDelBlob, CleanFail, CleanFrame
<1>2. \A d \in Cleaner \ {c} : clean'[d] = clean[d]
  BY DEF TypeInv, CleanType, CleanStart, CleanStep, CleanSeeBlob, CleanSizeBlob,
         CleanListMeta, CleanListDir, CleanReadMeta, CleanPlan, CleanEvict,
         CleanDelMeta, CleanDelBlob, CleanFail, CleanGoto
<1>3. (clean[c].pc = "new" /\ MayStart) \/ Running(clean[c])
  BY DEF CleanStart, CleanStep, CleanSeeBlob, CleanSizeBlob, CleanListMeta,
         CleanListDir, CleanReadMeta, CleanPlan, CleanEvict, CleanDelMeta, CleanDelBlob,
         CleanFail, Running, Ended
<1>4. ~Overlap /\ clean[c].pc = "new" => HasToItself(c)
  BY <1>3 DEF MayStart, Idle, HasToItself, Running
<1> QED BY <1>1, <1>2, <1>3, <1>4 DEF SerialInv, Running

\* Only what the clean itself knows can be disturbed by its step.
LEMMA CleanSerial ==
    ASSUME TypeInv, SerialInv, NEW c \in Cleaner, CleanStart(c) \/ CleanStep(c) \/ CleanFail(c),
           Unread(c)', ~Overlap /\ Running(clean'[c]) => Knows(c)'
    PROVE  SerialInv'
<1>1. /\ UNCHANGED <<get, set>> /\ \A d \in Cleaner \ {c} : clean'[d] = clean[d]
      /\ ~Overlap => HasToItself(c)
  BY CleanAlone
<1>2. \A d \in Cleaner : Unread(d)'
  BY <1>1 DEF SerialInv, Unread
<1>3. ASSUME ~Overlap, NEW d \in Cleaner, Running(clean'[d]) PROVE d = c /\ HasToItself(c)'
  BY <1>1, <1>3 DEF HasToItself
<1> QED BY <1>2, <1>3 DEF SerialInv

\* A clean that ends knows nothing any more.
LEMMA EndKnows ==
    ASSUME TypeInv, NEW c \in Cleaner, NEW pc \in Ended, CleanGoto(c, pc)
    PROVE  Unread(c)' /\ ~Running(clean'[c])
<1>1. clean'[c].pc = pc
  BY DEF TypeInv, CleanType, CleanCall, CleanGoto
<1> QED BY <1>1 DEF Unread, Running, Ended

\* Listing /blob: exactly the blobs that are there are seen.
LEMMA ListingKnows ==
    ASSUME TypeInv, SerialInv, NEW c \in Cleaner,
           CleanStart(c) \/ CleanSeeBlob(c) \/ CleanSizeBlob(c)
    PROVE  Unread(c)' /\ (~Overlap /\ Running(clean'[c]) => Knows(c)')
<1>1. /\ UNCHANGED blob /\ (CleanStep(c) \/ CleanStart(c))
      /\ clean \in [Cleaner -> CleanCall] /\ clean[c] \in CleanCall /\ Unread(c)
  BY DEF CleanStep, CleanStart, CleanSeeBlob, CleanSizeBlob, TypeInv, CleanType, SerialInv
<1>2. Here' = Here
  BY <1>1 DEF Here, BlobExists
<1>3. ~Overlap /\ clean[c].pc # "new" => SeenRight(c)
  BY <1>1, CleanAlone DEF Knows
<1>4. CASE clean'[c].pc \in Ended
  BY <1>4 DEF Unread, Running, Ended
<1>5. ASSUME clean'[c].pc \in {"blobs", "size"}, clean'[c].found = {},
             ~Overlap => clean'[c].seen = Here \ clean'[c].todo
      PROVE  Unread(c)' /\ (~Overlap /\ Running(clean'[c]) => Knows(c)')
  BY <1>2, <1>5 DEF Unread, Knows, SeenRight, FoundAll, FoundOnly, Planned, Planning
<1>6. CASE CleanStart(c)
  <2>1. /\ clean'[c].pc \in {"blobs", "err"} /\ clean'[c].todo = Setter
        /\ clean'[c].seen = clean[c].seen /\ clean'[c].found = clean[c].found
        /\ clean[c].pc = "new"
    BY <1>1, <1>6 DEF CleanStart, CleanCall
  <2> QED BY <1>1, <1>4, <1>5, <2>1 DEF Unread, Here, Ended
<1>7. CASE CleanSeeBlob(c)
  <2>1. PICK b \in clean[c].todo :
           \/ clean' = [clean EXCEPT ![c].pc = "size", ![c].victim = b,
                   ![c].todo = @ \ {b},
                   ![c].seen = IF BlobExists(b) THEN @ \cup {b} ELSE @]
           \/ /\ ~BlobExists(b)
              /\ clean' = [clean EXCEPT ![c].todo = @ \ {b}]
    BY <1>7 DEF CleanSeeBlob
  <2>2. clean[c].pc = "blobs" /\ clean[c].found = {} /\ b \in Setter
    BY <1>1, <1>7 DEF CleanSeeBlob, Unread, TypeInv, CleanType, CleanPlace
  <2>3. CASE clean' = [clean EXCEPT ![c].pc = "size", ![c].victim = b,
                   ![c].todo = @ \ {b},
                   ![c].seen = IF BlobExists(b) THEN @ \cup {b} ELSE @]
    <3>1. /\ clean'[c].pc = "size" /\ clean'[c].todo = clean[c].todo \ {b}
          /\ clean'[c].found = clean[c].found
          /\ clean'[c].seen = IF BlobExists(b) THEN clean[c].seen \cup {b} ELSE clean[c].seen
      BY <1>1, <2>3 DEF CleanCall
    <3>2. ~Overlap => clean'[c].seen = Here \ clean'[c].todo
      BY <1>3, <2>1, <2>2, <3>1 DEF SeenRight, Here
    <3> QED BY <1>5, <2>2, <3>1, <3>2
  <2>4. CASE ~BlobExists(b) /\ clean' = [clean EXCEPT ![c].todo = @ \ {b}]
    <3>1. /\ clean'[c].pc = "blobs" /\ clean'[c].todo = clean[c].todo \ {b}
          /\ clean'[c].found = clean[c].found /\ clean'[c].seen = clean[c].seen
      BY <1>1, <2>2, <2>4 DEF CleanCall
    <3>2. ~Overlap => clean'[c].seen = Here \ clean'[c].todo
      BY <1>3, <2>2, <2>4, <3>1 DEF SeenRight, Here
    <3> QED BY <1>5, <2>2, <3>1, <3>2
  <2> QED BY <2>1, <2>3, <2>4
<1>8. CASE CleanSizeBlob(c)
  <2>1. CASE CleanGoto(c, "err")
    BY <2>1, EndKnows DEF Ended
  <2>2. CASE clean' = [clean EXCEPT ![c].pc = "blobs", ![c].victim = Absent]
    <3>1. /\ clean'[c].pc = "blobs" /\ clean'[c].todo = clean[c].todo
          /\ clean'[c].found = clean[c].found /\ clean'[c].seen = clean[c].seen
      BY <1>1, <2>2 DEF CleanCall
    <3>2. clean[c].pc = "size"
      BY <1>8 DEF CleanSizeBlob
    <3> QED BY <1>1, <1>3, <1>5, <3>1, <3>2 DEF SeenRight, Unread
  <2> QED BY <1>8, <2>1, <2>2 DEF CleanSizeBlob
<1> QED BY <1>6, <1>7, <1>8

\* Every file that holds a meta is below the directory of a key.
LEMMA FilesAreListed ==
    ASSUME TypeInv, FlowInv, NEW f \in File, file[f] \in Meta
    PROVE  \E k \in Key : f \in Directory(k)
<1>1. CASE f \in Key
  BY <1>1 DEF Directory
<1>2. CASE f \in Setter \X Key
  BY <1>2 DEF Directory
<1>3. CASE f \in Getter
  <2>1. get[f].i \in DOMAIN get[f].keys /\ get[f].keys \in Seq(Key)
    BY <1>3 DEF FlowInv, GetFlow, TypeInv, GetType, GetCall
  <2>2. GKey(f) \in Key /\ get[f].i <= Len(get[f].keys)
    BY <2>1 DEF GKey
  <2> QED BY <1>3, <2>2 DEF Directory
<1> QED BY <1>1, <1>2, <1>3 DEF File, Staged

\* Listing and reading the metas: what was not read is still to be listed or
\* read, and what was read is as it was.
LEMMA ReadingKnows ==
    ASSUME TypeInv, FlowInv, SerialInv, NEW c \in Cleaner,
           CleanListMeta(c) \/ CleanListDir(c) \/ CleanReadMeta(c) \/ CleanPlan(c)
    PROVE  Unread(c)' /\ (~Overlap /\ Running(clean'[c]) => Knows(c)')
<1>1. /\ UNCHANGED <<blob, file, get, now>> /\ CleanStep(c)
      /\ clean \in [Cleaner -> CleanCall] /\ clean[c] \in CleanCall /\ Unread(c)
      /\ file \in [File -> Body] /\ Absent \notin Meta
      /\ clean[c].pc # "new" /\ (clean[c].pc = "metas" => clean[c].todo \subseteq File)
      /\ now \in Time
  BY CleanAlone, NameAssumption
     DEF CleanStep, CleanListMeta, CleanListDir, CleanReadMeta, CleanPlan,
         TypeInv, CleanType, CleanPlace, StoreType, SerialInv
<1>2. /\ Here' = Here /\ \A k \in Key : Directory(k)' = Directory(k)
      /\ \A b : BlobExists(b)' = BlobExists(b)
  BY <1>1 DEF Here, BlobExists, Directory, GKey
<1>3. ~Overlap => SeenRight(c) /\ FoundAll(c) /\ FoundOnly(c)
  BY <1>1, CleanAlone DEF Knows
<1>4. CASE clean'[c].pc \in Ended
  BY <1>4 DEF Unread, Running, Ended
<1>5. CASE CleanListMeta(c)
  <2>1. /\ clean'[c].pc \in {"metas", "err"} /\ clean'[c].dirs = Key /\ clean'[c].todo = {}
        /\ clean'[c].found = {} /\ clean'[c].seen = clean[c].seen
        /\ clean[c].pc = "blobs" /\ clean[c].todo = {}
    BY <1>1, <1>5 DEF CleanListMeta, CleanCall, Unread
  <2>2. CASE clean'[c].pc = "metas"
    <3>1. ~Overlap => SeenRight(c)'
      BY <1>2, <1>3, <2>1, <2>2 DEF SeenRight
    <3>2. FoundAll(c)'
      BY <1>1, <1>2, <2>1, <2>2, FilesAreListed DEF FoundAll, Pending
    <3> QED BY <2>1, <2>2, <3>1, <3>2 DEF Knows, FoundOnly, Planned, Unread
  <2> QED BY <1>4, <2>1, <2>2 DEF Ended
<1>6. CASE CleanListDir(c)
  <2>1. PICK k \in clean[c].dirs :
          clean' = [clean EXCEPT ![c].dirs = @ \ {k},
                       ![c].todo = {f \in Directory(k) : file[f] # Absent}]
    BY <1>6 DEF CleanListDir
  <2>2. /\ clean'[c].pc = "metas" /\ clean'[c].dirs = clean[c].dirs \ {k}
        /\ clean'[c].todo = {f \in Directory(k) : file[f] # Absent}
        /\ clean'[c].found = clean[c].found /\ clean'[c].seen = clean[c].seen
        /\ clean[c].pc = "metas" /\ clean[c].todo = {} /\ clean[c].dirs \subseteq Key
    BY <1>1, <1>6, <2>1 DEF CleanListDir, CleanCall
  <2>3. ASSUME ~Overlap PROVE Knows(c)'
    <3>1. SeenRight(c)'
      BY <1>2, <1>3, <2>2, <2>3 DEF SeenRight
    <3>2. FoundAll(c)'
      <4> SUFFICES ASSUME NEW f \in File, file[f] \in Meta, BlobExists(file[f].blob)
                   PROVE  f \in Pending(c)' \/ [key |-> f, meta |-> file[f]] \in clean[c].found
        BY <1>1, <1>2, <2>2 DEF FoundAll
      <4>1. f \in Pending(c) \/ [key |-> f, meta |-> file[f]] \in clean[c].found
        BY <1>3, <2>2, <2>3 DEF FoundAll, Planning
      <4>2. f \in Pending(c) => \E l \in clean[c].dirs : f \in Directory(l)
        BY <2>2 DEF Pending
      <4> QED BY <1>1, <1>2, <2>2, <4>1, <4>2 DEF Pending
    <3>3. FoundOnly(c)'
      BY <1>1, <1>2, <1>3, <2>2, <2>3 DEF FoundOnly, Gone, Planning
    <3> QED BY <2>2, <3>1, <3>2, <3>3 DEF Knows, Planned
  <2> QED BY <2>2, <2>3 DEF Unread
<1>7. CASE CleanReadMeta(c)
  <2>1. CASE CleanGoto(c, "err")
    BY <2>1, EndKnows DEF Ended
  <2>2. CASE \E f \in clean[c].todo :
             /\ file[f] \in Meta
             /\ clean' = [clean EXCEPT ![c].todo = @ \ {f},
                   ![c].found = IF file[f].blob \in clean[c].seen
                                THEN @ \cup {[key |-> f, meta |-> file[f]]} ELSE @]
    <3>1. PICK f \in clean[c].todo :
             /\ file[f] \in Meta
             /\ clean' = [clean EXCEPT ![c].todo = @ \ {f},
                   ![c].found = IF file[f].blob \in clean[c].seen
                                THEN @ \cup {[key |-> f, meta |-> file[f]]} ELSE @]
      BY <2>2
    <3>2. /\ clean'[c].pc = "metas" /\ clean'[c].dirs = clean[c].dirs
          /\ clean'[c].todo = clean[c].todo \ {f} /\ clean'[c].seen = clean[c].seen
          /\ clean'[c].found = IF file[f].blob \in clean[c].seen
                               THEN clean[c].found \cup {[key |-> f, meta |-> file[f]]}
                               ELSE clean[c].found
          /\ clean[c].pc = "metas" /\ f \in File /\ clean[c].dirs \subseteq Key
      BY <1>1, <1>7, <3>1 DEF CleanReadMeta, CleanCall
    <3>3. ASSUME ~Overlap PROVE Knows(c)'
      <4>1. SeenRight(c)' /\ clean[c].seen = Here
        BY <1>2, <1>3, <3>2, <3>3 DEF SeenRight
      <4>2. file[f].blob \in Setter
        BY <3>1 DEF Meta
      <4>3. FoundAll(c)'
        <5> SUFFICES ASSUME NEW h \in File, file[h] \in Meta, BlobExists(file[h].blob)
                     PROVE  h \in Pending(c)' \/ [key |-> h, meta |-> file[h]] \in clean'[c].found
          BY <1>1, <1>2, <3>2 DEF FoundAll
        <5>1. h \in Pending(c) \/ [key |-> h, meta |-> file[h]] \in clean[c].found
          BY <1>3, <3>2, <3>3 DEF FoundAll, Planning
        <5>2. CASE h = f
          BY <3>2, <4>1, <4>2, <5>2 DEF Here
        <5>3. CASE h # f
          BY <1>2, <3>2, <5>1, <5>3 DEF Pending
        <5> QED BY <5>2, <5>3
      <4>4. FoundOnly(c)'
        <5> SUFFICES ASSUME NEW e \in clean'[c].found
                     PROVE  file[e.key] = e.meta /\ BlobExists(e.meta.blob)
          BY <1>1, <1>2, <3>2 DEF FoundOnly, Gone
        <5>1. CASE e \in clean[c].found
          BY <1>3, <3>2, <3>3, <5>1 DEF FoundOnly, Gone, Planning
        <5>2. CASE e = [key |-> f, meta |-> file[f]] /\ file[f].blob \in clean[c].seen
          BY <4>1, <5>2 DEF Here
        <5> QED BY <3>2, <5>1, <5>2
      <4> QED BY <3>2, <4>1, <4>3, <4>4 DEF Knows, Planned
    <3> QED BY <3>2, <3>3 DEF Unread
  <2> QED BY <1>7, <2>1, <2>2 DEF CleanReadMeta
<1>8. CASE CleanPlan(c)
  <2>1. /\ clean'[c].pc = "evict" /\ clean'[c].at = now /\ clean'[c].found = clean[c].found
        /\ clean[c].pc = "metas" /\ clean[c].dirs = {} /\ clean[c].todo = {}
    BY <1>1, <1>8 DEF CleanPlan, CleanCall
  <2>2. ASSUME ~Overlap PROVE Knows(c)'
    <3>1. FoundAll(c)'
      BY <1>1, <1>2, <1>3, <2>1, <2>2 DEF FoundAll, Pending, Planning
    <3>2. FoundOnly(c)'
      BY <1>1, <1>2, <1>3, <2>1, <2>2 DEF FoundOnly, Gone, Planning
    <3> QED BY <1>1, <2>1, <3>1, <3>2, BoundsAssumption
       DEF Knows, SeenRight, Planned, Time
  <2> QED BY <2>1, <2>2 DEF Unread
<1> QED BY <1>5, <1>6, <1>7, <1>8

\* Evicting: what was found is what is there, but for the entries of the
\* victim that are deleted already.
LEMMA EvictingKnows ==
    ASSUME TypeInv, SerialInv, NEW c \in Cleaner,
           CleanEvict(c) \/ CleanDelMeta(c) \/ CleanDelBlob(c)
    PROVE  Unread(c)' /\ (~Overlap /\ Running(clean'[c]) => Knows(c)')
<1>1. /\ UNCHANGED now /\ CleanStep(c)
      /\ clean \in [Cleaner -> CleanCall] /\ clean[c] \in CleanCall
      /\ clean[c].found \subseteq [key : File, meta : Meta]
      /\ file \in [File -> Body] /\ blob \in [Setter -> BlobFile] /\ Absent \notin Meta
  BY CleanAlone, NameAssumption
     DEF CleanStep, TypeInv, CleanType, CleanCall, StoreType
<1>2. clean[c].pc \in {"evict", "delmeta", "delblob"}
  BY DEF CleanEvict, CleanDelMeta, CleanDelBlob
<1>3. ~Overlap => FoundAll(c) /\ FoundOnly(c) /\ Planned(c)
  BY <1>1, <1>2, CleanAlone DEF Knows
<1>4. CASE \E pc \in Ended : CleanGoto(c, pc)
  BY <1>4, EndKnows
<1>5. CASE \E b \in Candidates(c) :
             /\ clean[c].pc = "evict"
             /\ clean' = [clean EXCEPT ![c].pc = "delmeta", ![c].victim = b,
                                       ![c].todo = {e.key : e \in Entries(c, b)}]
             /\ UNCHANGED <<file, blob>>
  <2>1. PICK b \in Candidates(c) :
             /\ clean[c].pc = "evict"
             /\ clean' = [clean EXCEPT ![c].pc = "delmeta", ![c].victim = b,
                                       ![c].todo = {e.key : e \in Entries(c, b)}]
             /\ UNCHANGED <<file, blob>>
    BY <1>5
  <2>2. /\ clean'[c].pc = "delmeta" /\ clean'[c].victim = b
        /\ clean'[c].todo = {e.key : e \in Entries(c, b)}
        /\ clean'[c].found = clean[c].found /\ clean'[c].at = clean[c].at
    BY <1>1, <2>1 DEF CleanCall
  <2>3. Entries(c, b)' = Entries(c, b)
    BY <2>2 DEF Entries
  <2>4. ASSUME ~Overlap PROVE Knows(c)'
    <3>1. FoundAll(c)'
      BY <1>3, <2>1, <2>2, <2>4 DEF FoundAll, Pending, Planning, BlobExists
    <3>2. \A e \in clean'[c].found : ~Gone(c, e)'
      BY <2>2 DEF Gone, Entries
    <3>3. FoundOnly(c)'
      BY <1>3, <2>1, <2>2, <2>4, <3>2 DEF FoundOnly, Gone, Planning, BlobExists
    <3>4. Planned(c)'
      BY <1>1, <1>3, <2>1, <2>2, <2>3, <2>4 DEF Planned
    <3> QED BY <2>2, <3>1, <3>3, <3>4 DEF Knows, SeenRight
  <2> QED BY <2>2, <2>4 DEF Unread
<1>6. CASE CleanDelMeta(c) /\ ~CleanGoto(c, "err")
  <2>1. PICK f \in clean[c].todo :
          /\ file' = [file EXCEPT ![f] = Absent]
          /\ clean' = [clean EXCEPT ![c].todo = @ \ {f},
                ![c].pc = IF clean[c].todo = {f} THEN "delblob" ELSE "delmeta"]
    BY <1>6 DEF CleanDelMeta
  <2> DEFINE b == clean[c].victim
  <2>2. /\ clean'[c].pc = IF clean[c].todo = {f} THEN "delblob" ELSE "delmeta"
        /\ clean'[c].todo = clean[c].todo \ {f} /\ clean'[c].victim = b
        /\ clean'[c].found = clean[c].found /\ clean'[c].at = clean[c].at
        /\ clean[c].pc = "delmeta" /\ UNCHANGED blob
    BY <1>1, <1>6, <2>1 DEF CleanCall, CleanDelMeta
  <2>3. Entries(c, b)' = Entries(c, b)
    BY <2>2 DEF Entries
  <2>4. ASSUME ~Overlap PROVE Knows(c)'
    <3>1. PICK d \in clean[c].found : d.key = f /\ d.meta.blob = b
      BY <1>3, <2>2, <2>4 DEF Planned, Entries
    <3>2. f \in File /\ file[f] = d.meta /\ file'[f] = Absent
          /\ \A h \in File \ {f} : file'[h] = file[h]
      <4>1. f \in File
        BY <1>1, <3>1
      <4>2. ~Gone(c, d)
        BY <2>2, <3>1 DEF Gone
      <4> QED BY <1>1, <1>3, <2>1, <2>2, <2>4, <3>1, <4>1, <4>2 DEF FoundOnly, Planning
    <3>3. FoundAll(c)'
      <4> SUFFICES ASSUME NEW h \in File, file'[h] \in Meta, BlobExists(file[h].blob)'
                   PROVE  [key |-> h, meta |-> file'[h]] \in clean[c].found
        BY <2>2 DEF FoundAll
      <4>1. h # f /\ file'[h] = file[h]
        BY <1>1, <3>2
      <4>2. h \notin Pending(c) /\ BlobExists(file[h].blob)
        BY <2>2, <4>1 DEF Pending, BlobExists
      <4> QED BY <1>3, <2>2, <2>4, <4>1, <4>2 DEF FoundAll, Planning
    <3>4. FoundOnly(c)'
      <4> SUFFICES ASSUME NEW e \in clean[c].found
                   PROVE  IF Gone(c, e)' THEN file'[e.key] = Absent
                          ELSE file'[e.key] = e.meta /\ BlobExists(e.meta.blob)'
        BY <2>2 DEF FoundOnly
      <4>1. e.key \in File /\ e.meta \in Meta
        BY <1>1
      <4>2. IF Gone(c, e) THEN file[e.key] = Absent
            ELSE file[e.key] = e.meta /\ BlobExists(e.meta.blob)
        BY <1>3, <2>2, <2>4 DEF FoundOnly, Planning
      <4>3. CASE Gone(c, e)
        <5>1. Gone(c, e)'
          BY <2>2, <4>3 DEF Gone
        <5> QED BY <3>2, <4>1, <4>2, <4>3, <5>1
      <4>4. CASE ~Gone(c, e) /\ e.key = f
        <5>1. e.meta.blob = b
          BY <3>1, <3>2, <4>2, <4>4
        <5>2. Gone(c, e)'
          BY <2>2, <4>4, <5>1 DEF Gone
        <5> QED BY <3>2, <4>4, <5>2
      <4>5. CASE ~Gone(c, e) /\ e.key # f
        <5>1. ~Gone(c, e)'
          BY <2>2, <4>5 DEF Gone
        <5>2. BlobExists(e.meta.blob)'
          BY <2>2, <4>2, <4>5 DEF BlobExists
        <5> QED BY <3>2, <4>1, <4>2, <4>5, <5>1, <5>2
      <4> QED BY <4>3, <4>4, <4>5
    <3>5. Planned(c)'
      BY <1>1, <1>3, <2>2, <2>3, <2>4 DEF Planned
    <3> QED BY <2>2, <3>3, <3>4, <3>5 DEF Knows, SeenRight
  <2> QED BY <2>2, <2>4 DEF Unread
<1>7. CASE CleanDelBlob(c) /\ ~CleanGoto(c, "err")
  <2> DEFINE b == clean[c].victim
  <2>1. /\ blob' = [blob EXCEPT ![b] = "deleted"] /\ UNCHANGED file
        /\ clean' = [clean EXCEPT ![c].pc = "evict", ![c].found = @ \ Entries(c, b)]
        /\ clean[c].pc = "delblob"
    BY <1>7 DEF CleanDelBlob
  <2>2. /\ clean'[c].pc = "evict" /\ clean'[c].found = clean[c].found \ Entries(c, b)
        /\ clean'[c].at = clean[c].at
    BY <1>1, <2>1 DEF CleanCall
  <2>3. \A s \in Setter : /\ s # b /\ BlobExists(s) => BlobExists(s)'
                          /\ BlobExists(s)' => s # b /\ BlobExists(s)
    BY <1>1, <2>1 DEF BlobExists
  <2>4. ASSUME ~Overlap PROVE Knows(c)'
    <3>1. FoundAll(c)'
      <4> SUFFICES ASSUME NEW h \in File, file[h] \in Meta, BlobExists(file[h].blob)'
                   PROVE  [key |-> h, meta |-> file[h]] \in clean'[c].found
        BY <2>1, <2>2 DEF FoundAll
      <4>1. file[h].blob # b /\ BlobExists(file[h].blob)
        <5>1. PICK s \in Setter : s = file[h].blob
          BY DEF Meta
        <5>2. BlobExists(s)'
          BY <2>1, <5>1
        <5> QED BY <2>3, <5>1, <5>2
      <4>2. [key |-> h, meta |-> file[h]] \in clean[c].found
        BY <1>3, <2>1, <2>4, <4>1 DEF FoundAll, Pending, Planning
      <4> QED BY <2>2, <4>1, <4>2 DEF Entries
    <3>2. FoundOnly(c)'
      <4> SUFFICES ASSUME NEW e \in clean'[c].found
                   PROVE  file[e.key] = e.meta /\ BlobExists(e.meta.blob)'
        BY <2>1, <2>2 DEF FoundOnly, Gone
      <4>1. e \in clean[c].found /\ e.meta.blob # b /\ e.meta.blob \in Setter
        BY <1>1, <2>2 DEF Entries, Meta
      <4>2. file[e.key] = e.meta /\ BlobExists(e.meta.blob)
        BY <1>3, <2>1, <2>4, <4>1 DEF FoundOnly, Gone, Planning
      <4> QED BY <2>3, <4>1, <4>2
    <3>3. Planned(c)'
      BY <1>1, <1>3, <2>1, <2>2, <2>4 DEF Planned
    <3> QED BY <2>2, <3>1, <3>2, <3>3 DEF Knows, SeenRight
  <2> QED BY <2>2, <2>4 DEF Unread
<1>8. CASE CleanGoto(c, "err")
  BY <1>4, <1>8 DEF Ended
<1>9. CASE CleanEvict(c)
  BY <1>4, <1>5, <1>9 DEF CleanEvict, Ended
<1> QED BY <1>6, <1>7, <1>8, <1>9

\* While a clean runs, only its own steps and the clock's are left.
LEMMA NextSerial == ASSUME TypeInv, FlowInv, SerialInv, [Next]_vars PROVE SerialInv'
<1>1. CASE \/ \E g \in Getter : GetStart(g) \/ GetStep(g) \/ GetFail(g) \/ GetCrash(g)
           \/ \E s \in Setter : SetStart(s) \/ SetStep(s) \/ SetFail(s) \/ SetCrash(s)
  <2>1. UNCHANGED clean
    BY <1>1
       DEF GetStart, GetStep, GetReadMeta, GetPut, GetWrite, GetClose, GetOpenBlob,
           GetFail, GetCrash, GetFrame, SetStart, SetStep, SetMissesDir, SetMakeDir,
           SetPutBlob, SetPutMeta, SetCloseBlob, SetWriteMeta, SetCloseMeta,
           SetDropBlob, SetDropMeta, SetFail, SetCrash, SetFrame
  <2>2. ~Overlap => \A c \in Cleaner : ~Running(clean[c])
    BY <1>1, CallsWait
  <2> QED BY <2>1, <2>2 DEF SerialInv, Unread
<1>2. ASSUME NEW c \in Cleaner, CleanStart(c) \/ CleanStep(c) \/ CleanFail(c) PROVE SerialInv'
  <2>1. CASE CleanFail(c)
    BY <2>1, EndKnows, CleanSerial DEF CleanFail, Ended
  <2> QED BY <1>2, <2>1, ListingKnows, ReadingKnows, EvictingKnows, CleanSerial
     DEF CleanStep
<1>3. CASE Tick \/ UNCHANGED vars
  <2>1. UNCHANGED <<file, blob, get, set, clean>> /\ now \in Nat /\ now' \in {now, now + 1}
    BY <1>3, BoundsAssumption DEF Tick, vars, TypeInv, StoreType, Time
  <2>2. ASSUME NEW c \in Cleaner PROVE Planned(c) => Planned(c)'
    <3>1. /\ Entries(c, clean[c].victim)' = Entries(c, clean[c].victim)
          /\ clean[c].at \in Nat
      BY <2>1, BoundsAssumption DEF Entries, TypeInv, CleanType, CleanCall, Time
    <3> QED BY <2>1, <3>1 DEF Planned
  <2>3. ASSUME NEW c \in Cleaner
        PROVE  SeenRight(c)' = SeenRight(c) /\ FoundAll(c)' = FoundAll(c)
    BY <2>1 DEF SeenRight, Here, FoundAll, Pending, Directory, GKey, BlobExists
  <2>4. ASSUME NEW c \in Cleaner
        PROVE  FoundOnly(c)' = FoundOnly(c)
    BY <2>1 DEF FoundOnly, Gone, BlobExists
  <2> QED BY <2>1, <2>2, <2>3, <2>4 DEF SerialInv, Unread, Knows, HasToItself
<1> QED BY <1>1, <1>2, <1>3 DEF Next

-----------------------------------------------------------------------------
(* What the plan promises.                                                 *)

Found == {s \in Setter : \E f \in File : Leads(f, s)}

\* When a clean decides, it knows all that can be found, and when each of it
\* was used last.
LEMMA PlanIsTrue ==
    ASSUME TypeInv, SerialInv, ~Overlap, NEW c \in Cleaner, clean[c].pc = "evict"
    PROVE  /\ Candidates(c) = Found /\ clean[c].at <= now
           /\ \A b \in Found :
                /\ Latest(c, b) = LastUse(b) /\ LastUse(b) \in Nat
                /\ \E f \in File : Leads(f, b) /\ file[f].access = LastUse(b)
<1>1. Running(clean[c])
  BY DEF Running, Ended
<1>2. FoundAll(c) /\ FoundOnly(c) /\ clean[c].at <= now
  BY <1>1 DEF SerialInv, Knows, Planned
<1>3. clean[c].found \subseteq [key : File, meta : Meta]
  BY DEF TypeInv, CleanType, CleanCall
<1>4. \A e \in clean[c].found : file[e.key] = e.meta /\ BlobExists(e.meta.blob)
  BY <1>2 DEF FoundOnly, Gone, Planning
<1>5. \A f \in File : file[f] \in Meta /\ BlobExists(file[f].blob) =>
         [key |-> f, meta |-> file[f]] \in clean[c].found
  BY <1>2 DEF FoundAll, Pending, Planning
<1>6. Candidates(c) = Found
  <2>1. ASSUME NEW e \in clean[c].found PROVE e.meta.blob \in Found
    <3>1. e.key \in File /\ e.meta \in Meta /\ e.meta.blob \in Setter
      BY <1>3 DEF Meta
    <3> QED BY <1>4, <3>1 DEF Found, Leads
  <2>2. ASSUME NEW s \in Found PROVE \E e \in clean[c].found : e.meta.blob = s
    <3>1. PICK f \in File : file[f] \in Meta /\ file[f].blob = s /\ BlobExists(s)
      BY DEF Found, Leads
    <3>2. [key |-> f, meta |-> file[f]] \in clean[c].found
      BY <1>5, <3>1
    <3> QED BY <3>1, <3>2
  <2> QED BY <2>1, <2>2 DEF Candidates
<1>7. ASSUME NEW b \in Found
      PROVE  /\ Latest(c, b) = LastUse(b) /\ LastUse(b) \in Nat
             /\ \E f \in File : Leads(f, b) /\ file[f].access = LastUse(b)
  <2> DEFINE Uses == {file[f].access : f \in {f \in File : Leads(f, b)}}
  <2>1. {e.meta.access : e \in Entries(c, b)} = Uses
    <3>1. ASSUME NEW e \in Entries(c, b) PROVE e.meta.access \in Uses
      <4>1. e \in clean[c].found /\ e.meta.blob = b /\ e.key \in File /\ e.meta \in Meta
        BY <1>3 DEF Entries
      <4>2. Leads(e.key, b) /\ file[e.key] = e.meta
        BY <1>4, <4>1 DEF Leads
      <4> QED BY <4>1, <4>2
    <3>2. ASSUME NEW f \in File, Leads(f, b)
          PROVE  \E e \in Entries(c, b) : e.meta.access = file[f].access
      <4>1. [key |-> f, meta |-> file[f]] \in clean[c].found
        BY <1>5, <3>2 DEF Leads
      <4> QED BY <3>2, <4>1 DEF Entries, Leads
    <3> QED BY <3>1, <3>2
  <2>2. Latest(c, b) = Max(Uses) /\ LastUse(b) = Max(Uses)
    BY <2>1 DEF Latest, LastUse
  <2>3. Uses \in SUBSET (0..MaxTime) /\ Uses # {}
    BY DEF Found, Leads, Meta, Time
  <2>4. Max(Uses) \in Uses
    <3> HIDE DEF Uses
    <3> QED BY <2>3, GreatestNumber, BoundsAssumption
  <2> QED BY <2>2, <2>3, <2>4, BoundsAssumption
<1> QED BY <1>2, <1>6, <1>7

LEMMA WhoSteps ==
    ASSUME TypeInv, SerialInv, Next, NEW c \in Cleaner, clean'[c] # clean[c]
    PROVE  CleanStart(c) \/ CleanStep(c) \/ CleanFail(c)
<1>1. ~ UNCHANGED clean
  OBVIOUS
<1>2. ASSUME NEW d \in Cleaner, d # c, CleanStart(d) \/ CleanStep(d) \/ CleanFail(d)
      PROVE  FALSE
  BY <1>2, CleanAlone
<1> QED BY <1>1, <1>2

        DEF Next, GetStart, GetStep, GetReadMeta, GetPut, GetWrite, GetClose,
            GetOpenBlob, GetFail, GetCrash, GetFrame, SetStart, SetStep, SetMissesDir,
            SetMakeDir, SetPutBlob, SetPutMeta, SetCloseBlob, SetWriteMeta,
            SetCloseMeta, SetDropBlob, SetDropMeta, SetFail, SetCrash, SetFrame, Tick

\* A clean that has the cache to itself evicts what was not used for the
\* longest time, and only if that is overdue or all is too much.
THEOREM OldestFirst == Spec => EvictsOldestFirst
<1> DEFINE Evicts(c) == ~Overlap /\ clean[c].pc = "evict" /\ clean'[c].pc = "delmeta"
           Oldest(c) ==
              LET found == {s \in Setter : \E f \in File : Leads(f, s)}
                  b == clean'[c].victim
              IN  /\ b \in found /\ \A s \in found : LastUse(b) <= LastUse(s)
                  /\ LastUse(b) + MaxAge < now \/ SizeOf(found) > MaxSize
<1>1. TypeInv /\ SerialInv /\ [Next]_vars => [\A c \in Cleaner : Evicts(c) => Oldest(c)]_vars
  <2> SUFFICES ASSUME TypeInv, SerialInv, Next, NEW c \in Cleaner, Evicts(c) PROVE Oldest(c)
    OBVIOUS
  <2>1. clean \in [Cleaner -> CleanCall] /\ clean[c] \in CleanCall /\ clean'[c] # clean[c]
    BY DEF TypeInv, CleanType
  <2>2. CleanStart(c) \/ CleanStep(c) \/ CleanFail(c)
    BY <2>1, WhoSteps
  <2>3. CleanEvict(c)
    BY <2>1, <2>2 DEF CleanStart, CleanStep, CleanSeeBlob, CleanSizeBlob, CleanListMeta,
         CleanListDir, CleanReadMeta, CleanPlan, CleanDelMeta, CleanDelBlob, CleanFail,
         CleanGoto, CleanCall
  <2>4. PICK b \in Candidates(c) :
            /\ IsTop(c, b) /\ MustEvict(c, b)
            /\ clean' = [clean EXCEPT ![c].pc = "delmeta", ![c].victim = b,
                                      ![c].todo = {e.key : e \in Entries(c, b)}]
    BY <2>1, <2>3 DEF CleanEvict, CleanGoto, CleanCall
  <2>5. clean'[c].victim = b
    BY <2>1, <2>4 DEF CleanCall
  <2>6. /\ Candidates(c) = Found /\ clean[c].at <= now
        /\ \A s \in Found : Latest(c, s) = LastUse(s) /\ LastUse(s) \in Nat
    BY PlanIsTrue
  <2>7. \A s \in Found : LastUse(b) <= LastUse(s)
    BY <2>4, <2>6 DEF IsTop
  <2>8. LastUse(b) + MaxAge < now \/ SizeOf(Found) > MaxSize
    <3>1. now \in Nat /\ clean[c].at \in Nat /\ MaxAge \in Nat
      BY <2>1, BoundsAssumption DEF TypeInv, StoreType, CleanCall, Time
    <3> QED BY <2>4, <2>6, <3>1 DEF MustEvict
  <2> QED BY <2>4, <2>5, <2>6, <2>7, <2>8 DEF Found
<1> DEFINE IInv == TypeInv /\ FlowInv /\ SerialInv
<1>2. Init => IInv
  BY InitType, InitFlow, InitSerial
<1>3. IInv /\ [Next]_vars => IInv'
  BY NextType, NextFlow, NextSerial
<1> QED BY <1>1, <1>2, <1>3, PTL DEF Spec, EvictsOldestFirst


\* Only finitely many blobs were ever written.
Written == {s \in Setter : blob[s] # "absent"}

LEMMA OneMoreWritten ==
    ASSUME IsFiniteSet(Written), NEW r,
           \A s \in Setter \ {r} : blob'[s] # "absent" => blob[s] # "absent"
    PROVE  IsFiniteSet(Written)'
<1>1. IsFiniteSet(Written \cup {r})
  BY FS_AddElement
<1>2. Written' \subseteq Written \cup {r}
  BY DEF Written
<1>3. IsFiniteSet(Written')
  BY <1>1, <1>2, FS_Subset
<1> QED BY <1>3

LEMMA NextWritten ==
    ASSUME TypeInv, IsFiniteSet(Written), [Next]_vars PROVE IsFiniteSet(Written)'
<1>1. blob \in [Setter -> BlobFile]
  BY DEF TypeInv, StoreType
<1>2. CASE UNCHANGED blob
  BY <1>2, OneMoreWritten
<1>3. ASSUME NEW s \in Setter, SetStart(s) \/ SetStep(s) \/ SetFail(s) \/ SetCrash(s)
      PROVE  IsFiniteSet(Written)'
  <2>1. \A r \in Setter \ {s} : blob'[r] = blob[r]
    BY <1>1, <1>3
       DEF SetStart, SetStep, SetMissesDir, SetMakeDir, SetPutBlob, SetPutMeta,
           SetCloseBlob, SetWriteMeta, SetCloseMeta, SetDropBlob, SetDropMeta, SetFail,
           SetCrash
  <2> QED BY <2>1, OneMoreWritten
<1>4. ASSUME NEW c \in Cleaner, CleanDelBlob(c) PROVE IsFiniteSet(Written)'
  <2>1. \A r \in Setter : blob'[r] # "absent" => blob[r] # "absent"
    BY <1>1, <1>4 DEF CleanDelBlob, BlobExists
  <2> QED BY <2>1, OneMoreWritten
<1> QED BY <1>2, <1>3, <1>4

        DEF Next, GetStart, GetStep, GetReadMeta, GetPut, GetWrite, GetClose,
            GetOpenBlob, GetFail, GetCrash, GetFrame, CleanStart, CleanStep,
            CleanSeeBlob, CleanSizeBlob, CleanListMeta, CleanListDir, CleanReadMeta,
            CleanPlan, CleanEvict, CleanDelMeta, CleanFail, Tick, vars

LEMMA SizeOfOne == ASSUME NEW b \in Setter PROVE SizeOf({b}) = Size[b]
<1>1. IsFiniteSet({b})
  BY FS_Singleton
<1>2. Units({b}) = Unit(b)
  BY DEF Units
<1> QED BY <1>1, <1>2, SizeIsUnits, UnitSize

\* The heap has a top unless it is empty.
LEMMA TopExists ==
    ASSUME NEW c \in Cleaner, Candidates(c) # {},
           IsFiniteSet(Candidates(c)), Candidates(c) \subseteq Setter,
           \A b \in Candidates(c) : Latest(c, b) \in Nat
    PROVE  \E b \in Candidates(c) : IsTop(c, b)
<1> DEFINE Uses == {Latest(c, b) : b \in Candidates(c)}
<1>1. PICK u \in Uses : \A v \in Uses : u <= v
  <2>1. Uses \in SUBSET Nat /\ Uses # {}
    OBVIOUS
  <2> HIDE DEF Uses
  <2> QED BY <2>1, LeastNumber
<1> DEFINE Oldest == {b \in Candidates(c) : Latest(c, b) = u}
           Sizes == {Size[b] : b \in Oldest}
           n == SizeOf(Candidates(c))
<1>2. n \in Nat /\ Sizes \in SUBSET (0..n) /\ Sizes # {}
  <2>1. \A b \in Candidates(c) : SizeOf({b}) \in Nat /\ n \in Nat /\ SizeOf({b}) <= n
    BY SizeGrows
  <2>2. \A b \in Candidates(c) : Size[b] \in Nat /\ n \in Nat /\ Size[b] <= n
    BY <2>1, SizeOfOne
  <2> HIDE DEF n
  <2>3. Sizes \in SUBSET (0..n) /\ n \in Nat
    BY <2>2
  <2> QED BY <1>1, <2>3
<1>3. Max(Sizes) \in Sizes /\ \A m \in Sizes : m <= Max(Sizes)
  <2> HIDE DEF Sizes, n
  <2> QED BY <1>2, GreatestNumber
<1>4. PICK b \in Oldest : Size[b] = Max(Sizes)
  BY <1>3
<1>5. \A d \in Oldest : Size[b] >= Size[d]
  <2>1. \A d \in Oldest : Size[d] <= Size[b] /\ Size[b] \in Nat /\ Size[d] \in Nat
    <3> HIDE DEF Uses
    <3> QED BY <1>3, <1>4, BoundsAssumption
  <2> QED BY <2>1
<1>6. \A d \in Candidates(c) : Latest(c, b) < Latest(c, d) \/ d \in Oldest
  <2>1. ASSUME NEW d \in Candidates(c) PROVE Latest(c, b) < Latest(c, d) \/ d \in Oldest
    <3>1. u <= Latest(c, d) /\ Latest(c, b) = u /\ u \in Nat /\ Latest(c, d) \in Nat
      BY <1>1, <1>4
    <3> QED BY <3>1
  <2> QED BY <2>1
<1> QED BY <1>4, <1>5, <1>6 DEF IsTop

\* A clean that had the cache to itself ends when what can still be found is
\* within both limits: the top of the heap would be evicted otherwise, and all
\* else was used later.
THEOREM LimitsAreMet == Spec => CleanMeetsLimits
<1> DEFINE Meets(c) ==
              LET reachable == {s \in Setter : \E k \in Key : Leads(k, s)}
              IN  /\ SizeOf(reachable) <= MaxSize
                  /\ \A s \in reachable : \E f \in File :
                        Leads(f, s) /\ file[f].access + MaxAge >= clean[c].at
           IInv == TypeInv /\ FlowInv /\ SerialInv /\ IsFiniteSet(Written)
<1>1. IInv /\ [Next]_vars => [\A c \in Cleaner : ~Overlap /\ Finishes(c) => Meets(c)]_vars
  <2> SUFFICES ASSUME IInv, Next, NEW c \in Cleaner, ~Overlap, Finishes(c) PROVE Meets(c)
    OBVIOUS
  <2>1. /\ clean \in [Cleaner -> CleanCall] /\ clean[c] \in CleanCall /\ clean'[c] # clean[c]
        /\ clean[c].pc = "evict"
    BY DEF TypeInv, CleanType, Finishes
  <2>2. CleanStart(c) \/ CleanStep(c) \/ CleanFail(c)
    BY <2>1, WhoSteps
  <2>3. \A b \in Candidates(c) : IsTop(c, b) => ~MustEvict(c, b)
    <3>1. clean'[c].pc = "ok"
      BY DEF Finishes
    <3>2. ~CleanFail(c)
      BY <2>1, <3>1 DEF CleanFail, CleanGoto, CleanCall
    <3>3. CleanEvict(c)
      BY <2>1, <2>2, <3>2
         DEF CleanStart, CleanStep, CleanSeeBlob, CleanSizeBlob, CleanListMeta,
             CleanListDir, CleanReadMeta, CleanPlan, CleanDelMeta, CleanDelBlob
    <3>4. ASSUME NEW b \in Candidates(c),
                 clean' = [clean EXCEPT ![c].pc = "delmeta", ![c].victim = b,
                                        ![c].todo = {e.key : e \in Entries(c, b)}]
          PROVE  FALSE
      BY <2>1, <3>1, <3>4 DEF CleanCall
    <3> QED BY <3>3, <3>4 DEF CleanEvict
  <2>4. /\ Candidates(c) = Found
        /\ \A s \in Found :
             /\ Latest(c, s) = LastUse(s) /\ LastUse(s) \in Nat
             /\ \E f \in File : Leads(f, s) /\ file[f].access = LastUse(s)
    BY <2>1, PlanIsTrue
  <2>5. IsFiniteSet(Found) /\ Found \in SUBSET Setter
    <3>1. Found \in SUBSET Written
      BY DEF Found, Leads, BlobExists, Written
    <3> QED BY <3>1, FS_Subset DEF Found
  <2> DEFINE reachable == {s \in Setter : \E k \in Key : Leads(k, s)}
  <2>6. reachable \in SUBSET Found
    BY DEF Found, File
  <2>7. SizeOf(reachable) \in Nat /\ SizeOf(Found) \in Nat /\ SizeOf(reachable) <= SizeOf(Found)
    <3> HIDE DEF reachable
    <3> QED BY <2>5, <2>6, SizeGrows
  <2>8. CASE Found = {}
    <3>1. IsFiniteSet({}) /\ Cardinality({}) = 0 /\ Units({}) = {}
      BY FS_EmptySet DEF Units
    <3>2. SizeOf({}) = 0 /\ MaxSize \in Nat
      BY <3>1, SizeIsUnits, BoundsAssumption
    <3>3. reachable = {}
      BY <2>6, <2>8
    <3>4. SizeOf(reachable) <= MaxSize
      BY <3>2, <3>3
    <3> QED BY <3>3, <3>4
  <2>9. CASE Found # {}
    <3>1. PICK b \in Found : IsTop(c, b) /\ ~MustEvict(c, b)
      <4>1. \E b \in Candidates(c) : IsTop(c, b)
        BY <2>4, <2>5, <2>9, TopExists
      <4> QED BY <2>3, <2>4, <4>1
    <3>2. clean[c].at \in Nat /\ MaxAge \in Nat /\ MaxSize \in Nat
      BY <2>1, BoundsAssumption DEF CleanCall, Time
    <3>3. LastUse(b) + MaxAge >= clean[c].at /\ SizeOf(Found) <= MaxSize
      BY <2>4, <2>7, <3>1, <3>2 DEF MustEvict
    <3>4. ASSUME NEW s \in reachable
          PROVE  \E f \in File : Leads(f, s) /\ file[f].access + MaxAge >= clean[c].at
      <4>1. s \in Found /\ LastUse(b) <= LastUse(s)
        BY <2>4, <2>6, <3>1 DEF IsTop
      <4>2. PICK f \in File : Leads(f, s) /\ file[f].access = LastUse(s)
        BY <2>4, <4>1
      <4>3. LastUse(s) + MaxAge >= clean[c].at
        BY <2>4, <3>2, <3>3, <4>1
      <4> QED BY <4>2, <4>3
    <3>5. SizeOf(reachable) <= MaxSize
      <4> HIDE DEF reachable
      <4> QED BY <2>7, <3>2, <3>3
    <3> QED BY <3>4, <3>5
  <2> QED BY <2>8, <2>9
<1>2. Init => IInv
  <2>1. Init => Written = {}
    BY DEF Init, Written
  <2> QED BY <2>1, InitType, InitFlow, InitSerial, FS_EmptySet
<1>3. IInv /\ [Next]_vars => IInv'
  BY NextType, NextFlow, NextSerial, NextWritten
<1> QED BY <1>1, <1>2, <1>3, PTL DEF Spec, CleanMeetsLimits
===============================================================================
