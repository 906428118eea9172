------------------------ MODULE FileURLStoreProofs ------------------------
(***************************************************************************)
(* Proofs about FileURLStore, for any number of goroutines, URLs and       *)
(* users, batches and files of any length, and any number of crashes.      *)
(***************************************************************************)
EXTENDS FileURLStore, TLAPS, SequenceTheorems, WellFoundedInduction

-----------------------------------------------------------------------------
(***************************************************************************)
(* What a file says, for any file and not only for the present one: the    *)
(* last line for a short URL counts.                                       *)
(***************************************************************************)
Lines == StoredURLs \cup {Torn}

TextMaps == [ShortURLs -> TextRecords \cup {Absent}]

LinesOf(f, s, n) == {k \in 1..n : f[k] # Torn /\ f[k].ShortURL = s}

Latest(S) == CHOOSE k \in S : \A l \in S : l <= k

Content(f, n) ==
    [s \in ShortURLs |-> IF LinesOf(f, s, n) = {} THEN Absent
                         ELSE f[Latest(LinesOf(f, s, n))].rec]

LEMMA DurableIsContent ==
    Durable = Content(file, Len(file)) /\ Durable' = Content(file', Len(file'))
BY DEF Durable, LoadedFrom, LinesFor, Content, LinesOf, Latest

\* A set of numbers up to n has a largest one.
LEMMA LastOf ==
    ASSUME NEW n \in Nat, NEW S \in SUBSET (1..n), S # {}
    PROVE  Latest(S) \in S /\ \A l \in S : l <= Latest(S)
<1> DEFINE T == {n - k : k \in S}
<1>1. T \subseteq Nat
  OBVIOUS
<1>2. T # {}
  OBVIOUS
<1> HIDE DEF T
<1>3. PICK x \in T : \A y \in T : ~(<<y, x>> \in OpToRel(<, Nat))
  BY <1>1, <1>2, NatLessThanWellFounded, WFMin
<1>4. \A y \in T : ~(y < x)
  BY <1>1, <1>3 DEF OpToRel
<1>5. \E k \in S : \A l \in S : l <= k
  BY <1>4 DEF T
<1> QED
  BY <1>5 DEF Latest

\* The last line for a short URL, where there is one.
LEMMA LastLine ==
    ASSUME NEW f \in Seq(Lines), NEW n \in 0..Len(f), NEW s \in ShortURLs
    PROVE  \/ LinesOf(f, s, n) = {} /\ Content(f, n)[s] = Absent
           \/ \E k \in LinesOf(f, s, n) : /\ \A l \in LinesOf(f, s, n) : l <= k
                                          /\ Content(f, n)[s] = f[k].rec
                                          /\ f[k] \in StoredURLs
<1>1. CASE LinesOf(f, s, n) = {}
  BY <1>1 DEF Content
<1>2. CASE LinesOf(f, s, n) # {}
  <2> DEFINE k == Latest(LinesOf(f, s, n))
  <2>1. LinesOf(f, s, n) \in SUBSET (1..n) /\ n \in Nat
    BY DEF LinesOf
  <2>2. k \in LinesOf(f, s, n) /\ \A l \in LinesOf(f, s, n) : l <= k
    BY <1>2, <2>1, LastOf
  <2>3. Content(f, n)[s] = f[k].rec
    BY <1>2 DEF Content
  <2>4. f[k] \in StoredURLs
    BY <2>2 DEF LinesOf, Lines
  <2> QED
    BY <2>2, <2>3, <2>4
<1> QED
  BY <1>1, <1>2

LEMMA ContentType ==
    ASSUME NEW f \in Seq(Lines), NEW n \in 0..Len(f)
    PROVE  Content(f, n) \in TextMaps
<1>1. ASSUME NEW s \in ShortURLs
      PROVE  Content(f, n)[s] \in TextRecords \cup {Absent}
  BY LastLine DEF StoredURLs
<1> QED
  BY <1>1 DEF Content, TextMaps

\* A short URL is bound by its lines, and only by them.
LEMMA BoundByLines ==
    ASSUME NEW f \in Seq(Lines), NEW n \in 0..Len(f), NEW s \in ShortURLs
    PROVE  /\ Content(f, n)[s] # Absent =>
                \E k \in 1..n : /\ f[k] # Torn /\ f[k].ShortURL = s
                                /\ Content(f, n)[s] = f[k].rec
           /\ \A k \in 1..n : f[k] # Torn /\ f[k].ShortURL = s => Content(f, n)[s] # Absent
<1>1. ASSUME NEW k \in 1..n, f[k] # Torn
      PROVE  f[k].rec # Absent
  <2>1. f[k] \in Lines
    OBVIOUS
  <2> QED
    BY <1>1, <2>1, AbsentIsNoRecord DEF Lines, StoredURLs, TextRecords
<1>2. CASE LinesOf(f, s, n) = {} /\ Content(f, n)[s] = Absent
  BY <1>2 DEF LinesOf
<1>3. CASE \E k \in LinesOf(f, s, n) : Content(f, n)[s] = f[k].rec
  BY <1>1, <1>3 DEF LinesOf
<1> QED
  BY <1>2, <1>3, LastLine

\* Only the lines up to n count.
LEMMA ContentIsLocal ==
    ASSUME NEW f \in Seq(Lines), NEW g \in Seq(Lines), NEW n \in Nat,
           n <= Len(f), n <= Len(g), \A k \in 1..n : f[k] = g[k]
    PROVE  Content(f, n) = Content(g, n)
<1>1. ASSUME NEW s \in ShortURLs
      PROVE  Content(f, n)[s] = Content(g, n)[s]
  <2>1. LinesOf(f, s, n) = LinesOf(g, s, n)
    BY DEF LinesOf
  <2>2. CASE LinesOf(f, s, n) = {}
    BY <2>1, <2>2 DEF Content
  <2>3. CASE LinesOf(f, s, n) # {}
    <3> DEFINE k == Latest(LinesOf(f, s, n))
    <3>1. k \in 1..n
      BY <2>3, LastOf DEF LinesOf
    <3>2. Content(f, n)[s] = f[k].rec /\ Content(g, n)[s] = g[k].rec
      BY <2>1, <2>3 DEF Content
    <3> QED
      BY <3>1, <3>2
  <2> QED
    BY <2>2, <2>3
<1> QED
  BY <1>1 DEF Content

\* The next line replaces what the file said of its short URL.
LEMMA ContentOfLine ==
    ASSUME NEW f \in Seq(Lines), NEW n \in 1..Len(f), f[n] # Torn
    PROVE  Content(f, n) = [Content(f, n - 1) EXCEPT ![f[n].ShortURL] = f[n].rec]
<1>1. f[n] \in StoredURLs
  BY DEF Lines
<1>2. ASSUME NEW s \in ShortURLs
      PROVE  Content(f, n)[s] = IF s = f[n].ShortURL THEN f[n].rec ELSE Content(f, n - 1)[s]
  <2>1. CASE s = f[n].ShortURL
    <3>1. n \in LinesOf(f, s, n)
      BY <2>1 DEF LinesOf
    <3>2. \A k \in LinesOf(f, s, n) : k <= n
      BY DEF LinesOf
    <3>3. LinesOf(f, s, n) \in SUBSET (1..n) /\ n \in Nat
      BY DEF LinesOf
    <3>4. Latest(LinesOf(f, s, n)) \in 1..n /\ n <= Latest(LinesOf(f, s, n))
      BY <3>1, <3>3, LastOf
    <3>5. Latest(LinesOf(f, s, n)) = n
      BY <3>4
    <3> QED
      BY <2>1, <3>1, <3>5 DEF Content
  <2>2. CASE s # f[n].ShortURL
    <3>1. LinesOf(f, s, n) = LinesOf(f, s, n - 1)
      BY <2>2 DEF LinesOf
    <3> QED
      BY <2>2, <3>1 DEF Content
  <2> QED
    BY <2>1, <2>2
<1> QED
  BY <1>2 DEF Content

LEMMA ContentOfTorn ==
    ASSUME NEW f \in Seq(Lines), NEW n \in 1..Len(f), f[n] = Torn
    PROVE  Content(f, n) = Content(f, n - 1)
<1>1. \A s \in ShortURLs : LinesOf(f, s, n) = LinesOf(f, s, n - 1)
  BY DEF LinesOf
<1> QED
  BY <1>1 DEF Content

\* What appending a line, whole or torn, does to the content.
LEMMA ContentOfAppend ==
    ASSUME NEW f \in Seq(Lines), NEW line \in Lines
    PROVE  Content(Append(f, line), Len(f) + 1) =
                IF line = Torn THEN Content(f, Len(f))
                ELSE [Content(f, Len(f)) EXCEPT ![line.ShortURL] = line.rec]
<1> DEFINE g == Append(f, line)
           n == Len(f)
<1>1. /\ g \in Seq(Lines) /\ Len(g) = n + 1 /\ n \in Nat
      /\ g[n + 1] = line /\ \A k \in 1..n : g[k] = f[k]
  OBVIOUS
<1> HIDE DEF g, n
<1>2. Content(g, n) = Content(f, n)
  BY <1>1, ContentIsLocal DEF n
<1>3. n + 1 \in 1..Len(g) /\ (n + 1) - 1 = n
  BY <1>1
<1>4. CASE line = Torn
  <2>1. Content(g, n + 1) = Content(g, n)
    BY <1>1, <1>3, <1>4, ContentOfTorn
  <2> QED
    BY <1>2, <1>4, <2>1 DEF g, n
<1>5. CASE line # Torn
  <2>1. Content(g, n + 1) = [Content(g, n) EXCEPT ![line.ShortURL] = line.rec]
    BY <1>1, <1>3, <1>5, ContentOfLine
  <2> QED
    BY <1>2, <1>5, <2>1 DEF g, n
<1> QED
  BY <1>4, <1>5
-----------------------------------------------------------------------------
(***************************************************************************)
(* Types.                                                                  *)
(***************************************************************************)
\* Both ways of writing a record yield a record, which is not Absent.
LEMMA Records ==
    /\ \A rec \in URLRecords :
        /\ Tombstone(rec) \in URLRecords /\ rec # Absent /\ Tombstone(rec) # Absent
        /\ Tombstone(Tombstone(rec)) = Tombstone(rec)
        /\ Tombstone(rec).isDeleted /\ Tombstone(rec).userID = rec.userID
        /\ Tombstone(rec).originalURL = rec.originalURL
    /\ \A pair \in URLPairs, u \in UserIDs :
        /\ NewRecord(pair, u) \in URLRecords /\ ~NewRecord(pair, u).isDeleted
        /\ NewRecord(pair, u).originalURL = pair.OriginalURL
        /\ NewRecord(pair, u).userID = u
<1>1. Absent \notin URLRecords
  BY AbsentIsNoRecord
<1> QED
  BY <1>1 DEF URLRecords, URLPairs, Tombstone, NewRecord

\* What the file keeps of a record is a record whose original URL is text; it
\* keeps such a record as it is, and everything of any other but its URL.
LEMMA StoredRecords ==
    /\ \A rec \in URLRecords :
        /\ Stored(rec) \in TextRecords /\ Stored(rec) \in URLRecords /\ Stored(rec) # Absent
        /\ Stored(Tombstone(rec)) = Tombstone(Stored(rec))
        /\ Stored(rec).originalURL = AsText[rec.originalURL]
        /\ Stored(rec).userID = rec.userID /\ Stored(rec).isDeleted = rec.isDeleted
    /\ \A rec \in TextRecords :
        /\ rec \in URLRecords /\ Tombstone(rec) \in TextRecords /\ Stored(rec) = rec
        /\ AsText[rec.originalURL] = rec.originalURL
<1>1. \A o \in OriginalURLs : AsText[o] \in Texts /\ AsText[o] \in OriginalURLs
  BY AsTextCoerces DEF Texts
<1>2. \A o \in Texts : AsText[o] = o
  BY AsTextCoerces DEF Texts
<1>3. Absent \notin URLRecords
  BY AbsentIsNoRecord
<1> QED
  BY <1>1, <1>2, <1>3 DEF URLRecords, TextRecords, Stored, Tombstone

\* What a restart would read, short URL by short URL.
LEMMA ReadMaps ==
    ASSUME NEW map \in URLMaps
    PROVE  /\ AsRead(map) \in TextMaps
           /\ \A s \in ShortURLs :
                /\ map[s] = Absent <=> AsRead(map)[s] = Absent
                /\ map[s] # Absent => map[s] \in URLRecords /\ AsRead(map)[s] = Stored(map[s])
           /\ map \in TextMaps => AsRead(map) = map
BY StoredRecords DEF AsRead, URLMaps, TextMaps

\* What each kind of call is made of.
LEMMA CallFacts ==
    /\ NoCall \in Calls /\ ~Adds(NoCall)
    /\ \A c \in AddCalls :
        /\ c \in Calls /\ c # NoCall /\ Adds(c) /\ c.op # "DeleteUserURLs"
        /\ c.userID \in UserIDs
        /\ \E n \in Nat \ {0} : DOMAIN c.pairs = 1..n
        /\ \A k \in DOMAIN c.pairs : c.pairs[k] \in URLPairs
    /\ \A c \in AddURLCalls : c \in AddCalls /\ c.op = "AddURL" /\ DOMAIN c.pairs = {1}
    /\ \A c \in DeleteUserURLsCalls :
        /\ c \in Calls /\ c # NoCall /\ ~Adds(c) /\ c.op = "DeleteUserURLs"
        /\ c.userID \in UserIDs
        /\ \E n \in Nat : DOMAIN c.shortURLs = 1..n
        /\ \A k \in DOMAIN c.shortURLs : c.shortURLs[k] \in ShortURLs
    /\ \A c \in GetCalls : c \in Calls /\ c # NoCall /\ ~Adds(c) /\ c.op = "Get"
    /\ \A c \in Calls :
        /\ Adds(c) => c \in AddCalls
        /\ c.op = "AddURL" => c \in AddURLCalls
        /\ c.op = "DeleteUserURLs" => c \in DeleteUserURLsCalls
        /\ c # NoCall => Adds(c) \/ c.op \in {"DeleteUserURLs", "Get"}
<1> USE BoundsAreNats DEF Calls, NoCall, Adds, AddCalls
<1>1. \A c \in AddURLCalls : /\ c.op = "AddURL" /\ c.userID \in UserIDs
                             /\ DOMAIN c.pairs = 1..1 /\ DOMAIN c.pairs = {1}
                             /\ c.pairs[1] \in URLPairs
  BY DEF AddURLCalls
<1>2. ASSUME NEW c \in AddURLsCalls
      PROVE  /\ c.op = "AddURLs" /\ c.userID \in UserIDs
             /\ \E n \in Nat \ {0} : DOMAIN c.pairs = 1..n
             /\ \A k \in DOMAIN c.pairs : c.pairs[k] \in URLPairs
  <2>1. PICK n \in 0..MaxBatch :
            c.pairs \in [1..n -> {pair \in URLPairs : pair.OriginalURL \in Texts}]
    BY DEF AddURLsCalls, BoundedSeq, SeqOf
  <2>2. c.pairs # << >>
    BY DEF AddURLsCalls
  <2>3. n # 0
    BY <2>1, <2>2
  <2> QED
    BY <2>1, <2>3 DEF AddURLsCalls
<1>3. ASSUME NEW c \in DeleteUserURLsCalls
      PROVE  /\ c.op = "DeleteUserURLs" /\ c.userID \in UserIDs
             /\ \E n \in Nat : DOMAIN c.shortURLs = 1..n
             /\ \A k \in DOMAIN c.shortURLs : c.shortURLs[k] \in ShortURLs
  BY DEF DeleteUserURLsCalls, BoundedSeq, SeqOf
<1>4. \A c \in GetCalls : c.op = "Get"
  BY DEF GetCalls
<1>5. ASSUME NEW c \in AddCalls
      PROVE  /\ c \in Calls /\ c # NoCall /\ Adds(c) /\ c.op # "DeleteUserURLs"
             /\ c.userID \in UserIDs
             /\ \E n \in Nat \ {0} : DOMAIN c.pairs = 1..n
             /\ \A k \in DOMAIN c.pairs : c.pairs[k] \in URLPairs
  <2>1. CASE c \in AddURLCalls
    <3>1. DOMAIN c.pairs = 1..1 /\ 1 \in Nat \ {0}
      BY <1>1, <2>1
    <3> QED
      BY <1>1, <2>1, <3>1
  <2>2. CASE c \in AddURLsCalls
    BY <1>2, <2>2
  <2> QED
    BY <2>1, <2>2
<1>6. ASSUME NEW c \in DeleteUserURLsCalls
      PROVE  /\ c \in Calls /\ c # NoCall /\ ~Adds(c) /\ c.op = "DeleteUserURLs"
             /\ c.userID \in UserIDs
             /\ \E n \in Nat : DOMAIN c.shortURLs = 1..n
             /\ \A k \in DOMAIN c.shortURLs : c.shortURLs[k] \in ShortURLs
  BY <1>3
<1>7. ASSUME NEW c \in Calls
      PROVE  /\ Adds(c) => c \in AddCalls
             /\ c.op = "AddURL" => c \in AddURLCalls
             /\ c.op = "DeleteUserURLs" => c \in DeleteUserURLsCalls
             /\ c # NoCall => Adds(c) \/ c.op \in {"DeleteUserURLs", "Get"}
  BY <1>1, <1>2, <1>3, <1>4
<1>8. NoCall \in Calls /\ ~Adds(NoCall)
  OBVIOUS
<1>9. \A c \in GetCalls : c \in Calls /\ c # NoCall /\ ~Adds(c) /\ c.op = "Get"
  BY <1>4
<1> QED
  BY <1>1, <1>5, <1>6, <1>7, <1>8, <1>9

LEMMA InitialTypes == Init => WellTyped
<1> SUFFICES ASSUME Init
             PROVE  WellTyped
  OBVIOUS
<1>1. file \in Seq(StoredURLs \cup {Torn})
  BY DEF Init
<1>2. NoCall \in Calls
  BY CallFacts
<1>3. EmptyMap \in URLMaps
  BY DEF EmptyMap, URLMaps
<1>4. crashes \in 0..MaxCrashes
  BY BoundsAreNats DEF Init
<1>5. /\ phase = "loading" /\ pos \in Nat \ {0} /\ m \in URLMaps
      /\ mu \in Procs \cup {NoProc} /\ promised \in URLMaps
  BY <1>3 DEF Init
<1>7. encErr \in BOOLEAN
  BY Zenon DEF Init
<1>6. /\ pc \in [Procs -> {"idle", "lock"} \cup Locked]
      /\ call \in [Procs -> Calls]
      /\ i \in [Procs -> Nat \ {0}]
      /\ answer \in [Procs -> {"ok", "exists", "error"}]
      /\ \A p \in Procs : pc[p] = "idle" /\ call[p] = NoCall
  BY <1>2 DEF Init
<1> QED
  BY <1>1, <1>4, <1>5, <1>6, <1>7 DEF WellTyped

\* The short URL a goroutine is about to write a line for.
Written(p) == Line(p).ShortURL

\* A line is written for a short URL that the map has.
WritesWhatItHas == \A p \in Procs : pc[p] = "encode" => m[Written(p)] # Absent

Typed == WellTyped /\ WritesWhatItHas

LEMMA LineType ==
    ASSUME Typed, NEW p \in Procs, pc[p] = "encode"
    PROVE  /\ Line(p) \in StoredURLs /\ Written(p) \in ShortURLs
           /\ Line(p).rec = Stored(m[Written(p)]) /\ m[Written(p)] \in URLRecords
<1>1. Line(p) = [ShortURL |-> Written(p), rec |-> Stored(m[Written(p)])]
  BY DEF Line, Written
<1>2. Written(p) \in ShortURLs
  BY CallFacts DEF Typed, WellTyped, Line, Written, URLPairs
<1> QED
  BY <1>1, <1>2, StoredRecords DEF Typed, WellTyped, WritesWhatItHas, StoredURLs, URLMaps

\* A write that fails leaves the file as it was, or with the line, or torn.
LEMMA WhatRemains ==
    ASSUME Typed, NEW p \in Procs, pc[p] = "encode", NEW f \in Remains(p)
    PROVE  f \in {file, Append(file, Line(p)), Append(file, Torn)} /\ f \in Seq(Lines)
<1>1. f \in {file, Append(file, Line(p)), Append(file, Torn)}
  BY DEF Remains
<1>2. file \in Seq(Lines) /\ Line(p) \in Lines /\ Torn \in Lines
  BY LineType DEF Typed, WellTyped, Lines
<1>3. Append(file, Line(p)) \in Seq(Lines) /\ Append(file, Torn) \in Seq(Lines)
  BY <1>2, AppendProperties
<1> QED
  BY <1>1, <1>2, <1>3

\* A new process starts with nothing but the file.
LEMMA StartTypes ==
    ASSUME Start, file' \in Seq(StoredURLs \cup {Torn}), crashes' \in 0..MaxCrashes,
           promised \in URLMaps
    PROVE  Typed'
<1>1. encErr' \in BOOLEAN
  BY Zenon DEF Start
<1>2. NoCall \in Calls
  BY CallFacts
<1>3. /\ pc' \in [Procs -> {"idle", "lock"} \cup Locked]
      /\ call' \in [Procs -> Calls]
      /\ i' \in [Procs -> Nat \ {0}]
      /\ answer' \in [Procs -> {"ok", "exists", "error"}]
      /\ \A p \in Procs : pc'[p] = "idle" /\ call'[p] = NoCall
  BY <1>2 DEF Start
<1>4. /\ phase' = "loading" /\ pos' \in Nat \ {0} /\ m' \in URLMaps
      /\ mu' \in Procs \cup {NoProc} /\ promised' \in URLMaps
  BY DEF Start, EmptyMap, URLMaps
<1>5. WellTyped'
  BY <1>1, <1>3, <1>4 DEF WellTyped
<1>6. WritesWhatItHas'
  BY <1>3 DEF WritesWhatItHas
<1> QED
  BY <1>5, <1>6 DEF Typed

\* Every step keeps the variables in their types.
LEMMA TypePreserved == Typed /\ [Next]_vars => WellTyped'
<1> SUFFICES ASSUME Typed, [Next]_vars
             PROVE  WellTyped'
  OBVIOUS
<1> USE CallFacts DEF Typed, WellTyped
<1>1. CASE LoadRecord
  <2>1. file[pos] \in StoredURLs
    BY <1>1 DEF LoadRecord
  <2> QED
    BY <1>1, <2>1, StoredRecords DEF LoadRecord, history, StoredURLs, URLMaps
<1>2. CASE LoadFails \/ LoadEnd
  BY <1>2 DEF LoadFails, LoadEnd, history
<1>3. ASSUME NEW p \in Procs, NEW c \in Calls \ {NoCall}, Begin(p, c)
      PROVE  WellTyped'
  BY <1>3 DEF Begin, process, history
<1>4. ASSUME NEW p \in Procs, Begins(p)
      PROVE  WellTyped'
  BY <1>3, <1>4 DEF Begins, BeginAdd, BeginDeleteUserURLs, BeginGet
<1>5. ASSUME NEW p \in Procs, Lock(p)
      PROVE  WellTyped'
  <2>1. /\ FirstLabel(call[p]) \in Locked
        /\ FirstLabel(call[p]) = "find" => call[p] \in AddURLCalls
        /\ FirstLabel(call[p]) = "add" => call[p] \in AddCalls
        /\ FirstLabel(call[p]) = "delete" => call[p] \in DeleteUserURLsCalls
        /\ FirstLabel(call[p]) # "encode"
    BY <1>5 DEF Lock, FirstLabel, Adds, Locked
  <2> QED
    BY <1>5, <2>1 DEF Lock, Locked, process, history
<1> USE DEF Goto, Locked, process, history
<1>6. ASSUME NEW p \in Procs,
             FindHit(p) \/ FindMiss(p) \/ AddEnd(p) \/ DeleteEnd(p) \/ Read(p)
      PROVE  WellTyped'
  <2>1. CASE FindHit(p)
    BY <2>1 DEF FindHit
  <2>2. CASE FindMiss(p)
    BY <2>2 DEF FindMiss
  <2>3. CASE AddEnd(p)
    BY <2>3 DEF AddEnd
  <2>4. CASE DeleteEnd(p)
    BY <2>4 DEF DeleteEnd
  <2>5. CASE Read(p)
    BY <2>5 DEF Read
  <2> QED
    BY <1>6, <2>1, <2>2, <2>3, <2>4, <2>5
<1>7. ASSUME NEW p \in Procs, Put(p)
      PROVE  WellTyped'
  BY <1>7, Records DEF Put, URLMaps, URLPairs
<1>8. ASSUME NEW p \in Procs, Skip(p)
      PROVE  WellTyped'
  BY <1>8 DEF Skip
<1>9. ASSUME NEW p \in Procs, Mark(p)
      PROVE  WellTyped'
  BY <1>9, Records DEF Mark, OwnedBy, URLMaps
<1>10. ASSUME NEW p \in Procs, Encode(p)
       PROVE  WellTyped'
  <2>1. Line(p) \in StoredURLs
    BY <1>10, LineType DEF Encode
  <2> QED
    BY <1>10, <2>1 DEF Encode, Adds
<1>11. ASSUME NEW p \in Procs, EncodeFails(p)
       PROVE  WellTyped'
  <2>2. file' \in Seq(StoredURLs \cup {Torn})
    BY <1>11, WhatRemains DEF EncodeFails, Lines
  <2>3. encErr' \in BOOLEAN
    BY <1>11, Zenon DEF EncodeFails
  <2> QED
    BY <1>11, <2>2, <2>3 DEF EncodeFails
<1>12. ASSUME NEW p \in Procs, Unlock(p)
       PROVE  WellTyped'
  <2>1. promised' \in URLMaps
    <3> SUFFICES ASSUME NEW s \in ShortURLs
                 PROVE  Promise(call[p], s) \in URLRecords \cup {Absent}
      BY <1>12 DEF Unlock, URLMaps
    <3>1. CASE s \in IDsOf(call[p])
      <4>1. Adds(call[p]) /\ \E pair \in ToSet(call[p].pairs) : pair.ShortURL = s
        BY <3>1 DEF IDsOf, ToSet
      <4>2. \A pair \in ToSet(call[p].pairs) : pair \in URLPairs
        BY <4>1 DEF ToSet
      <4>3. call[p].userID \in UserIDs
        BY <4>1
      <4> QED
        BY <3>1, <4>1, <4>2, <4>3, Records DEF Promise
    <3>2. CASE s \notin IDsOf(call[p])
      BY <3>2, Records DEF Promise, URLMaps
    <3> QED
      BY <3>1, <3>2
  <2> QED
    BY <1>12, <2>1 DEF Unlock
<1>13. CASE Crash
  <2>1. file' \in Seq(StoredURLs \cup {Torn})
    BY <1>13, WhatRemains DEF Crash, Lines
  <2> QED
    BY <1>13, <2>1, BoundsAreNats, StartTypes DEF Crash
<1>14. CASE Retry
  BY <1>14, StartTypes DEF Retry
<1>15. CASE UNCHANGED vars
  BY <1>15 DEF vars
<1> QED
  BY <1>1, <1>2, <1>4, <1>5, <1>6, <1>7, <1>8, <1>9, <1>10, <1>11, <1>12, <1>13, <1>14, <1>15
     DEF Next, Load, Steps
-----------------------------------------------------------------------------
(***************************************************************************)
(* The invariant.  It says of every moment what the file holds, in terms   *)
(* of Durable, so that a crash, which leaves nothing but the file, keeps   *)
(* it; and of a process that serves how its map and the calls on their way *)
(* relate to that.                                                         *)
(***************************************************************************)
\* While the process is not serving no call is on its way, and the map is what
\* the lines decoded so far say.
LoadingIsQuiet ==
    phase # "serving" =>
        /\ \A p \in Procs : pc[p] = "idle"
        /\ pos \in 1..(Len(file) + 1)
        /\ m = LoadedFrom(pos - 1)

LocalsAreFresh ==
    \A p \in Procs : /\ pc[p] \in {"idle", "lock", "find"} => i[p] = 1
                     /\ pc[p] # "unlock" => answer[p] = "ok"
                     /\ pc[p] = "read" => call[p].op = "Get"

\* No line contradicts the later ones: what follows a line of a short URL is at
\* most its deletion.
LinesSurvive ==
    \A k \in DOMAIN file : file[k] # Torn =>
        Durable[file[k].ShortURL] \in {file[k].rec, Tombstone(file[k].rec)}

\* The map, as text, is never behind the file.
MapFollowsFile ==
    phase = "serving" =>
        \A s \in Bound(Durable) : AsRead(m)[s] \in {Durable[s], Tombstone(Durable[s])}

\* And it is ahead of it, while no write has failed, by the line being written.
MapIsWritten ==
    phase = "serving" /\ ~encErr =>
        \A s \in ShortURLs :
            \/ AsRead(m)[s] = Durable[s]
            \/ \E p \in Procs : pc[p] = "encode" /\ s = Written(p)

\* That line binds a free short URL, or deletes a bound one.
LineIsNext ==
    \A p \in Procs : pc[p] = "encode" /\ ~encErr =>
        IF Adds(call[p])
        THEN /\ Durable[Written(p)] = Absent
             /\ m[Written(p)] = NewRecord(call[p].pairs[i[p]], call[p].userID)
        ELSE /\ Durable[Written(p)] # Absent
             /\ Durable[Written(p)].userID = call[p].userID
             /\ Stored(m[Written(p)]) = Tombstone(Durable[Written(p)])

\* The pairs a call has not put into the map yet.
StillToPut(p) ==
    IF Adds(call[p]) /\ pc[p] \in {"lock", "find", "add", "encode"}
    THEN {k \in DOMAIN call[p].pairs : i[p] < k \/ (i[p] = k /\ pc[p] # "encode")}
    ELSE {}

PendingIDsAreFree ==
    \A p \in Procs : \A k \in StillToPut(p) : m[call[p].pairs[k].ShortURL] = Absent

IDsAreDistinct ==
    /\ \A p, q \in Procs : p # q => IDsOf(call[p]) \cap IDsOf(call[q]) = {}
    /\ \A p \in Procs : Adds(call[p]) =>
        \A j, k \in DOMAIN call[p].pairs :
            call[p].pairs[j].ShortURL = call[p].pairs[k].ShortURL => j = k

\* What a call has done so far is in the file: what it was given to add, and
\* the deletion of what is its user's.
IsDurable(p, k) ==
    /\ Adds(call[p]) =>
        Durable[call[p].pairs[k].ShortURL]
            = Stored(NewRecord(call[p].pairs[k], call[p].userID))
    /\ call[p].op = "DeleteUserURLs" =>
        LET s == call[p].shortURLs[k] IN
        Durable[s] # Absent /\ Durable[s].userID = call[p].userID => Durable[s].isDeleted

Arguments(c) ==
    IF Adds(c) THEN DOMAIN c.pairs
    ELSE IF c.op = "DeleteUserURLs" THEN DOMAIN c.shortURLs ELSE {}

DoneIsDurable ==
    \A p \in Procs : pc[p] \in Locked /\ answer[p] = "ok" =>
        \A k \in Arguments(call[p]) :
            /\ k < i[p] => IsDurable(p, k)
            /\ pc[p] = "unlock" => k < i[p]

\* What it has added is in the map under the URL it was given, text or not.
AddedIsExact ==
    \A p \in Procs : pc[p] \in Locked /\ Adds(call[p]) =>
        \A k \in DOMAIN call[p].pairs :
            k < i[p] => LET pair == call[p].pairs[k] IN
                        /\ m[pair.ShortURL] # Absent
                        /\ m[pair.ShortURL].originalURL = pair.OriginalURL

\* So are the promises made: in the file as text, in the map as they were made
\* or as they were read back.
PromisesAreDurable ==
    \A s \in Bound(promised) :
        Durable[s] \in {Stored(promised[s]), Tombstone(Stored(promised[s]))}

PromisesAreKnown ==
    phase = "serving" =>
        \A s \in Bound(promised) :
            m[s].originalURL \in {promised[s].originalURL, AsText[promised[s].originalURL]}

Inv ==
    /\ Typed
    /\ OneIsLocked
    /\ LoadingIsQuiet
    /\ LocalsAreFresh
    /\ LinesSurvive
    /\ MapFollowsFile
    /\ MapIsWritten
    /\ LineIsNext
    /\ PendingIDsAreFree
    /\ IDsAreDistinct
    /\ DoneIsDurable
    /\ PromisesAreDurable
    /\ AddedIsExact
    /\ PromisesAreKnown
    /\ FailsForAReason

-----------------------------------------------------------------------------
(***************************************************************************)
(* Writing: what an append does to what the file says.                     *)
(***************************************************************************)
LEMMA DurableType ==
    ASSUME Typed
    PROVE  Durable \in TextMaps /\ Durable \in URLMaps
<1>1. file \in Seq(Lines)
  BY DEF Typed, WellTyped, Lines
<1>2. Len(file) \in 0..Len(file)
  BY <1>1
<1>3. Content(file, Len(file)) \in TextMaps
  BY <1>1, <1>2, ContentType
<1>4. TextMaps \subseteq URLMaps
  BY DEF TextMaps, URLMaps, TextRecords
<1> QED
  BY <1>3, <1>4, DurableIsContent, Zenon

\* A step leaves the file alone, or appends what goroutine p has to write.
FileStep(p) ==
    \/ file' = file
    \/ /\ pc[p] = "encode" /\ ~encErr
       /\ file' \in {Append(file, Line(p)), Append(file, Torn)}

\* A line is written.
LEMMA DurableOfWrite ==
    ASSUME Typed, NEW p \in Procs, pc[p] = "encode", file' = Append(file, Line(p))
    PROVE  Durable' = [Durable EXCEPT ![Written(p)] = Stored(m[Written(p)])]
<1>1. file \in Seq(Lines) /\ Line(p) \in Lines /\ Line(p) # Torn
  BY LineType, TornIsNoRecord DEF Typed, WellTyped, Lines
<1>2. Content(file', Len(file) + 1) = [Durable EXCEPT ![Written(p)] = Stored(m[Written(p)])]
  <2>1. Content(Append(file, Line(p)), Len(file) + 1)
            = [Content(file, Len(file)) EXCEPT ![Line(p).ShortURL] = Line(p).rec]
    BY <1>1, ContentOfAppend
  <2>2. Line(p).ShortURL = Written(p) /\ Line(p).rec = Stored(m[Written(p)])
    BY LineType DEF Written
  <2> QED
    BY <2>1, <2>2, DurableIsContent
<1>3. Len(file') = Len(file) + 1
  BY <1>1
<1> QED
  BY <1>2, <1>3, DurableIsContent

LEMMA DurableStep ==
    ASSUME Typed, NEW p \in Procs, FileStep(p)
    PROVE  \/ Durable' = Durable
           \/ /\ pc[p] = "encode" /\ ~encErr
              /\ file' = Append(file, Line(p))
              /\ Durable' = [Durable EXCEPT ![Written(p)] = Stored(m[Written(p)])]
<1> DEFINE n == Len(file)
<1>1. file \in Seq(Lines) /\ n \in Nat
  BY DEF Typed, WellTyped, Lines
<1>2. CASE file' = file
  BY <1>2, DurableIsContent
<1>3. CASE pc[p] = "encode" /\ ~encErr /\ file' = Append(file, Line(p))
  BY <1>3, DurableOfWrite
<1>4. CASE file' = Append(file, Torn)
  <2>1. Torn \in Lines
    BY DEF Lines
  <2>2. Content(file', Len(file) + 1) = Durable
    BY <1>1, <1>4, <2>1, ContentOfAppend, DurableIsContent
  <2>3. Len(file') = Len(file) + 1
    BY <1>1, <1>4, <2>1
  <2> QED
    BY <2>2, <2>3, DurableIsContent
<1> QED
  BY <1>2, <1>3, <1>4 DEF FileStep

\* What is in the file survives, but for its deletion.
LEMMA DurableSurvives ==
    ASSUME Typed, LineIsNext, NEW p \in Procs, FileStep(p)
    PROVE  \A s \in Bound(Durable) : Durable'[s] \in {Durable[s], Tombstone(Durable[s])}
<1>1. CASE Durable' = Durable
  BY <1>1
<1>2. CASE /\ pc[p] = "encode" /\ ~encErr
           /\ Durable' = [Durable EXCEPT ![Written(p)] = Stored(m[Written(p)])]
  <2>1. Durable[Written(p)] # Absent => Stored(m[Written(p)]) = Tombstone(Durable[Written(p)])
    BY <1>2 DEF LineIsNext
  <2> QED
    BY <1>2, <2>1, DurableType DEF Bound, URLMaps
<1> QED
  BY <1>1, <1>2, DurableStep

LEMMA LinesStillSurvive ==
    ASSUME Typed, LineIsNext, LinesSurvive, NEW p \in Procs, FileStep(p)
    PROVE  LinesSurvive'
<1> SUFFICES ASSUME NEW k \in DOMAIN file', file'[k] # Torn
             PROVE  Durable'[file'[k].ShortURL] \in {file'[k].rec, Tombstone(file'[k].rec)}
  BY DEF LinesSurvive
<1>1. file \in Seq(Lines)
  BY DEF Typed, WellTyped, Lines
<1>2. CASE k \in DOMAIN file /\ file'[k] = file[k]
  <2> DEFINE s == file[k].ShortURL
  <2>1. file[k] \in StoredURLs
    BY <1>1, <1>2 DEF Lines
  <2>2. Durable[s] \in {file[k].rec, Tombstone(file[k].rec)} /\ s \in ShortURLs
        /\ file[k].rec \in URLRecords
    BY <1>2, <2>1 DEF LinesSurvive, StoredURLs, TextRecords
  <2>3. s \in Bound(Durable)
    BY <2>2, Records DEF Bound
  <2>4. Durable'[s] \in {Durable[s], Tombstone(Durable[s])}
    BY <2>3, DurableSurvives
  <2> QED
    BY <1>2, <2>2, <2>4, Records
<1>3. CASE pc[p] = "encode" /\ file' = Append(file, Line(p)) /\ k = Len(file) + 1
  <2>1. Line(p) \in Lines
    BY <1>3, LineType DEF Lines
  <2>2. file'[k] = Line(p)
    BY <1>1, <1>3, <2>1
  <2>3. Durable' = [Durable EXCEPT ![Written(p)] = Stored(m[Written(p)])]
    BY <1>3, DurableOfWrite
  <2> QED
    BY <1>3, <2>2, <2>3, LineType, DurableType DEF Written, URLMaps
<1>4. \/ k \in DOMAIN file /\ file'[k] = file[k]
      \/ pc[p] = "encode" /\ file' = Append(file, Line(p)) /\ k = Len(file) + 1
  <2>1. CASE file' = file
    BY <2>1
  <2>2. ASSUME NEW line \in Lines, file' = Append(file, line)
        PROVE  \/ k \in DOMAIN file /\ file'[k] = file[k]
               \/ k = Len(file) + 1 /\ file'[k] = line
    BY <1>1, <2>2
  <2>3. CASE pc[p] = "encode" /\ file' = Append(file, Line(p))
    BY <2>2, <2>3, LineType DEF Lines
  <2>4. CASE file' = Append(file, Torn)
    BY <2>2, <2>4 DEF Lines
  <2> QED
    BY <2>1, <2>3, <2>4 DEF FileStep
<1> QED
  BY <1>2, <1>3, <1>4

LEMMA PromisesStayDurable ==
    ASSUME Typed, LineIsNext, PromisesAreDurable, NEW p \in Procs, FileStep(p),
           promised' = promised
    PROVE  PromisesAreDurable'
<1> SUFFICES ASSUME NEW s \in Bound(promised)
             PROVE  Durable'[s] \in {Stored(promised[s]), Tombstone(Stored(promised[s]))}
  BY DEF PromisesAreDurable, Bound
<1>1. /\ Durable[s] \in {Stored(promised[s]), Tombstone(Stored(promised[s]))}
      /\ Stored(promised[s]) \in URLRecords
  BY StoredRecords DEF PromisesAreDurable, Bound, Typed, WellTyped, URLMaps
<1>2. s \in Bound(Durable)
  BY <1>1, Records DEF Bound
<1>3. Durable'[s] \in {Durable[s], Tombstone(Durable[s])}
  BY <1>2, DurableSurvives
<1> QED
  BY <1>1, <1>3, Records
-----------------------------------------------------------------------------
(***************************************************************************)
(* The steps of a goroutine.                                               *)
(***************************************************************************)
StepOf(p) == Begins(p) \/ Lock(p) \/ Steps(p)

\* A goroutine steps while the process serves; it touches no other goroutine's
\* locals, and the file only to append what it has to write.
LEMMA StepFacts ==
    ASSUME Typed, LoadingIsQuiet, NEW p \in Procs, StepOf(p)
    PROVE  /\ phase = "serving" /\ phase' = "serving" /\ crashes' = crashes
           /\ FileStep(p)
           /\ \A q \in Procs \ {p} : /\ pc'[q] = pc[q] /\ call'[q] = call[q]
                                     /\ i'[q] = i[q] /\ answer'[q] = answer[q]
<1> USE DEF Typed, WellTyped, LoadingIsQuiet, process, history, Goto
<1>1. CASE Begins(p)
  BY <1>1 DEF Begins, BeginAdd, BeginDeleteUserURLs, BeginGet, Begin, FileStep
<1>2. CASE Lock(p)
  BY <1>2 DEF Lock, FileStep
<1>3. CASE FindHit(p) \/ FindMiss(p) \/ Put(p) \/ AddEnd(p)
  BY <1>3 DEF FindHit, FindMiss, Put, AddEnd, FileStep
<1>4. CASE Skip(p) \/ Mark(p) \/ DeleteEnd(p) \/ Read(p)
  BY <1>4 DEF Skip, Mark, DeleteEnd, Read, FileStep
<1>5. CASE Encode(p)
  BY <1>5 DEF Encode, FileStep
<1>6. CASE EncodeFails(p)
  <2>1. FileStep(p)
    <3>1. CASE encErr
      BY <1>6, <3>1 DEF EncodeFails, FileStep
    <3>2. CASE ~encErr
      BY <1>6, <3>2, WhatRemains DEF EncodeFails, FileStep
    <3> QED
      BY <3>1, <3>2
  <2> QED
    BY <1>6, <2>1 DEF EncodeFails
<1>7. CASE Unlock(p)
  BY <1>7 DEF Unlock, FileStep
<1> QED
  BY <1>1, <1>2, <1>3, <1>4, <1>5, <1>6, <1>7 DEF StepOf, Steps

\* Two goroutines in the critical section are one.
LEMMA Alone ==
    ASSUME OneIsLocked, NEW p \in Procs, NEW q \in Procs, pc[p] \in Locked, pc[q] \in Locked
    PROVE  p = q
BY DEF OneIsLocked

\* While one goroutine is in the critical section the others begin calls at most.
LEMMA Bystanders ==
    ASSUME Typed, OneIsLocked, NEW p \in Procs, StepOf(p),
           NEW q \in Procs \ {p}, pc[q] \in Locked
    PROVE  Begins(p) /\ UNCHANGED <<file, m, encErr, promised, mu>>
<1>1. mu = q /\ q # NoProc /\ pc[p] \notin Locked
  BY NoProcIsNoProc DEF OneIsLocked
<1>2. ~Lock(p)
  BY <1>1 DEF Lock
<1>3. ~Steps(p)
  BY <1>1 DEF Steps, FindHit, FindMiss, Put, AddEnd, Skip, Mark, DeleteEnd, Read, Encode,
     EncodeFails, Unlock, Locked
<1> QED
  BY <1>2, <1>3 DEF StepOf, Begins, BeginAdd, BeginDeleteUserURLs, BeginGet, Begin, process,
     history

\* The short URL of a line, spelt out, before and after a step.
LEMMA WrittenIs ==
    ASSUME NEW p \in Procs
    PROVE  /\ Written(p) = IF Adds(call[p]) THEN call[p].pairs[i[p]].ShortURL
                                            ELSE call[p].shortURLs[i[p]]
           /\ Written(p)' = IF Adds(call'[p]) THEN call'[p].pairs[i'[p]].ShortURL
                                              ELSE call'[p].shortURLs[i'[p]]
BY DEF Written, Line

\* No write has failed and nobody is writing: the map is what the file says.
LEMMA QuietMap ==
    ASSUME Typed, OneIsLocked, MapIsWritten, phase = "serving", ~encErr,
           NEW p \in Procs, pc[p] \in Locked, pc[p] # "encode"
    PROVE  AsRead(m) = Durable
<1>1. \A q \in Procs : pc[q] # "encode"
  BY Alone DEF Locked
<1>2. \A s \in ShortURLs : AsRead(m)[s] = Durable[s]
  BY <1>1 DEF MapIsWritten
<1>3. AsRead(m) \in TextMaps
  BY ReadMaps DEF Typed, WellTyped
<1> QED
  BY <1>2, <1>3, DurableType DEF TextMaps

-----------------------------------------------------------------------------
(***************************************************************************)
(* A step of a goroutine keeps the invariant: one lemma for each conjunct. *)
(***************************************************************************)
\* A goroutine comes to encode from Put or Mark.
LEMMA EncodesAfterPutOrMark ==
    ASSUME Typed, NEW p \in Procs, StepOf(p), pc'[p] = "encode"
    PROVE  Put(p) \/ Mark(p)
<1> USE DEF Typed, WellTyped, Goto
<1>1. ~Begins(p)
  BY DEF Begins, BeginAdd, BeginDeleteUserURLs, BeginGet, Begin
<1>2. ~Lock(p)
  BY CallFacts DEF Lock, FirstLabel, Adds
<1>3. Steps(p) => Put(p) \/ Mark(p)
  BY DEF Steps, FindHit, FindMiss, AddEnd, Skip, DeleteEnd, Read, Encode, EncodeFails, Unlock
<1> QED
  BY <1>1, <1>2, <1>3 DEF StepOf

LEMMA StepKeepsWritesWhatItHas ==
    ASSUME Typed, OneIsLocked, LoadingIsQuiet, NEW p \in Procs, StepOf(p)
    PROVE  WritesWhatItHas'
<1> SUFFICES ASSUME NEW q \in Procs, pc'[q] = "encode"
             PROVE  m'[Written(q)'] # Absent
  BY DEF WritesWhatItHas
<1>1. CASE q # p
  <2>1. pc[q] = "encode" /\ call'[q] = call[q] /\ i'[q] = i[q]
    BY <1>1, StepFacts
  <2>2. m' = m
    BY <1>1, <2>1, Bystanders DEF Locked
  <2> QED
    BY <2>1, <2>2, WrittenIs DEF Typed, WritesWhatItHas
<1>2. CASE q = p
  <2> USE DEF Typed, WellTyped, Goto
  <2>1. Put(p) \/ Mark(p)
    BY <1>2, EncodesAfterPutOrMark
  <2>2. CASE Put(p)
    <3>1. Written(p)' = call[p].pairs[i[p]].ShortURL /\ call[p].pairs[i[p]] \in URLPairs
          /\ call[p].userID \in UserIDs
      BY <2>2, WrittenIs, CallFacts DEF Put
    <3>2. m'[call[p].pairs[i[p]].ShortURL] = NewRecord(call[p].pairs[i[p]], call[p].userID)
      BY <2>2, <3>1 DEF Put, URLPairs, URLMaps
    <3>3. NewRecord(call[p].pairs[i[p]], call[p].userID) \in URLRecords
      BY <3>1, Records
    <3> QED
      BY <1>2, <3>1, <3>2, <3>3, AbsentIsNoRecord
  <2>3. CASE Mark(p)
    <3>1. Written(p)' = call[p].shortURLs[i[p]] /\ Written(p)' \in ShortURLs
      BY <2>3, WrittenIs, CallFacts DEF Mark
    <3> QED
      BY <1>2, <2>3, <3>1, Records DEF Mark, OwnedBy, URLMaps
  <2> QED
    BY <2>1, <2>2, <2>3
<1> QED
  BY <1>1, <1>2

LEMMA StepKeepsOneIsLocked ==
    ASSUME Typed, OneIsLocked, NEW p \in Procs, StepOf(p)
    PROVE  OneIsLocked'
<1> USE NoProcIsNoProc DEF Typed, WellTyped, OneIsLocked, Locked, process, history, Goto
<1>1. CASE Begins(p)
  BY <1>1 DEF Begins, BeginAdd, BeginDeleteUserURLs, BeginGet, Begin
<1>2. CASE Lock(p)
  <2>1. FirstLabel(call[p]) \in Locked
    BY <1>2, CallFacts DEF Lock, FirstLabel, Adds
  <2> QED
    BY <1>2, <2>1 DEF Lock
<1>3. CASE FindHit(p) \/ FindMiss(p) \/ Put(p) \/ AddEnd(p)
  BY <1>3 DEF FindHit, FindMiss, Put, AddEnd
<1>4. CASE Skip(p) \/ Mark(p) \/ DeleteEnd(p) \/ Read(p)
  BY <1>4 DEF Skip, Mark, DeleteEnd, Read
<1>5. CASE Encode(p)
  BY <1>5 DEF Encode
<1>6. CASE EncodeFails(p)
  BY <1>6 DEF EncodeFails
<1>7. CASE Unlock(p)
  BY <1>7 DEF Unlock
<1> QED
  BY <1>1, <1>2, <1>3, <1>4, <1>5, <1>6, <1>7 DEF StepOf, Steps

LEMMA StepKeepsLocalsAreFresh ==
    ASSUME Typed, LocalsAreFresh, NEW p \in Procs, StepOf(p)
    PROVE  LocalsAreFresh'
<1> USE DEF Typed, WellTyped, LocalsAreFresh, Locked, process, history, Goto
<1>1. CASE Begins(p)
  BY <1>1 DEF Begins, BeginAdd, BeginDeleteUserURLs, BeginGet, Begin
<1>2. CASE Lock(p)
  <2>1. /\ FirstLabel(call[p]) \in Locked /\ FirstLabel(call[p]) # "unlock"
        /\ FirstLabel(call[p]) = "read" => call[p].op = "Get"
    BY <1>2, CallFacts DEF Lock, FirstLabel, Adds
  <2> QED
    BY <1>2, <2>1 DEF Lock
<1>3. CASE FindHit(p) \/ FindMiss(p) \/ Put(p) \/ AddEnd(p)
  BY <1>3 DEF FindHit, FindMiss, Put, AddEnd
<1>4. CASE Skip(p) \/ Mark(p) \/ DeleteEnd(p) \/ Read(p)
  BY <1>4 DEF Skip, Mark, DeleteEnd, Read
<1>5. CASE Encode(p)
  BY <1>5 DEF Encode
<1>6. CASE EncodeFails(p)
  BY <1>6 DEF EncodeFails
<1>7. CASE Unlock(p)
  BY <1>7 DEF Unlock
<1> QED
  BY <1>1, <1>2, <1>3, <1>4, <1>5, <1>6, <1>7 DEF StepOf, Steps

LEMMA SameCallsSameIDs ==
    ASSUME IDsAreDistinct, call' = call
    PROVE  IDsAreDistinct'
<1>1. \A q, r \in Procs : q # r => IDsOf(call'[q]) \cap IDsOf(call'[r]) = {}
  BY DEF IDsAreDistinct
<1>2. \A q \in Procs : Adds(call'[q]) =>
        \A j, k \in DOMAIN call'[q].pairs :
            call'[q].pairs[j].ShortURL = call'[q].pairs[k].ShortURL => j = k
  BY DEF IDsAreDistinct
<1> QED
  BY <1>1, <1>2 DEF IDsAreDistinct, IDsOf, Adds

\* A call begins with short URLs no other call has; a call that is over has none.
LEMMA StepKeepsIDsAreDistinct ==
    ASSUME Typed, IDsAreDistinct, NEW p \in Procs, StepOf(p)
    PROVE  IDsAreDistinct'
<1> USE DEF Typed, WellTyped, process, history, Goto
<1>1. ASSUME NEW c \in Calls, \/ IDsOf(c) = {}
                              \/ Adds(c) /\ FreshIDs(c),
             ~Adds(c) \/ FreshIDs(c), call' = [call EXCEPT ![p] = c]
      PROVE  IDsAreDistinct'
  <2>1. \A q \in Procs \ {p} : IDsOf(c) \cap IDsOf(call[q]) = {} /\ call'[q] = call[q]
    BY <1>1 DEF FreshIDs
  <2>2. call'[p] = c
    BY <1>1
  <2>3. ASSUME NEW q \in Procs, NEW r \in Procs, q # r
        PROVE  IDsOf(call'[q]) \cap IDsOf(call'[r]) = {}
    BY <2>1, <2>2, <2>3 DEF IDsAreDistinct
  <2>4. ASSUME NEW q \in Procs, Adds(call'[q]), NEW j \in DOMAIN call'[q].pairs,
               NEW k \in DOMAIN call'[q].pairs,
               call'[q].pairs[j].ShortURL = call'[q].pairs[k].ShortURL
        PROVE  j = k
    <3>1. CASE q = p
      BY <1>1, <2>2, <2>4, <3>1 DEF FreshIDs
    <3>2. CASE q # p
      BY <2>1, <2>4, <3>2 DEF IDsAreDistinct
    <3> QED
      BY <3>1, <3>2
  <2>5. IDsOf(call[p])' = IDsOf(call'[p])
    BY DEF IDsOf, Adds
  <2> QED
    BY <2>3, <2>4 DEF IDsAreDistinct, IDsOf, Adds
<1>2. CASE call' = call
  BY <1>2, SameCallsSameIDs
<1>3. \/ call' = call \/ BeginAdd(p)
      \/ \E c \in DeleteUserURLsCalls \cup GetCalls \cup {NoCall} : call' = [call EXCEPT ![p] = c]
  BY DEF StepOf, Begins, BeginDeleteUserURLs, BeginGet, Begin, Lock, Steps, FindHit, FindMiss,
     Put, AddEnd, Skip, Mark, DeleteEnd, Read, Encode, EncodeFails, Unlock
<1>4. CASE BeginAdd(p)
  BY <1>1, <1>4, CallFacts DEF BeginAdd, Begin
<1>5. ASSUME NEW c \in DeleteUserURLsCalls \cup GetCalls \cup {NoCall},
             call' = [call EXCEPT ![p] = c]
      PROVE  IDsAreDistinct'
  <2>1. c \in Calls /\ ~Adds(c) /\ IDsOf(c) = {}
    BY CallFacts DEF IDsOf
  <2> QED
    BY <1>1, <1>5, <2>1
<1> QED
  BY <1>2, <1>3, <1>4, <1>5

\* What a step of a goroutine may do to the map.
LEMMA MapStep ==
    ASSUME Typed, NEW p \in Procs, StepOf(p)
    PROVE  \/ m' = m /\ ~Put(p) /\ ~Mark(p)
           \/ /\ Put(p) /\ Adds(call[p]) /\ i[p] \in DOMAIN call[p].pairs
              /\ Written(p)' = call[p].pairs[i[p]].ShortURL /\ Written(p)' \in ShortURLs
              /\ m' = [m EXCEPT ![Written(p)'] =
                                    NewRecord(call[p].pairs[i[p]], call[p].userID)]
           \/ /\ Mark(p) /\ ~Adds(call[p]) /\ i[p] \in DOMAIN call[p].shortURLs
              /\ Written(p)' = call[p].shortURLs[i[p]] /\ Written(p)' \in ShortURLs
              /\ m[Written(p)'] # Absent /\ m[Written(p)'].userID = call[p].userID
              /\ m' = [m EXCEPT ![Written(p)'] = Tombstone(m[Written(p)'])]
<1> USE DEF Typed, WellTyped, Goto
<1>1. CASE Put(p)
  <2>1. /\ Written(p)' = call[p].pairs[i[p]].ShortURL /\ call[p].pairs[i[p]] \in URLPairs
        /\ Adds(call[p]) /\ i[p] \in DOMAIN call[p].pairs
    BY <1>1, WrittenIs, CallFacts DEF Put
  <2>2. m' = [m EXCEPT ![Written(p)'] = NewRecord(call[p].pairs[i[p]], call[p].userID)]
    BY <1>1, <2>1 DEF Put
  <2> QED
    BY <1>1, <2>1, <2>2 DEF URLPairs
<1>2. CASE Mark(p)
  <2>1. /\ Written(p)' = call[p].shortURLs[i[p]] /\ call[p].shortURLs[i[p]] \in ShortURLs
        /\ ~Adds(call[p]) /\ i[p] \in DOMAIN call[p].shortURLs
    BY <1>2, WrittenIs, CallFacts DEF Mark
  <2>2. m' = [m EXCEPT ![Written(p)'] = Tombstone(m[Written(p)'])]
    BY <1>2, <2>1 DEF Mark
  <2> QED
    BY <1>2, <2>1, <2>2 DEF Mark, OwnedBy
<1>3. CASE ~Put(p) /\ ~Mark(p)
  BY <1>3 DEF StepOf, Begins, BeginAdd, BeginDeleteUserURLs, BeginGet, Begin, Lock, Steps,
     FindHit, FindMiss, AddEnd, Skip, DeleteEnd, Read, Encode, EncodeFails, Unlock
<1> QED
  BY <1>1, <1>2, <1>3

\* A pair about to be put into the map is one that is still to put.
LEMMA PutIsPending ==
    ASSUME Typed, PendingIDsAreFree, NEW p \in Procs, Put(p)
    PROVE  m[call[p].pairs[i[p]].ShortURL] = Absent
<1>1. i[p] \in StillToPut(p)
  BY CallFacts DEF Put, StillToPut, Typed, WellTyped
<1> QED
  BY <1>1 DEF PendingIDsAreFree

\* What a step of a goroutine may do to what a restart would read of the map.
LEMMA ReadStep ==
    ASSUME Typed, NEW p \in Procs, StepOf(p), NEW s \in ShortURLs
    PROVE  \/ m'[s] = m[s] /\ AsRead(m')[s] = AsRead(m)[s]
           \/ /\ Put(p) /\ s = Written(p)'
              /\ m'[s] = NewRecord(call[p].pairs[i[p]], call[p].userID)
              /\ m'[s] \in URLRecords
              /\ AsRead(m')[s] = Stored(NewRecord(call[p].pairs[i[p]], call[p].userID))
           \/ /\ Mark(p) /\ s = Written(p)' /\ m[s] \in URLRecords /\ m'[s] = Tombstone(m[s])
              /\ AsRead(m)[s] \in TextRecords /\ AsRead(m')[s] = Tombstone(AsRead(m)[s])
<1> USE DEF Typed, WellTyped
<1>1. m' \in URLMaps
  BY TypePreserved DEF StepOf, Next
<1>2. CASE m'[s] = m[s]
  BY <1>1, <1>2, ReadMaps
<1>3. CASE Put(p) /\ s = Written(p)'
  <2>1. m'[s] = NewRecord(call[p].pairs[i[p]], call[p].userID)
    BY <1>3, MapStep DEF Put, Mark, URLMaps
  <2>2. call[p].pairs[i[p]] \in URLPairs /\ call[p].userID \in UserIDs
    BY <1>3, CallFacts DEF Put
  <2>3. /\ NewRecord(call[p].pairs[i[p]], call[p].userID) \in URLRecords
        /\ NewRecord(call[p].pairs[i[p]], call[p].userID) # Absent
    BY <2>2, Records
  <2>4. m'[s] \in URLRecords /\ m'[s] # Absent
    BY <2>1, <2>3
  <2> QED
    BY <1>1, <1>3, <2>1, <2>4, ReadMaps
<1>4. CASE Mark(p) /\ s = Written(p)'
  <2>1. m[s] # Absent /\ m'[s] = Tombstone(m[s])
    BY <1>4, MapStep DEF Put, Mark, URLMaps
  <2>2. m[s] \in URLRecords /\ m'[s] # Absent
    BY <2>1, Records DEF URLMaps
  <2>3. AsRead(m)[s] = Stored(m[s]) /\ AsRead(m')[s] = Stored(m'[s])
    BY <1>1, <2>1, <2>2, ReadMaps
  <2> QED
    BY <1>4, <2>1, <2>2, <2>3, StoredRecords
<1>5. \/ m'[s] = m[s]
      \/ Put(p) /\ s = Written(p)'
      \/ Mark(p) /\ s = Written(p)'
  BY MapStep DEF URLMaps
<1> QED
  BY <1>2, <1>3, <1>4, <1>5

LEMMA StepKeepsMapFollowsFile ==
    ASSUME Typed, LoadingIsQuiet, OneIsLocked, MapFollowsFile, PendingIDsAreFree,
           NEW p \in Procs, StepOf(p)
    PROVE  MapFollowsFile'
<1> SUFFICES ASSUME NEW s \in Bound(Durable')
             PROVE  AsRead(m')[s] \in {Durable'[s], Tombstone(Durable'[s])}
  BY DEF MapFollowsFile, Bound
<1>1. /\ s \in ShortURLs /\ Durable'[s] # Absent
      /\ Durable[s] # Absent => AsRead(m)[s] \in {Durable[s], Tombstone(Durable[s])}
  BY StepFacts DEF MapFollowsFile, Bound
<1>2. Durable[s] # Absent => Durable[s] \in URLRecords
  BY <1>1, DurableType DEF URLMaps
<1>3. CASE m' = m
  <2>1. CASE Durable' = Durable
    BY <1>1, <1>3, <2>1
  <2>2. CASE /\ pc[p] = "encode"
             /\ Durable' = [Durable EXCEPT ![Written(p)] = Stored(m[Written(p)])]
    <3>1. m[Written(p)] # Absent /\ Written(p) \in ShortURLs /\ m \in URLMaps
      BY <2>2, LineType DEF Typed, WellTyped, WritesWhatItHas
    <3>2. AsRead(m)[Written(p)] = Stored(m[Written(p)])
      BY <3>1, ReadMaps
    <3>3. \A r \in ShortURLs : Durable'[r] = IF r = Written(p) THEN Stored(m[r]) ELSE Durable[r]
      BY <2>2, DurableType DEF URLMaps
    <3> QED
      BY <1>1, <1>3, <3>2, <3>3
  <2> QED
    BY <2>1, <2>2, StepFacts, DurableStep
<1>4. CASE Put(p) \/ Mark(p)
  <2>1. Durable' = Durable
    BY <1>4, StepFacts, DurableStep DEF Put, Mark
  <2>2. CASE AsRead(m')[s] = AsRead(m)[s]
    BY <1>1, <2>1, <2>2
  <2>3. CASE s = Written(p)' /\ Put(p)
    <3>1. m[s] = Absent
      BY <2>3, PutIsPending, MapStep DEF Put, Mark
    <3>2. AsRead(m)[s] = Absent
      BY <1>1, <3>1, ReadMaps DEF Typed, WellTyped
    <3>3. Durable[s] # Absent /\ Tombstone(Durable[s]) # Absent
      BY <1>1, <1>2, <2>1, Records
    <3> QED
      BY <1>1, <3>2, <3>3
  <2>4. CASE Mark(p) /\ AsRead(m')[s] = Tombstone(AsRead(m)[s])
    BY <1>1, <1>2, <2>1, <2>4, Records
  <2> QED
    BY <1>1, <1>4, <2>2, <2>3, <2>4, ReadStep
<1> QED
  BY <1>3, <1>4, MapStep

LEMMA StepKeepsMapIsWritten ==
    ASSUME Typed, LoadingIsQuiet, MapIsWritten, NEW p \in Procs, StepOf(p)
    PROVE  MapIsWritten'
<1> SUFFICES ASSUME ~encErr', NEW s \in ShortURLs, AsRead(m')[s] # Durable'[s]
             PROVE  \E q \in Procs : pc'[q] = "encode" /\ s = Written(q)'
  BY DEF MapIsWritten
<1>1. ~encErr /\ ~EncodeFails(p)
  BY DEF StepOf, Begins, BeginAdd, BeginDeleteUserURLs, BeginGet, Begin, Lock, Steps, FindHit,
     FindMiss, Put, AddEnd, Skip, Mark, DeleteEnd, Read, Encode, EncodeFails, Unlock, process,
     Goto
<1>2. AsRead(m)[s] = Durable[s] \/ \E q \in Procs : pc[q] = "encode" /\ s = Written(q)
  BY <1>1, StepFacts DEF MapIsWritten
<1>3. ASSUME NEW q \in Procs \ {p}, pc[q] = "encode", s = Written(q)
      PROVE  pc'[q] = "encode" /\ s = Written(q)'
  <2>1. pc'[q] = "encode" /\ call'[q] = call[q] /\ i'[q] = i[q]
    BY <1>3, StepFacts
  <2> QED
    BY <1>3, <2>1, WrittenIs
<1>4. CASE Encode(p)
  <2>1. m' = m /\ pc[p] = "encode"
    BY <1>4 DEF Encode
  <2>2. Durable' = [Durable EXCEPT ![Written(p)] = Stored(m[Written(p)])]
    BY <1>4, DurableOfWrite DEF Encode
  <2>3. m[Written(p)] # Absent /\ Written(p) \in ShortURLs /\ m \in URLMaps
    BY <2>1, LineType DEF Typed, WellTyped, WritesWhatItHas
  <2>4. AsRead(m)[Written(p)] = Stored(m[Written(p)])
    BY <2>3, ReadMaps
  <2>5. \A r \in ShortURLs : Durable'[r] = IF r = Written(p) THEN Stored(m[r]) ELSE Durable[r]
    BY <2>2, DurableType DEF URLMaps
  <2>6. s # Written(p)
    BY <2>1, <2>4, <2>5
  <2> QED
    BY <1>2, <1>3, <2>1, <2>5, <2>6
<1>5. CASE ~Encode(p)
  <2>1. pc[p] # "encode" /\ Durable' = Durable
    BY <1>1, <1>5, StepFacts, DurableStep DEF StepOf, Begins, BeginAdd, BeginDeleteUserURLs,
       BeginGet, Begin, Lock, Steps, FindHit, FindMiss, Put, AddEnd, Skip, Mark, DeleteEnd,
       Read, Unlock
  <2>2. CASE AsRead(m')[s] = AsRead(m)[s]
    BY <1>2, <1>3, <2>1, <2>2
  <2>3. CASE (Put(p) \/ Mark(p)) /\ s = Written(p)'
    BY <2>3 DEF Put, Mark, Goto, Typed, WellTyped
  <2> QED
    BY <2>2, <2>3, ReadStep
<1> QED
  BY <1>4, <1>5

LEMMA StepKeepsLineIsNext ==
    ASSUME Typed, OneIsLocked, LoadingIsQuiet, MapFollowsFile, MapIsWritten,
           PendingIDsAreFree, LineIsNext, NEW p \in Procs, StepOf(p)
    PROVE  LineIsNext'
<1> DEFINE Right(q) ==
        IF Adds(call[q])
        THEN /\ Durable[Written(q)] = Absent
             /\ m[Written(q)] = NewRecord(call[q].pairs[i[q]], call[q].userID)
        ELSE /\ Durable[Written(q)] # Absent
             /\ Durable[Written(q)].userID = call[q].userID
             /\ Stored(m[Written(q)]) = Tombstone(Durable[Written(q)])
<1> SUFFICES ASSUME NEW q \in Procs, pc'[q] = "encode", ~encErr'
             PROVE  Right(q)'
  BY DEF LineIsNext
<1>1. CASE q # p
  <2>1. pc[q] = "encode" /\ call'[q] = call[q] /\ i'[q] = i[q]
    BY <1>1, StepFacts
  <2>2. m' = m /\ file' = file /\ ~encErr
    BY <1>1, <2>1, Bystanders DEF Locked
  <2>3. Right(q) /\ Durable' = Durable /\ Written(q)' = Written(q)
    BY <2>1, <2>2, DurableIsContent, WrittenIs DEF LineIsNext
  <2> QED
    BY <2>1, <2>2, <2>3 DEF Adds
<1>2. CASE q = p
  <2>1. Put(p) \/ Mark(p)
    BY <1>2, EncodesAfterPutOrMark
  <2>2. /\ Durable' = Durable /\ call' = call /\ i' = i /\ ~encErr
        /\ pc[p] \in Locked /\ pc[p] # "encode" /\ phase = "serving"
    BY <2>1, StepFacts, DurableStep DEF Put, Mark, Goto, process, Locked
  <2>3. AsRead(m) = Durable /\ m \in URLMaps
    BY <2>2, QuietMap DEF Typed, WellTyped
  <2>4. CASE Put(p)
    <3>1. m[Written(p)'] = Absent /\ Written(p)' \in ShortURLs
      <4>1. ~Mark(p)
        BY <2>4 DEF Put, Mark
      <4>2. Written(p)' = call[p].pairs[i[p]].ShortURL /\ Written(p)' \in ShortURLs
        BY <2>4, <4>1, MapStep
      <4> QED
        BY <2>4, <4>2, PutIsPending
    <3>2. Adds(call[p]) /\ m'[Written(p)'] = NewRecord(call[p].pairs[i[p]], call[p].userID)
      BY <2>4, MapStep DEF Put, Mark, Typed, WellTyped, URLMaps
    <3>3. Durable[Written(p)'] = Absent
      BY <2>3, <3>1, ReadMaps
    <3> QED
      BY <1>2, <2>2, <3>2, <3>3 DEF Adds
  <2>5. CASE Mark(p)
    <3> DEFINE w == Written(p)'
    <3>1. /\ ~Adds(call[p]) /\ m[w] # Absent /\ w \in ShortURLs
          /\ m[w].userID = call[p].userID
          /\ m'[w] = Tombstone(m[w])
      BY <2>5, MapStep DEF Put, Mark, Typed, WellTyped, URLMaps
    <3>2. m[w] \in URLRecords /\ Durable[w] = Stored(m[w])
      BY <2>3, <3>1, ReadMaps
    <3>3. /\ Durable[w] # Absent /\ Durable[w].userID = call[p].userID
          /\ Stored(m'[w]) = Tombstone(Durable[w])
      BY <3>1, <3>2, StoredRecords
    <3> QED
      BY <1>2, <2>2, <3>1, <3>3 DEF Adds
  <2> QED
    BY <2>1, <2>4, <2>5
<1> QED
  BY <1>1, <1>2

\* Nothing is added to what is still to put, but by the call that begins.
LEMMA PendingShrinks ==
    ASSUME Typed, LoadingIsQuiet, NEW p \in Procs, StepOf(p), NEW q \in Procs,
           ~(q = p /\ BeginAdd(p))
    PROVE  /\ StillToPut(q)' \subseteq StillToPut(q)
           /\ StillToPut(q)' # {} => call'[q] = call[q]
           /\ q = p /\ Put(p) => i[p] \notin StillToPut(q)'
<1>1. CASE q # p
  <2>1. pc'[q] = pc[q] /\ call'[q] = call[q] /\ i'[q] = i[q]
    BY <1>1, StepFacts
  <2> QED
    BY <1>1, <2>1 DEF StillToPut, Adds
<1>2. CASE q = p /\ call'[p] = call[p] /\ i'[p] = i[p] /\ Adds(call[p])
  <2>1. \/ pc'[p] = "unlock"
        \/ /\ pc[p] \in {"lock", "find", "add"}
           /\ pc'[p] = "encode"
        \/ /\ pc[p] \in {"lock", "find", "add"}
           /\ pc'[p] \in {"find", "add"} /\ ~Put(p)
    <3> USE DEF Typed, WellTyped, Goto
    <3>1. ~Begins(p)
      BY <1>2, CallFacts DEF Begins, BeginAdd, BeginDeleteUserURLs, BeginGet, Begin
    <3>2. CASE Lock(p)
      BY <1>2, <3>2 DEF Lock, FirstLabel, Put, Adds
    <3>3. CASE FindHit(p) \/ FindMiss(p) \/ Put(p) \/ AddEnd(p) \/ Read(p) \/ EncodeFails(p)
      BY <3>3 DEF FindHit, FindMiss, Put, AddEnd, Read, EncodeFails
    <3>4. ~(Skip(p) \/ Mark(p) \/ DeleteEnd(p))
      BY <1>2, CallFacts DEF Skip, Mark, DeleteEnd
    <3>5. ~Encode(p) /\ ~Unlock(p)
      BY <1>2, CallFacts DEF Encode, Unlock
    <3> QED
      BY <3>1, <3>2, <3>3, <3>4, <3>5 DEF StepOf, Steps
  <2>2. DOMAIN call[p].pairs \in SUBSET Nat /\ i[p] \in Nat
    BY <1>2, CallFacts DEF Typed, WellTyped
  <2> QED
    BY <1>2, <2>1, <2>2 DEF StillToPut, Adds
<1>3. CASE q = p /\ Encode(p)
  <2>1. call'[p] = call[p] /\ i'[p] = i[p] + 1 /\ pc[p] = "encode" /\ i[p] \in Nat
        /\ (Adds(call[p]) => pc'[p] = "add")
    BY <1>3 DEF Encode, Goto, Typed, WellTyped
  <2>2. Adds(call[p]) => DOMAIN call[p].pairs \in SUBSET Nat
    BY CallFacts DEF Typed, WellTyped
  <2>3. ~Put(p)
    BY <2>1 DEF Put
  <2> QED
    BY <1>3, <2>1, <2>2, <2>3 DEF StillToPut, Adds
<1>4. CASE q = p /\ ~Adds(call'[p])
  <2>1. ~Put(p)
    BY <1>4, CallFacts DEF Put, Goto, Typed, WellTyped, Adds
  <2> QED
    BY <1>4, <2>1 DEF StillToPut, Adds
<1>5. q = p => \/ call'[p] = call[p] /\ i'[p] = i[p]
               \/ Encode(p)
               \/ ~Adds(call'[p])
  <2> USE DEF Goto, Typed, WellTyped
  <2>1. CASE BeginDeleteUserURLs(p) \/ BeginGet(p)
    BY <2>1, CallFacts DEF BeginDeleteUserURLs, BeginGet, Begin, Adds
  <2>2. CASE Skip(p)
    BY <2>2, CallFacts DEF Skip, Adds
  <2>3. CASE Unlock(p)
    BY <2>3, CallFacts DEF Unlock, Adds
  <2>4. CASE Lock(p) \/ EncodeFails(p)
    BY <2>4 DEF Lock, EncodeFails
  <2>5. CASE FindHit(p) \/ FindMiss(p) \/ Put(p) \/ AddEnd(p) \/ Mark(p) \/ DeleteEnd(p) \/ Read(p)
    BY <2>5 DEF FindHit, FindMiss, Put, AddEnd, Mark, DeleteEnd, Read
  <2> QED
    BY <2>1, <2>2, <2>3, <2>4, <2>5 DEF StepOf, Begins, Steps
<1>6. call'[p] = call[p] => (Adds(call'[p]) <=> Adds(call[p]))
  BY DEF Adds
<1> QED
  BY <1>1, <1>2, <1>3, <1>4, <1>5, <1>6

LEMMA StepKeepsPendingIDsAreFree ==
    ASSUME Typed, LoadingIsQuiet, IDsAreDistinct, PendingIDsAreFree, NEW p \in Procs, StepOf(p)
    PROVE  PendingIDsAreFree'
<1> SUFFICES ASSUME NEW q \in Procs, NEW k \in StillToPut(q)'
             PROVE  m'[call'[q].pairs[k].ShortURL] = Absent
  BY DEF PendingIDsAreFree
<1> USE DEF Typed, WellTyped
<1>1. CASE q = p /\ BeginAdd(p)
  <2>1. m' = m /\ Adds(call'[p]) /\ FreshIDs(call'[p]) /\ k \in DOMAIN call'[p].pairs
    BY <1>1, CallFacts DEF BeginAdd, Begin, StillToPut, Adds
  <2> QED
    BY <1>1, <2>1 DEF FreshIDs, IDsOf
<1>2. CASE ~(q = p /\ BeginAdd(p))
  <2>1. k \in StillToPut(q) /\ call'[q] = call[q] /\ (q = p /\ Put(p) => k # i[p])
    BY <1>2, PendingShrinks
  <2> DEFINE s == call[q].pairs[k].ShortURL
  <2>2. m[s] = Absent /\ s \in IDsOf(call[q]) /\ s \in ShortURLs /\ Adds(call[q])
        /\ k \in DOMAIN call[q].pairs
    BY <2>1, CallFacts DEF PendingIDsAreFree, StillToPut, IDsOf, URLPairs
  <2>3. CASE Put(p)
    <3>1. Written(p)' = call[p].pairs[i[p]].ShortURL /\ Adds(call[p])
          /\ i[p] \in DOMAIN call[p].pairs
      BY <2>3, MapStep DEF Put, Mark
    <3>2. s # Written(p)'
      <4>1. CASE q = p
        BY <2>1, <2>2, <2>3, <3>1, <4>1 DEF IDsAreDistinct
      <4>2. CASE q # p
        <5>1. Written(p)' \in IDsOf(call[p])
          BY <3>1 DEF IDsOf
        <5> QED
          BY <2>2, <4>2, <5>1 DEF IDsAreDistinct
      <4> QED
        BY <4>1, <4>2
    <3> QED
      BY <2>1, <2>2, <2>3, <3>2, MapStep DEF URLMaps
  <2>4. CASE ~Put(p)
    BY <2>1, <2>2, <2>4, MapStep DEF URLMaps
  <2> QED
    BY <2>3, <2>4
<1> QED
  BY <1>1, <1>2

\* What a call has done stays done: of the call in the critical section, because
\* nobody else writes and its own lines are for other short URLs, or deletions.
LEMMA DoneStaysDurable ==
    ASSUME Typed, OneIsLocked, IDsAreDistinct, LineIsNext, NEW p \in Procs, FileStep(p),
           call'[p] = call[p],
           NEW k \in Arguments(call[p]), k < i[p], IsDurable(p, k)
    PROVE  IsDurable(p, k)'
<1> USE DEF Typed, WellTyped
<1>1. CASE Durable' = Durable
  BY <1>1 DEF IsDurable, Adds
<1>2. CASE /\ pc[p] = "encode" /\ ~encErr
           /\ Durable' = [Durable EXCEPT ![Written(p)] = Stored(m[Written(p)])]
  <2>1. CASE Adds(call[p])
    <3>1. k \in DOMAIN call[p].pairs /\ i[p] \in DOMAIN call[p].pairs /\ k # i[p]
          /\ call[p].op # "DeleteUserURLs"
      BY <1>2, <2>1, CallFacts DEF Arguments
    <3>2. call[p].pairs[k].ShortURL # Written(p) /\ call[p].pairs[k].ShortURL \in ShortURLs
      BY <2>1, <3>1, WrittenIs, CallFacts DEF IDsAreDistinct, URLPairs
    <3> QED
      BY <1>2, <2>1, <3>1, <3>2, DurableType DEF IsDurable, Adds, URLMaps
  <2>2. CASE ~Adds(call[p])
    <3>1. call[p].op = "DeleteUserURLs" /\ k \in DOMAIN call[p].shortURLs
          /\ call[p].shortURLs[k] \in ShortURLs
      BY <2>2, CallFacts DEF Arguments
    <3>2. /\ Stored(m[Written(p)]) = Tombstone(Durable[Written(p)])
          /\ Durable[Written(p)] \in URLRecords /\ Written(p) \in ShortURLs
      BY <1>2, <2>2, DurableType, LineType DEF LineIsNext, URLMaps
    <3>3. Stored(m[Written(p)]).isDeleted
      BY <3>2, Records
    <3> QED
      BY <1>2, <2>2, <3>1, <3>2, <3>3, DurableType DEF IsDurable, Adds, URLMaps
  <2> QED
    BY <2>1, <2>2
<1> QED
  BY <1>1, <1>2, DurableStep

\* A record or deletion becomes durable when its line is written.
LEMMA EncodeMakesDurable ==
    ASSUME Typed, LineIsNext, NEW p \in Procs, Encode(p), NEW k, k = i[p]
    PROVE  IsDurable(p, k)'
<1> USE DEF Typed, WellTyped
<1>1. /\ pc[p] = "encode" /\ ~encErr /\ call'[p] = call[p]
      /\ Durable' = [Durable EXCEPT ![Written(p)] = Stored(m[Written(p)])]
  BY DurableOfWrite DEF Encode, Goto
<1>2. /\ Durable'[Written(p)] = Stored(m[Written(p)])
      /\ Durable[Written(p)] \in URLRecords \cup {Absent}
  BY <1>1, LineType, DurableType DEF URLMaps
<1>3. CASE Adds(call[p])
  <2>1. call[p].op # "DeleteUserURLs" /\ Written(p) = call[p].pairs[k].ShortURL
    BY <1>3, WrittenIs, CallFacts
  <2>2. m[Written(p)] = NewRecord(call[p].pairs[k], call[p].userID)
    BY <1>1, <1>3 DEF LineIsNext
  <2> QED
    BY <1>1, <1>2, <2>1, <2>2 DEF IsDurable, Adds
<1>4. CASE ~Adds(call[p])
  <2>1. Written(p) = call[p].shortURLs[k]
    BY <1>4, WrittenIs
  <2>2. Stored(m[Written(p)]).isDeleted
    BY <1>1, <1>2, <1>4, Records DEF LineIsNext
  <2> QED
    BY <1>1, <1>2, <1>4, <2>1, <2>2 DEF IsDurable, Adds
<1> QED
  BY <1>3, <1>4

\* A position that is none of 1..n is after all of them.
LEMMA OutsideIsBeyond ==
    ASSUME NEW n \in Nat, NEW k \in 1..n, NEW j \in Nat \ {0}, j \notin 1..n
    PROVE  k < j
OBVIOUS

\* The arguments of a call are numbered from 1.
LEMMA ArgumentsAreCounted ==
    ASSUME Typed, NEW p \in Procs
    PROVE  \E n \in Nat : Arguments(call[p]) = 1..n
<1>1. call[p] \in Calls
  BY DEF Typed, WellTyped
<1>2. CASE Adds(call[p])
  BY <1>1, <1>2, CallFacts DEF Arguments
<1>3. CASE ~Adds(call[p]) /\ call[p].op = "DeleteUserURLs"
  BY <1>1, <1>3, CallFacts DEF Arguments
<1>4. CASE ~Adds(call[p]) /\ call[p].op # "DeleteUserURLs"
  <2>1. Arguments(call[p]) = 1..0 /\ 0 \in Nat
    BY <1>4 DEF Arguments
  <2> QED
    BY <2>1
<1> QED
  BY <1>2, <1>3, <1>4

\* There is nothing to delete for a short URL that Skip passes over.
LEMMA SkipIsDurable ==
    ASSUME Typed, LoadingIsQuiet, MapFollowsFile, NEW p \in Procs, Skip(p), NEW k, k = i[p]
    PROVE  IsDurable(p, k)'
<1> USE DEF Typed, WellTyped
<1> DEFINE s == call[p].shortURLs[k]
<1>1. /\ phase = "serving" /\ Durable' = Durable /\ call'[p] = call[p]
      /\ ~Adds(call[p]) /\ s \in ShortURLs
  BY StepFacts, DurableIsContent, CallFacts DEF StepOf, Steps, Skip, Goto
<1>2. ~(m[s] # Absent /\ m[s].userID = call[p].userID)
  BY DEF Skip, OwnedBy
<1>3. Durable[s] \in URLRecords \cup {Absent}
  BY <1>1, DurableType DEF URLMaps
<1>4. ~(Durable[s] # Absent /\ Durable[s].userID = call[p].userID)
  <2> SUFFICES ASSUME Durable[s] # Absent, Durable[s].userID = call[p].userID
               PROVE  FALSE
    OBVIOUS
  <2>1. AsRead(m)[s] \in {Durable[s], Tombstone(Durable[s])}
    BY <1>1 DEF MapFollowsFile, Bound
  <2>2. AsRead(m)[s] # Absent /\ AsRead(m)[s].userID = call[p].userID
    BY <1>3, <2>1, Records
  <2>3. m[s] # Absent /\ m[s].userID = call[p].userID
    BY <1>1, <2>2, ReadMaps, StoredRecords
  <2> QED
    BY <1>2, <2>3
<1> QED
  BY <1>1, <1>4 DEF IsDurable, Adds

LEMMA StepKeepsDoneIsDurable ==
    ASSUME Typed, OneIsLocked, LoadingIsQuiet, LocalsAreFresh, MapFollowsFile, LineIsNext,
           IDsAreDistinct, DoneIsDurable, NEW p \in Procs, StepOf(p)
    PROVE  DoneIsDurable'
<1> SUFFICES ASSUME NEW q \in Procs, pc'[q] \in Locked, answer'[q] = "ok",
                    NEW k \in Arguments(call'[q])
             PROVE  /\ k < i'[q] => IsDurable(q, k)'
                    /\ pc'[q] = "unlock" => k < i'[q]
  BY DEF DoneIsDurable, Arguments, Adds
<1> USE DEF Typed, WellTyped
<1>1. CASE q # p
  <2>1. pc'[q] = pc[q] /\ call'[q] = call[q] /\ i'[q] = i[q] /\ answer[q] = "ok"
    BY <1>1, StepFacts
  <2>2. Durable' = Durable
    BY <1>1, <2>1, Bystanders, DurableIsContent
  <2> QED
    BY <2>1, <2>2 DEF DoneIsDurable, IsDurable, Adds
<1>2. CASE q = p /\ pc[p] \notin Locked
  <2>1. Lock(p)
    <3>1. ~Begins(p)
      BY <1>2 DEF Begins, BeginAdd, BeginDeleteUserURLs, BeginGet, Begin, Locked
    <3>2. ~Steps(p)
      BY <1>2 DEF Steps, FindHit, FindMiss, Put, AddEnd, Skip, Mark, DeleteEnd, Read, Encode,
         EncodeFails, Unlock, Locked
    <3> QED
      BY <3>1, <3>2 DEF StepOf
  <2>2. i'[p] = 1 /\ pc'[p] # "unlock" /\ call'[p] = call[p]
    BY <2>1, CallFacts DEF Lock, FirstLabel, LocalsAreFresh, Adds
  <2>3. k \in Nat \ {0}
    BY <1>2, <2>2, ArgumentsAreCounted
  <2> QED
    BY <1>2, <2>2, <2>3
<1>3. CASE q = p /\ pc[p] \in Locked
  <2>1. ~Begins(p) /\ ~Lock(p) /\ ~EncodeFails(p) /\ ~FindHit(p) /\ ~Unlock(p)
    BY <1>3 DEF Begins, BeginAdd, BeginDeleteUserURLs, BeginGet, Begin, Lock, EncodeFails, FindHit,
       Unlock, Locked, Goto
  <2>2. answer[p] = "ok" /\ call'[p] = call[p]
    BY <1>3, <2>1 DEF StepOf, Steps, FindMiss, Put, AddEnd, Skip, Mark, DeleteEnd, Read, Encode,
       Goto
  <2>3. k < i[p] => IsDurable(p, k)'
    BY <1>3, <2>2, StepFacts, DoneStaysDurable DEF DoneIsDurable
  <2>4. k \in Nat \ {0} /\ i[p] \in Nat \ {0} /\ k \in Arguments(call[p])
    BY <1>3, <2>2, ArgumentsAreCounted
  <2>5. CASE Encode(p)
    <3>1. i'[p] = i[p] + 1 /\ pc'[p] # "unlock"
      BY <2>5 DEF Encode, Goto
    <3>2. k < i'[p] => k < i[p] \/ k = i[p]
      BY <2>4, <3>1
    <3>3. k = i[p] => IsDurable(p, k)'
      BY <2>5, EncodeMakesDurable
    <3> QED
      BY <1>3, <2>3, <3>1, <3>2, <3>3
  <2>6. CASE Skip(p)
    <3>1. i'[p] = i[p] + 1 /\ pc'[p] # "unlock"
      BY <2>6 DEF Skip, Goto
    <3>2. k < i'[p] => k < i[p] \/ k = i[p]
      BY <2>4, <3>1
    <3>3. k = i[p] => IsDurable(p, k)'
      BY <2>6, SkipIsDurable
    <3> QED
      BY <1>3, <2>3, <3>1, <3>2, <3>3
  <2>7. CASE AddEnd(p) \/ DeleteEnd(p) \/ Read(p)
    <3>1. i'[p] = i[p]
      BY <2>7 DEF AddEnd, DeleteEnd, Read
    <3>2. i[p] \notin Arguments(call[p]) \/ Arguments(call[p]) = {}
      BY <2>7, CallFacts DEF AddEnd, DeleteEnd, Read, LocalsAreFresh, Arguments, Adds
    <3>3. PICK n \in Nat : Arguments(call[p]) = 1..n
      BY ArgumentsAreCounted
    <3>4. k \in 1..n /\ i[p] \notin 1..n
      BY <2>4, <3>2, <3>3
    <3>5. k < i[p]
      BY <2>4, <3>4, OutsideIsBeyond
    <3> QED
      BY <1>3, <2>3, <3>1, <3>5
  <2>8. CASE FindMiss(p) \/ Put(p) \/ Mark(p)
    <3>1. i'[p] = i[p] /\ pc'[p] # "unlock"
      BY <2>8 DEF FindMiss, Put, Mark, Goto
    <3> QED
      BY <1>3, <2>3, <3>1
  <2> QED
    BY <2>1, <2>5, <2>6, <2>7, <2>8 DEF StepOf, Steps
<1> QED
  BY <1>1, <1>2, <1>3

\* What an addition promises for a short URL is the record of its pair.
LEMMA PromiseOfAdd ==
    ASSUME Typed, IDsAreDistinct, NEW p \in Procs, NEW s \in IDsOf(call[p])
    PROVE  \E k \in DOMAIN call[p].pairs :
                /\ call[p].pairs[k].ShortURL = s /\ Adds(call[p])
                /\ Promise(call[p], s) = NewRecord(call[p].pairs[k], call[p].userID)
<1>1. PICK k \in DOMAIN call[p].pairs : call[p].pairs[k].ShortURL = s /\ Adds(call[p])
  BY DEF IDsOf
<1>2. \A pair \in ToSet(call[p].pairs) : pair.ShortURL = s => pair = call[p].pairs[k]
  BY <1>1 DEF IDsAreDistinct, ToSet
<1>3. call[p].pairs[k] \in ToSet(call[p].pairs)
  BY <1>1 DEF ToSet
<1>4. (CHOOSE pair \in ToSet(call[p].pairs) : pair.ShortURL = s) = call[p].pairs[k]
  BY <1>1, <1>2, <1>3
<1> QED
  BY <1>1, <1>4 DEF Promise

LEMMA StepKeepsPromisesAreDurable ==
    ASSUME Typed, OneIsLocked, LoadingIsQuiet, LineIsNext, IDsAreDistinct, DoneIsDurable,
           PromisesAreDurable, NEW p \in Procs, StepOf(p)
    PROVE  PromisesAreDurable'
<1> USE DEF Typed, WellTyped
<1>1. CASE promised' = promised
  BY <1>1, StepFacts, PromisesStayDurable
<1>2. CASE promised' # promised
  <2>1. /\ Unlock(p) /\ answer[p] = "ok"
        /\ promised' = [s \in ShortURLs |-> Promise(call[p], s)]
    BY <1>2 DEF StepOf, Begins, BeginAdd, BeginDeleteUserURLs, BeginGet, Begin, Lock, Steps,
       FindHit, FindMiss, Put, AddEnd, Skip, Mark, DeleteEnd, Read, Encode, EncodeFails,
       Unlock, process, history, Goto
  <2>2. Durable' = Durable /\ pc[p] = "unlock" /\ pc[p] \in Locked
    BY <2>1, DurableIsContent DEF Unlock, Locked
  <2>3. \A k \in Arguments(call[p]) : IsDurable(p, k)
    BY <2>1, <2>2 DEF DoneIsDurable
  <2> SUFFICES ASSUME NEW s \in ShortURLs, Promise(call[p], s) # Absent
               PROVE  Durable[s] \in {Stored(Promise(call[p], s)),
                                      Tombstone(Stored(Promise(call[p], s)))}
    BY <2>1, <2>2 DEF PromisesAreDurable, Bound
  <2>4. CASE s \in IDsOf(call[p])
    <3>1. PICK k \in DOMAIN call[p].pairs : /\ call[p].pairs[k].ShortURL = s /\ Adds(call[p])
                                            /\ Promise(call[p], s)
                                                = NewRecord(call[p].pairs[k], call[p].userID)
      BY <2>4, PromiseOfAdd
    <3>2. Durable[s] = Stored(NewRecord(call[p].pairs[k], call[p].userID))
      BY <2>3, <3>1 DEF Arguments, IsDurable
    <3> QED
      BY <3>1, <3>2
  <2>5. CASE /\ s \notin IDsOf(call[p])
             /\ call[p].op = "DeleteUserURLs" /\ s \in ToSet(call[p].shortURLs)
             /\ promised[s] # Absent /\ promised[s].userID = call[p].userID
    <3> DEFINE rec == Stored(promised[s])
    <3>1. PICK k \in DOMAIN call[p].shortURLs : call[p].shortURLs[k] = s
      BY <2>5 DEF ToSet
    <3>2. /\ rec \in URLRecords /\ rec.userID = promised[s].userID
          /\ Stored(Tombstone(promised[s])) = Tombstone(rec)
          /\ Durable[s] \in {rec, Tombstone(rec)}
      BY <2>5, StoredRecords DEF PromisesAreDurable, Bound, URLMaps
    <3>3. Durable[s] # Absent /\ Durable[s].userID = call[p].userID
      BY <2>5, <3>2, Records
    <3>4. ~Adds(call[p])
      BY <2>5 DEF Adds
    <3>5. Durable[s].isDeleted
      BY <2>3, <2>5, <3>1, <3>3, <3>4 DEF Arguments, IsDurable
    <3>6. Durable[s] = Tombstone(rec)
      BY <3>2, <3>5 DEF Tombstone, URLRecords
    <3> QED
      BY <2>5, <3>2, <3>6 DEF Promise
  <2>6. CASE Promise(call[p], s) = promised[s]
    BY <2>6 DEF PromisesAreDurable, Bound
  <2> QED
    BY <2>4, <2>5, <2>6 DEF Promise
<1> QED
  BY <1>1, <1>2

\* What a call has put into the map nobody replaces.
LEMMA StepKeepsAddedIsExact ==
    ASSUME Typed, OneIsLocked, LoadingIsQuiet, LocalsAreFresh, PendingIDsAreFree, LineIsNext,
           AddedIsExact, NEW p \in Procs, StepOf(p)
    PROVE  AddedIsExact'
<1> DEFINE Exact(q, k) == LET pair == call[q].pairs[k] IN
                          /\ m[pair.ShortURL] # Absent
                          /\ m[pair.ShortURL].originalURL = pair.OriginalURL
<1> SUFFICES ASSUME NEW q \in Procs, pc'[q] \in Locked, Adds(call'[q]),
                    NEW k \in DOMAIN call'[q].pairs, k < i'[q]
             PROVE  Exact(q, k)'
  BY DEF AddedIsExact, Adds
<1> USE DEF Typed, WellTyped
<1>1. CASE q # p
  <2>1. pc'[q] = pc[q] /\ call'[q] = call[q] /\ i'[q] = i[q]
    BY <1>1, StepFacts
  <2>2. m' = m
    BY <1>1, <2>1, Bystanders
  <2> QED
    BY <2>1, <2>2 DEF AddedIsExact
<1>2. CASE q = p /\ pc[p] \notin Locked
  <2>1. Lock(p)
    <3>1. ~Begins(p)
      BY <1>2 DEF Begins, BeginAdd, BeginDeleteUserURLs, BeginGet, Begin, Locked
    <3>2. ~Steps(p)
      BY <1>2 DEF Steps, FindHit, FindMiss, Put, AddEnd, Skip, Mark, DeleteEnd, Read, Encode,
         EncodeFails, Unlock, Locked
    <3> QED
      BY <3>1, <3>2 DEF StepOf
  <2>2. i'[p] = 1 /\ call'[p] = call[p]
    BY <2>1 DEF Lock, LocalsAreFresh
  <2>3. k \in Nat \ {0}
    BY <1>2, <2>2, CallFacts
  <2> QED
    BY <1>2, <2>2, <2>3
<1>3. CASE q = p /\ pc[p] \in Locked
  <2>1. ~Begins(p) /\ ~Lock(p) /\ ~Unlock(p)
    BY <1>3 DEF Begins, BeginAdd, BeginDeleteUserURLs, BeginGet, Begin, Lock, Unlock, Locked
  <2>2. call'[p] = call[p]
    BY <1>3, <2>1 DEF StepOf, Steps, FindHit, FindMiss, Put, AddEnd, Skip, Mark, DeleteEnd, Read,
       Encode, EncodeFails, Goto
  <2> DEFINE pair == call[p].pairs[k]
  <2>3. Adds(call[p]) /\ k \in DOMAIN call[p].pairs /\ pair \in URLPairs /\ k \in Nat
        /\ pair.ShortURL \in ShortURLs
    BY <1>3, <2>2, CallFacts DEF URLPairs
  <2>4. CASE Encode(p) /\ k = i[p]
    <3>1. m' = m /\ m[Written(p)] = NewRecord(pair, call[p].userID) /\ Written(p) = pair.ShortURL
      BY <2>3, <2>4, WrittenIs DEF LineIsNext, Encode
    <3>2. call[p].userID \in UserIDs
      BY <2>3, CallFacts
    <3>3. m'[pair.ShortURL] = NewRecord(pair, call[p].userID)
      BY <3>1
    <3>4. /\ NewRecord(pair, call[p].userID) \in URLRecords
          /\ NewRecord(pair, call[p].userID) # Absent
          /\ NewRecord(pair, call[p].userID).originalURL = pair.OriginalURL
      BY <2>3, <3>2, Records
    <3> QED
      BY <1>3, <2>2, <3>3, <3>4
  <2>5. CASE k < i[p]
    <3>1. m[pair.ShortURL] # Absent /\ m[pair.ShortURL].originalURL = pair.OriginalURL
      BY <1>3, <2>3, <2>5 DEF AddedIsExact
    <3>2. CASE m'[pair.ShortURL] = m[pair.ShortURL]
      BY <1>3, <2>2, <3>1, <3>2
    <3>3. ~(Put(p) /\ pair.ShortURL = Written(p)')
      <4> SUFFICES ASSUME Put(p)
                   PROVE  pair.ShortURL # Written(p)'
        OBVIOUS
      <4>1. Written(p)' = call[p].pairs[i[p]].ShortURL
        BY MapStep DEF Put, Mark
      <4>2. m[call[p].pairs[i[p]].ShortURL] = Absent
        BY PutIsPending
      <4> QED
        BY <3>1, <4>1, <4>2
    <3>4. CASE m[pair.ShortURL] \in URLRecords /\ m'[pair.ShortURL] = Tombstone(m[pair.ShortURL])
      BY <1>3, <2>2, <3>1, <3>4, Records
    <3> QED
      BY <2>3, <3>2, <3>3, <3>4, ReadStep
  <2>6. k < i[p] \/ (Encode(p) /\ k = i[p])
    <3>1. CASE Encode(p)
      <4>1. i'[p] = i[p] + 1
        BY <3>1 DEF Encode
      <4> QED
        BY <1>3, <2>3, <3>1, <4>1
    <3>2. ~Skip(p)
      BY <2>3, CallFacts DEF Skip
    <3>3. CASE ~Encode(p)
      <4>1. i'[p] = i[p]
        BY <2>1, <3>2, <3>3 DEF StepOf, Steps, FindHit, FindMiss, Put, AddEnd, Mark, DeleteEnd, Read,
           EncodeFails
      <4> QED
        BY <1>3, <4>1
    <3> QED
      BY <3>1, <3>3
  <2> QED
    BY <2>4, <2>5, <2>6
<1> QED
  BY <1>1, <1>2, <1>3

LEMMA StepKeepsPromisesAreKnown ==
    ASSUME Typed, OneIsLocked, LoadingIsQuiet, MapFollowsFile, PendingIDsAreFree, IDsAreDistinct,
           DoneIsDurable, AddedIsExact, PromisesAreDurable, PromisesAreKnown,
           NEW p \in Procs, StepOf(p)
    PROVE  PromisesAreKnown'
<1> USE DEF Typed, WellTyped
<1> SUFFICES ASSUME NEW s \in ShortURLs, promised'[s] # Absent
             PROVE  m'[s].originalURL \in {promised'[s].originalURL,
                                           AsText[promised'[s].originalURL]}
  BY DEF PromisesAreKnown, Bound
<1>1. ASSUME promised[s] # Absent
      PROVE  /\ m'[s].originalURL = m[s].originalURL
             /\ m[s].originalURL \in {promised[s].originalURL, AsText[promised[s].originalURL]}
             /\ promised[s] \in URLRecords
  <2>1. promised[s] \in URLRecords
    BY <1>1 DEF URLMaps
  <2>2. Durable[s] # Absent
    BY <1>1, <2>1, StoredRecords, Records DEF PromisesAreDurable, Bound
  <2>3. AsRead(m)[s] \in {Durable[s], Tombstone(Durable[s])} /\ Durable[s] \in URLRecords
        /\ m[s].originalURL \in {promised[s].originalURL, AsText[promised[s].originalURL]}
    <3>1. phase = "serving"
      BY StepFacts
    <3>2. Durable[s] \in URLRecords
      BY <2>2, DurableType DEF URLMaps
    <3> QED
      BY <1>1, <2>2, <3>1, <3>2 DEF MapFollowsFile, PromisesAreKnown, Bound
  <2>4. m[s] # Absent
    <3> DEFINE d == Durable[s]
    <3>1. d # Absent /\ Tombstone(d) # Absent
      <4>1. d \in URLRecords
        BY <2>3
      <4> QED
        BY <2>2, <4>1, Records
    <3>2. AsRead(m)[s] \in {d, Tombstone(d)}
      BY <2>3
    <3>3. AsRead(m)[s] # Absent
      <4> HIDE DEF d
      <4> QED
        BY <3>1, <3>2
    <3> QED
      BY <3>3, ReadMaps
  <2>5. ~(Put(p) /\ s = Written(p)')
    <3> SUFFICES ASSUME Put(p)
                 PROVE  s # Written(p)'
      OBVIOUS
    <3>1. Written(p)' = call[p].pairs[i[p]].ShortURL
      BY MapStep DEF Put, Mark
    <3> QED
      BY <2>4, <3>1, PutIsPending
  <2>6. m'[s] = m[s] \/ (m[s] \in URLRecords /\ m'[s] = Tombstone(m[s]))
    BY <2>5, ReadStep
  <2> QED
    BY <2>1, <2>3, <2>6, Records
<1>2. CASE promised'[s] = promised[s]
  BY <1>1, <1>2
<1>3. CASE promised'[s] # promised[s]
  <2>1. /\ Unlock(p) /\ answer[p] = "ok" /\ m' = m /\ pc[p] = "unlock"
        /\ promised'[s] = Promise(call[p], s)
    BY <1>3 DEF StepOf, Begins, BeginAdd, BeginDeleteUserURLs, BeginGet, Begin, Lock, Steps,
       FindHit, FindMiss, Put, AddEnd, Skip, Mark, DeleteEnd, Read, Encode, EncodeFails,
       Unlock, process, history, Goto
  <2>2. CASE s \in IDsOf(call[p])
    <3>1. PICK k \in DOMAIN call[p].pairs : /\ call[p].pairs[k].ShortURL = s /\ Adds(call[p])
                                            /\ Promise(call[p], s)
                                                = NewRecord(call[p].pairs[k], call[p].userID)
      BY <2>2, PromiseOfAdd
    <3>2. k < i[p]
      BY <2>1, <3>1 DEF DoneIsDurable, Arguments, Locked
    <3>3. m[s].originalURL = call[p].pairs[k].OriginalURL
      BY <2>1, <3>1, <3>2 DEF AddedIsExact, Locked
    <3>4. call[p].pairs[k] \in URLPairs /\ call[p].userID \in UserIDs
      BY <3>1, CallFacts
    <3> QED
      BY <2>1, <3>1, <3>3, <3>4, Records
  <2>3. CASE promised[s] # Absent /\ Promise(call[p], s) = Tombstone(promised[s])
    BY <1>1, <2>1, <2>3, Records
  <2> QED
    BY <1>3, <2>1, <2>2, <2>3 DEF Promise
<1> QED
  BY <1>2, <1>3

-----------------------------------------------------------------------------
(***************************************************************************)
(* The life cycle of the process.                                          *)
(***************************************************************************)
LEMMA StepKeepsInv ==
    ASSUME Inv, NEW p \in Procs, StepOf(p)
    PROVE  Inv'
<1> USE DEF Inv
<1>1. WellTyped'
  BY TypePreserved DEF StepOf, Next
<1>2. Typed'
  BY <1>1, StepKeepsWritesWhatItHas DEF Typed
<1>3. OneIsLocked' /\ LocalsAreFresh' /\ IDsAreDistinct'
  BY StepKeepsOneIsLocked, StepKeepsLocalsAreFresh, StepKeepsIDsAreDistinct
<1>4. LoadingIsQuiet' /\ FailsForAReason'
  BY StepFacts DEF LoadingIsQuiet, FailsForAReason
<1>5. LinesSurvive'
  BY StepFacts, LinesStillSurvive
<1>6. MapFollowsFile' /\ MapIsWritten' /\ LineIsNext'
  BY StepKeepsMapFollowsFile, StepKeepsMapIsWritten, StepKeepsLineIsNext
<1>7. PendingIDsAreFree' /\ DoneIsDurable' /\ PromisesAreDurable'
  BY StepKeepsPendingIDsAreFree, StepKeepsDoneIsDurable, StepKeepsPromisesAreDurable
<1>8. AddedIsExact' /\ PromisesAreKnown'
  BY StepKeepsAddedIsExact, StepKeepsPromisesAreKnown
<1> QED
  BY <1>2, <1>3, <1>4, <1>5, <1>6, <1>7, <1>8

\* While no call is on its way, what the invariant says of calls holds.
NobodyCalls ==
    /\ pc = [p \in Procs |-> "idle"]
    /\ call = [p \in Procs |-> NoCall]
    /\ i = [p \in Procs |-> 1]
    /\ answer = [p \in Procs |-> "ok"]
    /\ mu = NoProc

CallInvs ==
    /\ OneIsLocked /\ LocalsAreFresh /\ LineIsNext /\ PendingIDsAreFree
    /\ IDsAreDistinct /\ DoneIsDurable /\ AddedIsExact

LEMMA QuietInvs == NobodyCalls => CallInvs
<1> SUFFICES ASSUME NobodyCalls
             PROVE  CallInvs
  OBVIOUS
<1>1. \A p \in Procs : /\ pc[p] = "idle" /\ i[p] = 1 /\ answer[p] = "ok"
                       /\ ~Adds(call[p]) /\ call[p].op = "none" /\ mu # p
  BY NoProcIsNoProc DEF NobodyCalls, NoCall, Adds
<1>2. OneIsLocked /\ LocalsAreFresh
  BY <1>1 DEF OneIsLocked, LocalsAreFresh, Locked
<1>3. LineIsNext /\ AddedIsExact
  BY <1>1 DEF LineIsNext, AddedIsExact
<1>4. PendingIDsAreFree /\ IDsAreDistinct
  BY <1>1 DEF PendingIDsAreFree, StillToPut, IDsAreDistinct, IDsOf
<1>5. DoneIsDurable
  BY <1>1 DEF DoneIsDurable, Locked
<1> QED
  BY <1>2, <1>3, <1>4, <1>5 DEF CallInvs

\* The map of a process that loads, in the constant-level words.
LEMMA QuietIsContent ==
    /\ LoadingIsQuiet <=>
        (phase # "serving" => /\ \A p \in Procs : pc[p] = "idle"
                              /\ pos \in 1..(Len(file) + 1)
                              /\ m = Content(file, pos - 1))
    /\ LoadingIsQuiet' <=>
        (phase' # "serving" => /\ \A p \in Procs : pc'[p] = "idle"
                               /\ pos' \in 1..(Len(file') + 1)
                               /\ m' = Content(file', pos' - 1))
BY DEF LoadingIsQuiet, LoadedFrom, LinesFor, Content, LinesOf, Latest

LEMMA EmptyContent == \A f : Content(f, 0) = EmptyMap
BY DEF Content, LinesOf, EmptyMap

\* A process that loads reads one more line, gives up, or begins to serve.
LEMMA LoadKeepsQuiet ==
    ASSUME Inv, Load
    PROVE  /\ UNCHANGED <<file, encErr, pc, call, i, answer, mu, promised>>
           /\ \A p \in Procs : pc[p] = "idle"
           /\ m = Content(file, pos - 1) /\ pos \in 1..(Len(file) + 1)
           /\ Len(file) \in Nat /\ file \in Seq(Lines)
           /\ Durable' = Durable
<1>1. UNCHANGED <<file, encErr, pc, call, i, answer, mu, promised>> /\ phase = "loading"
  BY DEF Load, LoadRecord, LoadFails, LoadEnd, history
<1>2. file \in Seq(Lines)
  BY DEF Inv, Typed, WellTyped, Lines
<1> QED
  BY <1>1, <1>2, QuietIsContent, DurableIsContent DEF Inv

LEMMA LoadKeepsLoadingIsQuiet ==
    ASSUME Inv, Load
    PROVE  LoadingIsQuiet'
<1> USE LoadKeepsQuiet
<1>1. CASE LoadRecord
  <2>1. pos \in 1..Len(file) /\ file[pos] # Torn /\ pos' = pos + 1
        /\ m' = [m EXCEPT ![file[pos].ShortURL] = file[pos].rec]
    BY <1>1 DEF LoadRecord
  <2>2. m' = Content(file, pos)
    BY <2>1, ContentOfLine
  <2> QED
    BY <2>1, <2>2, QuietIsContent
<1>2. CASE LoadFails \/ LoadEnd
  <2>1. pos' = pos /\ m' = m
    BY <1>2 DEF LoadFails, LoadEnd
  <2> QED
    BY <2>1, QuietIsContent
<1> QED
  BY <1>1, <1>2 DEF Load

\* All lines are read: the map is what the file says.
LEMMA LoadKeepsMap ==
    ASSUME Inv, Load
    PROVE  MapFollowsFile' /\ MapIsWritten' /\ PromisesAreKnown'
<1> SUFFICES ASSUME phase' = "serving"
             PROVE  /\ AsRead(m') = Durable'
                    /\ \A s \in Bound(promised) :
                        m'[s].originalURL = AsText[promised[s].originalURL]
  BY LoadKeepsQuiet DEF MapFollowsFile, MapIsWritten, PromisesAreKnown, Bound
<1>1. pos \notin DOMAIN file /\ m' = m
  BY DEF Load, LoadRecord, LoadFails, LoadEnd
<1>2. pos - 1 = Len(file)
  BY <1>1, LoadKeepsQuiet
<1>3. m' = Durable /\ Durable' = Durable /\ Durable \in TextMaps /\ Durable \in URLMaps
  BY <1>1, <1>2, LoadKeepsQuiet, DurableIsContent, DurableType DEF Inv
<1>4. AsRead(m') = Durable'
  BY <1>3, ReadMaps
<1>5. ASSUME NEW s \in Bound(promised)
      PROVE  m'[s].originalURL = AsText[promised[s].originalURL]
  <2>1. promised[s] \in URLRecords
    BY DEF Inv, Typed, WellTyped, URLMaps, Bound
  <2>2. Durable[s] \in {Stored(promised[s]), Tombstone(Stored(promised[s]))}
    BY DEF Inv, PromisesAreDurable
  <2> QED
    BY <1>3, <2>1, <2>2, StoredRecords, Records
<1> QED
  BY <1>4, <1>5

LEMMA LoadKeepsFailsForAReason ==
    ASSUME Inv, Load
    PROVE  FailsForAReason'
<1> SUFFICES ASSUME LoadFails, file[pos] # Torn
             PROVE  \E s, t \in Bound(Durable) :
                        s # t /\ Durable[s].originalURL = Durable[t].originalURL
  <2>1. phase' = "failed" => LoadFails
    BY DEF Load, LoadRecord, LoadFails, LoadEnd, Inv
  <2>2. LoadFails => pos \in DOMAIN file'
    BY LoadKeepsQuiet DEF LoadFails
  <2> QED
    BY <2>1, <2>2, LoadKeepsQuiet DEF FailsForAReason, Bound
<1> DEFINE s == file[pos].ShortURL
<1>1. pos \in DOMAIN file /\ file[pos] \in StoredURLs /\ m[s] = Absent
      /\ ShortURLsOf(m, file[pos].rec.originalURL) # {}
  BY LoadKeepsQuiet DEF LoadFails, Duplicates, Lines
<1>2. PICK t \in ShortURLs : m[t] # Absent /\ m[t].originalURL = file[pos].rec.originalURL
  BY <1>1 DEF ShortURLsOf, Bound
<1>3. pos - 1 \in 0..Len(file)
  BY LoadKeepsQuiet
<1>4. PICK k \in 1..(pos - 1) : file[k] # Torn /\ file[k].ShortURL = t /\ m[t] = file[k].rec
  BY <1>2, <1>3, LoadKeepsQuiet, BoundByLines
<1>5. k \in DOMAIN file /\ file[k] \in StoredURLs
  BY <1>3, <1>4, LoadKeepsQuiet DEF Lines
<1>6. /\ Durable[s] \in {file[pos].rec, Tombstone(file[pos].rec)}
      /\ Durable[t] \in {file[k].rec, Tombstone(file[k].rec)}
  BY <1>1, <1>4, <1>5, TornIsNoRecord DEF Inv, LinesSurvive
<1>7. s \in Bound(Durable) /\ t \in Bound(Durable)
      /\ Durable[s].originalURL = Durable[t].originalURL
  BY <1>1, <1>2, <1>4, <1>5, <1>6, Records DEF Bound, StoredURLs, TextRecords
<1> QED
  BY <1>1, <1>2, <1>7

LEMMA LoadKeepsInv ==
    ASSUME Inv, Load
    PROVE  Inv'
<1>1. WellTyped'
  BY TypePreserved DEF Inv, Next
<1>2. WritesWhatItHas'
  BY LoadKeepsQuiet DEF WritesWhatItHas
<1>3. LinesSurvive' /\ PromisesAreDurable'
  BY LoadKeepsQuiet DEF Inv, LinesSurvive, PromisesAreDurable
<1>4. NobodyCalls'
  <2>1. mu = NoProc
    BY LoadKeepsQuiet DEF Inv, Typed, WellTyped, OneIsLocked, Locked
  <2>2. \A p \in Procs : pc[p] = "idle" /\ call[p] = NoCall /\ i[p] = 1 /\ answer[p] = "ok"
    BY LoadKeepsQuiet DEF Inv, Typed, WellTyped, LocalsAreFresh
  <2>3. pc = [p \in Procs |-> pc[p]] /\ call = [p \in Procs |-> call[p]]
        /\ i = [p \in Procs |-> i[p]] /\ answer = [p \in Procs |-> answer[p]]
    BY DEF Inv, Typed, WellTyped
  <2> QED
    BY <2>1, <2>2, <2>3, LoadKeepsQuiet DEF NobodyCalls
<1>5. CallInvs'
  BY <1>4, QuietInvs, PTL
<1> QED
  BY <1>1, <1>2, <1>3, <1>5, LoadKeepsLoadingIsQuiet, LoadKeepsMap, LoadKeepsFailsForAReason
     DEF Inv, Typed, CallInvs

\* A new process has its file, and nothing else.
LEMMA StartKeepsInv ==
    ASSUME Inv, Start, Typed',
           LinesSurvive', PromisesAreDurable'
    PROVE  Inv'
<1>1. phase' = "loading" /\ pos' = 1 /\ m' = EmptyMap /\ Len(file') \in Nat
  BY DEF Start, Typed, WellTyped
<1>2. NobodyCalls'
  BY DEF Start, NobodyCalls
<1>3. CallInvs'
  BY <1>2, QuietInvs, PTL
<1>4. MapFollowsFile' /\ MapIsWritten' /\ FailsForAReason' /\ PromisesAreKnown'
  BY <1>1 DEF MapFollowsFile, MapIsWritten, FailsForAReason, PromisesAreKnown
<1>5. LoadingIsQuiet'
  <2>1. \A p \in Procs : pc'[p] = "idle"
    BY <1>2 DEF NobodyCalls
  <2>2. pos' - 1 = 0 /\ pos' \in 1..(Len(file') + 1)
    BY <1>1
  <2> QED
    BY <1>1, <2>1, <2>2, EmptyContent, QuietIsContent
<1> QED
  BY <1>3, <1>4, <1>5 DEF Inv, CallInvs

LEMMA InvInductive == Inv /\ [Next]_vars => Inv'
<1> SUFFICES ASSUME Inv, [Next]_vars
             PROVE  Inv'
  OBVIOUS
<1>1. CASE Load
  BY <1>1, LoadKeepsInv
<1>2. ASSUME NEW p \in Procs, Begins(p) \/ Lock(p) \/ Steps(p)
      PROVE  Inv'
  BY <1>2, StepKeepsInv DEF StepOf
<1>3. CASE Crash
  <2>1. WellTyped' /\ WritesWhatItHas'
    BY <1>3, TypePreserved DEF Inv, Next, Crash, Start, WritesWhatItHas
  <2>2. promised' = promised
    BY <1>3 DEF Crash, Start
  <2>3. CASE file' = file
    <3>1. LinesSurvive' /\ PromisesAreDurable'
      BY <2>2, <2>3, DurableIsContent DEF Inv, LinesSurvive, PromisesAreDurable
    <3> QED
      BY <1>3, <2>1, <3>1, StartKeepsInv DEF Crash, Typed
  <2>4. ASSUME NEW p \in Procs, pc[p] = "encode", ~encErr, file' \in Remains(p)
        PROVE  Inv'
    <3>1. FileStep(p)
      BY <2>4, WhatRemains DEF Inv, FileStep
    <3>2. LinesSurvive' /\ PromisesAreDurable'
      BY <2>2, <3>1, LinesStillSurvive, PromisesStayDurable DEF Inv
    <3> QED
      BY <1>3, <2>1, <3>2, StartKeepsInv DEF Crash, Typed
  <2> QED
    BY <1>3, <2>3, <2>4 DEF Crash
<1>4. CASE Retry
  <2>1. WellTyped' /\ WritesWhatItHas'
    BY <1>4, TypePreserved DEF Inv, Next, Retry, Start, WritesWhatItHas
  <2>2. LinesSurvive' /\ PromisesAreDurable'
    BY <1>4, DurableIsContent DEF Inv, LinesSurvive, PromisesAreDurable, Retry, Start
  <2> QED
    BY <1>4, <2>1, <2>2, StartKeepsInv DEF Retry, Typed
<1>5. CASE UNCHANGED vars
  <2> USE <1>5 DEF Inv, vars, Adds, IDsOf, Written, Line
  <2>1. WellTyped' /\ WritesWhatItHas'
    BY TypePreserved DEF Typed, WritesWhatItHas
  <2>2. OneIsLocked' /\ LocalsAreFresh' /\ PendingIDsAreFree'
    BY DEF OneIsLocked, LocalsAreFresh, PendingIDsAreFree, StillToPut
  <2>8. IDsAreDistinct'
    BY SameCallsSameIDs
  <2>3. Durable' = Durable
    BY DurableIsContent
  <2>4. LoadingIsQuiet'
    BY QuietIsContent
  <2>5. LinesSurvive' /\ MapFollowsFile' /\ PromisesAreDurable' /\ FailsForAReason'
    BY <2>3 DEF LinesSurvive, MapFollowsFile, PromisesAreDurable, FailsForAReason
  <2>6. MapIsWritten' /\ LineIsNext'
    BY <2>3 DEF MapIsWritten, LineIsNext
  <2>7. DoneIsDurable' /\ AddedIsExact' /\ PromisesAreKnown'
    BY <2>3 DEF DoneIsDurable, IsDurable, Arguments, AddedIsExact, PromisesAreKnown
  <2> QED
    BY <2>1, <2>2, <2>4, <2>5, <2>6, <2>7, <2>8 DEF Typed
<1> QED
  BY <1>1, <1>2, <1>3, <1>4, <1>5 DEF Next

LEMMA InitialInv == Init => Inv
<1> SUFFICES ASSUME Init
             PROVE  Inv
  OBVIOUS
<1>1. WellTyped
  BY InitialTypes
<1>2. NobodyCalls /\ phase = "loading" /\ pos = 1 /\ m = EmptyMap /\ file = << >>
      /\ promised = EmptyMap
  BY DEF Init, NobodyCalls
<1>3. CallInvs
  BY <1>2, QuietInvs
<1>4. WritesWhatItHas
  BY <1>2 DEF WritesWhatItHas, NobodyCalls
<1>5. LoadingIsQuiet
  BY <1>2, EmptyContent, QuietIsContent DEF NobodyCalls
<1>6. LinesSurvive /\ PromisesAreDurable
  BY <1>2 DEF LinesSurvive, PromisesAreDurable, Bound, EmptyMap
<1>7. MapFollowsFile /\ MapIsWritten /\ FailsForAReason /\ PromisesAreKnown
  BY <1>2 DEF MapFollowsFile, MapIsWritten, FailsForAReason, PromisesAreKnown
<1> QED
  BY <1>1, <1>3, <1>4, <1>5, <1>6, <1>7 DEF Inv, Typed, CallInvs

\* In every state of every process the map, the file, what clients were promised and
\* the local variables of the goroutine inside the mutex fit together.
THEOREM Invariance == Spec => []Inv
<1>1. Init => Inv
  BY InitialInv
<1>2. Inv /\ [Next]_vars => Inv'
  BY InvInductive
<1> QED
  BY <1>1, <1>2, PTL DEF Spec

-----------------------------------------------------------------------------
(***************************************************************************)
(* The store's types: in particular a goroutine is inside a method only    *)
(* with a call of that method, its loop index is within the batch, and one *)
(* goroutine at a time is between Lock and Unlock.                         *)
(***************************************************************************)
THEOREM TypesAreRight == Spec => []TypeOK
<1>1. Inv => TypeOK
  BY DEF Inv, Typed, TypeOK
<1> QED
  BY <1>1, Invariance, PTL

(***************************************************************************)
(* What AddURL, AddURLs and DeleteUserURLs answered without an error holds *)
(* whenever the store serves, after any number of crashes in the middle of *)
(* writes, failed writes and restarts: the short URL resolves to the URL   *)
(* it was asked for, or to the text of it that the file keeps.             *)
(***************************************************************************)
THEOREM PromisesKept == Spec => []PromisesAreKept
<1>1. Inv => PromisesAreKept
  <2> SUFFICES ASSUME Inv, phase = "serving", NEW s \in Bound(promised)
               PROVE  \E rec \in {promised[s], Stored(promised[s])} : m[s] \in {rec, Tombstone(rec)}
    BY DEF PromisesAreKept
  <2> DEFINE old == promised[s]
             text == Stored(promised[s])
  <2>1. old \in URLRecords /\ s \in ShortURLs /\ m \in URLMaps
    BY DEF Inv, Typed, WellTyped, URLMaps, Bound
  <2>2. text \in URLRecords /\ text.userID = old.userID /\ text.isDeleted = old.isDeleted
        /\ text.originalURL = AsText[old.originalURL]
    BY <2>1, StoredRecords
  <2>3. Durable[s] \in {text, Tombstone(text)}
    BY DEF Inv, PromisesAreDurable
  <2>4. s \in Bound(Durable)
    BY <2>1, <2>2, <2>3, Records DEF Bound
  <2>5. AsRead(m)[s] \in {text, Tombstone(text)}
    BY <2>2, <2>3, <2>4, Records DEF Inv, MapFollowsFile
  <2>6. m[s] \in URLRecords /\ AsRead(m)[s] = Stored(m[s])
    BY <2>1, <2>2, <2>5, ReadMaps, Records
  <2>7. m[s].userID = old.userID /\ (old.isDeleted => m[s].isDeleted)
    BY <2>2, <2>5, <2>6, StoredRecords, Records
  <2>8. m[s].originalURL \in {old.originalURL, text.originalURL}
    BY <2>2 DEF Inv, PromisesAreKnown
  <2>9. ASSUME NEW rec \in URLRecords, m[s].originalURL = rec.originalURL,
               m[s].userID = rec.userID, rec.isDeleted => m[s].isDeleted
        PROVE  m[s] \in {rec, Tombstone(rec)}
    BY <2>6, <2>9 DEF URLRecords, Tombstone
  <2> HIDE DEF old, text
  <2>10. CASE m[s].originalURL = old.originalURL
    BY <2>1, <2>7, <2>9, <2>10 DEF old
  <2>11. CASE m[s].originalURL = text.originalURL
    BY <2>2, <2>7, <2>9, <2>11 DEF text
  <2> QED
    BY <2>8, <2>10, <2>11
<1> QED
  BY <1>1, Invariance, PTL

(***************************************************************************)
(* Between two calls the map the methods answer from is, but for what JSON *)
(* makes of it, what a restart would load, and after a failed write still  *)
(* everything the file holds.                                              *)
(***************************************************************************)
THEOREM MapAndFileMatch == Spec => []MapMatchesFile
<1>1. Inv => MapMatchesFile
  <2> SUFFICES ASSUME Inv, phase = "serving"
               PROVE  mu = NoProc /\ ~encErr => AsRead(m) = Durable
    BY DEF MapMatchesFile, Inv, MapFollowsFile
  <2> SUFFICES ASSUME mu = NoProc, ~encErr
               PROVE  AsRead(m) = Durable
    OBVIOUS
  <2>1. \A p \in Procs : pc[p] # "encode"
    BY NoProcIsNoProc DEF Inv, OneIsLocked, Locked
  <2>2. \A s \in ShortURLs : AsRead(m)[s] = Durable[s]
    BY <2>1 DEF Inv, MapIsWritten
  <2>3. AsRead(m) \in TextMaps /\ Durable \in TextMaps
    BY ReadMaps, DurableType DEF Inv, Typed, WellTyped
  <2> QED
    BY <2>2, <2>3 DEF TextMaps
<1> QED
  BY <1>1, Invariance, PTL

(***************************************************************************)
(* readURLs ends the process only over a line cut short, or two short URLs *)
(* that the whole file, and not only what was read, gives one original URL.*)
(***************************************************************************)
THEOREM FailuresHaveAReason == Spec => []FailsForAReason
<1>1. Inv => FailsForAReason
  BY DEF Inv
<1> QED
  BY <1>1, Invariance, PTL

(***************************************************************************)
(* The content of the file implements the URLStore interface: every step   *)
(* of the store, a crash in the middle of a write too, leaves it alone,    *)
(* binds a free short URL, or deletes a bound one.                         *)
(***************************************************************************)
THEOREM FileImplementsURLStore == Spec => RefinesURLStore
<1>1. Init => Abstract!Init
  <2> SUFFICES ASSUME Init
               PROVE  Durable = EmptyMap
    BY DEF Abstract!Init, Abstract!EmptyMap, EmptyMap
  <2> QED
    BY DurableIsContent, EmptyContent DEF Init
<1>2. Inv /\ [Next]_vars => [Abstract!Next]_Durable
  <2> SUFFICES ASSUME Inv, [Next]_vars, Durable' # Durable
               PROVE  Abstract!Next
    OBVIOUS
  <2>1. \E p \in Procs : FileStep(p)
    <3>1. ~Load /\ ~Retry /\ ~UNCHANGED vars
      BY DurableIsContent DEF Load, LoadRecord, LoadFails, LoadEnd, Retry, vars
    <3>2. CASE Crash
      BY <3>2, WhatRemains, DurableIsContent DEF Crash, FileStep, Inv
    <3>3. ASSUME NEW p \in Procs, StepOf(p)
          PROVE  FileStep(p)
      BY <3>3, StepFacts DEF Inv
    <3> QED
      BY <3>1, <3>2, <3>3 DEF Next, StepOf
  <2>2. PICK p \in Procs : /\ pc[p] = "encode" /\ ~encErr
                           /\ Durable' = [Durable EXCEPT ![Written(p)] = Stored(m[Written(p)])]
    BY <2>1, DurableStep DEF Inv
  <2>3. Written(p) \in ShortURLs
    BY <2>2, LineType DEF Inv
  <2>4. CASE Adds(call[p])
    <3>1. call[p].pairs[i[p]] \in URLPairs /\ call[p].userID \in UserIDs
      BY <2>2, <2>4, CallFacts DEF Inv, Typed, WellTyped
    <3>2. /\ Durable[Written(p)] = Absent
          /\ m[Written(p)] = NewRecord(call[p].pairs[i[p]], call[p].userID)
      BY <2>2, <2>4 DEF Inv, LineIsNext
    <3> DEFINE record == Stored(m[Written(p)])
    <3>3. record \in URLRecords /\ ~record.isDeleted
      BY <3>1, <3>2, Records, StoredRecords
    <3>4. Durable' = [Durable EXCEPT ![Written(p)] = record]
      BY <2>2
    <3> HIDE DEF record
    <3>5. Abstract!Add(Written(p), record)
      BY <3>2, <3>3, <3>4, Zenon DEF Abstract!Add
    <3>6. record \in Abstract!URLRecords
      BY <3>3 DEF URLRecords, Abstract!URLRecords
    <3> QED
      BY <2>3, <3>5, <3>6 DEF Abstract!Next
  <2>5. CASE ~Adds(call[p])
    <3>1. /\ Durable[Written(p)] # Absent
          /\ Durable' = [Durable EXCEPT ![Written(p)] = Tombstone(Durable[Written(p)])]
      BY <2>2, <2>5 DEF Inv, LineIsNext
    <3>2. Abstract!Delete(Written(p))
      BY <2>2, <3>1, Zenon DEF Abstract!Delete, Abstract!Tombstone, Tombstone
    <3> QED
      BY <2>3, <3>2 DEF Abstract!Next
  <2> QED
    BY <2>4, <2>5
<1> QED
  BY <1>1, <1>2, Invariance, PTL DEF Spec, RefinesURLStore, Abstract!Spec

-----------------------------------------------------------------------------
(***************************************************************************)
(* Uniqueness of original URLs, where AddURL alone adds: MaxBatch = 0      *)
(* leaves AddURLs no batch to be called with.  The map has one short URL   *)
(* for an original URL, and so has the file, but where two original URLs   *)
(* are one text.                                                           *)
(***************************************************************************)
Unique(map) == \A s, t \in Bound(map) : map[s].originalURL = map[t].originalURL => s = t

UniqueButForCoerced(map) ==
    \A s, t \in Bound(map) :
        s # t /\ map[s].originalURL = map[t].originalURL => IsCoerced(map[s].originalURL)

\* From the search of AddURL to its write nobody adds the original URL.
SearchStillHolds ==
    \A p \in Procs : pc[p] = "add" /\ i[p] = 1 =>
        ShortURLsOf(m, call[p].pairs[1].OriginalURL) = {}

UniqueInv == Unique(m) /\ UniqueButForCoerced(Durable) /\ SearchStillHolds

LEMMA NoBatches ==
    ASSUME MaxBatch = 0
    PROVE  AddCalls = AddURLCalls
<1>1. AddURLsCalls = {}
  <2> SUFFICES ASSUME NEW c \in AddURLsCalls
               PROVE  FALSE
    OBVIOUS
  <2>1. PICK n \in 0..0 :
            c.pairs \in [1..n -> {pair \in URLPairs : pair.OriginalURL \in Texts}]
    BY DEF AddURLsCalls, BoundedSeq, SeqOf
  <2> QED
    BY <2>1 DEF AddURLsCalls
<1> QED
  BY <1>1 DEF AddCalls

\* Two maps that agree on their original URLs are both unique if one is.
LEMMA UniqueIsInherited ==
    ASSUME NEW f, NEW g, Unique(f),
           \A s \in Bound(g) : s \in Bound(f) /\ g[s].originalURL = f[s].originalURL
    PROVE  Unique(g)
BY DEF Unique

\* One record more is no loss where no record has its original URL.
LEMMA UniqueIsExtended ==
    ASSUME NEW f, NEW g, Unique(f), NEW w \in ShortURLs, NEW record,
           \A s \in Bound(f) : f[s].originalURL # record.originalURL,
           \A s \in ShortURLs : g[s] = IF s = w THEN record ELSE f[s]
    PROVE  Unique(g)
<1>1. \A s \in Bound(g) : s = w \/ (s \in Bound(f) /\ g[s] = f[s])
  BY DEF Bound
<1>2. g[w] = record
  OBVIOUS
<1>3. ASSUME NEW s \in Bound(g), NEW t \in Bound(g), g[s].originalURL = g[t].originalURL
      PROVE  s = t
  <2>1. CASE s = w \/ t = w
    BY <1>1, <1>2, <1>3, <2>1
  <2>2. CASE s # w /\ t # w
    BY <1>1, <1>3, <2>2 DEF Unique
  <2> QED
    BY <2>1, <2>2
<1> QED
  BY <1>3, Zenon DEF Unique

\* Marking, reading and returning give no short URL another original URL; what
\* Put adds nobody had.
LEMMA StepKeepsUnique ==
    ASSUME MaxBatch = 0, Inv, UniqueInv, NEW p \in Procs, StepOf(p)
    PROVE  Unique(m')
<1> USE DEF Inv, Typed, WellTyped
<1>1. CASE m' = m
  BY <1>1 DEF UniqueInv
<1>2. CASE Mark(p)
  <2> DEFINE w == Written(p)'
  <2>1. w \in ShortURLs /\ m[w] # Absent /\ m' = [m EXCEPT ![w] = Tombstone(m[w])]
    BY <1>2, MapStep DEF Put, Mark
  <2>2. Tombstone(m[w]).originalURL = m[w].originalURL
    BY <2>1, Records DEF URLMaps
  <2>3. \A s \in ShortURLs : m'[s] = IF s = w THEN Tombstone(m[w]) ELSE m[s]
    BY <2>1 DEF URLMaps
  <2> HIDE DEF w
  <2>4. \A s \in Bound(m') : s \in Bound(m) /\ m'[s].originalURL = m[s].originalURL
    BY <2>1, <2>2, <2>3 DEF Bound
  <2> QED
    BY <2>4, UniqueIsInherited DEF UniqueInv
<1>3. CASE Put(p)
  <2>1. call[p] \in AddURLCalls /\ i[p] = 1 /\ pc[p] = "add"
    BY <1>3, NoBatches, CallFacts DEF Put
  <2>2. ShortURLsOf(m, call[p].pairs[1].OriginalURL) = {}
    BY <2>1 DEF UniqueInv, SearchStillHolds
  <2>3. /\ Written(p)' \in ShortURLs /\ call[p].pairs[1] \in URLPairs /\ call[p].userID \in UserIDs
        /\ m' = [m EXCEPT ![Written(p)'] = NewRecord(call[p].pairs[1], call[p].userID)]
    BY <1>3, <2>1, MapStep, CallFacts DEF Put, Mark
  <2>4. NewRecord(call[p].pairs[1], call[p].userID).originalURL = call[p].pairs[1].OriginalURL
    BY <2>3, Records
  <2>5. \A s \in ShortURLs : m[s] # Absent => m[s].originalURL # call[p].pairs[1].OriginalURL
    BY <2>2 DEF ShortURLsOf, Bound
  <2>6. \A s \in ShortURLs : m'[s] = IF s = Written(p)'
                                     THEN NewRecord(call[p].pairs[1], call[p].userID)
                                     ELSE m[s]
    BY <2>3 DEF URLMaps
  <2> DEFINE record == NewRecord(call[p].pairs[1], call[p].userID)
  <2>7. \A s \in Bound(m) : m[s].originalURL # record.originalURL
    BY <2>4, <2>5 DEF Bound
  <2>8. \A s \in ShortURLs : m'[s] = IF s = Written(p)' THEN record ELSE m[s]
    BY <2>6
  <2>9. Unique(m) /\ Written(p)' \in ShortURLs
    BY <2>3 DEF UniqueInv
  <2> HIDE DEF record, Inv, Typed, WellTyped
  <2> QED
    BY <2>7, <2>8, <2>9, UniqueIsExtended, Zenon
<1> QED
  BY <1>1, <1>2, <1>3, MapStep

LEMMA StepKeepsSearch ==
    ASSUME MaxBatch = 0, Inv, UniqueInv, NEW p \in Procs, StepOf(p)
    PROVE  SearchStillHolds'
<1> USE DEF Inv, Typed, WellTyped, Goto
<1> SUFFICES ASSUME NEW q \in Procs, pc'[q] = "add", i'[q] = 1
             PROVE  ShortURLsOf(m', call'[q].pairs[1].OriginalURL) = {}
  BY DEF SearchStillHolds, ShortURLsOf, Bound
<1>1. CASE q # p
  <2>1. pc[q] = "add" /\ i[q] = 1 /\ call'[q] = call[q]
    BY <1>1, StepFacts
  <2>2. m' = m
    BY <1>1, <2>1, Bystanders DEF Locked
  <2> QED
    BY <2>1, <2>2 DEF UniqueInv, SearchStillHolds
<1>2. CASE q = p
  <2>1. FindMiss(p)
    <3>1. ~Begins(p)
      BY <1>2 DEF Begins, BeginAdd, BeginDeleteUserURLs, BeginGet, Begin
    <3>2. ~Lock(p)
      <4> SUFFICES ASSUME Lock(p)
                   PROVE  pc'[p] # "add"
        BY <1>2
      <4>1. call[p] \in Calls /\ call[p] # NoCall
        BY DEF Lock
      <4>2. call[p].op \in {"AddURL", "DeleteUserURLs", "Get"}
        BY <4>1, NoBatches, CallFacts
      <4>3. FirstLabel(call[p]) # "add"
        BY <4>2 DEF FirstLabel
      <4> QED
        BY <4>3 DEF Lock
    <3>3. ~(FindHit(p) \/ Put(p) \/ AddEnd(p) \/ Skip(p) \/ Mark(p) \/ DeleteEnd(p) \/ Read(p))
      BY <1>2 DEF FindHit, Put, AddEnd, Skip, Mark, DeleteEnd, Read
    <3>4. ~(EncodeFails(p) \/ Unlock(p))
      BY <1>2 DEF EncodeFails, Unlock
    <3>5. ~Encode(p)
      BY <1>2 DEF Encode
    <3> QED
      BY <3>1, <3>2, <3>3, <3>4, <3>5 DEF StepOf, Steps
  <2> QED
    BY <1>2, <2>1 DEF FindMiss
<1> QED
  BY <1>1, <1>2

\* What is in the file is the text of what the map of the process that serves
\* has, so a write, whole or not, leaves two short URLs one text only if their
\* original URLs differ.
LEMMA WriteKeepsUnique ==
    ASSUME Inv, UniqueInv, phase = "serving", NEW p \in Procs, FileStep(p)
    PROVE  UniqueButForCoerced(Durable')
<1> USE DEF Inv, Typed, WellTyped
<1> DEFINE IsText(f) == \A s \in Bound(f) : /\ s \in Bound(m) /\ m[s] \in URLRecords
                                           /\ f[s].originalURL = AsText[m[s].originalURL]
<1>1. IsText(Durable)
  <2> SUFFICES ASSUME NEW s \in Bound(Durable)
               PROVE  /\ s \in Bound(m) /\ m[s] \in URLRecords
                      /\ Durable[s].originalURL = AsText[m[s].originalURL]
    OBVIOUS
  <2>1. Durable[s] \in URLRecords /\ s \in ShortURLs
    BY DurableType DEF Bound, URLMaps
  <2>2. AsRead(m)[s] \in {Durable[s], Tombstone(Durable[s])}
    BY DEF MapFollowsFile
  <2>3. AsRead(m)[s] # Absent /\ AsRead(m)[s].originalURL = Durable[s].originalURL
    <3>1. /\ Durable[s] # Absent /\ Tombstone(Durable[s]) # Absent
          /\ Tombstone(Durable[s]).originalURL = Durable[s].originalURL
      BY <2>1, Records
    <3> QED
      BY <2>2, <3>1
  <2>4. m[s] # Absent /\ m[s] \in URLRecords /\ AsRead(m)[s] = Stored(m[s])
    BY <2>1, <2>3, ReadMaps
  <2> QED
    BY <2>1, <2>3, <2>4, StoredRecords DEF Bound
<1>2. ASSUME NEW f, IsText(f)
      PROVE  UniqueButForCoerced(f)
  <2> SUFFICES ASSUME NEW s \in Bound(f), NEW t \in Bound(f), s # t,
                      f[s].originalURL = f[t].originalURL
               PROVE  IsCoerced(f[s].originalURL)
    BY Zenon DEF UniqueButForCoerced
  <2>1. m[s].originalURL \in OriginalURLs /\ m[t].originalURL \in OriginalURLs
    BY <1>2 DEF URLRecords
  <2>2. m[s].originalURL # m[t].originalURL
    BY <1>2 DEF UniqueInv, Unique
  <2>3. f[s].originalURL = AsText[m[s].originalURL] /\ f[s].originalURL = AsText[m[t].originalURL]
    BY <1>2
  <2> QED
    BY <2>1, <2>2, <2>3 DEF IsCoerced
<1>3. CASE Durable' = Durable
  BY <1>3 DEF UniqueInv
<1>4. CASE /\ pc[p] = "encode"
           /\ Durable' = [Durable EXCEPT ![Written(p)] = Stored(m[Written(p)])]
  <2> DEFINE w == Written(p)
  <2>1. w \in ShortURLs /\ m[w] \in URLRecords /\ m[w] # Absent
    BY <1>4, LineType, Records
  <2>2. \A s \in ShortURLs : Durable'[s] = IF s = w THEN Stored(m[w]) ELSE Durable[s]
    BY <1>4, <2>1, DurableType DEF URLMaps
  <2>3. Stored(m[w]).originalURL = AsText[m[w].originalURL]
    BY <2>1, StoredRecords
  <2> HIDE DEF w
  <2>4. IsText(Durable')
    BY <1>1, <2>1, <2>2, <2>3 DEF Bound
  <2> HIDE DEF IsText
  <2> QED
    BY <1>2, <2>4
<1> QED
  BY <1>3, <1>4, DurableStep

\* A line that readURLs accepts is of a free short URL and a free original URL,
\* or of a short URL whose lines all have one original URL.
LEMMA LoadKeepsUnique ==
    ASSUME Inv, UniqueInv, LoadRecord
    PROVE  Unique(m')
<1> DEFINE s == file[pos].ShortURL
<1>1. Load
  BY DEF Load
<1>2. /\ pos \in DOMAIN file /\ file[pos] # Torn /\ file[pos] \in StoredURLs
      /\ m' = [m EXCEPT ![s] = file[pos].rec] /\ s \in ShortURLs
      /\ m[s] = Absent => ShortURLsOf(m, file[pos].rec.originalURL) = {}
      /\ m = Content(file, pos - 1) /\ pos - 1 \in 0..Len(file) /\ file \in Seq(Lines)
  BY <1>1, LoadKeepsQuiet DEF LoadRecord, Duplicates, Lines, StoredURLs
<1>3. \A t \in ShortURLs : m'[t] = IF t = s THEN file[pos].rec ELSE m[t]
  BY <1>2 DEF Inv, Typed, WellTyped, URLMaps
<1>4. CASE m[s] = Absent
  BY <1>2, <1>3, <1>4 DEF Unique, UniqueInv, ShortURLsOf, Bound
<1>5. CASE m[s] # Absent
  <2>1. PICK k \in 1..(pos - 1) : file[k] # Torn /\ file[k].ShortURL = s /\ m[s] = file[k].rec
    BY <1>2, <1>5, BoundByLines
  <2>2. k \in DOMAIN file /\ file[k].rec \in URLRecords /\ file[pos].rec \in URLRecords
    BY <1>2, <2>1 DEF Lines, StoredURLs, TextRecords
  <2>3. /\ Durable[s] \in {file[pos].rec, Tombstone(file[pos].rec)}
        /\ Durable[s] \in {file[k].rec, Tombstone(file[k].rec)}
    BY <1>2, <2>1, <2>2 DEF Inv, LinesSurvive
  <2>4. file[pos].rec.originalURL = m[s].originalURL
    BY <2>1, <2>2, <2>3, Records
  <2>5. \A t \in Bound(m') : t \in Bound(m) /\ m'[t].originalURL = m[t].originalURL
    BY <1>3, <1>5, <2>4, <1>2 DEF Bound
  <2> QED
    BY <2>5, UniqueIsInherited DEF UniqueInv
<1> QED
  BY <1>4, <1>5

LEMMA NothingIsUnique == Unique(EmptyMap) /\ UniqueButForCoerced(EmptyMap)
BY DEF Unique, UniqueButForCoerced, Bound, EmptyMap

LEMMA UniqueInductive ==
    ASSUME MaxBatch = 0
    PROVE  Inv /\ UniqueInv /\ [Next]_vars => UniqueInv'
<1> SUFFICES ASSUME Inv, UniqueInv, [Next]_vars
             PROVE  Unique(m') /\ UniqueButForCoerced(Durable') /\ SearchStillHolds'
  BY DEF UniqueInv, Unique, UniqueButForCoerced, IsCoerced, Bound
<1>1. CASE Load
  <2>1. SearchStillHolds' /\ Durable' = Durable
    BY <1>1, LoadKeepsQuiet DEF SearchStillHolds
  <2>2. Unique(m')
    BY <1>1, LoadKeepsUnique DEF Load, LoadFails, LoadEnd, UniqueInv
  <2> QED
    BY <2>1, <2>2 DEF UniqueInv
<1>2. ASSUME NEW p \in Procs, StepOf(p)
      PROVE  Unique(m') /\ UniqueButForCoerced(Durable') /\ SearchStillHolds'
  BY <1>2, StepKeepsUnique, StepKeepsSearch, WriteKeepsUnique, StepFacts DEF Inv
<1>3. ASSUME Start
      PROVE  Unique(m') /\ SearchStillHolds'
  BY <1>3, NothingIsUnique DEF Start, SearchStillHolds
<1>4. CASE Crash
  <2>1. CASE file' = file
    BY <1>3, <1>4, <2>1, DurableIsContent DEF Crash, UniqueInv
  <2>2. ASSUME NEW p \in Procs, pc[p] = "encode", ~encErr, file' \in Remains(p)
        PROVE  UniqueButForCoerced(Durable')
    <3>1. FileStep(p)
      BY <2>2, WhatRemains DEF Inv, FileStep
    <3> QED
      BY <1>4, <3>1, WriteKeepsUnique DEF Crash
  <2> QED
    BY <1>3, <1>4, <2>1, <2>2 DEF Crash
<1>5. CASE Retry
  BY <1>3, <1>5, DurableIsContent DEF Retry, UniqueInv
<1>6. CASE UNCHANGED vars
  BY <1>6, DurableIsContent DEF vars, UniqueInv, SearchStillHolds
<1> QED
  BY <1>1, <1>2, <1>4, <1>5, <1>6 DEF Next, StepOf

LEMMA UniqueInvariance ==
    ASSUME MaxBatch = 0
    PROVE  Spec => []UniqueInv
<1>1. Init => UniqueInv
  BY NothingIsUnique, DurableIsContent, EmptyContent DEF Init, UniqueInv, SearchStillHolds
<1>2. Inv /\ UniqueInv /\ [Next]_vars => UniqueInv'
  BY UniqueInductive
<1> QED
  BY <1>1, <1>2, Invariance, PTL DEF Spec

(***************************************************************************)
(* As long as only AddURL adds, an original URL has one short URL, in every*)
(* state of every process that ever opens the file: the mutex alone keeps  *)
(* the search of AddURL and its write together.                            *)
(***************************************************************************)
THEOREM OriginalsStayUnique ==
    ASSUME MaxBatch = 0
    PROVE  Spec => []OriginalURLsAreUnique
<1>1. UniqueInv => OriginalURLsAreUnique
  BY DEF UniqueInv, Unique, OriginalURLsAreUnique
<1> QED
  BY <1>1, UniqueInvariance, PTL

\* No line is cut short.
NoneIsTorn == \A k \in DOMAIN file : file[k] # Torn

LEMMA WholeLinesInductive ==
    ASSUME TornWrites = FALSE
    PROVE  Inv /\ NoneIsTorn /\ [Next]_vars => NoneIsTorn'
<1> SUFFICES ASSUME Inv, NoneIsTorn, [Next]_vars
             PROVE  NoneIsTorn'
  OBVIOUS
<1>1. CASE file' = file
  BY <1>1 DEF NoneIsTorn
<1>2. ASSUME NEW p \in Procs, pc[p] = "encode", file' = Append(file, Line(p))
      PROVE  NoneIsTorn'
  <2>1. Line(p) \in Lines /\ Line(p) # Torn /\ file \in Seq(Lines)
    BY <1>2, LineType, TornIsNoRecord DEF Inv, Typed, WellTyped, Lines
  <2> QED
    BY <1>2, <2>1 DEF NoneIsTorn
<1>3. \/ file' = file
      \/ \E p \in Procs : pc[p] = "encode" /\ file' \in Remains(p) \cup {Append(file, Line(p))}
  <2>1. CASE Load
    BY <2>1, LoadKeepsQuiet
  <2>2. ASSUME NEW p \in Procs, StepOf(p), file' # file
        PROVE  pc[p] = "encode" /\ file' \in Remains(p) \cup {Append(file, Line(p))}
    BY <2>2 DEF StepOf, Begins, BeginAdd, BeginDeleteUserURLs, BeginGet, Begin, Lock, Steps,
       FindHit, FindMiss, Put, AddEnd, Skip, Mark, DeleteEnd, Read, Encode, EncodeFails, Unlock
  <2>3. CASE Crash
    BY <2>3 DEF Crash
  <2>4. CASE Retry \/ UNCHANGED vars
    BY <2>4 DEF Retry, vars
  <2> QED
    BY <2>1, <2>2, <2>3, <2>4 DEF Next, StepOf
<1>4. \A p \in Procs : Remains(p) = {file, Append(file, Line(p))}
  BY DEF Remains
<1> QED
  BY <1>1, <1>2, <1>3, <1>4

(***************************************************************************)
(* As long as only AddURL adds and no write is partial, readURLs gives up  *)
(* on no file but one where two bodies, one of them at least no text, have *)
(* become the same original URL: whatever writes failed and wherever the   *)
(* process crashed.                                                        *)
(***************************************************************************)
THEOREM CoercedURLsAlone ==
    ASSUME MaxBatch = 0, TornWrites = FALSE
    PROVE  Spec => []FailsOnlyForCoercedURLs
<1>1. Init => NoneIsTorn
  BY DEF Init, NoneIsTorn
<1>2. Inv /\ NoneIsTorn /\ [Next]_vars => NoneIsTorn'
  BY WholeLinesInductive
<1>3. Inv /\ UniqueInv /\ NoneIsTorn => FailsOnlyForCoercedURLs
  BY DEF Inv, UniqueInv, UniqueButForCoerced, NoneIsTorn, FailsForAReason, FailsOnlyForCoercedURLs
<1> QED
  BY <1>1, <1>2, <1>3, Invariance, UniqueInvariance, PTL DEF Spec
=============================================================================
